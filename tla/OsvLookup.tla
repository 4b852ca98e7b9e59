--------------------------------- MODULE OsvLookup ---------------------------------
(***************************************************************************)
(* One lookup of packages in the OSV database: pages of advisory ids are     *)
(* asked for in batches, then the records behind the ids.  Any call fails or  *)
(* answers in part, the database pages without end, and the budget of time    *)
(* stops the rest; what is known by then is the outcome.                      *)
(***************************************************************************)
EXTENDS Naturals, FiniteSets, Sequences, SequencesExt, TLC

CONSTANTS Packages,     \* the packages of a diff, each once, in order
          Advisories,
          MaxRefs, MaxBatch, MaxRequests, MaxPages, MaxIds, MaxDetails   \* OSV_LIMITS

\* The packages are a list, the advisories as many as they are, the limits numbers.
LookupConstants == /\ Packages \in Seq(ToSet(Packages))
                   /\ IsFiniteSet(Advisories)
                   /\ {MaxRefs, MaxBatch, MaxIds} \subseteq Nat

VARIABLES db,        \* the packages wanted; the ids told of each, and those with a page untold
          states,    \* of each package looked up: ids found, complete, pages read
          pending,   \* packages with a page to ask for
          batch,     \* packages whose answer came and is yet to be read
          requests,  \* batches asked for
          ids,       \* all ids found, in order
          records,   \* what each record read says
          cursor,    \* records asked for
          stopped,   \* the budget is over, or the review is abandoned
          outcome    \* what `query' returns, or that it has not

vars == <<db, states, pending, batch, requests, ids, records, cursor, stopped, outcome>>

LookedUp == SubSeq(db.wanted, 1, IF Len(db.wanted) < MaxRefs THEN Len(db.wanted) ELSE MaxRefs)

\* The orders in which the database may tell of some advisories.
Orders(some) == {order \in [1..Cardinality(some) -> some] : ToSet(order) = some}

Init ==
    /\ \E n \in 1..Len(Packages) :
          db = [wanted |-> SubSeq(Packages, 1, n),
                told |-> [p \in ToSet(SubSeq(Packages, 1, n)) |-> {}], untold |-> ToSet(SubSeq(Packages, 1, n))]
    /\ states = [p \in ToSet(LookedUp) |-> [ids |-> {}, complete |-> TRUE, pages |-> 0]]
    /\ pending = LookedUp /\ batch = <<>> /\ requests = 0 /\ ids = <<>> /\ records = [a \in {} |-> "rated"] /\ cursor = 0
    /\ stopped = FALSE /\ outcome = [done |-> FALSE]

-------------------------------------------------------------------------------
(* Pages *)

\* Mutant of FindIds: ids past the limit are left out and nothing is said of them.
FindIdsQuietly(state, told, order) ==
    LET new == SubSeq(order, 1, IF Len(order) < MaxIds - Len(ids) THEN Len(order) ELSE MaxIds - Len(ids)) IN
    [all |-> ids \o new, mine |-> state.ids \cup (told \cap ToSet(ids \o new)), fit |-> TRUE]

\* The ids told of one package, the new ones in some order: those past the limit of all
\* ids are left out.
FindIds(state, told, order) ==
    LET room == MaxIds - Len(ids)
        fit  == Len(order) <= room
        new  == SubSeq(order, 1, IF fit THEN Len(order) ELSE room) IN
    [all |-> ids \o new, mine |-> state.ids \cup (told \cap ToSet(ids \o new)), fit |-> fit]

Slice == SubSeq(pending, 1, IF Len(pending) < MaxBatch THEN Len(pending) ELSE MaxBatch)

Asking == ~outcome.done /\ batch = <<>> /\ ~stopped /\ pending # <<>> /\ requests < MaxRequests

\* The call fails, takes too long, or its answer is not one: nothing is known of the batch.
BatchFails ==
    /\ Asking
    /\ states' = [p \in DOMAIN states |-> IF p \in ToSet(Slice) THEN [states[p] EXCEPT !.complete = FALSE] ELSE states[p]]
    /\ pending' = SubSeq(pending, Len(Slice) + 1, Len(pending)) /\ requests' = requests + 1
    /\ UNCHANGED <<db, batch, ids, records, cursor, stopped, outcome>>

BatchAnswered ==
    /\ Asking
    /\ batch' = Slice
    /\ pending' = SubSeq(pending, Len(Slice) + 1, Len(pending)) /\ requests' = requests + 1
    /\ UNCHANGED <<db, states, ids, records, cursor, stopped, outcome>>

Reading == ~outcome.done /\ batch # <<>>

\* What the batch says of one package is not a page.
MalformedPage ==
    /\ Reading
    /\ LET state == states[Head(batch)] IN
       states' = [states EXCEPT ![Head(batch)] = [ids |-> state.ids, complete |-> FALSE, pages |-> state.pages + 1]]
    /\ batch' = Tail(batch)
    /\ UNCHANGED <<db, pending, requests, ids, records, cursor, stopped, outcome>>

\* A page of ids, some of which may be none; and a token for the next page, perhaps one it
\* gave before.  A package is complete only if all was read, in few enough pages.
ReadPage ==
    /\ Reading
    /\ LET package == Head(batch)
           state   == states[package] IN
       \E page \in SUBSET Advisories, token \in {"none", "next", "stale"} :
          \E told \in SUBSET page :
             \E order \in Orders(told \ ToSet(ids)) :
                LET found == FindIds(state, told, order)
                    over  == token = "stale" \/ (token = "next" /\ state.pages + 1 >= MaxPages) IN
                /\ states' = [states EXCEPT ![package] =
                                [ids |-> found.mine, pages |-> state.pages + 1,
                                 complete |-> state.complete /\ told = page /\ found.fit /\ ~over]]
                /\ ids' = found.all
                /\ pending' = IF token = "next" /\ ~over THEN Append(pending, package) ELSE pending
                /\ db' = [db EXCEPT !.told[package] = @ \cup page,
                                    !.untold = IF token = "next" THEN @ ELSE @ \ {package}]
    /\ batch' = Tail(batch)
    /\ UNCHANGED <<requests, records, cursor, stopped, outcome>>

\* The budget of the lookup, or the signal of the review.
Stop == /\ ~outcome.done /\ batch = <<>> /\ ~stopped /\ stopped' = TRUE
        /\ UNCHANGED <<db, states, pending, batch, requests, ids, records, cursor, outcome>>

-------------------------------------------------------------------------------
(* Records *)

Details == SubSeq(ids, 1, IF Len(ids) < MaxDetails THEN Len(ids) ELSE MaxDetails)

PagesOver == batch = <<>> /\ (pending = <<>> \/ stopped \/ requests >= MaxRequests)

\* The workers share a cursor and nothing else: each id is asked for once.
Detail == /\ ~outcome.done /\ PagesOver /\ ~stopped /\ cursor < Len(Details)
          /\ cursor' = cursor + 1
          /\ \/ records' = records
             \/ \E says \in {"rated", "unrated", "withdrawn"} : records' = (Details[cursor + 1] :> says) @@ records
          /\ UNCHANGED <<db, states, pending, batch, requests, ids, stopped, outcome>>

Says(id, what) == id \in DOMAIN records /\ records[id] = what

\* Mutant of Result: a record that could not be read says nothing of completeness.
ResultUnread(package) ==
    LET state == states[package]
        kept  == {i \in state.ids : ~Says(i, "withdrawn")} IN
    [vulnerabilities |-> {[id |-> i, known |-> Says(i, "rated")] : i \in kept},
     complete |-> state.complete /\ package \notin ToSet(pending)]

\* A package's advisories but the withdrawn ones; one whose record or severity is
\* missing stays, for a person to look at, and makes the package incomplete.
Result(package) ==
    LET state == states[package]
        kept  == {i \in state.ids : ~Says(i, "withdrawn")} IN
    [vulnerabilities |-> {[id |-> i, known |-> Says(i, "rated")] : i \in kept},
     complete |-> /\ state.complete /\ package \notin ToSet(pending)
                  /\ \A i \in kept : Says(i, "rated")]

Return ==
    /\ ~outcome.done /\ PagesOver /\ (stopped \/ cursor >= Len(Details))
    /\ LET results == [p \in DOMAIN states |-> Result(p)] IN
       outcome' = [done |-> TRUE, results |-> results,
                   degraded |-> Len(db.wanted) > Len(LookedUp) \/ \E p \in DOMAIN states : ~results[p].complete]
    /\ UNCHANGED <<db, states, pending, batch, requests, ids, records, cursor, stopped>>

Next == BatchFails \/ BatchAnswered \/ MalformedPage \/ ReadPage \/ Stop \/ Detail \/ Return

Spec == Init /\ [][Next]_vars

-------------------------------------------------------------------------------
(* Properties *)

\* A package said to be complete lists every advisory the database has for it, each with
\* its severity, whatever failed on the way (the bundled registry is not asked about it
\* then); a lookup that is not degraded says that of every package; and no failure takes
\* back an advisory that was found ("Failures reduce coverage; they never erase
\* already-discovered advisories", query).
CompleteIsWhole ==
    outcome.done =>
        /\ \A p \in DOMAIN outcome.results :
             LET found == outcome.results[p].vulnerabilities
                 valid == {a \in Advisories : ~Says(a, "withdrawn")} IN
             /\ states[p].ids \cap valid \subseteq {v.id : v \in found}
             /\ outcome.results[p].complete =>
                   /\ p \notin db.untold
                   /\ \A a \in db.told[p] \cap valid : [id |-> a, known |-> TRUE] \in found
        /\ ~outcome.degraded => \A p \in ToSet(db.wanted) : p \in DOMAIN outcome.results /\ outcome.results[p].complete
===============================================================================
