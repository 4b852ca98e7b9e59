------------------------------- MODULE ContextSelection -------------------------------
(***************************************************************************)
(* Which files of the repository a review shows the model beside the diff.   *)
(* The imports are indexed, the graph is walked from the changed files in      *)
(* both directions, what it reaches is ranked, and the best are read.  The      *)
(* result says COMPLETE, PARTIAL or UNAVAILABLE; any step may fail or fall      *)
(* short.  Beside it the existing tests of the change are looked up by name.   *)
(***************************************************************************)
EXTENDS Naturals, Sequences, SequencesExt, FiniteSets, FiniteSetsExt

CONSTANTS Files,           \* the source files of the repository, numbered by path
          Repos,           \* what each of them imports; the changed ones; whether another change is not eligible
          Tests, Barrels,  \* those that are tests; those that only re-export others
          Package(_),      \* of a file: apps/x or packages/x
          Related(_),      \* the tests a file's name points to, nearest first
          Aliased, Rooted, \* the pairs of files whose import is written by an alias; by the alias @/
          MaxHops, MaxFiles,     \* of .aipr.yml
          Batch,           \* contents read at a time
          MaxSources, MaxRelated \* MAX_TEST_SOURCES, MAX_RELATED_TESTS

\* What the constants stand for; an instance assumes it.
ContextConstants == /\ Files \subseteq Nat /\ IsFiniteSet(Files)
                    /\ Tests \cup Barrels \subseteq Files
                    /\ Rooted \subseteq Aliased /\ Aliased \subseteq Files \X Files
                    /\ \A f \in Files : Related(f) \in Seq(Files)
                    /\ {MaxHops, MaxFiles, Batch, MaxSources, MaxRelated} \subseteq Nat
                    /\ Repos \subseteq [imports : [Files -> SUBSET Files], gone : BOOLEAN,
                                        changed : SUBSET Files \ {{}}]

VARIABLES repo,
          listed,    \* the files of the tree that was listed
          aliases,   \* the paths of tsconfig.json: read, odd (in a way that is not supported) or lost
          indexed,   \* the files whose imports are known
          hops,      \* the distance of the files reached so far
          queue,     \* of the walk
          kept, dropped,     \* the candidates
          shown,     \* those that were read
          next,      \* how many of them were asked for
          reasons, phase, status,
          tests      \* what the search for missing tests is given

vars == <<repo, listed, aliases, indexed, hops, queue, kept, dropped, shown, next, reasons, phase, status, tests>>

Cut(seq, most) == SubSeq(seq, 1, IF Len(seq) < most THEN Len(seq) ELSE most)

NoTests == [sources |-> {}, related |-> {}, shown |-> {}, partial |-> FALSE]

Init ==
    /\ repo \in Repos
    /\ listed = {} /\ aliases = "none" /\ indexed = {} /\ hops = [f \in {} |-> 0] /\ queue = <<>>
    /\ kept = <<>> /\ dropped = <<>> /\ shown = {} /\ next = 0
    /\ reasons = {} /\ phase = "tree" /\ status = "UNAVAILABLE" /\ tests = NoTests

Changed == repo.changed \cap listed

-------------------------------------------------------------------------------
(* buildReviewContext: what there is *)

Finish(why) ==
    /\ phase' = "done" /\ reasons' = why
    /\ status' = IF status # "UNAVAILABLE" /\ why # {} THEN "PARTIAL" ELSE status

\* The listing may be cut by GitHub, or not be had at all.
ListTree ==
    /\ phase = "tree"
    /\ \/ Finish({"TREE_UNAVAILABLE"}) /\ UNCHANGED listed
       \/ \E cut \in BOOLEAN :
            /\ IF cut THEN listed' \in SUBSET Files ELSE listed' = Files
            /\ LET why == (IF cut THEN {"TREE_TRUNCATED"} ELSE {})
                          \cup (IF repo.gone \/ ~(repo.changed \subseteq listed') THEN {"MISSING_CHANGED_FILE"} ELSE {})
               IN IF repo.changed \cap listed' = {} THEN Finish(why)
                  ELSE reasons' = why /\ phase' = "aliases" /\ UNCHANGED status
    /\ UNCHANGED <<repo, aliases, indexed, hops, queue, kept, dropped, shown, next, tests>>

\* A tsconfig.json that cannot be used is a reason.  getFileContent answers null for one
\* that is not there and for one that could not be read.
ReadAliases ==
    /\ phase = "aliases" /\ phase' = "index"
    /\ aliases' \in {"read", "odd", "lost"}
    /\ reasons' = reasons \cup IF aliases' = "odd" THEN {"UNSUPPORTED_RESOLUTION"} ELSE {}
    /\ UNCHANGED <<repo, listed, indexed, hops, queue, kept, dropped, shown, next, status, tests>>

\* The import of g by f leads to a file of the listing.
Resolves(f, g) == g \in listed /\ (<<f, g>> \in Aliased => aliases = "read")

\* The imports whose failure to resolve is noticed: those of a file, and those by @/.
Unresolved == {f \in indexed' : \E g \in repo.imports[f] : ~Resolves(f, g) /\ <<f, g>> \notin Aliased \ Rooted}

\* buildImportIndex: its coverage is COMPLETE only when every file was indexed.
Index ==
    /\ phase = "index" /\ phase' = "walk"
    /\ indexed' \in SUBSET listed  \* the rest was not had, is too large, or the budget had ended
    /\ \E trouble \in {{}, {"CACHE_UNAVAILABLE"}} :
          LET missed == IF indexed' # listed THEN {"FILE_UNAVAILABLE"} ELSE {} IN
          /\ status' = IF missed \cup trouble = {} THEN "COMPLETE" ELSE "PARTIAL"
          /\ reasons' = reasons \cup missed \cup trouble \cup IF Unresolved = {} THEN {} ELSE {"UNRESOLVED_IMPORT"}
    /\ hops' = [f \in Changed |-> 0] /\ queue' = SetToSeq(Changed)
    /\ UNCHANGED <<repo, listed, aliases, kept, dropped, shown, next, tests>>

-------------------------------------------------------------------------------
(* selectContextFiles *)

Forward(f) == IF f \in indexed THEN {g \in repo.imports[f] \ {f} : Resolves(f, g)} ELSE {}
Importers(f) == {g \in indexed : f \in Forward(g)}
Neighbours(f) == Forward(f) \cup Importers(f)

Set(f, found) == [g \in DOMAIN hops \cup found |-> IF g \in found THEN hops[f] + 1 ELSE hops[g]]
Found(f)      == IF hops[f] < MaxHops THEN Neighbours(f) \ DOMAIN hops ELSE {}

\* A plausible bug: the walk goes on from what it found last.
WalkDeep == LET f == Last(queue) IN hops' = Set(f, Found(f)) /\ queue' = Front(queue) \o SetToSeq(Found(f))
\* walkBfs takes the head of its queue.
WalkBfs == LET f == Head(queue) IN hops' = Set(f, Found(f)) /\ queue' = Tail(queue) \o SetToSeq(Found(f))

Walk ==
    /\ phase = "walk"
    /\ IF queue # <<>> THEN WalkBfs /\ UNCHANGED phase ELSE phase' = "match" /\ UNCHANGED <<hops, queue>>
    /\ UNCHANGED <<repo, listed, aliases, indexed, kept, dropped, shown, next, reasons, status, tests>>

\* The two nearest of the tests that by their name belong to a file that was reached.
Closest(f)  == ToSet(Cut(SelectSeq(Related(f), LAMBDA t : t \in listed \ Changed /\ Package(t) = Package(f)), 2))
Sources(t)  == {f \in DOMAIN hops \ Tests : hops[f] < MaxHops /\ t \in Closest(f)}
NameMatched == {t \in Tests \ DOMAIN hops : Sources(t) # {}}

Match ==
    /\ phase = "match" /\ phase' = "rank"
    /\ hops' = [g \in DOMAIN hops \cup NameMatched |->
                  IF g \in NameMatched THEN 1 + Min({hops[f] : f \in Sources(g)}) ELSE hops[g]]
    /\ UNCHANGED <<repo, listed, aliases, indexed, queue, kept, dropped, shown, next, reasons, status, tests>>

Relation(f) == IF f \in Tests THEN "TEST"
               ELSE IF Forward(f) \cap Changed # {} THEN "CALLER"
               ELSE IF Importers(f) \cap Changed # {} THEN "DEPENDENCY"
               ELSE "TRANSITIVE"

\* The changed files around f: nothing is followed past a changed one.
ChangedReach(f) ==
    LET around[n \in 0..Cardinality(Files)] ==
          IF n = 0 THEN {f}
          ELSE LET near == around[n - 1] IN near \cup UNION {Neighbours(g) : g \in near \ (Changed \ {f})}
    IN Cardinality((around[Cardinality(Files)] \cap Changed) \ {f})

\* Real code before barrels; near, reached by many changes, imported by few, by path.
Rank(f)      == <<IF f \in Barrels THEN 1 ELSE 0, hops[f], Cardinality(Files) - ChangedReach(f), Cardinality(Importers(f)), f>>
Before(a, b) == \E i \in 1..5 : a[i] < b[i] /\ \A j \in 1..(i - 1) : a[j] = b[j]

\* A place for a caller, for a test and for a dependency, before the rest.
Groups == [CALLER |-> 1, TEST |-> 2, DEPENDENCY |-> 3, TRANSITIVE |-> 4]
Reserve(rank) ==
    [f \in DOMAIN rank |->
        IF \E g \in DOMAIN rank : Relation(g) = Relation(f) /\ Before(rank[g], rank[f]) THEN 4 ELSE Groups[Relation(f)]]

\* The orders of some files.
Orders(some) == {order \in [1..Cardinality(some) -> some] : ToSet(order) = some}

RankCandidates ==
    /\ phase = "rank" /\ phase' = "read"
    /\ LET rank  == [f \in DOMAIN hops \ Changed |-> Rank(f)]
           place == Reserve(rank)
           Earlier(f, g) == place[f] < place[g] \/ (place[f] = place[g] /\ Before(rank[f], rank[g]))
       IN \E order \in Orders(DOMAIN rank) :
            /\ \A i, j \in DOMAIN order : i < j => Earlier(order[i], order[j])
            /\ kept' = Cut(order, MaxFiles) /\ dropped' = SubSeq(order, MaxFiles + 1, Len(order))
    /\ UNCHANGED <<repo, listed, aliases, indexed, hops, queue, shown, next, reasons, status, tests>>

\* A batch of the contents, each of which may be lost; after the deadline none is read.
ReadContents ==
    /\ phase = "read"
    /\ IF next >= Len(kept) THEN Finish(reasons) /\ UNCHANGED <<shown, next>>
       ELSE LET asked == ToSet(Cut(SubSeq(kept, next + 1, Len(kept)), Batch)) IN
            \/ /\ Finish(reasons \cup {"CONTENT_UNAVAILABLE"}) /\ UNCHANGED <<shown, next>>
            \/ \E read \in SUBSET asked :
                 /\ shown' = shown \cup read /\ next' = next + Batch
                 /\ reasons' = reasons \cup IF read = asked THEN {} ELSE {"CONTENT_UNAVAILABLE"}
                 /\ UNCHANGED <<phase, status>>
    /\ UNCHANGED <<repo, listed, aliases, indexed, hops, queue, kept, dropped, tests>>

-------------------------------------------------------------------------------
(* collectTestGapInput: the tests by their name, in a listing of its own *)

\* The first n of some files by their path.
First(n, some) == {f \in some : Cardinality({g \in some : g < f}) < n}

\* A plausible bug: a listing that could not be had is an empty one.
MissedOnly(missing, wanted, read) == read # wanted
Missed(missing, wanted, read)     == missing \/ read # wanted

CollectTests ==
    /\ phase = "done" /\ phase' = "tests"
    /\ \E missing, cut \in BOOLEAN :
       \E paths \in IF missing THEN {{}} ELSE IF cut THEN SUBSET Files ELSE {Files} :
         LET sources == First(MaxSources, repo.changed \ Tests)
             related == First(MaxRelated, {t \in paths \ repo.changed : \E f \in sources : Contains(Related(f), t)})
         IN \E read \in SUBSET (sources \cup related) :
              tests' = IF sources = {} THEN tests
                       ELSE [sources |-> sources, related |-> related, shown |-> read,
                             partial |-> cut \/ Missed(missing, sources \cup related, read)]
    /\ UNCHANGED <<repo, listed, aliases, indexed, hops, queue, kept, dropped, shown, next, reasons, status>>

-------------------------------------------------------------------------------

Next == ListTree \/ ReadAliases \/ Index \/ Walk \/ Match \/ RankCandidates \/ ReadContents \/ CollectTests

Spec == Init /\ [][Next]_vars

-------------------------------------------------------------------------------
(* Properties *)

\* What is within n steps of a changed file, of those pairs of files.
Within(n, steps) ==
    {f \in Files : \E path \in [0..n -> Files] :
        /\ path[0] \in repo.changed /\ path[n] = f
        /\ \A i \in 1..n : path[i] = path[i - 1] \/ <<path[i - 1], path[i]>> \in steps}

Edges   == {e \in Files \X Files : e[2] \in Neighbours(e[1])}
Imports == {e \in Files \X Files : e[2] \in repo.imports[e[1]] \/ e[1] \in repo.imports[e[2]]}

\* The walk gives every file its shortest distance to a changed one, along the imports in
\* both directions, and reaches no other: it takes the files in the order it found them.
NearestFirst ==
    phase = "match" =>
        \A n \in 0..MaxHops : {f \in DOMAIN hops : hops[f] <= n} = Within(n, Edges) \cap listed

\* Context called COMPLETE leaves nothing out in silence, but for aliases that were lost:
\* every file that the imports of the repository connect to the change is shown, or named
\* as dropped for lack of room; and every test that belongs to the change by name is shown unless the view is partial.
NothingMissed ==
    /\ (phase = "done" /\ status = "COMPLETE" /\ aliases # "lost") =>
          Within(MaxHops, Imports) \subseteq repo.changed \cup shown \cup ToSet(dropped)
    /\ (phase = "tests" /\ ~tests.partial) =>
          \A f \in tests.sources : \A t \in ToSet(Related(f)) \ repo.changed :
             t \in tests.shown \/ Cardinality(tests.related) = MaxRelated

\* What a review is shown beside its diff is the nearest there is, and nothing is left out unsaid.
SelectionSound == NearestFirst /\ NothingMissed
===============================================================================
