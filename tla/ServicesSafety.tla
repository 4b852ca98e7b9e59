------------------------------ MODULE ServicesSafety ------------------------------
(***************************************************************************)
(* What the behavioral runs and the copies of the code keep, for any tabs,    *)
(* runs, listings, sizes, limits and faults.                                 *)
(*                                                                         *)
(* One result for one request: a key is of one run and the call that reserved *)
(* a run is the only one that may dispatch it; a new run is reserved when     *)
(* none is open, and none opens again; a result closes its run, so that no    *)
(* other is accepted for it.                                                *)
(*                                                                         *)
(* The code is gone: a put that found the repository active holds the lock    *)
(* of its row until it has written, so that a disconnect that has written      *)
(* that it is inactive finds every copy there will be.                       *)
(*                                                                         *)
(* The budget: what the downloads reserved and have not given back is at      *)
(* least what they brought and what those under way may still bring, a sum    *)
(* over the blobs of the listing.                                           *)
(***************************************************************************)
EXTENDS Services, Integers, FiniteSetsExt, FiniteSetTheorems, SequenceTheorems, SequencesExt, TLAPS

-------------------------------------------------------------------------------
(* The behavioral runs: types *)

Results   == V!Outcomes \cup {"none"}
Rows      == [key : Nat, status : V!Outcomes \cup {"QUEUED", "RUNNING", "NOT_RUN", "TIMED_OUT"}, late : BOOLEAN,
              config : Nat, by : Nat, evidence : Results]
Calls     == [pc : {"idle", "look", "reserve", "dispatch", "refused", "unsure"}, key : Nat, run : Nat, config : Nat]
Workflows == [run : V!Ids, pc : {"started", "claim", "executed", "finish", "done"}, result : Results]
Reports   == [status : V!Outcomes \cup {"NOT_RUN"}, run : Nat, asserted : Results, assertedBy : Nat]
Accepted  == [run : V!Ids, result : V!Outcomes]

TypeOK == /\ run \in Seq(Rows) /\ Len(run) <= MaxRuns
          /\ report \in Reports
          /\ repo \in [active : BOOLEAN, enabled : BOOLEAN, config : Nat]
          /\ tab \in [Tabs -> [key : Nat, call : Calls]]
          /\ keys \in Nat /\ faults \in Nat
          /\ workflow \in Seq(Workflows)
          /\ accepted \in Seq(Accepted)
          /\ dispatched \in [V!Ids -> Nat]

-------------------------------------------------------------------------------
(* The behavioral runs: the inductive invariant *)

\* A key is of one run, and one run is open.
Keyed  == \A r, s \in DOMAIN run : run[r].key = run[s].key => r = s
Single == \A r, s \in DOMAIN run : V!Open(r) /\ V!Open(s) => r = s

\* The call that reserved a run is the only one that may dispatch it, and does so once.
Reserved(c) == c.pc \in {"dispatch", "refused"}
Calling == /\ \A t \in Tabs : tab[t].call.pc \in {"dispatch", "refused", "unsure"} => tab[t].call.run \in DOMAIN run
           /\ \A t \in Tabs : Reserved(tab[t].call) => dispatched[tab[t].call.run] = 0
           /\ \A t, u \in Tabs :
                 Reserved(tab[t].call) /\ Reserved(tab[u].call) /\ tab[t].call.run = tab[u].call.run => t = u
           /\ \A r \in V!Ids : dispatched[r] <= 1 /\ (r \notin DOMAIN run => dispatched[r] = 0)

\* A CI run is for a run there is, and has a result when it has executed it.
Working == \A w \in DOMAIN workflow : /\ workflow[w].run \in DOMAIN run
                                      /\ workflow[w].pc \in {"executed", "finish"} => workflow[w].result \in V!Outcomes

\* The result accepted is the evidence of its run, which it closed.
Settled == /\ \A i \in DOMAIN accepted : /\ accepted[i].run \in DOMAIN run
                                         /\ ~V!Pending(accepted[i].run)
                                         /\ run[accepted[i].run].evidence = accepted[i].result
           /\ \A i, j \in DOMAIN accepted : accepted[i].run = accepted[j].run => i = j

\* The summary shows the last result, and the last of those with an executed assertion.
IsLast(i) == /\ accepted[i].result \in V!Asserted
             /\ \A j \in DOMAIN accepted : accepted[j].result \in V!Asserted => j <= i
Reported == accepted # <<>> =>
               /\ report.run = accepted[Len(accepted)].run
               /\ \/ \A i \in DOMAIN accepted : accepted[i].result \notin V!Asserted
                  \/ \E i \in DOMAIN accepted : /\ IsLast(i)
                                                /\ report.asserted = accepted[i].result
                                                /\ report.assertedBy = accepted[i].run

IInv == TypeOK /\ Keyed /\ Single /\ Calling /\ Working /\ Settled /\ Reported

-------------------------------------------------------------------------------
(* Sequences *)

LEMMA RunTyped ==
    ASSUME TypeOK, V!RunsConstants, NEW r \in DOMAIN run
    PROVE  run[r] \in Rows /\ r \in Nat /\ r \in V!Ids
<1>1. DOMAIN run = 1..Len(run) /\ Len(run) \in Nat /\ run \in Seq(Rows) /\ Len(run) <= MaxRuns
  BY LenProperties DEF TypeOK
<1>2. QED  BY <1>1, ElementOfSeq DEF V!Ids, V!RunsConstants

LEMMA WorkflowTyped == ASSUME TypeOK, NEW w \in DOMAIN workflow PROVE workflow[w] \in Workflows /\ w \in Nat
BY ElementOfSeq, LenProperties DEF TypeOK

LEMMA AcceptedTyped == ASSUME TypeOK, NEW i \in DOMAIN accepted PROVE accepted[i] \in Accepted /\ i \in Nat
BY ElementOfSeq, LenProperties DEF TypeOK

-------------------------------------------------------------------------------
(* Beginning, and what keeps the runs *)

LEMMA Begins == ASSUME V!RunsConstants, V!Init PROVE IInv
<1>1. run = <<>> /\ workflow = <<>> /\ accepted = <<>>
  BY DEF V!Init
<1>2. run \in Seq(Rows) /\ workflow \in Seq(Workflows) /\ accepted \in Seq(Accepted) /\ Len(run) = 0
  BY <1>1, EmptySeq
<1>3. TypeOK
  BY <1>2 DEF V!Init, TypeOK, V!RunsConstants, Reports, Results, Calls, V!IdleTab, V!NoCall
<1>4. DOMAIN run = {} /\ DOMAIN workflow = {} /\ DOMAIN accepted = {}
  BY <1>1
<1>5. Calling
  BY <1>4 DEF V!Init, Calling, Reserved, V!IdleTab, V!NoCall
<1>6. QED  BY <1>1, <1>3, <1>4, <1>5 DEF IInv, Keyed, Single, Working, Settled, Reported

\* Runs may close, and nothing else of what counts happens to them.
LEMMA Keeps ==
    ASSUME IInv, TypeOK', Calling', Working', UNCHANGED <<report, accepted>>,
           DOMAIN run' = DOMAIN run,
           \A r \in DOMAIN run : /\ run'[r].key = run[r].key /\ run'[r].evidence = run[r].evidence
                                 /\ (V!Pending(r)' => V!Pending(r)) /\ (run[r].late => run'[r].late)
    PROVE  IInv'
<1>1. Keyed'
  BY DEF IInv, Keyed
<1>2. Single'
  <2>1. \A r \in DOMAIN run : V!Open(r)' => V!Open(r)
    BY DEF V!Open
  <2>2. QED  BY <2>1 DEF IInv, Single
<1>3. Settled'
  <2>1. \A i \in DOMAIN accepted : /\ accepted[i].run \in DOMAIN run /\ ~V!Pending(accepted[i].run)
                                   /\ run[accepted[i].run].evidence = accepted[i].result
    BY DEF IInv, Settled
  <2>2. ASSUME NEW i \in DOMAIN accepted'
        PROVE  /\ accepted'[i].run \in DOMAIN run' /\ ~V!Pending(accepted[i].run)'
               /\ run'[accepted'[i].run].evidence = accepted'[i].result
    <3> DEFINE r == accepted[i].run
    <3>1. accepted' = accepted /\ r \in DOMAIN run /\ ~V!Pending(r) /\ run[r].evidence = accepted[i].result
      BY <2>1
    <3>2. run'[r].evidence = run[r].evidence /\ ~(run'[r].status \in {"QUEUED", "RUNNING"})
      BY <3>1 DEF V!Pending
    <3>3. QED  BY <3>1, <3>2 DEF V!Pending
  <2>3. QED  BY <2>2 DEF IInv, Settled
<1>4. Reported'
  BY DEF IInv, Reported, IsLast
<1>5. QED  BY <1>1, <1>2, <1>3, <1>4 DEF IInv

LEMMA Stutters == ASSUME IInv, UNCHANGED V!runs PROVE IInv'
<1>1. TypeOK' /\ Calling' /\ Working'
  BY DEF IInv, V!runs, TypeOK, Calling, Working
<1>2. QED  BY <1>1, Keeps DEF V!runs, V!Pending

-------------------------------------------------------------------------------
(* The panel *)

\* A tab moves, and reserves nothing.
LEMMA TabMoves ==
    ASSUME IInv, NEW t \in Tabs, tab' \in [Tabs -> [key : Nat, call : Calls]],
           \A u \in Tabs : \/ tab'[u].call = tab[u].call
                           \/ tab'[u].call.pc \in {"idle", "look", "reserve"},
           UNCHANGED <<run, report, workflow, accepted, dispatched>>,
           repo' \in [active : BOOLEAN, enabled : BOOLEAN, config : Nat], keys' \in Nat, faults' \in Nat
    PROVE  IInv'
<1>1. TypeOK'
  BY DEF IInv, TypeOK
<1>2. Calling'
  BY DEF IInv, Calling, Reserved
<1>3. Working'
  BY DEF IInv, Working
<1>4. QED  BY <1>1, <1>2, <1>3, Keeps DEF V!Pending

LEMMA NoCallTyped == V!NoCall \in Calls /\ V!NoCall.pc = "idle"
BY DEF V!NoCall, Calls

\* The call of a tab is another.
LEMMA CallMoves ==
    ASSUME IInv, NEW t \in Tabs, NEW c \in Calls, tab' = [tab EXCEPT ![t].call = c]
    PROVE  /\ tab' \in [Tabs -> [key : Nat, call : Calls]]
           /\ tab'[t].call = c
           /\ \A u \in Tabs : u # t => tab'[u] = tab[u]
BY DEF IInv, TypeOK

LEMMA Answers ==
    ASSUME IInv, NEW t \in Tabs, tab' = [tab EXCEPT ![t].call = V!NoCall],
           UNCHANGED <<run, report, repo, keys, workflow, accepted, dispatched>>, faults' \in Nat
    PROVE  IInv'
<1>1. /\ tab' \in [Tabs -> [key : Nat, call : Calls]]
      /\ \A u \in Tabs : tab'[u].call = tab[u].call \/ tab'[u].call.pc \in {"idle", "look", "reserve"}
  BY CallMoves, NoCallTyped
<1>2. repo' \in [active : BOOLEAN, enabled : BOOLEAN, config : Nat] /\ keys' \in Nat
  BY DEF IInv, TypeOK
<1>3. QED  BY <1>1, <1>2, TabMoves

LEMMA PanelActs ==
    ASSUME IInv, NEW t \in Tabs, V!Edit(t) \/ V!Start(t) \/ V!Configure(t) \/ V!Look(t) \/ V!Crash(t)
    PROVE  IInv'
<1>1. /\ tab \in [Tabs -> [key : Nat, call : Calls]] /\ keys \in Nat /\ faults \in Nat
      /\ repo \in [active : BOOLEAN, enabled : BOOLEAN, config : Nat]
  BY DEF IInv, TypeOK
<1>2. CASE V!Edit(t)
  <2>1. tab' \in [Tabs -> [key : Nat, call : Calls]] /\ \A u \in Tabs : tab'[u].call = tab[u].call
    BY <1>1, <1>2 DEF V!Edit
  <2>2. QED  BY <1>1, <1>2, <2>1, TabMoves DEF V!Edit
<1>3. CASE V!Start(t)
  <2> DEFINE key == IF tab[t].key = 0 THEN keys' ELSE tab[t].key
             c   == [V!NoCall EXCEPT !.pc = "look", !.key = key]
  <2>1. tab' = [tab EXCEPT ![t].key = key, ![t].call = c]
    BY <1>3 DEF V!Start
  <2>2. keys' \in Nat
    BY <1>1, <1>3 DEF V!Start
  <2>3. key \in Nat
    BY <1>1, <2>2
  <2> HIDE DEF key
  <2>4. c \in Calls /\ c.pc = "look"
    BY <2>3 DEF V!NoCall, Calls
  <2> HIDE DEF c
  <2>5. /\ tab' \in [Tabs -> [key : Nat, call : Calls]]
        /\ \A u \in Tabs : tab'[u].call = tab[u].call \/ tab'[u].call = c
    <3> DEFINE mid == [tab EXCEPT ![t].key = key]
    <3>1. mid \in [Tabs -> [key : Nat, call : Calls]] /\ \A u \in Tabs : mid[u].call = tab[u].call
      BY <1>1, <2>3
    <3>2. tab' = [mid EXCEPT ![t].call = c]
      BY <2>1
    <3> HIDE DEF mid
    <3>3. QED  BY <2>4, <3>1, <3>2
  <2>6. QED  BY <1>1, <1>3, <2>2, <2>4, <2>5, TabMoves DEF V!Start
<1>4. CASE V!Configure(t)
  <2>1. PICK on \in BOOLEAN : repo' = [repo EXCEPT !.enabled = on, !.config = @ + 1]
    BY <1>4 DEF V!Configure
  <2> DEFINE n == repo.config + 1
  <2>2. n \in Nat
    BY <1>1
  <2>3. repo' = [repo EXCEPT !.enabled = on, !.config = n]
    BY <2>1
  <2> HIDE DEF n
  <2>4. repo' \in [active : BOOLEAN, enabled : BOOLEAN, config : Nat]
    BY <1>1, <2>2, <2>3
  <2>5. tab' \in [Tabs -> [key : Nat, call : Calls]] /\ \A u \in Tabs : tab'[u].call = tab[u].call
    BY <1>1, <1>4 DEF V!Configure
  <2>6. QED  BY <1>1, <1>4, <2>4, <2>5, TabMoves DEF V!Configure
<1>5. CASE V!Look(t)
  <2>1. CASE V!Answer(t)
    BY <1>1, <1>5, <2>1, Answers DEF V!Look, V!Answer
  <2>2. CASE tab' = [tab EXCEPT ![t].call = [@ EXCEPT !.pc = "reserve", !.config = repo.config]] /\ UNCHANGED faults
    <3> DEFINE c == [tab[t].call EXCEPT !.pc = "reserve", !.config = repo.config]
    <3>1. c \in Calls /\ c.pc = "reserve"
      BY <1>1 DEF Calls
    <3>2. tab' = [tab EXCEPT ![t].call = c]
      BY <1>1, <2>2
    <3> HIDE DEF c
    <3>3. /\ tab' \in [Tabs -> [key : Nat, call : Calls]]
          /\ \A u \in Tabs : tab'[u].call = tab[u].call \/ tab'[u].call.pc \in {"idle", "look", "reserve"}
      BY <3>1, <3>2, CallMoves
    <3>4. QED  BY <1>1, <1>5, <2>2, <3>3, TabMoves DEF V!Look
  <2>3. QED  BY <1>5, <2>1, <2>2 DEF V!Look
<1>6. CASE V!Crash(t)
  <2>1. faults + 1 \in Nat
    BY <1>1
  <2>2. QED  BY <1>6, <2>1, Answers DEF V!Crash
<1>7. QED  BY <1>2, <1>3, <1>4, <1>5, <1>6

-------------------------------------------------------------------------------
(* The server *)

\* A run is reserved when none is open, with a key that no run has.
LEMMA Reserves ==
    ASSUME IInv, V!RunsConstants, NEW t \in Tabs, NEW x \in Rows, NEW c \in Calls,
           V!Of(x.key) = {}, \A r \in DOMAIN run : ~V!Open(r), Len(run) < MaxRuns,
           run' = Append(run, x), tab' = [tab EXCEPT ![t].call = c],
           c.pc = "idle" \/ (c.pc = "dispatch" /\ c.run = Len(run) + 1),
           UNCHANGED <<report, repo, keys, workflow, accepted, dispatched, faults>>
    PROVE  IInv'
<1> DEFINE n == Len(run) + 1
<1>1. /\ run \in Seq(Rows) /\ run' \in Seq(Rows)
      /\ n \in Nat /\ n \in V!Ids /\ n \notin DOMAIN run /\ DOMAIN run' = DOMAIN run \cup {n}
      /\ run'[n] = x /\ \A r \in DOMAIN run : run'[r] = run[r]
      /\ Len(run') <= MaxRuns
  <2>1. run \in Seq(Rows) /\ Len(run) \in Nat /\ DOMAIN run = 1..Len(run)
    BY LenProperties DEF IInv, TypeOK
  <2>2. /\ run' \in Seq(Rows) /\ Len(run') = n /\ DOMAIN run' = 1..n
        /\ run'[n] = x /\ \A r \in 1..Len(run) : run'[r] = run[r]
    BY <2>1, AppendProperties, LenProperties
  <2>3. QED  BY <2>1, <2>2 DEF V!RunsConstants, V!Ids
<1> HIDE DEF n
<1>2. /\ tab' \in [Tabs -> [key : Nat, call : Calls]] /\ tab'[t].call = c
      /\ \A u \in Tabs : u # t => tab'[u] = tab[u]
  BY CallMoves
<1>3. TypeOK'
  BY <1>1, <1>2 DEF IInv, TypeOK
<1>4. Keyed'
  BY <1>1 DEF IInv, Keyed, V!Of
<1>5. Single'
  <2>1. \A r \in DOMAIN run : ~V!Open(r)'
    BY <1>1 DEF V!Open, V!Pending
  <2>2. QED  BY <1>1, <2>1 DEF Single
<1>6. Calling'
  <2>1. dispatched[n] = 0
    BY <1>1 DEF IInv, Calling
  <2>2. \A u \in Tabs : u # t /\ Reserved(tab[u].call) => tab[u].call.run # n
    BY <1>1 DEF IInv, Calling, Reserved
  <2>3. c.pc = "idle" \/ (c.pc = "dispatch" /\ c.run = n)
    BY DEF n
  <2>4. QED  BY <1>1, <1>2, <2>1, <2>2, <2>3 DEF IInv, Calling, Reserved
<1>7. Working'
  BY <1>1 DEF IInv, Working
<1>8. Settled'
  BY <1>1 DEF IInv, Settled, V!Pending
<1>9. Reported'
  BY DEF IInv, Reported, IsLast
<1>10. QED  BY <1>3, <1>4, <1>5, <1>6, <1>7, <1>8, <1>9 DEF IInv

LEMMA ReserveActs == ASSUME IInv, V!RunsConstants, NEW t \in Tabs, V!Reserve(t) PROVE IInv'
<1> DEFINE key    == tab[t].call.key
           x(s)   == [key |-> key, status |-> s, late |-> FALSE, config |-> tab[t].call.config, by |-> 0, evidence |-> "none"]
           c      == [V!NoCall EXCEPT !.pc = "dispatch", !.run = Len(run) + 1]
<1>1. key \in Nat /\ tab[t].call.config \in Nat /\ faults \in Nat
  BY DEF IInv, TypeOK, Calls
<1>2. x("QUEUED") \in Rows /\ x("NOT_RUN") \in Rows /\ x("QUEUED").key = key /\ x("NOT_RUN").key = key
  BY <1>1 DEF Rows, Results
<1>3. c \in Calls /\ c.pc = "dispatch" /\ c.run = Len(run) + 1
  <2>1. Len(run) + 1 \in Nat
    BY LenProperties DEF IInv, TypeOK
  <2>2. QED  BY <2>1 DEF V!NoCall, Calls
<1>4. CASE V!Answer(t) /\ UNCHANGED run
  BY <1>1, <1>4, Answers DEF V!Reserve, V!Answer
<1>5. CASE V!Of(key) = {} /\ V!Room /\ Len(run) < MaxRuns /\ run' = Append(run, x("QUEUED"))
           /\ tab' = [tab EXCEPT ![t].call = c] /\ UNCHANGED faults
  <2>1. UNCHANGED <<report, repo, keys, workflow, accepted, dispatched>>
    BY DEF V!Reserve
  <2> HIDE DEF x, c
  <2>2. QED  BY <1>2, <1>3, <1>5, <2>1, Reserves DEF V!Room
<1>6. CASE V!Of(key) = {} /\ V!Room /\ Len(run) < MaxRuns /\ run' = Append(run, x("NOT_RUN")) /\ V!Answer(t)
  <2>1. UNCHANGED <<report, repo, keys, workflow, accepted, dispatched>>
    BY DEF V!Reserve
  <2> HIDE DEF x, c
  <2>2. QED  BY <1>2, <1>6, <2>1, NoCallTyped, Reserves DEF V!Room, V!Answer
<1>7. QED  BY <1>4, <1>5, <1>6 DEF V!Reserve

\* The call of the one tab that may, dispatches the run or leaves it.
LEMMA DispatchActs == ASSUME IInv, V!RunsConstants, NEW t \in Tabs, V!Dispatch(t) PROVE IInv'
<1> DEFINE r == tab[t].call.run
           y == [run |-> r, pc |-> "started", result |-> "none"]
<1>1. /\ tab \in [Tabs -> [key : Nat, call : Calls]] /\ tab[t].call \in Calls
      /\ dispatched \in [V!Ids -> Nat] /\ workflow \in Seq(Workflows) /\ faults \in Nat
  BY DEF IInv, TypeOK
<1>2. tab[t].call.pc = "dispatch" /\ r \in DOMAIN run /\ dispatched[r] = 0
  BY DEF V!Dispatch, IInv, Calling, Reserved
<1>3. r \in V!Ids
  BY <1>2, RunTyped DEF IInv
<1>4. PICK c \in Calls : /\ tab' = [tab EXCEPT ![t].call = c]
                         /\ \/ c.pc = "idle"
                            \/ c.pc \in {"unsure", "refused"} /\ c.run = r
                         /\ c.pc = "refused" => UNCHANGED dispatched
  <2>1. CASE V!Answer(t)
    BY <2>1, NoCallTyped DEF V!Answer
  <2>2. ASSUME NEW pc \in {"unsure", "refused"}, V!Call(t, pc), pc = "refused" => UNCHANGED dispatched
        PROVE  \E c \in Calls : /\ tab' = [tab EXCEPT ![t].call = c]
                                /\ c.pc \in {"unsure", "refused"} /\ c.run = r
                                /\ c.pc = "refused" => UNCHANGED dispatched
    <3> DEFINE c == [tab[t].call EXCEPT !.pc = pc]
    <3>1. c \in Calls /\ c.pc = pc /\ c.run = r
      BY <1>1 DEF Calls
    <3>2. tab' = [tab EXCEPT ![t].call = c]
      BY <1>1, <2>2 DEF V!Call
    <3> HIDE DEF c
    <3>3. QED  BY <2>2, <3>1, <3>2
  <2>3. QED  BY <2>1, <2>2 DEF V!Dispatch
<1>5. /\ tab' \in [Tabs -> [key : Nat, call : Calls]] /\ tab'[t].call = c
      /\ \A u \in Tabs : u # t => tab'[u] = tab[u]
  BY <1>4, CallMoves
<1>6. /\ \/ UNCHANGED <<workflow, dispatched>>
         \/ workflow' = Append(workflow, y) /\ dispatched' = [dispatched EXCEPT ![r] = @ + 1]
      /\ UNCHANGED <<run, report, repo, keys, accepted>>
  BY DEF V!Dispatch
<1>7. faults' \in Nat
  <2>1. faults + 1 \in Nat
    BY <1>1
  <2>2. QED  BY <1>1, <2>1 DEF V!Dispatch, V!Answer
<1>8. y \in Workflows /\ y.run = r /\ y.pc = "started"
  BY <1>3 DEF Workflows, Results
<1>9. /\ dispatched' \in [V!Ids -> Nat]
      /\ \A s \in V!Ids : s # r => dispatched'[s] = dispatched[s]
      /\ dispatched'[r] <= 1
  <2>1. CASE UNCHANGED dispatched
    BY <1>1, <1>2, <1>3, <2>1
  <2>2. CASE dispatched' = [dispatched EXCEPT ![r] = @ + 1]
    <3>1. dispatched[r] + 1 = 1
      BY <1>2
    <3>2. QED  BY <1>1, <1>3, <2>2, <3>1
  <2>3. QED  BY <1>6, <2>1, <2>2
<1> HIDE DEF y
<1>10. /\ workflow' \in Seq(Workflows)
       /\ \A w \in DOMAIN workflow' : workflow'[w] = y \/ (w \in DOMAIN workflow /\ workflow'[w] = workflow[w])
  <2>1. CASE UNCHANGED workflow
    BY <1>1, <2>1
  <2>2. CASE workflow' = Append(workflow, y)
    BY <1>1, <1>8, <2>2, AppendProperties, LenProperties
  <2>3. QED  BY <1>6, <2>1, <2>2 DEF y
<1>11. TypeOK'
  BY <1>5, <1>6, <1>7, <1>9, <1>10 DEF IInv, TypeOK
<1>12. Calling'
  <2>1. \A u \in Tabs : u # t /\ Reserved(tab[u].call) => tab[u].call.run # r
    BY <1>2 DEF IInv, Calling, Reserved
  <2>2. \A u \in Tabs : tab[u].call.pc \in {"dispatch", "refused", "unsure"} =>
            tab[u].call.run \in DOMAIN run /\ tab[u].call.run \in V!Ids
    BY RunTyped DEF IInv, Calling
  <2>3. \A u \in Tabs : tab'[u].call.pc \in {"dispatch", "refused", "unsure"} => tab'[u].call.run \in DOMAIN run'
    BY <1>2, <1>4, <1>5, <1>6, <2>2
  <2>4. \A u \in Tabs : Reserved(tab'[u].call) => dispatched'[tab'[u].call.run] = 0
    BY <1>2, <1>4, <1>5, <1>9, <2>1, <2>2 DEF IInv, Calling, Reserved
  <2>5. \A u, v \in Tabs : Reserved(tab'[u].call) /\ Reserved(tab'[v].call)
                           /\ tab'[u].call.run = tab'[v].call.run => u = v
    BY <1>2, <1>4, <1>5, <2>1 DEF IInv, Calling, Reserved
  <2>6. \A s \in V!Ids : dispatched'[s] <= 1 /\ (s \notin DOMAIN run' => dispatched'[s] = 0)
    BY <1>2, <1>6, <1>9 DEF IInv, Calling
  <2>7. QED  BY <2>3, <2>4, <2>5, <2>6 DEF Calling
<1>13. Working'
  BY <1>2, <1>6, <1>8, <1>10 DEF IInv, Working
<1>14. QED  BY <1>6, <1>11, <1>12, <1>13, Keeps DEF V!Pending

\* A row of a run is another.
LEMMA RowMoves ==
    ASSUME IInv, NEW r \in DOMAIN run, NEW x \in Rows, run' = [run EXCEPT ![r] = x],
           x.key = run[r].key, x.evidence = run[r].evidence,
           x.status \in {"QUEUED", "RUNNING"} => V!Pending(r), run[r].late => x.late
    PROVE  /\ run' \in Seq(Rows) /\ Len(run') = Len(run) /\ DOMAIN run' = DOMAIN run
           /\ \A s \in DOMAIN run : /\ run'[s].key = run[s].key /\ run'[s].evidence = run[s].evidence
                                    /\ (V!Pending(s)' => V!Pending(s)) /\ (run[s].late => run'[s].late)
<1>1. run \in Seq(Rows)
  BY DEF IInv, TypeOK
<1>2. /\ run' \in Seq(Rows) /\ Len(run') = Len(run) /\ DOMAIN run' = DOMAIN run
      /\ run'[r] = x /\ \A s \in DOMAIN run : s # r => run'[s] = run[s]
  BY <1>1, ExceptSeq, LenProperties
<1>3. QED  BY <1>2 DEF V!Pending

LEMMA RecordActs == ASSUME IInv, V!RunsConstants, NEW t \in Tabs, V!Record(t) PROVE IInv'
<1> DEFINE r == tab[t].call.run
           x == [run[r] EXCEPT !.status = "ERROR"]
<1>1. r \in DOMAIN run /\ run \in Seq(Rows) /\ run[r] \in Rows
  BY RunTyped DEF V!Record, IInv, TypeOK, Calling
<1>2. V!Answer(t) /\ UNCHANGED <<report, repo, keys, workflow, accepted, dispatched>>
  BY DEF V!Record
<1>3. faults \in Nat
  BY DEF IInv, TypeOK
<1>4. CASE UNCHANGED run
  BY <1>2, <1>3, <1>4, Answers DEF V!Answer
<1>5. CASE run' = [run EXCEPT ![r].status = "ERROR"]
  <2>1. x \in Rows /\ x.key = run[r].key /\ x.evidence = run[r].evidence /\ x.status = "ERROR" /\ x.late = run[r].late
    BY <1>1 DEF Rows, V!Outcomes
  <2>2. run' = [run EXCEPT ![r] = x]
    BY <1>1, <1>5
  <2> HIDE DEF x
  <2>3. /\ run' \in Seq(Rows) /\ Len(run') = Len(run) /\ DOMAIN run' = DOMAIN run
        /\ \A s \in DOMAIN run : /\ run'[s].key = run[s].key /\ run'[s].evidence = run[s].evidence
                                 /\ (V!Pending(s)' => V!Pending(s)) /\ (run[s].late => run'[s].late)
    BY <1>1, <2>1, <2>2, RowMoves
  <2>4. /\ tab' \in [Tabs -> [key : Nat, call : Calls]]
        /\ \A u \in Tabs : tab'[u].call = tab[u].call \/ tab'[u].call.pc = "idle"
    BY <1>2, CallMoves, NoCallTyped DEF V!Answer
  <2>5. TypeOK'
    BY <1>2, <1>3, <2>3, <2>4 DEF V!Answer, IInv, TypeOK
  <2>6. Calling'
    BY <1>2, <2>3, <2>4 DEF IInv, Calling, Reserved
  <2>7. Working'
    BY <1>2, <2>3 DEF IInv, Working
  <2>8. QED  BY <1>2, <2>3, <2>5, <2>6, <2>7, Keeps
<1>6. QED  BY <1>4, <1>5 DEF V!Record

-------------------------------------------------------------------------------
(* The CI *)

\* A CI run goes on, is started, or started again.
LEMMA WorkflowMoves ==
    ASSUME IInv, workflow' \in Seq(Workflows), DOMAIN run' = DOMAIN run,
           \A w \in DOMAIN workflow' : /\ \E v \in DOMAIN workflow : workflow'[w].run = workflow[v].run
                                       /\ workflow'[w].pc \in {"executed", "finish"} => workflow'[w].result \in V!Outcomes
    PROVE  Working'
BY DEF IInv, Working

LEMMA Stepped ==
    ASSUME IInv, NEW w \in DOMAIN workflow, NEW y \in Workflows, workflow' = [workflow EXCEPT ![w] = y],
           y.run = workflow[w].run, y.pc \in {"executed", "finish"} => y.result \in V!Outcomes,
           DOMAIN run' = DOMAIN run
    PROVE  workflow' \in Seq(Workflows) /\ Working'
<1>1. workflow \in Seq(Workflows)
  BY DEF IInv, TypeOK
<1>2. /\ workflow' \in Seq(Workflows) /\ DOMAIN workflow' = DOMAIN workflow
      /\ workflow'[w] = y /\ \A v \in DOMAIN workflow : v # w => workflow'[v] = workflow[v]
  BY <1>1, ExceptSeq
<1>3. QED  BY <1>2, WorkflowMoves DEF IInv, Working

\* Its step, when it has its result or needs none.
LEMMA StepTyped ==
    ASSUME IInv, NEW w \in DOMAIN workflow, NEW pc \in {"started", "claim", "executed", "finish", "done"}, V!Step(w, pc),
           pc \in {"executed", "finish"} => workflow[w].result \in V!Outcomes, DOMAIN run' = DOMAIN run
    PROVE  workflow' \in Seq(Workflows) /\ Working'
<1> DEFINE y == [workflow[w] EXCEPT !.pc = pc]
<1>1. workflow[w] \in Workflows /\ workflow \in Seq(Workflows)
  BY WorkflowTyped DEF IInv, TypeOK
<1>2. y \in Workflows /\ y.run = workflow[w].run /\ y.pc = pc /\ y.result = workflow[w].result
  BY <1>1 DEF Workflows
<1>3. workflow' = [workflow EXCEPT ![w] = y]
  BY <1>1 DEF V!Step
<1> HIDE DEF y
<1>4. QED  BY <1>2, <1>3, Stepped

\* Nothing of the runs has changed, and no call.
LEMMA WorkflowActs ==
    ASSUME IInv, UNCHANGED <<run, report, repo, tab, keys, accepted, dispatched>>, faults' \in Nat,
           workflow' \in Seq(Workflows), Working'
    PROVE  IInv'
<1>1. TypeOK' /\ Calling'
  BY DEF IInv, TypeOK, Calling
<1>2. QED  BY <1>1, Keeps DEF V!Pending

LEMMA AskActs ==
    ASSUME IInv, NEW w \in DOMAIN workflow, V!StartAgain(w) \/ V!AskClaim(w) \/ V!AskFinish(w)
    PROVE  IInv'
<1>1. workflow[w] \in Workflows /\ workflow \in Seq(Workflows) /\ faults \in Nat
  BY WorkflowTyped DEF IInv, TypeOK
<1>2. CASE V!StartAgain(w)
  <2> DEFINE y == [workflow[w] EXCEPT !.pc = "started", !.result = "none"]
  <2>1. y \in Workflows /\ y.run = workflow[w].run /\ y.pc = "started"
    BY <1>1 DEF Workflows, Results
  <2>2. workflow' = Append(workflow, y)
    BY <1>2 DEF V!StartAgain
  <2> HIDE DEF y
  <2>3. /\ workflow' \in Seq(Workflows)
        /\ \A v \in DOMAIN workflow' : workflow'[v] = y \/ (v \in DOMAIN workflow /\ workflow'[v] = workflow[v])
    BY <1>1, <2>1, <2>2, AppendProperties, LenProperties
  <2>4. Working'
    BY <1>2, <2>1, <2>3 DEF V!StartAgain, IInv, Working
  <2>5. faults' \in Nat
    BY <1>1, <1>2 DEF V!StartAgain
  <2>6. QED  BY <1>2, <2>3, <2>4, <2>5, WorkflowActs DEF V!StartAgain
<1>3. CASE V!AskClaim(w)
  <2>1. PICK pc \in {"claim", "done"} : V!Step(w, pc)
    BY <1>3 DEF V!AskClaim
  <2>2. workflow' \in Seq(Workflows) /\ Working'
    BY <1>3, <2>1, StepTyped DEF V!AskClaim
  <2>3. QED  BY <1>1, <1>3, <2>2, WorkflowActs DEF V!AskClaim
<1>4. CASE V!AskFinish(w)
  <2>1. PICK pc \in {"finish", "done"} : V!Step(w, pc)
    BY <1>4 DEF V!AskFinish
  <2>2. workflow[w].result \in V!Outcomes
    BY <1>4 DEF V!AskFinish, IInv, Working
  <2>3. workflow' \in Seq(Workflows) /\ Working'
    BY <1>4, <2>1, <2>2, StepTyped DEF V!AskFinish
  <2>4. QED  BY <1>1, <1>4, <2>3, WorkflowActs DEF V!AskFinish
<1>5. QED  BY <1>2, <1>3, <1>4

\* A claim takes a run that is pending, and leaves it pending.
LEMMA ClaimActs == ASSUME IInv, V!RunsConstants, NEW w \in DOMAIN workflow, V!Claim(w) PROVE IInv'
<1> DEFINE r == workflow[w].run
           x == [run[r] EXCEPT !.status = "RUNNING", !.by = w]
<1>1. /\ workflow[w] \in Workflows /\ workflow \in Seq(Workflows) /\ faults \in Nat /\ w \in Nat
      /\ r \in DOMAIN run /\ run[r] \in Rows /\ run \in Seq(Rows)
  BY WorkflowTyped, RunTyped DEF IInv, TypeOK, Working
<1>2. CASE V!Claimable(r, w)
  <2>1. run' = [run EXCEPT ![r].status = "RUNNING", ![r].by = w]
    BY <1>2 DEF V!Claim
  <2>2. run' = [run EXCEPT ![r] = x]
    <3> DEFINE y == [run[r] EXCEPT !.status = "RUNNING"]
               q == [run EXCEPT ![r] = y]
    <3>1. run' = [q EXCEPT ![r].by = w]
      BY <2>1
    <3>2. q[r] = y /\ DOMAIN q = DOMAIN run
      BY <1>1
    <3>3. [q EXCEPT ![r].by = w] = [q EXCEPT ![r] = [y EXCEPT !.by = w]]
      BY <3>2
    <3>4. [y EXCEPT !.by = w] = x
      BY <1>1 DEF Rows
    <3>5. [q EXCEPT ![r] = x] = [run EXCEPT ![r] = x]
      BY <1>1
    <3>6. QED  BY <3>1, <3>3, <3>4, <3>5
  <2>3. x \in Rows
    BY <1>1 DEF Rows
  <2>4. x.key = run[r].key /\ x.evidence = run[r].evidence /\ x.status = "RUNNING" /\ x.late = run[r].late
    BY <1>1 DEF Rows
  <2> HIDE DEF x
  <2>5. V!Pending(r)
    BY <1>2 DEF V!Claimable, V!Pending
  <2>6. /\ run' \in Seq(Rows) /\ Len(run') = Len(run) /\ DOMAIN run' = DOMAIN run
        /\ \A s \in DOMAIN run : /\ run'[s].key = run[s].key /\ run'[s].evidence = run[s].evidence
                                 /\ (V!Pending(s)' => V!Pending(s)) /\ (run[s].late => run'[s].late)
    BY <1>1, <2>2, <2>3, <2>4, <2>5, RowMoves
  <2>7. workflow' \in Seq(Workflows) /\ Working'
    <3>1. CASE V!Step(w, "started")
      BY <2>6, <3>1, StepTyped
    <3>2. ASSUME NEW o \in V!Outcomes, workflow' = [workflow EXCEPT ![w].pc = "executed", ![w].result = o]
          PROVE  workflow' \in Seq(Workflows) /\ Working'
      <4> DEFINE y == [workflow[w] EXCEPT !.pc = "executed", !.result = o]
                 m == [workflow[w] EXCEPT !.pc = "executed"]
                 q == [workflow EXCEPT ![w] = m]
      <4>1. workflow' = [q EXCEPT ![w].result = o]
        BY <3>2
      <4>2. q[w] = m /\ DOMAIN q = DOMAIN workflow
        BY <1>1
      <4>3. [q EXCEPT ![w].result = o] = [q EXCEPT ![w] = [m EXCEPT !.result = o]]
        BY <4>2
      <4>4. [m EXCEPT !.result = o] = y
        BY <1>1 DEF Workflows
      <4>5. [q EXCEPT ![w] = y] = [workflow EXCEPT ![w] = y]
        BY <1>1
      <4>6. workflow' = [workflow EXCEPT ![w] = y]
        BY <4>1, <4>3, <4>4, <4>5
      <4>7. y \in Workflows /\ y.run = workflow[w].run /\ y.result = o
        BY <1>1 DEF Workflows, Results
      <4> HIDE DEF y
      <4>8. QED  BY <2>6, <4>6, <4>7, Stepped
    <3>3. QED  BY <1>2, <3>1, <3>2 DEF V!Claim
  <2>8. faults' \in Nat
    <3>1. faults + 1 \in Nat
      BY <1>1
    <3>2. QED  BY <1>1, <1>2, <3>1 DEF V!Claim
  <2>9. UNCHANGED <<report, repo, tab, keys, accepted, dispatched>>
    BY DEF V!Claim
  <2>10. TypeOK'
    BY <2>6, <2>7, <2>8, <2>9 DEF IInv, TypeOK
  <2>11. Calling'
    BY <2>6, <2>9 DEF IInv, Calling
  <2>12. QED  BY <2>6, <2>7, <2>9, <2>10, <2>11, Keeps
<1>3. CASE ~V!Claimable(r, w)
  <2>1. V!Step(w, "done") /\ UNCHANGED <<run, faults>> /\ UNCHANGED <<report, repo, tab, keys, accepted, dispatched>>
    BY <1>3 DEF V!Claim
  <2>2. workflow' \in Seq(Workflows) /\ Working'
    BY <2>1, StepTyped
  <2>3. QED  BY <1>1, <2>1, <2>2, WorkflowActs
<1>4. QED  BY <1>2, <1>3

\* A result is accepted for the run it closes, and is the last there is.
LEMMA FinishActs == ASSUME IInv, V!RunsConstants, NEW w \in DOMAIN workflow, V!Finish(w) PROVE IInv'
<1> DEFINE r == workflow[w].run
           o == workflow[w].result
           x == [run[r] EXCEPT !.status = o, !.evidence = o]
           a == [run |-> r, result |-> o]
           n == Len(accepted) + 1
<1>1. /\ workflow[w] \in Workflows /\ faults \in Nat /\ report \in Reports
      /\ r \in DOMAIN run /\ r \in V!Ids /\ run[r] \in Rows /\ run \in Seq(Rows)
  BY WorkflowTyped, RunTyped DEF IInv, TypeOK, Working
<1>2. o \in V!Outcomes /\ workflow[w].pc = "finish"
  BY DEF V!Finish, IInv, Working
<1>3. UNCHANGED <<repo, tab, keys, dispatched>>
  BY DEF V!Finish
<1>4. faults' \in Nat /\ \E pc \in {"done", "executed"} : V!Step(w, pc)
  <2>1. faults + 1 \in Nat
    BY <1>1
  <2>2. QED  BY <1>1, <2>1 DEF V!Finish
<1>5. DOMAIN run' = DOMAIN run => workflow' \in Seq(Workflows) /\ Working'
  BY <1>2, <1>4, StepTyped
<1>6. CASE ~V!Acceptable(r, w)
  BY <1>3, <1>4, <1>5, <1>6, WorkflowActs DEF V!Finish
<1>7. CASE V!Acceptable(r, w)
  <2>1. /\ run' = [run EXCEPT ![r].status = o, ![r].evidence = o]
        /\ report' = V!Merged(r, o)
        /\ accepted' = Append(accepted, a)
    BY <1>7 DEF V!Finish
  <2>2. run' = [run EXCEPT ![r] = x]
    <3> DEFINE y == [run[r] EXCEPT !.status = o]
               q == [run EXCEPT ![r] = y]
    <3>1. run' = [q EXCEPT ![r].evidence = o]
      BY <2>1
    <3>2. q[r] = y /\ DOMAIN q = DOMAIN run
      BY <1>1
    <3>3. [q EXCEPT ![r].evidence = o] = [q EXCEPT ![r] = [y EXCEPT !.evidence = o]]
      BY <3>2
    <3>4. [y EXCEPT !.evidence = o] = x
      BY <1>1 DEF Rows
    <3>5. [q EXCEPT ![r] = x] = [run EXCEPT ![r] = x]
      BY <1>1
    <3>6. QED  BY <3>1, <3>3, <3>4, <3>5
  <2>3. x \in Rows
    BY <1>1, <1>2 DEF Rows, Results
  <2>4. x.key = run[r].key /\ x.evidence = o /\ x.status = o /\ x.late = run[r].late
    BY <1>1 DEF Rows
  <2>5. a \in Accepted /\ a.run = r /\ a.result = o
    BY <1>1, <1>2 DEF Accepted
  <2> HIDE DEF x, a
  <2>6. /\ run' \in Seq(Rows) /\ Len(run') = Len(run) /\ DOMAIN run' = DOMAIN run
        /\ run'[r] = x /\ \A s \in DOMAIN run : s # r => run'[s] = run[s]
    BY <1>1, <2>2, <2>3, ExceptSeq, LenProperties
  <2>7. accepted \in Seq(Accepted) /\ Len(accepted) \in Nat /\ DOMAIN accepted = 1..Len(accepted)
    BY LenProperties DEF IInv, TypeOK
  <2>8. /\ accepted' \in Seq(Accepted) /\ Len(accepted') = n /\ DOMAIN accepted' = 1..n
        /\ accepted'[n] = a /\ \A i \in DOMAIN accepted : accepted'[i] = accepted[i]
    BY <2>1, <2>5, <2>7, AppendProperties, LenProperties
  <2>9. n \in Nat /\ DOMAIN accepted' = DOMAIN accepted \cup {n} /\ \A i \in DOMAIN accepted : i < n
    BY <2>7, <2>8
  <2> HIDE DEF n
  <2>10. report' \in Reports /\ report'.run = r
         /\ (o \in V!Asserted => report'.asserted = o /\ report'.assertedBy = r)
         /\ (o \notin V!Asserted => report'.asserted = report.asserted /\ report'.assertedBy = report.assertedBy)
    <3>1. r \in Nat
      BY <1>1 DEF V!Ids
    <3>2. CASE o \in V!Asserted
      BY <1>2, <2>1, <3>1, <3>2 DEF V!Merged, Reports, Results
    <3>3. CASE o \notin V!Asserted
      <4>1. report' = [report EXCEPT !.status = o, !.run = r]
        BY <2>1, <3>3 DEF V!Merged
      <4>2. QED  BY <1>1, <1>2, <3>1, <3>3, <4>1 DEF Reports
    <3>4. QED  BY <3>2, <3>3
  <2>11. TypeOK'
    BY <1>3, <1>4, <1>5, <2>6, <2>8, <2>10 DEF IInv, TypeOK
  <2>12. Keyed' /\ Single'
    <3>1. \A s \in DOMAIN run : run'[s].key = run[s].key /\ (V!Open(s)' => V!Open(s))
      BY <1>2, <2>4, <2>6 DEF V!Open, V!Pending, V!Outcomes
    <3>2. QED  BY <2>6, <3>1 DEF IInv, Keyed, Single
  <2>13. Calling' /\ Working'
    BY <1>3, <1>5, <2>6 DEF IInv, Calling
  <2>14. Settled'
    <3>1. \A i \in DOMAIN accepted : accepted[i].run # r
      BY <1>7 DEF V!Acceptable, IInv, Settled, V!Pending
    <3>2. ~(run'[r].status \in {"QUEUED", "RUNNING"}) /\ run'[r].evidence = o
      BY <1>2, <2>4, <2>6 DEF V!Outcomes
    <3>3. \A i \in DOMAIN accepted : /\ accepted[i].run \in DOMAIN run' /\ run'[accepted[i].run] = run[accepted[i].run]
                                     /\ ~(run'[accepted[i].run].status \in {"QUEUED", "RUNNING"})
                                     /\ run'[accepted[i].run].evidence = accepted[i].result
      BY <2>6, <3>1 DEF IInv, Settled, V!Pending
    <3>4. ASSUME NEW i \in DOMAIN accepted'
          PROVE  /\ accepted'[i].run \in DOMAIN run'
                 /\ ~(run'[accepted'[i].run].status \in {"QUEUED", "RUNNING"})
                 /\ run'[accepted'[i].run].evidence = accepted'[i].result
      <4>1. CASE i \in DOMAIN accepted
        BY <2>8, <3>3, <4>1
      <4>2. CASE i = n
        BY <1>1, <2>5, <2>6, <2>8, <3>2, <4>2
      <4>3. QED  BY <2>9, <4>1, <4>2
    <3>5. \A i, j \in DOMAIN accepted' : accepted'[i].run = accepted'[j].run => i = j
      BY <2>5, <2>8, <2>9, <3>1 DEF IInv, Settled
    <3>6. QED  BY <3>4, <3>5 DEF Settled, V!Pending
  <2>15. Reported'
    <3>1. report'.run = accepted'[Len(accepted')].run
      BY <2>5, <2>8, <2>10
    <3>2. CASE o \in V!Asserted
      <4>1. PICK k \in DOMAIN accepted' : /\ accepted'[k].result = o /\ accepted'[k].run = r
                                          /\ \A j \in DOMAIN accepted' : j <= k
        <5>1. \A j \in DOMAIN accepted' : j <= n
          BY <2>7, <2>9
        <5>2. n \in DOMAIN accepted' /\ accepted'[n].result = o /\ accepted'[n].run = r
          BY <2>5, <2>8, <2>9
        <5>3. QED  BY <5>1, <5>2
      <4>3. IsLast(k)'
        BY <3>2, <4>1 DEF IsLast
      <4>4. QED  BY <2>10, <3>1, <3>2, <4>1, <4>3 DEF Reported
    <3>3. CASE o \notin V!Asserted /\ \A i \in DOMAIN accepted : accepted[i].result \notin V!Asserted
      <4>1. \A i \in DOMAIN accepted' : accepted'[i].result \notin V!Asserted
        BY <2>5, <2>8, <2>9, <3>3
      <4>2. QED  BY <3>1, <4>1 DEF Reported
    <3>4. ASSUME NEW i \in DOMAIN accepted, IsLast(i), report.asserted = accepted[i].result,
                 report.assertedBy = accepted[i].run, o \notin V!Asserted
          PROVE  Reported'
      <4>1. IsLast(i)'
        BY <2>5, <2>8, <2>9, <3>4 DEF IsLast
      <4>2. i \in DOMAIN accepted' /\ report'.asserted = accepted'[i].result /\ report'.assertedBy = accepted'[i].run
        BY <2>8, <2>9, <2>10, <3>4
      <4>3. QED  BY <3>1, <4>1, <4>2 DEF Reported
    <3>5. CASE accepted = <<>>
      <4>1. DOMAIN accepted = {}
        BY <3>5
      <4>2. QED  BY <3>2, <3>3, <4>1
    <3>6. QED  BY <3>2, <3>3, <3>4, <3>5 DEF IInv, Reported
  <2>16. QED  BY <2>11, <2>12, <2>13, <2>14, <2>15 DEF IInv
<1>8. QED  BY <1>6, <1>7

-------------------------------------------------------------------------------
(* Time, and the whole *)

LEMMA TimePasses ==
    ASSUME IInv, V!RunsConstants, (\E r \in DOMAIN run : V!Deadline(r)) \/ V!Sweep \/ V!Disconnect
    PROVE  IInv'
<1>1. run \in Seq(Rows) /\ \A r \in DOMAIN run : run[r] \in Rows
  BY RunTyped DEF IInv, TypeOK
<1>2. ASSUME NEW r \in DOMAIN run, V!Deadline(r) PROVE IInv'
  <2> DEFINE x == [run[r] EXCEPT !.late = TRUE]
  <2>1. /\ x \in Rows /\ x.key = run[r].key /\ x.evidence = run[r].evidence
        /\ x.status = run[r].status /\ x.late = TRUE
    BY <1>1 DEF Rows
  <2>2. run' = [run EXCEPT ![r] = x]
    BY <1>1, <1>2 DEF V!Deadline
  <2> HIDE DEF x
  <2>3. /\ run' \in Seq(Rows) /\ Len(run') = Len(run) /\ DOMAIN run' = DOMAIN run
        /\ \A s \in DOMAIN run : /\ run'[s].key = run[s].key /\ run'[s].evidence = run[s].evidence
                                 /\ (V!Pending(s)' => V!Pending(s)) /\ (run[s].late => run'[s].late)
    BY <2>1, <2>2, RowMoves DEF V!Pending
  <2>4. TypeOK' /\ Calling' /\ Working'
    BY <1>2, <2>3 DEF V!Deadline, IInv, TypeOK, Calling, Working
  <2>5. QED  BY <1>2, <2>3, <2>4, Keeps DEF V!Deadline
<1>3. CASE V!Sweep
  <2> DEFINE x(r) == IF V!Pending(r) /\ run[r].late THEN [run[r] EXCEPT !.status = "TIMED_OUT"] ELSE run[r]
  <2>1. run' = [r \in DOMAIN run |-> x(r)]
    BY <1>3 DEF V!Sweep
  <2>2. \A r \in DOMAIN run : /\ x(r) \in Rows /\ x(r).key = run[r].key /\ x(r).evidence = run[r].evidence
                              /\ x(r).late = run[r].late
                              /\ x(r).status = run[r].status \/ x(r).status = "TIMED_OUT"
    BY <1>1 DEF Rows
  <2> HIDE DEF x
  <2>3. DOMAIN run = 1..Len(run) /\ Len(run) \in Nat
    BY <1>1, LenProperties
  <2>4. run' \in Seq(Rows) /\ Len(run') = Len(run) /\ DOMAIN run' = DOMAIN run /\ \A r \in DOMAIN run : run'[r] = x(r)
    <3>1. run' \in Seq(Rows)
      BY <2>1, <2>2, <2>3, IsASeq
    <3>2. DOMAIN run' = 1..Len(run)
      BY <2>1, <2>3
    <3>3. QED  BY <2>1, <2>3, <3>1, <3>2, LenProperties
  <2>5. \A s \in DOMAIN run : /\ run'[s].key = run[s].key /\ run'[s].evidence = run[s].evidence
                              /\ (V!Pending(s)' => V!Pending(s)) /\ (run[s].late => run'[s].late)
    BY <2>2, <2>4 DEF V!Pending
  <2>6. TypeOK' /\ Calling' /\ Working'
    BY <1>3, <2>4 DEF V!Sweep, IInv, TypeOK, Calling, Working
  <2>7. QED  BY <1>3, <2>4, <2>5, <2>6, Keeps DEF V!Sweep
<1>4. CASE V!Disconnect
  <2>1. repo' \in [active : BOOLEAN, enabled : BOOLEAN, config : Nat]
    BY <1>4 DEF V!Disconnect, IInv, TypeOK
  <2>2. TypeOK' /\ Calling' /\ Working'
    BY <1>4, <2>1 DEF V!Disconnect, IInv, TypeOK, Calling, Working
  <2>3. QED  BY <1>4, <2>2, Keeps DEF V!Disconnect, V!Pending
<1>5. QED  BY <1>2, <1>3, <1>4

LEMMA InductiveHolds == V!RunsConstants => (V!Spec => []IInv)
<1>1. SUFFICES ASSUME V!RunsConstants PROVE V!Spec => []IInv
  OBVIOUS
<1>2. V!Init => IInv
  BY <1>1, Begins
<1>3. ASSUME IInv, [V!Next]_V!runs PROVE IInv'
  <2>1. ASSUME NEW t \in Tabs, V!Edit(t) \/ V!Start(t) \/ V!Configure(t) \/ V!Look(t) \/ V!Crash(t) PROVE IInv'
    BY <1>3, <2>1, PanelActs
  <2>2. ASSUME NEW t \in Tabs, V!Reserve(t) \/ V!Dispatch(t) \/ V!Record(t) PROVE IInv'
    BY <1>1, <1>3, <2>2, ReserveActs, DispatchActs, RecordActs
  <2>3. ASSUME NEW w \in DOMAIN workflow, V!StartAgain(w) \/ V!AskClaim(w) \/ V!Claim(w) \/ V!AskFinish(w) \/ V!Finish(w)
        PROVE  IInv'
    BY <1>1, <1>3, <2>3, AskActs, ClaimActs, FinishActs
  <2>4. ASSUME (\E r \in DOMAIN run : V!Deadline(r)) \/ V!Sweep \/ V!Disconnect PROVE IInv'
    BY <1>1, <1>3, <2>4, TimePasses
  <2>5. ASSUME UNCHANGED V!runs PROVE IInv'
    BY <1>3, <2>5, Stutters
  <2>6. QED  BY <1>3, <2>1, <2>2, <2>3, <2>4, <2>5 DEF V!Next
<1>4. QED  BY <1>2, <1>3, PTL DEF V!Spec

-------------------------------------------------------------------------------
(* What it shows *)

\* The type invariant, for every value of the constants: rows, calls, CI runs and the
\* report keep their shapes through every loss, crash and repetition.
THEOREM TypeCorrect == V!RunsConstants => (V!Spec => []TypeOK)
<1>1. IInv => TypeOK
  BY DEF IInv
<1>2. QED  BY <1>1, InductiveHolds, PTL

\* Of the results accepted, the one the property chooses is the one the invariant keeps.
LEMMA LastIsChosen == ASSUME TypeOK, Reported PROVE V!LastIsSaid
<1>1. SUFFICES ASSUME accepted # <<>>, V!Proofs # {}
               PROVE  report.asserted = accepted[V!LastProof].result /\ report.assertedBy = accepted[V!LastProof].run
  BY DEF Reported, V!LastIsSaid
<1>2. PICK i \in DOMAIN accepted : /\ IsLast(i)
                                   /\ report.asserted = accepted[i].result /\ report.assertedBy = accepted[i].run
  BY <1>1 DEF Reported, V!Proofs
<1>3. i \in V!Proofs /\ \A j \in V!Proofs : j <= i
  BY <1>2 DEF IsLast, V!Proofs
<1>4. V!LastProof \in V!Proofs /\ \A j \in V!Proofs : j <= V!LastProof
  BY <1>3 DEF V!LastProof
<1>5. \A j \in V!Proofs : j \in Nat
  BY AcceptedTyped DEF V!Proofs
<1>6. V!LastProof = i
  BY <1>3, <1>4, <1>5
<1>7. QED  BY <1>2, <1>6

\* startBehavioralRun and completeBehavioralRun: one dispatch and at most one
\* result for a request, one run open at a time, and the report is that of the last results.
THEOREM OneResult == V!RunsConstants => (V!Spec => []OneResultPerRequest)
<1>1. SUFFICES ASSUME V!RunsConstants PROVE V!Spec => []OneResultPerRequest
  OBVIOUS
<1>2. ASSUME IInv PROVE OneResultPerRequest
  <2>1. V!OneDispatch
    BY <1>1, <1>2, RunTyped DEF IInv, Keyed, Calling, V!OneDispatch
  <2>2. V!OneAccepted
    BY <1>2 DEF IInv, Settled, V!OneAccepted
  <2>3. V!OneOpen
    <3> DEFINE S == {r \in DOMAIN run : V!Open(r) /\ dispatched[r] = 1}
    <3>1. \A r, s \in S : r = s
      BY <1>2 DEF IInv, Single
    <3>2. SUFFICES Cardinality(S) <= 1
      BY DEF V!OneOpen, V!Cardinality, Cardinality
    <3> HIDE DEF S
    <3>3. CASE S = {}
      BY <3>3, FS_EmptySet
    <3>4. ASSUME NEW r \in S PROVE Cardinality(S) <= 1
      <4>1. Cardinality({r}) = 1
        BY FS_Singleton
      <4>2. S = {r}
        BY <3>1, <3>4
      <4>3. QED  BY <4>1, <4>2
    <3>5. QED  BY <3>3, <3>4
  <2>4. V!LastIsSaid
    BY <1>2, LastIsChosen DEF IInv
  <2>5. QED  BY <2>1, <2>2, <2>3, <2>4 DEF OneResultPerRequest, V!OneResultPerRequest
<1>3. QED  BY <1>1, <1>2, InductiveHolds, PTL

-------------------------------------------------------------------------------
(* Sums over a finite set *)

\* A set of finite sets that is not empty has one of which it has no part.
LEMMA SmallestSet ==
  ASSUME NEW B, IsFiniteSet(B), NEW S, S \subseteq SUBSET B, S # {}
  PROVE  \E T \in S : \A U \in S : U \subseteq T => U = T
<1>1. IsWellFoundedOn(StrictSubsetOrdering(B), SUBSET B)
  BY FS_StrictSubsetOrderingWellFounded, FS_FiniteSubsetsOfFinite
<1>2. PICK T \in S : \A U \in S : ~(<<U, T>> \in StrictSubsetOrdering(B))
  BY <1>1, WFMin
<1>3. \A U \in S : U \subseteq T => U = T
  BY <1>2 DEF StrictSubsetOrdering
<1>4. QED  BY <1>3

Pick(s)         == CHOOSE x \in s : TRUE
Rest(s)         == s \ {Pick(s)}
Sums(f, B, g)   == g = [s \in SUBSET B |-> IF s = {} THEN 0 ELSE g[Rest(s)] + f[Pick(s)]]

LEMMA PickIn == \A s : s # {} => Pick(s) \in s /\ Rest(s) \subseteq s /\ Rest(s) # s
  BY DEF Pick, Rest

\* The equation of a sum over the parts of a set has one solution at most.
LEMMA SumsUnique ==
  ASSUME NEW B, IsFiniteSet(B), NEW f, NEW g, NEW h, Sums(f, B, g), NEW A, B \subseteq A, IsFiniteSet(A), Sums(f, A, h),
         NEW s \in SUBSET B
  PROVE  g[s] = h[s]
<1> DEFINE D == {t \in SUBSET B : g[t] # h[t]}
<1>1. SUFFICES ASSUME D # {} PROVE FALSE
  OBVIOUS
<1>2. PICK t \in D : \A u \in D : u \subseteq t => u = t
  <2> D \subseteq SUBSET B  OBVIOUS
  <2> HIDE DEF D
  <2> QED  BY <1>1, SmallestSet
<1>3. t # {}
  BY <1>2 DEF Sums
<1>4. Rest(t) \in SUBSET B /\ Rest(t) \notin D
  BY <1>2, <1>3, PickIn
<1>5. g[Rest(t)] = h[Rest(t)]
  BY <1>4
<1>6. g[t] = g[Rest(t)] + f[Pick(t)]
  BY <1>2, <1>3 DEF Sums
<1>7. h[t] = h[Rest(t)] + f[Pick(t)]
  BY <1>2, <1>3 DEF Sums
<1>8. QED  BY <1>2, <1>5, <1>6, <1>7

\* It has one.
LEMMA SumsExist ==
  ASSUME NEW B, IsFiniteSet(B), NEW f
  PROVE  \E g : Sums(f, B, g)
<1> DEFINE Bad == {T \in SUBSET B : ~ \E g : Sums(f, T, g)}
<1>1. SUFFICES ASSUME Bad # {} PROVE FALSE
  OBVIOUS
<1>2. PICK T \in Bad : \A U \in Bad : U \subseteq T => U = T
  <2> Bad \subseteq SUBSET B  OBVIOUS
  <2> HIDE DEF Bad
  <2> QED  BY <1>1, SmallestSet
<1> DEFINE Of(s) == CHOOSE g : Sums(f, s, g)
           h     == [s \in SUBSET T |-> IF s = {} THEN 0 ELSE Of(Rest(s))[Rest(s)] + f[Pick(s)]]
<1>3. \A s \in SUBSET T : s # T => Sums(f, s, Of(s))
  <2> TAKE s \in SUBSET T
  <2> HAVE s # T
  <2>1. s \in SUBSET B /\ s \notin Bad
    BY <1>2
  <2>2. \E g : Sums(f, s, g)
    BY <2>1
  <2> QED  BY <2>2
<1>4. \A s \in SUBSET T : s # {} => Rest(s) \in SUBSET T /\ Rest(s) # T
  BY PickIn
<1>5. ASSUME NEW s \in SUBSET T, s # {}
      PROVE  h[Rest(s)] = Of(Rest(s))[Rest(s)]
  <2> DEFINE r == Rest(s)
  <2>1. r \in SUBSET T /\ r # T /\ Sums(f, r, Of(r))
    BY <1>3, <1>4, <1>5
  <2>2. CASE r = {}
    BY <2>1, <2>2 DEF Sums
  <2>3. CASE r # {}
    <3> DEFINE q == Rest(r)
    <3>1. q \in SUBSET T /\ q \in SUBSET r /\ q # T /\ Sums(f, q, Of(q))
      BY <1>3, <1>4, <2>1, <2>3, PickIn
    <3>2. IsFiniteSet(r) /\ IsFiniteSet(q)
      <4> IsFiniteSet(T)  BY <1>2, FS_Subset
      <4> QED  BY <2>1, <3>1, FS_Subset
    <3>3. Of(q)[q] = Of(r)[q]
      <4> q \in SUBSET q OBVIOUS
      <4> HIDE DEF Of, q, r, h, Bad
      <4> QED  BY <2>1, <3>1, <3>2, SumsUnique
    <3>4. Of(r)[r] = Of(r)[q] + f[Pick(r)]
      <4> HIDE DEF Of, h, Bad
      <4> QED BY <2>1, <2>3 DEF Sums
    <3>5. h[r] = Of(q)[q] + f[Pick(r)]
      <4> HIDE DEF Of
      <4> QED  BY <2>1, <2>3
    <3> HIDE DEF Of, h, Bad, q
    <3>6. QED  BY <3>3, <3>4, <3>5
  <2>4. QED  BY <2>2, <2>3
<1>6. Sums(f, T, h)
  <2> HIDE DEF Of
  <2>1. h = [s \in SUBSET T |-> IF s = {} THEN 0 ELSE h[Rest(s)] + f[Pick(s)]]
    <3>1. \A s \in SUBSET T : h[s] = IF s = {} THEN 0 ELSE h[Rest(s)] + f[Pick(s)]
      BY <1>5
    <3>2. h = [s \in SUBSET T |-> h[s]]
      OBVIOUS
    <3> HIDE DEF h
    <3>3. QED  BY <3>1, <3>2
  <2> HIDE DEF h
  <2> QED  BY <2>1 DEF Sums
<1>7. QED  BY <1>2, <1>6

Sum(f, B) == FoldSet(LAMBDA b, sum : sum + f[b], 0, B)

LEMMA SumIs ==
  ASSUME NEW B, IsFiniteSet(B), NEW f
  PROVE  \E g : Sums(f, B, g) /\ Sum(f, B) = g[B]
<1> DEFINE g == CHOOSE h : Sums(f, B, h)
<1>1. Sums(f, B, g)
  BY SumsExist
<1>2. Sum(f, B) = g[B]
  BY DEF Sum, FoldSet, MapThenFoldSet, Sums, Pick, Rest
<1> HIDE DEF g
<1>3. QED  BY <1>1, <1>2

\* The sum of naturals is one; it changes by what one of them changes.
LEMMA SumsType ==
  ASSUME NEW B, IsFiniteSet(B), NEW f \in [B -> Nat], NEW g, Sums(f, B, g)
  PROVE  \A s \in SUBSET B : g[s] \in Nat
<1> DEFINE D == {s \in SUBSET B : g[s] \notin Nat}
<1>1. Sums(f, B, g)
  OBVIOUS
<1>2. SUFFICES ASSUME D # {} PROVE FALSE
  OBVIOUS
<1>3. PICK s \in D : \A u \in D : u \subseteq s => u = s
  <2> D \subseteq SUBSET B  OBVIOUS
  <2> HIDE DEF D
  <2> QED  BY <1>2, SmallestSet
<1>4. s # {} /\ s \subseteq B
  BY <1>1, <1>3 DEF Sums
<1>5. Rest(s) \in SUBSET B /\ Pick(s) \in B /\ g[Rest(s)] \in Nat
  BY <1>3, <1>4, PickIn
<1>6. g[s] = g[Rest(s)] + f[Pick(s)]
  BY <1>1, <1>4 DEF Sums
<1>7. f[Pick(s)] \in Nat
  BY <1>5
<1>8. QED  BY <1>3, <1>5, <1>6, <1>7

LEMMA SumType ==
  ASSUME NEW B, IsFiniteSet(B), NEW f \in [B -> Nat]
  PROVE  Sum(f, B) \in Nat
<1>1. PICK g : Sums(f, B, g) /\ Sum(f, B) = g[B]
  BY SumIs
<1>2. B \in SUBSET B
  OBVIOUS
<1>3. QED  BY <1>1, <1>2, SumsType

LEMMA SumChanges ==
  ASSUME NEW B, IsFiniteSet(B), NEW f \in [B -> Nat], NEW b \in B, NEW v \in Nat
  PROVE  Sum([f EXCEPT ![b] = v], B) + f[b] = Sum(f, B) + v
<1> DEFINE e == [f EXCEPT ![b] = v]
<1>1. e \in [B -> Nat] /\ e[b] = v /\ \A x \in B : x # b => e[x] = f[x]
  OBVIOUS
<1> HIDE DEF e
<1>2. PICK g : Sums(f, B, g) /\ Sum(f, B) = g[B]
  BY SumIs
<1>3. PICK h : Sums(e, B, h) /\ Sum(e, B) = h[B]
  BY SumIs
<1>4. \A s \in SUBSET B : g[s] \in Nat /\ h[s] \in Nat
  BY <1>1, <1>2, <1>3, SumsType
<1> DEFINE D == {s \in SUBSET B : ~ IF b \in s THEN h[s] + f[b] = g[s] + v ELSE h[s] = g[s]}
<1>5. SUFFICES ASSUME D # {} PROVE FALSE
  <2>1. B \in SUBSET B
    OBVIOUS
  <2> QED BY <1>2, <1>3, <2>1 DEF e
<1>6. PICK s \in D : \A u \in D : u \subseteq s => u = s
  <2> D \subseteq SUBSET B  OBVIOUS
  <2> HIDE DEF D
  <2> QED  BY <1>5, SmallestSet
<1>7. s # {} /\ s \subseteq B
  BY <1>2, <1>3, <1>6 DEF Sums
<1> DEFINE r == Rest(s)
           p == Pick(s)
<1>8. r \in SUBSET B /\ p \in s /\ p \in B /\ r \notin D /\ r = s \ {p}
  BY <1>6, <1>7, PickIn DEF Rest
<1>9. g[s] = g[r] + f[p] /\ h[s] = h[r] + e[p]
  BY <1>2, <1>3, <1>7 DEF Sums
<1>10. IF b \in r THEN h[r] + f[b] = g[r] + v ELSE h[r] = g[r]
  BY <1>8
<1>11. g[r] \in Nat /\ h[r] \in Nat /\ f[p] \in Nat /\ f[b] \in Nat
  BY <1>4, <1>8
<1> HIDE DEF r, p
<1>12. CASE p = b
  <2>1. h[r] = g[r] /\ e[p] = v
    BY <1>1, <1>8, <1>10, <1>12
  <2>2. h[s] + f[b] = g[s] + v
    BY <1>9, <1>11, <1>12, <2>1
  <2> QED  BY <1>6, <1>8, <1>12, <2>2
<1>13. CASE p # b
  <2>1. e[p] = f[p]
    BY <1>1, <1>8, <1>13
  <2>2. CASE b \in r
    <3>1. h[s] + f[b] = g[s] + v
      BY <1>9, <1>10, <1>11, <2>1, <2>2
    <3> QED  BY <1>6, <1>8, <2>2, <3>1
  <2>3. CASE b \notin r
    <3>1. h[s] = g[s] /\ b \notin s
      BY <1>8, <1>9, <1>10, <1>13, <2>1, <2>3
    <3> QED  BY <1>6, <3>1
  <2> QED  BY <2>2, <2>3
<1>14. QED  BY <1>12, <1>13

\* The sum of zeros.
LEMMA SumZero ==
  ASSUME NEW B, IsFiniteSet(B)
  PROVE  Sum([b \in B |-> 0], B) = 0
<1> DEFINE f == [b \in B |-> 0]
<1>1. PICK g : Sums(f, B, g) /\ Sum(f, B) = g[B]
  BY SumIs
<1> DEFINE D == {s \in SUBSET B : g[s] # 0}
<1>2. SUFFICES ASSUME D # {} PROVE FALSE
  <2>1. B \in SUBSET B
    OBVIOUS
  <2> QED BY <1>1, <2>1
<1>3. PICK s \in D : \A u \in D : u \subseteq s => u = s
  <2> D \subseteq SUBSET B  OBVIOUS
  <2> HIDE DEF D
  <2> QED  BY <1>2, SmallestSet
<1>4. s # {} /\ s \subseteq B
  BY <1>1, <1>3 DEF Sums
<1>5. Rest(s) \in SUBSET B /\ Pick(s) \in B /\ g[Rest(s)] = 0
  BY <1>3, <1>4, PickIn
<1>6. g[s] = g[Rest(s)] + f[Pick(s)]
  BY <1>1, <1>4 DEF Sums
<1>7. f[Pick(s)] = 0
  BY <1>5
<1>8. QED  BY <1>3, <1>5, <1>6, <1>7

LEMMA SumAtLeast ==
  ASSUME NEW B, IsFiniteSet(B), NEW f \in [B -> Nat], NEW b \in B
  PROVE  f[b] <= Sum(f, B)
<1> DEFINE e == [f EXCEPT ![b] = 0]
<1>1. Sum(e, B) + f[b] = Sum(f, B) + 0
  BY SumChanges
<1>2. e \in [B -> Nat]
  OBVIOUS
<1> HIDE DEF e
<1>3. Sum(e, B) \in Nat /\ Sum(f, B) \in Nat /\ f[b] \in Nat
  BY <1>2, SumType
<1>4. QED  BY <1>1, <1>3

LEMMA SumOfIs == \A f : C!SumOf(f) = Sum(f, C!Blobs)
  BY DEF C!SumOf, C!FoldSet, C!MapThenFoldSet, Sum, FoldSet, MapThenFoldSet

-------------------------------------------------------------------------------
(* The copies of a repository's code: types *)

OpSteps   == {"none", "get", "download", "store import", "store file", "done", "nothing"}
Reasons   == {"CACHE_UNAVAILABLE", "FILE_LIMIT", "DEADLINE", "LIMIT", "FILE_UNAVAILABLE"}
Builds    == [pc : {"idle", "batch", "COMPLETE", "PARTIAL"}, files : Listings \cup {<<>>}, next : Nat,
              hits : SUBSET C!Blobs, reasons : SUBSET Reasons, aborted : BOOLEAN,
              downloads : Nat, reserved : Int, counted : Nat]
Downloads == [pc : OpSteps, reserved : Nat, bytes : Nat]
Transactions == [kind : C!Kinds, blob : C!Blobs, step : {"sealed", "locked"}]

Flags     == /\ code \in [active : BOOLEAN, links : Nat] /\ finite \in BOOLEAN
             /\ promised \in BOOLEAN /\ doomed \subseteq C!Rows /\ builds \in Nat /\ faults \in Nat
Departing == leave \in {"none", "deactivated", "imports cleared", "cleared"}
Tables    == table \in [C!Kinds -> [C!Blobs -> {"none", "kept", "dated", "expired"}]]
Writes    == write \subseteq Transactions
Building  == build \in Builds
Operating == op \in [C!Blobs -> Downloads]

CopiesTypeOK == Flags /\ Departing /\ Tables /\ Writes /\ Building /\ Operating

\* An operation is for a blob of the listing.
Listed == \A b \in C!Blobs : op[b].pc # "none" => \E f \in C!ToSet(build.files) : Blob(f) = b

-------------------------------------------------------------------------------
(* The copies of a repository's code: the disconnect *)

\* A transaction that holds the lock of the row keeps the repository as it found it.
Guarded     == \A w \in write : w.step = "locked" => code.active
Clean(kind) == \A b \in C!Blobs : table[kind][b] = "none"
Leaving     == /\ leave \in {"imports cleared", "cleared"} /\ ~code.active => Clean("import")
               /\ leave = "cleared" /\ ~code.active => Clean("file")
               /\ promised => ~code.active /\ Clean("import") /\ Clean("file")

-------------------------------------------------------------------------------
(* The copies of a repository's code: the budget *)

Amount  == [b \in C!Blobs |-> IF op[b].pc = "download" THEN C!Reservation(b) ELSE op[b].bytes]
Total   == Sum(Amount, C!Blobs)
Fetched == {b \in C!Blobs : op[b].pc = "download" \/ op[b].bytes > 0}
Before  == \A b \in C!Blobs : /\ op[b].pc \in {"none", "get", "download"} => op[b].bytes = 0
                              /\ op[b].pc = "download" => op[b].reserved = C!Reservation(b)
Spent   == /\ Total <= build.reserved /\ Total <= MaxBytes
           /\ Cardinality(Fetched) <= build.downloads /\ build.downloads <= MaxDownloads
Whole   == build.pc = "COMPLETE" => \A f \in C!ToSet(build.files) : Blob(f) \in build.hits \/ op[Blob(f)].pc = "done"

CInv == CopiesTypeOK /\ Listed /\ Guarded /\ Leaving /\ Before /\ Spent /\ Whole

-------------------------------------------------------------------------------

LEMMA ListingTyped ==
  ASSUME C!CacheConstants, CopiesTypeOK
  PROVE  /\ build.files \in Seq(C!ToSet(build.files))
         /\ \A f \in C!ToSet(build.files) : Size(f) \in Nat /\ Blob(f) \in C!Blobs
         /\ IsFiniteSet(C!Blobs)
<1>1. build.files \in Listings \/ build.files = <<>>
  BY DEF CopiesTypeOK, Building, Builds
<1>2. CASE build.files \in Listings
  BY <1>2 DEF C!CacheConstants, C!Blobs, C!IsFiniteSet, IsFiniteSet
<1>3. CASE build.files = <<>>
  <2>1. C!ToSet(<<>>) = {}
    BY DEF C!ToSet
  <2>2. <<>> \in Seq({})
    OBVIOUS
  <2>3. QED  BY <1>3, <2>1, <2>2 DEF C!CacheConstants, C!Blobs, C!IsFiniteSet, IsFiniteSet
<1>4. QED  BY <1>1, <1>2, <1>3

\* What is read is of the listing.
LEMMA BatchListed ==
  ASSUME C!CacheConstants, CopiesTypeOK
  PROVE  /\ C!Batch \subseteq C!ToSet(build.files)
         /\ C!ToSet(C!Considered) \subseteq C!ToSet(build.files)
<1> DEFINE s == build.files
           n == IF Len(s) < MaxFiles THEN Len(s) ELSE MaxFiles
<1>1. s \in Seq(C!ToSet(s)) /\ MaxFiles \in Nat
  BY ListingTyped DEF C!CacheConstants
<1>2. n \in 0..Len(s)
  BY <1>1
<1>3. C!Considered = SubSeq(s, 1, n)
  BY DEF C!Considered
<1> HIDE DEF s, n
<1>4. C!Considered \in Seq(C!ToSet(s))
  BY <1>1, <1>2, <1>3
<1>5. \A i \in DOMAIN C!Considered : C!Considered[i] \in C!ToSet(s)
  BY <1>4
<1>6. C!Batch \subseteq C!ToSet(s)
  BY <1>5 DEF C!Batch, C!Missing
<1>7. C!ToSet(C!Considered) \subseteq C!ToSet(s)
  BY <1>5 DEF C!ToSet
<1>8. QED  BY <1>6, <1>7 DEF s

LEMMA ReservationTyped ==
  ASSUME C!CacheConstants, CopiesTypeOK, NEW b \in C!Blobs, \E f \in C!ToSet(build.files) : Blob(f) = b
  PROVE  C!Reservation(b) \in Nat
<1> DEFINE f == CHOOSE f \in C!ToSet(build.files) : Blob(f) = b
<1>1. f \in C!ToSet(build.files)
  OBVIOUS
<1>2. Size(f) \in Nat /\ MaxFileBytes \in Nat
  BY <1>1, ListingTyped DEF C!CacheConstants
<1>3. QED  BY <1>2 DEF C!Reservation

LEMMA AmountTyped ==
  ASSUME C!CacheConstants, CopiesTypeOK, Listed
  PROVE  Amount \in [C!Blobs -> Nat] /\ Total \in Nat
<1>1. ASSUME NEW b \in C!Blobs PROVE (IF op[b].pc = "download" THEN C!Reservation(b) ELSE op[b].bytes) \in Nat
  <2>1. CASE op[b].pc = "download"
    <3>1. C!Reservation(b) \in Nat
      BY <2>1, ReservationTyped DEF Listed
    <3>2. QED  BY <2>1, <3>1
  <2>2. CASE op[b].pc # "download"
    BY <2>2 DEF CopiesTypeOK, Operating, Downloads
  <2>3. QED  BY <2>1, <2>2
<1>2. Amount \in [C!Blobs -> Nat]
  BY <1>1 DEF Amount
<1>3. IsFiniteSet(C!Blobs)
  BY ListingTyped
<1>4. QED  BY <1>2, <1>3, SumType DEF Total

\* What one operation does to the sum and to the number of the downloads.
LEMMA OneOperation ==
  ASSUME C!CacheConstants, CopiesTypeOK, Listed,
         NEW b \in C!Blobs, \E f \in C!ToSet(build.files) : Blob(f) = b,
         NEW r \in Downloads, op' = [op EXCEPT ![b] = r], build'.files = build.files
  PROVE  /\ Amount[b] = (IF op[b].pc = "download" THEN C!Reservation(b) ELSE op[b].bytes)
         /\ Total' + Amount[b] = Total + (IF r.pc = "download" THEN C!Reservation(b) ELSE r.bytes)
         /\ Total \in Nat /\ Total' \in Nat /\ Amount[b] \in Nat /\ Amount[b] <= Total
         /\ C!Reservation(b) \in Nat /\ \A c \in C!Blobs : C!Reservation(c)' = C!Reservation(c)
         /\ Cardinality(Fetched) \in Nat
         /\ Cardinality(Fetched') \in Nat
         /\ Cardinality(Fetched') <= Cardinality(Fetched) + 1
         /\ (r.pc = "download" \/ r.bytes > 0 => b \in Fetched) => Cardinality(Fetched') <= Cardinality(Fetched)
<1> DEFINE v == IF r.pc = "download" THEN C!Reservation(b) ELSE r.bytes
<1>1. C!Reservation(b) \in Nat
  BY ReservationTyped
<1>2. \A c \in C!Blobs : C!Reservation(c)' = C!Reservation(c)
  BY DEF C!Reservation
<1>3. v \in Nat
  BY <1>1 DEF Downloads
<1>4. \A c \in C!Blobs : op'[c] = IF c = b THEN r ELSE op[c]
  BY DEF CopiesTypeOK, Operating
<1>5. Amount' = [Amount EXCEPT ![b] = v]
  <2>1. Amount' = [c \in C!Blobs |-> IF op'[c].pc = "download" THEN C!Reservation(c)' ELSE op'[c].bytes]
    BY DEF Amount, C!Blobs
  <2>2. Amount' = [c \in C!Blobs |-> IF c = b THEN v ELSE Amount[c]]
    BY <1>2, <1>4, <2>1 DEF Amount
  <2> HIDE DEF v
  <2>3. QED  BY <2>2 DEF Amount
<1>6. Amount \in [C!Blobs -> Nat] /\ Total \in Nat /\ IsFiniteSet(C!Blobs)
  BY AmountTyped, ListingTyped
<1>7. Total' = Sum(Amount', C!Blobs)
  BY DEF Total, C!Blobs
<1> HIDE DEF v
<1>8. Total' + Amount[b] = Total + v
  BY <1>3, <1>5, <1>6, <1>7, SumChanges DEF Total
<1>9. Total' \in Nat
  <2>1. Amount' \in [C!Blobs -> Nat]
    BY <1>3, <1>5, <1>6
  <2>2. QED  BY <1>6, <1>7, <2>1, SumType
<1>10. Amount[b] \in Nat /\ Amount[b] <= Total
  BY <1>6, SumAtLeast DEF Total
<1>11. Fetched' \subseteq Fetched \cup {b}
  BY <1>4 DEF Fetched, C!Blobs
<1>12. ~(r.pc = "download" \/ r.bytes > 0) => Fetched' \subseteq Fetched
  BY <1>4 DEF Fetched, C!Blobs
<1>13. IsFiniteSet(Fetched) /\ Fetched \subseteq C!Blobs
  BY <1>6, FS_Subset DEF Fetched
<1>14. IsFiniteSet(Fetched \cup {b}) /\ Cardinality(Fetched \cup {b}) <= Cardinality(Fetched) + 1 /\ Cardinality(Fetched) \in Nat
  <2>1. Cardinality(Fetched) \in Nat /\ IsFiniteSet(Fetched \cup {b})
    BY <1>13, FS_AddElement, FS_CardinalityType
  <2>2. Cardinality(Fetched \cup {b}) = IF b \in Fetched THEN Cardinality(Fetched) ELSE Cardinality(Fetched) + 1
    BY <1>13, FS_AddElement
  <2>3. QED  BY <2>1, <2>2
<1>15. IsFiniteSet(Fetched') /\ Cardinality(Fetched') <= Cardinality(Fetched \cup {b})
  BY <1>11, <1>14, FS_Subset
<1>16. Cardinality(Fetched') \in Nat /\ Cardinality(Fetched \cup {b}) \in Nat
  BY <1>14, <1>15, FS_CardinalityType
<1>17. ASSUME r.pc = "download" \/ r.bytes > 0 => b \in Fetched PROVE Cardinality(Fetched') <= Cardinality(Fetched)
  <2>1. Fetched' \subseteq Fetched
    BY <1>11, <1>12, <1>17
  <2>2. QED  BY <1>13, <2>1, FS_Subset
<1>18. Amount[b] = IF op[b].pc = "download" THEN C!Reservation(b) ELSE op[b].bytes
  BY DEF Amount
<1>19. Cardinality(Fetched') <= Cardinality(Fetched) + 1
  BY <1>14, <1>15, <1>16
<1>20. QED  BY <1>1, <1>2, <1>6, <1>8, <1>9, <1>10, <1>14, <1>16, <1>17, <1>18, <1>19 DEF v

\* What sourceCache.get leaves: nothing, the file, a download, or no budget for it.
Moves(b, pc)  == op' = [op EXCEPT ![b] = [op[b] EXCEPT !.pc = pc]]
Forgets(b)    == table' = [table EXCEPT !["file"][b] = "none"] /\ UNCHANGED write
Sealed(kind, b) == [kind |-> kind, blob |-> b, step |-> "sealed"]
GotNothing(b) == UNCHANGED <<table, write, build>> /\ Moves(b, "nothing")
GotFile(b)    == UNCHANGED <<table, build>> /\ write' = write \cup {Sealed("import", b)} /\ Moves(b, "store import")
GotRoom(b)    == /\ Forgets(b) /\ build.downloads < MaxDownloads /\ build.reserved + C!Reservation(b) <= MaxBytes
                 /\ build' = [build EXCEPT !.downloads = @ + 1, !.reserved = @ + C!Reservation(b)]
                 /\ op' = [op EXCEPT ![b] = [op[b] EXCEPT !.pc = "download", !.reserved = C!Reservation(b)]]
GotNoRoom(b)  == Forgets(b) /\ build' = [build EXCEPT !.reasons = @ \cup {"LIMIT"}] /\ Moves(b, "nothing")

LEMMA Gets ==
  ASSUME CopiesTypeOK, NEW b \in C!Blobs, C!Get(b)
  PROVE  /\ build.pc = "batch" /\ op[b].pc = "get"
         /\ GotNothing(b) \/ GotFile(b) \/ GotRoom(b) \/ GotNoRoom(b)
<1>1. build.pc = "batch" /\ op[b].pc = "get"
  BY DEF C!Get, C!At
<1>2. ASSUME build.aborted PROVE GotNothing(b)
  BY <1>2 DEF C!Get, C!OpTo, GotNothing, Moves
<1>3. ASSUME C!OpTo(b, "store import"), C!Sealed("import", b), UNCHANGED <<table, build>> PROVE GotFile(b)
  BY <1>3 DEF C!OpTo, C!Sealed, GotFile, Moves, Sealed
<1>4. CASE Forgets(b) /\ C!Spend(b)
  <2> DEFINE e == [op EXCEPT ![b].pc = "download"]
  <2>1. op' = [e EXCEPT ![b].reserved = C!Reservation(b)]
    BY <1>4 DEF C!Spend
  <2>2. e[b] = [op[b] EXCEPT !.pc = "download"] /\ \A c \in C!Blobs : c # b => e[c] = op[c]
    BY DEF CopiesTypeOK, Operating
  <2>3. e \in [C!Blobs -> Downloads] /\ op \in [C!Blobs -> Downloads]
    BY DEF CopiesTypeOK, Operating, Downloads, OpSteps
  <2> HIDE DEF e
  <2>4. op' = [op EXCEPT ![b] = [e[b] EXCEPT !.reserved = C!Reservation(b)]]
    BY <2>1, <2>2, <2>3
  <2>5. [e[b] EXCEPT !.reserved = C!Reservation(b)] = [op[b] EXCEPT !.pc = "download", !.reserved = C!Reservation(b)]
    BY <2>2
  <2>6. QED  BY <1>1, <1>4, <2>4, <2>5 DEF C!Spend, GotRoom
<1>5. CASE Forgets(b) /\ C!Nothing(b, {"LIMIT"})
  BY <1>1, <1>5 DEF C!Nothing, C!OpTo, GotNoRoom, Moves
<1>6. QED  BY <1>1, <1>2, <1>3, <1>4, <1>5 DEF C!Get, Forgets

\* What a download leaves.
Fails(b, why)   == UNCHANGED write /\ build' = [build EXCEPT !.reasons = @ \cup why] /\ Moves(b, "nothing")
Brings(b, bytes, pc) == op' = [op EXCEPT ![b] = [op[b] EXCEPT !.pc = pc, !.bytes = bytes]]
Counts(b, bytes, grown, why) ==
    build' = [build EXCEPT !.counted = build.counted + bytes + grown, !.reserved = @ + bytes + grown - op[b].reserved,
                           !.reasons = @ \cup why]

LEMMA Downloadeds ==
  ASSUME CopiesTypeOK, NEW b \in C!Blobs, C!Downloaded(b)
  PROVE  /\ build.pc = "batch" /\ op[b].pc = "download"
         /\ \/ \E why \in SUBSET {"FILE_UNAVAILABLE"} : Fails(b, why)
            \/ \E bytes \in 1..C!Reservation(b), grown \in 0..1, pc \in {"nothing", "store import"}, why \in SUBSET {"LIMIT"} :
                  /\ Brings(b, bytes, pc)
                  /\ UNCHANGED build \/ Counts(b, bytes, grown, why)
                  /\ UNCHANGED write \/ write' = write \cup {Sealed("import", b)}
<1>1. build.pc = "batch" /\ op[b].pc = "download"
  BY DEF C!Downloaded, C!At
<1>2. CASE C!Nothing(b, IF build.aborted THEN {} ELSE {"FILE_UNAVAILABLE"}) /\ UNCHANGED write
  <2> DEFINE why == IF build.aborted THEN {} ELSE {"FILE_UNAVAILABLE"}
  <2>1. why \in SUBSET {"FILE_UNAVAILABLE"}
    OBVIOUS
  <2>2. Fails(b, why)
    BY <1>2 DEF C!Nothing, C!OpTo, Fails, Moves
  <2> HIDE DEF why
  <2>3. QED  BY <1>1, <2>1, <2>2
<1>3. ASSUME NEW bytes \in 1..C!Reservation(b), NEW grown \in 0..1,
             LET total == build.counted + bytes + grown
                 kept  == ~build.aborted /\ total <= MaxBytes
             IN /\ op' = [op EXCEPT ![b].pc = IF kept THEN "store import" ELSE "nothing", ![b].bytes = bytes]
                /\ build' = IF build.aborted THEN build
                            ELSE [build EXCEPT !.counted = total, !.reserved = @ + bytes + grown - op[b].reserved,
                                               !.reasons = @ \cup IF kept THEN {} ELSE {"LIMIT"}]
                /\ IF kept THEN C!Sealed("import", b) ELSE UNCHANGED write
      PROVE  \E pc \in {"nothing", "store import"}, why \in SUBSET {"LIMIT"} :
                  /\ Brings(b, bytes, pc)
                  /\ UNCHANGED build \/ Counts(b, bytes, grown, why)
                  /\ UNCHANGED write \/ write' = write \cup {Sealed("import", b)}
  <2> DEFINE kept == ~build.aborted /\ build.counted + bytes + grown <= MaxBytes
             pc   == IF kept THEN "store import" ELSE "nothing"
             why  == IF kept THEN {} ELSE {"LIMIT"}
             e    == [op EXCEPT ![b].pc = pc]
  <2>1. op' = [e EXCEPT ![b].bytes = bytes]
    BY <1>3
  <2>2. pc \in {"nothing", "store import"} /\ why \in SUBSET {"LIMIT"}
    OBVIOUS
  <2>3. UNCHANGED build \/ Counts(b, bytes, grown, why)
    BY <1>3 DEF Counts
  <2>4. UNCHANGED write \/ write' = write \cup {Sealed("import", b)}
    BY <1>3 DEF C!Sealed, Sealed
  <2> HIDE DEF pc, why, kept
  <2>5. e[b] = [op[b] EXCEPT !.pc = pc] /\ e \in [C!Blobs -> Downloads] /\ op \in [C!Blobs -> Downloads]
        /\ \A c \in C!Blobs : c # b => e[c] = op[c]
    BY <2>2 DEF CopiesTypeOK, Operating, Downloads, OpSteps
  <2> HIDE DEF e
  <2>6. op' = [op EXCEPT ![b] = [e[b] EXCEPT !.bytes = bytes]]
    BY <2>1, <2>5
  <2>7. Brings(b, bytes, pc)
    BY <2>5, <2>6 DEF Brings
  <2>8. QED  BY <2>2, <2>3, <2>4, <2>7
<1>4. QED  BY <1>1, <1>2, <1>3 DEF C!Downloaded

LEMMA UpTo == /\ \A n \in Nat : \A i \in 1..n : i \in Nat /\ i <= n
              /\ \A i \in 0..1 : i \in Nat
  OBVIOUS

LEMMA SealedTyped ==
  ASSUME Writes, NEW kind \in C!Kinds, NEW b \in C!Blobs, UNCHANGED write \/ write' = write \cup {Sealed(kind, b)}
  PROVE  Writes'
<1>1. Sealed(kind, b) \in Transactions
  BY DEF Transactions, Sealed
<1>2. write' \subseteq Transactions
  BY <1>1 DEF Writes
<1>3. QED  BY <1>2 DEF Writes, Transactions

LEMMA MovesTyped ==
  ASSUME Operating, NEW b \in C!Blobs, NEW r \in Downloads, op' = [op EXCEPT ![b] = r]
  PROVE  Operating'
<1>1. op' \in [C!Blobs -> Downloads]
  BY DEF Operating
<1>2. QED  BY <1>1 DEF Operating

LEMMA CountsTyped ==
  ASSUME Building, NEW b, op[b] \in Downloads, NEW bytes \in Nat, NEW grown \in Nat, NEW why \in SUBSET {"LIMIT"},
         Counts(b, bytes, grown, why)
  PROVE  Building'
<1> DEFINE counted  == build.counted + bytes + grown
           reserved == build.reserved + bytes + grown - op[b].reserved
           reasons  == build.reasons \cup why
<1>1. counted \in Nat /\ reserved \in Int
  BY DEF Building, Builds, Downloads
<1>2. reasons \in SUBSET Reasons
  BY DEF Building, Builds, Reasons
<1>3. build' = [build EXCEPT !.counted = counted, !.reserved = reserved, !.reasons = reasons]
  BY DEF Counts
<1> HIDE DEF counted, reserved, reasons
<1>4. build' \in Builds
  BY <1>1, <1>2, <1>3 DEF Building, Builds
<1>5. QED  BY <1>4 DEF Building, Builds

LEMMA GetTyped ==
  ASSUME C!CacheConstants, CopiesTypeOK, Listed, NEW b \in C!Blobs, C!Get(b)
  PROVE  Tables' /\ Writes' /\ Building' /\ Operating'
<1>0. Tables /\ Writes /\ Building /\ Operating /\ op[b] \in Downloads
  BY DEF CopiesTypeOK, Operating
<1>1. C!Reservation(b) \in Nat
  BY Gets, ReservationTyped DEF Listed
<1>2. Tables'
  <2>1. CASE UNCHANGED table
    BY <1>0, <2>1 DEF Tables
  <2>2. CASE Forgets(b)
    BY <1>0, <2>2 DEF Forgets, Tables, C!Kinds
  <2>3. QED  BY <2>1, <2>2, Gets DEF GotNothing, GotFile, GotRoom, GotNoRoom
<1>3. Writes'
  <2>1. UNCHANGED write \/ write' = write \cup {Sealed("import", b)}
    BY Gets DEF GotNothing, GotFile, GotRoom, GotNoRoom, Forgets
  <2>2. "import" \in C!Kinds
    BY DEF C!Kinds
  <2>3. QED  BY <1>0, <2>1, <2>2, SealedTyped
<1>4. Building'
  <2>1. CASE UNCHANGED build
    BY <1>0, <2>1 DEF Building
  <2>2. CASE GotRoom(b)
    <3>1. build' = [build EXCEPT !.downloads = build.downloads + 1, !.reserved = build.reserved + C!Reservation(b)]
      BY <2>2 DEF GotRoom
    <3>2. build.downloads + 1 \in Nat /\ build.reserved + C!Reservation(b) \in Int
      BY <1>0, <1>1 DEF Building, Builds
    <3>3. build' \in Builds
      BY <1>0, <3>1, <3>2 DEF Building, Builds
    <3>4. QED  BY <3>3 DEF Building, Builds
  <2>3. CASE GotNoRoom(b)
    <3>1. build' \in Builds
      BY <1>0, <2>3 DEF GotNoRoom, Building, Builds, Reasons
    <3>2. QED  BY <3>1 DEF Building, Builds
  <2>4. QED  BY <2>1, <2>2, <2>3, Gets DEF GotNothing, GotFile
<1>5. Operating'
  <2>1. [op[b] EXCEPT !.pc = "nothing"] \in Downloads /\ [op[b] EXCEPT !.pc = "store import"] \in Downloads
    BY <1>0 DEF Downloads, OpSteps
  <2>2. [op[b] EXCEPT !.pc = "download", !.reserved = C!Reservation(b)] \in Downloads
    BY <1>0, <1>1 DEF Downloads, OpSteps
  <2>3. \E r \in Downloads : op' = [op EXCEPT ![b] = r]
    BY <2>1, <2>2, Gets DEF GotNothing, GotFile, GotRoom, GotNoRoom, Moves
  <2>4. QED  BY <1>0, <2>3, MovesTyped
<1>6. QED  BY <1>2, <1>3, <1>4, <1>5

LEMMA DownloadedTyped ==
  ASSUME C!CacheConstants, CopiesTypeOK, Listed, NEW b \in C!Blobs, C!Downloaded(b)
  PROVE  Writes' /\ Building' /\ Operating'
<1>0. Writes /\ Building /\ Operating /\ op[b] \in Downloads
  BY DEF CopiesTypeOK, Operating
<1>1. C!Reservation(b) \in Nat
  BY Downloadeds, ReservationTyped DEF Listed
<1>2. CASE \E why \in SUBSET {"FILE_UNAVAILABLE"} : Fails(b, why)
  <2>1. PICK why \in SUBSET {"FILE_UNAVAILABLE"} : Fails(b, why)
    BY <1>2
  <2>2. Writes'
    BY <1>0, <2>1 DEF Fails, Writes
  <2>3. build' \in Builds
    BY <1>0, <2>1 DEF Fails, Building, Builds, Reasons
  <2>4. Building'
    BY <2>3 DEF Building, Builds
  <2>5. [op[b] EXCEPT !.pc = "nothing"] \in Downloads
    BY <1>0 DEF Downloads, OpSteps
  <2>6. QED  BY <1>0, <2>1, <2>2, <2>4, <2>5, MovesTyped DEF Fails, Moves
<1>3. ASSUME NEW bytes \in 1..C!Reservation(b), NEW grown \in 0..1, NEW pc \in {"nothing", "store import"},
             NEW why \in SUBSET {"LIMIT"},
             Brings(b, bytes, pc), UNCHANGED build \/ Counts(b, bytes, grown, why),
             UNCHANGED write \/ write' = write \cup {Sealed("import", b)}
      PROVE  Writes' /\ Building' /\ Operating'
  <2>1. Writes'
    <3>1. "import" \in C!Kinds
      BY DEF C!Kinds
    <3>2. QED  BY <1>0, <1>3, <3>1, SealedTyped
  <2>2. ASSUME UNCHANGED build PROVE Building'
    BY <1>0, <2>2 DEF Building
  <2>3. ASSUME Counts(b, bytes, grown, why) PROVE Building'
    <3>1. bytes \in Nat
      BY <1>1, UpTo
    <3>2. grown \in Nat
      BY UpTo
    <3>3. QED  BY <1>0, <2>3, <3>1, <3>2, CountsTyped
  <2>4. [op[b] EXCEPT !.pc = pc, !.bytes = bytes] \in Downloads
    <3>1. bytes \in Nat
      BY <1>1, UpTo
    <3>2. QED  BY <1>0, <1>3, <3>1 DEF Downloads, OpSteps
  <2>5. Operating'
    BY <1>0, <1>3, <2>4, MovesTyped DEF Brings
  <2>6. QED  BY <1>3, <2>1, <2>2, <2>3, <2>5
<1>4. QED  BY <1>2, <1>3, Downloadeds

\* Every step keeps the types.
LEMMA CopiesTyped ==
  ASSUME C!CacheConstants, CopiesTypeOK, Listed, C!Next
  PROVE  CopiesTypeOK'
<1>0. Flags /\ Departing /\ Tables /\ Writes /\ Building /\ Operating
  BY DEF CopiesTypeOK
<1>1. ASSUME NEW w \in write, C!BeginWrite(w) PROVE CopiesTypeOK'
  <2>1. Flags'
    BY <1>0, <1>1 DEF C!BeginWrite, C!Lock, C!Locked, Flags
  <2>2. Departing'
    BY <1>0, <1>1 DEF C!BeginWrite, C!Lock, C!Locked, Departing
  <2>3. Tables'
    BY <1>0, <1>1 DEF C!BeginWrite, C!Lock, C!Locked, Tables
  <2>4. Writes'
    BY <1>0, <1>1 DEF C!BeginWrite, C!Lock, C!Locked, Writes, Transactions, C!Kinds
  <2>5. Building'
    BY <1>0, <1>1 DEF C!BeginWrite, C!Lock, C!Locked, Building
  <2>6. Operating'
    BY <1>0, <1>1 DEF C!BeginWrite, C!Lock, C!Locked, Operating
  <2>7. QED  BY <2>1, <2>2, <2>3, <2>4, <2>5, <2>6 DEF CopiesTypeOK
<1>2. ASSUME NEW w \in write, C!Commit(w) PROVE CopiesTypeOK'
  <2>1. Flags'
    BY <1>0, <1>2 DEF C!Commit, C!Row, Flags
  <2>2. Departing'
    BY <1>0, <1>2 DEF C!Commit, C!Row, Departing
  <2>3. Tables'
    BY <1>0, <1>2 DEF C!Commit, C!Row, Tables, C!Kinds
  <2>4. Writes'
    BY <1>0, <1>2 DEF C!Commit, C!Row, Writes, Transactions, C!Kinds
  <2>5. Building'
    BY <1>0, <1>2 DEF C!Commit, C!Row, Building
  <2>6. Operating'
    BY <1>0, <1>2 DEF C!Commit, C!Row, Operating
  <2>7. QED  BY <2>1, <2>2, <2>3, <2>4, <2>5, <2>6 DEF CopiesTypeOK
<1>3. ASSUME NEW w \in write, C!FailWrite(w) PROVE CopiesTypeOK'
  <2>1. Flags'
    BY <1>0, <1>3 DEF C!FailWrite, Flags, C!Rows
  <2>2. Departing'
    BY <1>0, <1>3 DEF C!FailWrite, Departing
  <2>3. Tables'
    BY <1>0, <1>3 DEF C!FailWrite, Tables
  <2>4. Writes'
    BY <1>0, <1>3 DEF C!FailWrite, Writes, Transactions, C!Kinds
  <2>5. Building'
    BY <1>0, <1>3 DEF C!FailWrite, Building
  <2>6. Operating'
    BY <1>0, <1>3 DEF C!FailWrite, Operating
  <2>7. QED  BY <2>1, <2>2, <2>3, <2>4, <2>5, <2>6 DEF CopiesTypeOK
<1>4. ASSUME C!Begin PROVE CopiesTypeOK'
  <2>1. Flags'
    BY <1>0, <1>4 DEF C!Begin, C!NoBuild, C!NoOp, Flags, C!Rows
  <2>2. Departing'
    BY <1>0, <1>4 DEF C!Begin, C!NoBuild, C!NoOp, Departing
  <2>3. Tables'
    BY <1>0, <1>4 DEF C!Begin, C!NoBuild, C!NoOp, Tables
  <2>4. Writes'
    BY <1>0, <1>4 DEF C!Begin, C!NoBuild, C!NoOp, Writes
  <2>5. Building'
    <3>1. PICK files \in Listings, hits \in SUBSET {b \in C!Blobs : C!Usable("import", b)}, failed \in {{}, {"CACHE_UNAVAILABLE"}} :
             build' = [C!NoBuild EXCEPT !.pc = "batch", !.files = files, !.hits = hits,
                          !.reasons = failed \cup IF Len(files) > MaxFiles THEN {"FILE_LIMIT"} ELSE {}]
      BY <1>4 DEF C!Begin
    <3> DEFINE reasons == failed \cup IF Len(files) > MaxFiles THEN {"FILE_LIMIT"} ELSE {}
    <3>2. reasons \in SUBSET Reasons
      BY DEF Reasons
    <3>3. hits \in SUBSET C!Blobs
      OBVIOUS
    <3> HIDE DEF reasons
    <3>4. build' = [pc |-> "batch", files |-> files, next |-> 1, hits |-> hits, reasons |-> reasons,
                    aborted |-> FALSE, downloads |-> 0, reserved |-> 0, counted |-> 0]
      BY <3>1 DEF C!NoBuild, reasons
    <3>5. QED  BY <3>2, <3>3, <3>4 DEF Building, Builds
  <2>6. Operating'
    BY <1>0, <1>4 DEF C!Begin, C!NoBuild, C!NoOp, Operating, Downloads, OpSteps
  <2>7. QED  BY <2>1, <2>2, <2>3, <2>4, <2>5, <2>6 DEF CopiesTypeOK
<1>5. ASSUME C!Abort PROVE CopiesTypeOK'
  <2>1. Flags'
    BY <1>0, <1>5 DEF C!Abort, Flags
  <2>2. Departing'
    BY <1>0, <1>5 DEF C!Abort, Departing
  <2>3. Tables'
    BY <1>0, <1>5 DEF C!Abort, Tables
  <2>4. Writes'
    BY <1>0, <1>5 DEF C!Abort, Writes
  <2>5. Building'
    BY <1>0, <1>5 DEF C!Abort, Building, Builds, Reasons
  <2>6. Operating'
    BY <1>0, <1>5 DEF C!Abort, Operating
  <2>7. QED  BY <2>1, <2>2, <2>3, <2>4, <2>5, <2>6 DEF CopiesTypeOK
<1>6. ASSUME C!NextBatch PROVE CopiesTypeOK'
  <2>1. Flags'
    BY <1>0, <1>6 DEF C!NextBatch, Flags
  <2>2. Departing'
    BY <1>0, <1>6 DEF C!NextBatch, Departing
  <2>3. Tables'
    BY <1>0, <1>6 DEF C!NextBatch, Tables
  <2>4. Writes'
    BY <1>0, <1>6 DEF C!NextBatch, Writes
  <2>5. Building'
    <3>1. Concurrency \in Nat
      BY DEF C!CacheConstants
    <3>2. QED  BY <1>0, <1>6, <3>1 DEF C!NextBatch, Building, Builds
  <2>6. Operating'
    BY <1>0, <1>6 DEF C!NextBatch, Operating
  <2>7. QED  BY <2>1, <2>2, <2>3, <2>4, <2>5, <2>6 DEF CopiesTypeOK
<1>7. ASSUME C!End PROVE CopiesTypeOK'
  <2>1. Flags'
    BY <1>0, <1>7 DEF C!End, Flags
  <2>2. Departing'
    BY <1>0, <1>7 DEF C!End, Departing
  <2>3. Tables'
    BY <1>0, <1>7 DEF C!End, Tables
  <2>4. Writes'
    BY <1>0, <1>7 DEF C!End, Writes
  <2>5. Building'
    BY <1>0, <1>7 DEF C!End, Building, Builds
  <2>6. Operating'
    BY <1>0, <1>7 DEF C!End, Operating
  <2>7. QED  BY <2>1, <2>2, <2>3, <2>4, <2>5, <2>6 DEF CopiesTypeOK
<1>8. ASSUME C!NextReview PROVE CopiesTypeOK'
  <2>1. Flags'
    BY <1>0, <1>8 DEF C!NextReview, C!NoBuild, C!NoOp, Flags
  <2>2. Departing'
    BY <1>0, <1>8 DEF C!NextReview, C!NoBuild, C!NoOp, Departing
  <2>3. Tables'
    BY <1>0, <1>8 DEF C!NextReview, C!NoBuild, C!NoOp, Tables
  <2>4. Writes'
    BY <1>0, <1>8 DEF C!NextReview, C!NoBuild, C!NoOp, Writes
  <2>5. Building'
    BY <1>0, <1>8 DEF C!NextReview, C!NoBuild, C!NoOp, Building, Builds
  <2>6. Operating'
    BY <1>0, <1>8 DEF C!NextReview, C!NoBuild, C!NoOp, Operating, Downloads, OpSteps
  <2>7. QED  BY <2>1, <2>2, <2>3, <2>4, <2>5, <2>6 DEF CopiesTypeOK
<1>9. ASSUME NEW b \in C!Blobs, C!StartRead(b) PROVE CopiesTypeOK'
  <2>1. Flags'
    BY <1>0, <1>9 DEF C!StartRead, C!OpTo, C!At, Flags
  <2>2. Departing'
    BY <1>0, <1>9 DEF C!StartRead, C!OpTo, C!At, Departing
  <2>3. Tables'
    BY <1>0, <1>9 DEF C!StartRead, C!OpTo, C!At, Tables
  <2>4. Writes'
    BY <1>0, <1>9 DEF C!StartRead, C!OpTo, C!At, Writes
  <2>5. Building'
    BY <1>0, <1>9 DEF C!StartRead, C!OpTo, C!At, Building
  <2>6. Operating'
    BY <1>0, <1>9 DEF C!StartRead, C!OpTo, C!At, Operating, Downloads, OpSteps
  <2>7. QED  BY <2>1, <2>2, <2>3, <2>4, <2>5, <2>6 DEF CopiesTypeOK
<1>10. ASSUME NEW b \in C!Blobs, C!Get(b) PROVE CopiesTypeOK'
  <2>1. Flags'
    BY <1>0, <1>10 DEF C!Get, C!OpTo, C!At, C!Sealed, C!Spend, C!Nothing, Flags
  <2>2. Departing'
    BY <1>0, <1>10 DEF C!Get, C!OpTo, C!At, C!Sealed, C!Spend, C!Nothing, Departing
  <2>3. Tables'
    BY <1>0, <1>10, GetTyped DEF CopiesTypeOK
  <2>4. Writes'
    BY <1>0, <1>10, GetTyped DEF CopiesTypeOK
  <2>5. Building'
    BY <1>0, <1>10, GetTyped DEF CopiesTypeOK
  <2>6. Operating'
    BY <1>0, <1>10, GetTyped DEF CopiesTypeOK
  <2>7. QED  BY <2>1, <2>2, <2>3, <2>4, <2>5, <2>6 DEF CopiesTypeOK
<1>11. ASSUME NEW b \in C!Blobs, C!Downloaded(b) PROVE CopiesTypeOK'
  <2>1. Flags'
    BY <1>0, <1>11 DEF C!Downloaded, C!OpTo, C!At, C!Sealed, C!Nothing, Flags
  <2>2. Departing'
    BY <1>0, <1>11 DEF C!Downloaded, C!OpTo, C!At, C!Sealed, C!Nothing, Departing
  <2>3. Tables'
    BY <1>0, <1>11 DEF C!Downloaded, C!OpTo, C!At, C!Sealed, C!Nothing, Tables
  <2>4. Writes'
    BY <1>0, <1>11, DownloadedTyped DEF CopiesTypeOK
  <2>5. Building'
    BY <1>0, <1>11, DownloadedTyped DEF CopiesTypeOK
  <2>6. Operating'
    BY <1>0, <1>11, DownloadedTyped DEF CopiesTypeOK
  <2>7. QED  BY <2>1, <2>2, <2>3, <2>4, <2>5, <2>6 DEF CopiesTypeOK
<1>12. ASSUME NEW b \in C!Blobs, C!StoredImport(b) PROVE CopiesTypeOK'
  <2>1. Flags'
    BY <1>0, <1>12 DEF C!StoredImport, C!OpTo, C!At, C!Sealed, Flags
  <2>2. Departing'
    BY <1>0, <1>12 DEF C!StoredImport, C!OpTo, C!At, C!Sealed, Departing
  <2>3. Tables'
    BY <1>0, <1>12 DEF C!StoredImport, C!OpTo, C!At, C!Sealed, Tables
  <2>4. Writes'
    <3>1. [kind |-> "file", blob |-> b, step |-> "sealed"] \in Transactions
      BY DEF Transactions, C!Kinds
    <3>2. write' \subseteq write \cup {[kind |-> "file", blob |-> b, step |-> "sealed"]}
      BY <1>12 DEF C!StoredImport, C!Sealed
    <3>3. write' \subseteq Transactions
      BY <1>0, <3>1, <3>2 DEF Writes
    <3>4. QED  BY <3>3 DEF Writes, Transactions
  <2>5. Building'
    BY <1>0, <1>12 DEF C!StoredImport, C!OpTo, C!At, C!Sealed, Building
  <2>6. Operating'
    BY <1>0, <1>12 DEF C!StoredImport, C!OpTo, C!At, C!Sealed, Operating, Downloads, OpSteps
  <2>7. QED  BY <2>1, <2>2, <2>3, <2>4, <2>5, <2>6 DEF CopiesTypeOK
<1>13. ASSUME NEW b \in C!Blobs, C!StoredFile(b) PROVE CopiesTypeOK'
  <2>1. Flags'
    BY <1>0, <1>13 DEF C!StoredFile, C!OpTo, C!At, Flags
  <2>2. Departing'
    BY <1>0, <1>13 DEF C!StoredFile, C!OpTo, C!At, Departing
  <2>3. Tables'
    BY <1>0, <1>13 DEF C!StoredFile, C!OpTo, C!At, Tables
  <2>4. Writes'
    BY <1>0, <1>13 DEF C!StoredFile, C!OpTo, C!At, Writes
  <2>5. Building'
    BY <1>0, <1>13 DEF C!StoredFile, C!OpTo, C!At, Building
  <2>6. Operating'
    BY <1>0, <1>13 DEF C!StoredFile, C!OpTo, C!At, Operating, Downloads, OpSteps
  <2>7. QED  BY <2>1, <2>2, <2>3, <2>4, <2>5, <2>6 DEF CopiesTypeOK
<1>14. ASSUME NEW k \in C!Kinds, NEW b \in C!Blobs, C!Expire(k, b) PROVE CopiesTypeOK'
  <2>1. Flags'
    BY <1>0, <1>14 DEF C!Expire, Flags
  <2>2. Departing'
    BY <1>0, <1>14 DEF C!Expire, Departing
  <2>3. Tables'
    BY <1>0, <1>14 DEF C!Expire, Tables, C!Kinds
  <2>4. Writes'
    BY <1>0, <1>14 DEF C!Expire, Writes
  <2>5. Building'
    BY <1>0, <1>14 DEF C!Expire, Building
  <2>6. Operating'
    BY <1>0, <1>14 DEF C!Expire, Operating
  <2>7. QED  BY <2>1, <2>2, <2>3, <2>4, <2>5, <2>6 DEF CopiesTypeOK
<1>15. ASSUME C!Configure PROVE CopiesTypeOK'
  <2>1. Flags'
    BY <1>0, <1>15 DEF C!Configure, Flags, C!Rows
  <2>2. Departing'
    BY <1>0, <1>15 DEF C!Configure, Departing
  <2>3. Tables'
    BY <1>0, <1>15 DEF C!Configure, Tables
  <2>4. Writes'
    BY <1>0, <1>15 DEF C!Configure, Writes
  <2>5. Building'
    BY <1>0, <1>15 DEF C!Configure, Building
  <2>6. Operating'
    BY <1>0, <1>15 DEF C!Configure, Operating
  <2>7. QED  BY <2>1, <2>2, <2>3, <2>4, <2>5, <2>6 DEF CopiesTypeOK
<1>16. ASSUME C!Select PROVE CopiesTypeOK'
  <2>1. Flags'
    BY <1>0, <1>16 DEF C!Select, Flags, C!Rows
  <2>2. Departing'
    BY <1>0, <1>16 DEF C!Select, Departing
  <2>3. Tables'
    BY <1>0, <1>16 DEF C!Select, Tables, C!Kinds
  <2>4. Writes'
    BY <1>0, <1>16 DEF C!Select, Writes
  <2>5. Building'
    BY <1>0, <1>16 DEF C!Select, Building
  <2>6. Operating'
    BY <1>0, <1>16 DEF C!Select, Operating
  <2>7. QED  BY <2>1, <2>2, <2>3, <2>4, <2>5, <2>6 DEF CopiesTypeOK
<1>17. ASSUME C!Sweep PROVE CopiesTypeOK'
  <2>1. Flags'
    BY <1>0, <1>17 DEF C!Sweep, Flags, C!Rows
  <2>2. Departing'
    BY <1>0, <1>17 DEF C!Sweep, Departing
  <2>3. Tables'
    BY <1>0, <1>17 DEF C!Sweep, Tables, C!Kinds
  <2>4. Writes'
    BY <1>0, <1>17 DEF C!Sweep, Writes
  <2>5. Building'
    BY <1>0, <1>17 DEF C!Sweep, Building
  <2>6. Operating'
    BY <1>0, <1>17 DEF C!Sweep, Operating
  <2>7. QED  BY <2>1, <2>2, <2>3, <2>4, <2>5, <2>6 DEF CopiesTypeOK
<1>18. ASSUME C!Deactivate PROVE CopiesTypeOK'
  <2>1. Flags'
    BY <1>0, <1>18 DEF C!Deactivate, C!Locked, Flags, C!Rows
  <2>2. Departing'
    BY <1>0, <1>18 DEF C!Deactivate, C!Locked, Departing
  <2>3. Tables'
    BY <1>0, <1>18 DEF C!Deactivate, C!Locked, Tables
  <2>4. Writes'
    BY <1>0, <1>18 DEF C!Deactivate, C!Locked, Writes
  <2>5. Building'
    BY <1>0, <1>18 DEF C!Deactivate, C!Locked, Building
  <2>6. Operating'
    BY <1>0, <1>18 DEF C!Deactivate, C!Locked, Operating
  <2>7. QED  BY <2>1, <2>2, <2>3, <2>4, <2>5, <2>6 DEF CopiesTypeOK
<1>19. ASSUME C!Clear("import", "deactivated", "imports cleared") PROVE CopiesTypeOK'
  <2>1. Flags'
    BY <1>0, <1>19 DEF C!Clear, Flags, C!Rows
  <2>2. Departing'
    BY <1>0, <1>19 DEF C!Clear, Departing
  <2>3. Tables'
    BY <1>0, <1>19 DEF C!Clear, Tables, C!Kinds
  <2>4. Writes'
    BY <1>0, <1>19 DEF C!Clear, Writes
  <2>5. Building'
    BY <1>0, <1>19 DEF C!Clear, Building
  <2>6. Operating'
    BY <1>0, <1>19 DEF C!Clear, Operating
  <2>7. QED  BY <2>1, <2>2, <2>3, <2>4, <2>5, <2>6 DEF CopiesTypeOK
<1>20. ASSUME C!Clear("file", "imports cleared", "cleared") PROVE CopiesTypeOK'
  <2>1. Flags'
    BY <1>0, <1>20 DEF C!Clear, Flags, C!Rows
  <2>2. Departing'
    BY <1>0, <1>20 DEF C!Clear, Departing
  <2>3. Tables'
    BY <1>0, <1>20 DEF C!Clear, Tables, C!Kinds
  <2>4. Writes'
    BY <1>0, <1>20 DEF C!Clear, Writes
  <2>5. Building'
    BY <1>0, <1>20 DEF C!Clear, Building
  <2>6. Operating'
    BY <1>0, <1>20 DEF C!Clear, Operating
  <2>7. QED  BY <2>1, <2>2, <2>3, <2>4, <2>5, <2>6 DEF CopiesTypeOK
<1>21. ASSUME C!Answer PROVE CopiesTypeOK'
  <2>1. Flags'
    BY <1>0, <1>21 DEF C!Answer, Flags, C!Rows
  <2>2. Departing'
    BY <1>0, <1>21 DEF C!Answer, Departing
  <2>3. Tables'
    BY <1>0, <1>21 DEF C!Answer, Tables
  <2>4. Writes'
    BY <1>0, <1>21 DEF C!Answer, Writes
  <2>5. Building'
    BY <1>0, <1>21 DEF C!Answer, Building
  <2>6. Operating'
    BY <1>0, <1>21 DEF C!Answer, Operating
  <2>7. QED  BY <2>1, <2>2, <2>3, <2>4, <2>5, <2>6 DEF CopiesTypeOK
<1>22. ASSUME C!FailToLeave PROVE CopiesTypeOK'
  <2>1. Flags'
    BY <1>0, <1>22 DEF C!FailToLeave, Flags, C!Rows
  <2>2. Departing'
    BY <1>0, <1>22 DEF C!FailToLeave, Departing
  <2>3. Tables'
    BY <1>0, <1>22 DEF C!FailToLeave, Tables
  <2>4. Writes'
    BY <1>0, <1>22 DEF C!FailToLeave, Writes
  <2>5. Building'
    BY <1>0, <1>22 DEF C!FailToLeave, Building
  <2>6. Operating'
    BY <1>0, <1>22 DEF C!FailToLeave, Operating
  <2>7. QED  BY <2>1, <2>2, <2>3, <2>4, <2>5, <2>6 DEF CopiesTypeOK
<1>23. ASSUME C!Connect PROVE CopiesTypeOK'
  <2>1. Flags'
    <3>1. code' = [active |-> TRUE, links |-> code.links + 1] /\ promised' = FALSE
      BY <1>23 DEF C!Connect
    <3>2. code.links + 1 \in Nat
      BY <1>0 DEF Flags
    <3>3. code' \in [active : BOOLEAN, links : Nat]
      BY <3>1, <3>2
    <3>4. QED  BY <1>0, <1>23, <3>1, <3>3 DEF C!Connect, Flags, C!Rows
  <2>2. Departing'
    BY <1>0, <1>23 DEF C!Connect, C!Locked, Departing
  <2>3. Tables'
    BY <1>0, <1>23 DEF C!Connect, C!Locked, Tables
  <2>4. Writes'
    BY <1>0, <1>23 DEF C!Connect, C!Locked, Writes
  <2>5. Building'
    BY <1>0, <1>23 DEF C!Connect, C!Locked, Building
  <2>6. Operating'
    BY <1>0, <1>23 DEF C!Connect, C!Locked, Operating
  <2>7. QED  BY <2>1, <2>2, <2>3, <2>4, <2>5, <2>6 DEF CopiesTypeOK
<1>24. QED
  BY <1>1, <1>2, <1>3, <1>4, <1>5, <1>6, <1>7, <1>8, <1>9, <1>10, <1>11, <1>12, <1>13, <1>14, <1>15, <1>16, <1>17, <1>18, <1>19, <1>20, <1>21, <1>22, <1>23 DEF C!Next

-------------------------------------------------------------------------------
(* What a step does to the index *)

Rests   == UNCHANGED <<build, op>>
Fresh   == /\ op' = [b \in C!Blobs |-> C!NoOp]
           /\ build'.pc # "COMPLETE" /\ build'.downloads = 0 /\ build'.reserved = 0
Passes  == /\ UNCHANGED op /\ build'.files = build.files /\ build'.hits = build.hits
           /\ build'.downloads = build.downloads /\ build'.reserved = build.reserved
           /\ build'.pc = "COMPLETE" => C!Complete
Goes(b, r) == /\ op[b].pc \in {"none", "get", "store import", "store file"}
              /\ r.pc \notin {"none", "download"} /\ (r.pc = "get" => op[b].pc = "none")
              /\ r.bytes = op[b].bytes
              /\ build'.downloads = build.downloads /\ build'.reserved = build.reserved
Takes(b, r) == /\ op[b].pc = "get" /\ r.pc = "download" /\ r.reserved = C!Reservation(b) /\ r.bytes = op[b].bytes
               /\ build.downloads < MaxDownloads /\ build.reserved + C!Reservation(b) <= MaxBytes
               /\ build'.downloads = build.downloads + 1 /\ build'.reserved = build.reserved + C!Reservation(b)
Returns(b, r) == /\ op[b].pc = "download" /\ r.pc \in {"nothing", "store import"} /\ r.bytes <= C!Reservation(b)
                 /\ build'.downloads = build.downloads
                 /\ build'.reserved >= build.reserved + r.bytes - C!Reservation(b)
Operates(b, r) == /\ build'.pc = "batch" /\ build'.files = build.files
                  /\ op' = [op EXCEPT ![b] = r]
                  /\ \E f \in C!ToSet(build.files) : Blob(f) = b
                  /\ Goes(b, r) \/ Takes(b, r) \/ Returns(b, r)

Typed == C!CacheConstants /\ CopiesTypeOK /\ Listed

LEMMA Moving ==
  ASSUME Typed, NEW b \in C!Blobs, build.pc = "batch", UNCHANGED build, NEW pc \in OpSteps, Moves(b, pc),
         \E f \in C!ToSet(build.files) : Blob(f) = b,
         op[b].pc \in {"none", "get", "store import", "store file"},
         pc \notin {"none", "download"}, pc = "get" => op[b].pc = "none"
  PROVE  \E r \in Downloads : Operates(b, r)
<1> DEFINE r == [op[b] EXCEPT !.pc = pc]
<1>1. r \in Downloads /\ r.pc = pc /\ r.bytes = op[b].bytes
  BY DEF Typed, CopiesTypeOK, Operating, Downloads
<1>2. op' = [op EXCEPT ![b] = r]
  BY DEF Moves
<1> HIDE DEF r
<1>3. Goes(b, r)
  BY <1>1 DEF Goes
<1>4. QED  BY <1>1, <1>2, <1>3 DEF Operates

LEMMA StartOperates ==
  ASSUME Typed, NEW b \in C!Blobs, C!StartRead(b)
  PROVE  \E r \in Downloads : Operates(b, r)
<1>1. build.pc = "batch" /\ op[b].pc = "none" /\ UNCHANGED build
  BY DEF C!StartRead, C!At
<1>2. \E f \in C!ToSet(build.files) : Blob(f) = b
  BY BatchListed DEF Typed, C!StartRead
<1>3. Moves(b, "nothing") \/ Moves(b, "get")
  BY DEF C!StartRead, C!OpTo, Moves
<1>4. "nothing" \in OpSteps /\ "get" \in OpSteps
  BY DEF OpSteps
<1>5. CASE Moves(b, "nothing")
  BY <1>1, <1>2, <1>4, <1>5, Moving
<1>6. CASE Moves(b, "get")
  BY <1>1, <1>2, <1>4, <1>6, Moving
<1>7. QED  BY <1>3, <1>5, <1>6

LEMMA StoreOperates ==
  ASSUME Typed, NEW b \in C!Blobs, C!StoredImport(b) \/ C!StoredFile(b)
  PROVE  \E r \in Downloads : Operates(b, r)
<1>1. build.pc = "batch" /\ op[b].pc \in {"store import", "store file"} /\ UNCHANGED build
  BY DEF C!StoredImport, C!StoredFile, C!At
<1>2. \E f \in C!ToSet(build.files) : Blob(f) = b
  BY <1>1 DEF Typed, Listed
<1>3. Moves(b, "done") \/ Moves(b, "store file")
  BY DEF C!StoredImport, C!StoredFile, C!OpTo, Moves
<1>4. "done" \in OpSteps /\ "store file" \in OpSteps
  BY DEF OpSteps
<1>5. CASE Moves(b, "done")
  BY <1>1, <1>2, <1>4, <1>5, Moving
<1>6. CASE Moves(b, "store file")
  BY <1>1, <1>2, <1>4, <1>6, Moving
<1>7. QED  BY <1>3, <1>5, <1>6

LEMMA GetOperates ==
  ASSUME Typed, NEW b \in C!Blobs, C!Get(b)
  PROVE  \E r \in Downloads : Operates(b, r)
<1>1. build.pc = "batch" /\ op[b].pc = "get"
  BY Gets DEF Typed
<1>2. \E f \in C!ToSet(build.files) : Blob(f) = b
  BY <1>1 DEF Typed, Listed
<1>3. op[b] \in Downloads /\ build \in Builds
  BY DEF Typed, CopiesTypeOK, Operating, Building
<1>4. C!Reservation(b) \in Nat
  BY <1>2, ReservationTyped DEF Typed
<1>5. ASSUME GotNothing(b) \/ GotFile(b) PROVE \E r \in Downloads : Operates(b, r)
  <2>1. UNCHANGED build /\ (Moves(b, "nothing") \/ Moves(b, "store import"))
    BY <1>5 DEF GotNothing, GotFile
  <2>2. "nothing" \in OpSteps /\ "store import" \in OpSteps
    BY DEF OpSteps
  <2>3. CASE Moves(b, "nothing")
    BY <1>1, <1>2, <2>1, <2>2, <2>3, Moving
  <2>4. CASE Moves(b, "store import")
    BY <1>1, <1>2, <2>1, <2>2, <2>4, Moving
  <2>5. QED  BY <2>1, <2>3, <2>4
<1>6. ASSUME GotRoom(b) PROVE \E r \in Downloads : Operates(b, r)
  <2> DEFINE r == [op[b] EXCEPT !.pc = "download", !.reserved = C!Reservation(b)]
  <2>1. r \in Downloads /\ r.pc = "download" /\ r.reserved = C!Reservation(b) /\ r.bytes = op[b].bytes
    BY <1>3, <1>4 DEF Downloads, OpSteps
  <2>2. op' = [op EXCEPT ![b] = r]
    BY <1>6 DEF GotRoom
  <2> HIDE DEF r
  <2>3. /\ build'.pc = "batch" /\ build'.files = build.files
        /\ build'.downloads = build.downloads + 1 /\ build'.reserved = build.reserved + C!Reservation(b)
    BY <1>1, <1>3, <1>6 DEF GotRoom, Builds
  <2>4. Takes(b, r)
    BY <1>1, <1>6, <2>1, <2>3 DEF Takes, GotRoom
  <2>5. QED  BY <1>2, <2>1, <2>2, <2>3, <2>4 DEF Operates
<1>7. ASSUME GotNoRoom(b) PROVE \E r \in Downloads : Operates(b, r)
  <2> DEFINE r == [op[b] EXCEPT !.pc = "nothing"]
  <2>1. r \in Downloads /\ r.pc = "nothing" /\ r.bytes = op[b].bytes
    BY <1>3 DEF Downloads, OpSteps
  <2>2. op' = [op EXCEPT ![b] = r]
    BY <1>7 DEF GotNoRoom, Moves
  <2> HIDE DEF r
  <2>3. /\ build'.pc = "batch" /\ build'.files = build.files
        /\ build'.downloads = build.downloads /\ build'.reserved = build.reserved
    BY <1>1, <1>3, <1>7 DEF GotNoRoom, Builds
  <2>4. Goes(b, r)
    BY <1>1, <2>1, <2>3 DEF Goes
  <2>5. QED  BY <1>2, <2>1, <2>2, <2>3, <2>4 DEF Operates
<1>8. QED  BY <1>5, <1>6, <1>7, Gets DEF Typed

LEMMA GivenBack == \A x \in Int, n, m, g \in Nat : m <= n => x >= x + m - n /\ x + m + g - n >= x + m - n
  OBVIOUS

LEMMA DownloadOperates ==
  ASSUME Typed, Before, NEW b \in C!Blobs, C!Downloaded(b)
  PROVE  \E r \in Downloads : Operates(b, r)
<1>1. build.pc = "batch" /\ op[b].pc = "download"
  BY Downloadeds DEF Typed
<1>2. \E f \in C!ToSet(build.files) : Blob(f) = b
  BY <1>1 DEF Typed, Listed
<1>3. op[b] \in Downloads /\ build \in Builds
  BY DEF Typed, CopiesTypeOK, Operating, Building
<1>4. C!Reservation(b) \in Nat
  BY <1>2, ReservationTyped DEF Typed
<1>5. op[b].bytes = 0 /\ op[b].reserved = C!Reservation(b)
  <2>1. op[b].pc \in {"none", "get", "download"}
    BY <1>1
  <2>2. op[b].bytes = 0
    BY <2>1 DEF Before
  <2>3. QED  BY <1>1, <2>2 DEF Before
<1>6. ASSUME NEW why \in SUBSET {"FILE_UNAVAILABLE"}, Fails(b, why) PROVE \E r \in Downloads : Operates(b, r)
  <2> DEFINE r == [op[b] EXCEPT !.pc = "nothing"]
  <2>1. r \in Downloads /\ r.pc = "nothing" /\ r.bytes = 0
    BY <1>3, <1>5 DEF Downloads, OpSteps
  <2>2. op' = [op EXCEPT ![b] = r]
    BY <1>6 DEF Fails, Moves
  <2> HIDE DEF r
  <2>3. /\ build'.pc = "batch" /\ build'.files = build.files
        /\ build'.downloads = build.downloads /\ build'.reserved = build.reserved
    BY <1>1, <1>3, <1>6 DEF Fails, Builds
  <2>4. r.bytes <= C!Reservation(b) /\ build'.reserved >= build.reserved + r.bytes - C!Reservation(b)
    BY <1>3, <1>4, <2>1, <2>3 DEF Builds
  <2>5. Returns(b, r)
    BY <1>1, <2>1, <2>3, <2>4 DEF Returns
  <2>6. QED  BY <1>2, <2>1, <2>2, <2>3, <2>5 DEF Operates
<1>7. ASSUME NEW bytes \in Nat, bytes <= C!Reservation(b), NEW grown \in Nat, NEW pc \in {"nothing", "store import"},
             NEW why \in SUBSET {"LIMIT"}, Brings(b, bytes, pc), UNCHANGED build \/ Counts(b, bytes, grown, why)
      PROVE  \E r \in Downloads : Operates(b, r)
  <2> DEFINE r == [op[b] EXCEPT !.pc = pc, !.bytes = bytes]
  <2>1. r \in Downloads /\ r.pc \in {"nothing", "store import"} /\ r.bytes = bytes
    BY <1>3, <1>7 DEF Downloads, OpSteps
  <2>2. op' = [op EXCEPT ![b] = r]
    BY <1>7 DEF Brings
  <2> HIDE DEF r
  <2>3. build'.pc = "batch" /\ build'.files = build.files /\ build'.downloads = build.downloads
    BY <1>1, <1>3, <1>7 DEF Counts, Builds
  <2>4. build'.reserved = build.reserved \/ build'.reserved = build.reserved + bytes + grown - op[b].reserved
    BY <1>3, <1>7 DEF Counts, Builds
  <2>5. build'.reserved >= build.reserved + r.bytes - C!Reservation(b)
    <3> DEFINE x == build.reserved
               n == C!Reservation(b)
               y == build'.reserved
    <3>1. x \in Int /\ n \in Nat /\ bytes \in Nat /\ grown \in Nat /\ r.bytes = bytes /\ bytes <= n
      BY <1>3, <1>4, <1>7, <2>1 DEF Builds
    <3>2. y = x \/ y = x + bytes + grown - n
      BY <1>5, <2>4
    <3> HIDE DEF x, n, y
    <3>3. x >= x + bytes - n /\ x + bytes + grown - n >= x + bytes - n
      BY <3>1, GivenBack
    <3>4. y >= x + bytes - n
      BY <3>2, <3>3
    <3>5. QED  BY <3>1, <3>4 DEF x, n, y
  <2>6. Returns(b, r)
    BY <1>1, <1>7, <2>1, <2>3, <2>5 DEF Returns
  <2>7. QED  BY <1>2, <2>1, <2>2, <2>3, <2>6 DEF Operates
<1>8. ASSUME NEW bytes \in 1..C!Reservation(b), NEW grown \in 0..1, NEW pc \in {"nothing", "store import"},
             NEW why \in SUBSET {"LIMIT"}, Brings(b, bytes, pc), UNCHANGED build \/ Counts(b, bytes, grown, why)
      PROVE  \E r \in Downloads : Operates(b, r)
  <2>1. bytes \in Nat /\ bytes <= C!Reservation(b)
    BY <1>4, UpTo
  <2>2. grown \in Nat
    BY UpTo
  <2>3. QED  BY <1>7, <1>8, <2>1, <2>2
<1>9. QED  BY <1>6, <1>8, Downloadeds DEF Typed

LEMMA Effects ==
  ASSUME Typed, Before, C!Next
  PROVE  Rests \/ Fresh \/ Passes \/ \E b \in C!Blobs, r \in Downloads : Operates(b, r)
<1>0. build \in Builds
  BY DEF Typed, CopiesTypeOK, Building
<1>1. ASSUME NEW w \in write, C!BeginWrite(w) \/ C!Commit(w) \/ C!FailWrite(w) PROVE Rests
  BY <1>1 DEF C!BeginWrite, C!Commit, C!FailWrite, Rests
<1>2. ASSUME NEW b \in C!Blobs, NEW k \in C!Kinds, C!Expire(k, b) PROVE Rests
  BY <1>2 DEF C!Expire, Rests
<1>3. ASSUME C!Configure \/ C!Select \/ C!Sweep PROVE Rests
  BY <1>3 DEF C!Configure, C!Select, C!Sweep, Rests
<1>4. ASSUME \/ C!Deactivate \/ C!Clear("import", "deactivated", "imports cleared")
             \/ C!Clear("file", "imports cleared", "cleared") \/ C!Answer \/ C!FailToLeave \/ C!Connect
      PROVE  Rests
  BY <1>4 DEF C!Deactivate, C!Clear, C!Answer, C!FailToLeave, C!Connect, Rests
<1>5. ASSUME C!Begin PROVE Fresh
  BY <1>5 DEF C!Begin, C!NoBuild, Fresh
<1>6. ASSUME C!NextReview PROVE Fresh
  BY <1>6 DEF C!NextReview, C!NoBuild, Fresh
<1>7. ASSUME C!Abort \/ C!NextBatch \/ C!End PROVE Passes
  <2>1. CASE C!Abort
    BY <1>0, <2>1 DEF C!Abort, Passes, Builds
  <2>2. CASE C!NextBatch
    BY <1>0, <2>2 DEF C!NextBatch, Passes, Builds
  <2>3. CASE C!End
    BY <1>0, <2>3 DEF C!End, Passes, Builds
  <2>4. QED  BY <1>7, <2>1, <2>2, <2>3
<1>8. ASSUME NEW b \in C!Blobs,
             C!StartRead(b) \/ C!Get(b) \/ C!Downloaded(b) \/ C!StoredImport(b) \/ C!StoredFile(b)
      PROVE  \E r \in Downloads : Operates(b, r)
  BY <1>8, StartOperates, GetOperates, DownloadOperates, StoreOperates
<1>9. QED
  BY <1>1, <1>2, <1>3, <1>4, <1>5, <1>6, <1>7, <1>8 DEF C!Next

-------------------------------------------------------------------------------
(* The index keeps within its budget *)

LEMMA StaysListed ==
  ASSUME Typed, Before, C!Next
  PROVE  Listed'
<1>1. CASE Rests
  BY <1>1 DEF Rests, Typed, Listed
<1>2. CASE Fresh
  BY <1>2 DEF Fresh, C!NoOp, Listed, C!Blobs
<1>3. CASE Passes
  BY <1>3 DEF Passes, Typed, Listed
<1>4. ASSUME NEW b \in C!Blobs, NEW r \in Downloads, Operates(b, r) PROVE Listed'
  <2>1. op' = [op EXCEPT ![b] = r] /\ build'.files = build.files /\ \E f \in C!ToSet(build.files) : Blob(f) = b
    BY <1>4 DEF Operates
  <2>2. \A c \in C!Blobs : c # b => op'[c] = op[c]
    BY <2>1 DEF Typed, CopiesTypeOK, Operating
  <2>3. QED  BY <2>1, <2>2 DEF Listed, Typed, C!Blobs
<1>5. QED  BY <1>1, <1>2, <1>3, <1>4, Effects

LEMMA ReservationRests ==
  ASSUME build'.files = build.files
  PROVE  \A b \in C!Blobs : C!Reservation(b)' = C!Reservation(b)
  BY DEF C!Reservation

LEMMA StaysBefore ==
  ASSUME Typed, Before, C!Next
  PROVE  Before'
<1>1. CASE Rests
  BY <1>1, ReservationRests DEF Rests, Before, C!Blobs
<1>2. CASE Fresh
  BY <1>2 DEF Fresh, C!NoOp, Before, C!Blobs
<1>3. CASE Passes
  BY <1>3, ReservationRests DEF Passes, Before, C!Blobs
<1>4. ASSUME NEW b \in C!Blobs, NEW r \in Downloads, Operates(b, r) PROVE Before'
  <2>1. op' = [op EXCEPT ![b] = r] /\ build'.files = build.files
    BY <1>4 DEF Operates
  <2>2. op'[b] = r /\ \A c \in C!Blobs : c # b => op'[c] = op[c]
    BY <2>1 DEF Typed, CopiesTypeOK, Operating
  <2>3. r.pc \in {"none", "get", "download"} => r.bytes = 0
    <3>1. CASE Goes(b, r)
      BY <3>1 DEF Goes, Before
    <3>2. CASE Takes(b, r)
      BY <3>2 DEF Takes, Before
    <3>3. CASE Returns(b, r)
      BY <3>3 DEF Returns
    <3>4. QED  BY <1>4, <3>1, <3>2, <3>3 DEF Operates
  <2>4. r.pc = "download" => r.reserved = C!Reservation(b)
    BY <1>4 DEF Operates, Goes, Takes, Returns
  <2>5. ASSUME NEW c \in C!Blobs
        PROVE  /\ op'[c].pc \in {"none", "get", "download"} => op'[c].bytes = 0
               /\ op'[c].pc = "download" => op'[c].reserved = C!Reservation(c)'
    <3>1. C!Reservation(c)' = C!Reservation(c)
      BY <2>1, ReservationRests
    <3>2. CASE c = b
      BY <2>2, <2>3, <2>4, <3>1, <3>2
    <3>3. CASE c # b
      BY <2>2, <3>1, <3>3 DEF Before
    <3>4. QED  BY <3>2, <3>3
  <2>6. QED  BY <2>5 DEF Before, C!Blobs
<1>5. QED  BY <1>1, <1>2, <1>3, <1>4, Effects

LEMMA StaysSpent ==
  ASSUME Typed, Before, Spent, C!Next
  PROVE  Spent'
<1>0. build \in Builds /\ MaxBytes \in Nat /\ MaxDownloads \in Nat /\ IsFiniteSet(C!Blobs)
  BY ListingTyped DEF Typed, CopiesTypeOK, Building, C!CacheConstants
<1>1. ASSUME UNCHANGED op, build'.files = build.files, build'.downloads = build.downloads, build'.reserved = build.reserved
      PROVE  Spent'
  <2>1. Amount' = Amount
    BY <1>1, ReservationRests DEF Amount, C!Blobs
  <2>2. Total' = Total
    BY <2>1 DEF Total, C!Blobs
  <2>3. Fetched' = Fetched
    BY <1>1 DEF Fetched, C!Blobs
  <2>4. QED  BY <1>1, <2>2, <2>3 DEF Spent
<1>2. CASE Fresh
  <2>1. Amount' = [b \in C!Blobs |-> 0]
    BY <1>2 DEF Fresh, C!NoOp, Amount, C!Blobs
  <2>2. Total' = Sum(Amount', C!Blobs)
    BY DEF Total, C!Blobs
  <2>3. Total' = 0
    BY <1>0, <2>1, <2>2, SumZero
  <2>4. Fetched' = {}
    BY <1>2 DEF Fresh, C!NoOp, Fetched, C!Blobs
  <2>5. Cardinality(Fetched') = 0
    BY <2>4, FS_EmptySet
  <2>6. build'.downloads = 0 /\ build'.reserved = 0
    BY <1>2 DEF Fresh
  <2>7. QED  BY <1>0, <2>3, <2>5, <2>6 DEF Spent
<1>3. ASSUME NEW b \in C!Blobs, NEW r \in Downloads, Operates(b, r) PROVE Spent'
  <2> DEFINE v == IF r.pc = "download" THEN C!Reservation(b) ELSE r.bytes
             u == Amount[b]
             S == Total
             T == Total'
             n == Cardinality(Fetched)
             m == Cardinality(Fetched')
             w == C!Reservation(b)
  <2>1. op' = [op EXCEPT ![b] = r] /\ build'.files = build.files /\ \E f \in C!ToSet(build.files) : Blob(f) = b
    BY <1>3 DEF Operates
  <2>2. /\ u = IF op[b].pc = "download" THEN w ELSE op[b].bytes
        /\ T + u = S + v
        /\ S \in Nat /\ T \in Nat /\ u \in Nat /\ u <= S
        /\ w \in Nat /\ n \in Nat /\ m \in Nat /\ m <= n + 1
        /\ (r.pc = "download" \/ r.bytes > 0 => b \in Fetched) => m <= n
    BY <2>1, OneOperation DEF Typed
  <2>3. /\ S <= build.reserved /\ S <= MaxBytes /\ n <= build.downloads /\ build.downloads <= MaxDownloads
        /\ build.reserved \in Int /\ build.downloads \in Nat
    BY <1>0 DEF Spent, Builds
  <2>4. op[b].pc \in {"none", "get", "download"} => op[b].bytes = 0
    BY DEF Before
  <2>5. (op[b].pc = "download" \/ op[b].bytes > 0) => b \in Fetched
    BY DEF Fetched
  <2>6. r.bytes \in Nat
    BY DEF Downloads
  <2> HIDE DEF u, S, T, n, m, w
  <2>7. CASE Goes(b, r)
    <3>1. v = u /\ (r.pc = "download" \/ r.bytes > 0 => b \in Fetched)
      BY <2>2, <2>5, <2>7 DEF Goes
    <3>2. T = S /\ m <= n
      BY <2>2, <3>1
    <3>3. build'.downloads = build.downloads /\ build'.reserved = build.reserved
      BY <2>7 DEF Goes
    <3>4. T <= build'.reserved /\ T <= MaxBytes /\ m <= build'.downloads /\ build'.downloads <= MaxDownloads
      BY <2>2, <2>3, <3>2, <3>3
    <3>5. QED  BY <3>4 DEF Spent, T, m
  <2>8. CASE Takes(b, r)
    <3>1. v = w /\ u = 0
      BY <2>2, <2>4, <2>8 DEF Takes, w
    <3>2. T = S + w
      BY <2>2, <3>1
    <3>3. /\ build'.downloads = build.downloads + 1 /\ build'.reserved = build.reserved + w
          /\ build.downloads < MaxDownloads /\ build.reserved + w <= MaxBytes
      BY <2>8 DEF Takes, w
    <3>4. T <= build'.reserved /\ T <= MaxBytes
      BY <1>0, <2>2, <2>3, <3>2, <3>3
    <3>5. m <= build'.downloads /\ build'.downloads <= MaxDownloads
      BY <1>0, <2>2, <2>3, <3>3
    <3>6. QED  BY <3>4, <3>5 DEF Spent, T, m
  <2>9. CASE Returns(b, r)
    <3>1. v = r.bytes /\ u = w /\ r.bytes <= w /\ b \in Fetched
      BY <2>2, <2>5, <2>9 DEF Returns, w
    <3>2. T + w = S + r.bytes /\ m <= n
      BY <2>2, <3>1
    <3>3. build'.downloads = build.downloads /\ build'.reserved >= build.reserved + r.bytes - w
      BY <2>9 DEF Returns, w
    <3>4. build'.reserved \in Int
      <4>1. CopiesTypeOK'
        BY CopiesTyped DEF Typed
      <4>2. QED  BY <4>1 DEF CopiesTypeOK, Building, Builds
    <3>5. T <= build'.reserved
      BY <2>2, <2>3, <2>6, <3>1, <3>2, <3>3, <3>4
    <3>6. T <= MaxBytes
      BY <1>0, <2>2, <2>3, <2>6, <3>1, <3>2
    <3>7. m <= build'.downloads /\ build'.downloads <= MaxDownloads
      BY <2>2, <2>3, <3>2, <3>3
    <3>8. QED  BY <3>5, <3>6, <3>7 DEF Spent, T, m
  <2>10. QED  BY <1>3, <2>7, <2>8, <2>9 DEF Operates
<1>4. CASE Rests
  BY <1>1, <1>4 DEF Rests
<1>5. CASE Passes
  BY <1>1, <1>5 DEF Passes
<1>6. QED  BY <1>2, <1>3, <1>4, <1>5, Effects

\* A complete index has as many files as the listing, none of them twice: all of them.
LEMMA CompleteHasAll ==
  ASSUME Typed, C!Complete
  PROVE  \A f \in C!ToSet(build.files) : Blob(f) \in build.hits \/ op[Blob(f)].pc = "done"
<1> DEFINE s == build.files
           S == C!ToSet(s)
<1>1. s \in Seq(S)
  BY ListingTyped DEF Typed
<1>2. C!Indexed \subseteq S
  BY BatchListed DEF Typed, C!Indexed
<1>3. S = {s[i] : i \in 1..Len(s)}
  BY <1>1 DEF C!ToSet
<1>4. Cardinality(C!Indexed) = Len(s)
  BY DEF C!Complete, C!Cardinality, Cardinality
<1> HIDE DEF s, S
<1>5. IsFiniteSet(S) /\ Cardinality(S) <= Len(s)
  <2> DEFINE g == [i \in 1..Len(s) |-> s[i]]
  <2>1. Len(s) \in Nat
    BY <1>1
  <2>2. g \in Surjection(1..Len(s), S)
    BY <1>3 DEF Surjection
  <2>3. IsFiniteSet(1..Len(s)) /\ Cardinality(1..Len(s)) = Len(s)
    BY <2>1, FS_Interval
  <2> HIDE DEF g
  <2>4. QED  BY <2>2, <2>3, FS_Surjection
<1>6. Cardinality(C!Indexed) <= Cardinality(S) /\ Cardinality(S) \in Nat /\ Len(s) \in Nat
  BY <1>1, <1>2, <1>5, FS_Subset, FS_CardinalityType
<1>7. C!Indexed = S
  <2>1. Cardinality(C!Indexed) = Cardinality(S)
    BY <1>4, <1>5, <1>6
  <2>2. QED  BY <1>2, <1>5, <2>1, FS_Subset
<1>8. QED  BY <1>7 DEF s, S, C!Indexed

LEMMA StaysWhole ==
  ASSUME Typed, Before, Whole, C!Next
  PROVE  Whole'
<1>1. CASE Rests
  BY <1>1 DEF Rests, Whole
<1>2. CASE Fresh
  BY <1>2 DEF Fresh, Whole
<1>3. CASE Passes
  <2>1. build'.pc = "COMPLETE" => \A f \in C!ToSet(build.files) : Blob(f) \in build.hits \/ op[Blob(f)].pc = "done"
    BY <1>3, CompleteHasAll DEF Passes
  <2>2. QED  BY <1>3, <2>1 DEF Passes, Whole
<1>4. ASSUME NEW b \in C!Blobs, NEW r \in Downloads, Operates(b, r) PROVE Whole'
  BY <1>4 DEF Operates, Whole
<1>5. QED  BY <1>1, <1>2, <1>3, <1>4, Effects

-------------------------------------------------------------------------------
(* The copies are gone *)

LEMMA StaysGuarded ==
  ASSUME CopiesTypeOK, Guarded, C!Next
  PROVE  Guarded'
<1>1. ASSUME NEW w \in write, C!BeginWrite(w) PROVE Guarded'
  BY <1>1 DEF C!BeginWrite, C!Lock, Guarded
<1>2. ASSUME NEW w \in write, C!Commit(w) \/ C!FailWrite(w) PROVE Guarded'
  BY <1>2 DEF C!Commit, C!FailWrite, Guarded
<1>3. ASSUME UNCHANGED <<write, code>> PROVE Guarded'
  BY <1>3 DEF Guarded
<1>4. ASSUME NEW b \in C!Blobs, C!Get(b) PROVE Guarded'
  <2>1. UNCHANGED write \/ write' = write \cup {Sealed("import", b)}
    BY <1>4, Gets DEF GotNothing, GotFile, GotRoom, GotNoRoom, Forgets
  <2>2. UNCHANGED code
    BY <1>4 DEF C!Get
  <2>3. QED  BY <2>1, <2>2 DEF Guarded, Sealed
<1>5. ASSUME NEW b \in C!Blobs, C!Downloaded(b) PROVE Guarded'
  <2>1. UNCHANGED write \/ write' = write \cup {Sealed("import", b)}
    BY <1>5, Downloadeds DEF Fails
  <2>2. UNCHANGED code
    BY <1>5 DEF C!Downloaded
  <2>3. QED  BY <2>1, <2>2 DEF Guarded, Sealed
<1>6. ASSUME NEW b \in C!Blobs, C!StoredImport(b) PROVE Guarded'
  <2>1. UNCHANGED write \/ write' = write \cup {Sealed("file", b)}
    BY <1>6 DEF C!StoredImport, C!Sealed, Sealed
  <2>2. UNCHANGED code
    BY <1>6 DEF C!StoredImport
  <2>3. QED  BY <2>1, <2>2 DEF Guarded, Sealed
<1>7. ASSUME C!Deactivate PROVE Guarded'
  BY <1>7 DEF C!Deactivate, C!Locked, Guarded
<1>8. ASSUME C!Connect PROVE Guarded'
  BY <1>8 DEF C!Connect, Guarded
<1>9. ASSUME C!Begin \/ C!Abort \/ C!NextBatch \/ C!End \/ C!NextReview \/ C!Configure \/ C!Select \/ C!Sweep
             \/ C!Clear("import", "deactivated", "imports cleared") \/ C!Clear("file", "imports cleared", "cleared")
             \/ C!Answer \/ C!FailToLeave
      PROVE  UNCHANGED <<write, code>>
  BY <1>9 DEF C!Begin, C!Abort, C!NextBatch, C!End, C!NextReview, C!Configure, C!Select, C!Sweep, C!Clear, C!Answer,
              C!FailToLeave
<1>10. ASSUME NEW b \in C!Blobs, C!StartRead(b) \/ C!StoredFile(b) \/ \E k \in C!Kinds : C!Expire(k, b)
       PROVE  UNCHANGED <<write, code>>
  BY <1>10 DEF C!StartRead, C!StoredFile, C!Expire
<1>11. QED
  BY <1>1, <1>2, <1>3, <1>4, <1>5, <1>6, <1>7, <1>8, <1>9, <1>10 DEF C!Next

\* While the repository is not active nothing is stored: what is gone stays gone.
LEMMA CleanStays ==
  ASSUME CopiesTypeOK, Guarded, C!Next, ~code.active, NEW kind \in C!Kinds, Clean(kind)
  PROVE  Clean(kind)'
<1>0. table \in [C!Kinds -> [C!Blobs -> {"none", "kept", "dated", "expired"}]] /\ write \subseteq Transactions
  BY DEF CopiesTypeOK, Tables, Writes
<1>1. ASSUME UNCHANGED table PROVE Clean(kind)'
  BY <1>1 DEF Clean, C!Blobs
<1>2. ASSUME NEW w \in write, C!Commit(w) PROVE FALSE
  <2>1. w.step \in {"sealed", "locked"} /\ w.step \in {"locked", "checked"}
    BY <1>0, <1>2 DEF C!Commit, Transactions
  <2>2. w.step = "locked"
    BY <2>1
  <2>3. QED  BY <2>2 DEF Guarded
<1>3. ASSUME NEW b \in C!Blobs, C!Get(b) PROVE Clean(kind)'
  <2>1. CASE UNCHANGED table
    BY <1>1, <2>1
  <2>2. CASE table' = [table EXCEPT !["file"][b] = "none"]
    BY <1>0, <2>2 DEF Clean, C!Kinds, C!Blobs
  <2>3. QED  BY <1>3, <2>1, <2>2, Gets DEF GotNothing, GotFile, GotRoom, GotNoRoom, Forgets
<1>4. ASSUME NEW b \in C!Blobs, NEW k \in C!Kinds, C!Expire(k, b) PROVE Clean(kind)'
  <2>1. table[k][b] = "dated" /\ table' = [table EXCEPT ![k][b] = "expired"]
    BY <1>4 DEF C!Expire
  <2>2. k # kind
    BY <2>1 DEF Clean
  <2>3. table'[kind] = table[kind]
    BY <1>0, <2>1, <2>2
  <2>4. QED  BY <2>3 DEF Clean, C!Blobs
<1>5. ASSUME C!Select PROVE Clean(kind)'
  <2>1. CASE UNCHANGED table
    BY <1>1, <2>1
  <2>2. CASE table' = [k \in C!Kinds |-> [b \in C!Blobs |-> IF table[k][b] = "kept" THEN "dated" ELSE table[k][b]]]
    BY <2>2 DEF Clean, C!Blobs
  <2>3. QED  BY <1>5, <2>1, <2>2 DEF C!Select
<1>6. ASSUME C!Sweep PROVE Clean(kind)'
  BY <1>6 DEF C!Sweep, Clean, C!Blobs
<1>7. ASSUME NEW k \in C!Kinds, table' = [table EXCEPT ![k] = [b \in C!Blobs |-> "none"]] PROVE Clean(kind)'
  BY <1>0, <1>7 DEF Clean, C!Blobs
<1>8. "import" \in C!Kinds /\ "file" \in C!Kinds
  BY DEF C!Kinds
<1>9. ASSUME C!Clear("import", "deactivated", "imports cleared") \/ C!Clear("file", "imports cleared", "cleared")
      PROVE  Clean(kind)'
  BY <1>7, <1>8, <1>9 DEF C!Clear
<1>10. ASSUME NEW w \in write, C!BeginWrite(w) \/ C!FailWrite(w) PROVE UNCHANGED table
  BY <1>10 DEF C!BeginWrite, C!FailWrite
<1>11. ASSUME C!Begin \/ C!Abort \/ C!NextBatch \/ C!End \/ C!NextReview \/ C!Configure
              \/ C!Deactivate \/ C!Answer \/ C!FailToLeave \/ C!Connect
       PROVE  UNCHANGED table
  BY <1>11 DEF C!Begin, C!Abort, C!NextBatch, C!End, C!NextReview, C!Configure, C!Deactivate, C!Answer, C!FailToLeave,
               C!Connect
<1>12. ASSUME NEW b \in C!Blobs, C!StartRead(b) \/ C!Downloaded(b) \/ C!StoredImport(b) \/ C!StoredFile(b)
       PROVE  UNCHANGED table
  BY <1>12 DEF C!StartRead, C!Downloaded, C!StoredImport, C!StoredFile
<1>13. QED
  BY <1>1, <1>2, <1>3, <1>4, <1>5, <1>6, <1>9, <1>10, <1>11, <1>12 DEF C!Next

\* A disconnect clears the imports, then the files, while nothing is stored.
LEMMA StaysLeft ==
  ASSUME CopiesTypeOK, Guarded, Leaving, C!Next
  PROVE  Leaving'
<1>0. table \in [C!Kinds -> [C!Blobs -> {"none", "kept", "dated", "expired"}]] /\ "import" \in C!Kinds /\ "file" \in C!Kinds
  BY DEF CopiesTypeOK, Tables, C!Kinds
<1>1. ~code.active /\ Clean("import") => Clean("import")'
  BY <1>0, CleanStays
<1>2. ~code.active /\ Clean("file") => Clean("file")'
  BY <1>0, CleanStays
<1>3. ASSUME UNCHANGED <<code, leave, promised>> PROVE Leaving'
  BY <1>1, <1>2, <1>3 DEF Leaving
<1>4. ASSUME C!Deactivate PROVE Leaving'
  BY <1>1, <1>2, <1>4 DEF C!Deactivate, Leaving
<1>5. ASSUME C!Clear("import", "deactivated", "imports cleared") PROVE Leaving'
  <2>1. Clean("import")'
    BY <1>0, <1>5 DEF C!Clear, Clean, C!Blobs
  <2>2. UNCHANGED <<code, promised>> /\ leave' = "imports cleared"
    BY <1>5 DEF C!Clear
  <2>3. QED  BY <1>2, <2>1, <2>2 DEF Leaving
<1>6. ASSUME C!Clear("file", "imports cleared", "cleared") PROVE Leaving'
  <2>1. Clean("file")'
    BY <1>0, <1>6 DEF C!Clear, Clean, C!Blobs
  <2>2. UNCHANGED <<code, promised>> /\ leave = "imports cleared" /\ leave' = "cleared"
    BY <1>6 DEF C!Clear
  <2>3. QED  BY <1>1, <2>1, <2>2 DEF Leaving
<1>7. ASSUME C!Answer PROVE Leaving'
  BY <1>1, <1>2, <1>7 DEF C!Answer, Leaving
<1>8. ASSUME C!FailToLeave PROVE Leaving'
  BY <1>1, <1>2, <1>8 DEF C!FailToLeave, Leaving
<1>9. ASSUME C!Connect PROVE Leaving'
  BY <1>9 DEF C!Connect, Leaving
<1>10. ASSUME NEW w \in write, C!BeginWrite(w) \/ C!Commit(w) \/ C!FailWrite(w) PROVE UNCHANGED <<code, leave, promised>>
  BY <1>10 DEF C!BeginWrite, C!Commit, C!FailWrite
<1>11. ASSUME C!Begin \/ C!Abort \/ C!NextBatch \/ C!End \/ C!NextReview \/ C!Configure \/ C!Select \/ C!Sweep
       PROVE  UNCHANGED <<code, leave, promised>>
  BY <1>11 DEF C!Begin, C!Abort, C!NextBatch, C!End, C!NextReview, C!Configure, C!Select, C!Sweep
<1>12. ASSUME NEW b \in C!Blobs, \/ C!StartRead(b) \/ C!Get(b) \/ C!Downloaded(b) \/ C!StoredImport(b) \/ C!StoredFile(b)
                                 \/ \E k \in C!Kinds : C!Expire(k, b)
       PROVE  UNCHANGED <<code, leave, promised>>
  BY <1>12 DEF C!StartRead, C!Get, C!Downloaded, C!StoredImport, C!StoredFile, C!Expire
<1>13. QED
  BY <1>3, <1>4, <1>5, <1>6, <1>7, <1>8, <1>9, <1>10, <1>11, <1>12 DEF C!Next

-------------------------------------------------------------------------------

LEMMA CopiesBegin ==
  ASSUME C!CacheConstants, C!Init
  PROVE  CInv
<1>1. CopiesTypeOK
  <2>1. Flags /\ Departing /\ Tables /\ Writes
    BY DEF C!Init, Flags, Departing, Tables, Writes, C!Rows
  <2>2. Building
    BY DEF C!Init, C!NoBuild, Building, Builds
  <2>3. Operating
    BY DEF C!Init, C!NoOp, Operating, Downloads, OpSteps
  <2>4. QED  BY <2>1, <2>2, <2>3 DEF CopiesTypeOK
<1>2. Listed /\ Before
  BY DEF C!Init, C!NoOp, Listed, Before
<1>3. Guarded /\ Leaving
  BY DEF C!Init, Guarded, Leaving
<1>4. Spent
  <2>1. Amount = [b \in C!Blobs |-> 0]
    BY DEF C!Init, C!NoOp, Amount
  <2>2. Total = 0
    BY <1>1, <2>1, ListingTyped, SumZero DEF Total
  <2>3. Fetched = {}
    BY DEF C!Init, C!NoOp, Fetched
  <2>4. Cardinality(Fetched) = 0
    BY <2>3, FS_EmptySet
  <2>5. build.downloads = 0 /\ build.reserved = 0 /\ MaxBytes \in Nat /\ MaxDownloads \in Nat
    BY DEF C!Init, C!NoBuild, C!CacheConstants
  <2>6. QED  BY <2>2, <2>4, <2>5 DEF Spent
<1>5. Whole
  BY DEF C!Init, C!NoBuild, Whole
<1>6. QED  BY <1>1, <1>2, <1>3, <1>4, <1>5 DEF CInv

LEMMA CopiesStep ==
  ASSUME C!CacheConstants, CInv, [C!Next]_C!cache
  PROVE  CInv'
<1>1. CASE C!Next
  <2>1. CopiesTypeOK' /\ Listed' /\ Guarded' /\ Leaving' /\ Before' /\ Spent' /\ Whole'
    BY <1>1, CopiesTyped, StaysListed, StaysGuarded, StaysLeft, StaysBefore, StaysSpent, StaysWhole DEF CInv, Typed
  <2>2. QED  BY <2>1 DEF CInv
<1>2. CASE UNCHANGED C!cache
  <2>1. UNCHANGED <<code, table, write, build, op, leave, promised, doomed, finite, builds, faults>>
    BY <1>2 DEF C!cache
  <2>2. CopiesTypeOK'
    BY <2>1 DEF CInv, CopiesTypeOK, Flags, Departing, Tables, Writes, Building, Operating, Transactions, Builds
  <2>3. Rests
    BY <2>1 DEF Rests
  <2>4. Listed' /\ Before' /\ Whole'
    BY <2>3, ReservationRests DEF CInv, Rests, Listed, Before, Whole, C!Blobs
  <2>5. Guarded' /\ Leaving'
    BY <2>1 DEF CInv, Guarded, Leaving, Clean, C!Blobs
  <2>6. Spent'
    <3>1. Amount' = Amount
      BY <2>1, ReservationRests DEF Amount, C!Blobs
    <3>2. Total' = Total /\ Fetched' = Fetched
      BY <2>1, <3>1 DEF Total, Fetched, C!Blobs
    <3>3. QED  BY <2>1, <3>2 DEF CInv, Spent
  <2>7. QED  BY <2>2, <2>4, <2>5, <2>6 DEF CInv
<1>3. QED  BY <1>1, <1>2

LEMMA CopiesHold == C!CacheConstants => (C!Spec => []CInv)
<1>1. SUFFICES ASSUME C!CacheConstants PROVE C!Spec => []CInv
  OBVIOUS
<1>2. C!Init => CInv
  BY <1>1, CopiesBegin
<1>3. CInv /\ [C!Next]_C!cache => CInv'
  BY <1>1, CopiesStep
<1>4. QED  BY <1>2, <1>3, PTL DEF C!Spec

\* disconnectRepository and RepositoryContextCache.put: after a disconnect that was answered OK
\* no review, aborted or not, leaves a copy of the code behind.
THEOREM CodeIsGone == C!CacheConstants => (C!Spec => []CodeGoneAfterDisconnect)
<1>1. SUFFICES ASSUME C!CacheConstants PROVE C!Spec => []CodeGoneAfterDisconnect
  OBVIOUS
<1>2. CInv => CodeGoneAfterDisconnect
  BY DEF CInv, Leaving, Clean, CodeGoneAfterDisconnect, C!CodeGoneAfterDisconnect, C!Kinds
<1>3. QED  BY <1>1, <1>2, CopiesHold, PTL

\* buildImportIndex: the downloads keep within their number and their bytes however they
\* overlap, and an index that is called complete has every eligible file.
THEOREM BudgetHolds == C!CacheConstants => (C!Spec => []BudgetKept)
<1>1. SUFFICES ASSUME C!CacheConstants PROVE C!Spec => []BudgetKept
  OBVIOUS
<1>2. ASSUME CInv PROVE BudgetKept
  <2>1. Cardinality(Fetched) <= MaxDownloads
    <3>1. build.downloads \in Nat /\ MaxDownloads \in Nat
      BY <1>1, <1>2 DEF CInv, CopiesTypeOK, Building, Builds, C!CacheConstants
    <3>2. IsFiniteSet(Fetched)
      BY <1>1, <1>2, ListingTyped, FS_Subset DEF CInv, Fetched
    <3>3. Cardinality(Fetched) \in Nat
      BY <3>2, FS_CardinalityType
    <3>4. QED  BY <1>2, <3>1, <3>3 DEF CInv, Spent
  <2>2. C!SumOf(Amount) <= MaxBytes
    BY <1>2, SumOfIs DEF CInv, Spent, Total
  <2>3. Whole
    BY <1>2 DEF CInv
  <2>4. C!Cardinality(Fetched) = Cardinality(Fetched)
    BY DEF C!Cardinality, Cardinality
  <2>5. QED  BY <2>1, <2>2, <2>3, <2>4 DEF BudgetKept, C!BudgetKept, Amount, Fetched, Whole
<1>3. QED  BY <1>1, <1>2, CopiesHold, PTL
===================================================================================
