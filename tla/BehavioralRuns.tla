------------------------------- MODULE BehavioralRuns -------------------------------
(***************************************************************************)
(* Behavioral verification of one reviewed commit: a tab asks for a run of   *)
(* explicit actions, the server reserves it and dispatches a workflow in the *)
(* owner's CI, and the CI run claims the plan and submits one result before  *)
(* the deadline.  Dispatches, answers and submissions may be lost.           *)
(***************************************************************************)
EXTENDS Naturals, Sequences, FiniteSets

CONSTANTS None, Tabs,
          PerJob,      \* LIMITS.runsPerJob, below LIMITS.runsPerDay: the runs of one day
          MaxRuns, MaxKeys, MaxVersions, MaxFaults

VARIABLES
    run,         \* the rows of behavioral_runs, in the order of their creation
    report,      \* of the scenario in results.behavioral: the last result and the last assertion
    repo,        \* is it connected, its configuration
    tab,         \* of each tab: the key of its request, its call
    keys,        \* request keys handed out
    workflow,    \* the CI runs GitHub has started: which run each is for, its step, its result
    accepted,    \* the results accepted, in order (ghost)
    dispatched,  \* how often each run was dispatched (ghost)
    faults

runs == <<run, report, repo, tab, keys, workflow, accepted, dispatched, faults>>

Outcomes  == {"PASSED", "FAILED", "ERROR"}        \* and NOT_RUN, TIMED_OUT like ERROR
Asserted  == {"PASSED", "FAILED"}
NoCall    == [pc |-> "idle", key |-> 0, run |-> 0, config |-> 0]
IdleTab   == [key |-> 0, call |-> NoCall]
Ids       == 1..MaxRuns

RunsConstants == MaxRuns \in Nat

Init == /\ run = <<>> /\ workflow = <<>> /\ accepted = <<>> /\ keys = 0 /\ faults = 0
        /\ report = [status |-> "NOT_RUN", run |-> 0, asserted |-> "none", assertedBy |-> 0]
        /\ repo = [active |-> TRUE, enabled |-> TRUE, config |-> 1]
        /\ tab = [t \in Tabs |-> IdleTab]
        /\ dispatched = [r \in Ids |-> 0]

Pending(r)  == run[r].status \in {"QUEUED", "RUNNING"}
Open(r)     == Pending(r) /\ ~run[r].late
Of(key)     == {r \in DOMAIN run : run[r].key = key}

----------------------------------------------------------------------------
(* The panel: BehavioralVerification *)

Quiet(t)     == tab[t].call.pc = "idle"
Call(t, pc)  == tab' = [tab EXCEPT ![t].call.pc = pc]
\* Answered, refused or cut off: the key is kept for the retry.
Answer(t)    == tab' = [tab EXCEPT ![t].call = NoCall] /\ UNCHANGED faults

\* Another scenario, deployment or other steps.
Edit(t) ==
    /\ tab[t].key # 0
    /\ tab' = [tab EXCEPT ![t].key = 0]
    /\ UNCHANGED <<run, report, repo, keys, workflow, accepted, dispatched, faults>>

\* With the consent to exactly these actions.
Start(t) ==
    /\ Quiet(t)
    /\ LET fresh == tab[t].key = 0 IN
       /\ fresh => keys < MaxKeys
       /\ keys' = IF fresh THEN keys + 1 ELSE keys
       /\ LET key == IF fresh THEN keys' ELSE tab[t].key
          IN tab' = [tab EXCEPT ![t].key = key, ![t].call = [NoCall EXCEPT !.pc = "look", !.key = key]]
    /\ UNCHANGED <<run, report, repo, workflow, accepted, dispatched, faults>>

\* Disabling, enabling or changing the CI settings; every version of them is another one.
Configure(t) ==
    /\ Quiet(t) /\ repo.active /\ repo.config < MaxVersions
    /\ \E on \in BOOLEAN : repo' = [repo EXCEPT !.enabled = on, !.config = @ + 1]
    /\ tab' = [tab EXCEPT ![t].key = 0]
    /\ UNCHANGED <<run, report, keys, workflow, accepted, dispatched, faults>>

----------------------------------------------------------------------------
(* The server: startBehavioralRun *)

\* A key that is known gets its run and never a second dispatch.
Look(t) ==
    /\ tab[t].call.pc = "look"
    /\ LET prior == Of(tab[t].call.key) IN
       IF prior # {} \/ ~repo.active \/ ~repo.enabled THEN Answer(t)
       ELSE tab' = [tab EXCEPT ![t].call = [@ EXCEPT !.pc = "reserve", !.config = repo.config]] /\ UNCHANGED faults
    /\ UNCHANGED <<run, report, repo, keys, workflow, accepted, dispatched>>

\* A plausible bug: only a run that was claimed counts as active.
RoomBesideQueued == Len(run) < PerJob /\ \A r \in DOMAIN run : ~(Open(r) /\ run[r].status = "RUNNING")
Room == Len(run) < PerJob /\ \A r \in DOMAIN run : ~Open(r)

\* The reads at GitHub may refuse, or find no trusted preview; then one serializable transaction.
Reserve(t) ==
    /\ tab[t].call.pc = "reserve"
    /\ LET key == tab[t].call.key
           new(status) == [key |-> key, status |-> status, late |-> FALSE,
                           config |-> tab[t].call.config, by |-> 0, evidence |-> "none"]
       IN \/ Answer(t) /\ UNCHANGED run                   \* refused, or the key is known by now
          \/ /\ Of(key) = {} /\ Room /\ Len(run) < MaxRuns
             /\ \/ /\ run' = Append(run, new("QUEUED"))
                   /\ tab' = [tab EXCEPT ![t].call = [NoCall EXCEPT !.pc = "dispatch", !.run = Len(run) + 1]]
                   /\ UNCHANGED faults
                \/ run' = Append(run, new("NOT_RUN")) /\ Answer(t)
    /\ UNCHANGED <<report, repo, keys, workflow, accepted, dispatched>>

\* GitHub takes the dispatch, refuses it, or gives no answer in either case.
Dispatch(t) ==
    /\ tab[t].call.pc = "dispatch"
    /\ LET r == tab[t].call.run IN
       \/ /\ workflow' = Append(workflow, [run |-> r, pc |-> "started", result |-> "none"])
          /\ dispatched' = [dispatched EXCEPT ![r] = @ + 1]
          /\ \/ Answer(t)
             \/ Call(t, "unsure") /\ faults < MaxFaults /\ faults' = faults + 1
       \/ Call(t, "refused") /\ UNCHANGED <<workflow, dispatched, faults>>
       \/ Call(t, "unsure") /\ faults < MaxFaults /\ faults' = faults + 1 /\ UNCHANGED <<workflow, dispatched>>
    /\ UNCHANGED <<run, report, repo, keys, accepted>>

\* A refusal closes the run; silence leaves it for the CI to claim.
Record(t) ==
    /\ tab[t].call.pc \in {"refused", "unsure"}
    /\ LET r == tab[t].call.run IN
       /\ run' = IF tab[t].call.pc = "refused" THEN [run EXCEPT ![r].status = "ERROR"]
                 ELSE run
       /\ Answer(t)
    /\ UNCHANGED <<report, repo, keys, workflow, accepted, dispatched>>

\* The process ends in the middle of a request.
Crash(t) ==
    /\ ~Quiet(t) /\ faults < MaxFaults /\ faults' = faults + 1
    /\ tab' = [tab EXCEPT ![t].call = NoCall]
    /\ UNCHANGED <<run, report, repo, keys, workflow, accepted, dispatched>>

----------------------------------------------------------------------------
(* The CI: claim, finish *)

Step(w, pc) == workflow' = [workflow EXCEPT ![w].pc = pc]

\* The owner starts the workflow again by hand, with the same inputs.
StartAgain(w) ==
    /\ faults < MaxFaults /\ faults' = faults + 1
    /\ workflow' = Append(workflow, [workflow[w] EXCEPT !.pc = "started", !.result = "none"])
    /\ UNCHANGED <<run, report, repo, tab, keys, accepted, dispatched>>

\* ciContext: what is checked before either call.
Admitted(w) == LET r == run[workflow[w].run] IN
    ~r.late /\ repo.active /\ repo.enabled /\ r.config = repo.config /\ r.by \in {0, w}

AskClaim(w) ==
    /\ workflow[w].pc = "started"
    /\ Step(w, IF Admitted(w) THEN "claim" ELSE "done")
    /\ UNCHANGED <<run, report, repo, tab, keys, accepted, dispatched, faults>>

Claimable(r, w) == ~run[r].late /\ \/ run[r].status = "QUEUED"
                                   \/ run[r].status = "RUNNING" /\ run[r].by = w

\* The answer may be lost: the CI run claims again, as the same one.
Claim(w) ==
    /\ workflow[w].pc = "claim"
    /\ LET r == workflow[w].run IN
       IF Claimable(r, w)
       THEN /\ run' = [run EXCEPT ![r].status = "RUNNING", ![r].by = w]
            /\ \/ \E o \in Outcomes : workflow' = [workflow EXCEPT ![w].pc = "executed", ![w].result = o]
                  /\ UNCHANGED faults
               \/ faults < MaxFaults /\ faults' = faults + 1 /\ Step(w, "started")
       ELSE Step(w, "done") /\ UNCHANGED <<run, faults>>
    /\ UNCHANGED <<report, repo, tab, keys, accepted, dispatched>>

AskFinish(w) ==
    /\ workflow[w].pc = "executed"
    /\ Step(w, IF Admitted(w) THEN "finish" ELSE "done")
    /\ UNCHANGED <<run, report, repo, tab, keys, accepted, dispatched, faults>>

Acceptable(r, w) == run[r].status = "RUNNING" /\ run[r].by = w /\ ~run[r].late

\* withExecution: a result without an executed assertion keeps the last one that had.
\* A plausible bug: it replaces all.
MergedAll(r, o) == [status |-> o, run |-> r, asserted |-> o, assertedBy |-> r]
Merged(r, o) == IF o \in Asserted THEN [status |-> o, run |-> r, asserted |-> o, assertedBy |-> r]
                ELSE [report EXCEPT !.status = o, !.run = r]

\* completeBehavioralRun: the result and the summary in one transaction.  A repeated
\* submission of it is answered; when the answer is lost the CI submits again.
Finish(w) ==
    /\ workflow[w].pc = "finish"
    /\ LET r == workflow[w].run
           o == workflow[w].result
       IN /\ IF Acceptable(r, w)
             THEN /\ run' = [run EXCEPT ![r].status = o, ![r].evidence = o]
                  /\ report' = Merged(r, o)
                  /\ accepted' = Append(accepted, [run |-> r, result |-> o])
             ELSE UNCHANGED <<run, report, accepted>>
          /\ \/ Step(w, "done") /\ UNCHANGED faults
             \/ faults < MaxFaults /\ faults' = faults + 1 /\ Step(w, "executed")
    /\ UNCHANGED <<repo, tab, keys, dispatched>>

----------------------------------------------------------------------------

Deadline(r) ==
    /\ ~run[r].late /\ run' = [run EXCEPT ![r].late = TRUE]
    /\ UNCHANGED <<report, repo, tab, keys, workflow, accepted, dispatched, faults>>

\* sweepBehavioralOnce: what its deadline has passed times out.
Sweep ==
    /\ \E r \in DOMAIN run : Pending(r) /\ run[r].late
    /\ run' = [r \in DOMAIN run |-> IF Pending(r) /\ run[r].late
                                    THEN [run[r] EXCEPT !.status = "TIMED_OUT"] ELSE run[r]]
    /\ UNCHANGED <<report, repo, tab, keys, workflow, accepted, dispatched, faults>>

Disconnect ==
    /\ repo.active /\ repo' = [repo EXCEPT !.active = FALSE]
    /\ UNCHANGED <<run, report, tab, keys, workflow, accepted, dispatched, faults>>

Next == \/ \E t \in Tabs : \/ Edit(t) \/ Start(t) \/ Configure(t)
                           \/ Look(t) \/ Reserve(t) \/ Dispatch(t) \/ Record(t) \/ Crash(t)
        \/ \E w \in DOMAIN workflow : StartAgain(w) \/ AskClaim(w) \/ Claim(w) \/ AskFinish(w) \/ Finish(w)
        \/ \E r \in DOMAIN run : Deadline(r)
        \/ Sweep \/ Disconnect

Spec == Init /\ [][Next]_runs

----------------------------------------------------------------------------

OneDispatch == \A r \in DOMAIN run : dispatched[r] <= 1 /\ \A s \in DOMAIN run : run[r].key = run[s].key => r = s

OneAccepted == /\ \A i, j \in DOMAIN accepted : accepted[i].run = accepted[j].run => i = j
               /\ \A i \in DOMAIN accepted : run[accepted[i].run].evidence = accepted[i].result

OneOpen == Cardinality({r \in DOMAIN run : Open(r) /\ dispatched[r] = 1}) <= 1

Proofs     == {i \in DOMAIN accepted : accepted[i].result \in Asserted}
LastProof  == CHOOSE i \in Proofs : \A j \in Proofs : j <= i
LastIsSaid == accepted # <<>> =>
                 /\ report.run = accepted[Len(accepted)].run
                 /\ Proofs # {} => /\ report.asserted = accepted[LastProof].result
                                   /\ report.assertedBy = accepted[LastProof].run

\* Whatever is lost, repeated or late: a request is dispatched once and gives at most one
\* result, that of the CI run that claimed its plan; no two runs of the repository can be
\* executed at a time; and the review's summary shows the last result and keeps the last
\* executed assertion until another one replaces it.
OneResultPerRequest == OneDispatch /\ OneAccepted /\ OneOpen /\ LastIsSaid

=================================================================================
