------------------------ MODULE ReviewLifecycleSafety ------------------------
(***************************************************************************)
(* Safety of the review lifecycle, for any number of jobs, workers, sweeps, *)
(* months and faults.                                                       *)
(*                                                                         *)
(* First the types: what the helpers of the model write, and then one lemma *)
(* per action, with one step per group of variables.                        *)
(*                                                                         *)
(* Then the invariants.  Every step but the producers' is reduced to what it  *)
(* does to status and quota (Transaction), to the set of queued jobs and to *)
(* the jobs being run (Effects); the invariants follow from that alone, and *)
(* with them what the rows promise: the phases go forward, the row          *)
(* implements ReviewContract, the ledger counts exactly the charged reviews. *)
(***************************************************************************)
EXTENDS ReviewLifecycle, FiniteSetTheorems, TLAPS

-------------------------------------------------------------------------------
(* The helpers *)

\* What no transaction writes keeps its type.
LEMMA RowsSame == ASSUME RowsOK, SweepsOK, UNCHANGED db PROVE RowsOK' /\ SweepsOK'
BY DEF RowsOK, SweepsOK, db, row, quota

\* A sweep that has read nothing is a sweep.
LEMMA IdleSweepType == IdleSweep \in Sweeps /\ IdleSweep.pc = "idle" /\ IdleSweep.job = None
BY DEF IdleSweep, Sweeps

\* Staleness changes what a sweep may still write, not where it is.
LEMMA OutdatedType ==
    ASSUME SweepsOK, NEW j \in Jobs
    PROVE  /\ Outdated(j) \in [Sweepers -> Sweeps]
           /\ \A s \in Sweepers : /\ Outdated(j)[s].pc = sweep[s].pc
                                  /\ Outdated(j)[s].job = sweep[s].job
                                  /\ Outdated(j)[s].verdict = sweep[s].verdict
BY DEF SweepsOK, Outdated, Sweeps

\* A new updatedAt: the row is young and every copy of it stale.
LEMMA TouchType ==
    ASSUME RowsOK, SweepsOK, NEW j \in Jobs, Touch(j)
    PROVE  aged' \in [Jobs -> BOOLEAN] /\ SweepsOK'
BY OutdatedType DEF RowsOK, SweepsOK, Touch

\* A status is written together with updatedAt.
LEMMA SetStatusType ==
    ASSUME RowsOK, SweepsOK, NEW j \in Jobs, NEW s \in Statuses, SetStatus(j, s)
    PROVE  status' \in [Jobs -> Statuses] /\ aged' \in [Jobs -> BOOLEAN] /\ SweepsOK'
BY TouchType DEF RowsOK, SetStatus

\* The refund keeps the ledger a natural number: it stops at zero.
LEMMA RefundType ==
    ASSUME RowsOK, NEW j \in Jobs, RefundReviewQuota(j)
    PROVE  refunded' \in [Jobs -> BOOLEAN] /\ ledger' \in [Months -> Nat]
<1>1. CASE receipt[j] # None /\ ~refunded[j]
  <2>1. receipt[j] \in Months /\ ledger[receipt[j]] \in Nat
    BY <1>1 DEF RowsOK
  <2>2. (IF ledger[receipt[j]] > 0 THEN ledger[receipt[j]] - 1 ELSE ledger[receipt[j]]) \in Nat
    BY <2>1
  <2>3. QED  BY <1>1, <2>1, <2>2 DEF RowsOK, RefundReviewQuota
<1>2. CASE ~(receipt[j] # None /\ ~refunded[j])
  BY <1>2 DEF RowsOK, RefundReviewQuota
<1>3. QED  BY <1>1, <1>2

\* persistState writes a row, or nothing.
LEMMA PersistType ==
    ASSUME RowsOK, SweepsOK, NEW j \in Jobs, NEW s \in Statuses, PersistState(j, s)
    PROVE  RowsOK' /\ SweepsOK'
<1>1. CASE status[j] \in InProgress
  <2>1. status' \in [Jobs -> Statuses] /\ aged' \in [Jobs -> BOOLEAN] /\ SweepsOK'
    BY <1>1, SetStatusType DEF PersistState
  <2>2. refunded' \in [Jobs -> BOOLEAN] /\ ledger' \in [Months -> Nat]
    BY <1>1, RefundType DEF PersistState, RowsOK
  <2>3. QED  BY <1>1, <2>1, <2>2 DEF PersistState, RowsOK
<1>2. CASE status[j] \notin InProgress
  BY <1>2, RowsSame DEF PersistState
<1>3. QED  BY <1>1, <1>2

\* prepareReviewDelivery writes a row, or nothing.
LEMMA SavePlanType ==
    ASSUME RowsOK, SweepsOK, NEW j \in Jobs, SavePlan(j)
    PROVE  RowsOK' /\ SweepsOK'
<1>1. "POSTING" \in Statuses
  BY DEF Statuses, InProgress, ReviewPhases, Phases
<1>2. QED  BY <1>1, SetStatusType, RowsSame DEF SavePlan, RowsOK, quota

\* Removing a job resets all that the queue kept of it.
LEMMA ForgetType ==
    ASSUME QueueOK, NEW j \in Jobs, Forget(j)
    PROVE  /\ queue' \in [Jobs -> QueueStates] /\ made' \in [Jobs -> Nat]
           /\ stalls' \in [Jobs -> Nat] /\ worn' \in [Jobs -> BOOLEAN]
BY DEF QueueOK, QueueStates, Forget

\* A sweep may hold any well-formed reading.
LEMMA HoldsType ==
    ASSUME SweepsOK, NEW s \in Sweepers, NEW r \in Sweeps,
           r.pc = "idle" <=> r.job = None, r.pc = "stop" => r.verdict # "none",
           Holds(s, r)
    PROVE  SweepsOK'
BY DEF SweepsOK, Holds

\* A sweep that is under way has a row.
LEMMA ActiveSweep ==
    ASSUME TypeOK, NEW s \in Sweepers, sweep[s].pc # "idle"
    PROVE  sweep[s].job \in Jobs
BY DEF TypeOK, SweepsOK, Sweeps

\* An attempt that is under way has a job.
LEMMA ActiveAttempt ==
    ASSUME TypeOK, NEW w \in Workers, att[w].pc # "idle"
    PROVE  att[w].job \in Jobs /\ att[w].pc # "idle"
BY DEF TypeOK, AttemptsOK, Attempts

\* The phases, spelled out.
LEMMA PhaseType == /\ ReviewPhases = {"FETCHING", "ANALYZING", "GENERATING", "POSTING"}
                   /\ ReviewPhases \subseteq InProgress
                   /\ InProgress \subseteq Statuses
BY DEF ReviewPhases, Phases, InProgress, Statuses

\* An attempt that has not started is an attempt.
LEMMA IdleAttemptType ==
    IdleAttempt \in Attempts /\ IdleAttempt.pc = "idle" /\ IdleAttempt.job = None
BY PhaseType DEF IdleAttempt, Attempts, Places, Reasons, Statuses

\* One worker goes on; the other attempts stay as they are.
LEMMA BecomesType ==
    ASSUME AttemptsOK, NEW w \in Workers, NEW a \in Attempts, a.pc = "idle" <=> a.job = None,
           Becomes(w, a), loose' \subseteq Jobs \X {"timeout", "plan"}
    PROVE  AttemptsOK'
BY DEF AttemptsOK, Becomes

\* Going to another point of the attempt keeps its job.
LEMMA GotoType ==
    ASSUME AttemptsOK, NEW w \in Workers, att[w].job \in Jobs, NEW pc \in Places \ {"idle"},
           Goto(w, pc), UNCHANGED loose
    PROVE  AttemptsOK'
BY BecomesType, JobsAssumption DEF AttemptsOK, Attempts, Goto

\* Starting a phase keeps the job.
LEMMA StartPhaseType ==
    ASSUME AttemptsOK, NEW w \in Workers, att[w].job \in Jobs, NEW pc \in Places \ {"idle"},
           NEW phase \in ReviewPhases, StartPhase(w, pc, phase), UNCHANGED loose
    PROVE  AttemptsOK'
BY BecomesType, JobsAssumption DEF AttemptsOK, Attempts, StartPhase

\* Whatever is thrown, the catch clause still has the job.
LEMMA ThrowType ==
    ASSUME AttemptsOK, NEW w \in Workers, att[w].job \in Jobs, NEW why \in Reasons,
           Throw(w, why), UNCHANGED loose \/ loose' = loose \cup {<<att[w].job, "plan">>}
    PROVE  AttemptsOK'
<1>1. "FETCHING" \in ReviewPhases /\ "ABSENT" \in Statuses /\ "catch" \in Places /\ "abandoned" \in Reasons
  BY PhaseType DEF Statuses, Places, Reasons
<1> DEFINE a == [att[w] EXCEPT !.pc = "catch", !.phase = "FETCHING", !.seen = "ABSENT",
                               !.why = IF att[w].superseded THEN "abandoned" ELSE why]
<1>2. a \in Attempts /\ a.pc = "catch" /\ a.job \in Jobs
  BY <1>1 DEF AttemptsOK, Attempts
<1>3. loose' \subseteq Jobs \X {"timeout", "plan"}
  BY DEF AttemptsOK
<1>4. QED  BY <1>2, <1>3, BecomesType, JobsAssumption DEF AttemptsOK, Throw

\* Whatever ends the attempt, its job waits to be acknowledged.
LEMMA ExitType ==
    ASSUME AttemptsOK, NEW w \in Workers, att[w].job \in Jobs, NEW why \in Reasons,
           Exit(w, why), UNCHANGED loose
    PROVE  AttemptsOK'
<1> DEFINE a == [IdleAttempt EXCEPT !.job = att[w].job, !.made = att[w].made, !.pc = "ack", !.why = why]
<1>1. a \in Attempts /\ a.pc = "ack" /\ a.job \in Jobs
  BY IdleAttemptType DEF AttemptsOK, Attempts, Places, IdleAttempt
<1>2. QED
  BY <1>1, BecomesType, JobsAssumption DEF AttemptsOK, Exit

-------------------------------------------------------------------------------
(* The actions *)

\* Receive keeps every type.
LEMMA ReceiveType == ASSUME TypeOK, NEW j \in Jobs, Receive(j) PROVE TypeOK'
<1> USE DEF TypeOK
<1>1. RowsOK' /\ SweepsOK'
  BY DEF Receive, RowsOK, SweepsOK, db, row, quota
<1>2. QueueOK'
  BY DEF Receive, QueueOK, bull
<1>3. AttemptsOK'
  BY DEF Receive, AttemptsOK
<1>4. RequestsOK'
  BY DEF Receive, RequestsOK, Months, Listed
<1>5. QED  BY <1>1, <1>2, <1>3, <1>4

\* InsertSkipped keeps every type.
LEMMA InsertSkippedType == ASSUME TypeOK, NEW j \in Jobs, InsertSkipped(j) PROVE TypeOK'
<1> USE DEF TypeOK
<1>1. RowsOK' /\ SweepsOK'
  BY SetStatusType, RowsSame DEF InsertSkipped, RowsOK, Statuses, Terminal, Stopped, InProgress, db, row, quota
<1>2. QueueOK'
  BY DEF InsertSkipped, QueueOK, bull
<1>3. AttemptsOK'
  BY DEF InsertSkipped, AttemptsOK
<1>4. RequestsOK'
  BY DEF InsertSkipped, RequestsOK, Months, Listed
<1>5. QED  BY <1>1, <1>2, <1>3, <1>4

\* Insert keeps every type.
LEMMA InsertType == ASSUME TypeOK, NEW j \in Jobs, Insert(j) PROVE TypeOK'
<1> USE DEF TypeOK
<1>1. RowsOK' /\ SweepsOK'
  BY SetStatusType, RowsSame DEF Insert, RowsOK, Statuses, Terminal, Stopped, InProgress, db, row, quota
<1>2. QueueOK'
  BY DEF Insert, QueueOK, bull
<1>3. AttemptsOK'
  BY DEF Insert, AttemptsOK
<1>4. RequestsOK'
  BY DEF Insert, RequestsOK, Months, Listed
<1>5. QED  BY <1>1, <1>2, <1>3, <1>4

\* Reserve keeps every type.
LEMMA ReserveType == ASSUME TypeOK, NEW j \in Jobs, Reserve(j) PROVE TypeOK'
<1> USE DEF TypeOK
<1>1. RowsOK' /\ SweepsOK'
  BY TouchType, RowsSame DEF Reserve, RowsOK, RequestsOK, Months, db, row, quota
<1>2. QueueOK'
  BY DEF Reserve, QueueOK, bull
<1>3. AttemptsOK'
  BY DEF Reserve, AttemptsOK
<1>4. RequestsOK'
  BY DEF Reserve, RequestsOK, Months, Listed
<1>5. QED  BY <1>1, <1>2, <1>3, <1>4

\* SkipDenied keeps every type.
LEMMA SkipDeniedType == ASSUME TypeOK, NEW j \in Jobs, SkipDenied(j) PROVE TypeOK'
<1> USE DEF TypeOK
<1>1. RowsOK' /\ SweepsOK'
  BY SetStatusType, RowsSame DEF SkipDenied, RowsOK, Statuses, Terminal, Stopped, InProgress, db, row, quota
<1>2. QueueOK'
  BY DEF SkipDenied, QueueOK, bull
<1>3. AttemptsOK'
  BY DEF SkipDenied, AttemptsOK
<1>4. RequestsOK'
  BY DEF SkipDenied, RequestsOK, Months, Listed
<1>5. QED  BY <1>1, <1>2, <1>3, <1>4

\* Enqueue keeps every type.
LEMMA EnqueueType == ASSUME TypeOK, NEW j \in Jobs, Enqueue(j) PROVE TypeOK'
<1> USE DEF TypeOK
<1>1. RowsOK' /\ SweepsOK'
  BY DEF Enqueue, RowsOK, SweepsOK, db, row, quota
<1>2. QueueOK'
  BY BoundsAssumption DEF Enqueue, QueueOK, QueueStates, Forget, bull
<1>3. AttemptsOK'
  BY DEF Enqueue, AttemptsOK
<1>4. RequestsOK'
  BY DEF Enqueue, RequestsOK, Months, Listed
<1>5. QED  BY <1>1, <1>2, <1>3, <1>4

\* ProducerDies keeps every type.
LEMMA ProducerDiesType == ASSUME TypeOK, NEW j \in Jobs, ProducerDies(j) PROVE TypeOK'
<1> USE DEF TypeOK
<1>1. RowsOK' /\ SweepsOK'
  BY DEF ProducerDies, RowsOK, SweepsOK, db, row, quota
<1>2. QueueOK'
  BY DEF ProducerDies, QueueOK, bull
<1>3. AttemptsOK'
  BY DEF ProducerDies, AttemptsOK
<1>4. RequestsOK'
  BY BoundsAssumption DEF ProducerDies, RequestsOK, Fault, users, Listed
<1>5. QED  BY <1>1, <1>2, <1>3, <1>4

\* Promote keeps every type.
LEMMA PromoteType == ASSUME TypeOK, NEW j \in Jobs, Promote(j) PROVE TypeOK'
<1> USE DEF TypeOK
<1>1. RowsOK' /\ SweepsOK'
  BY DEF Promote, RowsOK, SweepsOK, db, row, quota
<1>2. QueueOK'
  BY BoundsAssumption DEF Promote, QueueOK, QueueStates, Forget, bull
<1>3. AttemptsOK'
  BY DEF Promote, AttemptsOK
<1>4. RequestsOK'
  BY DEF Promote, RequestsOK, users
<1>5. QED  BY <1>1, <1>2, <1>3, <1>4

\* LockLost keeps every type.
LEMMA LockLostType == ASSUME TypeOK, NEW j \in Jobs, LockLost(j) PROVE TypeOK'
<1> USE DEF TypeOK
<1>1. RowsOK' /\ SweepsOK'
  BY DEF LockLost, RowsOK, SweepsOK, db, row, quota
<1>2. QueueOK'
  BY BoundsAssumption DEF LockLost, QueueOK, QueueStates, Forget, bull
<1>3. AttemptsOK'
  BY DEF LockLost, AttemptsOK
<1>4. RequestsOK'
  BY BoundsAssumption DEF LockLost, RequestsOK, Fault, users, Listed
<1>5. QED  BY <1>1, <1>2, <1>3, <1>4

\* Reclaim keeps every type.
LEMMA ReclaimType == ASSUME TypeOK, NEW j \in Jobs, Reclaim(j) PROVE TypeOK'
<1> USE DEF TypeOK
<1>1. RowsOK' /\ SweepsOK'
  BY DEF Reclaim, RowsOK, SweepsOK, db, row, quota
<1>2. QueueOK'
  BY BoundsAssumption DEF Reclaim, QueueOK, QueueStates, Forget, bull
<1>3. AttemptsOK'
  BY DEF Reclaim, AttemptsOK
<1>4. RequestsOK'
  BY DEF Reclaim, RequestsOK, users
<1>5. QED  BY <1>1, <1>2, <1>3, <1>4

\* DropFailed keeps every type.
LEMMA DropFailedType == ASSUME TypeOK, NEW j \in Jobs, DropFailed(j) PROVE TypeOK'
<1> USE DEF TypeOK
<1>1. RowsOK' /\ SweepsOK'
  BY DEF DropFailed, RowsOK, SweepsOK, db, row, quota
<1>2. QueueOK'
  BY ForgetType DEF DropFailed, QueueOK, QueueStates, bull
<1>3. AttemptsOK'
  BY DEF DropFailed, AttemptsOK
<1>4. RequestsOK'
  BY DEF DropFailed, RequestsOK, users
<1>5. QED  BY <1>1, <1>2, <1>3, <1>4

\* CancelRead keeps every type.
LEMMA CancelReadType == ASSUME TypeOK, NEW j \in Jobs, CancelRead(j) PROVE TypeOK'
<1> USE DEF TypeOK
<1>1. RowsOK' /\ SweepsOK'
  BY DEF CancelRead, RowsOK, SweepsOK, db, row, quota
<1>2. QueueOK'
  BY DEF CancelRead, QueueOK, bull
<1>3. AttemptsOK'
  BY DEF CancelRead, AttemptsOK
<1>4. RequestsOK'
  BY DEF CancelRead, RequestsOK, Months, Listed
<1>5. QED  BY <1>1, <1>2, <1>3, <1>4

\* CancelRemove keeps every type.
LEMMA CancelRemoveType == ASSUME TypeOK, NEW j \in Jobs, CancelRemove(j) PROVE TypeOK'
<1> USE DEF TypeOK
<1>1. RowsOK' /\ SweepsOK'
  BY DEF CancelRemove, RowsOK, SweepsOK, db, row, quota
<1>2. QueueOK'
  BY ForgetType DEF CancelRemove, QueueOK, QueueStates, bull
<1>3. AttemptsOK'
  BY DEF CancelRemove, AttemptsOK
<1>4. RequestsOK'
  BY BoundsAssumption DEF CancelRemove, RequestsOK, Fault, users, Listed
<1>5. QED  BY <1>1, <1>2, <1>3, <1>4

\* CancelMark keeps every type.
LEMMA CancelMarkType == ASSUME TypeOK, NEW j \in Jobs, CancelMark(j) PROVE TypeOK'
<1> USE DEF TypeOK
<1>1. RowsOK' /\ SweepsOK'
  BY PersistType, RowsSame DEF CancelMark, Statuses, Terminal, Stopped, InProgress, db, row, quota
<1>2. QueueOK'
  BY DEF CancelMark, QueueOK, bull
<1>3. AttemptsOK'
  BY DEF CancelMark, AttemptsOK
<1>4. RequestsOK'
  BY DEF CancelMark, RequestsOK, Months, Listed
<1>5. QED  BY <1>1, <1>2, <1>3, <1>4

\* CancellerDies keeps every type.
LEMMA CancellerDiesType == ASSUME TypeOK, NEW j \in Jobs, CancellerDies(j) PROVE TypeOK'
<1> USE DEF TypeOK
<1>1. RowsOK' /\ SweepsOK'
  BY DEF CancellerDies, RowsOK, SweepsOK, db, row, quota
<1>2. QueueOK'
  BY DEF CancellerDies, QueueOK, bull
<1>3. AttemptsOK'
  BY DEF CancellerDies, AttemptsOK
<1>4. RequestsOK'
  BY DEF CancellerDies, RequestsOK, users, Listed
<1>5. QED  BY <1>1, <1>2, <1>3, <1>4

\* LateTimeout keeps every type.
LEMMA LateTimeoutType == ASSUME TypeOK, NEW j \in Jobs, LateTimeout(j) PROVE TypeOK'
<1> USE DEF TypeOK
<1>1. RowsOK' /\ SweepsOK'
  BY PersistType, RowsSame DEF LateTimeout, Statuses, Terminal, Stopped, InProgress, db, row, quota
<1>2. QueueOK'
  BY DEF LateTimeout, QueueOK, bull
<1>3. AttemptsOK'
  BY DEF LateTimeout, AttemptsOK
<1>4. RequestsOK'
  BY BoundsAssumption DEF LateTimeout, RequestsOK, Fault, users, Listed
<1>5. QED  BY <1>1, <1>2, <1>3, <1>4

\* LatePlan keeps every type.
LEMMA LatePlanType == ASSUME TypeOK, NEW j \in Jobs, LatePlan(j) PROVE TypeOK'
<1> USE DEF TypeOK
<1>1. RowsOK' /\ SweepsOK'
  BY SavePlanType, RowsSame DEF LatePlan, db, row, quota
<1>2. QueueOK'
  BY DEF LatePlan, QueueOK, bull
<1>3. AttemptsOK'
  BY DEF LatePlan, AttemptsOK
<1>4. RequestsOK'
  BY DEF LatePlan, RequestsOK, users
<1>5. QED  BY <1>1, <1>2, <1>3, <1>4

\* Age keeps every type.
LEMMA AgeType == ASSUME TypeOK, NEW j \in Jobs, Age(j) PROVE TypeOK'
<1> USE DEF TypeOK
<1>1. RowsOK' /\ SweepsOK'
  BY DEF Age, RowsOK, SweepsOK, db, row, quota
<1>2. QueueOK'
  BY DEF Age, QueueOK, bull
<1>3. AttemptsOK'
  BY DEF Age, AttemptsOK
<1>4. RequestsOK'
  BY DEF Age, RequestsOK, users
<1>5. QED  BY <1>1, <1>2, <1>3, <1>4

\* Wear keeps every type.
LEMMA WearType == ASSUME TypeOK, NEW j \in Jobs, Wear(j) PROVE TypeOK'
<1> USE DEF TypeOK
<1>1. RowsOK' /\ SweepsOK'
  BY DEF Wear, RowsOK, SweepsOK, db, row, quota
<1>2. QueueOK'
  BY BoundsAssumption DEF Wear, QueueOK, QueueStates, Forget, bull
<1>3. AttemptsOK'
  BY DEF Wear, AttemptsOK
<1>4. RequestsOK'
  BY DEF Wear, RequestsOK, users
<1>5. QED  BY <1>1, <1>2, <1>3, <1>4

\* Entry keeps every type.
LEMMA EntryType == ASSUME TypeOK, NEW w \in Workers, Entry(w) PROVE TypeOK'
<1> USE DEF TypeOK
<1>0. att[w].job \in Jobs /\ att[w].pc # "idle"
  BY ActiveAttempt DEF Entry, At
<1>1. RowsOK' /\ SweepsOK'
  BY DEF Entry, RowsOK, SweepsOK, db, row, quota
<1>2. QueueOK'
  BY DEF Entry, QueueOK, bull
<1>3. AttemptsOK'
  BY <1>0, ExitType, GotoType DEF Entry, At, Places, Reasons
<1>4. RequestsOK'
  BY DEF Entry, RequestsOK, users
<1>5. QED  BY <1>1, <1>2, <1>3, <1>4

\* CancelInactive keeps every type.
LEMMA CancelInactiveType == ASSUME TypeOK, NEW w \in Workers, CancelInactive(w) PROVE TypeOK'
<1> USE DEF TypeOK
<1>0. att[w].job \in Jobs /\ att[w].pc # "idle"
  BY ActiveAttempt DEF CancelInactive, At
<1>1. RowsOK' /\ SweepsOK'
  BY <1>0, PersistType, RowsSame DEF CancelInactive, Statuses, Terminal, Stopped, InProgress, db, row, quota
<1>2. QueueOK'
  BY DEF CancelInactive, QueueOK, bull
<1>3. AttemptsOK'
  BY <1>0, ThrowType DEF CancelInactive, At, Places, Reasons
<1>4. RequestsOK'
  BY DEF CancelInactive, RequestsOK, users
<1>5. QED  BY <1>1, <1>2, <1>3, <1>4

\* LoadPlan keeps every type.
LEMMA LoadPlanType == ASSUME TypeOK, NEW w \in Workers, LoadPlan(w) PROVE TypeOK'
<1> USE DEF TypeOK
<1>0. att[w].job \in Jobs /\ att[w].pc # "idle"
  BY ActiveAttempt DEF LoadPlan, At
<1>1. RowsOK' /\ SweepsOK'
  BY DEF LoadPlan, RowsOK, SweepsOK, db, row, quota
<1>2. QueueOK'
  BY DEF LoadPlan, QueueOK, bull
<1>3. AttemptsOK'
  BY <1>0, StartPhaseType DEF LoadPlan, At, Places, Reasons, ReviewPhases, Phases
<1>4. RequestsOK'
  BY DEF LoadPlan, RequestsOK, users
<1>5. QED  BY <1>1, <1>2, <1>3, <1>4

\* AdvanceRead keeps every type.
LEMMA AdvanceReadType == ASSUME TypeOK, NEW w \in Workers, AdvanceRead(w) PROVE TypeOK'
<1> USE DEF TypeOK
<1>0. att[w].job \in Jobs /\ att[w].pc # "idle"
  BY ActiveAttempt DEF AdvanceRead, At
<1>1. RowsOK' /\ SweepsOK'
  BY DEF AdvanceRead, RowsOK, SweepsOK, db, row, quota
<1>2. QueueOK'
  BY DEF AdvanceRead, QueueOK, bull
<1>3. AttemptsOK'
  BY <1>0, GotoType, BecomesType, JobsAssumption DEF AdvanceRead, At, Places, Advanced, AttemptsOK, Attempts, RowsOK, Statuses
<1>4. RequestsOK'
  BY DEF AdvanceRead, RequestsOK, users
<1>5. QED  BY <1>1, <1>2, <1>3, <1>4

\* AdvanceWrite keeps every type.
LEMMA AdvanceWriteType == ASSUME TypeOK, NEW w \in Workers, AdvanceWrite(w) PROVE TypeOK'
<1> USE DEF TypeOK
<1>0. att[w].job \in Jobs /\ att[w].pc # "idle"
  BY ActiveAttempt DEF AdvanceWrite, At
<1>1. RowsOK' /\ SweepsOK'
  BY <1>0, SetStatusType, RowsSame DEF AdvanceWrite, RowsOK, AttemptsOK, Attempts, Statuses, InProgress, db, row, quota
<1>2. QueueOK'
  BY DEF AdvanceWrite, QueueOK, bull
<1>3. AttemptsOK'
  BY <1>0, BecomesType, JobsAssumption DEF AdvanceWrite, At, Places, Advanced, AttemptsOK, Attempts, RowsOK, Statuses
<1>4. RequestsOK'
  BY DEF AdvanceWrite, RequestsOK, users
<1>5. QED  BY <1>1, <1>2, <1>3, <1>4

\* NextPhase keeps every type.
LEMMA NextPhaseType == ASSUME TypeOK, NEW w \in Workers, NextPhase(w) PROVE TypeOK'
<1> USE DEF TypeOK
<1>0. att[w].job \in Jobs /\ att[w].pc # "idle"
  BY ActiveAttempt DEF NextPhase, At
<1>1. RowsOK' /\ SweepsOK'
  BY DEF NextPhase, RowsOK, SweepsOK, db, row, quota
<1>2. QueueOK'
  BY DEF NextPhase, QueueOK, bull
<1>3. AttemptsOK'
  BY <1>0, ThrowType, StartPhaseType, GotoType DEF NextPhase, At, Places, Reasons, ReviewPhases, Phases
<1>4. RequestsOK'
  BY DEF NextPhase, RequestsOK, users
<1>5. QED  BY <1>1, <1>2, <1>3, <1>4

\* EmptyDiff keeps every type.
LEMMA EmptyDiffType == ASSUME TypeOK, NEW w \in Workers, EmptyDiff(w) PROVE TypeOK'
<1> USE DEF TypeOK
<1>0. att[w].job \in Jobs /\ att[w].pc # "idle"
  BY ActiveAttempt DEF EmptyDiff, At
<1>1. RowsOK' /\ SweepsOK'
  BY DEF EmptyDiff, RowsOK, SweepsOK, db, row, quota
<1>2. QueueOK'
  BY DEF EmptyDiff, QueueOK, bull
<1>3. AttemptsOK'
  BY <1>0, GotoType DEF EmptyDiff, At, Places, Reasons
<1>4. RequestsOK'
  BY DEF EmptyDiff, RequestsOK, users
<1>5. QED  BY <1>1, <1>2, <1>3, <1>4

\* Prepare keeps every type.
LEMMA PrepareType == ASSUME TypeOK, NEW w \in Workers, Prepare(w) PROVE TypeOK'
<1> USE DEF TypeOK
<1>0. att[w].job \in Jobs /\ att[w].pc # "idle"
  BY ActiveAttempt DEF Prepare, At
<1>1. RowsOK' /\ SweepsOK'
  BY <1>0, SavePlanType, RowsSame DEF Prepare, db, row, quota
<1>2. QueueOK'
  BY DEF Prepare, QueueOK, bull
<1>3. AttemptsOK'
  BY <1>0, GotoType DEF Prepare, At, Places, Reasons
<1>4. RequestsOK'
  BY DEF Prepare, RequestsOK, users
<1>5. QED  BY <1>1, <1>2, <1>3, <1>4

\* PrepareRefused keeps every type.
LEMMA PrepareRefusedType == ASSUME TypeOK, NEW w \in Workers, PrepareRefused(w) PROVE TypeOK'
<1> USE DEF TypeOK
<1>0. att[w].job \in Jobs /\ att[w].pc # "idle"
  BY ActiveAttempt DEF PrepareRefused, At
<1>1. RowsOK' /\ SweepsOK'
  BY DEF PrepareRefused, RowsOK, SweepsOK, db, row, quota
<1>2. QueueOK'
  BY DEF PrepareRefused, QueueOK, bull
<1>3. AttemptsOK'
  BY <1>0, ThrowType DEF PrepareRefused, At, Places, Reasons
<1>4. RequestsOK'
  BY DEF PrepareRefused, RequestsOK, users
<1>5. QED  BY <1>1, <1>2, <1>3, <1>4

\* Deliver keeps every type.
LEMMA DeliverType == ASSUME TypeOK, NEW w \in Workers, Deliver(w) PROVE TypeOK'
<1> USE DEF TypeOK
<1>0. att[w].job \in Jobs /\ att[w].pc # "idle"
  BY ActiveAttempt DEF Deliver, At
<1>1. RowsOK' /\ SweepsOK'
  BY DEF Deliver, RowsOK, SweepsOK, db, row, quota
<1>2. QueueOK'
  BY DEF Deliver, QueueOK, bull
<1>3. AttemptsOK'
  BY <1>0, GotoType DEF Deliver, At, Places, Reasons
<1>4. RequestsOK'
  BY DEF Deliver, RequestsOK, users
<1>5. QED  BY <1>1, <1>2, <1>3, <1>4

\* DeliverPending keeps every type.
LEMMA DeliverPendingType == ASSUME TypeOK, NEW w \in Workers, DeliverPending(w) PROVE TypeOK'
<1> USE DEF TypeOK
<1>0. att[w].job \in Jobs /\ att[w].pc # "idle"
  BY ActiveAttempt DEF DeliverPending, At
<1>1. RowsOK' /\ SweepsOK'
  BY DEF DeliverPending, RowsOK, SweepsOK, db, row, quota
<1>2. QueueOK'
  BY <1>0, BoundsAssumption DEF DeliverPending, QueueOK, QueueStates, Forget, bull
<1>3. AttemptsOK'
  BY <1>0, ThrowType DEF DeliverPending, At, Places, Reasons
<1>4. RequestsOK'
  BY DEF DeliverPending, RequestsOK, users
<1>5. QED  BY <1>1, <1>2, <1>3, <1>4

\* Finish keeps every type.
LEMMA FinishType == ASSUME TypeOK, NEW w \in Workers, Finish(w) PROVE TypeOK'
<1> USE DEF TypeOK
<1>0. att[w].job \in Jobs /\ att[w].pc # "idle"
  BY ActiveAttempt DEF Finish, At
<1>1. RowsOK' /\ SweepsOK'
  BY DEF Finish, RowsOK, SweepsOK, db, row, quota
<1>2. QueueOK'
  BY DEF Finish, QueueOK, bull
<1>3. AttemptsOK'
  BY <1>0, ThrowType, GotoType DEF Finish, At, Places, Reasons
<1>4. RequestsOK'
  BY DEF Finish, RequestsOK, users
<1>5. QED  BY <1>1, <1>2, <1>3, <1>4

\* Record keeps every type.
LEMMA RecordType == ASSUME TypeOK, NEW w \in Workers, Record(w) PROVE TypeOK'
<1> USE DEF TypeOK
<1>0. att[w].job \in Jobs /\ att[w].pc # "idle"
  BY ActiveAttempt DEF Record, At
<1>1. RowsOK' /\ SweepsOK'
  BY <1>0, SetStatusType, RowsSame DEF Record, RowsOK, Statuses, Terminal, Stopped, InProgress, db, row, quota
<1>2. QueueOK'
  BY DEF Record, QueueOK, bull
<1>3. AttemptsOK'
  BY <1>0, ThrowType, ExitType DEF Record, At, Places, Reasons
<1>4. RequestsOK'
  BY DEF Record, RequestsOK, users
<1>5. QED  BY <1>1, <1>2, <1>3, <1>4

\* CallFails keeps every type.
LEMMA CallFailsType == ASSUME TypeOK, NEW w \in Workers, CallFails(w) PROVE TypeOK'
<1> USE DEF TypeOK
<1>0. att[w].job \in Jobs /\ att[w].pc # "idle"
  BY ActiveAttempt DEF CallFails, At
<1>1. RowsOK' /\ SweepsOK'
  BY DEF CallFails, RowsOK, SweepsOK, db, row, quota
<1>2. QueueOK'
  BY DEF CallFails, QueueOK, bull
<1>3. AttemptsOK'
  BY <1>0, ThrowType DEF CallFails, At, Places, Reasons, Errors
<1>4. RequestsOK'
  BY DEF CallFails, RequestsOK, users
<1>5. QED  BY <1>1, <1>2, <1>3, <1>4

\* GiveUp keeps every type.
LEMMA GiveUpType == ASSUME TypeOK, NEW w \in Workers, GiveUp(w) PROVE TypeOK'
<1> USE DEF TypeOK
<1>0. att[w].job \in Jobs /\ att[w].pc # "idle"
  BY ActiveAttempt DEF GiveUp, At
<1>1. RowsOK' /\ SweepsOK'
  BY DEF GiveUp, RowsOK, SweepsOK, db, row, quota
<1>2. QueueOK'
  BY DEF GiveUp, QueueOK, bull
<1>3. AttemptsOK'
  BY <1>0, ThrowType DEF GiveUp, At, Places, Reasons, AttemptsOK
<1>4. RequestsOK'
  BY DEF GiveUp, RequestsOK, users
<1>5. QED  BY <1>1, <1>2, <1>3, <1>4

\* CatchAbandoned keeps every type.
LEMMA CatchAbandonedType == ASSUME TypeOK, NEW w \in Workers, CatchAbandoned(w) PROVE TypeOK'
<1> USE DEF TypeOK
<1>0. att[w].job \in Jobs /\ att[w].pc # "idle"
  BY ActiveAttempt DEF CatchAbandoned, At
<1>1. RowsOK' /\ SweepsOK'
  BY DEF CatchAbandoned, RowsOK, SweepsOK, db, row, quota
<1>2. QueueOK'
  BY DEF CatchAbandoned, QueueOK, bull
<1>3. AttemptsOK'
  BY <1>0, ExitType DEF CatchAbandoned, At, Places, Reasons
<1>4. RequestsOK'
  BY DEF CatchAbandoned, RequestsOK, users
<1>5. QED  BY <1>1, <1>2, <1>3, <1>4

\* CatchFinal keeps every type.
LEMMA CatchFinalType == ASSUME TypeOK, NEW w \in Workers, CatchFinal(w) PROVE TypeOK'
<1> USE DEF TypeOK
<1>0. att[w].job \in Jobs /\ att[w].pc # "idle"
  BY ActiveAttempt DEF CatchFinal, At
<1>1. RowsOK' /\ SweepsOK'
  BY <1>0, PersistType, RowsSame DEF CatchFinal, Statuses, Terminal, Stopped, InProgress, db, row, quota
<1>2. QueueOK'
  BY DEF CatchFinal, QueueOK, bull
<1>3. AttemptsOK'
  BY <1>0, ExitType DEF CatchFinal, At, Places, Reasons
<1>4. RequestsOK'
  BY BoundsAssumption DEF CatchFinal, RequestsOK, Fault, users, Listed
<1>5. QED  BY <1>1, <1>2, <1>3, <1>4

\* CatchPermanent keeps every type.
LEMMA CatchPermanentType == ASSUME TypeOK, NEW w \in Workers, CatchPermanent(w) PROVE TypeOK'
<1> USE DEF TypeOK
<1>0. att[w].job \in Jobs /\ att[w].pc # "idle"
  BY ActiveAttempt DEF CatchPermanent, At
<1>1. RowsOK' /\ SweepsOK'
  BY <1>0, PersistType, RowsSame DEF CatchPermanent, Statuses, Terminal, Stopped, InProgress, db, row, quota
<1>2. QueueOK'
  BY DEF CatchPermanent, QueueOK, bull
<1>3. AttemptsOK'
  BY <1>0, ExitType DEF CatchPermanent, At, Places, Reasons
<1>4. RequestsOK'
  BY BoundsAssumption DEF CatchPermanent, RequestsOK, Fault, users, Listed
<1>5. QED  BY <1>1, <1>2, <1>3, <1>4

\* CatchTransient keeps every type.
LEMMA CatchTransientType == ASSUME TypeOK, NEW w \in Workers, CatchTransient(w) PROVE TypeOK'
<1> USE DEF TypeOK
<1>0. att[w].job \in Jobs /\ att[w].pc # "idle"
  BY ActiveAttempt DEF CatchTransient, At
<1>1. RowsOK' /\ SweepsOK'
  BY <1>0, PersistType, RowsSame DEF CatchTransient, Statuses, Terminal, Stopped, InProgress, db, row, quota
<1>2. QueueOK'
  BY DEF CatchTransient, QueueOK, bull
<1>3. AttemptsOK'
  BY <1>0, ExitType DEF CatchTransient, At, Places, Reasons
<1>4. RequestsOK'
  BY BoundsAssumption DEF CatchTransient, RequestsOK, Fault, users, Listed
<1>5. QED  BY <1>1, <1>2, <1>3, <1>4

\* CatchPending keeps every type.
LEMMA CatchPendingType == ASSUME TypeOK, NEW w \in Workers, CatchPending(w) PROVE TypeOK'
<1> USE DEF TypeOK
<1>0. att[w].job \in Jobs /\ att[w].pc # "idle"
  BY ActiveAttempt DEF CatchPending, At
<1>1. RowsOK' /\ SweepsOK'
  BY DEF CatchPending, RowsOK, SweepsOK, db, row, quota
<1>2. QueueOK'
  BY DEF CatchPending, QueueOK, bull
<1>3. AttemptsOK'
  BY <1>0, ExitType, StartPhaseType DEF CatchPending, At, Places, Reasons, ReviewPhases, Phases
<1>4. RequestsOK'
  BY DEF CatchPending, RequestsOK, users
<1>5. QED  BY <1>1, <1>2, <1>3, <1>4

\* Delay keeps every type.
LEMMA DelayType == ASSUME TypeOK, NEW w \in Workers, Delay(w) PROVE TypeOK'
<1> USE DEF TypeOK
<1>0. att[w].job \in Jobs /\ att[w].pc # "idle"
  BY ActiveAttempt DEF Delay, At
<1>1. RowsOK' /\ SweepsOK'
  BY DEF Delay, RowsOK, SweepsOK, db, row, quota
<1>2. QueueOK'
  BY DEF Delay, QueueOK, bull
<1>3. AttemptsOK'
  BY <1>0, ExitType DEF Delay, At, Places, Reasons
<1>4. RequestsOK'
  BY DEF Delay, RequestsOK, users
<1>5. QED  BY <1>1, <1>2, <1>3, <1>4

\* DelayFails keeps every type.
LEMMA DelayFailsType == ASSUME TypeOK, NEW w \in Workers, DelayFails(w) PROVE TypeOK'
<1> USE DEF TypeOK
<1>0. att[w].job \in Jobs /\ att[w].pc # "idle"
  BY ActiveAttempt DEF DelayFails, At
<1>1. RowsOK' /\ SweepsOK'
  BY DEF DelayFails, RowsOK, SweepsOK, db, row, quota
<1>2. QueueOK'
  BY DEF DelayFails, QueueOK, bull
<1>3. AttemptsOK'
  BY <1>0, ExitType DEF DelayFails, At, Places, Reasons
<1>4. RequestsOK'
  BY BoundsAssumption DEF DelayFails, RequestsOK, Fault, users, Listed
<1>5. QED  BY <1>1, <1>2, <1>3, <1>4

\* Ack keeps every type.
LEMMA AckType == ASSUME TypeOK, NEW w \in Workers, Ack(w) PROVE TypeOK'
<1> USE DEF TypeOK
<1>0. att[w].job \in Jobs /\ att[w].pc # "idle"
  BY ActiveAttempt DEF Ack, At
<1>1. RowsOK' /\ SweepsOK'
  BY DEF Ack, RowsOK, SweepsOK, db, row, quota
<1>2. QueueOK'
  BY <1>0, ForgetType DEF Ack, QueueOK, QueueStates, bull
<1>3. AttemptsOK'
  BY <1>0, BecomesType, IdleAttemptType DEF Ack, At, AttemptsOK, Attempts
<1>4. RequestsOK'
  BY DEF Ack, RequestsOK, users
<1>5. QED  BY <1>1, <1>2, <1>3, <1>4

\* Deadline keeps every type.
LEMMA DeadlineType == ASSUME TypeOK, NEW w \in Workers, Deadline(w) PROVE TypeOK'
<1> USE DEF TypeOK
<1>0. att[w].job \in Jobs /\ att[w].pc # "idle"
  BY ActiveAttempt DEF Deadline, At
<1>1. RowsOK' /\ SweepsOK'
  BY DEF Deadline, RowsOK, SweepsOK, db, row, quota
<1>2. QueueOK'
  BY DEF Deadline, QueueOK, bull
<1> DEFINE a == [att[w] EXCEPT !.superseded = TRUE]
<1>3. AttemptsOK'
  <2>1. a \in Attempts /\ a.job = att[w].job /\ a.pc = att[w].pc
    BY DEF AttemptsOK, Attempts
  <2>2. loose' \subseteq Jobs \X {"timeout", "plan"}
    BY <1>0 DEF Deadline, AttemptsOK
  <2>3. Becomes(w, a)
    BY DEF Deadline
  <2>4. QED  BY <2>1, <2>2, <2>3, BecomesType DEF AttemptsOK
<1>4. RequestsOK'
  BY DEF Deadline, RequestsOK, users
<1>5. QED  BY <1>1, <1>2, <1>3, <1>4

\* Heartbeat keeps every type.
LEMMA HeartbeatType == ASSUME TypeOK, NEW w \in Workers, Heartbeat(w) PROVE TypeOK'
<1> USE DEF TypeOK
<1>0. att[w].job \in Jobs /\ att[w].pc # "idle"
  BY ActiveAttempt DEF Heartbeat, At
<1>1. RowsOK' /\ SweepsOK'
  BY <1>0, TouchType DEF Heartbeat, RowsOK, db, row, quota
<1>2. QueueOK'
  BY DEF Heartbeat, QueueOK, bull
<1>3. AttemptsOK'
  BY DEF Heartbeat, AttemptsOK
<1>4. RequestsOK'
  BY DEF Heartbeat, RequestsOK, users
<1>5. QED  BY <1>1, <1>2, <1>3, <1>4

\* Crash keeps every type.
LEMMA CrashType == ASSUME TypeOK, NEW w \in Workers, Crash(w) PROVE TypeOK'
<1> USE DEF TypeOK
<1>0. att[w].job \in Jobs /\ att[w].pc # "idle"
  BY ActiveAttempt DEF Crash, At
<1>1. RowsOK' /\ SweepsOK'
  BY DEF Crash, RowsOK, SweepsOK, db, row, quota
<1>2. QueueOK'
  BY <1>0, BoundsAssumption DEF Crash, QueueOK, QueueStates, Forget, bull
<1>3. AttemptsOK'
  BY <1>0, BecomesType, IdleAttemptType DEF Crash, At, AttemptsOK, Attempts
<1>4. RequestsOK'
  BY BoundsAssumption DEF Crash, RequestsOK, Fault, users, Listed
<1>5. QED  BY <1>1, <1>2, <1>3, <1>4

\* Pickup keeps every type.
LEMMA PickupType == ASSUME TypeOK, NEW w \in Workers, NEW j \in Jobs, Pickup(w, j) PROVE TypeOK'
<1> USE DEF TypeOK
<1>1. RowsOK' /\ SweepsOK'
  BY DEF Pickup, RowsOK, SweepsOK, db, row, quota
<1>2. QueueOK'
  BY BoundsAssumption DEF Pickup, QueueOK, QueueStates, Forget, bull
<1> DEFINE a == [IdleAttempt EXCEPT !.job = j, !.pc = "entry", !.made = made[j]]
<1>3. AttemptsOK'
  <2>1. a \in Attempts /\ a.job = j /\ a.pc = "entry"
    BY IdleAttemptType DEF QueueOK, Attempts, Places, IdleAttempt
  <2>2. Becomes(w, a) /\ UNCHANGED loose
    BY DEF Pickup
  <2>3. QED  BY <2>1, <2>2, BecomesType, JobsAssumption DEF AttemptsOK
<1>4. RequestsOK'
  BY DEF Pickup, RequestsOK, users
<1>5. QED  BY <1>1, <1>2, <1>3, <1>4

\* SweepLookup keeps every type.
LEMMA SweepLookupType == ASSUME TypeOK, NEW s \in Sweepers, SweepLookup(s) PROVE TypeOK'
<1> USE DEF TypeOK
<1>0. sweep[s].job \in Jobs
  BY ActiveSweep DEF SweepLookup
<1> DEFINE r == [sweep[s] EXCEPT !.pc = "state", !.known = (queue[sweep[s].job] # "absent"),
                                 !.worn = worn[sweep[s].job]]
<1>1. RowsOK' /\ SweepsOK'
  <2>1. r \in Sweeps /\ r.pc = "state" /\ r.job \in Jobs
    BY <1>0 DEF SweepsOK, Sweeps, QueueOK
  <2>2. Holds(s, r) \/ Holds(s, IdleSweep)
    BY DEF SweepLookup
  <2>3. SweepsOK'
    BY <2>1, <2>2, HoldsType, IdleSweepType, JobsAssumption
  <2>4. RowsOK'
    BY DEF SweepLookup, RowsOK, row, quota
  <2>5. QED  BY <2>3, <2>4
<1>2. QueueOK'
  BY DEF SweepLookup, QueueOK, bull
<1>3. AttemptsOK'
  BY DEF SweepLookup, AttemptsOK
<1>4. RequestsOK'
  BY BoundsAssumption DEF SweepLookup, RequestsOK, Fault, users, Listed
<1>5. QED  BY <1>1, <1>2, <1>3, <1>4

\* SweepState keeps every type.
LEMMA SweepStateType == ASSUME TypeOK, NEW s \in Sweepers, SweepState(s) PROVE TypeOK'
<1> USE DEF TypeOK
<1>0. sweep[s].job \in Jobs
  BY ActiveSweep DEF SweepState
<1> DEFINE r == [sweep[s] EXCEPT !.pc = "stop", !.verdict = Verdict(s)]
<1>1. RowsOK' /\ SweepsOK'
  <2>1. Verdict(s) \in {"none", "FAILED", "TIMEOUT"}
    BY DEF Verdict
  <2>2. r \in Sweeps /\ r.pc = "stop" /\ r.job \in Jobs /\ r.verdict = Verdict(s)
    BY <1>0, <2>1 DEF SweepsOK, Sweeps
  <2>3. Holds(s, IdleSweep) \/ (Holds(s, r) /\ Verdict(s) # "none")
    BY DEF SweepState
  <2>4. SweepsOK'
    BY <2>2, <2>3, HoldsType, IdleSweepType, JobsAssumption
  <2>5. RowsOK'
    BY DEF SweepState, RowsOK, row, quota
  <2>6. QED  BY <2>4, <2>5
<1>2. QueueOK'
  BY DEF SweepState, QueueOK, bull
<1>3. AttemptsOK'
  BY DEF SweepState, AttemptsOK
<1>4. RequestsOK'
  BY BoundsAssumption DEF SweepState, RequestsOK, Fault, users, Listed
<1>5. QED  BY <1>1, <1>2, <1>3, <1>4

\* SweepStop keeps every type.
LEMMA SweepStopType == ASSUME TypeOK, NEW s \in Sweepers, SweepStop(s) PROVE TypeOK'
<1> USE DEF TypeOK
<1>0. sweep[s].job \in Jobs
  BY ActiveSweep DEF SweepStop
<1>1. RowsOK' /\ SweepsOK'
  <2>1. SweepsOK'
    <3>1. CASE Holds(s, IdleSweep)
      BY <3>1, HoldsType, IdleSweepType
    <3>2. CASE sweep' = [Outdated(sweep[s].job) EXCEPT ![s] = IdleSweep]
      BY <1>0, <3>2, OutdatedType, IdleSweepType DEF SweepsOK
    <3>3. QED  BY <3>1, <3>2 DEF SweepStop
  <2>2. sweep[s].pc = "stop" => sweep[s].verdict \in Statuses
    BY DEF SweepsOK, Sweeps, Statuses, Terminal, Stopped
  <2>3. RowsOK'
    <3>1. CASE RefundReviewQuota(sweep[s].job)
      BY <1>0, <2>2, <3>1, RefundType DEF SweepStop, RowsOK, row, quota
    <3>2. CASE UNCHANGED row
      BY <3>2 DEF RowsOK, row, quota
    <3>3. QED  BY <3>1, <3>2 DEF SweepStop
  <2>4. QED  BY <2>1, <2>3
<1>2. QueueOK'
  BY DEF SweepStop, QueueOK, bull
<1>3. AttemptsOK'
  BY DEF SweepStop, AttemptsOK
<1>4. RequestsOK'
  BY BoundsAssumption DEF SweepStop, RequestsOK, Fault, users, Listed
<1>5. QED  BY <1>1, <1>2, <1>3, <1>4

\* SweepRow keeps every type.
LEMMA SweepRowType == ASSUME TypeOK, NEW s \in Sweepers, NEW j \in Jobs, SweepRow(s, j) PROVE TypeOK'
<1> USE DEF TypeOK
<1>1. RowsOK' /\ SweepsOK'
  BY HoldsType, JobsAssumption DEF SweepRow, RowsOK, SweepsOK, Sweeps, IdleSweep, QueueOK, Verdict, db, row, quota
<1>2. QueueOK'
  BY DEF SweepRow, QueueOK, bull
<1>3. AttemptsOK'
  BY DEF SweepRow, AttemptsOK
<1>4. RequestsOK'
  BY DEF SweepRow, RequestsOK, users
<1>5. QED  BY <1>1, <1>2, <1>3, <1>4

\* SettleFailed keeps every type.
LEMMA SettleFailedType == ASSUME TypeOK, NEW s \in Sweepers, NEW j \in Jobs, SettleFailed(s, j) PROVE TypeOK'
<1> USE DEF TypeOK
<1>1. RowsOK' /\ SweepsOK'
  BY HoldsType, JobsAssumption DEF SettleFailed, RowsOK, SweepsOK, Sweeps, IdleSweep, QueueOK, Verdict, db, row, quota
<1>2. QueueOK'
  BY DEF SettleFailed, QueueOK, bull
<1>3. AttemptsOK'
  BY DEF SettleFailed, AttemptsOK
<1>4. RequestsOK'
  BY DEF SettleFailed, RequestsOK, users
<1>5. QED  BY <1>1, <1>2, <1>3, <1>4

\* Deactivate keeps every type.
LEMMA DeactivateType == ASSUME TypeOK, Deactivate PROVE TypeOK'
<1> USE DEF TypeOK
<1>1. RowsOK' /\ SweepsOK'
  BY DEF Deactivate, RowsOK, SweepsOK, db, row, quota
<1>2. QueueOK'
  BY DEF Deactivate, QueueOK, bull
<1>3. AttemptsOK'
  BY DEF Deactivate, AttemptsOK
<1>4. RequestsOK'
  BY DEF Deactivate, RequestsOK, Months, Listed
<1>5. QED  BY <1>1, <1>2, <1>3, <1>4

\* ListDisconnected keeps every type.
LEMMA ListDisconnectedType == ASSUME TypeOK, ListDisconnected PROVE TypeOK'
<1> USE DEF TypeOK
<1>1. RowsOK' /\ SweepsOK'
  BY DEF ListDisconnected, RowsOK, SweepsOK, db, row, quota
<1>2. QueueOK'
  BY DEF ListDisconnected, QueueOK, bull
<1>3. AttemptsOK'
  BY DEF ListDisconnected, AttemptsOK
<1>4. RequestsOK'
  BY DEF ListDisconnected, RequestsOK, Months, Listed
<1>5. QED  BY <1>1, <1>2, <1>3, <1>4

\* DisconnectDies keeps every type.
LEMMA DisconnectDiesType == ASSUME TypeOK, DisconnectDies PROVE TypeOK'
<1> USE DEF TypeOK
<1>1. RowsOK' /\ SweepsOK'
  BY DEF DisconnectDies, RowsOK, SweepsOK, db, row, quota
<1>2. QueueOK'
  BY DEF DisconnectDies, QueueOK, bull
<1>3. AttemptsOK'
  BY DEF DisconnectDies, AttemptsOK
<1>4. RequestsOK'
  BY DEF DisconnectDies, RequestsOK, users, Listed
<1>5. QED  BY <1>1, <1>2, <1>3, <1>4

\* Reconnect keeps every type.
LEMMA ReconnectType == ASSUME TypeOK, Reconnect PROVE TypeOK'
<1> USE DEF TypeOK
<1>1. RowsOK' /\ SweepsOK'
  BY DEF Reconnect, RowsOK, SweepsOK, db, row, quota
<1>2. QueueOK'
  BY DEF Reconnect, QueueOK, bull
<1>3. AttemptsOK'
  BY DEF Reconnect, AttemptsOK
<1>4. RequestsOK'
  BY DEF Reconnect, RequestsOK, Months, Listed
<1>5. QED  BY <1>1, <1>2, <1>3, <1>4

\* NextMonth keeps every type.
LEMMA NextMonthType == ASSUME TypeOK, NextMonth PROVE TypeOK'
<1> USE DEF TypeOK
<1>1. RowsOK' /\ SweepsOK'
  BY DEF NextMonth, RowsOK, SweepsOK, db, row, quota
<1>2. QueueOK'
  BY DEF NextMonth, QueueOK, bull
<1>3. AttemptsOK'
  BY DEF NextMonth, AttemptsOK
<1>4. RequestsOK'
  BY BoundsAssumption DEF NextMonth, RequestsOK, Months
<1>5. QED  BY <1>1, <1>2, <1>3, <1>4

\* CancelDisconnected keeps every type.
LEMMA CancelDisconnectedType == ASSUME TypeOK, NEW j \in Jobs, CancelDisconnected(j) PROVE TypeOK'
<1> USE DEF TypeOK
<1>1. RowsOK' /\ SweepsOK'
  BY PersistType, RowsSame DEF CancelDisconnected, Statuses, Terminal, Stopped, InProgress, db, row, quota
<1>2. QueueOK'
  BY DEF CancelDisconnected, QueueOK, bull
<1>3. AttemptsOK'
  BY DEF CancelDisconnected, AttemptsOK
<1>4. RequestsOK'
  BY DEF CancelDisconnected, RequestsOK, Months, Listed
<1>5. QED  BY <1>1, <1>2, <1>3, <1>4

-------------------------------------------------------------------------------
(* The specification *)

\* A step in which nothing happens keeps every type.
LEMMA StutterType == ASSUME TypeOK, UNCHANGED vars PROVE TypeOK'
BY DEF TypeOK, RowsOK, QueueOK, AttemptsOK, SweepsOK, RequestsOK, vars, db, row, quota, bull, users

\* Initially every row is absent and every process idle.
LEMMA InitType == ASSUME Init PROVE TypeOK
<1>1. RowsOK
  BY DEF Init, RowsOK, Statuses
<1>2. QueueOK
  BY BoundsAssumption DEF Init, QueueOK, QueueStates
<1>3. AttemptsOK
  BY IdleAttemptType DEF Init, AttemptsOK
<1>4. SweepsOK
  BY IdleSweepType DEF Init, SweepsOK
<1>5. RequestsOK
  BY BoundsAssumption DEF Init, RequestsOK, Months
<1>6. QED  BY <1>1, <1>2, <1>3, <1>4, <1>5 DEF TypeOK

\* Every step, and every stutter, keeps every type.
LEMMA NextType == ASSUME TypeOK, [Next]_vars PROVE TypeOK'
<1>1. ASSUME NEW j \in Jobs, Produce(j) PROVE TypeOK'
  BY <1>1, ReceiveType, InsertSkippedType, InsertType, ReserveType, SkipDeniedType, EnqueueType,
     ProducerDiesType DEF Produce
<1>2. ASSUME NEW j \in Jobs, Queue(j) \/ Cancel(j) PROVE TypeOK'
  BY <1>2, PromoteType, LockLostType, ReclaimType, DropFailedType, CancelReadType,
     CancelRemoveType, CancelMarkType, CancellerDiesType DEF Queue, Cancel
<1>3. ASSUME NEW j \in Jobs, LateTimeout(j) \/ LatePlan(j) \/ Age(j) \/ Wear(j) PROVE TypeOK'
  BY <1>3, LateTimeoutType, LatePlanType, AgeType, WearType
<1>4. ASSUME NEW w \in Workers, Work(w) PROVE TypeOK'
  BY <1>4, EntryType, CancelInactiveType, LoadPlanType, AdvanceReadType, AdvanceWriteType,
     NextPhaseType, EmptyDiffType, PrepareType, PrepareRefusedType, DeliverType,
     DeliverPendingType, FinishType, RecordType, CallFailsType, GiveUpType,
     CatchAbandonedType, CatchFinalType, CatchPermanentType, CatchTransientType,
     CatchPendingType, DelayType, DelayFailsType, AckType DEF Work
<1>5. ASSUME NEW w \in Workers, Deadline(w) \/ Heartbeat(w) \/ Crash(w) PROVE TypeOK'
  BY <1>5, DeadlineType, HeartbeatType, CrashType
<1>6. ASSUME NEW w \in Workers, NEW j \in Jobs, Pickup(w, j) PROVE TypeOK'
  BY <1>6, PickupType
<1>7. ASSUME NEW s \in Sweepers, SweepGoesOn(s) PROVE TypeOK'
  BY <1>7, SweepLookupType, SweepStateType, SweepStopType DEF SweepGoesOn
<1>8. ASSUME NEW s \in Sweepers, NEW j \in Jobs, SweepRow(s, j) \/ SettleFailed(s, j) PROVE TypeOK'
  BY <1>8, SweepRowType, SettleFailedType
<1>9. CASE Connection
  BY <1>9, DeactivateType, ListDisconnectedType, DisconnectDiesType, ReconnectType,
     CancelDisconnectedType DEF Connection
<1>10. CASE NextMonth
  BY <1>10, NextMonthType
<1>11. CASE UNCHANGED vars
  BY <1>11, StutterType
<1>12. QED
  BY <1>1, <1>2, <1>3, <1>4, <1>5, <1>6, <1>7, <1>8, <1>9, <1>10, <1>11 DEF Next

\* Every reachable state is typed: no attempt or sweep goes on without a job, and
\* no job is delayed beyond the delivery window.
THEOREM TypeCorrect == Spec => []TypeOK
<1>1. Init => TypeOK
  BY InitType
<1>2. TypeOK /\ [Next]_vars => TypeOK'
  BY NextType
<1>3. QED  BY <1>1, <1>2, PTL DEF Spec

-------------------------------------------------------------------------------
(* What a step may do *)

\* Row j changes its status and keeps its charge.
Move(j, s) == status' = [status EXCEPT ![j] = s] /\ UNCHANGED quota

\* Row j ends with status s, and its charge is returned.
End(j, s) == /\ status' = [status EXCEPT ![j] = s]
             /\ RefundReviewQuota(j)
             /\ UNCHANGED receipt

\* From phase to phase, s is not the earlier one.
Forward(j, s) == status[j] \in ReviewPhases /\ s \in ReviewPhases
                    => Rank(status[j]) <= Rank(s)

\* One open review moves on, completes on its charge, or ends and is refunded.
Transaction ==
    \/ UNCHANGED <<status, quota>>
    \/ \E j \in Jobs :
          /\ status[j] \in InProgress
          /\ \/ \E s \in InProgress : Move(j, s) /\ Forward(j, s)
             \/ receipt[j] # None /\ Move(j, "COMPLETED")
             \/ \E s \in Stopped : End(j, s)

\* No uncharged job enters the queue.
ChargedQueued == \A j \in Jobs : queue'[j] # "absent" => (queue[j] # "absent" \/ receipt[j] # None)

\* The worker stays with its job, leaves it, or takes one from the queue.
Follows(w, a) == /\ a.job # None => (a.job = att[w].job \/ queue[a.job] # "absent")
                 /\ a.pc = "write" => GoesForward(a)

\* All that a step of anyone but a producer does, as far as Linked can tell.
Effects == /\ UNCHANGED producer
           /\ Transaction
           /\ ChargedQueued
           /\ \A w \in Workers : Follows(w, att'[w])

-------------------------------------------------------------------------------
(* Ranks and statuses *)

\* The four phases are ranked 1 to 4, POSTING last.
LEMMA RankFacts == /\ \A p \in ReviewPhases : Rank(p) \in 1..4
                   /\ Rank("POSTING") = 4
<1>1. ASSUME NEW p \in ReviewPhases PROVE Rank(p) \in 1..4
  <2>1. \E i \in 1..4 : Phases[i] = p
    BY DEF ReviewPhases
  <2>2. QED  BY <2>1 DEF Rank
<1>2. \A i \in 1..4 : Phases[i] = "POSTING" <=> i = 4
  BY DEF Phases
<1>3. Rank("POSTING") = 4
  BY <1>2 DEF Rank
<1>4. QED  BY <1>1, <1>3

\* A status is of one kind only.
LEMMA Kinds == /\ InProgress \cap Terminal = {}
               /\ Stopped \subseteq Terminal
               /\ "COMPLETED" \notin Stopped /\ "COMPLETED" \notin InProgress
               /\ "ABSENT" \notin InProgress /\ "ABSENT" \notin Stopped
               /\ "COMPLETED" # "ABSENT"
BY DEF InProgress, ReviewPhases, Phases, Terminal, Stopped

-------------------------------------------------------------------------------
(* The building blocks of the actions *)

\* A refund writes nothing but the marker and the ledger of the receipt's month.
LEMMA PersistTransaction ==
    ASSUME TypeOK, NEW j \in Jobs, NEW s \in Stopped \cup {"RETRYING"}, PersistState(j, s)
    PROVE  Transaction
<1>1. CASE status[j] \in InProgress /\ s = "RETRYING"
  <2>1. Move(j, s) /\ s \in InProgress /\ Forward(j, s)
    BY <1>1 DEF PersistState, SetStatus, Move, quota, db, row, Forward, ReviewPhases, Phases, InProgress
  <2>2. QED  BY <1>1, <2>1 DEF Transaction
<1>2. CASE status[j] \in InProgress /\ s # "RETRYING"
  <2>1. End(j, s) /\ s \in Stopped
    BY <1>2 DEF PersistState, SetStatus, End, db, row
  <2>2. QED  BY <1>2, <2>1 DEF Transaction
<1>3. CASE status[j] \notin InProgress
  BY <1>3 DEF PersistState, Transaction, db, row
<1>4. QED  BY <1>1, <1>2, <1>3

\* Saving a plan moves an open review to POSTING, the last phase, or does nothing.
LEMMA SavePlanTransaction ==
    ASSUME TypeOK, NEW j \in Jobs, SavePlan(j) \/ UNCHANGED db
    PROVE  Transaction
<1>1. CASE UNCHANGED db
  BY <1>1 DEF Transaction, db, row
<1>2. CASE SavePlan(j) /\ plan' # plan
  <2>1. Move(j, "POSTING") /\ status[j] \in InProgress
    BY <1>2 DEF SavePlan, SetStatus, Move, db, row
  <2>2. "POSTING" \in InProgress /\ Forward(j, "POSTING")
    BY PhaseType, RankFacts DEF Forward
  <2>3. QED  BY <2>1, <2>2 DEF Transaction
<1>3. CASE SavePlan(j) /\ plan' = plan
  <2>1. plan[j]
    BY <1>3 DEF SavePlan, TypeOK, RowsOK
  <2>2. QED  BY <1>3, <2>1 DEF SavePlan, Transaction, db, row
<1>4. QED  BY <1>1, <1>2, <1>3

\* A worker that goes on, leaves its job or takes a queued one is all it takes.
LEMMA BecomesFollows ==
    ASSUME TypeOK, Linked, NEW w \in Workers, NEW a, Becomes(w, a), Follows(w, a)
    PROVE  \A v \in Workers : Follows(v, att'[v])
<1> SUFFICES ASSUME NEW v \in Workers PROVE Follows(v, att'[v])
  OBVIOUS
<1>1. CASE v = w
  BY <1>1 DEF Becomes, TypeOK, AttemptsOK
<1>2. CASE v # w
  BY <1>2 DEF Becomes, TypeOK, AttemptsOK, Follows, Linked
<1>3. QED  BY <1>1, <1>2

\* An attempt that keeps its job and is not about to write follows.
LEMMA StaysFollows ==
    ASSUME TypeOK, NEW w \in Workers
    PROVE  /\ \A a : a.job = att[w].job /\ a.pc # "write" => Follows(w, a)
           /\ \A a : a.job = None /\ a.pc = "idle" => Follows(w, a)
           /\ Follows(w, att[w]) \/ att[w].pc = "write"
BY DEF Follows

\* Goto, StartPhase, Throw and Exit keep the job.
LEMMA GotoFollows ==
    ASSUME TypeOK, Linked, NEW w \in Workers, NEW pc \in Places \ {"write"}, NEW phase, NEW why,
           \/ Goto(w, pc) \/ StartPhase(w, pc, phase) \/ Throw(w, why) \/ Exit(w, why)
    PROVE  \A v \in Workers : Follows(v, att'[v])
<1> USE DEF TypeOK, AttemptsOK, Attempts
<1>1. CASE Goto(w, pc)
  BY <1>1, BecomesFollows, StaysFollows DEF Goto
<1>2. CASE StartPhase(w, pc, phase)
  <2> DEFINE a == [att[w] EXCEPT !.pc = pc, !.phase = phase]
  <2>1. a.job = att[w].job /\ a.pc # "write"
    OBVIOUS
  <2>2. Follows(w, a)
    BY <2>1 DEF Follows
  <2>3. QED  BY <1>2, <2>2, BecomesFollows DEF StartPhase
<1>3. CASE Throw(w, why)
  <2> DEFINE a == [att[w] EXCEPT !.pc = "catch", !.phase = "FETCHING", !.seen = "ABSENT",
                                 !.why = IF att[w].superseded THEN "abandoned" ELSE why]
  <2>1. a.job = att[w].job /\ a.pc = "catch"
    OBVIOUS
  <2>2. Follows(w, a)
    BY <2>1 DEF Follows
  <2>3. QED  BY <1>3, <2>2, BecomesFollows DEF Throw
<1>4. CASE Exit(w, why)
  <2> DEFINE a == [IdleAttempt EXCEPT !.job = att[w].job, !.made = att[w].made,
                                      !.pc = "ack", !.why = why]
  <2>1. a.job = att[w].job /\ a.pc = "ack"
    BY DEF IdleAttempt
  <2>2. Follows(w, a)
    BY <2>1 DEF Follows
  <2>3. QED  BY <1>4, <2>2, BecomesFollows DEF Exit
<1>5. QED  BY <1>1, <1>2, <1>3, <1>4

\* Nobody runs anything new when no attempt changes.
LEMMA SameFollows ==
    ASSUME TypeOK, Linked, UNCHANGED att
    PROVE  \A v \in Workers : Follows(v, att'[v])
BY DEF Follows, Linked

-------------------------------------------------------------------------------
(* Every action but the producers' *)

\* A step of an attempt that touches neither row nor queue.
LEMMA QuietWork ==
    ASSUME TypeOK, Linked, NEW w \in Workers,
           \/ Entry(w) \/ LoadPlan(w) \/ NextPhase(w) \/ EmptyDiff(w) \/ PrepareRefused(w)
           \/ Deliver(w) \/ Finish(w) \/ CallFails(w) \/ GiveUp(w) \/ CatchAbandoned(w)
           \/ CatchPending(w) \/ Delay(w) \/ DelayFails(w) \/ DeliverPending(w)
    PROVE  Effects
<1> USE DEF Places
<1>1. UNCHANGED producer /\ Transaction /\ ChargedQueued
  BY DEF Entry, LoadPlan, NextPhase, EmptyDiff, PrepareRefused, Deliver, Finish, CallFails, GiveUp,
         CatchAbandoned, CatchPending, Delay, DelayFails, DeliverPending, Transaction, ChargedQueued,
         db, row, bull, users
<1>2. \A v \in Workers : Follows(v, att'[v])
  <2>1. CASE Entry(w)
    BY <2>1, GotoFollows DEF Entry
  <2>2. CASE LoadPlan(w)
    BY <2>2, GotoFollows DEF LoadPlan
  <2>3. CASE NextPhase(w)
    BY <2>3, GotoFollows DEF NextPhase
  <2>4. CASE EmptyDiff(w) \/ Deliver(w) \/ Finish(w)
    BY <2>4, GotoFollows DEF EmptyDiff, Deliver, Finish
  <2>5. CASE PrepareRefused(w) \/ CallFails(w) \/ GiveUp(w) \/ DeliverPending(w)
    BY <2>5, GotoFollows DEF PrepareRefused, CallFails, GiveUp, DeliverPending
  <2>6. CASE CatchAbandoned(w) \/ Delay(w) \/ DelayFails(w)
    BY <2>6, GotoFollows DEF CatchAbandoned, Delay, DelayFails
  <2>7. CASE CatchPending(w)
    BY <2>7, GotoFollows DEF CatchPending
  <2>8. QED  BY <2>1, <2>2, <2>3, <2>4, <2>5, <2>6, <2>7
<1>3. QED  BY <1>1, <1>2 DEF Effects

\* advanceReview reads a status that the phase it is about to write goes beyond.
LEMMA AdvanceReadEffects ==
    ASSUME TypeOK, Linked, NEW w \in Workers, AdvanceRead(w)
    PROVE  Effects
<1> DEFINE now == status[att[w].job]
           phase == att[w].phase
           a == [att[w] EXCEPT !.pc = "write", !.seen = now]
<1>0. att[w].job \in Jobs /\ phase \in ReviewPhases
  BY ActiveAttempt DEF AdvanceRead, At, TypeOK, AttemptsOK, Attempts
<1>1. UNCHANGED producer /\ Transaction /\ ChargedQueued
  BY DEF AdvanceRead, Transaction, ChargedQueued, db, row, bull, users
<1>2. CASE Goto(w, Advanced(w))
  BY <1>1, <1>2, GotoFollows DEF Advanced, Places, Effects
<1>3. CASE /\ Becomes(w, a)
           /\ ~(now \in ReviewPhases /\ Rank(phase) <= Rank(now))
           /\ now \notin Terminal
  <2>1. now # "ABSENT" /\ now \in Statuses
    BY <1>0, JobsAssumption DEF Linked, OnlyChargedWork, TypeOK, RowsOK, AttemptsOK
  <2>2. now \in InProgress
    BY <1>3, <2>1 DEF Statuses
  <2>3. now \in ReviewPhases => Rank(now) < Rank(phase)
    BY <1>0, <1>3, RankFacts
  <2>4. a.job = att[w].job /\ a.seen = now /\ a.phase = phase /\ a.pc = "write"
    BY DEF TypeOK, AttemptsOK, Attempts
  <2>5. Follows(w, a)
    BY <2>2, <2>3, <2>4 DEF Follows, GoesForward
  <2>6. QED  BY <1>1, <1>3, <2>5, BecomesFollows DEF Effects
<1>4. QED  BY <1>2, <1>3 DEF AdvanceRead

\* The compare-and-set writes the later phase, or nothing.
LEMMA AdvanceWriteEffects ==
    ASSUME TypeOK, Linked, NEW w \in Workers, AdvanceWrite(w)
    PROVE  Effects
<1> DEFINE j == att[w].job
           a == [att[w] EXCEPT !.pc = Advanced(w), !.seen = "ABSENT"]
<1>0. j \in Jobs /\ att[w].phase \in ReviewPhases /\ GoesForward(att[w])
  BY ActiveAttempt DEF AdvanceWrite, At, TypeOK, AttemptsOK, Attempts, Linked
<1>1. UNCHANGED producer /\ ChargedQueued
  BY DEF AdvanceWrite, ChargedQueued, bull, users
<1>2. Transaction
  <2>1. CASE status[j] = att[w].seen /\ Move(j, att[w].phase)
    <3>1. status[j] \in InProgress /\ att[w].phase \in InProgress
      BY <1>0, <2>1, PhaseType DEF GoesForward
    <3>2. Forward(j, att[w].phase)
      BY <1>0, <2>1, RankFacts DEF GoesForward, Forward
    <3>3. QED  BY <1>0, <2>1, <3>1, <3>2 DEF Transaction
  <2>2. CASE UNCHANGED db
    BY <2>2 DEF Transaction, db, row
  <2>3. QED  BY <2>1, <2>2 DEF AdvanceWrite, SetStatus, Move, quota
<1>3. \A v \in Workers : Follows(v, att'[v])
  <2>1. a.job = att[w].job /\ a.pc # "write"
    BY DEF Advanced, TypeOK, AttemptsOK, Attempts
  <2>2. Follows(w, a)
    BY <2>1 DEF Follows
  <2>3. QED  BY <2>2, BecomesFollows DEF AdvanceWrite
<1>4. QED  BY <1>1, <1>2, <1>3 DEF Effects

\* A catch clause that records how the attempt ended.
LEMMA EndingEffects ==
    ASSUME TypeOK, Linked, NEW w \in Workers,
           CancelInactive(w) \/ CatchFinal(w) \/ CatchPermanent(w) \/ CatchTransient(w)
    PROVE  Effects
<1> DEFINE j == att[w].job
<1>0. j \in Jobs
  BY ActiveAttempt DEF CancelInactive, CatchFinal, CatchPermanent, CatchTransient, At
<1>1. UNCHANGED producer /\ ChargedQueued
  BY DEF CancelInactive, CatchFinal, CatchPermanent, CatchTransient, ChargedQueued, bull, users
<1>2. Transaction
  <2>1. (\E s \in Stopped \cup {"RETRYING"} : PersistState(j, s)) \/ UNCHANGED db
    BY DEF CancelInactive, CatchFinal, CatchPermanent, CatchTransient, Stopped
  <2>2. QED  BY <1>0, <2>1, PersistTransaction DEF Transaction, db, row
<1>3. \A v \in Workers : Follows(v, att'[v])
  BY GotoFollows DEF CancelInactive, CatchFinal, CatchPermanent, CatchTransient, Places
<1>4. QED  BY <1>1, <1>2, <1>3 DEF Effects

\* The plan is saved by the attempt.
LEMMA PrepareEffects ==
    ASSUME TypeOK, Linked, NEW w \in Workers, Prepare(w)
    PROVE  Effects
<1>1. att[w].job \in Jobs
  BY ActiveAttempt DEF Prepare, At
<1>2. UNCHANGED producer /\ Transaction /\ ChargedQueued
  BY <1>1, SavePlanTransaction DEF Prepare, ChargedQueued, bull, users
<1>3. \A v \in Workers : Follows(v, att'[v])
  BY GotoFollows DEF Prepare, Places
<1>4. QED  BY <1>2, <1>3 DEF Effects

\* Completion: of an open, charged review, or again of a completed one.
LEMMA RecordEffects ==
    ASSUME TypeOK, Linked, NEW w \in Workers, Record(w)
    PROVE  Effects
<1> DEFINE j == att[w].job
<1>0. j \in Jobs /\ receipt[j] # None /\ status[j] # "ABSENT" /\ status[j] \in Statuses
  BY ActiveAttempt, JobsAssumption DEF Record, At, Linked, OnlyChargedWork, TypeOK, RowsOK, AttemptsOK
<1>1. UNCHANGED producer /\ ChargedQueued
  BY DEF Record, ChargedQueued, bull, users
<1>2. Transaction
  <2>1. CASE status[j] \notin Stopped /\ Move(j, "COMPLETED")
    <3>1. CASE status[j] = "COMPLETED"
      BY <2>1, <3>1 DEF Move, Transaction, TypeOK, RowsOK, quota
    <3>2. CASE status[j] # "COMPLETED"
      <4>1. status[j] \in InProgress
        BY <1>0, <2>1, <3>2 DEF Statuses, Terminal
      <4>2. QED  BY <1>0, <2>1, <4>1 DEF Transaction
    <3>3. QED  BY <3>1, <3>2
  <2>2. CASE UNCHANGED db
    BY <2>2 DEF Transaction, db, row
  <2>3. QED  BY <2>1, <2>2 DEF Record, SetStatus, Move, quota
<1>3. \A v \in Workers : Follows(v, att'[v])
  BY GotoFollows DEF Record, Places
<1>4. QED  BY <1>1, <1>2, <1>3 DEF Effects

\* A worker that takes a job from the queue, or gives one up.
LEMMA QueueWorkEffects ==
    ASSUME TypeOK, Linked, NEW w \in Workers,
           Ack(w) \/ Crash(w) \/ Deadline(w) \/ \E j \in Jobs : Pickup(w, j)
    PROVE  Effects
<1> USE DEF TypeOK
<1>1. UNCHANGED producer /\ Transaction
  BY DEF Ack, Crash, Deadline, Pickup, Transaction, db, row, users
<1>2. CASE Ack(w)
  <2>1. att[w].job \in Jobs /\ receipt[att[w].job] # None
    BY <1>2, ActiveAttempt, JobsAssumption DEF Ack, At, Linked, OnlyChargedWork
  <2>2. Follows(w, IdleAttempt)
    BY DEF Follows, IdleAttempt
  <2>3. \A v \in Workers : Follows(v, att'[v])
    BY <1>2, <2>2, BecomesFollows DEF Ack
  <2>4. QED  BY <1>1, <1>2, <2>1, <2>3 DEF Ack, Effects, ChargedQueued, Forget, QueueOK
<1>3. CASE Crash(w)
  <2>1. Follows(w, IdleAttempt)
    BY DEF Follows, IdleAttempt
  <2>2. \A v \in Workers : Follows(v, att'[v])
    BY <1>3, <2>1, BecomesFollows DEF Crash
  <2>3. QED  BY <1>1, <1>3, <2>2 DEF Crash, Effects, ChargedQueued
<1>4. CASE Deadline(w)
  <2> DEFINE a == [att[w] EXCEPT !.superseded = TRUE]
  <2>1. a.job = att[w].job /\ a.pc = att[w].pc /\ a.seen = att[w].seen /\ a.phase = att[w].phase
    BY DEF AttemptsOK, Attempts
  <2>2. Follows(w, a)
    BY <2>1 DEF Follows, GoesForward, Linked
  <2>3. \A v \in Workers : Follows(v, att'[v])
    BY <1>4, <2>2, BecomesFollows DEF Deadline
  <2>4. QED  BY <1>1, <1>4, <2>3 DEF Deadline, Effects, ChargedQueued, bull
<1>5. ASSUME NEW j \in Jobs, Pickup(w, j) PROVE Effects
  <2> DEFINE a == [IdleAttempt EXCEPT !.job = j, !.pc = "entry", !.made = made[j]]
  <2>1. a.job = j /\ a.pc = "entry"
    BY DEF IdleAttempt
  <2>2. Follows(w, a)
    BY <1>5, <2>1 DEF Follows, Pickup
  <2>3. \A v \in Workers : Follows(v, att'[v])
    BY <1>5, <2>2, BecomesFollows DEF Pickup
  <2>4. QED  BY <1>1, <1>5, <2>3 DEF Pickup, Effects, ChargedQueued, QueueOK
<1>6. QED  BY <1>2, <1>3, <1>4, <1>5

\* A sweep, a request or the clock that writes no row.
LEMMA QuietEffects ==
    ASSUME TypeOK, Linked, UNCHANGED <<producer, status, quota, att>>, ChargedQueued
    PROVE  Effects
BY SameFollows DEF Effects, Transaction

\* The same, for a step that moves or ends one review.
LEMMA RowEffects ==
    ASSUME TypeOK, Linked, UNCHANGED <<producer, queue, att>>, Transaction
    PROVE  Effects
BY SameFollows DEF Effects, ChargedQueued

\* The queue, the cancel request and the age of a job.
LEMMA RequestEffects ==
    ASSUME TypeOK, Linked, NEW j \in Jobs, Queue(j) \/ Cancel(j) \/ Age(j) \/ Wear(j)
    PROVE  Effects
<1> USE DEF ChargedQueued, db, row, bull, users, TypeOK, QueueOK
<1>1. CASE Queue(j)
  BY <1>1, QuietEffects DEF Queue, Promote, LockLost, Reclaim, DropFailed, Forget
<1>2. CASE CancelRead(j) \/ CancelRemove(j) \/ CancellerDies(j)
  BY <1>2, QuietEffects DEF CancelRead, CancelRemove, CancellerDies, Forget
<1>3. CASE CancelMark(j)
  BY <1>3, PersistTransaction, RowEffects DEF CancelMark, Stopped
<1>4. CASE Age(j) \/ Wear(j)
  BY <1>4, QuietEffects DEF Age, Wear
<1>5. QED  BY <1>1, <1>2, <1>3, <1>4 DEF Cancel

\* The disconnect request and the calendar.
LEMMA ConnectionEffects ==
    ASSUME TypeOK, Linked, Connection \/ NextMonth
    PROVE  Effects
<1> USE DEF ChargedQueued, db, row
<1>1. CASE Deactivate \/ ListDisconnected \/ DisconnectDies \/ Reconnect \/ NextMonth
  BY <1>1, QuietEffects DEF Deactivate, ListDisconnected, DisconnectDies, Reconnect, NextMonth, bull
<1>2. ASSUME NEW j \in Jobs, CancelDisconnected(j) PROVE Effects
  BY <1>2, PersistTransaction, RowEffects DEF CancelDisconnected, Stopped, bull
<1>3. QED  BY <1>1, <1>2 DEF Connection

\* Writes nobody waits for, the heartbeat and the sweeps.
LEMMA BackgroundEffects ==
    ASSUME TypeOK, Linked,
           \/ \E j \in Jobs : LateTimeout(j) \/ LatePlan(j)
           \/ \E w \in Workers : Heartbeat(w)
           \/ \E s \in Sweepers : SweepGoesOn(s)
           \/ \E s \in Sweepers, j \in Jobs : SweepRow(s, j) \/ SettleFailed(s, j)
    PROVE  Effects
<1> USE DEF db, row, bull, users
<1>1. ASSUME NEW j \in Jobs, LateTimeout(j) PROVE Effects
  <2>1. PersistState(j, "TIMEOUT") \/ UNCHANGED <<status, quota>>
    BY <1>1 DEF LateTimeout
  <2>2. Transaction
    BY <2>1, PersistTransaction DEF Stopped, Transaction
  <2>3. QED  BY <1>1, <2>2, RowEffects DEF LateTimeout
<1>2. ASSUME NEW j \in Jobs, LatePlan(j) PROVE Effects
  BY <1>2, SavePlanTransaction, RowEffects DEF LatePlan
<1>3. ASSUME NEW w \in Workers, Heartbeat(w) PROVE Effects
  BY <1>3, QuietEffects DEF Heartbeat, ChargedQueued
<1>4. ASSUME NEW s \in Sweepers, SweepLookup(s) \/ SweepState(s) PROVE Effects
  BY <1>4, QuietEffects DEF SweepLookup, SweepState, ChargedQueued
<1>5. ASSUME NEW s \in Sweepers, SweepStop(s) PROVE Effects
  <2> DEFINE j == sweep[s].job
  <2>1. j \in Jobs /\ sweep[s].verdict \in Stopped
    BY <1>5, ActiveSweep DEF SweepStop, TypeOK, SweepsOK, Sweeps, Stopped
  <2>2. CASE status[j] \in InProgress /\ End(j, sweep[s].verdict)
    <3>1. Transaction
      BY <2>1, <2>2 DEF Transaction
    <3>2. QED  BY <1>5, <3>1, RowEffects DEF SweepStop
  <2>3. CASE UNCHANGED row
    BY <1>5, <2>3, QuietEffects DEF SweepStop, ChargedQueued
  <2>4. QED  BY <1>5, <2>2, <2>3 DEF SweepStop, End
<1>6. ASSUME NEW s \in Sweepers, NEW j \in Jobs, SweepRow(s, j) \/ SettleFailed(s, j) PROVE Effects
  BY <1>6, QuietEffects DEF SweepRow, SettleFailed, ChargedQueued
<1>7. QED  BY <1>1, <1>2, <1>3, <1>4, <1>5, <1>6 DEF SweepGoesOn

\* Whatever is not a producer's step has Effects.
LEMMA StepEffects ==
    ASSUME TypeOK, Linked, [Next]_vars
    PROVE  Effects \/ \E j \in Jobs : Produce(j)
<1>1. ASSUME NEW w \in Workers, Work(w) PROVE Effects
  BY <1>1, QuietWork, AdvanceReadEffects, AdvanceWriteEffects, EndingEffects, PrepareEffects,
     RecordEffects, QueueWorkEffects DEF Work
<1>2. ASSUME NEW w \in Workers, Deadline(w) \/ Heartbeat(w) \/ Crash(w) PROVE Effects
  BY <1>2, QueueWorkEffects, BackgroundEffects
<1>3. ASSUME NEW j \in Jobs, Queue(j) \/ Cancel(j) \/ Age(j) \/ Wear(j) PROVE Effects
  BY <1>3, RequestEffects
<1>4. ASSUME NEW w \in Workers, NEW j \in Jobs, Pickup(w, j) PROVE Effects
  BY <1>4, QueueWorkEffects
<1>5. CASE Connection \/ NextMonth
  BY <1>5, ConnectionEffects
<1>6. CASE UNCHANGED vars
  BY <1>6, QuietEffects DEF vars, db, row, bull, users, ChargedQueued
<1>7. QED
  BY <1>1, <1>2, <1>3, <1>4, <1>5, <1>6, BackgroundEffects DEF Next

-------------------------------------------------------------------------------
(* The inductive invariant *)

\* A step with Effects keeps the row, its charge, its producer and its workers linked.
LEMMA EffectsLinked ==
    ASSUME TypeOK, TypeOK', Linked, Effects
    PROVE  Linked'
<1> USE DEF TypeOK, RowsOK
<1> DEFINE Kept == \A j \in Jobs : /\ receipt'[j] = receipt[j]
                                   /\ status[j] = "ABSENT" <=> status'[j] = "ABSENT"
                                   /\ status'[j] = "COMPLETED" => receipt[j] # None
                                   /\ refunded'[j] => (receipt[j] # None /\ status'[j] \in Stopped)
                                   /\ (receipt[j] # None /\ status'[j] \in Stopped) => refunded'[j]
<1>1. Kept
  <2>1. CASE UNCHANGED <<status, quota>>
    BY <2>1 DEF quota, Linked, ChargeFollowsOutcome, OnlyChargedWork
  <2>2. ASSUME NEW i \in Jobs, NEW s \in InProgress, Move(i, s), status[i] \in InProgress
        PROVE  Kept
    BY <2>2, Kinds DEF Move, quota, Linked, ChargeFollowsOutcome, OnlyChargedWork
  <2>3. ASSUME NEW i \in Jobs, receipt[i] # None, Move(i, "COMPLETED"), status[i] \in InProgress
        PROVE  Kept
    BY <2>3, Kinds DEF Move, quota, Linked, ChargeFollowsOutcome, OnlyChargedWork
  <2>4. ASSUME NEW i \in Jobs, NEW s \in Stopped, End(i, s), status[i] \in InProgress
        PROVE  Kept
    BY <2>4, Kinds DEF End, RefundReviewQuota, Linked, ChargeFollowsOutcome, OnlyChargedWork
  <2>5. QED  BY <2>1, <2>2, <2>3, <2>4 DEF Effects, Transaction
<1>2. \A j \in Jobs : queue'[j] # "absent" => receipt'[j] # None
  BY <1>1 DEF Effects, ChargedQueued, Linked, OnlyChargedWork
<1>3. \A w \in Workers : att'[w].job # None => receipt'[att'[w].job] # None
  <2>1. \A w \in Workers : att'[w].job # None => att'[w].job \in Jobs
    BY DEF AttemptsOK, Attempts
  <2>2. QED  BY <1>1, <2>1 DEF Effects, Follows, Linked, OnlyChargedWork
<1>4. \A w \in Workers : att'[w].pc = "write" => GoesForward(att[w])'
  BY DEF Effects, Follows, GoesForward
<1>5. QED
  BY <1>1, <1>2, <1>3, <1>4 DEF Effects, Linked, OnlyChargedWork, ChargeFollowsOutcome

\* A producer writes only the row it creates, before any worker knows of it.
LEMMA ProduceLinked ==
    ASSUME TypeOK, TypeOK', Linked, NEW j \in Jobs, Produce(j)
    PROVE  Linked'
<1> USE DEF TypeOK, RowsOK, RequestsOK, Linked, OnlyChargedWork, ChargeFollowsOutcome
<1>0. UNCHANGED att
  BY DEF Produce, Receive, InsertSkipped, Insert, Reserve, SkipDenied, Enqueue, ProducerDies
<1>1. \A w \in Workers : /\ att[w].job # None => att[w].job \in Jobs
                         /\ GoesForward(att[w])' = GoesForward(att[w])
  BY <1>0 DEF AttemptsOK, Attempts, GoesForward
<1>2. CASE Receive(j) \/ ProducerDies(j)
  BY <1>0, <1>1, <1>2 DEF Receive, ProducerDies, db, row, quota, bull
<1>3. CASE InsertSkipped(j)
  BY <1>0, <1>1, <1>3, Kinds DEF InsertSkipped, SetStatus, quota, bull, Stopped
<1>4. CASE Insert(j)
  BY <1>0, <1>1, <1>4, Kinds DEF Insert, SetStatus, quota, bull, InProgress, Terminal
<1>5. CASE Reserve(j)
  <2>1. CASE UNCHANGED db
    BY <1>0, <1>1, <1>5, <2>1 DEF Reserve, db, row, quota, bull
  <2>2. CASE /\ receipt' = [receipt EXCEPT ![j] = month]
             /\ status[j] \in InProgress
             /\ producer' = [producer EXCEPT ![j] = "charged"]
             /\ UNCHANGED <<status, refunded, queue>>
    <3>1. month # None /\ receipt[j] = None /\ ~refunded[j]
      BY <1>5, JobsAssumption, BoundsAssumption DEF Reserve, Months
    <3>2. status[j] # "ABSENT" /\ status[j] \notin Stopped
      BY <2>2, Kinds
    <3>3. \A i \in Jobs : receipt[i] # None => receipt'[i] # None
      BY <2>2, <3>1
    <3>4. QED  BY <1>0, <1>1, <2>2, <3>1, <3>2, <3>3
  <2>3. QED  BY <1>5, <2>1, <2>2 DEF Reserve, bull
<1>6. CASE SkipDenied(j)
  BY <1>0, <1>1, <1>6, Kinds DEF SkipDenied, SetStatus, quota, bull, Stopped
<1>7. CASE Enqueue(j)
  BY <1>0, <1>1, <1>7 DEF Enqueue, db, row, quota, QueueOK
<1>8. QED  BY <1>2, <1>3, <1>4, <1>5, <1>6, <1>7 DEF Produce

\* Nothing exists, so nothing is charged, queued or run.
LEMMA InitLinked == ASSUME Init PROVE Linked
BY IdleAttemptType, Kinds DEF Init, Linked, OnlyChargedWork, ChargeFollowsOutcome

\* The producer's progress determines whether a row exists and is charged, a
\* worker about to write a phase goes forward, only charged reviews are queued,
\* run or completed, and a refund goes with a stop: always.
THEOREM LinkedHolds == Spec => []Linked
<1>1. Init => Linked
  BY InitLinked
<1>2. TypeOK /\ TypeOK' /\ Linked /\ [Next]_vars => Linked'
  BY StepEffects, EffectsLinked, ProduceLinked
<1>3. QED  BY <1>1, <1>2, TypeCorrect, PTL DEF Spec

\* A charged review gives its slot back exactly when it ends without completing,
\* whichever of worker, recovery, cancel or disconnect ends it.
THEOREM ChargeFollows == Spec => []ChargeFollowsOutcome
<1>1. Linked => ChargeFollowsOutcome
  BY DEF Linked
<1>2. QED  BY <1>1, LinkedHolds, PTL

\* Nothing is queued, run or completed that was not charged.
THEOREM WorkIsCharged == Spec => []OnlyChargedWork
<1>1. Linked => OnlyChargedWork
  BY DEF Linked
<1>2. QED  BY <1>1, LinkedHolds, PTL

-------------------------------------------------------------------------------
(* Phases *)

\* The action of PhaseMonotone.
NoPhaseBack == \A j \in Jobs : status[j] \in ReviewPhases /\ status'[j] \in ReviewPhases
                                  => Rank(status[j]) <= Rank(status'[j])

\* A move of one review goes forward; the others keep their phase.
LEMMA EffectsForward ==
    ASSUME TypeOK, Linked, Effects
    PROVE  NoPhaseBack
<1> SUFFICES ASSUME NEW j \in Jobs, status[j] \in ReviewPhases, status'[j] \in ReviewPhases
             PROVE  Rank(status[j]) <= Rank(status'[j])
  BY DEF NoPhaseBack
<1>1. Rank(status[j]) <= Rank(status[j])
  BY RankFacts
<1>2. CASE status'[j] = status[j]
  BY <1>1, <1>2
<1>3. CASE status'[j] # status[j]
  <2>1. PICK i \in Jobs : /\ status[i] \in InProgress
                          /\ \/ \E s \in InProgress : Move(i, s) /\ Forward(i, s)
                             \/ Move(i, "COMPLETED")
                             \/ \E s \in Stopped : End(i, s)
    BY <1>3 DEF Effects, Transaction
  <2>2. i = j
    BY <1>3, <2>1 DEF TypeOK, RowsOK, Move, End
  <2>3. ReviewPhases \cap (Stopped \cup {"COMPLETED"}) = {}
    BY DEF ReviewPhases, Phases, Stopped
  <2>4. PICK s \in InProgress : Move(j, s) /\ Forward(j, s)
    BY <2>1, <2>2, <2>3 DEF TypeOK, RowsOK, Move, End
  <2>5. status'[j] = s
    BY <2>4 DEF Move, TypeOK, RowsOK
  <2>6. QED  BY <2>4, <2>5 DEF Forward
<1>4. QED  BY <1>2, <1>3

\* A producer writes no phase.
LEMMA ProduceForward ==
    ASSUME TypeOK, Linked, NEW i \in Jobs, Produce(i)
    PROVE  NoPhaseBack
<1> SUFFICES ASSUME NEW j \in Jobs, status[j] \in ReviewPhases, status'[j] \in ReviewPhases
             PROVE  Rank(status[j]) <= Rank(status'[j])
  BY DEF NoPhaseBack
<1>1. status'[j] = status[j] \/ status'[j] \in {"QUEUED", "SKIPPED"}
  BY DEF Produce, Receive, InsertSkipped, Insert, Reserve, SkipDenied, Enqueue, ProducerDies,
         SetStatus, db, row, TypeOK, RowsOK
<1>2. "QUEUED" \notin ReviewPhases /\ "SKIPPED" \notin ReviewPhases
  BY DEF ReviewPhases, Phases
<1>3. QED  BY <1>1, <1>2, RankFacts

\* Overlapping attempts, late writes and recovery never show a user an earlier
\* phase after a later one (job-state advanceReview).
THEOREM PhasesGoForward == Spec => PhaseMonotone
<1>1. TypeOK /\ Linked /\ [Next]_vars => [NoPhaseBack]_vars
  BY StepEffects, EffectsForward, ProduceForward
<1>2. QED
  BY <1>1, TypeCorrect, LinkedHolds, PTL DEF Spec, PhaseMonotone, NoPhaseBack

-------------------------------------------------------------------------------
(* The contract *)

\* The refinement mapping of ReviewLifecycle!C, by name.
Outcome == [j \in Jobs |-> IF status[j] = "ABSENT" THEN "absent"
                           ELSE IF status[j] = "COMPLETED" THEN "completed"
                           ELSE IF status[j] \in Stopped THEN "stopped" ELSE "open"]
ChargeOf == [j \in Jobs |-> IF receipt[j] = None THEN "none"
                            ELSE IF refunded[j] THEN "returned" ELSE "held"]

\* A step with Effects completes or stops one review of the contract, or none.
LEMMA EffectsKeep ==
    ASSUME TypeOK, TypeOK', Linked, Effects
    PROVE  C!CNext \/ UNCHANGED C!cvars
<1> USE DEF TypeOK, RowsOK
<1>1. CASE UNCHANGED <<status, quota>>
  BY <1>1 DEF quota, C!cvars
<1>2. ASSUME NEW j \in Jobs, status[j] \in InProgress, NEW s \in InProgress, Move(j, s)
      PROVE  UNCHANGED C!cvars
  <2>1. Outcome' = Outcome
    BY <1>2, Kinds DEF Move, Outcome
  <2>2. ChargeOf' = ChargeOf
    BY <1>2 DEF Move, quota, ChargeOf
  <2>3. QED  BY <2>1, <2>2 DEF C!cvars, Outcome, ChargeOf
<1>3. ASSUME NEW j \in Jobs, status[j] \in InProgress, receipt[j] # None, Move(j, "COMPLETED")
      PROVE  C!Complete(j)
  <2>1. Outcome[j] = "open" /\ ChargeOf[j] = "held"
    BY <1>3, Kinds DEF Outcome, ChargeOf, Linked, ChargeFollowsOutcome
  <2>2. Outcome' = [Outcome EXCEPT ![j] = "completed"]
    BY <1>3, Kinds DEF Move, Outcome
  <2>3. ChargeOf' = ChargeOf
    BY <1>3 DEF Move, quota, ChargeOf
  <2>4. QED  BY <2>1, <2>2, <2>3 DEF C!Complete, Outcome, ChargeOf
<1>4. ASSUME NEW j \in Jobs, status[j] \in InProgress, NEW s \in Stopped, End(j, s)
      PROVE  C!Stop(j)
  <2>1. Outcome[j] = "open"
    BY <1>4, Kinds DEF Outcome
  <2>2. Outcome' = [Outcome EXCEPT ![j] = "stopped"]
    BY <1>4, Kinds DEF End, Outcome
  <2>3. ChargeOf' = [ChargeOf EXCEPT ![j] = IF @ = "held" THEN "returned" ELSE @]
    BY <1>4 DEF End, RefundReviewQuota, ChargeOf
  <2>4. QED  BY <2>1, <2>2, <2>3 DEF C!Stop, Outcome, ChargeOf
<1>5. QED
  BY <1>1, <1>2, <1>3, <1>4 DEF Effects, Transaction, C!CNext

\* A producer opens, refuses, charges or (denied) stops its review, or changes
\* nothing the contract sees.
LEMMA ProduceKeeps ==
    ASSUME TypeOK, TypeOK', Linked, NEW j \in Jobs, Produce(j)
    PROVE  C!CNext \/ UNCHANGED C!cvars
<1> USE DEF TypeOK, RowsOK, RequestsOK
<1>1. CASE Receive(j) \/ Enqueue(j) \/ ProducerDies(j)
  BY <1>1 DEF Receive, Enqueue, ProducerDies, db, row, quota, C!cvars
<1>2. CASE InsertSkipped(j)
  <2>1. Outcome[j] = "absent" /\ UNCHANGED quota /\ status' = [status EXCEPT ![j] = "SKIPPED"]
    BY <1>2 DEF InsertSkipped, SetStatus, Outcome, Linked
  <2>2. Outcome' = [Outcome EXCEPT ![j] = "stopped"] /\ ChargeOf' = ChargeOf
    BY <2>1, Kinds DEF Outcome, ChargeOf, quota, Stopped
  <2>3. C!Refuse(j)
    BY <2>1, <2>2 DEF C!Refuse, Outcome, ChargeOf
  <2>4. QED  BY <2>3 DEF C!CNext
<1>3. CASE Insert(j)
  <2>1. Outcome[j] = "absent" /\ UNCHANGED quota /\ status' = [status EXCEPT ![j] = "QUEUED"]
    BY <1>3 DEF Insert, SetStatus, Outcome, Linked
  <2>2. Outcome' = [Outcome EXCEPT ![j] = "open"] /\ ChargeOf' = ChargeOf
    BY <2>1, Kinds DEF Outcome, ChargeOf, quota, Stopped
  <2>3. C!Open(j)
    BY <2>1, <2>2 DEF C!Open, Outcome, ChargeOf
  <2>4. QED  BY <2>3 DEF C!CNext
<1>4. CASE Reserve(j)
  <2>1. CASE UNCHANGED db
    BY <2>1 DEF db, row, quota, C!cvars
  <2>2. CASE /\ status[j] \in InProgress
             /\ receipt' = [receipt EXCEPT ![j] = month]
             /\ UNCHANGED <<status, refunded>>
    <3>1. Outcome[j] = "open" /\ ChargeOf[j] = "none" /\ ~refunded[j] /\ month # None
      BY <1>4, <2>2, Kinds, JobsAssumption, BoundsAssumption
         DEF Reserve, Outcome, ChargeOf, Linked, ChargeFollowsOutcome, Months
    <3>2. Outcome' = Outcome
      BY <2>2 DEF Outcome
    <3>3. ChargeOf' = [ChargeOf EXCEPT ![j] = "held"]
      <4>1. ChargeOf'[j] = "held"
        BY <2>2, <3>1 DEF ChargeOf
      <4>2. ASSUME NEW i \in Jobs, i # j PROVE ChargeOf'[i] = ChargeOf[i]
        BY <2>2, <4>2 DEF ChargeOf
      <4>3. QED  BY <4>1, <4>2 DEF ChargeOf
    <3>4. C!Charge(j)
      BY <3>1, <3>2, <3>3 DEF C!Charge, Outcome, ChargeOf
    <3>5. QED  BY <3>4 DEF C!CNext
  <2>3. QED  BY <1>4, <2>1, <2>2 DEF Reserve
<1>5. CASE SkipDenied(j)
  <2>1. /\ status[j] \notin {"ABSENT", "COMPLETED"} /\ receipt[j] = None
        /\ UNCHANGED quota /\ status' = [status EXCEPT ![j] = "SKIPPED"]
    BY <1>5 DEF SkipDenied, SetStatus, Linked, OnlyChargedWork
  <2>2. /\ Outcome[j] \in {"open", "stopped"} /\ ChargeOf[j] = "none"
        /\ Outcome' = [Outcome EXCEPT ![j] = "stopped"] /\ ChargeOf' = ChargeOf
    BY <2>1, Kinds DEF Outcome, ChargeOf, quota, Stopped
  <2>3. CASE Outcome[j] = "stopped"
    <3>1. Outcome' = Outcome
      BY <2>2, <2>3 DEF Outcome
    <3>2. QED  BY <2>2, <3>1 DEF C!cvars, Outcome, ChargeOf
  <2>4. CASE Outcome[j] = "open"
    <3>1. ChargeOf' = [ChargeOf EXCEPT ![j] = IF @ = "held" THEN "returned" ELSE @]
      BY <2>2 DEF ChargeOf
    <3>2. C!Stop(j)
      BY <2>2, <2>4, <3>1 DEF C!Stop, Outcome, ChargeOf
    <3>3. QED  BY <3>2 DEF C!CNext
  <2>5. QED  BY <2>2, <2>3, <2>4
<1>6. QED  BY <1>1, <1>2, <1>3, <1>4, <1>5 DEF Produce

\* Whatever the interleaving, the row implements ReviewContract: a review is
\* charged at most once, ends at most once, completes only on its charge, and a
\* stop returns the charge in the same step.
THEOREM RowKeepsContract == Spec => KeepsContract
<1>1. Init => C!CInit
  BY DEF Init, C!CInit
<1>2. TypeOK /\ TypeOK' /\ Linked /\ [Next]_vars => [C!CNext]_(C!cvars)
  BY StepEffects, EffectsKeep, ProduceKeeps
<1>3. QED
  BY <1>1, <1>2, TypeCorrect, LinkedHolds, PTL DEF Spec, KeepsContract, C!Safety

-------------------------------------------------------------------------------
(* The ledger *)

\* What the theorem says of the ledger.
Ledger == QuotaConserved /\ LimitRespected

\* The reviews holding a slot are finitely many.
LEMMA HoldingFinite ==
    ASSUME NEW m
    PROVE  IsFiniteSet(Holding(m)) /\ Cardinality(Holding(m)) \in Nat
<1>1. Holding(m) \in SUBSET Jobs
  BY DEF Holding
<1>2. QED  BY <1>1, JobsAssumption, FS_Subset, FS_CardinalityType

\* A step that writes no receipt, marker or ledger keeps the count.
LEMMA SameLedger ==
    ASSUME Ledger, UNCHANGED quota
    PROVE  Ledger'
BY DEF Ledger, QuotaConserved, LimitRespected, Holding, quota

\* The refund takes one review and one slot off the same month.
LEMMA RefundLedger ==
    ASSUME TypeOK, Ledger, NEW j \in Jobs, RefundReviewQuota(j), UNCHANGED receipt
    PROVE  Ledger'
<1> USE DEF TypeOK, RowsOK
<1>1. CASE receipt[j] # None /\ ~refunded[j]
  <2>0. PICK n \in Months : n = receipt[j]
    BY <1>1
  <2>1. /\ j \in Holding(n)
        /\ refunded' = [refunded EXCEPT ![j] = TRUE]
        /\ ledger' = [ledger EXCEPT ![n] = IF @ > 0 THEN @ - 1 ELSE @]
    BY <1>1, <2>0 DEF RefundReviewQuota, Holding
  <2>2. ASSUME NEW m \in Months, m # n
        PROVE  ledger'[m] = ledger[m] /\ Holding(m)' = Holding(m)
    BY <2>1, <2>2 DEF Holding
  <2>3. Holding(n)' = Holding(n) \ {j}
    BY <2>1 DEF Holding
  <2>4. Cardinality(Holding(n)') = Cardinality(Holding(n)) - 1
    BY <2>1, <2>3, HoldingFinite, FS_RemoveElement
  <2>5. Cardinality(Holding(n)') \in Nat /\ ledger[n] = Cardinality(Holding(n))
    BY <2>1, <2>3, HoldingFinite, FS_RemoveElement, FS_CardinalityType DEF Ledger, QuotaConserved
  <2>6. ledger'[n] = ledger[n] - 1 /\ ledger[n] \in Nat
    BY <2>1, <2>4, <2>5, HoldingFinite
  <2>7. QED
    BY <2>2, <2>4, <2>5, <2>6, BoundsAssumption DEF Ledger, QuotaConserved, LimitRespected
<1>2. CASE ~(receipt[j] # None /\ ~refunded[j])
  BY <1>2, SameLedger DEF RefundReviewQuota, quota
<1>3. QED  BY <1>1, <1>2

\* A reservation adds one review and one slot to the current month, below the limit.
LEMMA ReserveLedger ==
    ASSUME TypeOK, Linked, Ledger, NEW j \in Jobs, Reserve(j)
    PROVE  Ledger'
<1> USE DEF TypeOK, RowsOK, RequestsOK
<1>1. CASE UNCHANGED db
  BY <1>1, SameLedger DEF db, row
<1>2. CASE /\ ledger[month] < Limit
           /\ receipt' = [receipt EXCEPT ![j] = month]
           /\ ledger' = [ledger EXCEPT ![month] = @ + 1]
           /\ UNCHANGED refunded
  <2>0. PICK n \in Months : n = month
    OBVIOUS
  <2>1. n # None /\ receipt[j] = None /\ ~refunded[j]
    BY <1>2, <2>0, JobsAssumption, BoundsAssumption
       DEF Reserve, Linked, ChargeFollowsOutcome, Months
  <2>2. ASSUME NEW m \in Months, m # n
        PROVE  ledger'[m] = ledger[m] /\ Holding(m)' = Holding(m)
    BY <1>2, <2>0, <2>1, <2>2, JobsAssumption, BoundsAssumption DEF Holding, Months
  <2>3. j \notin Holding(n) /\ Holding(n)' = Holding(n) \cup {j}
    BY <1>2, <2>0, <2>1 DEF Holding
  <2>4. Cardinality(Holding(n)') = Cardinality(Holding(n)) + 1
    BY <2>3, HoldingFinite, FS_AddElement
  <2>5. ledger'[n] = ledger[n] + 1 /\ ledger[n] \in Nat /\ ledger[n] < Limit
    BY <1>2, <2>0
  <2>6. QED
    BY <2>2, <2>4, <2>5, BoundsAssumption DEF Ledger, QuotaConserved, LimitRespected
<1>3. QED  BY <1>1, <1>2 DEF Reserve

\* The other steps write the ledger through a refund, or not at all.
LEMMA NextLedger ==
    ASSUME TypeOK, Linked, Ledger, [Next]_vars
    PROVE  Ledger'
<1>1. CASE Effects
  <2>1. UNCHANGED quota \/ \E j \in Jobs : RefundReviewQuota(j) /\ UNCHANGED receipt
    BY <1>1 DEF Effects, Transaction, Move, End, quota
  <2>2. QED  BY <2>1, SameLedger, RefundLedger
<1>2. ASSUME NEW j \in Jobs, Produce(j) PROVE Ledger'
  <2>1. CASE Reserve(j)
    BY <2>1, ReserveLedger
  <2>2. CASE ~Reserve(j)
    BY <1>2, <2>2, SameLedger DEF Produce, Receive, InsertSkipped, Insert, SkipDenied, Enqueue,
       ProducerDies, db, row
  <2>3. QED  BY <2>1, <2>2
<1>3. QED  BY <1>1, <1>2, StepEffects

\* Both conditions hold of the empty ledger.
LEMMA InitLedger == ASSUME Init PROVE Ledger
<1>1. \A m \in Months : Holding(m) = {} /\ ledger[m] = 0
  BY JobsAssumption, BoundsAssumption DEF Init, Holding, Months
<1>2. QED
  BY <1>1, FS_EmptySet, BoundsAssumption DEF Ledger, QuotaConserved, LimitRespected

\* The ledger of every month counts exactly the reviews charged to it and not
\* refunded, and never exceeds the limit: no slot leaks, none is returned twice.
THEOREM LedgerHolds == Spec => [](QuotaConserved /\ LimitRespected)
<1>1. Init => Ledger
  BY InitLedger
<1>2. TypeOK /\ Linked /\ Ledger /\ [Next]_vars => Ledger'
  BY NextLedger
<1>3. QED
  BY <1>1, <1>2, TypeCorrect, LinkedHolds, PTL DEF Spec, Ledger

\* Never more reviews of a month are charged than the plan allows, although the limit is looked
\* at before the row exists and again later: the last look is in the transaction that charges.
THEOREM LimitHolds == Spec => []LimitRespected
BY LedgerHolds, PTL
=============================================================================
