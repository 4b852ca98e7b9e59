---------------------------- MODULE ReviewLifecycle ----------------------------
(***************************************************************************)
(* The life of a review: the row in PostgreSQL (status, quota receipt), its *)
(* job in the BullMQ queue, and everyone who acts on either - the producers *)
(* (webhook, poller, manual request), the workers and their retries, the    *)
(* user who cancels, the repository that is disconnected, and the recovery  *)
(* sweep.  All jobs are reviews of one private repository of a Free account,*)
(* the case in which a slot of the monthly quota is at stake.               *)
(*                                                                          *)
(* Every step is one database transaction, one Redis command or one         *)
(* decision between two of them; whatever the code reads first and writes   *)
(* later is two steps here.                                                 *)
(***************************************************************************)
EXTENDS Naturals, FiniteSets

CONSTANTS
    Jobs,           \* analysis_jobs rows, and the queue jobs of the same id
    PullRequests,   \* the jobs whose findings are posted through a delivery plan
    Workers,        \* slots that run an attempt (concurrency of the worker pool)
    Sweepers,       \* recovery routines: one periodic sweep per process
    None,           \* no job, no worker, no month
    LastMonth,      \* bound: billing months are 0..LastMonth
    Limit,          \* FREE_TIER_PRIVATE_LIMIT
    MaxAttempts,    \* attempts of a queue job
    MaxStalls,      \* maxStalledCount of the queue
    Cancellable,    \* bound: the jobs whose user may cancel
    Disconnects,    \* bound: whether the repository may be disconnected
    MaxWaits,       \* bound: times a job may be delayed for pending comments
    MaxFaults       \* bound: crashes, lost locks and failed writes in a behaviour

ASSUME JobsAssumption   == /\ IsFiniteSet(Jobs)
                           /\ PullRequests \subseteq Jobs
                           /\ Cancellable \subseteq Jobs
                           /\ None \notin Jobs \cup Workers \cup Nat
ASSUME BoundsAssumption == /\ LastMonth \in Nat
                           /\ Limit \in Nat
                           /\ MaxAttempts \in Nat \ {0}
                           /\ MaxStalls \in Nat
                           /\ Disconnects \in BOOLEAN
                           /\ MaxWaits \in Nat
                           /\ MaxFaults \in Nat

VARIABLES
    \* --- PostgreSQL ---
    status,         \* [Jobs -> Statuses], ABSENT before the row is inserted
    receipt,        \* [Jobs -> Months \cup {None}]: quotaLedgerId of the row
    refunded,       \* [Jobs -> BOOLEAN]: quotaRefundedAt is set
    ledger,         \* [Months -> Nat]: privateReviewsCount of the account
    plan,           \* [Jobs -> BOOLEAN]: a reviewDeliveryPlan is saved
    active,         \* BOOLEAN: isActive of the repository
    aged,           \* [Jobs -> BOOLEAN]: updatedAt is older than the grace period
    \* --- BullMQ ---
    queue,          \* [Jobs -> QueueStates]
    holder,         \* [Jobs -> Workers \cup {None}]: who holds the job's lock
    made,           \* [Jobs -> Nat]: attemptsMade
    stalls,         \* [Jobs -> Nat]: stalledCounter
    worn,           \* [Jobs -> BOOLEAN]: processedOn unset or older than grace
    \* --- processes ---
    att,            \* [Workers -> attempt record]
    loose,          \* database writes nobody waits for any more
    waits,          \* [Jobs -> Nat]: delays for pending comments so far
    producer,       \* [Jobs -> pc of the code that creates the review]
    canceller,      \* [Jobs -> pc of a cancel request]
    disconnect,     \* the disconnect request: its pc and the rows it listed
    sweep,          \* [Sweepers -> what the routine has read]
    \* --- environment ---
    month,          \* the current billing month
    faults          \* faults used so far

quota == <<receipt, refunded, ledger>>
row   == <<status, quota, plan, aged>>
db    == <<row, sweep>>        \* a write to a row makes the copies of it stale
bull  == <<queue, holder, made, stalls, worn, waits>>
users == <<active, producer, canceller, disconnect, month>>
vars  == <<db, bull, users, att, loose, faults>>

Months      == 0..LastMonth
Phases      == <<"FETCHING", "ANALYZING", "GENERATING", "POSTING">>
ReviewPhases == {Phases[i] : i \in 1..4}
InProgress  == ReviewPhases \cup {"QUEUED", "RETRYING"}
Stopped     == {"FAILED", "SKIPPED", "CANCELLED", "TIMEOUT"}
Terminal    == Stopped \cup {"COMPLETED"}
SupersededStatuses == {"CANCELLED", "TIMEOUT"}
Statuses    == InProgress \cup Terminal \cup {"ABSENT"}
QueueStates == {"absent", "wait", "active", "delayed", "failed"}

Rank(phase) == CHOOSE i \in 1..4 : Phases[i] = phase

\* An attempt that is not running, and a routine that has read nothing.
IdleAttempt == [job |-> None, pc |-> "idle", phase |-> "FETCHING",
                seen |-> "ABSENT", made |-> 0, why |-> "none", superseded |-> FALSE]
IdleSweep   == [job |-> None, pc |-> "idle", known |-> FALSE, worn |-> FALSE,
                verdict |-> "none", fresh |-> FALSE]

Init == /\ status = [j \in Jobs |-> "ABSENT"]
        /\ receipt = [j \in Jobs |-> None]
        /\ refunded = [j \in Jobs |-> FALSE]
        /\ ledger = [m \in Months |-> 0]
        /\ plan = [j \in Jobs |-> FALSE]
        /\ active = TRUE
        /\ aged = [j \in Jobs |-> FALSE]
        /\ queue = [j \in Jobs |-> "absent"]
        /\ holder = [j \in Jobs |-> None]
        /\ made = [j \in Jobs |-> 0]
        /\ stalls = [j \in Jobs |-> 0]
        /\ worn = [j \in Jobs |-> TRUE]
        /\ att = [w \in Workers |-> IdleAttempt]
        /\ loose = {}
        /\ waits = [j \in Jobs |-> 0]
        /\ producer = [j \in Jobs |-> "idle"]
        /\ canceller = [j \in Jobs |-> "idle"]
        /\ disconnect = [pc |-> "idle", rows |-> {}]
        /\ sweep = [s \in Sweepers |-> IdleSweep]
        /\ month = 0
        /\ faults = 0

Fault == faults < MaxFaults /\ faults' = faults + 1

\* The queue job is removed from Redis with everything it kept.
Forget(j) == /\ queue' = [queue EXCEPT ![j] = "absent"]
             /\ made' = [made EXCEPT ![j] = 0]
             /\ stalls' = [stalls EXCEPT ![j] = 0]
             /\ worn' = [worn EXCEPT ![j] = TRUE]

-------------------------------------------------------------------------------
(* Writes to a row *)

\* What the sweeps hold once row j gets a new updatedAt: their copy is stale.
Outdated(j) == [s \in Sweepers |->
                  IF sweep[s].job = j THEN [sweep[s] EXCEPT !.fresh = FALSE] ELSE sweep[s]]

Touch(j) == /\ aged' = [aged EXCEPT ![j] = FALSE]
            /\ sweep' = Outdated(j)

SetStatus(j, s) == status' = [status EXCEPT ![j] = s] /\ Touch(j)

\* Mutant of RefundReviewQuota: the marker is forgotten.
RefundUnmarked(j) ==
    IF receipt[j] # None /\ ~refunded[j]
    THEN /\ ledger' = [ledger EXCEPT ![receipt[j]] = IF @ > 0 THEN @ - 1 ELSE @]
         /\ UNCHANGED refunded
    ELSE UNCHANGED <<refunded, ledger>>

\* refundReviewQuota: the marker and the decrement, together or not at all.
RefundReviewQuota(j) ==
    IF receipt[j] # None /\ ~refunded[j]
    THEN /\ refunded' = [refunded EXCEPT ![j] = TRUE]
         /\ ledger' = [ledger EXCEPT ![receipt[j]] = IF @ > 0 THEN @ - 1 ELSE @]
    ELSE UNCHANGED <<refunded, ledger>>

\* Mutant of PersistState: the ending is written over whatever the row says.
PersistBlindly(j, s) ==
    /\ SetStatus(j, s)
    /\ IF s = "RETRYING" THEN UNCHANGED <<refunded, ledger>> ELSE RefundReviewQuota(j)
    /\ UNCHANGED <<receipt, plan>>

\* persistState: under the row lock, nothing when the review is over.
PersistState(j, s) ==
    \/ /\ status[j] \in InProgress
       /\ SetStatus(j, s)
       /\ IF s = "RETRYING" THEN UNCHANGED <<refunded, ledger>> ELSE RefundReviewQuota(j)
       /\ UNCHANGED <<receipt, plan>>
    \/ /\ status[j] \notin InProgress
       /\ UNCHANGED db

-------------------------------------------------------------------------------
(* Producers: webhook, poller, manual request *)

\* The request names a connected repository; the webhook also looks at the quota.
Receive(j) == /\ producer[j] = "idle" /\ active
              /\ \/ producer' = [producer EXCEPT ![j] = "received"]
                 \/ /\ ledger[month] >= Limit
                    /\ producer' = [producer EXCEPT ![j] = "full"]
              /\ UNCHANGED <<db, bull, active, canceller, disconnect, month, att, loose, faults>>

\* The webhook saw no quota left: the row is created as skipped.
InsertSkipped(j) == /\ producer[j] = "full"
                    /\ producer' = [producer EXCEPT ![j] = "done"]
                    /\ SetStatus(j, "SKIPPED")
                    /\ UNCHANGED <<quota, plan, bull, active, canceller, disconnect,
                                   month, att, loose, faults>>

\* The unique row of this commit.
Insert(j) == /\ producer[j] = "received"
             /\ producer' = [producer EXCEPT ![j] = "inserted"]
             /\ SetStatus(j, "QUEUED")
             /\ UNCHANGED <<quota, plan, bull, active, canceller, disconnect,
                            month, att, loose, faults>>

\* Mutants of Reserve: the limit is left to the preflight; a thrown error is
\* logged and the job enqueued all the same.
ReserveUnlimited(j) ==
    /\ producer[j] = "inserted"
    /\ active /\ status[j] \in InProgress
    /\ producer' = [producer EXCEPT ![j] = "charged"]
    /\ receipt' = [receipt EXCEPT ![j] = month]
    /\ ledger' = [ledger EXCEPT ![month] = @ + 1]
    /\ Touch(j)
    /\ UNCHANGED <<status, refunded, plan, bull, active, canceller, disconnect, month,
                   att, loose, faults>>

ReserveSwallowed(j) ==
    /\ producer[j] = "inserted"
    /\ IF active /\ status[j] \in InProgress /\ ledger[month] < Limit
       THEN /\ receipt' = [receipt EXCEPT ![j] = month]
            /\ ledger' = [ledger EXCEPT ![month] = @ + 1]
            /\ Touch(j)
            /\ UNCHANGED <<status, refunded, plan>>
       ELSE UNCHANGED db
    /\ producer' = [producer EXCEPT ![j] = "charged"]
    /\ UNCHANGED <<bull, active, canceller, disconnect, month, att, loose, faults>>

\* reserveReview: throws for a review that is over or disconnected, refuses at
\* the limit, else writes the receipt and the charge in one transaction.
Reserve(j) ==
    /\ producer[j] = "inserted"
    /\ \/ /\ ~(active /\ status[j] \in InProgress)
          /\ producer' = [producer EXCEPT ![j] = "done"]
          /\ UNCHANGED db
       \/ /\ active /\ status[j] \in InProgress
          /\ ledger[month] >= Limit
          /\ producer' = [producer EXCEPT ![j] = "denied"]
          /\ UNCHANGED db
       \/ /\ active /\ status[j] \in InProgress
          /\ ledger[month] < Limit
          /\ producer' = [producer EXCEPT ![j] = "charged"]
          /\ receipt' = [receipt EXCEPT ![j] = month]
          /\ ledger' = [ledger EXCEPT ![month] = @ + 1]
          /\ Touch(j)
          /\ UNCHANGED <<status, refunded, plan>>
    /\ UNCHANGED <<bull, active, canceller, disconnect, month, att, loose, faults>>

\* The denied review is marked SKIPPED whatever its status is by now.
SkipDenied(j) == /\ producer[j] = "denied"
                 /\ producer' = [producer EXCEPT ![j] = "done"]
                 /\ SetStatus(j, "SKIPPED")
                 /\ UNCHANGED <<quota, plan, bull, active, canceller, disconnect,
                                month, att, loose, faults>>

\* Only a charged review gets a queue job.
Enqueue(j) == /\ producer[j] = "charged"
              /\ producer' = [producer EXCEPT ![j] = "done"]
              /\ queue' = [queue EXCEPT ![j] = "wait"]
              /\ UNCHANGED <<db, holder, made, stalls, worn, waits, active, canceller,
                             disconnect, month, att, loose, faults>>

\* The process stops, or a call fails and the handler answers an error.
ProducerDies(j) == /\ producer[j] \in {"received", "full", "inserted", "denied", "charged"}
                   /\ Fault
                   /\ producer' = [producer EXCEPT ![j] = "done"]
                   /\ UNCHANGED <<db, bull, active, canceller, disconnect, month, att, loose>>

-------------------------------------------------------------------------------
(* Worker: one attempt of a queue job *)

\* The attempt of worker w goes on as a, at another point, or in another phase.
Becomes(w, a) == att' = [att EXCEPT ![w] = a]

Goto(w, pc) == Becomes(w, [att[w] EXCEPT !.pc = pc])

StartPhase(w, pc, phase) == Becomes(w, [att[w] EXCEPT !.pc = pc, !.phase = phase])

\* The catch clause looks at the in-process flag before it looks at the error.
Throw(w, why) == Becomes(w, [att[w] EXCEPT !.pc = "catch", !.phase = "FETCHING", !.seen = "ABSENT",
                                           !.why = IF att[w].superseded THEN "abandoned" ELSE why])

\* The processor returns or throws, and is done with the job.
Exit(w, why) == Becomes(w, [IdleAttempt EXCEPT !.job = att[w].job, !.made = att[w].made,
                                               !.pc = "ack", !.why = why])

At(w, pc) == att[w].pc = pc

\* wasSuperseded, with the in-process flag looked at first.
Superseded(w) == att[w].superseded \/ status[att[w].job] \in SupersededStatuses

\* A free worker takes the job and its lock; processedOn is now.
Pickup(w, j) ==
    /\ At(w, "idle") /\ queue[j] = "wait"
    /\ queue' = [queue EXCEPT ![j] = "active"]
    /\ holder' = [holder EXCEPT ![j] = w]
    /\ worn' = [worn EXCEPT ![j] = FALSE]
    /\ Becomes(w, [IdleAttempt EXCEPT !.job = j, !.pc = "entry", !.made = made[j]])
    /\ UNCHANGED <<db, made, stalls, waits, users, loose, faults>>

\* Nothing to do for a review that is over; a disconnected one is cancelled.
Entry(w) ==
    LET j == att[w].job IN
    /\ At(w, "entry")
    /\ \/ /\ status[j] \in Terminal
          /\ Exit(w, "done")
          /\ UNCHANGED db
       \/ /\ status[j] \notin Terminal
          /\ active
          /\ Goto(w, "load")
          /\ UNCHANGED db
       \/ /\ status[j] \notin Terminal
          /\ ~active
          /\ Goto(w, "inactive")
          /\ UNCHANGED db
    /\ UNCHANGED <<bull, users, loose, faults>>

\* Mutant of CancelInactive: the status is written without the refund.
CancelInactiveUnrefunded(w) == /\ At(w, "inactive")
                               /\ SetStatus(att[w].job, "CANCELLED")
                               /\ UNCHANGED <<quota, plan>>
                               /\ Throw(w, "abandoned")
                               /\ UNCHANGED <<bull, users, loose, faults>>

\* markReviewTerminal, then an UnrecoverableError.
CancelInactive(w) == /\ At(w, "inactive")
                     /\ PersistState(att[w].job, "CANCELLED")
                     /\ Throw(w, "abandoned")
                     /\ UNCHANGED <<bull, users, loose, faults>>

\* A saved plan is delivered as it is; otherwise the pipeline is entered.
LoadPlan(w) == /\ At(w, "load")
               /\ IF plan[att[w].job] THEN StartPhase(w, "deliver", "POSTING")
                  ELSE StartPhase(w, "read", "FETCHING")
               /\ UNCHANGED <<db, bull, users, loose, faults>>

\* What follows advanceReview: the work of the phase, or the return to the queue.
Advanced(w) == IF att[w].phase = "POSTING" THEN "delay" ELSE "work"

\* Mutant of AdvanceRead: a later phase in the row is not left alone.
AdvanceReadAnyPhase(w) ==
    /\ At(w, "read")
    /\ IF status[att[w].job] \in Terminal
       THEN Goto(w, Advanced(w))
       ELSE Becomes(w, [att[w] EXCEPT !.pc = "write", !.seen = status[att[w].job]])
    /\ UNCHANGED <<db, bull, users, loose, faults>>

\* advanceReview, first half: a later phase or a terminal status is left alone.
AdvanceRead(w) ==
    LET now == status[att[w].job] IN
    /\ At(w, "read")
    /\ IF \/ now \in ReviewPhases /\ Rank(att[w].phase) <= Rank(now)
          \/ now \in Terminal
       THEN Goto(w, Advanced(w))
       ELSE Becomes(w, [att[w] EXCEPT !.pc = "write", !.seen = now])
    /\ UNCHANGED <<db, bull, users, loose, faults>>

\* Mutant of AdvanceWrite: the status read is not compared when it is written.
AdvanceWriteBlindly(w) ==
    /\ At(w, "write")
    /\ SetStatus(att[w].job, att[w].phase)
    /\ Becomes(w, [att[w] EXCEPT !.pc = Advanced(w), !.seen = "ABSENT"])
    /\ UNCHANGED <<quota, plan, bull, users, loose, faults>>

\* advanceReview, second half: only if the status is still the one read.
AdvanceWrite(w) ==
    LET j == att[w].job IN
    /\ At(w, "write")
    /\ \/ /\ status[j] = att[w].seen
          /\ SetStatus(j, att[w].phase)
          /\ UNCHANGED <<quota, plan>>
       \/ /\ status[j] # att[w].seen
          /\ UNCHANGED db
    /\ Becomes(w, [att[w] EXCEPT !.pc = Advanced(w), !.seen = "ABSENT"])
    /\ UNCHANGED <<bull, users, loose, faults>>

\* The end of a phase: abandon a superseded review, else go on to the next one.
NextPhase(w) ==
    LET phase == att[w].phase IN
    /\ At(w, "work")
    /\ IF Superseded(w) THEN Throw(w, "abandoned")
       ELSE IF phase = "FETCHING"           THEN StartPhase(w, "read", "ANALYZING")
       ELSE IF phase = "ANALYZING"          THEN StartPhase(w, "read", "GENERATING")
       ELSE IF att[w].job \in PullRequests THEN StartPhase(w, "prepare", "POSTING")
       ELSE Goto(w, "record")
    /\ UNCHANGED <<db, bull, users, loose, faults>>

\* Nothing to review: the job completes with no findings.
EmptyDiff(w) == /\ At(w, "work") /\ att[w].phase = "FETCHING" /\ ~Superseded(w)
                /\ Goto(w, "record")
                /\ UNCHANGED <<db, bull, users, loose, faults>>

\* Mutant of SavePlan: the row is not looked at under its lock.
SavePlanUnlocked(j) ==
    \/ /\ ~plan[j]
       /\ plan' = [plan EXCEPT ![j] = TRUE]
       /\ SetStatus(j, "POSTING")
       /\ UNCHANGED quota
    \/ /\ plan[j]
       /\ UNCHANGED db

\* prepareReviewDelivery on row j: the saved plan moves the review to POSTING.
SavePlan(j) ==
    /\ active /\ status[j] \in InProgress
    /\ \/ /\ ~plan[j]
          /\ plan' = [plan EXCEPT ![j] = TRUE]
          /\ SetStatus(j, "POSTING")
          /\ UNCHANGED quota
       \/ /\ plan[j]
          /\ UNCHANGED db

\* The plan this attempt delivers: the saved one, or its own.
Prepare(w) == /\ At(w, "prepare")
              /\ SavePlan(att[w].job)
              /\ Goto(w, "deliver")
              /\ UNCHANGED <<bull, users, loose, faults>>

\* lockedJob throws: the review is over or the repository disconnected.
PrepareRefused(w) == /\ At(w, "prepare")
                     /\ ~(active /\ status[att[w].job] \in InProgress)
                     /\ Throw(w, "transient")
                     /\ UNCHANGED <<db, bull, users, loose, faults>>

\* deliverReviewPlan settles every comment, or answers that some are pending.
Deliver(w) == /\ At(w, "deliver")
              /\ Goto(w, "finish")
              /\ UNCHANGED <<db, bull, users, loose, faults>>

\* Mutant of DeliverPending: the delivery window never closes.
DeliverPendingForever(w) ==
    /\ At(w, "deliver")
    /\ waits' = [waits EXCEPT ![att[w].job] = IF @ <= MaxWaits THEN @ + 1 ELSE @]
    /\ Throw(w, "pending")
    /\ UNCHANGED <<db, queue, holder, made, stalls, worn, users, loose, faults>>

\* Within the delivery window: the artifact is saved, the comments are not all out.
DeliverPending(w) ==
    LET j == att[w].job IN
    /\ At(w, "deliver") /\ waits[j] < MaxWaits
    /\ waits' = [waits EXCEPT ![j] = @ + 1]
    /\ Throw(w, "pending")
    /\ UNCHANGED <<db, queue, holder, made, stalls, worn, users, loose, faults>>

\* finishDelivery: the review may have been stopped while comments went out.
Finish(w) == /\ At(w, "finish")
             /\ IF Superseded(w) THEN Throw(w, "abandoned") ELSE Goto(w, "record")
             /\ UNCHANGED <<db, bull, users, loose, faults>>

\* Mutant of Record: a review that was stopped meanwhile completes.
RecordStopped(w) ==
    /\ At(w, "record") /\ active
    /\ SetStatus(att[w].job, "COMPLETED")
    /\ Exit(w, "done")
    /\ UNCHANGED <<quota, plan, bull, users, loose, faults>>

\* recordJobFindings: completion is refused for a stopped or disconnected review.
Record(w) ==
    LET j == att[w].job IN
    /\ At(w, "record")
    /\ \/ /\ active /\ status[j] \notin Stopped
          /\ SetStatus(j, "COMPLETED")
          /\ Exit(w, "done")
          /\ UNCHANGED <<quota, plan>>
       \/ /\ ~active \/ status[j] \in Stopped
          /\ Throw(w, "transient")
          /\ UNCHANGED db
    /\ UNCHANGED <<bull, users, loose, faults>>

-------------------------------------------------------------------------------
(* Worker: the ways an attempt ends *)

\* Any call may fail for the moment.  Access may be revoked, the key missing or
\* the change too large before the review runs; the model may refuse for good.
Errors(pc, phase) ==
    {"transient"} \cup
    (IF pc = "load" \/ <<pc, phase>> = <<"work", "FETCHING">> THEN {"permanent"} ELSE {}) \cup
    (IF <<pc, phase>> \in {<<"work", "FETCHING">>, <<"work", "ANALYZING">>} THEN {"final"} ELSE {})

CallFails(w) == /\ att[w].pc \notin {"idle", "catch", "delay", "ack"} /\ att[w].why = "none"
                /\ \E why \in Errors(att[w].pc, att[w].phase) : Throw(w, why)
                /\ UNCHANGED <<db, bull, users, loose, faults>>

\* The deadline: the attempt is flagged and a TIMEOUT write goes out unawaited.
Deadline(w) == /\ att[w].pc \notin {"idle", "ack"} /\ ~att[w].superseded
               /\ Becomes(w, [att[w] EXCEPT !.superseded = TRUE])
               /\ loose' = loose \cup {<<att[w].job, "timeout">>}
               /\ UNCHANGED <<db, bull, users, faults>>

\* guard: a call in flight is given up on.  The call itself is not undone.
GiveUp(w) == /\ att[w].superseded
             /\ att[w].pc \in {"load", "work", "prepare", "deliver"}
             /\ Throw(w, "abandoned")
             /\ loose' = IF At(w, "prepare") THEN loose \cup {<<att[w].job, "plan">>} ELSE loose
             /\ UNCHANGED <<db, bull, users, faults>>

\* The write of the deadline arrives, or fails and is only logged.
LateTimeout(j) == /\ <<j, "timeout">> \in loose
                  /\ loose' = loose \ {<<j, "timeout">>}
                  /\ \/ PersistState(j, "TIMEOUT") /\ UNCHANGED faults
                     \/ Fault /\ UNCHANGED db
                  /\ UNCHANGED <<bull, users, att>>

\* A transaction given up on commits all the same, or was refused.
LatePlan(j) == /\ <<j, "plan">> \in loose
               /\ loose' = loose \ {<<j, "plan">>}
               /\ SavePlan(j) \/ UNCHANGED db
               /\ UNCHANGED <<bull, users, att, faults>>

\* The queue is told to stop retrying; whoever stopped the review wrote why.
CatchAbandoned(w) == /\ At(w, "catch") /\ att[w].why = "abandoned"
                     /\ Exit(w, "unrecoverable")
                     /\ UNCHANGED <<db, bull, users, loose, faults>>

\* A final answer of the model is never retried, its write failing or not.
CatchFinal(w) == /\ At(w, "catch") /\ att[w].why = "final"
                 /\ Exit(w, "unrecoverable")
                 /\ \/ /\ \E s \in {"SKIPPED", "FAILED"} : PersistState(att[w].job, s)
                       /\ UNCHANGED faults
                    \/ Fault /\ UNCHANGED db
                 /\ UNCHANGED <<bull, users, loose>>

\* The user has to act; if that cannot be written the attempt is retried.
CatchPermanent(w) == /\ At(w, "catch") /\ att[w].why = "permanent"
                     /\ \/ /\ PersistState(att[w].job, "SKIPPED")
                           /\ Exit(w, "unrecoverable")
                           /\ UNCHANGED faults
                        \/ /\ Fault
                           /\ Exit(w, "error")
                           /\ UNCHANGED db
                     /\ UNCHANGED <<bull, users, loose>>

\* The remaining attempts are the queue's; the row only says which it will be.
CatchTransient(w) ==
    LET verdict == IF att[w].made + 1 < MaxAttempts THEN "RETRYING" ELSE "FAILED" IN
    /\ At(w, "catch") /\ att[w].why = "transient"
    /\ Exit(w, "error")
    /\ \/ PersistState(att[w].job, verdict) /\ UNCHANGED faults
       \/ Fault /\ UNCHANGED db
    /\ UNCHANGED <<bull, users, loose>>

\* Pending comments: the job waits in the queue without spending an attempt.
CatchPending(w) == /\ At(w, "catch") /\ att[w].why = "pending"
                   /\ IF Superseded(w) THEN Exit(w, "unrecoverable")
                      ELSE StartPhase(w, "read", "POSTING")
                   /\ UNCHANGED <<db, bull, users, loose, faults>>

\* moveToDelayed, then DelayedError.
Delay(w) == /\ At(w, "delay")
            /\ Exit(w, "delayed")
            /\ UNCHANGED <<db, bull, users, loose, faults>>

\* A call of the catch clause itself fails: the error leaves it unrecorded.
DelayFails(w) == /\ att[w].why = "pending" /\ att[w].pc \in {"catch", "read", "write", "delay"}
                 /\ Fault
                 /\ Exit(w, "error")
                 /\ UNCHANGED <<db, bull, users, loose>>

\* The queue learns how the attempt ended - from whoever holds the lock.
Ack(w) ==
    LET j == att[w].job
        why == att[w].why
        retried == why = "error" /\ att[w].made + 1 < MaxAttempts IN
    /\ At(w, "ack")
    /\ \/ /\ holder[j] = w
          /\ why = "done"
          /\ Forget(j)
          /\ holder' = [holder EXCEPT ![j] = None]
       \/ /\ holder[j] = w
          /\ why # "done"
          /\ queue' = [queue EXCEPT ![j] = IF why = "delayed" \/ retried THEN "delayed" ELSE "failed"]
          /\ made' = [made EXCEPT ![j] = IF why = "delayed" THEN @ ELSE @ + 1]
          /\ holder' = [holder EXCEPT ![j] = None]
          /\ UNCHANGED <<stalls, worn>>
       \/ /\ holder[j] # w
          /\ UNCHANGED <<queue, made, stalls, worn, holder>>
    /\ Becomes(w, IdleAttempt)
    /\ UNCHANGED <<db, waits, users, loose, faults>>

\* Every 30 s while the attempt runs: the row of a live review stays young.
Heartbeat(w) ==
    LET j == att[w].job IN
    /\ att[w].pc \notin {"idle", "entry", "inactive", "ack"}
    /\ active /\ status[j] \in InProgress
    /\ Touch(j)
    /\ UNCHANGED <<status, quota, plan, bull, users, att, loose, faults>>

\* The worker process dies; what it left unwritten stays unwritten.
Crash(w) == /\ att[w].pc # "idle" /\ Fault
            /\ Becomes(w, IdleAttempt)
            /\ holder' = [j \in Jobs |-> IF holder[j] = w THEN None ELSE holder[j]]
            /\ \E lost \in SUBSET {x \in loose : x[1] = att[w].job} : loose' = loose \ lost
            /\ UNCHANGED <<db, queue, made, stalls, worn, waits, users>>

-------------------------------------------------------------------------------
(* BullMQ, as the configuration of the queue makes it behave *)

\* The backoff, or the delay asked for, is over.
Promote(j) == /\ queue[j] = "delayed"
              /\ queue' = [queue EXCEPT ![j] = "wait"]
              /\ UNCHANGED <<db, holder, made, stalls, worn, waits, users, att, loose, faults>>

\* The lock expires while its holder is still running.
LockLost(j) == /\ queue[j] = "active" /\ holder[j] # None /\ Fault
               /\ holder' = [holder EXCEPT ![j] = None]
               /\ UNCHANGED <<db, queue, made, stalls, worn, waits, users, att, loose>>

\* The stalled check takes an unlocked job back, and fails it the second time.
Reclaim(j) == /\ queue[j] = "active" /\ holder[j] = None
              /\ stalls' = [stalls EXCEPT ![j] = @ + 1]
              /\ queue' = [queue EXCEPT ![j] = IF stalls[j] < MaxStalls THEN "wait" ELSE "failed"]
              /\ UNCHANGED <<db, holder, made, worn, waits, users, att, loose, faults>>

\* removeOnFail: a failed job is dropped when its retention is over.
DropFailed(j) == /\ queue[j] = "failed" /\ worn[j]
                 /\ (status[j] \in InProgress => aged[j])
                 /\ Forget(j)
                 /\ UNCHANGED <<db, holder, waits, users, att, loose, faults>>

-------------------------------------------------------------------------------
(* The user cancels a review *)

\* Only a review in progress is cancelled; its status is not looked at again here.
CancelRead(j) == /\ j \in Cancellable
                 /\ canceller[j] = "idle" /\ status[j] \in InProgress
                 /\ canceller' = [canceller EXCEPT ![j] = "removing"]
                 /\ UNCHANGED <<db, bull, active, producer, disconnect, month, att, loose, faults>>

\* A locked job cannot be removed; a failing Redis removes nothing either.
CancelRemove(j) == /\ canceller[j] = "removing"
                   /\ canceller' = [canceller EXCEPT ![j] = "marking"]
                   /\ \/ /\ queue[j] # "absent" /\ holder[j] = None
                         /\ Forget(j)
                         /\ UNCHANGED <<holder, waits, faults>>
                      \/ /\ queue[j] = "absent" \/ holder[j] # None
                         /\ UNCHANGED <<bull, faults>>
                      \/ /\ Fault
                         /\ UNCHANGED bull
                   /\ UNCHANGED <<db, active, producer, disconnect, month, att, loose>>

\* markReviewTerminal decides on the row as it is by then.
CancelMark(j) == /\ canceller[j] = "marking"
                 /\ canceller' = [canceller EXCEPT ![j] = "idle"]
                 /\ PersistState(j, "CANCELLED")
                 /\ UNCHANGED <<bull, active, producer, disconnect, month, att, loose, faults>>

\* The request dies: the job may be out of the queue and the row not marked.
CancellerDies(j) == /\ canceller[j] \in {"removing", "marking"}
                    /\ canceller' = [canceller EXCEPT ![j] = "idle"]
                    /\ UNCHANGED <<db, bull, active, producer, disconnect, month, att, loose, faults>>

-------------------------------------------------------------------------------
(* The repository is disconnected and connected again *)

\* The repository is inactive before its reviews are cancelled.
Deactivate == /\ Disconnects /\ active /\ disconnect.pc = "idle"
              /\ active' = FALSE
              /\ disconnect' = [pc |-> "list", rows |-> {}]
              /\ UNCHANGED <<db, bull, producer, canceller, month, att, loose, faults>>

\* cancelDisconnectedReviews reads the rows once, then cancels them one by one.
Listed(rows) == disconnect' = [pc |-> IF rows = {} THEN "idle" ELSE "cancel", rows |-> rows]

ListDisconnected ==
    /\ disconnect.pc = "list"
    /\ Listed({j \in Jobs : ~active /\ status[j] \in InProgress})
    /\ UNCHANGED <<db, bull, active, producer, canceller, month, att, loose, faults>>

CancelDisconnected(j) ==
    /\ j \in disconnect.rows
    /\ Listed(disconnect.rows \ {j})
    /\ PersistState(j, "CANCELLED")
    /\ UNCHANGED <<bull, active, producer, canceller, month, att, loose, faults>>

\* The request dies half way; the sweep covers what is left.
DisconnectDies == /\ disconnect.pc # "idle"
                  /\ Listed({})
                  /\ UNCHANGED <<db, bull, active, producer, canceller, month, att, loose, faults>>

Reconnect == /\ ~active
             /\ active' = TRUE
             /\ UNCHANGED <<db, bull, producer, canceller, disconnect, month, att, loose, faults>>

-------------------------------------------------------------------------------
(* The recovery sweep: read the row, ask the queue, write if nothing moved *)

Holds(s, read) == sweep' = [sweep EXCEPT ![s] = read]

\* recoverReviewsOnce reads a row in progress; that of an inactive repository is
\* stopped without asking the queue.
SweepRow(s, j) ==
    /\ sweep[s].pc = "idle" /\ status[j] \in InProgress
    /\ Holds(s, [IdleSweep EXCEPT !.job = j, !.fresh = TRUE,
                                  !.pc = IF active THEN "lookup" ELSE "stop",
                                  !.verdict = IF active THEN "none" ELSE "CANCELLED"])
    /\ UNCHANGED <<row, bull, users, att, loose, faults>>

\* getJob: the copy of the queue job keeps the processedOn it had now.
SweepLookup(s) ==
    LET j == sweep[s].job IN
    /\ sweep[s].pc = "lookup"
    /\ \/ /\ Holds(s, [sweep[s] EXCEPT !.pc = "state", !.known = (queue[j] # "absent"),
                                       !.worn = worn[j]])
          /\ UNCHANGED faults
       \/ /\ Fault
          /\ Holds(s, IdleSweep)
    /\ UNCHANGED <<row, bull, users, att, loose>>

\* Mutant of Verdict: a row whose job is gone is left to the queue.
VerdictKnownOnly(s) ==
    LET j == sweep[s].job IN
    IF sweep[s].known /\ queue[j] = "failed" THEN "FAILED"
    ELSE IF sweep[s].known /\ queue[j] = "active" /\ aged[j] /\ sweep[s].worn THEN "TIMEOUT"
    ELSE "none"

\* What the sweep makes of the state the queue answers with.
Verdict(s) ==
    LET j == sweep[s].job
        state == IF sweep[s].known THEN queue[j] ELSE "absent" IN
    IF state = "failed" \/ (state = "absent" /\ aged[j]) THEN "FAILED"
    ELSE IF state = "active" /\ aged[j] /\ sweep[s].worn THEN "TIMEOUT"
    ELSE "none"

\* getState, and the decision.
SweepState(s) ==
    /\ sweep[s].pc = "state"
    /\ \/ /\ IF Verdict(s) = "none" THEN Holds(s, IdleSweep)
             ELSE Holds(s, [sweep[s] EXCEPT !.pc = "stop", !.verdict = Verdict(s)])
          /\ UNCHANGED faults
       \/ /\ Fault
          /\ Holds(s, IdleSweep)
    /\ UNCHANGED <<row, bull, users, att, loose>>

\* markReviewTerminal with the row that was read: same status, same updatedAt.
SweepStop(s) ==
    LET j == sweep[s].job IN
    /\ sweep[s].pc = "stop"
    /\ \/ /\ sweep[s].fresh /\ status[j] \in InProgress
          /\ status' = [status EXCEPT ![j] = sweep[s].verdict]
          /\ aged' = [aged EXCEPT ![j] = FALSE]
          /\ sweep' = [Outdated(j) EXCEPT ![s] = IdleSweep]
          /\ RefundReviewQuota(j)
          /\ UNCHANGED <<receipt, plan, faults>>
       \/ /\ \/ ~(sweep[s].fresh /\ status[j] \in InProgress) /\ UNCHANGED faults
             \/ Fault
          /\ Holds(s, IdleSweep)
          /\ UNCHANGED row
    /\ UNCHANGED <<bull, users, att, loose>>

\* settleFailedQueueJob, the fast path: the row is read after the queue.
SettleFailed(s, j) ==
    /\ sweep[s].pc = "idle" /\ queue[j] = "failed" /\ status[j] \in InProgress
    /\ Holds(s, [IdleSweep EXCEPT !.job = j, !.pc = "stop", !.verdict = "FAILED", !.fresh = TRUE])
    /\ UNCHANGED <<row, bull, users, att, loose, faults>>

-------------------------------------------------------------------------------
(* Time.  Only a sweep looks at the age of a row or of a queue job. *)

\* A live review is left untouched for longer than the grace period.
Age(j) == /\ Sweepers # {} /\ status[j] \in InProgress /\ ~aged[j]
          /\ aged' = [aged EXCEPT ![j] = TRUE]
          /\ UNCHANGED <<status, quota, plan, sweep, bull, users, att, loose, faults>>

\* A queue job was picked up longer ago than the grace period.
Wear(j) == /\ Sweepers # {} /\ ~worn[j]
           /\ worn' = [worn EXCEPT ![j] = TRUE]
           /\ UNCHANGED <<db, queue, holder, made, stalls, waits, users, att, loose, faults>>

NextMonth == /\ month < LastMonth
             /\ month' = month + 1
             /\ UNCHANGED <<db, bull, active, producer, canceller, disconnect, att, loose, faults>>

-------------------------------------------------------------------------------
Produce(j) == Receive(j) \/ InsertSkipped(j) \/ Insert(j) \/ Reserve(j) \/ SkipDenied(j)
              \/ Enqueue(j) \/ ProducerDies(j)

\* The attempt goes on, one way or the other.
Work(w) == Entry(w) \/ CancelInactive(w) \/ LoadPlan(w) \/ AdvanceRead(w) \/ AdvanceWrite(w)
           \/ NextPhase(w) \/ EmptyDiff(w) \/ Prepare(w) \/ PrepareRefused(w) \/ Deliver(w)
           \/ DeliverPending(w) \/ Finish(w) \/ Record(w) \/ CallFails(w) \/ GiveUp(w)
           \/ CatchAbandoned(w) \/ CatchFinal(w) \/ CatchPermanent(w) \/ CatchTransient(w)
           \/ CatchPending(w) \/ Delay(w) \/ DelayFails(w) \/ Ack(w)

Queue(j) == Promote(j) \/ LockLost(j) \/ Reclaim(j) \/ DropFailed(j)

Cancel(j) == CancelRead(j) \/ CancelRemove(j) \/ CancelMark(j) \/ CancellerDies(j)

Connection == Deactivate \/ ListDisconnected \/ DisconnectDies \/ Reconnect
              \/ \E j \in Jobs : CancelDisconnected(j)

SweepGoesOn(s) == SweepLookup(s) \/ SweepState(s) \/ SweepStop(s)

Next == \/ \E j \in Jobs : Produce(j) \/ Queue(j) \/ Cancel(j) \/ LateTimeout(j) \/ LatePlan(j)
                           \/ Age(j) \/ Wear(j)
        \/ \E w \in Workers : Work(w) \/ Deadline(w) \/ Heartbeat(w) \/ Crash(w)
        \/ \E w \in Workers, j \in Jobs : Pickup(w, j)
        \/ \E s \in Sweepers : SweepGoesOn(s)
        \/ \E s \in Sweepers, j \in Jobs : SweepRow(s, j) \/ SettleFailed(s, j)
        \/ Connection
        \/ NextMonth

Spec == Init /\ [][Next]_vars

\* A running process goes on, the queue promotes, reclaims and hands out its jobs,
\* the sweep runs every minute and pages through every open row, time passes.
\* Nobody has to produce, cancel, connect or crash.
Fairness ==
    /\ \A w \in Workers : WF_vars(Work(w))
    /\ \A j \in Jobs : /\ SF_vars(\E w \in Workers : Pickup(w, j))
                        /\ WF_vars(Promote(j))
                        /\ WF_vars(Reclaim(j))
                        /\ WF_vars(Age(j))
                        /\ WF_vars(Wear(j))
                        /\ SF_vars(\E s \in Sweepers : SweepRow(s, j))
    /\ \A s \in Sweepers : WF_vars(SweepGoesOn(s))

FairSpec == Spec /\ Fairness

-------------------------------------------------------------------------------
(* Properties *)

Places  == {"idle", "entry", "inactive", "load", "read", "write", "work", "prepare",
            "deliver", "finish", "record", "catch", "delay", "ack"}
Reasons == {"none", "abandoned", "final", "permanent", "transient", "pending",
            "done", "error", "unrecoverable", "delayed"}
Attempts == [job : Jobs \cup {None}, phase : ReviewPhases, seen : Statuses, made : Nat,
             pc : Places, why : Reasons, superseded : BOOLEAN]
Sweeps == [job : Jobs \cup {None}, pc : {"idle", "lookup", "state", "stop"}, known : BOOLEAN,
           worn : BOOLEAN, verdict : {"none", "FAILED", "CANCELLED", "TIMEOUT"}, fresh : BOOLEAN]

RowsOK == /\ status \in [Jobs -> Statuses]
          /\ receipt \in [Jobs -> Months \cup {None}]
          /\ refunded \in [Jobs -> BOOLEAN]
          /\ ledger \in [Months -> Nat]
          /\ plan \in [Jobs -> BOOLEAN]
          /\ aged \in [Jobs -> BOOLEAN]

QueueOK == /\ queue \in [Jobs -> QueueStates]
           /\ holder \in [Jobs -> Workers \cup {None}]
           /\ made \in [Jobs -> Nat]
           /\ stalls \in [Jobs -> Nat]
           /\ worn \in [Jobs -> BOOLEAN]
           /\ waits \in [Jobs -> 0..MaxWaits]

AttemptsOK == /\ att \in [Workers -> Attempts]
              /\ \A w \in Workers : att[w].pc = "idle" <=> att[w].job = None
              /\ loose \subseteq Jobs \X {"timeout", "plan"}

SweepsOK == /\ sweep \in [Sweepers -> Sweeps]
            /\ \A s \in Sweepers : sweep[s].pc = "idle" <=> sweep[s].job = None
            /\ \A s \in Sweepers : sweep[s].pc = "stop" => sweep[s].verdict # "none"

RequestsOK ==
    /\ active \in BOOLEAN
    /\ producer \in [Jobs -> {"idle", "received", "full", "inserted", "denied", "charged", "done"}]
    /\ canceller \in [Jobs -> {"idle", "removing", "marking"}]
    /\ disconnect \in [pc : {"idle", "list", "cancel"}, rows : SUBSET Jobs]
    /\ month \in Months
    /\ faults \in 0..MaxFaults

\* Every variable has its type: attempts and sweeps that go on have a job, and a
\* job is not delayed for pending comments beyond the delivery window.
TypeOK == RowsOK /\ QueueOK /\ AttemptsOK /\ SweepsOK /\ RequestsOK

\* The jobs that hold a slot of month m.
Holding(m) == {j \in Jobs : receipt[j] = m /\ ~refunded[j]}

\* The ledger counts exactly the reviews that were charged and not refunded: no
\* slot leaks and none is given back twice, however stops, retries, recovery and
\* completion are interleaved (quota.service reserveReview, review-quota refund).
QuotaConserved == \A m \in Months : ledger[m] = Cardinality(Holding(m))

\* Never more reviews of a month are charged than the plan allows, although the
\* limit is looked at before the row exists (webhook preflight) and again later.
LimitRespected == \A m \in Months : ledger[m] <= Limit

\* A charged review gives its slot back exactly when it ends without completing
\* (job-state persistState, occurrence.service recordJobFindings).
ChargeFollowsOutcome ==
    \A j \in Jobs : /\ refunded[j] => (receipt[j] # None /\ status[j] \in Stopped)
                    /\ (receipt[j] # None /\ status[j] \in Stopped) => refunded[j]

\* A review completes only if it was charged, and nothing is queued or run for a
\* review whose charge failed (producers enqueue after reserveReview).
OnlyChargedWork ==
    /\ \A j \in Jobs : (status[j] = "COMPLETED" \/ queue[j] # "absent") => receipt[j] # None
    /\ \A w \in Workers : att[w].job # None => receipt[att[w].job] # None

\* An advance that is under way goes forward from the status it has read.
GoesForward(a) == /\ a.seen \in InProgress
                  /\ (a.seen \in ReviewPhases => Rank(a.seen) < Rank(a.phase))

\* What makes the two invariants above inductive: where the producer is says
\* whether the row exists and is charged, and pending advances go forward.
Linked ==
    /\ \A j \in Jobs : /\ producer[j] \in {"idle", "received", "full"} => status[j] = "ABSENT"
                       /\ producer[j] \in {"inserted", "denied"}
                             => (status[j] # "ABSENT" /\ receipt[j] = None)
                       /\ producer[j] = "charged" => receipt[j] # None
                       /\ receipt[j] # None => status[j] # "ABSENT"
    /\ \A w \in Workers : att[w].pc = "write" => GoesForward(att[w])
    /\ OnlyChargedWork
    /\ ChargeFollowsOutcome

\* A row never shows an earlier phase after a later one, whoever still writes
\* (job-state advanceReview); only a retry starts again.
PhaseMonotone ==
    [][\A j \in Jobs : status[j] \in ReviewPhases /\ status'[j] \in ReviewPhases
                         => Rank(status[j]) <= Rank(status'[j])]_vars

\* The promise of ReviewContract, kept by the row.
C == INSTANCE ReviewContract WITH
        Reviews <- Jobs,
        outcome <- [j \in Jobs |-> IF status[j] = "ABSENT" THEN "absent"
                                   ELSE IF status[j] = "COMPLETED" THEN "completed"
                                   ELSE IF status[j] \in Stopped THEN "stopped" ELSE "open"],
        charge  <- [j \in Jobs |-> IF receipt[j] = None THEN "none"
                                   ELSE IF refunded[j] THEN "returned" ELSE "held"]

\* Each review is charged and ended at most once, and the charge of a stopped one
\* is returned in the step that stops it.
KeepsContract == C!Safety

\* ... and every review that was opened ends: the queue, the deadline and the
\* sweep together leave no review open (review-recovery).
FulfilsContract == C!Contract

\* Every queue job leaves the queue or is kept as failed: no worker slot is spent
\* on it for ever (attempts, stalls and the delivery window are bounded).
QueueDrains == \A j \in Jobs : queue[j] \in {"wait", "active", "delayed"}
                               ~> queue[j] \in {"absent", "failed"}

\* job-state.ts, "States a review cannot leave".
TerminalIsFinal ==
    [][\A j \in Jobs : status[j] \in Terminal => status'[j] = status[j]]_vars

\* review-recovery.ts, "Its processedOn timestamp protects that startup window":
\* the sweep writes off no attempt that was picked up within the grace period.
StartupProtected ==
    [][\A s \in Sweepers : LET j == sweep[s].job IN
          (sweep[s].verdict = "TIMEOUT" /\ sweep'[s] = IdleSweep /\ status'[j] # status[j])
             => (queue[j] = "active" => worn[j])]_vars

===============================================================================
