---------------------------- MODULE CommentDelivery ----------------------------
(***************************************************************************)
(* The delivery of the comments of one saved review plan to GitHub          *)
(* (comment-delivery.service): the rows of comment_deliveries, the runs of  *)
(* deliverReviewPlan that send them - several at a time, when an attempt    *)
(* that lost its lock or its deadline is still going - the user's check of  *)
(* existing comments, requests on the wire and GitHub itself, and the ways  *)
(* the review or its repository ends under way.                             *)
(*                                                                          *)
(* A claim token is fresh for each claim of a row; here it is the number of *)
(* the claim, which the row counts as attempts.                             *)
(***************************************************************************)
EXTENDS Naturals, FiniteSets

CONSTANTS
    Inline,         \* inline comments a plan may have
    Summary,        \* its one summary comment
    Runs,           \* executions of deliverReviewPlan
    Checks,         \* executions of reconcileReviewDelivery asked for by the user
    None,           \* no row
    MaxAttempts,    \* MAX_RATE_LIMIT_ATTEMPTS
    Disconnects,    \* bound: whether the repository may be disconnected
    MaxFaults       \* bound: failing calls and crashes in a behaviour

ASSUME RowsAssumption  == /\ IsFiniteSet(Inline)
                          /\ Summary \notin Inline
                          /\ None \notin Inline \cup {Summary}
                          /\ Runs \cap Checks = {}
ASSUME LimitAssumption == /\ MaxAttempts \in Nat \ {0}
                          /\ Disconnects \in BOOLEAN
                          /\ MaxFaults \in Nat

VARIABLES
    \* --- PostgreSQL ---
    state,          \* [Rows -> States]; NONE: the plan has no such row
    claim,          \* [Rows -> Nat]: claimToken, 0 when there is none
    leased,         \* the rows being sent whose claimExpiresAt is in the future
    attempts,       \* [Rows -> Nat]
    unproven,       \* the inline rows whose reason is location-unverified
    old,            \* BOOLEAN: the plan was saved before locations were proven
    stored,         \* BOOLEAN: the encrypted review of the plan is not purged
    bodies,         \* the rows whose encrypted comment is in the database
    ended,          \* BOOLEAN: the review has a terminal status
    active,         \* BOOLEAN: isActive of the repository
    \* --- GitHub ---
    wire,           \* requests on their way, as [row, claim]
    posted,         \* [Rows -> Nat]: comments of that row on GitHub
    \* --- processes and time ---
    run,            \* [Executions -> what it has read and where it is]
    disconnect,     \* pc of the disconnect request
    closed,         \* BOOLEAN: the delivery window is over
    faults,
    overlapped      \* BOOLEAN: two attempts have been under way at once (history)

rows   == <<state, claim, leased, attempts, unproven>>
plan   == <<old, stored, bodies, ended, active>>
github == <<wire, posted>>
vars   == <<rows, plan, github, run, disconnect, closed, faults>>

Executions == Runs \cup Checks
Rows     == Inline \cup {Summary}
Terminal == {"DELIVERED", "REJECTED", "OMITTED"}
Settled  == Terminal \cup {"UNKNOWN"}
States   == Settled \cup {"NONE", "WAITING", "READY", "SENDING"}

\* lockedJob lets a transaction through.
Open == active /\ ~ended

\* Rows that exist and are not settled; nothing is left to do without them.
Pending == {r \in Rows : state[r] \notin Settled \cup {"NONE"}}

\* A finding without a location, and no summary to put it in.
NeedsLocationSummary == unproven # {} /\ state[Summary] = "NONE"

IdleRun == [pc |-> "idle", stage |-> "inline", todo |-> {}, held |-> {},
            found |-> {}, row |-> None, claim |-> 0, answer |-> "none",
            read |-> {}, aborted |-> FALSE]

\* prepareReviewDelivery has just committed: findings without a proven location
\* are omitted from the start, and then there is a summary to list them.
Init == /\ old \in BOOLEAN
        /\ \E planned \in SUBSET Inline :
              /\ unproven \in IF old THEN {{}} ELSE SUBSET planned
              /\ \E summary \in {"NONE", "WAITING"} :
                    /\ unproven # {} => summary = "WAITING"
                    /\ state = [r \in Rows |-> IF r = Summary THEN summary
                                               ELSE IF r \notin planned THEN "NONE"
                                               ELSE IF r \in unproven THEN "OMITTED" ELSE "READY"]
        /\ claim = [r \in Rows |-> 0]
        /\ leased = {}
        /\ attempts = [r \in Rows |-> 0]
        /\ stored = TRUE /\ bodies = {r \in Rows : state[r] = "READY"}
        /\ ended = FALSE /\ active = TRUE
        /\ wire = {} /\ posted = [r \in Rows |-> 0]
        /\ run = [u \in Executions |-> IdleRun]
        /\ disconnect = "idle" /\ closed = FALSE /\ faults = 0
        /\ overlapped = FALSE

Fault == faults < MaxFaults /\ faults' = faults + 1

At(u, pc) == run[u].pc = pc

Becomes(u, new) == run' = [run EXCEPT ![u] = new]
Goto(u, pc)     == Becomes(u, [run[u] EXCEPT !.pc = pc])

\* The execution returns or throws.
Leave(u) == Becomes(u, IdleRun)

\* updateMany: the rows of a set, if they are in one of the given states.
SetState(set, from, to) ==
    state' = [r \in Rows |-> IF r \in set /\ state[r] \in from THEN to ELSE state[r]]

\* Only the state of rows changes.
OnlyState == UNCHANGED <<claim, leased, attempts, unproven>>

-------------------------------------------------------------------------------
(* The start of an execution, and reconciliation with GitHub *)

\* An attempt delivers the saved plan while something is left to deliver; the
\* payload of the plan is decrypted first.
Start(u) == /\ At(u, "idle") /\ Open /\ stored
            /\ Pending # {} \/ NeedsLocationSummary
            /\ Goto(u, "expire")
            /\ UNCHANGED <<rows, plan, github, disconnect, closed, faults>>

\* Nothing is left: the saved plan is published again without GitHub.
StartSettled(u) == /\ At(u, "idle") /\ Open /\ stored
                   /\ Pending = {} /\ ~NeedsLocationSummary
                   /\ Goto(u, "finish")
                   /\ UNCHANGED <<rows, plan, github, disconnect, closed, faults>>

\* The user asks to check the existing comments, of a finished review too.
Check(u) == /\ At(u, "idle") /\ active
            /\ Goto(u, "expire")
            /\ UNCHANGED <<rows, plan, github, disconnect, closed, faults>>

\* Mutants of ExpireClaims: the row is sendable again; nothing ever expires.
ExpireToReady(u) == /\ At(u, "expire")
                    /\ SetState(Rows \ leased, {"SENDING"}, "READY")
                    /\ Goto(u, "list")
                    /\ OnlyState
                    /\ UNCHANGED <<plan, github, disconnect, closed, faults>>

ExpireNothing(u) == /\ At(u, "expire")
                    /\ Goto(u, "list")
                    /\ UNCHANGED <<rows, plan, github, disconnect, closed, faults>>

\* A claim that ran out leaves the row unconfirmed, not sendable.
ExpireClaims(u) == /\ At(u, "expire")
                   /\ SetState(Rows \ leased, {"SENDING"}, "UNKNOWN")
                   /\ Goto(u, "list")
                   /\ OnlyState
                   /\ UNCHANGED <<plan, github, disconnect, closed, faults>>

\* Mutant of List: a comment of the right author matches without its marker.
ListUnmarked(u) == /\ At(u, "list")
                   /\ \E found \in SUBSET {r \in Rows : state[r] = "UNKNOWN"} :
                         Becomes(u, [run[u] EXCEPT !.pc = "confirm", !.found = found])
                   /\ UNCHANGED <<rows, plan, github, disconnect, closed, faults>>

\* The comments on GitHub that match an unconfirmed row, or some of them: the listing may fail or be cut.
Listings == SUBSET {r \in Rows : state[r] = "UNKNOWN" /\ posted[r] = 1}

List(u) == /\ At(u, "list")
           /\ \E found \in Listings :
                 Becomes(u, [run[u] EXCEPT !.pc = "confirm", !.found = found])
           /\ UNCHANGED <<rows, plan, github, disconnect, closed, faults>>

\* Each match is a receipt, if the row is still unconfirmed.
Confirm(u) == \E r \in run[u].found :
                 /\ At(u, "confirm")
                 /\ SetState({r}, {"UNKNOWN"}, "DELIVERED")
                 /\ Becomes(u, [run[u] EXCEPT !.found = @ \ {r}])
                 /\ OnlyState
                 /\ UNCHANGED <<plan, github, disconnect, closed, faults>>

Checked(u) == /\ At(u, "confirm") /\ run[u].found = {}
              /\ IF u \in Checks THEN Leave(u) ELSE Goto(u, "screen")
              /\ UNCHANGED <<rows, plan, github, disconnect, closed, faults>>

\* What was not sent is not sent any more when the head that GitHub shows is not
\* the plan's, or the window is closed.
Screen(u) == /\ At(u, "screen")
             /\ \/ SetState(Rows, {"READY", "WAITING"}, "OMITTED")
                \/ ~closed /\ UNCHANGED state
             /\ Goto(u, "snapshot")
             /\ OnlyState
             /\ UNCHANGED <<plan, github, disconnect, closed, faults>>

-------------------------------------------------------------------------------
(* Sending: the rows are read once, then claimed one by one *)

\* The rows to send as they were read, their payloads, and those whose
\* nextAttemptAt is still in the future: they were refused for now before.
Reads(u, set, stage) ==
    LET ready == {r \in set : state[r] = "READY"} IN
    \E held \in SUBSET {r \in ready : attempts[r] > 0} :
       Becomes(u, [run[u] EXCEPT !.pc = "send", !.stage = stage, !.todo = ready,
                                 !.held = held, !.read = ready \cap bodies])

Snapshot(u) == /\ At(u, "snapshot")
               /\ Reads(u, Inline, "inline")
               /\ UNCHANGED <<rows, plan, github, disconnect, closed, faults>>

Drop(u, r) == Becomes(u, [run[u] EXCEPT !.todo = @ \ {r}])

\* The deadline's signal, a closed job or a backoff stop the loop.
SendStops(u) == /\ At(u, "send")
                /\ \/ run[u].aborted
                   \/ ~closed /\ ~Open /\ run[u].todo # {}
                   \/ ~closed /\ \E r \in run[u].held \cap run[u].todo : ~(old /\ r \in Inline)
                /\ Leave(u)
                /\ UNCHANGED <<rows, plan, github, disconnect, closed, faults>>

\* The window closed since the rows were read.
SendTooLate(u) == \E r \in run[u].todo :
                     /\ At(u, "send") /\ ~run[u].aborted /\ closed
                     /\ SetState({r}, {"READY"}, "OMITTED")
                     /\ Drop(u, r)
                     /\ OnlyState
                     /\ UNCHANGED <<plan, github, disconnect, closed, faults>>

\* An inline comment of an old plan has no proven location.
SendUnproven(u) == \E r \in run[u].todo \cap Inline :
                      /\ At(u, "send") /\ ~run[u].aborted /\ ~closed /\ old /\ Open
                      /\ SetState({r}, {"READY"}, "OMITTED")
                      /\ unproven' = IF state[r] = "READY" THEN unproven \cup {r} ELSE unproven
                      /\ Drop(u, r)
                      /\ UNCHANGED <<claim, leased, attempts, plan, github, disconnect,
                                     closed, faults>>

\* Mutant of Claim: the row is claimed whatever its state is by now.
ClaimBlindly(u) == \E r \in run[u].todo \ run[u].held :
    /\ At(u, "send") /\ ~run[u].aborted /\ ~closed /\ Open
    /\ state' = [state EXCEPT ![r] = "SENDING"]
    /\ attempts' = [attempts EXCEPT ![r] = @ + 1]
    /\ claim' = [claim EXCEPT ![r] = attempts[r] + 1]
    /\ leased' = leased \cup {r}
    /\ Becomes(u, [run[u] EXCEPT !.pc = "recheck", !.row = r, !.todo = @ \ {r},
                                 !.claim = attempts[r] + 1])
    /\ UNCHANGED <<unproven, plan, github, disconnect, closed, faults>>

\* The claim: a fresh token and a lease, if the row is still ready.
Claim(u) == \E r \in run[u].todo \ run[u].held :
               /\ At(u, "send") /\ ~run[u].aborted /\ ~closed /\ Open
               /\ ~(old /\ r \in Inline)
               /\ \/ /\ state[r] = "READY"
                     /\ state' = [state EXCEPT ![r] = "SENDING"]
                     /\ attempts' = [attempts EXCEPT ![r] = @ + 1]
                     /\ claim' = [claim EXCEPT ![r] = attempts[r] + 1]
                     /\ leased' = leased \cup {r}
                     /\ Becomes(u, [run[u] EXCEPT !.pc = "recheck", !.row = r, !.todo = @ \ {r},
                                                  !.claim = attempts[r] + 1])
                     /\ UNCHANGED unproven
                  \/ /\ state[r] # "READY"
                     /\ Drop(u, r)
                     /\ UNCHANGED rows
               /\ UNCHANGED <<plan, github, disconnect, closed, faults>>

\* The row is still the claim's.
Mine(u) == claim[run[u].row] = run[u].claim

\* Done with the row, on to the next.
Release(u) == Becomes(u, [run[u] EXCEPT !.pc = "send", !.row = None, !.claim = 0,
                                        !.answer = "none"])

\* A second transaction looks at job, claim and lease again before the request.
Recheck(u) ==
    LET r == run[u].row IN
    /\ At(u, "recheck")
    /\ \/ ~Open /\ Leave(u)
       \/ /\ Open
          /\ IF state[r] = "SENDING" /\ Mine(u) /\ r \in leased /\ ~run[u].aborted
             THEN IF r \in run[u].read THEN Goto(u, "post") ELSE Leave(u)
             ELSE Release(u)
    /\ UNCHANGED <<rows, plan, github, disconnect, closed, faults>>

Request(u) == [row |-> run[u].row, claim |-> run[u].claim]

Post(u) == /\ At(u, "post")
           /\ wire' = wire \cup {Request(u)}
           /\ Goto(u, "call")
           /\ UNCHANGED <<rows, plan, posted, disconnect, closed, faults>>

Hears(u, answer) == Becomes(u, [run[u] EXCEPT !.pc = "answer", !.answer = answer])

\* GitHub takes the comment, or refuses it for good or for now, and says so.
Reply(u) == /\ At(u, "call") /\ Request(u) \in wire
            /\ wire' = wire \ {Request(u)}
            /\ \/ /\ posted' = [posted EXCEPT ![run[u].row] = @ + 1]
                  /\ Hears(u, "ok")
               \/ /\ \E refusal \in {"REJECTED", "RETRYABLE"} : Hears(u, refusal)
                  /\ UNCHANGED posted
            /\ UNCHANGED <<rows, plan, disconnect, closed, faults>>

\* No usable answer: the request was lost, or will still be handled, or was.
NoReply(u) == /\ At(u, "call")
              /\ Hears(u, "UNKNOWN")
              /\ UNCHANGED <<rows, plan, github, disconnect, closed, faults>>

\* A request nobody waits for reaches GitHub, or never does.
Arrives(m) == /\ m \in wire
              /\ \A u \in Executions : At(u, "call") => Request(u) # m
              /\ wire' = wire \ {m}
              /\ posted' \in {posted, [posted EXCEPT ![m.row] = @ + 1]}
              /\ UNCHANGED <<rows, plan, run, disconnect, closed, faults>>

\* GitHub asked to come back later, and the row has requests left.
Again(u) == run[u].answer = "RETRYABLE" /\ run[u].claim < MaxAttempts

\* The state an answer leads to.
Outcome(u) == IF run[u].answer = "ok" THEN "DELIVERED"
              ELSE IF Again(u) THEN "READY"
              ELSE IF run[u].answer = "RETRYABLE" THEN "OMITTED"
              ELSE run[u].answer

\* The answer is written to the row if it is still the claim's and not settled.
Answer(u) ==
    LET r == run[u].row
        writes == Mine(u) /\ state[r] \in {"SENDING", "UNKNOWN"} IN
    /\ At(u, "answer")
    /\ IF writes
       THEN /\ state' = [state EXCEPT ![r] = Outcome(u)]
            /\ leased' = leased \ {r}
            /\ claim' = IF Again(u) THEN [claim EXCEPT ![r] = 0] ELSE claim
       ELSE UNCHANGED <<state, leased, claim>>
    /\ IF Again(u) THEN Leave(u) ELSE Release(u)
    /\ UNCHANGED <<attempts, unproven, plan, github, disconnect, closed, faults>>

-------------------------------------------------------------------------------
(* The summary, after the inline comments *)

\* Mutant of InlineDone: pending comments do not hold the summary back.
InlineAnyhow(u) == /\ At(u, "send") /\ run[u].stage = "inline" /\ run[u].todo = {}
                   /\ Goto(u, "compose")
                   /\ UNCHANGED <<rows, plan, github, disconnect, closed, faults>>

\* Every inline comment has to be settled before the summary is considered.
InlineDone(u) == /\ At(u, "send") /\ run[u].stage = "inline" /\ run[u].todo = {}
                 /\ IF Pending \cap Inline = {} THEN Goto(u, "compose") ELSE Leave(u)
                 /\ UNCHANGED <<rows, plan, github, disconnect, closed, faults>>

\* A plan without summary gets one when a finding has no location.
AddSummary(u) == /\ At(u, "compose") /\ NeedsLocationSummary /\ Open
                 /\ state' = [state EXCEPT ![Summary] = "WAITING"]
                 /\ OnlyState
                 /\ UNCHANGED <<plan, github, run, disconnect, closed, faults>>

\* The body is written once; from then on the summary is a comment like another.
WriteSummary(u) == /\ At(u, "compose") /\ state[Summary] = "WAITING" /\ Open
                   /\ SetState({Summary}, {"WAITING"}, "READY")
                   /\ bodies' = bodies \cup {Summary}
                   /\ Goto(u, "summary")
                   /\ OnlyState
                   /\ UNCHANGED <<old, stored, ended, active, github, disconnect, closed, faults>>

ComposeStops(u) == /\ At(u, "compose") /\ ~Open
                   /\ NeedsLocationSummary \/ state[Summary] = "WAITING"
                   /\ Leave(u)
                   /\ UNCHANGED <<rows, plan, github, disconnect, closed, faults>>

NoSummaryToWrite(u) == /\ At(u, "compose")
                       /\ ~NeedsLocationSummary /\ state[Summary] # "WAITING"
                       /\ Goto(u, "summary")
                       /\ UNCHANGED <<rows, plan, github, disconnect, closed, faults>>

SendSummary(u) == /\ At(u, "summary")
                  /\ Reads(u, {Summary}, "summary")
                  /\ UNCHANGED <<rows, plan, github, disconnect, closed, faults>>

\* Finished, or pending and to be delivered again later.
SummaryDone(u) == /\ At(u, "send") /\ run[u].stage = "summary" /\ run[u].todo = {}
                  /\ IF Pending = {} THEN Goto(u, "finish") ELSE Leave(u)
                  /\ UNCHANGED <<rows, plan, github, disconnect, closed, faults>>

\* finishDelivery and recordJobFindings complete the review, or refuse: a row may
\* have become sendable again since the rows were read.
Complete(u) == /\ At(u, "finish")
               /\ ended' = (ended \/ (active /\ ~run[u].aborted /\ Pending = {}))
               /\ Leave(u)
               /\ UNCHANGED <<rows, old, stored, bodies, active, github, disconnect, closed, faults>>

-------------------------------------------------------------------------------
(* What may happen meanwhile *)

\* A call fails or the process dies; a request that left is still on its way.
Dies(u) == /\ ~At(u, "idle") /\ Fault
           /\ Leave(u)
           /\ UNCHANGED <<rows, plan, github, disconnect, closed>>

\* The deadline of the attempt: its signal is set and the review timed out, if
\* that can be written; the execution goes on.
Abort(u) == /\ ~At(u, "idle") /\ ~run[u].aborted
            /\ Becomes(u, [run[u] EXCEPT !.aborted = TRUE])
            /\ \/ ended' = TRUE /\ UNCHANGED faults
               \/ Fault /\ UNCHANGED ended
            /\ UNCHANGED <<rows, old, stored, bodies, active, github, disconnect, closed>>

\* The user cancels, or recovery stops the review.
Stop == /\ ~ended
        /\ ended' = TRUE
        /\ UNCHANGED <<rows, old, stored, bodies, active, github, run, disconnect, closed, faults>>

\* deactivate: the repository becomes inactive, its open reviews are cancelled if
\* it still is, and the payloads go.  A reconnect may come at any point.
Deactivate == /\ Disconnects /\ active /\ disconnect = "idle"
              /\ active' = FALSE
              /\ disconnect' = "cancel"
              /\ UNCHANGED <<rows, old, stored, bodies, ended, github, run, closed, faults>>

CancelDisconnected == /\ disconnect = "cancel"
                      /\ ended' = (ended \/ ~active)
                      /\ disconnect' = "purge"
                      /\ UNCHANGED <<rows, old, stored, bodies, active, github, run, closed, faults>>

\* Mutant of Purge: what is being sent counts as not sent.
PurgeAll == /\ disconnect = "purge"
            /\ disconnect' = "done"
            /\ SetState(Rows, {"READY", "WAITING", "SENDING"}, "OMITTED")
            /\ leased' = {}
            /\ stored' = FALSE /\ bodies' = {}
            /\ UNCHANGED <<claim, attempts, unproven>>
            /\ UNCHANGED <<old, ended, active, github, run, closed, faults>>

\* purgeRepositoryDeliveryPayloads: what was not sent never is, what is being
\* sent is in doubt.
Purge == /\ disconnect = "purge"
         /\ disconnect' = "done"
         /\ state' = [r \in Rows |-> IF state[r] \in {"READY", "WAITING"} THEN "OMITTED"
                                     ELSE IF state[r] = "SENDING" THEN "UNKNOWN" ELSE state[r]]
         /\ leased' = {}
         /\ stored' = FALSE /\ bodies' = {}
         /\ UNCHANGED <<claim, attempts, unproven>>
         /\ UNCHANGED <<old, ended, active, github, run, closed, faults>>

Reconnect == /\ ~active
             /\ active' = TRUE
             /\ UNCHANGED <<rows, old, stored, bodies, ended, github, run, disconnect, closed, faults>>

\* purgeExpiredDeliveryPayloads, for a review long finished or disconnected.
ExpirePayloads == /\ stored /\ ~Open
                  /\ stored' = FALSE /\ bodies' = {}
                  /\ UNCHANGED <<rows, old, ended, active, github, run, disconnect, closed, faults>>

LeaseOver(r) == /\ r \in leased
                /\ leased' = leased \ {r}
                /\ UNCHANGED <<state, claim, attempts, unproven, plan, github, run, disconnect,
                               closed, faults>>

CloseWindow == /\ ~closed
               /\ closed' = TRUE
               /\ UNCHANGED <<rows, plan, github, run, disconnect, faults>>

-------------------------------------------------------------------------------
\* What an execution does by itself once it has started.
Proceed(u) == \/ ExpireClaims(u) \/ List(u) \/ Confirm(u) \/ Checked(u) \/ Screen(u)
              \/ Snapshot(u) \/ SendStops(u) \/ SendTooLate(u) \/ SendUnproven(u) \/ Claim(u)
              \/ Recheck(u) \/ Post(u) \/ Reply(u) \/ NoReply(u) \/ Answer(u)
              \/ InlineDone(u) \/ AddSummary(u) \/ WriteSummary(u) \/ ComposeStops(u)
              \/ NoSummaryToWrite(u) \/ SendSummary(u) \/ SummaryDone(u) \/ Complete(u)

Attempt(u) == Start(u) \/ StartSettled(u)

Repository == Deactivate \/ CancelDisconnected \/ Purge \/ Reconnect \/ ExpirePayloads

Next == \/ \E u \in Runs : Attempt(u) \/ Abort(u)
        \/ \E u \in Checks : Check(u)
        \/ \E u \in Executions : Proceed(u) \/ Dies(u)
        \/ \E m \in wire : Arrives(m)
        \/ \E r \in Rows : LeaseOver(r)
        \/ Repository \/ Stop \/ CloseWindow

\* No two attempts are under way.
Lone == \A u, v \in Runs : run[u].pc # "idle" /\ run[v].pc # "idle" => u = v

Remember == overlapped' = (overlapped \/ ~Lone')

Spec == Init /\ [][Next /\ Remember]_<<vars, overlapped>>

\* An execution goes on, the queue starts another attempt of an open review, and
\* time passes.  Nobody has to cancel, disconnect, check or fail.
Fairness == /\ \A u \in Executions : WF_vars(Proceed(u))
            /\ WF_vars(\E u \in Runs : Attempt(u))
            /\ \A r \in Rows : WF_vars(LeaseOver(r))
            /\ WF_vars(CloseWindow)

FairSpec == Spec /\ Fairness

-------------------------------------------------------------------------------
(* Properties *)

Places == {"idle", "expire", "list", "confirm", "screen", "snapshot", "send", "recheck", "post",
           "call", "answer", "compose", "summary", "finish"}
Answers == {"none", "ok", "REJECTED", "RETRYABLE", "UNKNOWN"}
ExecutionStates == [pc : Places, stage : {"inline", "summary"},
               todo : SUBSET Rows, held : SUBSET Rows, found : SUBSET Rows, read : SUBSET Rows,
               row : Rows \cup {None}, claim : Nat, answer : Answers, aborted : BOOLEAN]

\* Where an execution holds a claim on a row.
Sending == {"recheck", "post", "call", "answer"}

RowsOK == /\ state \in [Rows -> States]
          /\ claim \in [Rows -> Nat]
          /\ leased \subseteq Rows
          /\ attempts \in [Rows -> Nat]
          /\ unproven \subseteq Inline

PlanOK == /\ old \in BOOLEAN /\ stored \in BOOLEAN /\ ended \in BOOLEAN /\ active \in BOOLEAN
          /\ bodies \subseteq Rows

GitHubOK == /\ wire \subseteq [row : Rows, claim : Nat]
            /\ posted \in [Rows -> Nat]

RunsOK == /\ run \in [Executions -> ExecutionStates]
          /\ \A u \in Executions : (run[u].pc \in Sending) <=> (run[u].row # None)

\* Every variable has its type, and an execution has a row exactly while it holds
\* a claim.
TypeOK == /\ RowsOK /\ PlanOK /\ GitHubOK /\ RunsOK
          /\ disconnect \in {"idle", "cancel", "purge", "done"}
          /\ closed \in BOOLEAN
          /\ faults \in 0..MaxFaults

Requests(r) == {m \in wire : m.row = r}

\* A comment is on GitHub at most once, counting the request that may still get
\* there: expired claims, lost answers, crashes and overlapping attempts never
\* lead to a second POST of a comment that may have been accepted.
PostedOnce == \A r \in Rows : posted[r] + Cardinality(Requests(r)) <= 1

\* A row that may still be sent, or is said never to have been sent, is neither
\* on GitHub nor on its way there, and nobody is about to send it.
SafeToSend == \A r \in Rows :
    state[r] \in {"NONE", "WAITING", "READY", "REJECTED", "OMITTED"}
       => /\ posted[r] = 0 /\ Requests(r) = {}
          /\ \A u \in Executions : run[u].row = r => run[u].pc \notin {"post", "call"}

\* As long as no two attempts have overlapped, the summary is written when every inline
\* comment is settled, so that it reports each of them (deliverReviewPlan).  With two, a late
\* rate-limit answer of one may make an inline comment pending again after the other wrote it.
InlineFirstAlone ==
    \/ overlapped
    \/ (state[Summary] \in {"READY", "SENDING"} \/ Requests(Summary) # {}) => Pending \cap Inline = {}

\* The promise of CommentContract: receipts are true, and settled for good.
C == INSTANCE CommentContract WITH
        Comments <- Rows,
        accepted <- [r \in Rows |-> posted[r] # 0],
        receipt  <- [r \in Rows |->
                       IF state[r] = "DELIVERED" THEN "delivered"
                       ELSE IF state[r] \in {"REJECTED", "OMITTED"} THEN "refused"
                       ELSE IF state[r] = "UNKNOWN" THEN "unconfirmed" ELSE "open"]

\* Every step of delivery, reconciliation and purge is one of the contract.
KeepsContract == C!Safety

\* While its repository stays connected every review with a plan ends: pending
\* comments are sent, rejected, given up on or left unconfirmed.
DeliveryEnds == <>(ended \/ ~active)

\* "Claims expire after 30 seconds and become unconfirmed rather than sendable"
\* (docs), and a disconnect does not "reset an uncertain send" (comment).
UnconfirmedStays ==
    [][\A r \in Rows : state[r] = "UNKNOWN" => state'[r] # "READY"]_vars
===============================================================================
