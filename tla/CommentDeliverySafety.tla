------------------------ MODULE CommentDeliverySafety ------------------------
(***************************************************************************)
(* The safety of comment delivery, for any plan, any number of overlapping  *)
(* executions and any faults: no comment is posted twice, a row that may    *)
(* still be sent is not on GitHub, receipts keep CommentContract, and the   *)
(* summary comes last as long as attempts do not overlap.                   *)
(*                                                                          *)
(* The argument is that of a token.  A row has at most one holder, whose    *)
(* claim is the row's latest; whatever is on the wire belongs to that claim *)
(* too; and a row leaves the states in which it has neither only by Claim.  *)
(***************************************************************************)
EXTENDS CommentDelivery, FiniteSetTheorems, TLAPS

-------------------------------------------------------------------------------
(* Types *)

\* An answer is there exactly while it is being written.
Answered == \A u \in Executions : run[u].answer = "none" <=> run[u].pc # "answer"

Typed == TypeOK /\ Answered

\* An execution that has not started.
LEMMA IdleRunType == /\ IdleRun \in ExecutionStates
                     /\ IdleRun.pc = "idle" /\ IdleRun.row = None
                     /\ IdleRun.answer = "none" /\ IdleRun.found = {}
BY DEF IdleRun, ExecutionStates, Places, Answers

\* One execution goes on; the others stay as they are.
LEMMA BecomesType ==
    ASSUME RunsOK, Answered, NEW u \in Executions, NEW a \in ExecutionStates, Becomes(u, a),
           a.pc \in Sending <=> a.row # None, a.answer = "none" <=> a.pc # "answer"
    PROVE  RunsOK' /\ Answered'
BY DEF RunsOK, Answered, Becomes

\* An execution that goes elsewhere keeps what it has read and what it holds.
LEMMA GotoType ==
    ASSUME RunsOK, Answered, NEW u \in Executions, NEW pc \in Places \ {"answer"}, Goto(u, pc),
           run[u].pc # "answer", run[u].pc \in Sending <=> pc \in Sending
    PROVE  RunsOK' /\ Answered'
<1> DEFINE a == [run[u] EXCEPT !.pc = pc]
<1>1. a \in ExecutionStates /\ a.pc = pc /\ a.row = run[u].row /\ a.answer = run[u].answer
  BY DEF RunsOK, ExecutionStates
<1>2. QED  BY <1>1, BecomesType DEF Goto, RunsOK, Answered

\* An execution that returns or throws.
LEMMA LeaveType ==
    ASSUME RunsOK, Answered, NEW u \in Executions, Leave(u)
    PROVE  RunsOK' /\ Answered'
BY IdleRunType, BecomesType DEF Leave, Sending

\* Done with a row, an execution holds none.
LEMMA ReleaseType ==
    ASSUME RunsOK, Answered, NEW u \in Executions, Release(u)
    PROVE  RunsOK' /\ Answered'
<1> DEFINE a == [run[u] EXCEPT !.pc = "send", !.row = None, !.claim = 0, !.answer = "none"]
<1>0. run[u] \in ExecutionStates
  BY DEF RunsOK
<1>1. a \in ExecutionStates /\ a.pc = "send" /\ a.row = None /\ a.answer = "none"
  BY <1>0 DEF ExecutionStates, Places, Answers
<1>2. QED  BY <1>1, BecomesType DEF Release, Sending

\* A row that need not be sent is dropped from what was read.
LEMMA DropType ==
    ASSUME RunsOK, Answered, NEW u \in Executions, NEW r, Drop(u, r)
    PROVE  RunsOK' /\ Answered'
<1> DEFINE a == [run[u] EXCEPT !.todo = @ \ {r}]
<1>1. /\ a \in ExecutionStates
      /\ a.pc = run[u].pc /\ a.row = run[u].row /\ a.answer = run[u].answer
  BY DEF RunsOK, ExecutionStates
<1>2. QED  BY <1>1, BecomesType DEF Drop, RunsOK, Answered

\* The rows to send are read by an execution that holds none.
LEMMA ReadsType ==
    ASSUME RunsOK, Answered, NEW u \in Executions, NEW set \in SUBSET Rows,
           NEW stage \in {"inline", "summary"}, Reads(u, set, stage),
           run[u].pc \notin Sending
    PROVE  RunsOK' /\ Answered'
<1> DEFINE ready == {r \in set : state[r] = "READY"}
           a(held) == [run[u] EXCEPT !.pc = "send", !.stage = stage, !.todo = ready,
                                     !.held = held, !.read = ready \cap bodies]
<1>1. PICK held \in SUBSET Rows : Becomes(u, a(held))
  BY DEF Reads
<1>0. run[u] \in ExecutionStates /\ ready \in SUBSET Rows /\ ready \cap bodies \in SUBSET Rows
  BY DEF RunsOK
<1> HIDE DEF ready
<1>2. /\ a(held) \in ExecutionStates
      /\ a(held).pc = "send" /\ a(held).row = run[u].row /\ a(held).answer = run[u].answer
  BY <1>0 DEF ExecutionStates, Places
<1>3. run[u].row = None /\ run[u].answer = "none"
  BY DEF RunsOK, Answered, Sending
<1>4. QED  BY <1>1, <1>2, <1>3, BecomesType DEF Sending

\* An answer, or none that can be used.
LEMMA HearsType ==
    ASSUME RunsOK, Answered, NEW u \in Executions, At(u, "call"),
           NEW answer \in Answers \ {"none"}, Hears(u, answer)
    PROVE  RunsOK' /\ Answered'
<1> DEFINE a == [run[u] EXCEPT !.pc = "answer", !.answer = answer]
<1>1. a \in ExecutionStates /\ a.pc = "answer" /\ a.row = run[u].row /\ a.answer = answer
  BY DEF RunsOK, ExecutionStates, Places
<1>2. QED  BY <1>1, BecomesType DEF Hears, RunsOK, At, Sending

\* updateMany writes states.
LEMMA SetStateType ==
    ASSUME RowsOK, NEW set, NEW from, NEW to \in States, SetState(set, from, to)
    PROVE  state' \in [Rows -> States]
BY DEF RowsOK, SetState

\* Nothing outside the executions changes.
LEMMA RestSame ==
    ASSUME TypeOK, UNCHANGED <<rows, plan, github, disconnect, closed>>, faults' \in 0..MaxFaults,
           RunsOK'
    PROVE  TypeOK'
BY DEF TypeOK, RowsOK, PlanOK, GitHubOK, rows, plan, github

\* A failing call is counted, up to the bound.
LEMMA FaultType == ASSUME TypeOK, Fault PROVE faults' \in 0..MaxFaults
BY LimitAssumption DEF TypeOK, Fault

-------------------------------------------------------------------------------
(* Types: one lemma per group of actions *)

\* The start of an execution, and what only moves it.
LEMMA MoveType ==
    ASSUME Typed, NEW u \in Executions,
           \/ Start(u) \/ StartSettled(u) \/ Check(u) \/ Checked(u) \/ SendStops(u)
           \/ InlineDone(u) \/ ComposeStops(u) \/ NoSummaryToWrite(u) \/ SummaryDone(u)
    PROVE  Typed'
<1> USE DEF Typed
<1>1. RunsOK /\ Answered
  BY DEF TypeOK
<1>2. Leave(u) => RunsOK' /\ Answered'
  BY <1>1, LeaveType
<1>3. ASSUME NEW pc \in {"expire", "finish", "screen", "compose", "summary"}, Goto(u, pc),
             run[u].pc \notin Sending
      PROVE  RunsOK' /\ Answered'
  <2>1. pc \in Places \ {"answer"} /\ pc \notin Sending /\ run[u].pc # "answer"
    BY <1>3 DEF Places, Sending
  <2>2. QED  BY <1>1, <1>3, <2>1, GotoType
<1>4. Leave(u) \/ \E pc \in {"expire", "finish", "screen", "compose", "summary"} : Goto(u, pc)
  BY DEF Start, StartSettled, Check, Checked, SendStops, InlineDone, ComposeStops,
     NoSummaryToWrite, SummaryDone
<1>5. run[u].pc \notin Sending /\ UNCHANGED <<rows, plan, github, disconnect, closed, faults>>
  BY DEF Start, StartSettled, Check, Checked, SendStops, InlineDone, ComposeStops,
     NoSummaryToWrite, SummaryDone, At, Sending
<1>6. RunsOK' /\ Answered'
  BY <1>2, <1>3, <1>4, <1>5
<1>7. QED  BY <1>5, <1>6, RestSame DEF TypeOK

\* Reconciliation with GitHub.
LEMMA ReconcileType ==
    ASSUME Typed, NEW u \in Executions,
           ExpireClaims(u) \/ List(u) \/ Confirm(u) \/ Screen(u)
    PROVE  Typed'
<1> USE DEF Typed
<1>1. RunsOK /\ Answered /\ run[u] \in ExecutionStates
  BY DEF TypeOK, RunsOK
<1>2. CASE ExpireClaims(u)
  <2>1. RunsOK' /\ Answered'
    BY <1>1, <1>2, GotoType DEF ExpireClaims, At, Places, Sending
  <2>2. QED
    BY <1>2, <2>1, SetStateType DEF ExpireClaims, OnlyState, States, Settled, TypeOK, RowsOK,
       PlanOK, GitHubOK, plan, github
<1>3. CASE List(u)
  <2>1. PICK found \in SUBSET Rows : Becomes(u, [run[u] EXCEPT !.pc = "confirm", !.found = found])
    BY <1>3 DEF List, Listings
  <2> DEFINE a == [run[u] EXCEPT !.pc = "confirm", !.found = found]
  <2>2. a \in ExecutionStates /\ a.pc = "confirm" /\ a.row = run[u].row /\ a.answer = run[u].answer
    BY <1>1 DEF ExecutionStates, Places
  <2>3. run[u].row = None /\ run[u].answer = "none"
    BY <1>1, <1>3 DEF List, Listings, At, Answered, RunsOK, Sending
  <2>4. RunsOK' /\ Answered'
    BY <1>1, <2>1, <2>2, <2>3, BecomesType DEF Sending
  <2>5. QED  BY <1>3, <2>4, RestSame DEF List, Listings, TypeOK
<1>4. CASE Confirm(u)
  <2>1. PICK r \in Rows : /\ SetState({r}, {"UNKNOWN"}, "DELIVERED")
                          /\ Becomes(u, [run[u] EXCEPT !.found = @ \ {r}])
    BY <1>1, <1>4 DEF Confirm, ExecutionStates
  <2> DEFINE a == [run[u] EXCEPT !.found = @ \ {r}]
  <2>2. /\ a \in ExecutionStates
        /\ a.pc = run[u].pc /\ a.row = run[u].row /\ a.answer = run[u].answer
    BY <1>1 DEF ExecutionStates
  <2>3. RunsOK' /\ Answered'
    BY <1>1, <2>1, <2>2, BecomesType DEF RunsOK, Answered
  <2>4. QED
    BY <1>4, <2>1, <2>3, SetStateType DEF Confirm, OnlyState, States, Settled, Terminal, TypeOK,
       RowsOK, PlanOK, GitHubOK, plan, github
<1>5. CASE Screen(u)
  <2>1. RunsOK' /\ Answered'
    BY <1>1, <1>5, GotoType DEF Screen, At, Places, Sending
  <2>2. state' \in [Rows -> States]
    BY <1>5, SetStateType DEF Screen, States, Settled, Terminal, TypeOK, RowsOK
  <2>3. QED
    BY <1>5, <2>1, <2>2 DEF Screen, OnlyState, TypeOK, RowsOK, PlanOK, GitHubOK, plan, github
<1>6. QED  BY <1>2, <1>3, <1>4, <1>5

\* Reading the rows to send, and giving up on them.
LEMMA ReadType ==
    ASSUME Typed, NEW u \in Executions,
           Snapshot(u) \/ SendSummary(u) \/ SendTooLate(u) \/ SendUnproven(u)
    PROVE  Typed'
<1> USE DEF Typed
<1>1. RunsOK /\ Answered /\ Inline \in SUBSET Rows /\ {Summary} \in SUBSET Rows
  BY DEF TypeOK, Rows
<1>2. CASE Snapshot(u) \/ SendSummary(u)
  <2>1. RunsOK' /\ Answered'
    BY <1>1, <1>2, ReadsType DEF Snapshot, SendSummary, At, Sending
  <2>2. QED  BY <1>2, <2>1, RestSame DEF Snapshot, SendSummary, TypeOK
<1>3. CASE SendTooLate(u) \/ SendUnproven(u)
  <2>1. RunsOK' /\ Answered'
    BY <1>1, <1>3, DropType DEF SendTooLate, SendUnproven
  <2>2. state' \in [Rows -> States]
    BY <1>3, SetStateType DEF SendTooLate, SendUnproven, States, Settled, Terminal, TypeOK, RowsOK
  <2>3. unproven' \subseteq Inline
    BY <1>3 DEF SendTooLate, SendUnproven, OnlyState, TypeOK, RowsOK
  <2>4. QED
    BY <1>3, <2>1, <2>2, <2>3 DEF SendTooLate, SendUnproven, OnlyState, TypeOK, RowsOK, PlanOK,
       GitHubOK, plan, github
<1>4. QED  BY <1>2, <1>3

\* The claim of a row, or the news that it is not ready any more.
LEMMA ClaimType == ASSUME Typed, NEW u \in Executions, Claim(u) PROVE Typed'
<1> USE DEF Typed
<1>1. RunsOK /\ Answered /\ run[u] \in ExecutionStates
  BY DEF TypeOK, RunsOK
<1>2. PICK r \in Rows :
         \/ /\ state' = [state EXCEPT ![r] = "SENDING"]
            /\ attempts' = [attempts EXCEPT ![r] = @ + 1]
            /\ claim' = [claim EXCEPT ![r] = attempts[r] + 1]
            /\ leased' = leased \cup {r}
            /\ Becomes(u, [run[u] EXCEPT !.pc = "recheck", !.row = r, !.todo = @ \ {r},
                                         !.claim = attempts[r] + 1])
            /\ UNCHANGED unproven
         \/ Drop(u, r) /\ UNCHANGED rows
  BY <1>1 DEF Claim, ExecutionStates
<1>3. CASE Drop(u, r) /\ UNCHANGED rows
  BY <1>1, <1>3, DropType, RestSame DEF Claim, TypeOK
<1>4. CASE ~(Drop(u, r) /\ UNCHANGED rows)
  <2> DEFINE a == [run[u] EXCEPT !.pc = "recheck", !.row = r, !.todo = @ \ {r},
                                 !.claim = attempts[r] + 1]
  <2>1. attempts[r] + 1 \in Nat /\ "SENDING" \in States
    BY DEF TypeOK, RowsOK, States
  <2>2. a \in ExecutionStates /\ a.pc = "recheck" /\ a.row = r /\ a.answer = run[u].answer
    BY <1>1, <2>1 DEF ExecutionStates, Places
  <2>3. run[u].answer = "none" /\ r # None
    BY <1>1, RowsAssumption DEF Claim, At, Answered, Rows
  <2>4. RunsOK' /\ Answered'
    BY <1>1, <1>2, <1>4, <2>2, <2>3, BecomesType DEF Sending
  <2>5. RowsOK'
    BY <1>2, <1>4, <2>1 DEF TypeOK, RowsOK
  <2>6. QED  BY <2>4, <2>5 DEF Claim, TypeOK, PlanOK, GitHubOK, plan, github
<1>5. QED  BY <1>3, <1>4

\* The recheck, and the request that leaves.
LEMMA RequestType == ASSUME Typed, NEW u \in Executions, Recheck(u) \/ Post(u) PROVE Typed'
<1> USE DEF Typed
<1>1. RunsOK /\ Answered /\ run[u] \in ExecutionStates
  BY DEF TypeOK, RunsOK
<1>2. CASE Recheck(u)
  <2>1. Goto(u, "post") => RunsOK' /\ Answered'
    BY <1>1, <1>2, GotoType DEF Recheck, At, Places, Sending
  <2>2. RunsOK' /\ Answered'
    BY <1>1, <1>2, <2>1, LeaveType, ReleaseType DEF Recheck
  <2>3. QED  BY <1>2, <2>2, RestSame DEF Recheck, TypeOK
<1>3. CASE Post(u)
  <2>1. RunsOK' /\ Answered'
    BY <1>1, <1>3, GotoType DEF Post, At, Places, Sending
  <2>2. run[u].row \in Rows /\ run[u].claim \in Nat
    BY <1>1, <1>3 DEF Post, At, RunsOK, Sending, ExecutionStates
  <2>3. wire' \subseteq [row : Rows, claim : Nat]
    BY <1>3, <2>2 DEF Post, Request, TypeOK, GitHubOK
  <2>4. QED  BY <1>3, <2>1, <2>3 DEF Post, TypeOK, RowsOK, PlanOK, GitHubOK, rows, plan
<1>4. QED  BY <1>2, <1>3

\* GitHub's reply, or none.
LEMMA ReplyType == ASSUME Typed, NEW u \in Executions, Reply(u) \/ NoReply(u) PROVE Typed'
<1> USE DEF Typed
<1>1. RunsOK /\ Answered /\ run[u] \in ExecutionStates
  BY DEF TypeOK, RunsOK
<1>2. \E answer \in Answers \ {"none"} : Hears(u, answer)
  BY DEF Reply, NoReply, Answers
<1>3. RunsOK' /\ Answered'
  BY <1>1, <1>2, HearsType DEF Reply, NoReply
<1>4. GitHubOK'
  BY DEF Reply, NoReply, github, TypeOK, GitHubOK
<1>5. QED
  BY <1>3, <1>4 DEF Reply, NoReply, TypeOK, RowsOK, PlanOK, github, rows, plan

\* The answer is written to the row.
LEMMA AnswerType == ASSUME Typed, NEW u \in Executions, Answer(u) PROVE Typed'
<1> USE DEF Typed
<1>1. RunsOK /\ Answered /\ run[u] \in ExecutionStates
  BY DEF TypeOK, RunsOK
<1>2. RunsOK' /\ Answered'
  BY <1>1, LeaveType, ReleaseType DEF Answer
<1>3. Outcome(u) \in States
  BY <1>1 DEF Answer, At, Answered, Outcome, ExecutionStates, Answers, States, Settled, Terminal
<1>4. RowsOK'
  BY <1>3 DEF Answer, TypeOK, RowsOK
<1>5. QED  BY <1>2, <1>4 DEF Answer, TypeOK, PlanOK, GitHubOK, plan, github

\* The summary and the completion.
LEMMA SummaryType ==
    ASSUME Typed, NEW u \in Executions, AddSummary(u) \/ WriteSummary(u) \/ Complete(u)
    PROVE  Typed'
<1> USE DEF Typed
<1>1. RunsOK /\ Answered /\ Summary \in Rows
  BY DEF TypeOK, Rows
<1>2. CASE AddSummary(u)
  BY <1>2 DEF AddSummary, OnlyState, Answered, States, TypeOK, RowsOK, PlanOK, GitHubOK, RunsOK,
     plan, github
<1>3. CASE WriteSummary(u)
  <2>1. RunsOK' /\ Answered'
    BY <1>1, <1>3, GotoType DEF WriteSummary, At, Places, Sending
  <2>2. QED
    BY <1>1, <1>3, <2>1, SetStateType DEF WriteSummary, OnlyState, States, TypeOK, RowsOK, PlanOK,
       GitHubOK, github
<1>4. CASE Complete(u)
  <2>1. RunsOK' /\ Answered'
    BY <1>1, <1>4, LeaveType DEF Complete
  <2>2. QED  BY <1>4, <2>1 DEF Complete, TypeOK, RowsOK, PlanOK, GitHubOK, rows, github
<1>5. QED  BY <1>2, <1>3, <1>4

\* A failing call or a crash, and the deadline.
LEMMA FailureType ==
    ASSUME Typed, NEW u \in Executions, Dies(u) \/ Abort(u)
    PROVE  Typed'
<1> USE DEF Typed
<1>1. RunsOK /\ Answered /\ run[u] \in ExecutionStates
  BY DEF TypeOK, RunsOK
<1>2. CASE Dies(u)
  BY <1>1, <1>2, LeaveType, FaultType, RestSame DEF Dies
<1>3. CASE Abort(u)
  <2> DEFINE a == [run[u] EXCEPT !.aborted = TRUE]
  <2>1. /\ a \in ExecutionStates
        /\ a.pc = run[u].pc /\ a.row = run[u].row /\ a.answer = run[u].answer
    BY <1>1 DEF ExecutionStates
  <2>2. RunsOK' /\ Answered'
    BY <1>1, <1>3, <2>1, BecomesType DEF Abort, RunsOK, Answered
  <2>3. faults' \in 0..MaxFaults /\ ended' \in BOOLEAN
    BY <1>3, FaultType DEF Abort, TypeOK, PlanOK
  <2>4. QED  BY <1>3, <2>2, <2>3 DEF Abort, TypeOK, RowsOK, PlanOK, GitHubOK, rows, github
<1>4. QED  BY <1>2, <1>3

\* What the repository, the queue, GitHub and time do.
LEMMA MeanwhileType ==
    ASSUME Typed,
           \/ Repository \/ Stop \/ CloseWindow \/ (\E r \in Rows : LeaseOver(r))
           \/ \E m \in wire : Arrives(m)
    PROVE  Typed'
<1> USE DEF Typed
<1>1. CASE Purge
  <2>1. RowsOK'
    BY <1>1 DEF Purge, TypeOK, RowsOK, States, Settled, Terminal
  <2>2. QED
    BY <1>1, <2>1 DEF Purge, Answered, TypeOK, PlanOK, GitHubOK, RunsOK, github
<1>2. CASE Deactivate \/ CancelDisconnected \/ Reconnect \/ ExpirePayloads \/ Stop \/ CloseWindow
  BY <1>2 DEF Deactivate, CancelDisconnected, Reconnect, ExpirePayloads, Stop, CloseWindow,
     Answered, TypeOK, RowsOK, PlanOK, GitHubOK, RunsOK, rows, plan, github
<1>3. CASE \E r \in Rows : LeaseOver(r)
  BY <1>3 DEF LeaseOver, Answered, TypeOK, RowsOK, PlanOK, GitHubOK, RunsOK, plan, github
<1>4. CASE \E m \in wire : Arrives(m)
  <2>1. GitHubOK'
    BY <1>4 DEF Arrives, TypeOK, GitHubOK
  <2>2. QED  BY <1>4, <2>1 DEF Arrives, Answered, TypeOK, RowsOK, PlanOK, RunsOK, rows, plan
<1>5. QED  BY <1>1, <1>2, <1>3, <1>4 DEF Repository

\* Every step keeps every type.
LEMMA NextType == ASSUME Typed, [Next]_vars PROVE Typed'
<1>1. CASE UNCHANGED vars
  BY <1>1 DEF Typed, Answered, TypeOK, RowsOK, PlanOK, GitHubOK, RunsOK, vars, rows, plan, github
<1>2. ASSUME NEW u \in Executions, Attempt(u) \/ Abort(u) \/ Check(u) \/ Dies(u) PROVE Typed'
  BY <1>2, MoveType, FailureType DEF Attempt
<1>3. ASSUME NEW u \in Executions, Proceed(u) PROVE Typed'
  BY <1>3, MoveType, ReconcileType, ReadType, ClaimType, RequestType, ReplyType, AnswerType,
     SummaryType DEF Proceed
<1>4. QED  BY <1>1, <1>2, <1>3, MeanwhileType DEF Next, Executions

\* The initial states are well typed.
LEMMA InitType == ASSUME Init PROVE Typed
<1>1. RunsOK /\ Answered
  BY IdleRunType DEF Init, RunsOK, Answered, Sending
<1>2. RowsOK /\ PlanOK
  BY DEF Init, RowsOK, PlanOK, States, Settled, Terminal, Rows
<1>3. GitHubOK /\ faults \in 0..MaxFaults
  BY LimitAssumption DEF Init, GitHubOK
<1>4. QED  BY <1>1, <1>2, <1>3 DEF Init, Typed, TypeOK

\* A step that remembers whether attempts overlapped is one of delivery.
LEMMA StepIsNext == ASSUME [Next /\ Remember]_<<vars, overlapped>> PROVE [Next]_vars
OBVIOUS

\* Every variable of the delivery keeps its type, and an execution has a row
\* exactly while it holds a claim on it.
THEOREM TypeCorrect == Spec => []TypeOK
<1>1. Spec => []Typed
  BY InitType, NextType, StepIsNext, PTL DEF Spec
<1>2. Typed => TypeOK
  BY DEF Typed
<1>3. QED  BY <1>1, <1>2, PTL

-------------------------------------------------------------------------------
(* The inductive invariant *)

\* Where no request for the row can be on its way, and none was accepted.
Unsent == {"NONE", "WAITING", "READY", "REJECTED", "OMITTED"}

\* Two executions never hold claims on one row.
Sole == \A u, v \in Executions : run[u].row # None /\ run[u].row = run[v].row => u = v

\* What the place of an execution says of the row it holds.
Backed(u) == LET r == run[u].row IN
    /\ claim[r] = run[u].claim /\ attempts[r] = run[u].claim
    /\ state[r] \notin Unsent
    /\ run[u].pc \in {"recheck", "post"} => posted[r] = 0 /\ Requests(r) = {}
    /\ run[u].pc = "call" => Request(u) \in wire
    /\ run[u].answer = "ok" => posted[r] = 1
    /\ run[u].answer \in {"REJECTED", "RETRYABLE"} => posted[r] = 0 /\ Requests(r) = {}

\* The holder of a row has its latest claim.
Held == \A u \in Executions : run[u].row # None => Backed(u)

\* A request on its way belongs to the latest claim of its row, and is the first.
Outstanding == \A m \in wire : /\ m.claim = attempts[m.row]
                               /\ state[m.row] \in {"SENDING", "UNKNOWN"}
                               /\ posted[m.row] = 0

\* One comment at most, and the receipts are true.
Receipts == \A r \in Rows : /\ posted[r] \in {0, 1}
                            /\ state[r] = "DELIVERED" => posted[r] = 1
                            /\ state[r] \in Unsent => posted[r] = 0

\* What the user's check or an attempt found on GitHub is there.
Matches == \A u \in Executions : \A r \in run[u].found : posted[r] = 1

Safe == Sole /\ Held /\ Outstanding /\ Receipts /\ Matches

\* At most one request for a row is on its way.
LEMMA OneRequest ==
    ASSUME TypeOK, Outstanding, NEW m \in wire, NEW n \in wire, m.row = n.row
    PROVE  m = n
BY DEF TypeOK, GitHubOK, Outstanding

\* The invariant is enough for the properties of the runs.
LEMMA SafePosts == ASSUME TypeOK, Safe PROVE PostedOnce /\ SafeToSend
<1>1. PostedOnce
  <2> SUFFICES ASSUME NEW r \in Rows PROVE posted[r] + Cardinality(Requests(r)) <= 1
    BY DEF PostedOnce
  <2>1. CASE Requests(r) = {}
    BY <2>1, FS_EmptySet DEF Safe, Receipts
  <2>2. CASE Requests(r) # {}
    <3>1. PICK m \in wire : m.row = r
      BY <2>2 DEF Requests
    <3>2. Requests(r) = {m}
      BY <3>1, OneRequest DEF Requests, Safe
    <3>3. Cardinality(Requests(r)) = 1 /\ posted[r] = 0
      BY <3>1, <3>2, FS_Singleton DEF Safe, Outstanding
    <3>4. QED  BY <3>3
  <2>3. QED  BY <2>1, <2>2
<1>2. SafeToSend
  <2> SUFFICES ASSUME NEW r \in Rows, state[r] \in Unsent
               PROVE  /\ posted[r] = 0 /\ Requests(r) = {}
                      /\ \A u \in Executions : run[u].row = r => run[u].pc \notin {"post", "call"}
    BY DEF SafeToSend, Unsent
  <2>1. posted[r] = 0 /\ Requests(r) = {}
    BY DEF Safe, Receipts, Outstanding, Requests, Unsent
  <2>2. \A u \in Executions : run[u].row # r
    BY RowsAssumption DEF Safe, Held, Backed, Rows
  <2>3. QED  BY <2>1, <2>2
<1>3. QED  BY <1>1, <1>2

-------------------------------------------------------------------------------
(* Steps that touch neither requests nor claims *)

\* A row keeps its state, is prepared or given up unsent, or is sent in doubt;
\* what is in doubt and on GitHub may be confirmed.
Settles(r) ==
    \/ state'[r] = state[r]
    \/ state[r] \in {"NONE", "WAITING", "READY"} /\ state'[r] \in {"WAITING", "READY", "OMITTED"}
    \/ state[r] = "SENDING" /\ state'[r] = "UNKNOWN"
    \/ state[r] = "UNKNOWN" /\ state'[r] = "DELIVERED" /\ posted[r] = 1

\* An execution lets go of its row, or stays where it was with it; one about to
\* send may get to the request.
KeepsHold(u, a) ==
    \/ a.row = None
    \/ /\ a.row = run[u].row /\ a.claim = run[u].claim /\ a.answer = run[u].answer
       /\ a.pc = run[u].pc \/ (run[u].pc = "recheck" /\ a.pc = "post")

\* What it newly takes for a match is on GitHub.
Finds(u, a) == \A r \in a.found : r \in run[u].found \/ posted[r] = 1

Quiet == /\ UNCHANGED <<claim, attempts, wire, posted>>
         /\ \A r \in Rows : Settles(r)
         /\ \A u \in Executions : KeepsHold(u, run'[u]) /\ Finds(u, run'[u])

\* One execution goes on quietly, and so do all.
LEMMA BecomesQuiet ==
    ASSUME TypeOK, NEW u \in Executions, NEW a, Becomes(u, a), KeepsHold(u, a), Finds(u, a)
    PROVE  \A v \in Executions : KeepsHold(v, run'[v]) /\ Finds(v, run'[v])
<1>1. \A v \in Executions : KeepsHold(v, run[v]) /\ Finds(v, run[v])
  BY DEF KeepsHold, Finds
<1>2. \A v \in Executions : run'[v] = IF v = u THEN a ELSE run[v]
  BY DEF Becomes, TypeOK, RunsOK
<1>3. QED  BY <1>1, <1>2

\* The quiet ways to go on.
LEMMA QuietWays ==
    ASSUME TypeOK, NEW u \in Executions, NEW pc, NEW r,
           \/ Goto(u, pc) /\ (run[u].row = None \/ (run[u].pc = "recheck" /\ pc = "post"))
           \/ Leave(u) \/ Release(u) \/ Drop(u, r)
    PROVE  \A v \in Executions : KeepsHold(v, run'[v]) /\ Finds(v, run'[v])
<1>0. run[u] \in ExecutionStates
  BY DEF TypeOK, RunsOK
<1>1. CASE Leave(u)
  BY <1>1, IdleRunType, BecomesQuiet DEF Leave, KeepsHold, Finds
<1>2. CASE Release(u)
  <2> DEFINE a == [run[u] EXCEPT !.pc = "send", !.row = None, !.claim = 0, !.answer = "none"]
  <2>1. a.row = None /\ a.found = run[u].found
    BY <1>0 DEF ExecutionStates
  <2>2. KeepsHold(u, a) /\ Finds(u, a)
    BY <2>1 DEF KeepsHold, Finds
  <2>3. QED  BY <1>2, <2>2, BecomesQuiet DEF Release
<1>3. CASE Drop(u, r)
  <2> DEFINE a == [run[u] EXCEPT !.todo = @ \ {r}]
  <2>1. /\ a.row = run[u].row /\ a.claim = run[u].claim /\ a.answer = run[u].answer
        /\ a.pc = run[u].pc /\ a.found = run[u].found
    BY <1>0 DEF ExecutionStates
  <2>2. KeepsHold(u, a) /\ Finds(u, a)
    BY <2>1 DEF KeepsHold, Finds
  <2>3. QED  BY <1>3, <2>2, BecomesQuiet DEF Drop
<1>4. CASE Goto(u, pc) /\ (run[u].row = None \/ (run[u].pc = "recheck" /\ pc = "post"))
  <2> DEFINE a == [run[u] EXCEPT !.pc = pc]
  <2>1. /\ a.row = run[u].row /\ a.claim = run[u].claim /\ a.answer = run[u].answer
        /\ a.pc = pc /\ a.found = run[u].found
    BY <1>0 DEF ExecutionStates
  <2> HIDE DEF a
  <2>2. KeepsHold(u, a) /\ Finds(u, a)
    BY <1>4, <2>1 DEF KeepsHold, Finds
  <2>3. QED  BY <1>4, <2>2, BecomesQuiet DEF Goto, a
<1>5. QED  BY <1>1, <1>2, <1>3, <1>4

\* A quiet step keeps the invariant.
LEMMA QuietKeeps == ASSUME Typed, Typed', Safe, Quiet PROVE Safe'
<1> USE DEF Typed, TypeOK, RowsOK, GitHubOK, RunsOK
<1>1. ASSUME NEW u \in Executions, run'[u].row # None
      PROVE  /\ run'[u].row = run[u].row /\ run'[u].claim = run[u].claim
             /\ run'[u].answer = run[u].answer
             /\ run'[u].pc = run[u].pc \/ (run[u].pc = "recheck" /\ run'[u].pc = "post")
  BY <1>1 DEF Quiet, KeepsHold
<1>2. ASSUME NEW r \in Rows
      PROVE  /\ state'[r] \in Unsent => state[r] \in Unsent
             /\ state[r] \in {"SENDING", "UNKNOWN"} /\ posted[r] = 0
                   => state'[r] \in {"SENDING", "UNKNOWN"}
             /\ state'[r] = "DELIVERED" => (state[r] = "DELIVERED" \/ posted[r] = 1)
  BY DEF Quiet, Settles, Unsent
<1>3. Sole'
  BY <1>1 DEF Safe, Sole
<1>4. Held'
  <2> SUFFICES ASSUME NEW u \in Executions, run'[u].row # None PROVE Backed(u)'
    BY DEF Held
  <2>1. Backed(u) /\ run[u].row \in Rows
    BY <1>1, RowsAssumption DEF Safe, Held, ExecutionStates
  <2>2. QED  BY <1>1, <1>2, <2>1 DEF Backed, Quiet, Requests, Request
<1>5. Outstanding'
  BY <1>2 DEF Safe, Outstanding, Quiet
<1>6. Receipts'
  BY <1>2 DEF Safe, Receipts, Quiet
<1>7. Matches'
  BY DEF Safe, Matches, Quiet, Finds
<1>8. QED  BY <1>3, <1>4, <1>5, <1>6, <1>7 DEF Safe

\* Attempts, checks and the starts of both.
LEMMA MoveQuiet ==
    ASSUME Typed, NEW u \in Executions,
           \/ Start(u) \/ StartSettled(u) \/ Check(u) \/ Checked(u) \/ SendStops(u)
           \/ InlineDone(u) \/ ComposeStops(u) \/ NoSummaryToWrite(u) \/ SummaryDone(u)
    PROVE  Quiet
<1>1. Leave(u) \/ \E pc \in Places : Goto(u, pc)
  BY DEF Start, StartSettled, Check, Checked, SendStops, InlineDone, ComposeStops,
     NoSummaryToWrite, SummaryDone, Places
<1>2. run[u].row = None /\ UNCHANGED <<rows, github>>
  BY DEF Start, StartSettled, Check, Checked, SendStops, InlineDone, ComposeStops,
     NoSummaryToWrite, SummaryDone, At, Sending, Typed, TypeOK, RunsOK
<1>3. \A v \in Executions : KeepsHold(v, run'[v]) /\ Finds(v, run'[v])
  BY <1>1, <1>2, QuietWays DEF Typed
<1>4. QED  BY <1>2, <1>3 DEF Quiet, Settles, rows, github

\* Reconciliation: a claim that ran out is in doubt, and a match is confirmed.
LEMMA ReconcileQuiet ==
    ASSUME Typed, Matches, NEW u \in Executions,
           ExpireClaims(u) \/ List(u) \/ Confirm(u) \/ Screen(u)
    PROVE  Quiet
<1>0. run[u] \in ExecutionStates /\ run[u].row = None
  BY DEF ExpireClaims, List, Listings, Confirm, Screen, At, Sending, Typed, TypeOK, RunsOK
<1>1. CASE ExpireClaims(u) \/ Screen(u)
  <2>1. \A v \in Executions : KeepsHold(v, run'[v]) /\ Finds(v, run'[v])
    BY <1>0, <1>1, QuietWays DEF ExpireClaims, Screen, Typed
  <2>2. \A r \in Rows : Settles(r)
    BY <1>1 DEF ExpireClaims, Screen, SetState, Settles
  <2>3. QED  BY <1>1, <2>1, <2>2 DEF ExpireClaims, Screen, OnlyState, Quiet, github
<1>2. CASE List(u)
  <2>1. PICK found \in SUBSET {r \in Rows : state[r] = "UNKNOWN" /\ posted[r] = 1} :
           Becomes(u, [run[u] EXCEPT !.pc = "confirm", !.found = found])
    BY <1>2 DEF List, Listings
  <2> DEFINE a == [run[u] EXCEPT !.pc = "confirm", !.found = found]
  <2>2. a.row = None /\ a.found = found
    BY <1>0 DEF ExecutionStates
  <2>3. KeepsHold(u, a) /\ Finds(u, a)
    BY <2>2 DEF KeepsHold, Finds
  <2>4. \A v \in Executions : KeepsHold(v, run'[v]) /\ Finds(v, run'[v])
    BY <2>1, <2>3, BecomesQuiet DEF Typed
  <2>5. QED  BY <1>2, <2>4 DEF List, Listings, Quiet, Settles, rows, github
<1>3. CASE Confirm(u)
  <2>1. PICK r \in run[u].found : /\ SetState({r}, {"UNKNOWN"}, "DELIVERED")
                                  /\ Becomes(u, [run[u] EXCEPT !.found = @ \ {r}])
    BY <1>3 DEF Confirm
  <2> DEFINE a == [run[u] EXCEPT !.found = @ \ {r}]
  <2>2. a.row = None /\ a.found \subseteq run[u].found
    BY <1>0 DEF ExecutionStates
  <2>3. KeepsHold(u, a) /\ Finds(u, a)
    BY <2>2 DEF KeepsHold, Finds
  <2>4. \A v \in Executions : KeepsHold(v, run'[v]) /\ Finds(v, run'[v])
    BY <2>1, <2>3, BecomesQuiet DEF Typed
  <2>5. \A q \in Rows : Settles(q)
    BY <2>1 DEF SetState, Settles, Matches
  <2>6. QED  BY <1>3, <2>4, <2>5 DEF Confirm, OnlyState, Quiet, github
<1>4. QED  BY <1>1, <1>2, <1>3

\* Reading the rows to send, and giving up on rows that are still ready.
LEMMA ReadQuiet ==
    ASSUME Typed, NEW u \in Executions,
           Snapshot(u) \/ SendSummary(u) \/ SendTooLate(u) \/ SendUnproven(u)
    PROVE  Quiet
<1>0. run[u] \in ExecutionStates /\ run[u].row = None
  BY DEF Snapshot, SendSummary, SendTooLate, SendUnproven, At, Sending, Typed, TypeOK, RunsOK
<1>1. CASE Snapshot(u) \/ SendSummary(u)
  <2> DEFINE a(set, held, stage) ==
        [run[u] EXCEPT !.pc = "send", !.stage = stage, !.todo = {r \in set : state[r] = "READY"},
                       !.held = held, !.read = {r \in set : state[r] = "READY"} \cap bodies]
  <2>1. PICK set, held, stage : Becomes(u, a(set, held, stage))
    BY <1>1 DEF Snapshot, SendSummary, Reads
  <2>2. a(set, held, stage).row = None /\ a(set, held, stage).found = run[u].found
    BY <1>0 DEF ExecutionStates
  <2>3. KeepsHold(u, a(set, held, stage)) /\ Finds(u, a(set, held, stage))
    BY <2>2 DEF KeepsHold, Finds
  <2>4. \A v \in Executions : KeepsHold(v, run'[v]) /\ Finds(v, run'[v])
    BY <2>1, <2>3, BecomesQuiet DEF Typed
  <2>5. QED  BY <1>1, <2>4 DEF Snapshot, SendSummary, Quiet, Settles, rows, github
<1>2. CASE SendTooLate(u) \/ SendUnproven(u)
  <2>1. \A v \in Executions : KeepsHold(v, run'[v]) /\ Finds(v, run'[v])
    BY <1>2, QuietWays DEF SendTooLate, SendUnproven, Typed
  <2>2. \A r \in Rows : Settles(r)
    BY <1>2 DEF SendTooLate, SendUnproven, SetState, Settles
  <2>3. QED  BY <1>2, <2>1, <2>2 DEF SendTooLate, SendUnproven, OnlyState, Quiet, github
<1>3. QED  BY <1>1, <1>2

\* The second look before the request, and a row that is not claimed after all.
LEMMA LookQuiet ==
    ASSUME Typed, NEW u \in Executions,
           Recheck(u) \/ (\E r : Claim(u) /\ Drop(u, r) /\ UNCHANGED rows)
    PROVE  Quiet
<1>1. (\E r : Drop(u, r)) \/ Leave(u) \/ Release(u) \/ (Goto(u, "post") /\ run[u].pc = "recheck")
  BY DEF Recheck, At
<1>2. \A v \in Executions : KeepsHold(v, run'[v]) /\ Finds(v, run'[v])
  BY <1>1, QuietWays DEF Typed
<1>3. UNCHANGED <<rows, github>>
  BY DEF Recheck, Claim
<1>4. QED  BY <1>2, <1>3 DEF Quiet, Settles, rows, github

\* The summary, the completion, and the ways an execution fails.
LEMMA SummaryQuiet ==
    ASSUME Typed, NEW u \in Executions,
           AddSummary(u) \/ WriteSummary(u) \/ Complete(u) \/ Dies(u) \/ Abort(u)
    PROVE  Quiet
<1>0. run[u] \in ExecutionStates /\ Summary \in Rows
  BY DEF Typed, TypeOK, RunsOK, Rows
<1>1. \A r \in Rows : Settles(r)
  BY <1>0 DEF AddSummary, WriteSummary, Complete, Dies, Abort, NeedsLocationSummary, SetState, Settles,
     Typed, TypeOK, RowsOK, rows
<1>2. \A v \in Executions : KeepsHold(v, run'[v]) /\ Finds(v, run'[v])
  <2>1. CASE AddSummary(u)
    BY <2>1 DEF AddSummary, KeepsHold, Finds
  <2>2. CASE WriteSummary(u)
    <3>1. run[u].row = None
      BY <2>2 DEF WriteSummary, At, Sending, Typed, TypeOK, RunsOK
    <3>2. QED  BY <2>2, <3>1, QuietWays DEF WriteSummary, Typed
  <2>3. CASE Complete(u) \/ Dies(u)
    BY <2>3, QuietWays DEF Complete, Dies, Typed
  <2>4. CASE Abort(u)
    <3> DEFINE a == [run[u] EXCEPT !.aborted = TRUE]
    <3>1. /\ a.row = run[u].row /\ a.claim = run[u].claim /\ a.answer = run[u].answer
          /\ a.pc = run[u].pc /\ a.found = run[u].found
      BY <1>0 DEF ExecutionStates
    <3>2. KeepsHold(u, a) /\ Finds(u, a)
      BY <3>1 DEF KeepsHold, Finds
    <3>3. QED  BY <2>4, <3>2, BecomesQuiet DEF Abort, Typed
  <2>5. QED  BY <2>1, <2>2, <2>3, <2>4
<1>3. UNCHANGED <<claim, attempts, wire, posted>>
  BY DEF AddSummary, WriteSummary, Complete, Dies, Abort, OnlyState, rows, github
<1>4. QED  BY <1>1, <1>2, <1>3 DEF Quiet

\* The repository, the deadline of a lease or the window, and the user.
LEMMA MeanwhileQuiet ==
    ASSUME Typed, Repository \/ Stop \/ CloseWindow \/ \E r \in Rows : LeaseOver(r)
    PROVE  Quiet
<1>1. UNCHANGED <<claim, attempts, wire, posted, run>>
  BY DEF Repository, Deactivate, CancelDisconnected, Purge, Reconnect, ExpirePayloads, Stop,
     CloseWindow, LeaseOver, rows, github
<1>2. \A r \in Rows : Settles(r)
  BY DEF Repository, Deactivate, CancelDisconnected, Purge, Reconnect, ExpirePayloads, Stop,
     CloseWindow, LeaseOver, rows, Settles
<1>3. QED  BY <1>1, <1>2 DEF Quiet, KeepsHold, Finds

-------------------------------------------------------------------------------
(* The steps of a claim: taken, sent, answered *)

\* A row that is ready has no holder and nothing on the wire.
LEMMA ReadyIsFree ==
    ASSUME Typed, Safe, NEW r \in Rows, state[r] \in Unsent
    PROVE  /\ posted[r] = 0 /\ Requests(r) = {}
           /\ \A v \in Executions : run[v].row # r
BY RowsAssumption DEF Safe, Held, Backed, Receipts, Outstanding, Requests, Unsent, Rows

\* The claim gives a free row its one holder.
LEMMA ClaimKeeps ==
    ASSUME Typed, Typed', Safe, NEW u \in Executions, NEW r \in Rows,
           state[r] = "READY", run[u].row = None, run[u].answer = "none",
           state' = [state EXCEPT ![r] = "SENDING"],
           attempts' = [attempts EXCEPT ![r] = @ + 1],
           claim' = [claim EXCEPT ![r] = attempts[r] + 1],
           Becomes(u, [run[u] EXCEPT !.pc = "recheck", !.row = r, !.todo = @ \ {r},
                                     !.claim = attempts[r] + 1]),
           UNCHANGED github
    PROVE  Safe'
<1> USE DEF Typed, TypeOK, RowsOK, GitHubOK, RunsOK, github
<1>1. /\ posted[r] = 0 /\ Requests(r) = {}
      /\ \A v \in Executions : run[v].row # r
  BY ReadyIsFree DEF Unsent
<1>2. r # None
  BY RowsAssumption DEF Rows
<1>3. /\ run'[u].pc = "recheck" /\ run'[u].row = r /\ run'[u].claim = attempts[r] + 1
      /\ run'[u].answer = "none" /\ run'[u].found = run[u].found
      /\ \A v \in Executions \ {u} : run'[v] = run[v]
  BY DEF Becomes, ExecutionStates
<1>4. \A q \in Rows \ {r} : state'[q] = state[q] /\ attempts'[q] = attempts[q] /\ claim'[q] = claim[q]
  OBVIOUS
<1>5. state'[r] = "SENDING" /\ attempts'[r] = attempts[r] + 1 /\ claim'[r] = attempts[r] + 1
  OBVIOUS
<1>6. Sole'
  BY <1>1, <1>3 DEF Safe, Sole
<1>7. Held'
  <2> SUFFICES ASSUME NEW v \in Executions, run'[v].row # None PROVE Backed(v)'
    BY DEF Held
  <2>1. CASE v = u
    BY <1>1, <1>3, <1>5, <2>1 DEF Backed, Requests, Unsent
  <2>2. CASE v # u
    <3>1. Backed(v) /\ run[v].row \in Rows \ {r} /\ run'[v] = run[v]
      BY <1>1, <1>3, <2>2 DEF Safe, Held, ExecutionStates
    <3>2. QED  BY <1>4, <3>1 DEF Backed, Requests, Request
  <2>3. QED  BY <2>1, <2>2
<1>8. Outstanding'
  BY <1>1, <1>4 DEF Safe, Outstanding, Requests
<1>9. Receipts'
  BY <1>1, <1>4, <1>5 DEF Safe, Receipts, Unsent
<1>10. Matches'
  BY <1>3 DEF Safe, Matches
<1>11. QED  BY <1>6, <1>7, <1>8, <1>9, <1>10 DEF Safe

\* The holder sends the first request of its claim.
LEMMA PostKeeps == ASSUME Typed, Typed', Safe, NEW u \in Executions, Post(u) PROVE Safe'
<1> USE DEF Typed, TypeOK, RowsOK, GitHubOK, RunsOK
<1> DEFINE r == run[u].row
<1>1. r # None /\ r \in Rows /\ Backed(u) /\ run[u].pc = "post"
  BY DEF Post, At, Sending, Safe, Held, ExecutionStates
<1>2. posted[r] = 0 /\ Requests(r) = {} /\ state[r] \in {"SENDING", "UNKNOWN"}
  BY <1>1 DEF Backed, Safe, Receipts, Unsent, States, Settled, Terminal
<1>3. /\ run'[u].pc = "call" /\ run'[u].row = r /\ run'[u].claim = run[u].claim
      /\ run'[u].answer = run[u].answer /\ run'[u].found = run[u].found
      /\ \A v \in Executions \ {u} : run'[v] = run[v]
  BY DEF Post, Goto, Becomes, ExecutionStates
<1>4. UNCHANGED <<state, claim, attempts, posted>> /\ wire' = wire \cup {Request(u)}
  BY DEF Post, rows
<1>5. Sole'
  BY <1>3 DEF Safe, Sole
<1>6. Held'
  <2> SUFFICES ASSUME NEW v \in Executions, run'[v].row # None PROVE Backed(v)'
    BY DEF Held
  <2>1. CASE v = u
    BY <1>1, <1>3, <1>4, <2>1 DEF Backed, Request, Answered
  <2>2. CASE v # u
    <3>1. Backed(v) /\ run'[v] = run[v] /\ run[v].row # r
      BY <1>1, <1>3, <2>2 DEF Safe, Held, Sole
    <3>2. Requests(run[v].row)' = Requests(run[v].row)
      BY <1>4, <3>1 DEF Requests, Request
    <3>3. QED  BY <1>4, <3>1, <3>2 DEF Backed, Request
  <2>3. QED  BY <2>1, <2>2
<1>7. Outstanding'
  BY <1>1, <1>2, <1>4 DEF Safe, Outstanding, Request, Backed
<1>8. Receipts' /\ Matches'
  BY <1>3, <1>4 DEF Safe, Receipts, Matches
<1>9. QED  BY <1>5, <1>6, <1>7, <1>8 DEF Safe

\* GitHub takes or refuses the request the holder waits for: the only one.
LEMMA ReplyKeeps ==
    ASSUME Typed, Typed', Safe, NEW u \in Executions, NEW r \in Rows, run[u].row = r, Reply(u)
    PROVE  Safe'
<1> USE DEF Typed, TypeOK, RowsOK, GitHubOK, RunsOK
<1>1. r # None /\ Backed(u) /\ Request(u) \in wire
  BY DEF Reply, At, Sending, Safe, Held, ExecutionStates
<1>2. posted[r] = 0 /\ state[r] \in {"SENDING", "UNKNOWN"}
  BY <1>1 DEF Safe, Outstanding, Request
<1>3. \A q \in Rows : Requests(q)' = IF q = r THEN {} ELSE Requests(q)
  <2>1. \A m \in wire : m.row = r <=> m = Request(u)
    BY <1>1, OneRequest DEF Request, Safe
  <2>2. wire' = wire \ {Request(u)}
    BY DEF Reply
  <2>3. \A q \in Rows : Requests(q)' = Requests(q) \ {Request(u)}
    BY <2>2 DEF Requests
  <2> SUFFICES ASSUME NEW q \in Rows
               PROVE  Requests(q) \ {Request(u)} = IF q = r THEN {} ELSE Requests(q)
    BY <2>3
  <2>4. CASE q = r
    BY <2>1, <2>4 DEF Requests
  <2>5. CASE q # r
    BY <2>1, <2>5 DEF Requests
  <2>6. QED  BY <2>4, <2>5
<1>4. /\ run'[u].row = r /\ run'[u].claim = run[u].claim /\ run'[u].found = run[u].found
      /\ run'[u].pc = "answer"
      /\ \A v \in Executions \ {u} : run'[v] = run[v]
      /\ \/ run'[u].answer = "ok" /\ posted' = [posted EXCEPT ![r] = 1]
         \/ run'[u].answer \in {"REJECTED", "RETRYABLE"} /\ posted' = posted
  <2>1. ASSUME NEW answer, Hears(u, answer)
        PROVE  /\ run'[u].row = r /\ run'[u].claim = run[u].claim /\ run'[u].found = run[u].found
               /\ run'[u].pc = "answer" /\ run'[u].answer = answer
               /\ \A v \in Executions \ {u} : run'[v] = run[v]
    BY <2>1 DEF Hears, Becomes, ExecutionStates
  <2>2. posted[r] + 1 = 1
    BY <1>2
  <2>3. \/ Hears(u, "ok") /\ posted' = [posted EXCEPT ![r] = 1]
        \/ (Hears(u, "REJECTED") \/ Hears(u, "RETRYABLE")) /\ posted' = posted
    BY <2>2 DEF Reply
  <2>4. QED  BY <2>1, <2>3
<1>5. UNCHANGED <<state, claim, attempts>> /\ wire' = wire \ {Request(u)}
  BY DEF Reply, rows
<1>6. Sole'
  BY <1>4 DEF Safe, Sole
<1>7. Held'
  <2> SUFFICES ASSUME NEW v \in Executions, run'[v].row # None PROVE Backed(v)'
    BY DEF Held
  <2>1. CASE v = u
    BY <1>1, <1>2, <1>3, <1>4, <1>5, <2>1 DEF Backed, Unsent
  <2>2. CASE v # u
    <3>1. Backed(v) /\ run'[v] = run[v] /\ run[v].row # r /\ run[v].row \in Rows
      BY <1>1, <1>4, <2>2 DEF Safe, Held, Sole, ExecutionStates
    <3>2. QED  BY <1>3, <1>4, <1>5, <3>1 DEF Backed, Request
  <2>3. QED  BY <2>1, <2>2
<1>8. Outstanding'
  <2> SUFFICES ASSUME NEW m \in wire, m # Request(u)
               PROVE  m.claim = attempts[m.row] /\ state[m.row] \in {"SENDING", "UNKNOWN"}
                      /\ posted'[m.row] = 0
    BY <1>5 DEF Outstanding
  <2>1. m.row # r /\ m.row \in Rows
    BY <1>1, OneRequest DEF Request, Safe
  <2>2. QED  BY <1>4, <2>1 DEF Safe, Outstanding
<1>9. Receipts'
  BY <1>2, <1>4, <1>5 DEF Safe, Receipts, Unsent
<1>10. Matches'
  <2>1. \A q \in Rows : posted[q] = 1 => posted'[q] = 1
    BY <1>2, <1>4
  <2>2. \A v \in Executions : run[v].found \subseteq Rows /\ run'[v].found = run[v].found
    BY <1>4 DEF ExecutionStates
  <2>3. QED  BY <2>1, <2>2 DEF Safe, Matches
<1>11. QED  BY <1>6, <1>7, <1>8, <1>9, <1>10 DEF Safe

\* Without a usable answer the request may still be on its way.
LEMMA NoReplyKeeps == ASSUME Typed, Typed', Safe, NEW u \in Executions, NoReply(u) PROVE Safe'
<1> USE DEF Typed, TypeOK, RowsOK, GitHubOK, RunsOK
<1>1. /\ run'[u].pc = "answer" /\ run'[u].row = run[u].row /\ run'[u].claim = run[u].claim
      /\ run'[u].answer = "UNKNOWN" /\ run'[u].found = run[u].found
      /\ \A v \in Executions \ {u} : run'[v] = run[v]
  BY DEF NoReply, Hears, Becomes, ExecutionStates
<1>2. UNCHANGED <<state, claim, attempts, wire, posted>>
  BY DEF NoReply, rows, github
<1>3. Sole'
  BY <1>1 DEF Safe, Sole
<1>4. Held'
  BY <1>1, <1>2 DEF Safe, Held, Backed, Requests, Request
<1>5. Outstanding' /\ Receipts' /\ Matches'
  BY <1>1, <1>2 DEF Safe, Outstanding, Receipts, Matches
<1>6. QED  BY <1>3, <1>4, <1>5 DEF Safe

\* A request that nobody waits for any more is taken late, or lost.
LEMMA ArrivesKeeps == ASSUME Typed, Typed', Safe, NEW m \in wire, Arrives(m) PROVE Safe'
<1> USE DEF Typed, TypeOK, RowsOK, GitHubOK, RunsOK
<1> DEFINE r == m.row
<1>1. /\ r \in Rows /\ posted[r] = 0 /\ state[r] \in {"SENDING", "UNKNOWN"}
      /\ m.claim = attempts[r]
  BY DEF Safe, Outstanding
<1>2. Requests(r)' = {} /\ \A q \in Rows \ {r} : Requests(q)' = Requests(q)
  BY <1>1, OneRequest DEF Arrives, Requests, Safe
<1>3. /\ UNCHANGED <<state, claim, attempts, run>> /\ wire' = wire \ {m}
      /\ posted' \in {posted, [posted EXCEPT ![r] = 1]}
  BY <1>1 DEF Arrives, rows
<1>4. ASSUME NEW u \in Executions, run[u].row = r
      PROVE  run[u].pc = "answer" /\ run[u].answer = "UNKNOWN"
  <2>1. r # None /\ Backed(u)
    BY <1>1, <1>4, RowsAssumption DEF Safe, Held, Rows
  <2>2. run[u].pc \in Sending /\ run[u].pc \notin {"recheck", "post"}
    BY <1>4, <2>1 DEF Backed, Requests
  <2>3. m = Request(u)
    BY <1>1, <1>4, <2>1 DEF Backed, Request
  <2>4. run[u].pc = "answer"
    BY <2>1, <2>2, <2>3 DEF Arrives, At, Sending, Backed
  <2>5. run[u].answer \notin {"none", "ok", "REJECTED", "RETRYABLE"}
    BY <1>1, <1>4, <2>1, <2>4 DEF Backed, Requests, Answered
  <2>6. QED  BY <2>4, <2>5 DEF ExecutionStates, Answers
<1>5. Held'
  <2> SUFFICES ASSUME NEW u \in Executions, run[u].row # None PROVE Backed(u)'
    BY <1>3 DEF Held
  <2>1. Backed(u) /\ run[u].row \in Rows
    BY DEF Safe, Held, ExecutionStates
  <2>2. CASE run[u].row = r
    BY <1>3, <1>4, <2>1, <2>2 DEF Backed
  <2>3. CASE run[u].row # r
    BY <1>2, <1>3, <2>1, <2>3 DEF Backed, Request
  <2>4. QED  BY <2>2, <2>3
<1>6. Outstanding'
  <2> SUFFICES ASSUME NEW n \in wire, n # m
               PROVE  n.claim = attempts[n.row] /\ state[n.row] \in {"SENDING", "UNKNOWN"}
                      /\ posted'[n.row] = 0
    BY <1>3 DEF Outstanding
  <2>1. n.row # r /\ n.row \in Rows
    BY OneRequest DEF Safe
  <2>2. QED  BY <1>3, <2>1 DEF Safe, Outstanding
<1>7. Receipts'
  BY <1>1, <1>3 DEF Safe, Receipts, Unsent
<1>8. Sole' /\ Matches'
  <2>1. \A q \in Rows : posted[q] = 1 => posted'[q] = 1
    BY <1>1, <1>3
  <2>2. QED  BY <1>3, <2>1 DEF Safe, Sole, Matches, ExecutionStates
<1>9. QED  BY <1>5, <1>6, <1>7, <1>8 DEF Safe

\* The answer is the holder's to write, and it lets go of the row.
LEMMA AnswerKeeps == ASSUME Typed, Typed', Safe, NEW u \in Executions, Answer(u) PROVE Safe'
<1> USE DEF Typed, TypeOK, RowsOK, GitHubOK, RunsOK
<1> DEFINE r == run[u].row
<1>1. r # None /\ r \in Rows /\ Backed(u) /\ run[u].answer # "none"
  BY DEF Answer, At, Sending, Safe, Held, ExecutionStates, Answered
<1>2. /\ run'[u].row = None /\ run'[u].found \subseteq run[u].found
      /\ \A v \in Executions \ {u} : run'[v] = run[v]
  <2>1. IdleRun.row = None /\ IdleRun.found = {}
    BY IdleRunType
  <2>2. CASE Leave(u)
    BY <2>1, <2>2 DEF Leave, Becomes
  <2>3. CASE Release(u)
    BY <2>3 DEF Release, Becomes, ExecutionStates
  <2>4. QED  BY <2>2, <2>3 DEF Answer
<1>3. /\ \A q \in Rows \ {r} : state'[q] = state[q] /\ claim'[q] = claim[q]
      /\ UNCHANGED <<attempts, wire, posted>>
      /\ state'[r] = state[r] \/ (state[r] \in {"SENDING", "UNKNOWN"} /\ state'[r] = Outcome(u))
  BY <1>1 DEF Answer, github
<1>4. /\ Outcome(u) = "DELIVERED" => posted[r] = 1
      /\ Outcome(u) \in Unsent => posted[r] = 0 /\ Requests(r) = {}
      /\ Outcome(u) \in {"DELIVERED", "UNKNOWN"} \cup Unsent
      /\ Outcome(u) = "DELIVERED" => Requests(r) = {}
  <2>1. Requests(r) # {} => posted[r] = 0
    BY DEF Requests, Safe, Outstanding
  <2>2. QED  BY <1>1, <2>1 DEF Outcome, Again, Backed, Unsent, ExecutionStates, Answers
<1>5. Sole'
  BY <1>2 DEF Safe, Sole
<1>6. Held'
  <2> SUFFICES ASSUME NEW v \in Executions, run'[v].row # None PROVE Backed(v)'
    BY DEF Held
  <2>1. Backed(v) /\ run'[v] = run[v] /\ run[v].row \in Rows \ {r}
    BY <1>1, <1>2 DEF Safe, Held, Sole, ExecutionStates
  <2>2. QED  BY <1>3, <2>1 DEF Backed, Requests, Request
<1>7. Outstanding'
  BY <1>3, <1>4 DEF Safe, Outstanding, Requests
<1>8. Receipts'
  BY <1>3, <1>4 DEF Safe, Receipts
<1>9. Matches'
  BY <1>2, <1>3 DEF Safe, Matches
<1>10. QED  BY <1>5, <1>6, <1>7, <1>8, <1>9 DEF Safe

\* The initial plan has neither requests nor claims.
LEMMA InitSafe == ASSUME Init PROVE Safe
BY IdleRunType DEF Init, Safe, Sole, Held, Outstanding, Receipts, Matches

\* Every step of the claim of a row, and every quiet step, keeps the invariant.
LEMMA ProceedKeeps ==
    ASSUME Typed, Typed', Safe, NEW u \in Executions, Proceed(u)
    PROVE  Safe'
<1>1. CASE Claim(u)
  <2>1. CASE \E r : Drop(u, r) /\ UNCHANGED rows
    BY <1>1, <2>1, LookQuiet, QuietKeeps
  <2>2. CASE ~ \E r : Drop(u, r) /\ UNCHANGED rows
    <3>1. run[u].todo \subseteq Rows /\ run[u].row = None /\ run[u].answer = "none"
      BY <1>1 DEF Claim, At, Sending, Typed, Answered, TypeOK, RunsOK, ExecutionStates
    <3>2. PICK r \in Rows :
             /\ state[r] = "READY"
             /\ state' = [state EXCEPT ![r] = "SENDING"]
             /\ attempts' = [attempts EXCEPT ![r] = @ + 1]
             /\ claim' = [claim EXCEPT ![r] = attempts[r] + 1]
             /\ Becomes(u, [run[u] EXCEPT !.pc = "recheck", !.row = r, !.todo = @ \ {r},
                                          !.claim = attempts[r] + 1])
             /\ UNCHANGED github
      BY <1>1, <2>2, <3>1 DEF Claim
    <3>3. QED  BY <3>1, <3>2, ClaimKeeps
  <2>3. QED  BY <2>1, <2>2
<1>2. CASE Post(u) \/ Reply(u) \/ NoReply(u) \/ Answer(u)
  <2>1. Reply(u) => run[u].row \in Rows
    BY DEF Reply, At, Sending, Typed, TypeOK, RunsOK, ExecutionStates
  <2>2. QED  BY <1>2, <2>1, PostKeeps, ReplyKeeps, NoReplyKeeps, AnswerKeeps
<1>3. CASE ~(Claim(u) \/ Post(u) \/ Reply(u) \/ NoReply(u) \/ Answer(u))
  <2>1. Quiet
    BY <1>3, MoveQuiet, ReconcileQuiet, ReadQuiet, LookQuiet, SummaryQuiet DEF Proceed, Safe
  <2>2. QED  BY <2>1, QuietKeeps
<1>4. QED  BY <1>1, <1>2, <1>3

\* Every step keeps the invariant.
LEMMA NextSafe == ASSUME Typed, Typed', Safe, [Next]_vars PROVE Safe'
<1>1. CASE UNCHANGED vars
  BY <1>1, QuietKeeps DEF Quiet, Settles, KeepsHold, Finds, vars, rows, github
<1>2. ASSUME NEW u \in Executions, Attempt(u) \/ Abort(u) \/ Check(u) \/ Dies(u) PROVE Safe'
  BY <1>2, MoveQuiet, SummaryQuiet, QuietKeeps DEF Attempt
<1>3. CASE \E m \in wire : Arrives(m)
  BY <1>3, ArrivesKeeps
<1>4. CASE Repository \/ Stop \/ CloseWindow \/ \E r \in Rows : LeaseOver(r)
  BY <1>4, MeanwhileQuiet, QuietKeeps
<1>5. QED  BY <1>1, <1>2, <1>3, <1>4, ProceedKeeps DEF Next, Executions

\* The invariant holds of every behaviour.
LEMMA AlwaysSafe == Spec => [](Typed /\ Safe)
BY InitType, NextType, InitSafe, NextSafe, StepIsNext, PTL DEF Spec

\* However many attempts overlap, whatever answers are lost and whoever crashes,
\* GitHub is never sent a comment that it has or may still get.
THEOREM NeverPostedTwice == Spec => []PostedOnce
<1>1. Typed /\ Safe => PostedOnce
  BY SafePosts DEF Typed
<1>2. QED  BY <1>1, AlwaysSafe, PTL

\* A row that may be sent, or is said never to have been sent, is neither on
\* GitHub nor on its way there, and nobody is about to send it.
THEOREM SendableIsUnsent == Spec => []SafeToSend
<1>1. Typed /\ Safe => SafeToSend
  BY SafePosts DEF Typed
<1>2. QED  BY <1>1, AlwaysSafe, PTL

-------------------------------------------------------------------------------
(* The contract *)

\* The initial states are those of the contract.
LEMMA ContractInit == ASSUME Init PROVE C!CInit
BY DEF Init, C!CInit

\* A quiet step settles receipts, or leaves them.
LEMMA QuietContract ==
    ASSUME Typed, Safe, Quiet
    PROVE  C!Settle
<1> USE DEF Typed, TypeOK, RowsOK
<1> DEFINE receipt(s) == IF s = "DELIVERED" THEN "delivered"
                         ELSE IF s \in {"REJECTED", "OMITTED"} THEN "refused"
                         ELSE IF s = "UNKNOWN" THEN "unconfirmed" ELSE "open"
<1>1. UNCHANGED [r \in Rows |-> posted[r] # 0]
  BY DEF Quiet
<1>2. ASSUME NEW r \in Rows
      PROVE  \/ receipt(state'[r]) = receipt(state[r])
             \/ /\ receipt(state[r]) \in {"open", "unconfirmed"}
                /\ \/ receipt(state'[r]) \in {"open", "unconfirmed"}
                   \/ receipt(state'[r]) = "delivered" /\ posted[r] # 0
                   \/ receipt(state'[r]) = "refused" /\ ~(posted[r] # 0)
  BY DEF Quiet, Settles, Safe, Receipts, Unsent
<1>3. \A r \in Rows : receipt(state'[r]) \in C!Receipts
  BY DEF C!Receipts
<1>4. QED  BY <1>1, <1>2, <1>3 DEF C!Settle

\* A step that writes no state and no comment is none of the contract's.
LEMMA SameContract ==
    ASSUME UNCHANGED <<state, posted>> PROVE UNCHANGED C!cvars
BY DEF C!cvars

\* GitHub accepts a comment that is in doubt, for the first time.
LEMMA AcceptContract ==
    ASSUME TypeOK, NEW r \in Rows, posted[r] = 0, state[r] \in {"SENDING", "UNKNOWN"},
           posted' = [posted EXCEPT ![r] = @ + 1], UNCHANGED state
    PROVE  C!Accept(r)
<1> USE DEF TypeOK, RowsOK, GitHubOK
<1>1. \A q \in Rows : posted'[q] # 0 <=> (q = r \/ posted[q] # 0)
  OBVIOUS
<1>2. [q \in Rows |-> posted'[q] # 0] = [q \in Rows |-> (q = r \/ posted[q] # 0)]
  BY <1>1, Zenon
<1>3. [q \in Rows |-> (q = r \/ posted[q] # 0)]
         = [[q \in Rows |-> posted[q] # 0] EXCEPT ![r] = TRUE]
  BY Zenon
<1>4. QED  BY <1>2, <1>3 DEF C!Accept

\* The claim leaves the receipt open.
LEMMA ClaimContract ==
    ASSUME Typed, Safe, NEW u \in Executions, Claim(u)
    PROVE  C!Settle
<1>1. CASE \E r : Drop(u, r) /\ UNCHANGED rows
  BY <1>1, LookQuiet, QuietContract
<1>2. CASE ~ \E r : Drop(u, r) /\ UNCHANGED rows
  <2>1. \E r \in Rows : state[r] = "READY" /\ state' = [state EXCEPT ![r] = "SENDING"]
    BY <1>2 DEF Claim, Typed, TypeOK, RunsOK, ExecutionStates
  <2>2. [r \in Rows |-> IF state'[r] = "DELIVERED" THEN "delivered"
                        ELSE IF state'[r] \in {"REJECTED", "OMITTED"} THEN "refused"
                        ELSE IF state'[r] = "UNKNOWN" THEN "unconfirmed" ELSE "open"]
        = [r \in Rows |-> IF state[r] = "DELIVERED" THEN "delivered"
                          ELSE IF state[r] \in {"REJECTED", "OMITTED"} THEN "refused"
                          ELSE IF state[r] = "UNKNOWN" THEN "unconfirmed" ELSE "open"]
    BY <2>1 DEF Typed, TypeOK, RowsOK
  <2>3. UNCHANGED posted
    BY DEF Claim, github
  <2>4. QED  BY <2>2, <2>3 DEF C!Settle, C!Receipts
<1>3. QED  BY <1>1, <1>2

\* The answer settles the receipt of the row it is about.
LEMMA AnswerContract ==
    ASSUME Typed, Safe, NEW u \in Executions, Answer(u)
    PROVE  C!Settle
<1> USE DEF Typed, TypeOK, RowsOK, RunsOK
<1> DEFINE receipt(s) == IF s = "DELIVERED" THEN "delivered"
                         ELSE IF s \in {"REJECTED", "OMITTED"} THEN "refused"
                         ELSE IF s = "UNKNOWN" THEN "unconfirmed" ELSE "open"
           r == run[u].row
<1>1. r # None /\ r \in Rows /\ Backed(u) /\ run[u].answer \in Answers \ {"none"}
  BY DEF Answer, At, Sending, Safe, Held, ExecutionStates, Answered
<1>2. /\ UNCHANGED posted
      /\ \A q \in Rows \ {r} : state'[q] = state[q]
      /\ state'[r] = state[r] \/ (state[r] \in {"SENDING", "UNKNOWN"} /\ state'[r] = Outcome(u))
  BY <1>1 DEF Answer, github
<1>3. /\ Outcome(u) = "DELIVERED" => posted[r] # 0
      /\ Outcome(u) \in {"REJECTED", "OMITTED"} => posted[r] = 0
      /\ Outcome(u) \in {"DELIVERED", "REJECTED", "OMITTED", "READY", "UNKNOWN"}
  BY <1>1 DEF Outcome, Again, Backed, Answers
<1>4. ASSUME NEW q \in Rows
      PROVE  \/ receipt(state'[q]) = receipt(state[q])
             \/ /\ receipt(state[q]) \in {"open", "unconfirmed"}
                /\ \/ receipt(state'[q]) \in {"open", "unconfirmed"}
                   \/ receipt(state'[q]) = "delivered" /\ posted[q] # 0
                   \/ receipt(state'[q]) = "refused" /\ ~(posted[q] # 0)
  BY <1>2, <1>3
<1>5. \A q \in Rows : receipt(state'[q]) \in C!Receipts
  BY DEF C!Receipts
<1>6. QED  BY <1>2, <1>4, <1>5 DEF C!Settle

\* Whoever takes a step of delivery takes one of the contract, or none.
LEMMA NextContract ==
    ASSUME Typed, Safe, [Next]_vars
    PROVE  [C!CNext]_(C!cvars)
<1>1. ASSUME NEW u \in Executions, Reply(u) PROVE [C!CNext]_(C!cvars)
  <2>1. PICK r \in Rows : r = run[u].row
    BY <1>1 DEF Reply, At, Sending, Typed, TypeOK, RunsOK, ExecutionStates
  <2>2. posted[r] = 0 /\ state[r] \in {"SENDING", "UNKNOWN"}
    BY <1>1, <2>1 DEF Reply, Safe, Outstanding, Request
  <2>3. UNCHANGED state /\ posted' \in {posted, [posted EXCEPT ![r] = @ + 1]}
    BY <1>1, <2>1 DEF Reply, rows
  <2>4. QED  BY <2>2, <2>3, AcceptContract, SameContract DEF Typed, C!CNext
<1>2. ASSUME NEW m \in wire, Arrives(m) PROVE [C!CNext]_(C!cvars)
  <2>1. PICK r \in Rows : r = m.row
    BY DEF Typed, TypeOK, GitHubOK
  <2>2. posted[r] = 0 /\ state[r] \in {"SENDING", "UNKNOWN"}
    BY <2>1 DEF Safe, Outstanding
  <2>3. UNCHANGED state /\ posted' \in {posted, [posted EXCEPT ![r] = @ + 1]}
    BY <1>2, <2>1 DEF Arrives, rows
  <2>4. QED  BY <2>2, <2>3, AcceptContract, SameContract DEF Typed, C!CNext
<1>3. ASSUME NEW u \in Executions, Proceed(u) PROVE [C!CNext]_(C!cvars)
  <2>1. CASE Post(u) \/ NoReply(u)
    BY <2>1, SameContract DEF Post, NoReply, rows, github
  <2>2. CASE Claim(u) \/ Answer(u)
    BY <2>2, ClaimContract, AnswerContract DEF C!CNext
  <2>3. CASE ~(Claim(u) \/ Post(u) \/ Reply(u) \/ NoReply(u) \/ Answer(u))
    <3>1. Quiet
      BY <1>3, <2>3, MoveQuiet, ReconcileQuiet, ReadQuiet, LookQuiet, SummaryQuiet DEF Proceed, Safe
    <3>2. QED  BY <3>1, QuietContract DEF C!CNext
  <2>4. QED  BY <1>1, <2>1, <2>2, <2>3
<1>4. ASSUME NEW u \in Executions, Attempt(u) \/ Abort(u) \/ Check(u) \/ Dies(u)
      PROVE  [C!CNext]_(C!cvars)
  <2>1. Quiet
    BY <1>4, MoveQuiet, SummaryQuiet DEF Attempt
  <2>2. QED  BY <2>1, QuietContract DEF C!CNext
<1>5. CASE Repository \/ Stop \/ CloseWindow \/ \E r \in Rows : LeaseOver(r)
  BY <1>5, MeanwhileQuiet, QuietContract DEF C!CNext
<1>6. CASE UNCHANGED vars
  BY <1>6, SameContract DEF vars, rows, github
<1>7. QED  BY <1>2, <1>3, <1>4, <1>5, <1>6 DEF Next, Executions

\* Delivery implements CommentContract: a comment is accepted once, a receipt that
\* says delivered or refused is true, and what is settled stays so.
THEOREM ReceiptsKeepContract == Spec => KeepsContract
<1>1. Typed /\ Safe /\ [Next]_vars => [C!CNext]_(C!cvars)
  BY NextContract
<1>2. QED
  BY <1>1, ContractInit, AlwaysSafe, StepIsNext, PTL DEF Spec, KeepsContract, C!Safety

-------------------------------------------------------------------------------
(* The summary comes last *)

\* No inline comment is left to send.
InlineSettled == \A i \in Inline : state[i] \in Settled \cup {"NONE"}

\* The summary is not being sent, and no request for it is on its way.
NoSummary == state[Summary] \notin {"READY", "SENDING"} /\ \A m \in wire : m.row # Summary

\* What is read and held is of the stage, which begins with the inline comments.
StageOK(a) == /\ a.stage = "inline"  => a.todo \subseteq Inline /\ a.row # Summary
              /\ a.stage = "summary" => a.todo \subseteq {Summary} /\ a.row \notin Inline
              /\ a.pc = "idle" => a.stage = "inline"

\* The user's check only reconciles.
Reconciles == \A u \in Checks : run[u].pc \in {"idle", "expire", "list", "confirm"}

\* An execution that is done with the inline comments.
Past(a) == a.pc \in {"compose", "summary"} \/ a.stage = "summary"

\* Of one attempt at a time: inline comments and summary are never both to be sent.
Alone == /\ Lone
         /\ NoSummary \/ InlineSettled
         /\ \A u \in Runs : /\ Past(run[u]) => InlineSettled
                            /\ run[u].row \in Inline => NoSummary

Staged  == \A u \in Executions : StageOK(run[u])
Ordered == Staged /\ Reconciles /\ (overlapped \/ Alone)

\* A step that makes nothing to be sent again, and takes no execution past the inline comments.
InlineCalm  == InlineSettled => InlineSettled'
SummaryCalm == NoSummary => NoSummary'
Calm(u, a)  == /\ StageOK(run[u]) => StageOK(a)
               /\ Past(a) => Past(run[u])
               /\ a.row \in {run[u].row, None}
Calms == InlineCalm /\ SummaryCalm /\ \A u \in Executions : Calm(u, run'[u])

LEMMA CalmAlone == ASSUME Alone, Lone', Calms PROVE Alone'
<1>1. \A u \in Runs : Calm(u, run'[u]) /\ None \notin Inline
  BY RowsAssumption DEF Calms, Executions
<1>2. NoSummary' \/ InlineSettled'
  BY DEF Alone, Calms, InlineCalm, SummaryCalm
<1>3. ASSUME NEW u \in Runs PROVE (Past(run[u]) => InlineSettled)' /\ (run[u].row \in Inline => NoSummary)'
  BY <1>1 DEF Alone, Calms, InlineCalm, SummaryCalm, Calm
<1>4. QED  BY <1>2, <1>3 DEF Alone

\* All that is inline is settled, and nobody holds any of it.
LEMMA SettledAlone == ASSUME Lone', InlineSettled', \A u \in Runs : run'[u].row \notin Inline PROVE Alone'
BY DEF Alone

\* Nobody is about to send the summary.
LEMMA ClearAlone == ASSUME Lone', NoSummary', \A u \in Runs : ~Past(run'[u]) PROVE Alone'
BY DEF Alone

\* The others have not started.
LEMMA OthersRest ==
    ASSUME Typed, Staged, Lone, NEW u \in Runs, run[u].pc # "idle", NEW v \in Runs, v # u
    PROVE  ~Past(run[v]) /\ run[v].row = None
<1>1. run[v].pc = "idle" /\ v \in Executions
  BY DEF Lone, Executions
<1>2. QED  BY <1>1 DEF Staged, StageOK, Past, Typed, TypeOK, RunsOK, Sending

\* One execution goes on; the others stay as they are.
LEMMA BecomesOf ==
    ASSUME Typed, NEW u \in Executions, NEW a, Becomes(u, a)
    PROVE  run'[u] = a /\ \A v \in Executions : v # u => run'[v] = run[v]
BY DEF Becomes, Typed, TypeOK, RunsOK

LEMMA BecomesCalm ==
    ASSUME Typed, NEW u \in Executions, NEW a, Becomes(u, a), Calm(u, a)
    PROVE  \A v \in Executions : Calm(v, run'[v])
<1>1. \A v \in Executions : v # u => Calm(v, run'[v])
  BY BecomesOf DEF Calm
<1>2. QED  BY <1>1, BecomesOf

\* The calm ways to go on.
LEMMA CalmWays ==
    ASSUME Typed, NEW u \in Executions, NEW pc, NEW r, NEW answer, NEW found, NEW aborted,
           \/ Goto(u, pc) /\ pc \notin {"idle", "compose"} /\ (pc = "summary" => run[u].pc = "compose")
           \/ Leave(u) \/ Release(u) \/ Drop(u, r) \/ Hears(u, answer)
           \/ Becomes(u, [run[u] EXCEPT !.pc = "confirm", !.found = found])
           \/ Becomes(u, [run[u] EXCEPT !.found = found])
           \/ Becomes(u, [run[u] EXCEPT !.aborted = aborted])
    PROVE  \A v \in Executions : Calm(v, run'[v])
<1>0. run[u] \in ExecutionStates /\ None # Summary /\ None \notin Inline
  BY RowsAssumption DEF Typed, TypeOK, RunsOK
<1>1. CASE Leave(u)
  BY <1>0, <1>1, BecomesCalm DEF Leave, IdleRun, Calm, StageOK, Past
<1>2. CASE Release(u)
  <2> DEFINE a == [run[u] EXCEPT !.pc = "send", !.row = None, !.claim = 0, !.answer = "none"]
  <2>1. a.row = None /\ a.stage = run[u].stage /\ a.todo = run[u].todo /\ a.pc = "send"
    BY <1>0 DEF ExecutionStates
  <2>2. Becomes(u, a)
    BY <1>2 DEF Release
  <2> HIDE DEF a
  <2>3. Calm(u, a)
    BY <1>0, <2>1 DEF Calm, StageOK, Past
  <2>4. QED  BY <2>2, <2>3, BecomesCalm
<1>3. CASE Drop(u, r)
  <2> DEFINE a == [run[u] EXCEPT !.todo = @ \ {r}]
  <2>1. a.row = run[u].row /\ a.stage = run[u].stage /\ a.todo = run[u].todo \ {r} /\ a.pc = run[u].pc
    BY <1>0 DEF ExecutionStates
  <2>2. Becomes(u, a)
    BY <1>3 DEF Drop
  <2> HIDE DEF a
  <2>3. Calm(u, a)
    BY <1>0, <2>1 DEF Calm, StageOK, Past
  <2>4. QED  BY <2>2, <2>3, BecomesCalm
<1>4. CASE Goto(u, pc) /\ pc \notin {"idle", "compose"} /\ (pc = "summary" => run[u].pc = "compose")
  <2> DEFINE a == [run[u] EXCEPT !.pc = pc]
  <2>1. a.row = run[u].row /\ a.stage = run[u].stage /\ a.todo = run[u].todo /\ a.pc = pc
    BY <1>0 DEF ExecutionStates
  <2>2. Becomes(u, a)
    BY <1>4 DEF Goto
  <2> HIDE DEF a
  <2>3. Calm(u, a)
    BY <1>0, <1>4, <2>1 DEF Calm, StageOK, Past
  <2>4. QED  BY <2>2, <2>3, BecomesCalm
<1>5. CASE Hears(u, answer)
  <2> DEFINE a == [run[u] EXCEPT !.pc = "answer", !.answer = answer]
  <2>1. a.row = run[u].row /\ a.stage = run[u].stage /\ a.todo = run[u].todo /\ a.pc = "answer"
    BY <1>0 DEF ExecutionStates
  <2>2. Becomes(u, a)
    BY <1>5 DEF Hears
  <2> HIDE DEF a
  <2>3. Calm(u, a)
    BY <1>0, <2>1 DEF Calm, StageOK, Past
  <2>4. QED  BY <2>2, <2>3, BecomesCalm
<1>6. ASSUME NEW a, Becomes(u, a), a.row = run[u].row /\ a.stage = run[u].stage /\ a.todo = run[u].todo,
             a.pc \in {run[u].pc, "confirm"}
      PROVE  \A v \in Executions : Calm(v, run'[v])
  <2>1. Calm(u, a)
    BY <1>6 DEF Calm, StageOK, Past
  <2>2. QED  BY <1>6, <2>1, BecomesCalm
<1>7. CASE Becomes(u, [run[u] EXCEPT !.pc = "confirm", !.found = found])
  <2> DEFINE a == [run[u] EXCEPT !.pc = "confirm", !.found = found]
  <2>1. a.row = run[u].row /\ a.stage = run[u].stage /\ a.todo = run[u].todo /\ a.pc = "confirm"
    BY <1>0 DEF ExecutionStates
  <2>2. QED  BY <1>6, <1>7, <2>1
<1>8. CASE Becomes(u, [run[u] EXCEPT !.found = found])
  <2> DEFINE a == [run[u] EXCEPT !.found = found]
  <2>1. a.row = run[u].row /\ a.stage = run[u].stage /\ a.todo = run[u].todo /\ a.pc = run[u].pc
    BY <1>0 DEF ExecutionStates
  <2>2. QED  BY <1>6, <1>8, <2>1
<1>9. CASE Becomes(u, [run[u] EXCEPT !.aborted = aborted])
  <2> DEFINE a == [run[u] EXCEPT !.aborted = aborted]
  <2>1. a.row = run[u].row /\ a.stage = run[u].stage /\ a.todo = run[u].todo /\ a.pc = run[u].pc
    BY <1>0 DEF ExecutionStates
  <2>2. QED  BY <1>6, <1>9, <2>1
<1>10. QED  BY <1>1, <1>2, <1>3, <1>4, <1>5, <1>7, <1>8, <1>9

\* An execution goes elsewhere, short of the summary; or it returns.
LEMMA CalmGoto ==
    ASSUME Typed, NEW u \in Executions, NEW pc, Goto(u, pc), pc \notin {"idle", "compose"},
           pc = "summary" => run[u].pc = "compose"
    PROVE  \A v \in Executions : Calm(v, run'[v])
BY CalmWays

LEMMA CalmLeave ==
    ASSUME Typed, NEW u \in Executions, Leave(u) \/ Release(u)
    PROVE  \A v \in Executions : Calm(v, run'[v])
BY CalmWays

\* Rows only settle, but for a summary that is yet to be written; no request leaves.
Calmer == /\ \A r \in Rows : state'[r] \in Settled \cup {state[r]} \/ (r = Summary /\ state'[r] = "WAITING")
          /\ wire' \subseteq wire

LEMMA CalmerCalm == ASSUME Calmer PROVE InlineCalm /\ SummaryCalm
<1>1. InlineCalm
  BY RowsAssumption DEF Calmer, InlineCalm, InlineSettled, Rows
<1>2. SummaryCalm
  BY DEF Calmer, SummaryCalm, NoSummary, Rows, Settled, Terminal
<1>3. QED  BY <1>1, <1>2

\* updateMany settles what it changes.
LEMMA SetStateCalmer ==
    ASSUME NEW set, NEW from, NEW to \in Settled, SetState(set, from, to), wire' \subseteq wire
    PROVE  Calmer
BY DEF SetState, Calmer

\* No row and no request changes.
LEMMA SameCalmer == ASSUME UNCHANGED state, wire' \subseteq wire PROVE Calmer
BY DEF Calmer

\* The start of an execution, and what only moves it on, short of the summary.
LEMMA MoveCalm ==
    ASSUME Typed, Staged, NEW u \in Executions,
           \/ Start(u) \/ StartSettled(u) \/ Check(u) \/ Checked(u) \/ SendStops(u)
           \/ (InlineDone(u) /\ ~Goto(u, "compose"))
           \/ ComposeStops(u) \/ NoSummaryToWrite(u) \/ SummaryDone(u)
           \/ List(u) \/ Recheck(u) \/ Dies(u) \/ Abort(u) \/ Complete(u)
    PROVE  Calms
<1>1. Calmer
  BY SameCalmer DEF Start, StartSettled, Check, Checked, SendStops, InlineDone, ComposeStops,
     NoSummaryToWrite, SummaryDone, List, Recheck, Dies, Abort, Complete, rows, github
<1>2. \A v \in Executions : Calm(v, run'[v])
  <2>1. CASE \E pc \in {"expire", "finish", "screen", "post"} : Goto(u, pc)
    BY <2>1, CalmGoto
  <2>2. CASE Goto(u, "summary") /\ run[u].pc = "compose"
    BY <2>2, CalmGoto
  <2>3. CASE List(u)
    BY <2>3, CalmWays DEF List
  <2>4. CASE Leave(u) \/ Release(u)
    BY <2>4, CalmLeave
  <2>5. CASE Abort(u)
    BY <2>5, CalmWays DEF Abort
  <2>6. QED
    BY <2>1, <2>2, <2>3, <2>4, <2>5 DEF Start, StartSettled, Check, Checked, SendStops, InlineDone,
       ComposeStops, NoSummaryToWrite, SummaryDone, Recheck, Dies, Complete, At
<1>3. QED  BY <1>1, <1>2, CalmerCalm DEF Calms

\* Rows that are settled on the way.
LEMMA SettleCalm ==
    ASSUME Typed, Staged, NEW u \in Executions,
           \/ ExpireClaims(u) \/ Confirm(u) \/ Screen(u) \/ SendTooLate(u) \/ SendUnproven(u)
           \/ AddSummary(u) \/ Reply(u) \/ NoReply(u)
    PROVE  Calms
<1>1. Calmer
  <2>1. CASE ExpireClaims(u) \/ Confirm(u) \/ Screen(u) \/ SendTooLate(u) \/ SendUnproven(u)
    BY <2>1, SetStateCalmer, SameCalmer DEF ExpireClaims, Confirm, Screen, SendTooLate, SendUnproven,
       Settled, Terminal, github
  <2>2. CASE AddSummary(u)
    BY <2>2 DEF AddSummary, Calmer, github, Typed, TypeOK, RowsOK
  <2>3. CASE Reply(u) \/ NoReply(u)
    BY <2>3, SameCalmer DEF Reply, NoReply, rows, github
  <2>4. QED  BY <2>1, <2>2, <2>3
<1>2. \A v \in Executions : Calm(v, run'[v])
  <2>1. CASE ExpireClaims(u) \/ Screen(u)
    <3>1. \E pc \in {"list", "snapshot"} : Goto(u, pc)
      BY <2>1 DEF ExpireClaims, Screen
    <3>2. QED  BY <3>1, CalmGoto
  <2>2. CASE SendTooLate(u) \/ SendUnproven(u)
    BY <2>2, CalmWays DEF SendTooLate, SendUnproven
  <2>3. CASE Confirm(u)
    BY <2>3, CalmWays DEF Confirm
  <2>4. CASE AddSummary(u)
    BY <2>4 DEF AddSummary, Calm
  <2>5. CASE Reply(u) \/ NoReply(u)
    BY <2>5, CalmWays DEF Reply, NoReply
  <2>6. QED  BY <2>1, <2>2, <2>3, <2>4, <2>5
<1>3. QED  BY <1>1, <1>2, CalmerCalm DEF Calms

\* The rows to send are read: the inline ones first, the summary by an execution past them.
LEMMA ReadsCalm ==
    ASSUME Typed, Staged, NEW u \in Executions, Snapshot(u) \/ SendSummary(u)
    PROVE  Calms
<1>1. Calmer
  BY SameCalmer DEF Snapshot, SendSummary, rows, github
<1>2. run[u] \in ExecutionStates /\ run[u].row = None /\ None # Summary /\ None \notin Inline
  BY RowsAssumption DEF Typed, TypeOK, RunsOK, Snapshot, SendSummary, At, Sending
<1>3. ASSUME NEW set, NEW stage, Reads(u, set, stage)
      PROVE  \E a : Becomes(u, a) /\ a.pc = "send" /\ a.stage = stage /\ a.todo \subseteq set /\ a.row = None
  <2> DEFINE ready == {r \in set : state[r] = "READY"}
             a(held) == [run[u] EXCEPT !.pc = "send", !.stage = stage, !.todo = ready,
                                       !.held = held, !.read = ready \cap bodies]
  <2>1. PICK held : Becomes(u, a(held))
    BY <1>3 DEF Reads
  <2>2. ready \subseteq set
    OBVIOUS
  <2> HIDE DEF ready
  <2>3. a(held).pc = "send" /\ a(held).stage = stage /\ a(held).todo = ready /\ a(held).row = None
    BY <1>2 DEF ExecutionStates
  <2>4. QED  BY <2>1, <2>2, <2>3
<1>4. CASE Snapshot(u)
  <2>1. PICK a : /\ Becomes(u, a) /\ a.pc = "send" /\ a.stage = "inline"
                 /\ a.todo \subseteq Inline /\ a.row = None
    BY <1>3, <1>4 DEF Snapshot
  <2>2. Calm(u, a)
    BY <1>2, <2>1 DEF Calm, StageOK, Past
  <2>3. QED  BY <1>1, <2>1, <2>2, BecomesCalm, CalmerCalm DEF Calms
<1>5. CASE SendSummary(u)
  <2>1. PICK a : /\ Becomes(u, a) /\ a.pc = "send" /\ a.stage = "summary"
                 /\ a.todo \subseteq {Summary} /\ a.row = None
    BY <1>3, <1>5 DEF SendSummary
  <2>2. Calm(u, a)
    BY <1>2, <1>5, <2>1 DEF Calm, StageOK, Past, SendSummary, At
  <2>3. QED  BY <1>1, <2>1, <2>2, BecomesCalm, CalmerCalm DEF Calms
<1>6. QED  BY <1>4, <1>5

\* What the repository, the queue, GitHub and time do.
LEMMA MeanwhileCalm ==
    ASSUME Typed,
           \/ Repository \/ Stop \/ CloseWindow \/ (\E r \in Rows : LeaseOver(r))
           \/ (\E m \in wire : Arrives(m)) \/ UNCHANGED vars
    PROVE  Calms /\ UNCHANGED run
<1>1. Calmer /\ UNCHANGED run
  <2>1. CASE Purge
    BY <2>1 DEF Purge, Calmer, Settled, Terminal, github
  <2>2. CASE ~Purge
    BY <2>2, SameCalmer DEF Repository, Deactivate, CancelDisconnected, Reconnect, ExpirePayloads, Stop,
       CloseWindow, LeaseOver, Arrives, vars, rows, plan, github
  <2>3. QED  BY <2>1, <2>2
<1>2. \A v \in Executions : Calm(v, run'[v])
  BY <1>1 DEF Calm
<1>3. QED  BY <1>1, <1>2, CalmerCalm DEF Calms

-------------------------------------------------------------------------------
\* A calm step keeps the stages, and the order as long as attempts do not overlap.
LEMMA CalmOrdered ==
    ASSUME Staged, overlapped \/ Alone, Calms, Remember
    PROVE  Staged' /\ (overlapped \/ Alone)'
<1>1. Staged'
  BY DEF Staged, Calms, Calm
<1>2. ASSUME ~overlapped' PROVE Alone'
  BY <1>2, CalmAlone DEF Remember
<1>3. QED  BY <1>1, <1>2

\* A claim of the summary is one of an execution past the inline comments; one of an inline
\* comment finds it ready, so that nothing of the summary is under way.
LEMMA ClaimOrdered ==
    ASSUME Typed, Staged, overlapped \/ Alone, NEW u \in Runs, Claim(u), Remember
    PROVE  Staged' /\ (overlapped \/ Alone)'
<1>0. run[u] \in ExecutionStates /\ u \in Executions /\ None # Summary /\ None \notin Inline
      /\ run[u].row = None /\ run[u].pc = "send"
  BY RowsAssumption DEF Typed, TypeOK, RunsOK, Executions, Claim, At, Sending
<1>1. CASE \E r : Drop(u, r) /\ UNCHANGED rows
  <2>1. Calmer
    BY <1>1, SameCalmer DEF Claim, rows, github
  <2>2. QED  BY <1>0, <1>1, <2>1, CalmWays, CalmerCalm, CalmOrdered DEF Calms
<1>2. CASE ~ \E r : Drop(u, r) /\ UNCHANGED rows
  <2>1. PICK r \in run[u].todo :
           /\ state[r] = "READY"
           /\ state' = [state EXCEPT ![r] = "SENDING"]
           /\ Becomes(u, [run[u] EXCEPT !.pc = "recheck", !.row = r, !.todo = @ \ {r},
                                        !.claim = attempts[r] + 1])
    BY <1>2 DEF Claim
  <2> DEFINE a == [run[u] EXCEPT !.pc = "recheck", !.row = r, !.todo = @ \ {r},
                                 !.claim = attempts[r] + 1]
  <2>2. /\ a.pc = "recheck" /\ a.row = r /\ a.stage = run[u].stage /\ a.todo = run[u].todo \ {r}
        /\ r \in Rows
    BY <1>0 DEF ExecutionStates
  <2>3. Becomes(u, a)
    BY <2>1
  <2> HIDE DEF a
  <2>4. run'[u] = a /\ \A v \in Executions : v # u => run'[v] = run[v]
    BY <1>0, <2>3, BecomesOf
  <2>5. StageOK(a) /\ (a.stage = "inline" => r \in Inline) /\ (a.stage = "summary" => r = Summary)
    BY <1>0, <2>2, RowsAssumption DEF Staged, StageOK
  <2>6. Staged'
    BY <2>4, <2>5 DEF Staged
  <2>7. UNCHANGED wire /\ \A q \in Rows : q # r => state'[q] = state[q]
    BY <2>1 DEF Claim, github, Typed, TypeOK, RowsOK
  <2>8. ASSUME ~overlapped' PROVE Alone'
    <3>1. Alone /\ Lone'
      BY <2>8 DEF Remember
    <3>2. \A v \in Runs \ {u} : ~Past(run'[v]) /\ run'[v].row = None
      BY <1>0, <2>4, <3>1, OthersRest DEF Alone, Executions
    <3>3. CASE a.stage = "inline"
      <4>1. NoSummary
        BY <2>1, <2>5, <3>1, <3>3 DEF Alone, InlineSettled, Settled, Terminal
      <4>2. NoSummary'
        BY <2>5, <2>7, <3>3, <4>1, RowsAssumption DEF NoSummary, Rows
      <4>3. ~Past(run'[u])
        BY <2>2, <2>4, <3>3 DEF Past
      <4>4. QED  BY <3>1, <3>2, <4>2, <4>3, ClearAlone
    <3>4. CASE a.stage = "summary"
      <4>1. InlineSettled
        BY <2>2, <3>1, <3>4 DEF Alone, Past
      <4>2. InlineSettled'
        BY <2>5, <2>7, <3>4, <4>1, RowsAssumption DEF InlineSettled, Rows
      <4>3. \A v \in Runs : run'[v].row \notin Inline
        BY <1>0, <2>2, <2>4, <2>5, <3>2, <3>4, RowsAssumption
      <4>4. QED  BY <3>1, <4>2, <4>3, SettledAlone
    <3>5. QED  BY <1>0, <2>2, <3>3, <3>4 DEF ExecutionStates
  <2>9. QED  BY <2>6, <2>8
<1>3. QED  BY <1>1, <1>2

\* The execution that goes on is past the inline comments, all of which stay settled.
LEMMA PastOrdered ==
    ASSUME Typed, Staged, overlapped \/ Alone, NEW u \in Runs, run[u].pc # "idle",
           Remember, \A v \in Executions : v # u => run'[v] = run[v],
           StageOK(run'[u]), run'[u].row \notin Inline,
           Alone => InlineSettled'
    PROVE  Staged' /\ (overlapped \/ Alone)'
<1>1. Staged'
  BY DEF Staged
<1>2. ASSUME ~overlapped' PROVE Alone'
  <2>1. Alone /\ Lone'
    BY <1>2 DEF Remember
  <2>2. \A v \in Runs : run'[v].row \notin Inline
    BY <2>1, OthersRest, RowsAssumption DEF Alone, Executions
  <2>3. QED  BY <2>1, <2>2, SettledAlone
<1>3. QED  BY <1>1, <1>2

\* The request for the summary leaves when the inline comments are settled.
LEMMA PostOrdered ==
    ASSUME Typed, Staged, overlapped \/ Alone, NEW u \in Runs, Post(u), Remember
    PROVE  Staged' /\ (overlapped \/ Alone)'
<1>0. /\ run[u] \in ExecutionStates /\ u \in Executions /\ Summary \notin Inline
      /\ run[u].row \in Rows /\ run[u].pc = "post"
  BY RowsAssumption DEF Typed, TypeOK, RunsOK, Executions, Post, At, Sending, ExecutionStates
<1>1. \A v \in Executions : Calm(v, run'[v])
  BY <1>0, CalmGoto DEF Post
<1>2. UNCHANGED state /\ wire' = wire \cup {Request(u)}
  BY DEF Post, rows
<1>3. InlineCalm
  BY <1>2 DEF InlineCalm, InlineSettled
<1>4. CASE run[u].row # Summary
  <2>1. SummaryCalm
    BY <1>2, <1>4 DEF SummaryCalm, NoSummary, Request
  <2>2. QED  BY <1>1, <1>3, <2>1, CalmOrdered DEF Calms
<1>5. CASE run[u].row = Summary
  <2>1. StageOK(run[u]) /\ StageOK(run'[u]) /\ run'[u].row \notin Inline
    BY <1>0, <1>1, <1>5, RowsAssumption DEF Staged, Calm
  <2>2. Alone => InlineSettled
    BY <1>0, <1>5, <2>1 DEF Alone, Past, StageOK, ExecutionStates
  <2>3. \A v \in Executions : v # u => run'[v] = run[v]
    BY <1>0 DEF Post, Goto, Becomes, Typed, TypeOK, RunsOK
  <2>4. QED  BY <1>0, <1>3, <2>1, <2>2, <2>3, PastOrdered DEF InlineCalm
<1>6. QED  BY <1>4, <1>5

\* A rate limit may make an inline comment ready again: nothing of the summary is under way then.
LEMMA AnswerOrdered ==
    ASSUME Typed, Staged, overlapped \/ Alone, NEW u \in Runs, Answer(u), Remember
    PROVE  Staged' /\ (overlapped \/ Alone)'
<1> DEFINE r == run[u].row
<1>0. /\ run[u] \in ExecutionStates /\ u \in Executions /\ Summary \notin Inline /\ None \notin Inline
      /\ r \in Rows /\ run[u].pc = "answer"
  BY RowsAssumption DEF Typed, TypeOK, RunsOK, Executions, Answer, At, Sending, ExecutionStates
<1>1. Leave(u) \/ Release(u)
  BY DEF Answer
<1>2. \A v \in Executions : Calm(v, run'[v])
  BY <1>0, <1>1, CalmLeave
<1>3. UNCHANGED wire /\ \A q \in Rows : q # r => state'[q] = state[q]
  BY DEF Answer, github, Typed, TypeOK, RowsOK
<1>4. run'[u].row = None /\ \A v \in Executions : v # u => run'[v] = run[v]
  <2>1. CASE Leave(u)
    BY <1>0, <2>1, IdleRunType, BecomesOf DEF Leave
  <2>2. CASE Release(u)
    BY <1>0, <2>2 DEF Release, Becomes, Typed, TypeOK, RunsOK, ExecutionStates
  <2>3. QED  BY <1>1, <2>1, <2>2
<1>5. StageOK(run[u]) /\ Staged'
  BY <1>0, <1>2 DEF Staged, Calm
<1>6. CASE r = Summary
  <2>1. Alone => InlineSettled
    BY <1>0, <1>5, <1>6 DEF Alone, Past, StageOK, ExecutionStates
  <2>2. InlineSettled => InlineSettled'
    BY <1>0, <1>3, <1>6 DEF InlineSettled, Rows
  <2>3. StageOK(run'[u])
    BY <1>0, <1>5 DEF Staged
  <2>4. QED  BY <1>0, <1>4, <2>1, <2>2, <2>3, PastOrdered
<1>7. CASE r \in Inline
  <2>1. ASSUME ~overlapped' PROVE Alone'
    <3>1. Alone /\ Lone'
      BY <2>1 DEF Remember
    <3>2. NoSummary'
      BY <1>0, <1>3, <1>7, <3>1 DEF Alone, NoSummary, Rows
    <3>3. ~Past(run[u])
      BY <1>0, <1>5, <1>7 DEF Past, StageOK
    <3>4. \A v \in Runs : ~Past(run'[v])
      BY <1>0, <1>2, <3>1, <3>3, OthersRest DEF Alone, Calm, Executions
    <3>5. QED  BY <3>1, <3>2, <3>4, ClearAlone
  <2>2. QED  BY <1>5, <2>1
<1>8. QED  BY <1>0, <1>6, <1>7 DEF Rows

\* The inline comments are done when each of them is settled, and only then the summary is written.
LEMMA DoneOrdered ==
    ASSUME Typed, Staged, overlapped \/ Alone, NEW u \in Runs, Remember,
           InlineDone(u) \/ WriteSummary(u)
    PROVE  Staged' /\ (overlapped \/ Alone)'
<1>0. /\ run[u] \in ExecutionStates /\ u \in Executions /\ Summary \notin Inline /\ None \notin Inline
      /\ None # Summary /\ run[u].row = None /\ run[u].pc \in {"send", "compose"}
  BY RowsAssumption DEF Typed, TypeOK, RunsOK, Executions, InlineDone, WriteSummary, At, Sending
<1>1. ASSUME NEW pc \in {"compose", "summary"}, Goto(u, pc)
      PROVE  /\ run'[u] = [run[u] EXCEPT !.pc = pc] /\ run'[u].row = None
             /\ run'[u].stage = run[u].stage /\ run'[u].todo = run[u].todo /\ run'[u].pc = pc
             /\ \A v \in Executions : v # u => run'[v] = run[v]
  BY <1>0, <1>1 DEF Goto, Becomes, Typed, TypeOK, RunsOK, ExecutionStates
<1>2. ASSUME NEW pc \in {"compose", "summary"}, Goto(u, pc), Alone => InlineSettled'
      PROVE  Staged' /\ (overlapped \/ Alone)'
  <2>1. StageOK(run'[u])
    BY <1>0, <1>1, <1>2 DEF Staged, StageOK
  <2>2. QED  BY <1>0, <1>1, <1>2, <2>1, PastOrdered
<1>3. CASE InlineDone(u)
  <2>1. CASE Goto(u, "compose") /\ Pending \cap Inline = {}
    <3>1. InlineSettled'
      BY <1>3, <2>1 DEF InlineDone, rows, InlineSettled, Pending, Rows, Typed, TypeOK, RowsOK
    <3>2. QED  BY <1>2, <2>1, <3>1
  <2>2. CASE Leave(u)
    <3>1. Calmer
      BY <1>3, SameCalmer DEF InlineDone, rows, github
    <3>2. QED  BY <1>0, <2>2, <3>1, CalmLeave, CalmerCalm, CalmOrdered DEF Calms
  <2>3. QED  BY <1>3, <2>1, <2>2 DEF InlineDone
<1>4. CASE WriteSummary(u)
  <2>1. Alone => InlineSettled
    BY <1>4 DEF WriteSummary, At, Alone, Past
  <2>2. InlineSettled => InlineSettled'
    BY <1>0, <1>4 DEF WriteSummary, SetState, InlineSettled, Rows
  <2>3. QED  BY <1>2, <1>4, <2>1, <2>2 DEF WriteSummary
<1>5. QED  BY <1>3, <1>4

\* A step of an execution leaves the others as they are.
LEMMA OthersStay ==
    ASSUME Typed, NEW u \in Executions, Proceed(u) \/ Attempt(u) \/ Abort(u) \/ Check(u) \/ Dies(u),
           NEW v \in Executions, v # u
    PROVE  run'[v] = run[v]
<1>1. (\E a : Becomes(u, a)) \/ UNCHANGED run
  BY DEF Proceed, Attempt, Abort, Check, Dies, Start, StartSettled, ExpireClaims, List, Confirm,
     Checked, Screen, Snapshot, SendStops, SendTooLate, SendUnproven, Claim, Recheck, Post, Reply,
     NoReply, Answer, InlineDone, AddSummary, WriteSummary, ComposeStops, NoSummaryToWrite,
     SendSummary, SummaryDone, Complete, Goto, Leave, Release, Drop, Hears, Reads
<1>2. QED  BY <1>1, BecomesOf

\* The user's check gets no further than the receipts it confirms.
LEMMA CheckReconciles ==
    ASSUME Typed, Reconciles, NEW u \in Checks, Proceed(u) \/ Check(u) \/ Dies(u)
    PROVE  run'[u].pc \in {"idle", "expire", "list", "confirm"}
<1>0. run[u] \in ExecutionStates /\ u \in Executions /\ u \notin Runs
      /\ run[u].pc \in {"idle", "expire", "list", "confirm"}
  BY RowsAssumption DEF Typed, TypeOK, RunsOK, Executions, Reconciles
<1>1. \/ Check(u) \/ Dies(u) \/ ExpireClaims(u) \/ List(u) \/ Confirm(u) \/ Checked(u)
  BY <1>0 DEF Proceed, Screen, Snapshot, SendStops, SendTooLate, SendUnproven, Claim, Recheck, Post,
     Reply, NoReply, Answer, InlineDone, AddSummary, WriteSummary, ComposeStops, NoSummaryToWrite,
     SendSummary, SummaryDone, Complete, At
<1>2. \/ Leave(u) \/ (\E pc \in {"expire", "list"} : Goto(u, pc))
      \/ (\E found : Becomes(u, [run[u] EXCEPT !.pc = "confirm", !.found = found]))
      \/ (\E r : Becomes(u, [run[u] EXCEPT !.found = @ \ {r}]))
  BY <1>1 DEF Check, Dies, ExpireClaims, List, Confirm, Checked
<1>3. CASE Leave(u)
  BY <1>0, <1>3, IdleRunType, BecomesOf DEF Leave
<1>4. ASSUME NEW pc \in {"expire", "list"}, Goto(u, pc) PROVE run'[u].pc = pc
  BY <1>0, <1>4 DEF Goto, Becomes, Typed, TypeOK, RunsOK, ExecutionStates
<1>5. ASSUME NEW found, Becomes(u, [run[u] EXCEPT !.pc = "confirm", !.found = found])
      PROVE  run'[u].pc = "confirm"
  BY <1>0, <1>5 DEF Becomes, Typed, TypeOK, RunsOK, ExecutionStates
<1>6. ASSUME NEW r, Becomes(u, [run[u] EXCEPT !.found = @ \ {r}]) PROVE run'[u].pc = run[u].pc
  BY <1>0, <1>6 DEF Becomes, Typed, TypeOK, RunsOK, ExecutionStates
<1>7. QED  BY <1>0, <1>2, <1>3, <1>4, <1>5, <1>6

\* Nobody but the check itself moves it.
LEMMA ReconcilesKeeps == ASSUME Typed, Reconciles, [Next]_vars PROVE Reconciles'
<1> SUFFICES ASSUME NEW v \in Checks PROVE run'[v].pc \in {"idle", "expire", "list", "confirm"}
  BY DEF Reconciles
<1>0. v \in Executions /\ v \notin Runs /\ run[v].pc \in {"idle", "expire", "list", "confirm"}
  BY RowsAssumption DEF Executions, Reconciles
<1>1. ASSUME NEW u \in Executions, Proceed(u) \/ Attempt(u) \/ Abort(u) \/ Check(u) \/ Dies(u), v # u
      PROVE  run'[v].pc \in {"idle", "expire", "list", "confirm"}
  BY <1>0, <1>1, OthersStay
<1>2. CASE Proceed(v) \/ Check(v) \/ Dies(v)
  BY <1>2, CheckReconciles
<1>3. CASE UNCHANGED run
  BY <1>0, <1>3
<1>4. CASE UNCHANGED vars \/ Repository \/ Stop \/ CloseWindow \/ (\E r \in Rows : LeaseOver(r))
           \/ (\E m \in wire : Arrives(m))
  BY <1>3, <1>4, MeanwhileCalm
<1>5. QED  BY <1>0, <1>1, <1>2, <1>4 DEF Next, Executions

\* Every step keeps the order.
LEMMA NextOrdered == ASSUME Typed, Ordered, Next, Remember PROVE Ordered'
<1>0. Staged /\ (overlapped \/ Alone) /\ Reconciles
  BY DEF Ordered
<1>1. ASSUME NEW u \in Executions, Attempt(u) \/ Abort(u) \/ Check(u) \/ Dies(u)
      PROVE  Staged' /\ (overlapped \/ Alone)'
  BY <1>0, <1>1, MoveCalm, CalmOrdered DEF Attempt
<1>2. ASSUME NEW u \in Runs, Proceed(u) PROVE Staged' /\ (overlapped \/ Alone)'
  <2>1. u \in Executions
    BY DEF Executions
  <2>2. CASE Claim(u) \/ Post(u) \/ Answer(u) \/ InlineDone(u) \/ WriteSummary(u)
    BY <1>0, <2>2, ClaimOrdered, PostOrdered, AnswerOrdered, DoneOrdered
  <2>3. CASE ~(Claim(u) \/ Post(u) \/ Answer(u) \/ InlineDone(u) \/ WriteSummary(u))
    <3>1. Calms
      BY <1>0, <1>2, <2>1, <2>3, MoveCalm, SettleCalm, ReadsCalm DEF Proceed
    <3>2. QED  BY <1>0, <3>1, CalmOrdered
  <2>4. QED  BY <2>2, <2>3
<1>3. ASSUME NEW u \in Checks, Proceed(u) PROVE Staged' /\ (overlapped \/ Alone)'
  <2>1. u \in Executions /\ run[u].pc \in {"idle", "expire", "list", "confirm"}
    BY <1>0 DEF Executions, Reconciles
  <2>2. ~(Claim(u) \/ Post(u) \/ Answer(u) \/ InlineDone(u) \/ WriteSummary(u))
    BY <2>1 DEF Claim, Post, Answer, InlineDone, WriteSummary, At
  <2>3. Calms
    BY <1>0, <1>3, <2>1, <2>2, MoveCalm, SettleCalm, ReadsCalm DEF Proceed
  <2>4. QED  BY <1>0, <2>3, CalmOrdered
<1>4. ASSUME \/ Repository \/ Stop \/ CloseWindow \/ (\E r \in Rows : LeaseOver(r))
             \/ (\E m \in wire : Arrives(m))
      PROVE  Staged' /\ (overlapped \/ Alone)'
  <2>1. Calms
    BY <1>4, MeanwhileCalm
  <2>2. QED  BY <1>0, <2>1, CalmOrdered
<1>5. Staged' /\ (overlapped \/ Alone)'
  BY <1>1, <1>2, <1>3, <1>4 DEF Next, Executions
<1>6. QED  BY <1>0, <1>5, ReconcilesKeeps DEF Ordered

\* Nothing has been read or sent at first.
LEMMA InitOrdered == ASSUME Init PROVE Ordered
<1>1. \A u \in Executions : run[u] = IdleRun
  BY DEF Init
<1>2. IdleRun.pc = "idle" /\ IdleRun.stage = "inline" /\ IdleRun.todo = {} /\ IdleRun.row = None
  BY DEF IdleRun
<1>3. NoSummary
  BY DEF Init, NoSummary, Rows
<1>4. Alone
  BY <1>1, <1>2, <1>3, RowsAssumption DEF Alone, Lone, Past, Executions
<1>5. Staged /\ Reconciles
  BY <1>1, <1>2, RowsAssumption DEF Staged, StageOK, Reconciles, Executions
<1>6. QED  BY <1>4, <1>5 DEF Ordered

\* What the order says of the summary.
LEMMA OrderedSummary == ASSUME Ordered PROVE InlineFirstAlone
<1> SUFFICES ASSUME ~overlapped, state[Summary] \in {"READY", "SENDING"} \/ Requests(Summary) # {}
             PROVE  Pending \cap Inline = {}
  BY DEF InlineFirstAlone
<1>1. ~NoSummary
  BY DEF NoSummary, Requests
<1>2. InlineSettled
  BY <1>1 DEF Ordered, Alone
<1>3. QED  BY <1>2 DEF InlineSettled, Pending

\* As long as attempts do not overlap, the summary is neither ready, nor being sent, nor on its
\* way while an inline comment is left: it reports them all.
THEOREM SummaryComesLast == Spec => []InlineFirstAlone
<1>1. Typed /\ Ordered /\ [Next /\ Remember]_<<vars, overlapped>> => Ordered'
  <2>1. CASE Next /\ Remember
    BY <2>1, NextOrdered
  <2>2. CASE UNCHANGED <<vars, overlapped>>
    BY <2>2 DEF vars, rows, github, Ordered, Staged, StageOK, Reconciles, Alone, Lone, NoSummary,
       InlineSettled, Past
  <2>3. QED  BY <2>1, <2>2
<1>2. Spec => [](Typed /\ Ordered)
  BY <1>1, InitType, NextType, InitOrdered, StepIsNext, PTL DEF Spec
<1>3. QED  BY <1>2, OrderedSummary, PTL
===============================================================================
