--------------------------------- MODULE AiReview ---------------------------------
(***************************************************************************)
(* How a review asks the model: what an attempt needs before it asks, what it *)
(* makes of the answer, and which failures end the review instead of asking    *)
(* - and paying - again.  The queue keeps the remaining attempts; an attempt    *)
(* may die with its process.                                                *)
(***************************************************************************)
EXTENDS Naturals, Sequences

CONSTANTS None,
          Severities,       \* that a finding may have, 1 the most severe; the last is INFO,
                            \* which is also made of a level nobody knows
          DefaultLeast,     \* min_severity without a configuration
          MaxAttempts, MaxFindings, MaxFaults

VARIABLES change,   \* what the diff of the review is
          policy,   \* min_severity in the .aipr.yml at the base commit, if it can be made out
          att,      \* the attempt that runs
          queue,    \* of the job: waiting, active, failed, completed; attempts made
          row,      \* of the review: status, findings and their min_severity, rows of its scans
          asked,    \* of the model: the answer to the last question, how its attempt ended,
                    \* and how those of the questions before it did
          faults

vars == <<change, policy, att, queue, row, asked, faults>>

Changes == {"large", "empty", "unreadable", "ignored", "ignored and cut", "code", "code and cut"}

\* What the .aipr.yml asks for; None: there is none, or it is broken, or its level is one nobody knows.
Policies == Severities \cup {None}

\* Of a level nobody knows, and of a file that is broken: the default.
ParseConfigYaml(level) == IF level = None THEN DefaultLeast ELSE level

NoAttempt == [pc |-> "idle", least |-> 1, scan |-> None, findings |-> {}, why |-> None]

Init == /\ change \in Changes /\ policy \in Policies
        /\ att = NoAttempt
        /\ queue = [state |-> "waiting", made |-> 0]
        /\ row = [status |-> "RUNNING", findings |-> {}, least |-> None, scan |-> None]
        /\ asked = None /\ faults = 0

-------------------------------------------------------------------------------
(* The attempt up to its question *)

At(pc) == att.pc = pc
Goto(pc) == att' = [att EXCEPT !.pc = pc]
Throw(why) == att' = [att EXCEPT !.pc = "catch", !.why = why]
Keeps == UNCHANGED <<change, policy, queue, row, asked, faults>>

Terminal == {"COMPLETED", "SKIPPED", "FAILED"}

\* A review that is over is not run again.
Start == /\ queue.state = "waiting" /\ At("idle")
         /\ IF row.status \in Terminal THEN queue' = [queue EXCEPT !.state = "completed"] /\ UNCHANGED att
            ELSE queue' = [queue EXCEPT !.state = "active"] /\ Goto("key")
         /\ UNCHANGED <<change, policy, row, asked, faults>>

\* .aipr.yml at the base: one that cannot be read is as none.
FetchRepoConfig == {ParseConfigYaml(policy), ParseConfigYaml(None)}

\* The key of the vault, then the policy.
FetchConfig == /\ At("key")
               /\ \/ Throw("permanent")
                  \/ \E least \in FetchRepoConfig : att' = [att EXCEPT !.pc = "diff", !.least = least]
               /\ Keeps

\* recordJobFindings, and the end of the attempt.
Complete(findings) ==
    /\ row' = [row EXCEPT !.status = "COMPLETED", !.findings = findings, !.least = att.least]
    /\ queue' = [queue EXCEPT !.state = "completed"] /\ att' = NoAttempt
    /\ UNCHANGED <<change, policy, asked, faults>>

FetchDiff == /\ At("diff")
             /\ CASE change = "large" -> Throw("user") /\ Keeps
                  [] change \in {"empty", "ignored"} -> Complete({})
                  [] change \in {"unreadable", "ignored and cut"} -> Throw("permanent") /\ Keeps
                  [] OTHER -> Goto("scan") /\ Keeps

\* Rules, scanners and context: partial when the diff was cut or one of them failed.
Scan == /\ At("scan")
        /\ \E scan \in IF change = "code and cut" THEN {"partial"} ELSE {"full", "partial"} :
             att' = [att EXCEPT !.pc = "ask", !.scan = scan]
        /\ Keeps

\* Too long with its context and rules, the prompt is not sent.
PromptTooLarge == At("ask") /\ Throw("user") /\ Keeps

Ask == /\ At("ask") /\ Goto("asking")
       /\ asked' = [answer |-> None, end |-> None,
                       before |-> IF asked = None THEN {} ELSE asked.before \cup {asked.end}]
       /\ UNCHANGED <<change, policy, queue, row, faults>>

-------------------------------------------------------------------------------
(* The answer *)

Item == [usable : BOOLEAN, severity : Severities]

Lists == UNION {[1..n -> Item] : n \in 0..(MaxFindings + 1)}

\* stop: the reason it gives, if any; shape: what it is, a list also in one known field.
Answers == {a \in [stop : {"none", "completed", "length", "other"}, refused : BOOLEAN,
                   shape : {"no JSON", "no list", "two lists", "list"}, items : Lists] :
              a.shape \notin {"list", "two lists"} => a.items = <<>>}

\* How an attempt that asked may end, and what is known of one that did.
Ends      == {"transient", "permanent", "user", "final", "crash"}
Questions == [answer : Answers \cup {None}, end : Ends \cup {None}, before : SUBSET (Ends \cup {None})]

\* None is no answer, no end and no question.
AskConstants == None \notin Answers \cup Ends \cup Questions

\* Failures of the call: the account, the request, a limit, an outage, or none was confirmed.
Failures == {"key", "access", "billing", "request", "rate", "outage", "unconfirmed"}

\* What it makes of the attempt: it is retried, needs the user, or is over.
Reason(failure) == CASE failure \in {"rate", "outage"} -> "transient"
                     [] failure \in {"key", "access", "billing"} -> "user"
                     [] OTHER -> "final"

\* The entries that can be rendered, or acted on.
Usable(items) == {i \in DOMAIN items : items[i].usable}

\* Mutant of Accepted: entries that cannot be used are left out.
AcceptedInPart(a) == /\ a.stop \in {"none", "completed"} /\ ~a.refused
                     /\ a.shape = "list" /\ Len(a.items) <= MaxFindings

\* A finished answer with one list of findings, each of which can be used.
Accepted(a) == /\ a.stop \in {"none", "completed"} /\ ~a.refused
               /\ a.shape = "list" /\ Len(a.items) <= MaxFindings
               /\ Usable(a.items) = DOMAIN a.items

Met(items) == {items[i] : i \in {k \in Usable(items) : items[k].severity <= att.least}}

Heard(answer) == /\ asked' = [asked EXCEPT !.answer = answer]
                 /\ UNCHANGED <<change, policy, queue, row, faults>>

Answered == /\ At("asking")
            /\ \E a \in Answers :
                 /\ Heard(a)
                 /\ IF Accepted(a) THEN att' = [att EXCEPT !.pc = "gaps", !.findings = Met(a.items)]
                    ELSE Throw("final")

CallFailed == /\ At("asking")
              /\ \E failure \in Failures : Heard(None) /\ Throw(Reason(failure))

\* Missing tests are asked for too; that this fails does not matter.
AnalyzeTestGaps == At("gaps") /\ Goto("save") /\ Keeps

\* The rows of the scans are written once: those of an earlier attempt stay.
SaveChecks == /\ At("save") /\ Goto("finish")
              /\ row' = [row EXCEPT !.scan = IF @ = None THEN att.scan ELSE @]
              /\ UNCHANGED <<change, policy, queue, asked, faults>>

Finish == At("finish") /\ Complete(att.findings)

\* GitHub or the database fails for the moment.
CallFails == att.pc \in {"key", "diff", "scan", "gaps", "save", "finish"} /\ Throw("transient") /\ Keeps

-------------------------------------------------------------------------------
(* How an attempt ends *)

\* Of the attempt that asked last: later ones that never asked change nothing of it.
Ended(why) == asked' = IF asked = None \/ asked.end # None THEN asked ELSE [asked EXCEPT !.end = why]

\* The queue is told: no more attempts, or one less.
Leave(state) == /\ queue' = [state |-> state, made |-> queue.made + 1]
                /\ att' = NoAttempt
                /\ Ended(att.why)

Retry == Leave(IF queue.made + 1 < MaxAttempts THEN "waiting" ELSE "failed")

Writes(status) == row' = [row EXCEPT !.status = IF @ \in Terminal THEN @ ELSE status]

Over == IF att.why = "user" THEN "SKIPPED" ELSE "FAILED"

WriteFails == /\ faults < MaxFaults /\ faults' = faults + 1
              /\ UNCHANGED row

\* Mutant of CatchFinal: a failed write makes the failure retryable.
CatchFinalWritten ==
    /\ At("catch") /\ att.why \in {"user", "final"}
    /\ \/ Writes(Over) /\ UNCHANGED faults /\ Leave("failed")
       \/ WriteFails /\ Retry
    /\ UNCHANGED <<change, policy>>

\* "Settlement/recovery can retry the database write, never the paid request."
CatchFinal == /\ At("catch") /\ att.why \in {"user", "final"}
              /\ (Writes(Over) /\ UNCHANGED faults) \/ WriteFails
              /\ Leave("failed")
              /\ UNCHANGED <<change, policy>>

CatchPermanent == /\ At("catch") /\ att.why = "permanent"
                  /\ \/ Writes("SKIPPED") /\ UNCHANGED faults /\ Leave("failed")
                     \/ WriteFails /\ Retry
                  /\ UNCHANGED <<change, policy>>

CatchTransient == /\ At("catch") /\ att.why = "transient"
                  /\ \/ /\ Writes(IF queue.made + 1 < MaxAttempts THEN "RETRYING" ELSE "FAILED")
                        /\ UNCHANGED faults
                     \/ WriteFails
                  /\ Retry
                  /\ UNCHANGED <<change, policy>>

\* The process dies; the queue gives the job to another one.
Crash == /\ queue.state = "active" /\ faults < MaxFaults /\ faults' = faults + 1
         /\ queue' = [queue EXCEPT !.state = "waiting"] /\ att' = NoAttempt
         /\ Ended("crash")
         /\ UNCHANGED <<change, policy, row>>

\* settleFailedQueueJob, and the recovery of what it missed.
Settle == /\ queue.state = "failed" /\ row.status \notin Terminal
          /\ Writes("FAILED")
          /\ UNCHANGED <<change, policy, att, queue, asked, faults>>

Next == \/ Start \/ FetchConfig \/ FetchDiff \/ Scan \/ PromptTooLarge \/ Ask \/ Answered \/ CallFailed
        \/ AnalyzeTestGaps \/ SaveChecks \/ Finish \/ CallFails
        \/ CatchFinal \/ CatchPermanent \/ CatchTransient \/ Crash \/ Settle

Spec == Init /\ [][Next]_vars

-------------------------------------------------------------------------------
(* Properties *)

\* What the model is paid for counts.  A failure that may have been charged ends the
\* asking, its status written or not: only a limit, an outage, a failure elsewhere or the
\* death of the process lets the model be asked again.  And a review that ran is clean
\* only if a finished answer said so ("Model metadata and insertion order are never
\* evidence of a clean review"): each problem it reported at the wanted severity is among
\* the findings, none was unreadable, and a change that holds code never completes unasked.
PaidAnswersCount ==
    /\ asked # None => asked.before \subseteq {"transient", "crash"}
    /\ row.status = "COMPLETED" /\ change \notin {"empty", "ignored"} =>
          /\ asked # None /\ asked.answer # None
          /\ LET a == asked.answer IN
             /\ a.stop # "length" /\ a.shape = "list"
             /\ \A i \in DOMAIN a.items : /\ a.items[i].usable
                                          /\ a.items[i].severity <= row.least => a.items[i] \in row.findings
===============================================================================
