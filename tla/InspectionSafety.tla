----------------------------- MODULE InspectionSafety -----------------------------
(***************************************************************************)
(* How a review is made, for any severities, attempts, files, lines and       *)
(* findings.                                                                *)
(*                                                                         *)
(* Paid answers count: the model is asked again only after an attempt that    *)
(* failed in passing or crashed, and a completed review holds the answer of    *)
(* the attempt that completed it.                                            *)
(*                                                                         *)
(* Outages are said: the row of a scanner is written with what it missed, and *)
(* names it.                                                                *)
(*                                                                         *)
(* Merges hide nothing: whatever was handed in has one that stands for it in   *)
(* the merged list, and stays so when the next is merged.                     *)
(*                                                                         *)
(* Lookups are whole: what was told of a package that is complete so far is    *)
(* found, and while more is to tell it is to be asked for or read.            *)
(*                                                                         *)
(* Selections are sound: the queue of the walk is in the order of distance,   *)
(* and nothing found is further than one step from its head; and while nothing *)
(* is said to be lost, everything was listed, indexed, reached and read.      *)
(*                                                                         *)
(* Readings are sound: every line of a diff fits to the one before it, what is *)
(* cut and picked of it still does, so that a line counted to from its hunk     *)
(* is the one printed there; and a check that passed had every line.          *)
(***************************************************************************)
EXTENDS Inspection, SequenceTheorems, FiniteSetTheorems, WellFoundedInduction, TLAPS

-------------------------------------------------------------------------------
(* Asking the model *)

Again  == {"transient", "crash"}   \* the ends of an attempt after which the model is asked once more
Before == {"key", "diff", "scan", "ask"}
After  == {"gaps", "save", "finish"}

AskShape == /\ att \in [pc : {"idle", "asking", "catch"} \cup Before \cup After, least : {att.least}, scan : {att.scan},
                        findings : {att.findings}, why : {att.why}]
            /\ queue \in [state : {"waiting", "active", "failed", "completed"}, made : {queue.made}]
            /\ row \in [status : {row.status}, findings : {row.findings}, least : {row.least}, scan : {row.scan}]
            /\ asked = None \/ asked \in W!Questions

\* The attempt runs with the job; a review is completed with its job.
RunsWith == /\ queue.state = "active" <=> att.pc # "idle"
            /\ row.status = "COMPLETED" => queue.state = "completed"

\* How the attempt ended that asked last, as far as the model may be asked once more.
EndOk == asked = None \/ asked.end \in Again
EndKnown ==
    /\ queue.state = "waiting" \/ att.pc \in Before => EndOk
    /\ att.pc \in {"asking"} \cup After => asked # None /\ asked.end = None
    /\ att.pc = "catch" => /\ att.why \in {"permanent", "transient", "user", "final"}
                           /\ att.why = "permanent" => EndOk
                           /\ EndOk \/ asked.end = None
BeforeOk == asked # None => asked.before \subseteq Again

\* What an accepted answer makes of the findings of its attempt.
Holds(a, least, fs) == /\ a.stop # "length" /\ a.shape = "list"
                       /\ \A i \in DOMAIN a.items : /\ a.items[i].usable
                                                    /\ a.items[i].severity <= least => a.items[i] \in fs
AnswerHeld == att.pc \in After => asked.answer # None /\ Holds(asked.answer, att.least, att.findings)
Completed  == row.status = "COMPLETED" /\ change \notin {"empty", "ignored"} =>
                 asked # None /\ asked.answer # None /\ Holds(asked.answer, row.least, row.findings)

AskInv == AskShape /\ RunsWith /\ EndKnown /\ BeforeOk /\ AnswerHeld /\ Completed

-------------------------------------------------------------------------------

\* Each step of an attempt keeps the invariant.
LEMMA AskBegins == ASSUME W!Init PROVE AskInv
<1>1. AskShape
  BY DEF W!Init, AskShape, W!NoAttempt
<1>2. att.pc = "idle" /\ queue.state = "waiting" /\ row.status = "RUNNING" /\ asked = None
  BY DEF W!Init, W!NoAttempt
<1>3. QED  BY <1>1, <1>2 DEF AskInv, RunsWith, EndKnown, EndOk, BeforeOk, AnswerHeld, Completed, Before, After

LEMMA AskStays == ASSUME AskInv, UNCHANGED <<change, att, queue, row, asked>> PROVE AskInv'
BY DEF AskInv, AskShape, RunsWith, EndKnown, EndOk, BeforeOk, AnswerHeld, Completed, Holds

\* The attempt moves on before it asks, or stops.
LEMMA Moves ==
  ASSUME AskInv, NEW z, att' = z, queue.state = "active", UNCHANGED <<change, queue, row, asked>>,
         z \in [pc : {"catch"} \cup Before, least : {z.least}, scan : {z.scan}, findings : {z.findings}, why : {z.why}],
         att.pc \in Before,
         z.pc = "catch" => z.why \in {"permanent", "transient", "user"}
  PROVE  AskInv'
<1>1. AskShape'
  BY DEF AskInv, AskShape
<1>2. EndOk /\ EndOk'
  BY DEF AskInv, EndKnown, EndOk
<1>3. RunsWith' /\ BeforeOk' /\ Completed'
  BY DEF AskInv, RunsWith, BeforeOk, Completed, Holds, Before
<1>4. EndKnown' /\ AnswerHeld'
  BY <1>2 DEF AskInv, EndKnown, RunsWith, AnswerHeld, Before, After
<1>5. QED  BY <1>1, <1>3, <1>4 DEF AskInv

LEMMA Started == ASSUME AskInv, W!Start PROVE AskInv'
<1>1. CASE row.status \in W!Terminal
  <2>1. /\ queue' = [queue EXCEPT !.state = "completed"] /\ UNCHANGED <<change, att, row, asked>>
        /\ att.pc = "idle"
    BY <1>1 DEF W!Start, W!At
  <2>2. AskShape' /\ queue'.state = "completed"
    BY <2>1 DEF AskInv, AskShape
  <2>3. QED  BY <2>1, <2>2 DEF AskInv, RunsWith, EndKnown, EndOk, BeforeOk, AnswerHeld, Completed, Holds, Before, After
<1>2. CASE row.status \notin W!Terminal
  <2>1. /\ queue' = [queue EXCEPT !.state = "active"] /\ att' = [att EXCEPT !.pc = "key"] /\ queue.state = "waiting"
        /\ UNCHANGED <<change, row, asked>>
    BY <1>2 DEF W!Start, W!Goto
  <2>2. AskShape' /\ queue'.state = "active" /\ att'.pc = "key"
    BY <2>1 DEF AskInv, AskShape, Before
  <2>3. row.status # "COMPLETED"
    BY <1>2 DEF W!Terminal
  <2>4. EndOk'
    BY <2>1 DEF AskInv, EndKnown, EndOk
  <2>5. QED  BY <2>1, <2>2, <2>3, <2>4 DEF AskInv, RunsWith, EndKnown, BeforeOk, AnswerHeld, Completed, Before, After
<1>3. QED  BY <1>1, <1>2

LEMMA Configured == ASSUME AskInv, W!FetchConfig PROVE AskInv'
<1>1. att.pc = "key" /\ queue.state = "active" /\ UNCHANGED <<change, queue, row, asked>>
  BY DEF W!FetchConfig, W!At, W!Keeps, AskInv, RunsWith
<1>2. CASE W!Throw("permanent")
  <2> DEFINE z == [att EXCEPT !.pc = "catch", !.why = "permanent"]
  <2>1. z \in [pc : {"catch"} \cup Before, least : {z.least}, scan : {z.scan}, findings : {z.findings}, why : {z.why}]
        /\ z.pc = "catch" /\ z.why = "permanent" /\ att' = z
    BY <1>2 DEF AskInv, AskShape, W!Throw
  <2> HIDE DEF z
  <2>2. QED  BY <1>1, <2>1, Moves DEF Before
<1>3. ASSUME NEW least, att' = [att EXCEPT !.pc = "diff", !.least = least] PROVE AskInv'
  <2> DEFINE z == [att EXCEPT !.pc = "diff", !.least = least]
  <2>1. z \in [pc : {"catch"} \cup Before, least : {z.least}, scan : {z.scan}, findings : {z.findings}, why : {z.why}]
        /\ z.pc = "diff" /\ att' = z
    BY <1>3 DEF AskInv, AskShape, Before
  <2> HIDE DEF z
  <2>2. QED  BY <1>1, <2>1, Moves DEF Before
<1>4. QED  BY <1>2, <1>3 DEF W!FetchConfig

\* A review is completed with findings its answer holds, or with a change that needs none.
LEMMA CompletedIs ==
  ASSUME AskInv, NEW fs, W!Complete(fs), att.pc # "idle",
         change \notin {"empty", "ignored"} =>
            asked # None /\ asked.answer # None /\ Holds(asked.answer, att.least, fs)
  PROVE  AskInv'
<1>1. /\ row' = [row EXCEPT !.status = "COMPLETED", !.findings = fs, !.least = att.least]
      /\ queue' = [queue EXCEPT !.state = "completed"] /\ att' = W!NoAttempt /\ UNCHANGED <<change, asked>>
  BY DEF W!Complete
<1>2. AskShape' /\ queue'.state = "completed" /\ att'.pc = "idle"
      /\ row'.findings = fs /\ row'.least = att.least
  BY <1>1 DEF AskInv, AskShape, W!NoAttempt
<1>3. Completed'
  BY <1>1, <1>2 DEF Completed, Holds
<1>4. QED  BY <1>1, <1>2, <1>3 DEF AskInv, RunsWith, EndKnown, EndOk, BeforeOk, AnswerHeld, Before, After

\* What is thrown before the model was asked is no answer.
LEMMA Thrown ==
  ASSUME AskInv, att.pc \in Before, NEW why \in {"permanent", "transient", "user"}, W!Throw(why),
         UNCHANGED <<change, queue, row, asked>>
  PROVE  AskInv'
<1> DEFINE z == [att EXCEPT !.pc = "catch", !.why = why]
<1>1. z \in [pc : {"catch"} \cup Before, least : {z.least}, scan : {z.scan}, findings : {z.findings}, why : {z.why}]
      /\ z.pc = "catch" /\ z.why = why /\ att' = z
  BY DEF AskInv, AskShape, W!Throw
<1>2. queue.state = "active"
  BY DEF AskInv, RunsWith, Before
<1> HIDE DEF z
<1>3. QED  BY <1>1, <1>2, Moves

LEMMA DiffFetched == ASSUME AskInv, W!FetchDiff PROVE AskInv'
<1>1. att.pc = "diff" /\ queue.state = "active" /\ att.pc \in Before
  BY DEF W!FetchDiff, W!At, AskInv, RunsWith, Before
<1>2. CASE change = "large"
  BY <1>1, <1>2, Thrown DEF W!FetchDiff, W!Keeps
<1>3. CASE change \in {"empty", "ignored"}
  BY <1>1, <1>3, CompletedIs DEF W!FetchDiff
<1>4. CASE change \in {"unreadable", "ignored and cut"}
  BY <1>1, <1>4, Thrown DEF W!FetchDiff, W!Keeps
<1>5. CASE W!Goto("scan") /\ W!Keeps
  <2> DEFINE z == [att EXCEPT !.pc = "scan"]
  <2>1. z \in [pc : {"catch"} \cup Before, least : {z.least}, scan : {z.scan}, findings : {z.findings}, why : {z.why}]
        /\ z.pc = "scan" /\ att' = z
    BY <1>5 DEF AskInv, AskShape, W!Goto, Before
  <2> HIDE DEF z
  <2>2. QED  BY <1>1, <1>5, <2>1, Moves DEF W!Keeps
<1>6. QED  BY <1>2, <1>3, <1>4, <1>5 DEF W!FetchDiff

LEMMA Scanned == ASSUME AskInv, W!Scan PROVE AskInv'
<1>1. att.pc \in Before /\ queue.state = "active"
  BY DEF W!Scan, W!At, AskInv, RunsWith, Before
<1>2. ASSUME NEW scan, att' = [att EXCEPT !.pc = "ask", !.scan = scan] PROVE AskInv'
  <2> DEFINE z == [att EXCEPT !.pc = "ask", !.scan = scan]
  <2>1. z \in [pc : {"catch"} \cup Before, least : {z.least}, scan : {z.scan}, findings : {z.findings}, why : {z.why}]
        /\ z.pc = "ask" /\ att' = z
    BY <1>2 DEF AskInv, AskShape, Before
  <2> HIDE DEF z
  <2>2. QED  BY <1>1, <2>1, Moves DEF W!Scan, W!Keeps
<1>3. QED  BY <1>2 DEF W!Scan

-------------------------------------------------------------------------------
(* The question and its answer *)

\* It is asked when it never was, or when those before ended in passing.
LEMMA AskedIs == ASSUME W!AskConstants, AskInv, W!Ask PROVE AskInv'
<1> DEFINE q == [answer |-> None, end |-> None, before |-> IF asked = None THEN {} ELSE asked.before \cup {asked.end}]
<1>1. att.pc = "ask" /\ asked' = q /\ UNCHANGED <<change, queue, row>> /\ att' = [att EXCEPT !.pc = "asking"]
  BY DEF W!Ask, W!At, W!Goto
<1>2. EndOk
  BY <1>1 DEF AskInv, EndKnown, Before
<1>3. asked # None => asked.before \in SUBSET (W!Ends \cup {None}) /\ asked.end \in W!Ends
  BY <1>2 DEF AskInv, AskShape, W!Questions, EndOk, Again, W!Ends
<1>4. q \in W!Questions /\ q.before \subseteq Again /\ q.end = None
  BY <1>2, <1>3 DEF W!Questions, AskInv, BeforeOk, EndOk
<1> HIDE DEF q
<1>5. q # None
  BY <1>4 DEF W!AskConstants
<1>6. AskShape' /\ att'.pc = "asking"
  BY <1>1, <1>4 DEF AskInv, AskShape
<1>7. queue.state = "active" /\ row.status # "COMPLETED"
  BY <1>1 DEF AskInv, RunsWith
<1>8. QED  BY <1>1, <1>4, <1>5, <1>6, <1>7 DEF AskInv, RunsWith, EndKnown, BeforeOk, AnswerHeld, Completed, Before, After

\* The question that was asked, with its answer.
LEMMA HeardIs ==
  ASSUME AskInv, att.pc = "asking", NEW a \in W!Answers \cup {None}, asked' = [asked EXCEPT !.answer = a]
  PROVE  asked' \in W!Questions /\ asked'.answer = a /\ asked'.end = None /\ asked'.before \subseteq Again
<1>1. asked \in W!Questions /\ asked.end = None /\ asked.before \subseteq Again
  BY DEF AskInv, AskShape, EndKnown, BeforeOk
<1>2. QED  BY <1>1 DEF W!Questions

\* An answer is held by the attempt that asked, and is kept until it ends.
LEMMA AnswerIs == ASSUME W!AskConstants, AskInv, W!Answered PROVE AskInv'
<1>1. att.pc = "asking" /\ queue.state = "active" /\ row.status # "COMPLETED"
  BY DEF W!Answered, W!At, AskInv, RunsWith
<1>2. PICK a \in W!Answers : /\ W!Heard(a)
                           /\ IF W!Accepted(a) THEN att' = [att EXCEPT !.pc = "gaps", !.findings = W!Met(a.items)]
                              ELSE W!Throw("final")
  BY DEF W!Answered
<1>3. /\ asked' \in W!Questions /\ asked'.answer = a /\ asked'.end = None /\ asked'.before \subseteq Again
      /\ UNCHANGED <<change, queue, row>>
  BY <1>1, <1>2, HeardIs DEF W!Heard
<1>4. asked' # None /\ a # None
  BY <1>3 DEF W!AskConstants
<1>5. CASE W!Accepted(a)
  <2>1. /\ att' \in [pc : {"gaps"}, least : {att.least}, scan : {att.scan}, findings : {W!Met(a.items)}, why : {att.why}]
    BY <1>2, <1>5 DEF AskInv, AskShape
  <2>2. AskShape' /\ att'.pc = "gaps"
    BY <1>3, <2>1 DEF AskInv, AskShape, After
  <2>3. Holds(a, att.least, W!Met(a.items))
    BY <1>5 DEF Holds, W!Accepted, W!Usable, W!Met
  <2>4. AnswerHeld'
    <3>1. att'.least = att.least /\ att'.findings = W!Met(a.items)
      BY <2>1
    <3>2. QED  BY <1>3, <1>4, <2>3, <3>1 DEF AnswerHeld
  <2>5. QED  BY <1>1, <1>3, <1>4, <2>2, <2>4 DEF AskInv, RunsWith, EndKnown, BeforeOk, Completed, Before, After
<1>6. CASE W!Throw("final")
  <2>1. AskShape' /\ att'.pc = "catch" /\ att'.why = "final"
    BY <1>3, <1>6 DEF AskInv, AskShape, W!Throw
  <2>2. QED  BY <1>1, <1>3, <1>4, <2>1 DEF AskInv, RunsWith, EndKnown, BeforeOk, AnswerHeld, Completed, Before, After
<1>7. QED  BY <1>2, <1>5, <1>6

LEMMA CallFailedIs == ASSUME W!AskConstants, AskInv, W!CallFailed PROVE AskInv'
<1>1. att.pc = "asking" /\ queue.state = "active" /\ row.status # "COMPLETED"
  BY DEF W!CallFailed, W!At, AskInv, RunsWith
<1>2. PICK failure \in W!Failures : W!Heard(None) /\ W!Throw(W!Reason(failure))
  BY DEF W!CallFailed
<1>3. /\ asked' \in W!Questions /\ asked'.end = None /\ asked'.before \subseteq Again
      /\ UNCHANGED <<change, queue, row>>
  BY <1>1, <1>2, HeardIs DEF W!Heard
<1>4. asked' # None
  BY <1>3 DEF W!AskConstants
<1>5. W!Reason(failure) \in {"transient", "user", "final"}
  BY DEF W!Reason
<1>6. AskShape' /\ att'.pc = "catch" /\ att'.why = W!Reason(failure)
  BY <1>2, <1>3 DEF AskInv, AskShape, W!Throw
<1>7. QED  BY <1>1, <1>3, <1>4, <1>5, <1>6 DEF AskInv, RunsWith, EndKnown, BeforeOk, AnswerHeld, Completed, Before, After

\* What is left after the answer.
LEMMA AnswerGoesOn ==
  ASSUME AskInv, att.pc \in After, NEW pc \in After, att' = [att EXCEPT !.pc = pc],
         NEW scan, row' = [row EXCEPT !.scan = scan], UNCHANGED <<change, queue, asked>>
  PROVE  AskInv'
<1>1. AskShape' /\ att'.pc = pc /\ att'.least = att.least /\ att'.findings = att.findings /\ row'.status = row.status
  BY DEF AskInv, AskShape
<1>2. queue.state = "active" /\ row.status # "COMPLETED"
  BY DEF AskInv, RunsWith, After
<1>3. QED  BY <1>1, <1>2 DEF AskInv, RunsWith, EndKnown, BeforeOk, AnswerHeld, Holds, Completed, Before, After

LEMMA GapsAnalyzed == ASSUME AskInv, W!AnalyzeTestGaps PROVE AskInv'
<1>1. row = [row EXCEPT !.scan = row.scan]
  BY DEF AskInv, AskShape
<1>2. att.pc \in After /\ att' = [att EXCEPT !.pc = "save"] /\ UNCHANGED <<change, queue, row, asked>>
  BY DEF W!AnalyzeTestGaps, W!At, W!Goto, W!Keeps, After
<1>3. QED  BY <1>1, <1>2, AnswerGoesOn DEF After

LEMMA ChecksSaved == ASSUME AskInv, W!SaveChecks PROVE AskInv'
<1>1. row' = [row EXCEPT !.scan = IF row.scan = None THEN att.scan ELSE row.scan]
  BY DEF W!SaveChecks
<1>2. att.pc \in After /\ att' = [att EXCEPT !.pc = "finish"] /\ UNCHANGED <<change, queue, asked>>
  BY DEF W!SaveChecks, W!At, W!Goto, After
<1>3. QED  BY <1>1, <1>2, AnswerGoesOn DEF After

LEMMA Finished == ASSUME AskInv, W!Finish PROVE AskInv'
<1>1. att.pc = "finish"
  BY DEF W!Finish, W!At
<1>2. asked # None /\ asked.answer # None /\ Holds(asked.answer, att.least, att.findings)
  BY <1>1 DEF AskInv, EndKnown, AnswerHeld, After
<1>3. QED  BY <1>1, <1>2, CompletedIs DEF W!Finish

LEMMA CallLost == ASSUME AskInv, W!CallFails PROVE AskInv'
<1>1. UNCHANGED <<change, queue, row, asked>> /\ W!Throw("transient")
  BY DEF W!CallFails, W!Keeps
<1>2. CASE att.pc \in Before
  BY <1>1, <1>2, Thrown
<1>3. CASE att.pc \in After
  <2>1. AskShape' /\ att'.pc = "catch" /\ att'.why = "transient"
    BY <1>1 DEF AskInv, AskShape, W!Throw
  <2>2. queue.state = "active" /\ row.status # "COMPLETED"
    BY <1>3 DEF AskInv, RunsWith, After
  <2>3. QED  BY <1>1, <1>3, <2>1, <2>2 DEF AskInv, RunsWith, EndKnown, BeforeOk, AnswerHeld, Completed, Before, After
<1>4. QED  BY <1>2, <1>3 DEF W!CallFails, Before, After

-------------------------------------------------------------------------------
(* How an attempt ends *)

\* The attempt that asked last has ended: how it did is kept.
LEMMA EndedIs ==
  ASSUME W!AskConstants, AskInv, NEW why \in W!Ends, W!Ended(why)
  PROVE  /\ asked' = None \/ asked' \in W!Questions
         /\ BeforeOk'
         /\ EndOk => EndOk'
         /\ (EndOk \/ asked.end = None) /\ why \in Again => EndOk'
<1>1. CASE asked = None \/ asked.end # None
  <2>1. asked' = asked
    BY <1>1 DEF W!Ended
  <2>2. QED  BY <1>1, <2>1 DEF AskInv, AskShape, BeforeOk, EndOk
<1>2. CASE asked # None /\ asked.end = None
  <2>1. asked' = [asked EXCEPT !.end = why] /\ asked \in W!Questions
    BY <1>2 DEF W!Ended, AskInv, AskShape
  <2>2. asked' \in W!Questions /\ asked'.end = why /\ asked'.before = asked.before
    BY <2>1 DEF W!Questions
  <2>3. ~EndOk
    BY <1>2 DEF EndOk, Again, W!AskConstants, W!Ends
  <2>4. QED  BY <1>2, <2>2, <2>3 DEF AskInv, BeforeOk, EndOk
<1>3. QED  BY <1>1, <1>2

\* The job and its attempt end, with what the review became.
LEMMA LeftIs ==
  ASSUME W!AskConstants, AskInv, att.pc # "idle", NEW state \in {"waiting", "failed"}, NEW why \in W!Ends, W!Ended(why),
         NEW made, queue' = [state |-> state, made |-> made], att' = W!NoAttempt,
         NEW became, became # "COMPLETED", row' = [row EXCEPT !.status = became], UNCHANGED change,
         state = "waiting" => EndOk \/ (why \in Again /\ asked.end = None)
  PROVE  AskInv'
<1>1. AskShape' /\ queue'.state = state /\ att'.pc = "idle" /\ row'.status = became
  BY EndedIs DEF AskInv, AskShape, W!NoAttempt
<1>2. state = "waiting" => EndOk'
  BY EndedIs
<1>3. BeforeOk'
  BY EndedIs
<1>4. QED  BY <1>1, <1>2, <1>3 DEF AskInv, RunsWith, EndKnown, AnswerHeld, Completed, Before, After

\* A write leaves a review that is over as it is.
LEMMA WrittenIs ==
  ASSUME AskInv, att.pc # "idle", NEW became \in {"SKIPPED", "FAILED", "RETRYING"}, W!Writes(became) \/ W!WriteFails
  PROVE  \E s : s # "COMPLETED" /\ row' = [row EXCEPT !.status = s]
<1>1. row = [row EXCEPT !.status = row.status]
  BY DEF AskInv, AskShape
<1>2. row.status # "COMPLETED"
  BY DEF AskInv, RunsWith
<1>3. CASE W!Writes(became)
  <2>1. row' = [row EXCEPT !.status = IF row.status \in W!Terminal THEN row.status ELSE became]
    BY <1>3 DEF W!Writes
  <2>2. QED  BY <1>2, <2>1
<1>4. CASE W!WriteFails
  BY <1>1, <1>2, <1>4 DEF W!WriteFails
<1>5. QED  BY <1>3, <1>4

\* What an attempt ends with, the queue and the history are told together.
LEMMA Caught == ASSUME W!AskConstants, AskInv, W!CatchFinal \/ W!CatchPermanent \/ W!CatchTransient PROVE AskInv'
<1>1. att.pc = "catch" /\ change' = change
  BY DEF W!CatchFinal, W!CatchPermanent, W!CatchTransient, W!At
<1>2. PICK became \in {"SKIPPED", "FAILED", "RETRYING"} : W!Writes(became) \/ W!WriteFails
  <2>1. CASE W!CatchFinal
    BY <2>1 DEF W!CatchFinal, W!Over
  <2>2. CASE W!CatchPermanent
    BY <2>2 DEF W!CatchPermanent
  <2>3. CASE W!CatchTransient
    BY <2>3 DEF W!CatchTransient
  <2>4. QED  BY <2>1, <2>2, <2>3
<1>3. PICK s : s # "COMPLETED" /\ row' = [row EXCEPT !.status = s]
  BY <1>1, <1>2, WrittenIs
<1>4. att.why \in W!Ends
  BY <1>1 DEF AskInv, EndKnown, W!Ends
<1>5. PICK state \in {"waiting", "failed"} : W!Leave(state) /\ (state = "waiting" => att.why \in {"permanent", "transient"})
  BY DEF W!CatchFinal, W!CatchPermanent, W!CatchTransient, W!Retry
<1>6. W!Ended(att.why) /\ queue' = [state |-> state, made |-> queue.made + 1] /\ att' = W!NoAttempt
  BY <1>5 DEF W!Leave
<1>7. state = "waiting" => EndOk \/ (att.why \in Again /\ asked.end = None)
  BY <1>1, <1>5 DEF AskInv, EndKnown, Again
<1>8. QED  BY <1>1, <1>3, <1>4, <1>6, <1>7, LeftIs

LEMMA Crashes == ASSUME W!AskConstants, AskInv, W!Crash PROVE AskInv'
<1>1. /\ queue.state = "active" /\ queue' = [queue EXCEPT !.state = "waiting"] /\ att' = W!NoAttempt
      /\ W!Ended("crash") /\ UNCHANGED <<change, row>>
  BY DEF W!Crash
<1>2. att.pc # "idle" /\ row.status # "COMPLETED" /\ row = [row EXCEPT !.status = row.status]
      /\ queue' = [state |-> "waiting", made |-> queue.made]
  BY <1>1 DEF AskInv, RunsWith, AskShape
<1>3. EndOk \/ asked.end = None
  BY <1>2 DEF AskInv, AskShape, EndKnown
<1>4. QED  BY <1>1, <1>2, <1>3, LeftIs DEF W!Ends, Again

LEMMA SettledIs == ASSUME AskInv, W!Settle PROVE AskInv'
<1>1. queue.state = "failed" /\ row' = [row EXCEPT !.status = "FAILED"] /\ UNCHANGED <<change, att, queue, asked>>
  BY DEF W!Settle, W!Writes
<1>2. AskShape' /\ row'.status = "FAILED"
  BY <1>1 DEF AskInv, AskShape
<1>3. QED  BY <1>1, <1>2 DEF AskInv, RunsWith, EndKnown, EndOk, BeforeOk, AnswerHeld, Completed

LEMMA TooLarge == ASSUME AskInv, W!PromptTooLarge PROVE AskInv'
BY Thrown DEF W!PromptTooLarge, W!At, Before, W!Keeps

\* The invariant of asking holds in every state.
LEMMA AskHolds == W!AskConstants => (W!Spec => []AskInv)
<1> SUFFICES ASSUME W!AskConstants PROVE W!Spec => []AskInv
  OBVIOUS
<1>1. AskInv /\ [W!Next]_W!vars => AskInv'
  <2> SUFFICES ASSUME AskInv, [W!Next]_W!vars PROVE AskInv'
    OBVIOUS
  <2>1. CASE UNCHANGED W!vars
    BY <2>1, AskStays DEF W!vars
  <2>2. CASE W!Next
    BY <2>2, Started, Configured, DiffFetched, Scanned, TooLarge, AskedIs, AnswerIs, CallFailedIs,
       GapsAnalyzed, ChecksSaved, Finished, CallLost, Caught, Crashes, SettledIs DEF W!Next
  <2>3. QED  BY <2>1, <2>2
<1>2. QED  BY <1>1, AskBegins, PTL DEF W!Spec

\* The model is asked again only after an attempt that failed in passing or crashed, and a review
\* of code is completed only with the whole of a finished answer (assertAiCompletion, normalizeAiError,
\* the catch of the analysis worker).
THEOREM PaidCounts == W!AskConstants => (W!Spec => [](W!PaidAnswersCount /\ PaidAnswersCount))
<1>1. AskInv => W!PaidAnswersCount
  BY DEF AskInv, BeforeOk, Again, Completed, Holds, W!PaidAnswersCount
<1>2. W!PaidAnswersCount => PaidAnswersCount
  BY DEF PaidAnswersCount
<1>3. QED  BY <1>1, <1>2, AskHolds, PTL

-------------------------------------------------------------------------------
(* The scanners *)

Gone == {"worker", "semgrep", "osv", "cut"}   \* what full coverage may not miss

Check == [status : {"PASS", "FAIL", "DEGRADED", "SKIPPED"}, detail : BOOLEAN]
Full(c) == c.status \in {"PASS", "FAIL"} /\ ~c.detail

\* A row says what its scan missed, and fails when it found something.
RowOk(says, count, missed) == /\ says \in Check /\ count \in Nat
                              /\ Full(says) => missed \cap Gone = {}
                              /\ says.status = "FAIL" <=> count > 0

RowsOk == /\ DOMAIN checks \subseteq S!Probes
          /\ \A p \in DOMAIN checks : RowOk(checks[p], findings[p], lost[p])

\* A package the program knows of that the database did not clear fails the scan.
KnownFails == S!Known(world.packages) \ world.cleared # {}
                 => "dependencies" \in DOMAIN checks /\ checks["dependencies"].status = "FAIL"

ScanShape == /\ checks = [p \in DOMAIN checks |-> checks[p]]
             /\ findings = [p \in S!Probes |-> findings[p]] /\ lost = [p \in S!Probes |-> lost[p]]
             /\ world \in [cut : {world.cut}, large : {world.large}, packages : {world.packages}, cleared : {world.cleared}]
             /\ phase \in {"read", "sast", "secrets", "dependencies", "report", "done"}

ScanInv == ScanShape /\ RowsOk /\ KnownFails

-------------------------------------------------------------------------------

LEMMA ScanBegins == ASSUME S!Init PROVE ScanInv
<1>1. PICK cut \in BOOLEAN, large \in SUBSET ScanFiles : world = [cut |-> cut, large |-> large, packages |-> <<>>, cleared |-> {}]
  BY DEF S!Init
<1>2. world.packages = <<>> /\ DOMAIN checks = {}
  BY <1>1 DEF S!Init
<1>3. ScanShape
  BY <1>1 DEF S!Init, ScanShape
<1>4. S!Known(world.packages) = {}
  BY <1>2 DEF S!Known
<1>5. QED  BY <1>2, <1>3, <1>4 DEF ScanInv, RowsOk, KnownFails

\* Choosing what runs next changes no row.
LEMMA ScanStays == ASSUME ScanInv, UNCHANGED <<world, checks, findings, lost>>,
                          phase' \in {"read", "sast", "secrets", "dependencies", "report", "done"}
                   PROVE  ScanInv'
BY DEF ScanInv, ScanShape, RowsOk, KnownFails, RowOk

\* One more row.
LEMMA RowIs ==
  ASSUME ScanInv, NEW probe \in S!Probes, NEW result, S!Row(probe, result), RowOk(result.check, result.count, result.missed)
  PROVE  /\ RowsOk' /\ checks'[probe] = result.check /\ probe \in DOMAIN checks'
         /\ \A p \in DOMAIN checks \ {probe} : p \in DOMAIN checks' /\ checks'[p] = checks[p]
         /\ checks' = [p \in DOMAIN checks' |-> checks'[p]]
         /\ findings' = [p \in S!Probes |-> findings'[p]] /\ lost' = [p \in S!Probes |-> lost'[p]]
<1>1. /\ checks' = [p \in DOMAIN checks \cup {probe} |-> IF p = probe THEN result.check ELSE checks[p]]
      /\ findings' = [findings EXCEPT ![probe] = result.count] /\ lost' = [lost EXCEPT ![probe] = result.missed]
  BY DEF S!Row
<1>2. DOMAIN checks \subseteq S!Probes /\ DOMAIN findings = S!Probes /\ DOMAIN lost = S!Probes
  BY DEF ScanInv, ScanShape, RowsOk
<1>3. /\ findings' = [p \in S!Probes |-> findings'[p]] /\ lost' = [p \in S!Probes |-> lost'[p]]
      /\ findings'[probe] = result.count /\ lost'[probe] = result.missed
      /\ \A p \in S!Probes \ {probe} : findings'[p] = findings[p] /\ lost'[p] = lost[p]
  BY <1>1, <1>2
<1>4. /\ DOMAIN checks' = DOMAIN checks \cup {probe} /\ checks'[probe] = result.check
      /\ \A p \in DOMAIN checks \ {probe} : checks'[p] = checks[p]
      /\ checks' = [p \in DOMAIN checks' |-> checks'[p]]
  BY <1>1
<1>5. ASSUME NEW p \in DOMAIN checks' PROVE RowOk(checks'[p], findings'[p], lost'[p])
  <2>1. CASE p = probe
    BY <1>3, <1>4, <2>1
  <2>2. CASE p # probe
    BY <1>2, <1>3, <1>4, <2>2 DEF ScanInv, RowsOk
  <2>3. QED  BY <2>1, <2>2
<1>6. QED  BY <1>2, <1>3, <1>4, <1>5 DEF RowsOk

\* A scanner of its own.
LEMMA IsolatedIs ==
  ASSUME NEW b \in S!Isolated
  PROVE  RowOk(b.check, b.count, b.missed) /\ (~b.check.detail => b.missed = {})
         /\ b = S!Result(b.check, b.count, b.missed)
<1>1. CASE b = S!Result(S!CheckWithStatus("DEGRADED", 0, TRUE), 0, {"worker"})
  BY <1>1 DEF S!Result, S!CheckWithStatus, RowOk, Check, Full
<1>2. ASSUME NEW n \in 0..1, b = S!Result(S!CheckForProbe(n), n, {}) PROVE RowOk(b.check, b.count, b.missed)
         /\ (~b.check.detail => b.missed = {}) /\ b = S!Result(b.check, b.count, b.missed)
  BY <1>2 DEF S!Result, S!CheckForProbe, RowOk, Check, Full
<1>3. QED  BY <1>1, <1>2 DEF S!Isolated

\* ... and with the extra pass.
LEMMA WithSemgrepIs ==
  ASSUME NEW b \in S!Isolated, NEW extra \in S!RunSemgrep, NEW both, both = S!WithSemgrep(b, extra)
  PROVE  RowOk(both.check, both.count, both.missed) /\ both = S!Result(both.check, both.count, both.missed)
<1>1. RowOk(b.check, b.count, b.missed) /\ (~b.check.detail => b.missed = {})
  BY IsolatedIs
<1>2. CASE extra.degraded
  BY <1>1, <1>2 DEF S!WithSemgrep, S!Result, S!CheckWithStatus, RowOk, Check, Full
<1>3. CASE ~extra.degraded
  <2>1. extra.count \in 0..1 /\ extra.missed \cap Gone = {}
    BY <1>3 DEF S!RunSemgrep, Gone
  <2> DEFINE count  == b.count + extra.count
             missed == b.missed \cup extra.missed
  <2>2. count \in Nat /\ (~b.check.detail => missed \cap Gone = {})
    BY <1>1, <2>1 DEF RowOk
  <2>3. both = S!Result(IF b.check.detail THEN S!CheckWithStatus("DEGRADED", count, TRUE) ELSE S!CheckForProbe(count), count, missed)
    BY <1>3 DEF S!WithSemgrep
  <2> HIDE DEF count, missed
  <2>4. QED  BY <2>2, <2>3 DEF S!Result, S!CheckWithStatus, S!CheckForProbe, RowOk, Check, Full
<1>4. QED  BY <1>2, <1>3

\* What is said to be missing beside it does not count.
LEMMA UnreadIs ==
  ASSUME NEW r, NEW c, NEW n, NEW m, r = S!Result(c, n, m), RowOk(c, n, m), NEW more \in {{}, {"unread"}},
         NEW z, z = [r EXCEPT !.missed = @ \cup more]
  PROVE  RowOk(z.check, z.count, z.missed)
<1>1. z.check = c /\ z.count = n /\ z.missed = m \cup more
  BY DEF S!Result
<1>2. QED  BY <1>1 DEF RowOk, Gone

\* Other rows leave what the dependencies said.
LEMMA OtherRow ==
  ASSUME ScanInv, NEW probe \in S!Probes \ {"dependencies"}, NEW result, S!Row(probe, result),
         RowOk(result.check, result.count, result.missed), world' = world,
         phase' \in {"read", "sast", "secrets", "dependencies", "report", "done"}
  PROVE  ScanInv'
<1>1. RowsOk' /\ ScanShape'
  BY RowIs DEF ScanInv, ScanShape
<1>2. KnownFails'
  BY RowIs DEF ScanInv, KnownFails
<1>3. QED  BY <1>1, <1>2 DEF ScanInv

\* Each scanner writes its row with what it missed.
LEMMA SastRun == ASSUME ScanInv, S!RunSast PROVE ScanInv'
<1>1. world' = world /\ phase' = "secrets"
  BY DEF S!RunSast
<1>2. CASE ~config["sast"]
  BY <1>1, <1>2, ScanStays DEF S!RunSast
<1>3. CASE config["sast"]
  <2> DEFINE unread == IF config["semgrep"] /\ contents # ScanFiles THEN {"unread"} ELSE {}
  <2>1. PICK b \in S!Isolated :
            \/ contents = {} /\ S!Row("sast", [b EXCEPT !.missed = @ \cup unread])
            \/ \E extra \in S!RunSemgrep : LET both == S!WithSemgrep(b, extra) IN S!Row("sast", [both EXCEPT !.missed = @ \cup unread])
    BY <1>3 DEF S!RunSast
  <2>2. unread \in {{}, {"unread"}} /\ "sast" \in S!Probes \ {"dependencies"}
    BY DEF S!Probes
  <2> HIDE DEF unread
  <2>3. RowOk(b.check, b.count, b.missed) /\ b = S!Result(b.check, b.count, b.missed)
    BY <2>1, IsolatedIs
  <2>4. CASE S!Row("sast", [b EXCEPT !.missed = @ \cup unread])
    <3> DEFINE z == [b EXCEPT !.missed = @ \cup unread]
    <3>1. RowOk(z.check, z.count, z.missed) /\ S!Row("sast", z)
      BY <2>2, <2>3, <2>4, UnreadIs
    <3> HIDE DEF z
    <3>2. QED  BY <1>1, <2>2, <3>1, OtherRow
  <2>5. ASSUME NEW extra \in S!RunSemgrep, S!Row("sast", [S!WithSemgrep(b, extra) EXCEPT !.missed = @ \cup unread]) PROVE ScanInv'
    <3> DEFINE both == S!WithSemgrep(b, extra)
               z    == [both EXCEPT !.missed = @ \cup unread]
    <3>1. S!Row("sast", z)
      BY <2>5
    <3>2. RowOk(both.check, both.count, both.missed) /\ both = S!Result(both.check, both.count, both.missed)
      BY <2>1, <2>5, WithSemgrepIs
    <3> HIDE DEF both
    <3>3. RowOk(z.check, z.count, z.missed)
      BY <2>2, <3>2, UnreadIs
    <3> HIDE DEF z
    <3>4. QED  BY <1>1, <2>2, <3>1, <3>3, OtherRow
  <2>6. QED  BY <2>1, <2>4, <2>5
<1>4. QED  BY <1>2, <1>3

LEMMA SecretsRun == ASSUME ScanInv, S!RunSecrets PROVE ScanInv'
<1>1. world' = world /\ phase' = "dependencies"
  BY DEF S!RunSecrets
<1>2. CASE ~config["secrets"]
  BY <1>1, <1>2, ScanStays DEF S!RunSecrets
<1>3. CASE config["secrets"]
  <2>1. PICK b \in S!Isolated : S!Row("secrets", b)
    BY <1>3 DEF S!RunSecrets
  <2>2. "secrets" \in S!Probes \ {"dependencies"}
    BY DEF S!Probes
  <2>3. QED  BY <1>1, <2>1, <2>2, IsolatedIs, OtherRow
<1>4. QED  BY <1>2, <1>3

-------------------------------------------------------------------------------
(* Dependencies *)

\* A package of the bundled registry counts unless an answer cleared it.
LEMMA DependenciesRun == ASSUME ScanInv, S!ScanDependencies PROVE ScanInv'
<1>1. phase' = "report" /\ "dependencies" \in S!Probes
  BY DEF S!ScanDependencies, S!Probes
<1>2. CASE ~config["dependencies"]
  BY <1>1, <1>2, ScanStays DEF S!ScanDependencies
<1>3. CASE config["dependencies"]
  <2>1. PICK packages \in UNION {[1..n -> S!Dependency] : n \in 0..2} :
          \E complete \in SUBSET S!Asked(packages) : \E told \in SUBSET {i \in S!Asked(packages) : packages[i].listed} :
              /\ LET count  == Cardinality(S!Vulnerable(packages, complete, told))
                     unsaid == {i \in DOMAIN packages : config["osv"] /\ i \notin S!Asked(packages)} IN
                 S!Row("dependencies", S!Result(S!DependencyCheck(packages, complete, count), count,
                        (IF complete # S!Asked(packages) THEN {"osv"} ELSE {}) \cup (IF unsaid # {} THEN {"unasked"} ELSE {})))
              /\ world' = [world EXCEPT !.packages = packages, !.cleared = complete]
    BY <1>3 DEF S!ScanDependencies, S!Cardinality, Cardinality
  <2>2. PICK complete \in SUBSET S!Asked(packages), told \in SUBSET {i \in S!Asked(packages) : packages[i].listed} :
              /\ LET count  == Cardinality(S!Vulnerable(packages, complete, told))
                     unsaid == {i \in DOMAIN packages : config["osv"] /\ i \notin S!Asked(packages)} IN
                 S!Row("dependencies", S!Result(S!DependencyCheck(packages, complete, count), count,
                        (IF complete # S!Asked(packages) THEN {"osv"} ELSE {}) \cup (IF unsaid # {} THEN {"unasked"} ELSE {})))
              /\ world' = [world EXCEPT !.packages = packages, !.cleared = complete]
    BY <2>1
  <2> DEFINE vulnerable  == S!Vulnerable(packages, complete, told)
             count  == Cardinality(vulnerable)
             unsaid == {i \in DOMAIN packages : config["osv"] /\ i \notin S!Asked(packages)}
             missed == (IF complete # S!Asked(packages) THEN {"osv"} ELSE {}) \cup (IF unsaid # {} THEN {"unasked"} ELSE {})
             result == S!Result(S!DependencyCheck(packages, complete, count), count, missed)
  <2>3. S!Row("dependencies", result)
    BY <2>2
  <2>4. PICK n \in 0..2 : packages \in [1..n -> S!Dependency]
    BY <2>1
  <2>5. vulnerable \subseteq DOMAIN packages
    BY DEF S!Vulnerable, S!Known, S!Asked, S!Candidates
  <2>6. IsFiniteSet(vulnerable)
    BY <2>4, <2>5, FS_Interval, FS_Subset
  <2>7. count \in Nat /\ (count > 0 <=> vulnerable # {})
    BY <2>6, FS_CardinalityType, FS_EmptySet
  <2>8. packages = <<>> => count = 0
    BY <2>5, <2>7
  <2>9. S!Known(packages) \ complete \subseteq vulnerable
    BY DEF S!Vulnerable
  <2>10. complete = S!Asked(packages) => missed \cap Gone = {}
    BY DEF Gone
  <2> DEFINE says == S!DependencyCheck(packages, complete, count)
  <2> HIDE DEF count, vulnerable, missed
  <2>11. /\ says \in Check /\ (says.status = "FAIL" <=> count > 0)
         /\ Full(says) => complete = S!Asked(packages)
    <3> DEFINE degraded == complete # S!Asked(packages)
    <3>1. degraded \in BOOLEAN
      OBVIOUS
    <3>2. says = IF packages = <<>> THEN S!CheckWithStatus("SKIPPED", 0, TRUE)
                  ELSE IF count > 0 THEN S!CheckWithStatus(IF degraded THEN "DEGRADED" ELSE "SKIPPED", count, degraded)
                  ELSE IF degraded THEN S!CheckWithStatus("DEGRADED", 0, TRUE)
                  ELSE S!CheckForProbe(0)
      BY DEF S!DependencyCheck
    <3>3. complete = S!Asked(packages) <=> ~degraded
      OBVIOUS
    <3> HIDE DEF degraded, says
    <3>4. CASE packages = <<>>
      BY <2>8, <3>2, <3>4 DEF S!CheckWithStatus, Check, Full
    <3>5. CASE packages # <<>> /\ count > 0
      <4>1. says = S!CheckWithStatus(IF degraded THEN "DEGRADED" ELSE "SKIPPED", count, degraded)
        BY <3>2, <3>5, Zenon
      <4>2. says.status = "FAIL" /\ says.detail = degraded /\ says = [status |-> "FAIL", detail |-> degraded]
        BY <3>5, <4>1 DEF S!CheckWithStatus
      <4>3. says \in Check
        BY <3>1, <4>2 DEF Check
      <4>4. Full(says) => ~degraded
        BY <4>2, Zenon DEF Full
      <4>5. QED  BY <3>3, <3>5, <4>2, <4>3, <4>4
    <3>6. CASE packages # <<>> /\ ~(count > 0) /\ degraded
      BY <3>2, <3>6 DEF S!CheckWithStatus, Check, Full
    <3>7. CASE packages # <<>> /\ ~(count > 0) /\ ~degraded
      BY <3>2, <3>3, <3>7 DEF S!CheckForProbe, Check, Full
    <3>8. QED  BY <3>1, <3>4, <3>5, <3>6, <3>7
  <2> HIDE DEF says
  <2>12. result.check = says /\ result.count = count /\ result.missed = missed
    BY DEF S!Result, says
  <2> HIDE DEF result
  <2>13. RowOk(result.check, result.count, result.missed)
    BY <2>7, <2>10, <2>11, <2>12 DEF RowOk
  <2>14. RowsOk' /\ checks'["dependencies"] = says /\ "dependencies" \in DOMAIN checks'
    BY <1>1, <2>3, <2>12, <2>13, RowIs
  <2>15. /\ world' \in [cut : {world'.cut}, large : {world'.large}, packages : {world'.packages}, cleared : {world'.cleared}]
         /\ world'.packages = packages /\ world'.cleared = complete
    BY <2>2 DEF ScanInv, ScanShape
  <2>16. KnownFails'
    BY <2>7, <2>9, <2>11, <2>14, <2>15 DEF KnownFails
  <2>17. ScanShape'
    BY <1>1, <2>3, <2>13, <2>15, RowIs DEF ScanShape
  <2>18. QED  BY <2>14, <2>16, <2>17 DEF ScanInv
<1>4. QED  BY <1>2, <1>3

-------------------------------------------------------------------------------

LEMMA ReportIs == ASSUME ScanInv, S!Report PROVE ScanInv'
<1>1. /\ world' = world /\ findings' = findings /\ phase' = "done"
      /\ checks' = [p \in DOMAIN checks |->
                          IF world.cut THEN [status |-> IF checks[p].status = "FAIL" THEN "FAIL" ELSE "DEGRADED", detail |-> TRUE]
                          ELSE checks[p]]
      /\ lost' = [p \in S!Probes |-> IF world.cut /\ p \in DOMAIN checks THEN lost[p] \cup {"cut"} ELSE lost[p]]
  BY DEF S!Report
<1>2. ScanShape'
  BY <1>1 DEF ScanInv, ScanShape
<1>3. DOMAIN checks' = DOMAIN checks /\ DOMAIN checks \subseteq S!Probes
  BY <1>1 DEF ScanInv, RowsOk
<1>4. ASSUME NEW p \in DOMAIN checks' PROVE RowOk(checks'[p], findings'[p], lost'[p])
  <2>1. RowOk(checks[p], findings[p], lost[p])
    BY <1>3 DEF ScanInv, RowsOk
  <2>2. CASE world.cut
    BY <1>1, <1>3, <2>1, <2>2 DEF RowOk, Check, Full
  <2>3. CASE ~world.cut
    BY <1>1, <1>3, <2>1, <2>3
  <2>4. QED  BY <2>2, <2>3
<1>5. \A p \in DOMAIN checks : checks[p].status = "FAIL" => checks'[p].status = "FAIL"
  BY <1>1
<1>6. KnownFails'
  BY <1>1, <1>3, <1>5 DEF ScanInv, KnownFails
<1>7. QED  BY <1>2, <1>3, <1>4, <1>6 DEF ScanInv, RowsOk

\* The invariant of the scanners holds in every state.
LEMMA ScanHolds == S!Spec => []ScanInv
<1>1. ScanInv /\ [S!Next]_S!vars => ScanInv'
  <2> SUFFICES ASSUME ScanInv, [S!Next]_S!vars PROVE ScanInv'
    OBVIOUS
  <2>1. CASE UNCHANGED S!vars
    BY <2>1 DEF S!vars, ScanInv, ScanShape, RowsOk, RowOk, KnownFails
  <2>2. CASE S!Read
    BY <2>2, ScanStays DEF S!Read
  <2>3. QED  BY <2>1, <2>2, SastRun, SecretsRun, DependenciesRun, ReportIs DEF S!Next
<1>2. QED  BY <1>1, ScanBegins, PTL DEF S!Spec

\* What each scanner can miss.
MayLose == [sast         |-> {"worker", "semgrep", "unread", "size", "errors", "cut"},
            secrets      |-> {"worker", "cut"},
            dependencies |-> {"osv", "unasked", "cut"}]

LostInv == lost = [p \in S!Probes |-> lost[p]] /\ \A p \in S!Probes : lost[p] \subseteq MayLose[p]

\* A row tells of its own scanner.
LEMMA LostRow ==
  ASSUME LostInv, NEW probe \in S!Probes, NEW result, S!Row(probe, result), result.missed \subseteq MayLose[probe]
  PROVE  LostInv'
BY DEF S!Row, LostInv

\* Each scanner loses what it can.
LEMMA LostStep == ASSUME LostInv, [S!Next]_S!vars PROVE LostInv'
<1>1. ASSUME UNCHANGED lost PROVE LostInv'
  BY <1>1 DEF LostInv
<1>2. ASSUME NEW b \in S!Isolated PROVE b.missed \subseteq {"worker"} /\ b = S!Result(b.check, b.count, b.missed)
  BY <1>2, IsolatedIs DEF S!Isolated, S!Result
<1>3. CASE S!RunSast
  <2>1. "sast" \in S!Probes /\ MayLose["sast"] = {"worker", "semgrep", "unread", "size", "errors", "cut"}
    BY DEF S!Probes, MayLose
  <2>2. CASE ~config["sast"]
    BY <1>1, <1>3, <2>2 DEF S!RunSast
  <2>3. CASE config["sast"]
    <3> DEFINE unread == IF config["semgrep"] /\ contents # ScanFiles THEN {"unread"} ELSE {}
    <3>1. PICK b \in S!Isolated :
              \/ contents = {} /\ S!Row("sast", [b EXCEPT !.missed = @ \cup unread])
              \/ \E extra \in S!RunSemgrep : LET both == S!WithSemgrep(b, extra) IN S!Row("sast", [both EXCEPT !.missed = @ \cup unread])
      BY <1>3, <2>3 DEF S!RunSast
    <3>2. unread \subseteq {"unread"}
      OBVIOUS
    <3> HIDE DEF unread
    <3>3. b.missed \subseteq {"worker"} /\ b = S!Result(b.check, b.count, b.missed)
      BY <1>2
    <3>4. CASE S!Row("sast", [b EXCEPT !.missed = @ \cup unread])
      <4> DEFINE z == [b EXCEPT !.missed = @ \cup unread]
      <4>1. z.missed = b.missed \cup unread
        BY <3>3 DEF S!Result
      <4>2. S!Row("sast", z)
        BY <3>4
      <4> HIDE DEF z
      <4>3. QED  BY <2>1, <3>2, <3>3, <4>1, <4>2, LostRow
    <3>5. ASSUME NEW extra \in S!RunSemgrep, S!Row("sast", [S!WithSemgrep(b, extra) EXCEPT !.missed = @ \cup unread]) PROVE LostInv'
      <4> DEFINE both == S!WithSemgrep(b, extra)
                 z    == [both EXCEPT !.missed = @ \cup unread]
      <4>1. extra.missed \subseteq {"semgrep", "size", "errors"}
        BY <3>5 DEF S!RunSemgrep
      <4>2. both.missed = b.missed \cup extra.missed /\ both = S!Result(both.check, both.count, both.missed)
        BY DEF S!WithSemgrep, S!Result
      <4>3. S!Row("sast", z)
        BY <3>5
      <4> HIDE DEF both
      <4>4. z.missed = both.missed \cup unread
        BY <4>2 DEF S!Result
      <4> HIDE DEF z
      <4>5. QED  BY <2>1, <3>2, <3>3, <4>1, <4>2, <4>3, <4>4, LostRow
    <3>6. QED  BY <3>1, <3>4, <3>5
  <2>4. QED  BY <2>2, <2>3
<1>4. CASE S!RunSecrets
  <2>1. "secrets" \in S!Probes /\ MayLose["secrets"] = {"worker", "cut"}
    BY DEF S!Probes, MayLose
  <2>2. QED  BY <1>1, <1>2, <1>4, <2>1, LostRow DEF S!RunSecrets
<1>5. CASE S!ScanDependencies
  <2>1. "dependencies" \in S!Probes /\ MayLose["dependencies"] = {"osv", "unasked", "cut"}
    BY DEF S!Probes, MayLose
  <2>2. CASE ~config["dependencies"]
    BY <1>1, <1>5, <2>2 DEF S!ScanDependencies
  <2>3. CASE config["dependencies"]
    <3>1. PICK packages \in UNION {[1..n -> S!Dependency] : n \in 0..2} :
          \E complete \in SUBSET S!Asked(packages) : \E told \in SUBSET {i \in S!Asked(packages) : packages[i].listed} :
                LET count  == Cardinality(S!Vulnerable(packages, complete, told))
                    unsaid == {i \in DOMAIN packages : config["osv"] /\ i \notin S!Asked(packages)} IN
                S!Row("dependencies", S!Result(S!DependencyCheck(packages, complete, count), count,
                        (IF complete # S!Asked(packages) THEN {"osv"} ELSE {}) \cup (IF unsaid # {} THEN {"unasked"} ELSE {})))
      BY <1>5, <2>3 DEF S!ScanDependencies, S!Cardinality, Cardinality
    <3>2. PICK z : S!Row("dependencies", z) /\ z.missed \subseteq {"osv", "unasked"}
      BY <3>1 DEF S!Result
    <3>3. QED  BY <2>1, <3>2, LostRow
  <2>4. QED  BY <2>2, <2>3
<1>6. CASE S!Report
  <2>1. /\ lost' = [p \in S!Probes |-> IF world.cut /\ p \in DOMAIN checks THEN lost[p] \cup {"cut"} ELSE lost[p]]
        /\ \A p \in S!Probes : "cut" \in MayLose[p]
    BY <1>6 DEF S!Report, S!Probes, MayLose
  <2>2. QED  BY <2>1 DEF LostInv
<1>7. QED  BY <1>1, <1>3, <1>4, <1>5, <1>6 DEF S!Next, S!Read, S!vars

\* Nothing else is ever lost.
LEMMA LostHolds == S!Spec => []LostInv
<1>1. S!Init => LostInv
  BY DEF S!Init, LostInv
<1>2. QED  BY <1>1, LostStep, PTL DEF S!Spec

\* A scan that broke off, or could not run on what it was given, does not read as full coverage;
\* that may have missed what it was not given (Excused).  A row fails exactly when its scan found
\* something, as that of a package the bundled registry knows and no answer cleared
\* (runSecurityProbes).
THEOREM OutagesAreSaid == S!Spec => [](S!OutageIsSaid /\ OutageIsSaid)
<1>1. ScanInv /\ LostInv => S!OutageIsSaid
  <2> SUFFICES ASSUME ScanInv, LostInv PROVE S!OutageIsSaid
    OBVIOUS
  <2>1. \A p \in S!Probes : S!Coverage(p) = "FULL" => lost[p] \cap Gone = {}
    BY DEF ScanInv, RowsOk, RowOk, S!Coverage, Full
  <2>2. ASSUME NEW p \in S!Probes, S!Coverage(p) = "FULL" PROVE lost[p] \subseteq S!Excused[p]
    <3>1. lost[p] \cap Gone = {}
      BY <2>1, <2>2, Zenon
    <3>2. lost[p] \subseteq MayLose[p]
      BY DEF LostInv
    <3>3. MayLose[p] \subseteq S!Excused[p] \cup Gone
      BY DEF S!Probes, MayLose, S!Excused, Gone
    <3>4. QED  BY <3>1, <3>2, <3>3
  <2>3. \A p \in DOMAIN checks : checks[p].status = "FAIL" <=> findings[p] > 0
    BY DEF ScanInv, RowsOk, RowOk
  <2>4. QED  BY <2>2, <2>3 DEF ScanInv, KnownFails, S!OutageIsSaid
<1>2. S!OutageIsSaid => OutageIsSaid
  BY DEF OutageIsSaid
<1>3. QED  BY <1>1, <1>2, ScanHolds, LostHolds, PTL

-------------------------------------------------------------------------------
(* Merging and weighing *)

Reported == [line : Int, category : Categories, issue : Issues, severity : Nat \ {0}, source : R!Sources, anchor : BOOLEAN]
Merged   == [line : Int, category : Categories, issue : Issues, severity : Nat \ {0}, source : R!Sources, anchor : BOOLEAN,
             sources : SUBSET R!Sources, first : Issues]

\* A merged finding stands for another: of its kind, no later, at least as severe, by its engine too.
StandsFor(k, f) == R!SameKind(k, f) /\ k.line <= f.line /\ k.severity <= f.severity /\ f.source \in k.sources

\* It bears the name of the engine most trusted of those that reported it.
Trusted(k) == k.source \in k.sources /\ \A s \in k.sources : R!SourceRank[s] <= R!SourceRank[k.source]

RiskInv == /\ given \subseteq Reported /\ kept \in Seq(Merged)
           /\ \A f \in given : \E i \in DOMAIN kept : StandsFor(kept[i], f)
           /\ \A i \in DOMAIN kept : Trusted(kept[i])

Ranks == \A s \in R!Sources : R!SourceRank[s] \in 1..5

LEMMA RanksAre == Ranks
BY DEF Ranks, R!Sources, R!Probes, R!SourceRank

LEMMA ReportsAre == ASSUME R!RiskConstants PROVE R!Reports \subseteq Reported
BY DEF R!RiskConstants, R!Reports, Reported, R!Levels

\* A non-empty set of numbers has a least one.
LEMMA LeastOf == ASSUME NEW M, M \subseteq Nat, M # {} PROVE \E k \in M : \A m \in M : k <= m
<1> DEFINE B == OpToRel(<, Nat)
<1>1. IsWellFoundedOn(B, Nat)
  BY NatLessThanWellFounded
<1>2. \A k, m \in Nat : k < m => <<k, m>> \in B
  BY DEF OpToRel
<1> HIDE DEF B
<1>3. PICK k \in M : \A m \in M : ~(<<m, k>> \in B)
  BY <1>1, WFMin
<1>4. ASSUME NEW m \in M PROVE k <= m
  <2>1. k \in Nat /\ m \in Nat
    OBVIOUS
  <2>2. ~(m < k)
    BY <1>2, <1>3, <2>1
  <2>3. QED  BY <2>1, <2>2
<1>5. QED  BY <1>4

\* The least one is one of them.
LEMMA LeastIs == ASSUME NEW M, M \subseteq Nat, M # {} PROVE R!Min(M) \in M
BY LeastOf DEF R!Min

\* A finding that is merged into another one stands for all that this stood for.
LEMMA MergedIs ==
  ASSUME NEW k \in Merged, Trusted(k), NEW f \in Reported, R!SameKind(k, f), NEW z, z = R!Merge(k, f)
  PROVE  /\ z \in Merged /\ Trusted(z) /\ StandsFor(z, f)
         /\ \A g \in Reported : StandsFor(k, g) => StandsFor(z, g)
<1>1. /\ z.line = (IF k.line <= f.line THEN k.line ELSE f.line) /\ z.category = k.category
      /\ z.severity = R!Strongest(k.severity, f.severity) /\ z.first = k.first
      /\ z.source = (IF R!SourceRank[k.source] >= R!SourceRank[f.source] THEN k.source ELSE f.source)
      /\ z.sources = k.sources \cup {f.source}
  BY DEF R!Merge, Merged
<1>2. z \in Merged
  <2>1. z \in [line : {z.line}, category : {z.category}, issue : {z.issue}, severity : {z.severity}, source : {z.source},
               anchor : {z.anchor}, sources : {z.sources}, first : {z.first}]
    BY DEF R!Merge, Merged
  <2>2. z.line \in Int /\ z.category \in Categories /\ z.severity \in Nat \ {0} /\ z.first \in Issues
    BY <1>1 DEF Merged, Reported, R!Strongest
  <2>3. z.source \in R!Sources /\ z.sources \in SUBSET R!Sources
    BY <1>1 DEF Merged, Reported
  <2>4. z.issue \in Issues /\ z.anchor \in BOOLEAN
    BY DEF R!Merge, Merged, Reported
  <2>5. QED  BY <2>1, <2>2, <2>3, <2>4 DEF Merged
<1>3. Trusted(z)
  <2>1. k.source \in R!Sources /\ f.source \in R!Sources /\ k.sources \subseteq R!Sources
    BY DEF Merged, Reported
  <2>2. QED  BY <1>1, <2>1, RanksAre DEF Trusted, Ranks
<1>4. k.line \in Int /\ f.line \in Int /\ k.severity \in Nat /\ f.severity \in Nat
  BY DEF Merged, Reported
<1>5. /\ z.line <= k.line /\ z.line <= f.line /\ z.severity <= k.severity /\ z.severity <= f.severity
      /\ z.line \in Int /\ z.severity \in Nat
  BY <1>1, <1>4 DEF R!Strongest
<1>6. StandsFor(z, f)
  BY <1>1, <1>5 DEF StandsFor, R!SameKind
<1>7. ASSUME NEW g \in Reported, StandsFor(k, g) PROVE StandsFor(z, g)
  <2>1. g.line \in Int /\ g.severity \in Nat
    BY DEF Reported
  <2>2. z.line <= g.line /\ z.severity <= g.severity
    BY <1>4, <1>5, <1>7, <2>1 DEF StandsFor
  <2>3. QED  BY <1>1, <1>7, <2>2 DEF StandsFor, R!SameKind
<1>8. QED  BY <1>2, <1>3, <1>6, <1>7

\* Whichever it is merged with, each finding has one that stands for it.
LEMMA DeduplicateIs ==
  ASSUME RiskInv, NEW f \in Reported, R!Deduplicate(f), given' = given \cup {f} PROVE RiskInv'
<1> DEFINE into == IF R!Exact(f) # {} THEN R!Exact(f) ELSE IF R!Loose(f) # {} THEN R!Loose(f) ELSE R!Nearby(f)
           n    == Len(kept)
<1>1. /\ kept \in Seq(Merged) /\ DOMAIN kept = 1..n /\ n \in Nat
      /\ \A g \in given : g \in Reported /\ \E i \in DOMAIN kept : StandsFor(kept[i], g)
      /\ \A i \in DOMAIN kept : kept[i] \in Merged /\ Trusted(kept[i])
  BY DEF RiskInv
<1> HIDE DEF n
<1>2. CASE into = {}
  <2> DEFINE z == [line |-> f.line, category |-> f.category, issue |-> f.issue, severity |-> f.severity,
                   source |-> f.source, anchor |-> f.anchor, sources |-> {f.source}, first |-> f.issue]
  <2>1. kept' = Append(kept, z)
    BY <1>2 DEF R!Deduplicate
  <2>2. z \in Merged
    BY DEF Merged, Reported
  <2>3. Trusted(z)
    <3>1. f.source \in R!Sources
      BY DEF Reported
    <3>2. QED  BY <3>1, RanksAre DEF Trusted, Ranks
  <2>4. StandsFor(z, f)
    BY DEF StandsFor, R!SameKind, Reported
  <2> HIDE DEF z
  <2>5. /\ kept' \in Seq(Merged) /\ DOMAIN kept' = 1..(n + 1) /\ kept'[n + 1] = z
        /\ \A i \in 1..n : i \in DOMAIN kept' /\ kept'[i] = kept[i]
    BY <1>1, <2>1, <2>2 DEF n
  <2>6. \A g \in given' : g \in Reported /\ \E i \in DOMAIN kept' : StandsFor(kept'[i], g)
    BY <1>1, <2>4, <2>5
  <2>7. ASSUME NEW i \in DOMAIN kept' PROVE Trusted(kept'[i])
    <3>1. i = n + 1 \/ i \in 1..n
      BY <1>1, <2>5
    <3>2. QED  BY <1>1, <2>3, <2>5, <3>1
  <2>8. QED  BY <2>5, <2>6, <2>7 DEF RiskInv
<1>3. CASE into # {}
  <2> DEFINE m == R!Min(into)
             z == R!Merge(kept[m], f)
  <2>1. into \subseteq {i \in DOMAIN kept : R!SameKind(kept[i], f)}
    BY DEF R!Exact, R!Loose, R!Nearby
  <2>2. kept' = [kept EXCEPT ![m] = z]
    BY <1>3 DEF R!Deduplicate
  <2> HIDE DEF into
  <2>3. m \in into
    BY <1>1, <1>3, <2>1, LeastIs
  <2>4. m \in DOMAIN kept /\ R!SameKind(kept[m], f)
    BY <2>1, <2>3
  <2> HIDE DEF m
  <2>5. z \in Merged /\ Trusted(z) /\ StandsFor(z, f) /\ \A g \in Reported : StandsFor(kept[m], g) => StandsFor(z, g)
    BY <1>1, <2>4, MergedIs
  <2> HIDE DEF z
  <2>6. /\ kept' \in Seq(Merged) /\ DOMAIN kept' = DOMAIN kept /\ kept'[m] = z
        /\ \A i \in DOMAIN kept : i # m => kept'[i] = kept[i]
    BY <1>1, <2>2, <2>4, <2>5
  <2>7. ASSUME NEW g \in given' PROVE g \in Reported /\ \E i \in DOMAIN kept' : StandsFor(kept'[i], g)
    <3>1. CASE g = f
      BY <2>4, <2>5, <2>6, <3>1
    <3>2. CASE g \in given
      <4>1. PICK i \in DOMAIN kept : StandsFor(kept[i], g)
        BY <1>1, <3>2
      <4>2. StandsFor(kept'[i], g)
        BY <1>1, <2>5, <2>6, <3>2, <4>1
      <4>3. QED  BY <1>1, <2>6, <3>2, <4>1, <4>2
    <3>3. QED  BY <3>1, <3>2
  <2>8. \A i \in DOMAIN kept' : Trusted(kept'[i])
    BY <1>1, <2>5, <2>6
  <2>9. QED  BY <2>6, <2>7, <2>8 DEF RiskInv
<1>4. QED  BY <1>2, <1>3

\* The invariant of the merge holds in every state.
LEMMA RiskHolds == R!RiskConstants => (R!Spec => []RiskInv)
<1> SUFFICES ASSUME R!RiskConstants PROVE R!Spec => []RiskInv
  OBVIOUS
<1>1. R!Init => RiskInv
  BY DEF R!Init, RiskInv
<1>2. RiskInv /\ [R!Next]_R!vars => RiskInv'
  <2> SUFFICES ASSUME RiskInv, [R!Next]_R!vars PROVE RiskInv'
    OBVIOUS
  <2>1. ASSUME UNCHANGED <<given, kept>> PROVE RiskInv'
    BY <2>1 DEF RiskInv, StandsFor, R!SameKind, Trusted
  <2>2. ASSUME NEW f \in R!Reports, R!Report(f) PROVE RiskInv'
    BY <2>2, ReportsAre, DeduplicateIs DEF R!Report
  <2>3. QED  BY <2>1, <2>2 DEF R!Next, R!Executed, R!vars
<1>3. QED  BY <1>1, <1>2, PTL DEF R!Spec

\* Each finding that was merged lives on in one of its kind, as severe, that names its engine; a
\* critical defect blocks, unless a merge gave it the name of a secret where these do not block,
\* which report one alone takes for one (deduplicate, assessRisk, assessExplainableRisk).
THEOREM MergesHideNothing == R!RiskConstants => (R!Spec => [](R!MergeHidesNothing /\ MergeHidesNothing))
<1> SUFFICES ASSUME R!RiskConstants PROVE R!Spec => [](R!MergeHidesNothing /\ MergeHidesNothing)
  OBVIOUS
<1>1. RiskInv => R!MergeHidesNothing
  <2> SUFFICES ASSUME RiskInv PROVE R!MergeHidesNothing
    OBVIOUS
  <2>1. \A f \in given : \E i \in DOMAIN kept :
          /\ R!SameKind(kept[i], f) /\ kept[i].line <= f.line
          /\ kept[i].severity <= f.severity /\ f.source \in kept[i].sources
    BY DEF RiskInv, StandsFor
  <2>2. ASSUME NEW f \in given
        PROVE  \E i \in DOMAIN kept : /\ kept[i].severity \in Nat \ {0} /\ kept[i].severity <= f.severity /\ f.severity \in Nat
                                      /\ f.source \in kept[i].sources /\ kept[i].source \in R!Sources /\ f.source \in R!Sources
                                      /\ R!SourceRank[f.source] <= R!SourceRank[kept[i].source]
                                      /\ R!SameKind(kept[i], f) /\ kept[i].source \in kept[i].sources
    <3>1. PICK i \in DOMAIN kept : StandsFor(kept[i], f)
      BY DEF RiskInv
    <3>2. kept[i] \in Merged /\ Trusted(kept[i]) /\ f \in Reported
      BY <3>1 DEF RiskInv
    <3>3. kept[i].severity \in Nat \ {0} /\ kept[i].source \in R!Sources /\ f.severity \in Nat /\ f.source \in R!Sources
      BY <3>2 DEF Merged, Reported
    <3>4. QED  BY <3>1, <3>2, <3>3 DEF StandsFor, Trusted
  <2>3. ASSUME NEW f \in given, R!CriticalDefect(f)
        PROVE  R!Verdict2 = "BLOCK" /\ (R!Verdict = "BLOCK" \/ R!TakenForSecret(f))
    <3>1. PICK i \in DOMAIN kept : /\ kept[i].severity \in Nat \ {0} /\ kept[i].severity <= f.severity
                                   /\ f.source \in kept[i].sources /\ kept[i].source \in R!Sources
                                   /\ R!SourceRank[f.source] <= R!SourceRank[kept[i].source]
                                   /\ R!SameKind(kept[i], f) /\ kept[i].source \in kept[i].sources
      BY <2>2
    <3>2. f.severity = 1 /\ f.source \in {"SAST", "DEPENDENCIES"} /\ kept[i].severity = 1
      BY <2>3, <3>1 DEF R!CriticalDefect
    <3>3. kept[i].source \in R!Probes
      BY <3>1, <3>2 DEF R!Sources, R!Probes, R!SourceRank
    <3>4. R!CriticalSecurity2
      BY <3>1, <3>2 DEF R!CriticalSecurity2, R!Probes
    <3>5. CASE kept[i].source # "SECRETS" \/ wanted.secretBlocks
      <4>1. R!CriticalSecurity
        BY <3>2, <3>3, <3>5 DEF R!CriticalSecurity
      <4>2. QED  BY <3>4, <4>1 DEF R!Verdict, R!Verdict2
    <3>6. CASE kept[i].source = "SECRETS" /\ ~wanted.secretBlocks
      <4>1. R!TakenForSecret(f)
        BY <3>1, <3>2, <3>6 DEF R!TakenForSecret
      <4>2. QED  BY <3>4, <4>1 DEF R!Verdict2
    <3>7. QED  BY <3>5, <3>6
  <2>4. ASSUME wanted.secretBlocks, NEW f \in given, f.source = "SECRETS" PROVE R!Verdict = "BLOCK" /\ R!Verdict2 = "BLOCK"
    <3>1. PICK i \in DOMAIN kept : /\ f.source \in kept[i].sources /\ kept[i].source \in R!Sources
                                   /\ R!SourceRank[f.source] <= R!SourceRank[kept[i].source]
      BY <2>2
    <3>2. kept[i].source = "SECRETS"
      BY <2>4, <3>1 DEF R!Sources, R!Probes, R!SourceRank
    <3>3. R!HasSecret /\ R!HasSecret2
      BY <2>4, <3>1, <3>2 DEF R!HasSecret, R!HasSecret2
    <3>4. QED  BY <3>3 DEF R!Verdict, R!Verdict2
  <2>5. ASSUME NEW f \in given, f.severity = 2 PROVE R!Verdict2 # "SAFE"
    <3>1. PICK i \in DOMAIN kept : kept[i].severity \in Nat \ {0} /\ kept[i].severity <= f.severity
      BY <2>2
    <3>2. kept[i].severity <= 2
      BY <2>5, <3>1
    <3>3. QED  BY <3>2 DEF R!Verdict2
  <2>6. (gap # None /\ ci.asserted = "failed") => R!Verdict2 # "SAFE"
    BY DEF R!Verdict2, R!GapFailed
  <2>7. QED  BY <2>1, <2>3, <2>4, <2>5, <2>6 DEF R!MergeHidesNothing
<1>2. R!MergeHidesNothing => MergeHidesNothing
  BY DEF MergeHidesNothing
<1>3. QED  BY <1>1, <1>2, RiskHolds, PTL

-------------------------------------------------------------------------------
(* Looking up advisories *)

Looked == O!ToSet(O!LookedUp)   \* the packages looked up

LookupShape ==
    /\ db \in [wanted : Seq(O!ToSet(db.wanted)), told : [O!ToSet(db.wanted) -> SUBSET Advisories], untold : {db.untold}]
    /\ states \in [Looked -> [ids : SUBSET Advisories, complete : BOOLEAN, pages : Nat]]
    /\ pending \in Seq(Looked) /\ batch \in Seq(Looked)
    /\ ids \in Seq(Advisories) /\ Len(ids) <= MaxIds

\* A package that is complete so far has all that was told of it; and unless it is still to be
\* asked for or read, there is no more to tell.
SoFarWhole ==
    \A p \in Looked : states[p].complete =>
        /\ db.told[p] \subseteq states[p].ids
        /\ p \in db.untold => p \in O!ToSet(pending) \cup O!ToSet(batch)

LookupInv == LookupShape /\ SoFarWhole /\ O!CompleteIsWhole

\* What is in a list is somewhere in it.
LEMMA SetOf == ASSUME NEW Any, NEW s \in Seq(Any), NEW e PROVE e \in O!ToSet(s) <=> \E i \in 1..Len(s) : s[i] = e
<1>1. DOMAIN s = 1..Len(s)
  OBVIOUS
<1>2. QED  BY <1>1 DEF O!ToSet

\* What is in two lists that are joined.
LEMMA SetOfConcat ==
    ASSUME NEW Any, NEW s \in Seq(Any), NEW t \in Seq(Any)
    PROVE  s \o t \in Seq(Any) /\ O!ToSet(s \o t) = O!ToSet(s) \cup O!ToSet(t)
<1>1. s \o t \in Seq(Any) /\ Len(s \o t) = Len(s) + Len(t) /\ Len(s) \in Nat /\ Len(t) \in Nat
  OBVIOUS
<1>2. \A i \in 1..Len(s) : (s \o t)[i] = s[i]
  OBVIOUS
<1>3. \A i \in 1..Len(t) : (s \o t)[Len(s) + i] = t[i]
  OBVIOUS
<1>4. ASSUME NEW e \in O!ToSet(s) PROVE e \in O!ToSet(s \o t)
  <2>1. PICK i \in 1..Len(s) : s[i] = e
    BY SetOf
  <2>2. i \in 1..Len(s \o t) /\ (s \o t)[i] = e
    BY <1>1, <1>2, <2>1
  <2>3. QED  BY <1>1, <2>2, SetOf
<1>5. ASSUME NEW e \in O!ToSet(t) PROVE e \in O!ToSet(s \o t)
  <2>1. PICK i \in 1..Len(t) : t[i] = e
    BY SetOf
  <2>2. Len(s) + i \in 1..Len(s \o t) /\ (s \o t)[Len(s) + i] = e
    BY <1>1, <1>3, <2>1
  <2>3. QED  BY <1>1, <2>2, SetOf
<1>6. ASSUME NEW e \in O!ToSet(s \o t) PROVE e \in O!ToSet(s) \cup O!ToSet(t)
  <2>1. PICK i \in 1..Len(s \o t) : (s \o t)[i] = e
    BY <1>1, SetOf
  <2>2. CASE i \in 1..Len(s)
    BY <1>2, <2>1, <2>2, SetOf
  <2>3. CASE i \notin 1..Len(s)
    <3>1. i - Len(s) \in 1..Len(t) /\ Len(s) + (i - Len(s)) = i
      BY <1>1, <2>1, <2>3
    <3>2. t[i - Len(s)] = e
      BY <1>3, <2>1, <3>1
    <3>3. QED  BY <3>1, <3>2, SetOf
  <2>4. QED  BY <2>2, <2>3
<1>7. QED  BY <1>1, <1>4, <1>5, <1>6

\* A list that is cut loses nothing.
LEMMA SetOfCut ==
    ASSUME NEW Any, NEW s \in Seq(Any), NEW n \in 0..Len(s)
    PROVE  /\ SubSeq(s, 1, n) \in Seq(Any) /\ Len(SubSeq(s, 1, n)) = n /\ SubSeq(s, n + 1, Len(s)) \in Seq(Any)
           /\ O!ToSet(s) = O!ToSet(SubSeq(s, 1, n)) \cup O!ToSet(SubSeq(s, n + 1, Len(s)))
<1> DEFINE a == SubSeq(s, 1, n)
           b == SubSeq(s, n + 1, Len(s))
<1>1. /\ a \in Seq(Any) /\ Len(a) = n /\ \A i \in 1..n : a[i] = s[i]
      /\ b \in Seq(Any) /\ Len(b) = Len(s) - n /\ \A i \in 1..(Len(s) - n) : b[i] = s[n + i]
  OBVIOUS
<1> HIDE DEF a, b
<1>2. s = a \o b
  <2>3. a \in Seq(Any) /\ b \in Seq(Any)
    BY <1>1
  <2>0. a \o b \in Seq(Any) /\ Len(a \o b) = Len(a) + Len(b)
    BY <2>3, ConcatProperties
  <2>1. Len(a \o b) = Len(s)
    BY <1>1, <2>0
  <2>2. ASSUME NEW i \in 1..Len(s) PROVE (a \o b)[i] = s[i]
    <3>1. CASE i \in 1..n
      BY <1>1, <3>1
    <3>2. CASE i \notin 1..n
      <4>1. i - n \in 1..(Len(s) - n) /\ n + (i - n) = i
        BY <3>2
      <4>2. (a \o b)[i] = b[i - n]
        BY <1>1, <3>2
      <4>3. QED  BY <1>1, <4>1, <4>2
    <3>3. QED  BY <3>1, <3>2
  <2>4. QED  BY <2>0, <2>1, <2>2, SeqEqual
<1>3. QED  BY <1>1, <1>2, SetOfConcat DEF a, b

\* What is in a list but for its first.
LEMMA SetOfTail ==
    ASSUME NEW Any, NEW s \in Seq(Any), s # <<>>
    PROVE  Head(s) \in Any /\ Tail(s) \in Seq(Any) /\ O!ToSet(s) = {Head(s)} \cup O!ToSet(Tail(s))
<1>1. Len(s) \in Nat \ {0} /\ Head(s) = s[1] /\ Tail(s) \in Seq(Any) /\ Len(Tail(s)) = Len(s) - 1 /\ s[1] \in Any
  OBVIOUS
<1>2. \A i \in 1..(Len(s) - 1) : Tail(s)[i] = s[i + 1]
  OBVIOUS
<1>3. ASSUME NEW e \in O!ToSet(s) PROVE e \in {Head(s)} \cup O!ToSet(Tail(s))
  <2>1. PICK i \in 1..Len(s) : s[i] = e
    BY SetOf
  <2>2. CASE i = 1
    BY <1>1, <2>1, <2>2
  <2>3. CASE i # 1
    <3>1. i - 1 \in 1..Len(Tail(s)) /\ (i - 1) + 1 = i /\ i - 1 \in 1..(Len(s) - 1)
      BY <1>1, <2>3
    <3>2. Tail(s)[i - 1] = e
      BY <1>2, <2>1, <3>1
    <3>3. QED  BY <1>1, <3>1, <3>2, SetOf
  <2>4. QED  BY <2>2, <2>3
<1>4. ASSUME NEW e \in O!ToSet(Tail(s)) PROVE e \in O!ToSet(s)
  <2>1. PICK i \in 1..Len(Tail(s)) : Tail(s)[i] = e
    BY <1>1, SetOf
  <2>2. i + 1 \in 1..Len(s) /\ s[i + 1] = e
    BY <1>1, <1>2, <2>1
  <2>3. QED  BY <2>2, SetOf
<1>5. Head(s) \in O!ToSet(s)
  BY <1>1, SetOf
<1>6. QED  BY <1>1, <1>3, <1>4, <1>5

\* What is in a list that grows.
LEMMA SetOfAppend ==
    ASSUME NEW Any, NEW s \in Seq(Any), NEW e \in Any
    PROVE  Append(s, e) \in Seq(Any) /\ O!ToSet(Append(s, e)) = O!ToSet(s) \cup {e}
<1>1. Append(s, e) \in Seq(Any) /\ Len(Append(s, e)) = Len(s) + 1 /\ Append(s, e)[Len(s) + 1] = e
  OBVIOUS
<1>2. \A i \in 1..Len(s) : Append(s, e)[i] = s[i]
  OBVIOUS
<1>3. QED  BY <1>1, <1>2 DEF O!ToSet

\* A list is one of what is in it.
LEMMA Typical == ASSUME NEW Any, NEW s \in Seq(Any) PROVE s \in Seq(O!ToSet(s)) /\ O!ToSet(s) \subseteq Any
BY DEF O!ToSet

\* All packages that are looked up are wanted, and all that are wanted when they are few enough.
LEMMA LookedUpIs ==
    ASSUME O!LookupConstants, db.wanted \in Seq(O!ToSet(db.wanted))
    PROVE  /\ O!LookedUp \in Seq(Looked) /\ Looked \subseteq O!ToSet(db.wanted)
           /\ Len(db.wanted) > Len(O!LookedUp) \/ Looked = O!ToSet(db.wanted)
<1> DEFINE n == IF Len(db.wanted) < MaxRefs THEN Len(db.wanted) ELSE MaxRefs
<1>1. n \in 0..Len(db.wanted)
  BY DEF O!LookupConstants
<1>2. O!LookedUp = SubSeq(db.wanted, 1, n)
  BY DEF O!LookedUp
<1> HIDE DEF n
<1>3. O!LookedUp \in Seq(O!ToSet(db.wanted)) /\ Len(O!LookedUp) = n /\ Looked \subseteq O!ToSet(db.wanted)
  BY <1>1, <1>2, SetOfCut DEF Looked
<1>4. O!LookedUp \in Seq(Looked)
  BY <1>3, Typical DEF Looked
<1>5. n = Len(db.wanted) => O!LookedUp = db.wanted
  BY <1>2
<1>6. QED  BY <1>1, <1>3, <1>4, <1>5 DEF Looked

\* Nothing was told at first, and everything is to be asked for.
LEMMA LookupBegins == ASSUME O!LookupConstants, O!Init PROVE LookupInv
<1>1. PICK n \in 1..Len(Packages) :
         db = [wanted |-> SubSeq(Packages, 1, n), told |-> [p \in O!ToSet(SubSeq(Packages, 1, n)) |-> {}],
               untold |-> O!ToSet(SubSeq(Packages, 1, n))]
  BY DEF O!Init
<1>2. SubSeq(Packages, 1, n) \in Seq(O!ToSet(Packages))
  BY SetOfCut DEF O!LookupConstants
<1>3. db.wanted \in Seq(O!ToSet(db.wanted)) /\ db.told = [p \in O!ToSet(db.wanted) |-> {}]
  BY <1>1, <1>2, Typical
<1>4. db \in [wanted : Seq(O!ToSet(db.wanted)), told : [O!ToSet(db.wanted) -> SUBSET Advisories], untold : {db.untold}]
  BY <1>1, <1>3
<1>5. /\ states = [p \in Looked |-> [ids |-> {}, complete |-> TRUE, pages |-> 0]]
      /\ pending = O!LookedUp /\ batch = <<>> /\ ids = <<>> /\ outcome = [done |-> FALSE]
  BY DEF O!Init, Looked
<1>6. O!LookedUp \in Seq(Looked) /\ Looked \subseteq O!ToSet(db.wanted)
  BY <1>3, LookedUpIs
<1>7. LookupShape
  BY <1>4, <1>5, <1>6 DEF LookupShape, O!LookupConstants
<1>8. SoFarWhole
  BY <1>3, <1>5, <1>6 DEF SoFarWhole, Looked
<1>9. O!CompleteIsWhole
  BY <1>5 DEF O!CompleteIsWhole
<1>10. QED  BY <1>7, <1>8, <1>9 DEF LookupInv

\* A batch is asked for: it fails, or its answer is to be read.
LEMMA BatchAsked == ASSUME O!LookupConstants, LookupInv, O!BatchFails \/ O!BatchAnswered PROVE LookupInv'
<1> DEFINE n == IF Len(pending) < MaxBatch THEN Len(pending) ELSE MaxBatch
<1>0. pending \in Seq(Looked) /\ batch = <<>> /\ ~outcome.done
  BY DEF LookupInv, LookupShape, O!BatchFails, O!BatchAnswered, O!Asking
<1>1. n \in 0..Len(pending)
  BY <1>0 DEF O!LookupConstants
<1>2. O!Slice = SubSeq(pending, 1, n)
  BY DEF O!Slice
<1> HIDE DEF n
<1>3. /\ O!Slice \in Seq(Looked) /\ SubSeq(pending, Len(O!Slice) + 1, Len(pending)) \in Seq(Looked)
      /\ O!ToSet(pending) = O!ToSet(O!Slice) \cup O!ToSet(SubSeq(pending, Len(O!Slice) + 1, Len(pending)))
  BY <1>0, <1>1, <1>2, SetOfCut
<1>4. /\ UNCHANGED <<db, ids, outcome>> /\ Looked' = Looked
      /\ pending' = SubSeq(pending, Len(O!Slice) + 1, Len(pending))
  BY DEF O!BatchFails, O!BatchAnswered, Looked, O!LookedUp
<1>5. O!CompleteIsWhole'
  BY <1>0, <1>4 DEF O!CompleteIsWhole
<1>6. CASE O!BatchAnswered
  <2>1. batch' = O!Slice /\ UNCHANGED states
    BY <1>6 DEF O!BatchAnswered
  <2>2. LookupShape'
    BY <1>3, <1>4, <2>1 DEF LookupInv, LookupShape
  <2>3. O!ToSet(batch) = {}
    BY <1>0 DEF O!ToSet
  <2>5. SoFarWhole'
    BY <1>3, <1>4, <2>1, <2>3 DEF LookupInv, SoFarWhole
  <2>6. QED  BY <1>5, <2>2, <2>5 DEF LookupInv
<1>7. CASE O!BatchFails
  <2>1. /\ UNCHANGED batch
        /\ states' = [p \in DOMAIN states |-> IF p \in O!ToSet(O!Slice) THEN [states[p] EXCEPT !.complete = FALSE] ELSE states[p]]
    BY <1>7 DEF O!BatchFails
  <2>2. states' \in [Looked -> [ids : SUBSET Advisories, complete : BOOLEAN, pages : Nat]]
        /\ \A p \in Looked : states'[p].complete => p \notin O!ToSet(O!Slice) /\ states'[p] = states[p]
    BY <2>1 DEF LookupInv, LookupShape
  <2>3. LookupShape'
    BY <1>3, <1>4, <2>1, <2>2 DEF LookupInv, LookupShape
  <2>4. SoFarWhole'
    BY <1>0, <1>3, <1>4, <2>1, <2>2 DEF LookupInv, SoFarWhole
  <2>5. QED  BY <1>5, <2>3, <2>4 DEF LookupInv
<1>8. QED  BY <1>6, <1>7

\* The lists before a page is read.
LEMMA ReadingIs ==
    ASSUME LookupInv, O!Reading
    PROVE  /\ ~outcome.done /\ Head(batch) \in Looked /\ Tail(batch) \in Seq(Looked)
           /\ O!ToSet(batch) = {Head(batch)} \cup O!ToSet(Tail(batch))
BY SetOfTail DEF LookupInv, LookupShape, O!Reading

\* An answer that is no page makes its package incomplete.
LEMMA PageMalformed == ASSUME LookupInv, O!MalformedPage PROVE LookupInv'
<1> DEFINE h == Head(batch)
<1>1. ~outcome.done /\ h \in Looked /\ Tail(batch) \in Seq(Looked) /\ O!ToSet(batch) = {h} \cup O!ToSet(Tail(batch))
  BY ReadingIs DEF O!MalformedPage
<1>2. /\ UNCHANGED <<db, ids, pending, outcome>> /\ Looked' = Looked /\ batch' = Tail(batch)
      /\ states' = [states EXCEPT ![h] = [ids |-> states[h].ids, complete |-> FALSE, pages |-> states[h].pages + 1]]
  BY DEF O!MalformedPage, Looked, O!LookedUp
<1> HIDE DEF h
<1>3. /\ states' \in [Looked -> [ids : SUBSET Advisories, complete : BOOLEAN, pages : Nat]]
      /\ ~states'[h].complete /\ \A p \in Looked : p # h => states'[p] = states[p]
  <2> DEFINE r == states[h]
             z == [ids |-> r.ids, complete |-> FALSE, pages |-> r.pages + 1]
  <2>1. r \in [ids : SUBSET Advisories, complete : BOOLEAN, pages : Nat]
    BY <1>1 DEF LookupInv, LookupShape
  <2>3. states' = [states EXCEPT ![h] = z]
    BY <1>2
  <2> HIDE DEF r
  <2>2. z \in [ids : SUBSET Advisories, complete : BOOLEAN, pages : Nat] /\ ~z.complete
    BY <2>1
  <2> HIDE DEF z
  <2>4. QED  BY <1>1, <2>2, <2>3 DEF LookupInv, LookupShape
<1>4. LookupShape'
  BY <1>1, <1>2, <1>3 DEF LookupInv, LookupShape
<1>5. SoFarWhole'
  BY <1>1, <1>2, <1>3 DEF LookupInv, SoFarWhole
<1>6. O!CompleteIsWhole'
  BY <1>1, <1>2 DEF O!CompleteIsWhole
<1>7. QED  BY <1>4, <1>5, <1>6 DEF LookupInv

\* What is found of the ids told: all of them, if they fit.
LEMMA FoundIs ==
    ASSUME O!LookupConstants, LookupShape, NEW told \in SUBSET Advisories, NEW order \in O!Orders(told \ O!ToSet(ids)),
           NEW p \in Looked, NEW f, f = O!FindIds(states[p], told, order)
    PROVE  /\ f.all \in Seq(Advisories) /\ Len(f.all) <= MaxIds
           /\ f.mine \in SUBSET Advisories /\ states[p].ids \subseteq f.mine
           /\ f.fit \in BOOLEAN /\ (f.fit => told \subseteq f.mine)
<1> DEFINE fresh == told \ O!ToSet(ids)
           room  == MaxIds - Len(ids)
           fit   == Len(order) <= room
           n     == IF fit THEN Len(order) ELSE room
           new   == SubSeq(order, 1, n)
<1>1. ids \in Seq(Advisories) /\ room \in Nat /\ Len(ids) \in Nat /\ MaxIds \in Nat /\ states[p].ids \subseteq Advisories
  BY DEF LookupShape, O!LookupConstants
<1>2. order \in [1..O!Cardinality(fresh) -> fresh] /\ O!ToSet(order) = fresh
  BY DEF O!Orders
<1>3. order \in Seq(fresh)
  <2>1. IsFiniteSet(fresh)
    BY FS_Subset DEF O!LookupConstants, O!IsFiniteSet, IsFiniteSet
  <2>2. O!Cardinality(fresh) \in Nat
    BY <2>1, FS_CardinalityType DEF O!Cardinality, Cardinality
  <2>3. QED  BY <1>2, <2>2, SeqDef
<1>4. order \in Seq(Advisories) /\ Len(order) \in Nat
  BY <1>3
<1>5. n \in 0..Len(order) /\ n <= room
  BY <1>1, <1>4
<1>6. new \in Seq(Advisories) /\ Len(new) = n
  BY <1>4, <1>5, SetOfCut
<1>7. fit => new = order
  BY <1>4
<1>8. f = [all |-> ids \o new, mine |-> states[p].ids \cup (told \cap O!ToSet(ids \o new)), fit |-> fit]
  BY DEF O!FindIds
<1> HIDE DEF new, fit, n
<1>9. ids \o new \in Seq(Advisories) /\ O!ToSet(ids \o new) = O!ToSet(ids) \cup O!ToSet(new) /\ Len(ids \o new) = Len(ids) + n
  <2>1. Len(ids \o new) = Len(ids) + Len(new)
    BY <1>1, <1>6, ConcatProperties
  <2>2. QED  BY <1>1, <1>6, <2>1, SetOfConcat
<1>10. Len(ids) + n <= MaxIds
  <2>1. n \in Nat
    BY <1>4, <1>5
  <2>2. QED  BY <1>1, <1>5, <2>1
<1>11. fit => told \subseteq O!ToSet(ids \o new)
  BY <1>2, <1>7, <1>9
<1>12. fit \in BOOLEAN
  BY DEF fit
<1>13. QED  BY <1>1, <1>8, <1>9, <1>10, <1>11, <1>12

\* A page that is read: what was told is found, or the package is incomplete.
LEMMA PageRead == ASSUME O!LookupConstants, LookupInv, O!ReadPage PROVE LookupInv'
<1> DEFINE h == Head(batch)
<1>0. O!Reading
  BY DEF O!ReadPage
<1>1. ~outcome.done /\ h \in Looked /\ Tail(batch) \in Seq(Looked) /\ O!ToSet(batch) = {h} \cup O!ToSet(Tail(batch))
  BY <1>0, ReadingIs
<1>2. UNCHANGED outcome /\ batch' = Tail(batch)
  BY DEF O!ReadPage
<1>3. PICK page \in SUBSET Advisories, token \in {"none", "next", "stale"} :
        \E told \in SUBSET page :
          \E order \in O!Orders(told \ O!ToSet(ids)) :
             LET got  == O!FindIds(states[h], told, order)
                 over  == token = "stale" \/ (token = "next" /\ states[h].pages + 1 >= MaxPages) IN
             /\ states' = [states EXCEPT ![h] = [ids |-> got.mine, pages |-> states[h].pages + 1,
                             complete |-> states[h].complete /\ told = page /\ got.fit /\ ~over]]
             /\ ids' = got.all
             /\ pending' = IF token = "next" /\ ~over THEN Append(pending, h) ELSE pending
             /\ db' = [db EXCEPT !.told[h] = @ \cup page, !.untold = IF token = "next" THEN @ ELSE @ \ {h}]
  BY DEF O!ReadPage
<1>3a. PICK told \in SUBSET page :
          \E order \in O!Orders(told \ O!ToSet(ids)) :
             LET got  == O!FindIds(states[h], told, order)
                 over  == token = "stale" \/ (token = "next" /\ states[h].pages + 1 >= MaxPages) IN
             /\ states' = [states EXCEPT ![h] = [ids |-> got.mine, pages |-> states[h].pages + 1,
                             complete |-> states[h].complete /\ told = page /\ got.fit /\ ~over]]
             /\ ids' = got.all
             /\ pending' = IF token = "next" /\ ~over THEN Append(pending, h) ELSE pending
             /\ db' = [db EXCEPT !.told[h] = @ \cup page, !.untold = IF token = "next" THEN @ ELSE @ \ {h}]
  BY <1>3
<1>3b. PICK order \in O!Orders(told \ O!ToSet(ids)) :
        LET got  == O!FindIds(states[h], told, order)
            over  == token = "stale" \/ (token = "next" /\ states[h].pages + 1 >= MaxPages) IN
        /\ states' = [states EXCEPT ![h] = [ids |-> got.mine, pages |-> states[h].pages + 1,
                        complete |-> states[h].complete /\ told = page /\ got.fit /\ ~over]]
        /\ ids' = got.all
        /\ pending' = IF token = "next" /\ ~over THEN Append(pending, h) ELSE pending
        /\ db' = [db EXCEPT !.told[h] = @ \cup page, !.untold = IF token = "next" THEN @ ELSE @ \ {h}]
  BY <1>3a
<1> DEFINE f    == O!FindIds(states[h], told, order)
           over == token = "stale" \/ (token = "next" /\ states[h].pages + 1 >= MaxPages)
           new  == [ids |-> f.mine, pages |-> states[h].pages + 1,
                    complete |-> states[h].complete /\ told = page /\ f.fit /\ ~over]
<1>4. /\ states' = [states EXCEPT ![h] = new] /\ ids' = f.all
      /\ pending' = IF token = "next" /\ ~over THEN Append(pending, h) ELSE pending
      /\ db' = [db EXCEPT !.told[h] = @ \cup page, !.untold = IF token = "next" THEN @ ELSE @ \ {h}]
  BY <1>3b
<1>5. /\ f.all \in Seq(Advisories) /\ Len(f.all) <= MaxIds
      /\ f.mine \in SUBSET Advisories /\ states[h].ids \subseteq f.mine
      /\ f.fit \in BOOLEAN /\ (f.fit => told \subseteq f.mine)
  BY <1>1, FoundIs DEF LookupInv
<1> HIDE DEF f, over, h
<1>6. /\ new \in [ids : SUBSET Advisories, complete : BOOLEAN, pages : Nat]
      /\ new.ids = f.mine /\ (new.complete => states[h].complete /\ told = page /\ f.fit /\ ~over)
  <2>1. states[h].pages + 1 \in Nat /\ states[h].complete \in BOOLEAN
    BY <1>1 DEF LookupInv, LookupShape
  <2>2. QED  BY <1>5, <2>1
<1> HIDE DEF new
<1>7. /\ states' \in [Looked -> [ids : SUBSET Advisories, complete : BOOLEAN, pages : Nat]]
      /\ states'[h] = new /\ \A p \in Looked : p # h => states'[p] = states[p]
  BY <1>1, <1>4, <1>6 DEF LookupInv, LookupShape
<1>8. db.wanted \in Seq(O!ToSet(db.wanted)) /\ Looked \subseteq O!ToSet(db.wanted)
  BY LookedUpIs DEF LookupInv, LookupShape
<1>9. /\ db' = [wanted |-> db.wanted, told |-> [db.told EXCEPT ![h] = @ \cup page],
                untold |-> IF token = "next" THEN db.untold ELSE db.untold \ {h}]
  BY <1>4 DEF LookupInv, LookupShape
<1>10. /\ db'.wanted = db.wanted /\ db'.untold = IF token = "next" THEN db.untold ELSE db.untold \ {h}
       /\ db'.told \in [O!ToSet(db.wanted) -> SUBSET Advisories]
       /\ db'.told[h] = db.told[h] \cup page /\ \A p \in Looked : p # h => db'.told[p] = db.told[p]
  BY <1>1, <1>8, <1>9 DEF LookupInv, LookupShape
<1>11. Looked' = Looked
  BY <1>10 DEF Looked, O!LookedUp
<1>12. pending' \in Seq(Looked) /\ O!ToSet(pending') = O!ToSet(pending) \cup (IF token = "next" /\ ~over THEN {h} ELSE {})
  BY <1>1, <1>4, SetOfAppend DEF LookupInv, LookupShape
<1>13. LookupShape'
  BY <1>1, <1>2, <1>4, <1>5, <1>7, <1>8, <1>9, <1>10, <1>11, <1>12 DEF LookupShape
<1>14. ASSUME NEW p \in Looked, states'[p].complete
       PROVE  /\ db'.told[p] \subseteq states'[p].ids
              /\ p \in db'.untold => p \in O!ToSet(pending') \cup O!ToSet(batch')
  <2>1. CASE p = h
    <3>1. states[h].complete /\ told = page /\ f.fit /\ ~over /\ states'[h].ids = f.mine
      BY <1>6, <1>7, <1>14, <2>1
    <3>2. db.told[h] \subseteq states[h].ids
      BY <1>1, <3>1 DEF LookupInv, SoFarWhole
    <3>3. db'.told[h] \subseteq states'[h].ids
      BY <1>5, <1>10, <3>1, <3>2
    <3>4. QED  BY <1>10, <1>12, <2>1, <3>1, <3>3
  <2>2. CASE p # h
    <3>1. states[p].complete /\ states'[p] = states[p] /\ db'.told[p] = db.told[p]
      BY <1>7, <1>10, <1>14, <2>2
    <3>2. QED  BY <1>1, <1>2, <1>10, <1>12, <2>2, <3>1 DEF LookupInv, SoFarWhole
  <2>3. QED  BY <2>1, <2>2
<1>15. SoFarWhole'
  BY <1>11, <1>14 DEF SoFarWhole
<1>16. O!CompleteIsWhole'
  BY <1>1, <1>2 DEF O!CompleteIsWhole
<1>17. QED  BY <1>13, <1>15, <1>16 DEF LookupInv

\* The budget ends, or a record is read.
LEMMA NothingRead == ASSUME LookupInv, O!Stop \/ O!Detail \/ UNCHANGED O!vars PROVE LookupInv'
<1>1. UNCHANGED <<db, states, pending, batch, ids, outcome>> /\ (UNCHANGED records \/ ~outcome.done)
  BY DEF O!Stop, O!Detail, O!vars
<1>2. UNCHANGED Looked
  BY <1>1 DEF Looked, O!LookedUp
<1>3. LookupShape' /\ SoFarWhole'
  BY <1>1, <1>2 DEF LookupInv, LookupShape, SoFarWhole
<1>4. O!CompleteIsWhole'
  BY <1>1 DEF LookupInv, O!CompleteIsWhole, O!Says
<1>5. QED  BY <1>3, <1>4 DEF LookupInv

\* What is returned follows from what was told, found and read.
LEMMA LookupReturns == ASSUME O!LookupConstants, LookupInv, O!Return PROVE LookupInv'
<1> DEFINE results == [p \in DOMAIN states |-> O!Result(p)]
<1>1. /\ UNCHANGED <<db, states, pending, batch, ids, records>> /\ batch = <<>>
      /\ outcome' = [done |-> TRUE, results |-> results,
                     degraded |-> Len(db.wanted) > Len(O!LookedUp) \/ \E p \in DOMAIN states : ~results[p].complete]
  BY DEF O!Return, O!PagesOver
<1>2. UNCHANGED Looked /\ DOMAIN states = Looked /\ DOMAIN outcome'.results = Looked
  BY <1>1 DEF Looked, O!LookedUp, LookupInv, LookupShape
<1>3. LookupShape' /\ SoFarWhole'
  BY <1>1, <1>2 DEF LookupInv, LookupShape, SoFarWhole
<1>4. O!ToSet(batch) = {}
  BY <1>1 DEF O!ToSet
<1>5. ASSUME NEW p \in Looked
      PROVE  LET list  == outcome'.results[p].vulnerabilities
                 valid == {a \in Advisories : ~O!Says(a, "withdrawn")} IN
             /\ states[p].ids \cap valid \subseteq {v.id : v \in list}
             /\ outcome'.results[p].complete =>
                   /\ p \notin db.untold
                   /\ \A a \in db.told[p] \cap valid : [id |-> a, known |-> TRUE] \in list
  <2> DEFINE keeps == {i \in states[p].ids : ~O!Says(i, "withdrawn")}
             list  == {[id |-> i, known |-> O!Says(i, "rated")] : i \in keeps}
  <2>1. /\ outcome'.results[p].vulnerabilities = list
        /\ outcome'.results[p].complete = (/\ states[p].complete /\ p \notin O!ToSet(pending)
                                          /\ \A i \in keeps : O!Says(i, "rated"))
    BY <1>1, <1>2 DEF O!Result
  <2>2. ASSUME NEW i \in keeps PROVE \E v \in list : v.id = i
    <3>1. [id |-> i, known |-> O!Says(i, "rated")] \in list
      OBVIOUS
    <3>2. QED  BY <3>1
  <2>3. ASSUME outcome'.results[p].complete, NEW a \in db.told[p], ~O!Says(a, "withdrawn")
        PROVE  [id |-> a, known |-> TRUE] \in list
    <3>1. a \in keeps /\ O!Says(a, "rated")
      BY <2>1, <2>3 DEF LookupInv, SoFarWhole
    <3>2. O!Says(a, "rated") = TRUE
      BY <3>1 DEF O!Says
    <3>3. QED  BY <3>1, <3>2
  <2>4. outcome'.results[p].complete => p \notin db.untold
    BY <1>4, <2>1 DEF LookupInv, SoFarWhole
  <2> HIDE DEF list
  <2>5. states[p].ids \cap {a \in Advisories : ~O!Says(a, "withdrawn")} \subseteq {v.id : v \in list}
    BY <2>2
  <2>6. QED  BY <2>1, <2>3, <2>4, <2>5
<1>6. ASSUME ~outcome'.degraded, NEW p \in O!ToSet(db.wanted)
      PROVE  p \in Looked /\ outcome'.results[p].complete
  <2>1. ~(Len(db.wanted) > Len(O!LookedUp)) /\ \A q \in Looked : results[q].complete
    BY <1>1, <1>2, <1>6
  <2>2. p \in Looked
    BY <2>1, LookedUpIs DEF LookupInv, LookupShape
  <2>3. QED  BY <1>1, <2>1, <2>2
<1>7. O!CompleteIsWhole'
  BY <1>1, <1>2, <1>5, <1>6 DEF O!CompleteIsWhole, O!Says
<1>8. QED  BY <1>3, <1>7 DEF LookupInv

\* The invariant of the lookup holds in every state.
LEMMA LookupHolds == O!LookupConstants => (O!Spec => []LookupInv)
<1> SUFFICES ASSUME O!LookupConstants PROVE O!Spec => []LookupInv
  OBVIOUS
<1>1. O!Init => LookupInv
  BY LookupBegins
<1>2. LookupInv /\ [O!Next]_O!vars => LookupInv'
  BY BatchAsked, PageMalformed, PageRead, NothingRead, LookupReturns DEF O!Next
<1>3. QED  BY <1>1, <1>2, PTL DEF O!Spec

\* A package said to be complete lists every advisory the database has for it with its severity,
\* and a lookup that is not degraded says that of every package (OsvClient.query).
THEOREM LookupsAreWhole == O!LookupConstants => (O!Spec => [](O!CompleteIsWhole /\ CompleteIsWhole))
<1> SUFFICES ASSUME O!LookupConstants PROVE O!Spec => [](O!CompleteIsWhole /\ CompleteIsWhole)
  OBVIOUS
<1>1. LookupInv => O!CompleteIsWhole /\ CompleteIsWhole
  BY DEF LookupInv, CompleteIsWhole
<1>2. QED  BY <1>1, LookupHolds, PTL

-------------------------------------------------------------------------------
(* The files beside a diff: the walk of a graph *)

\* A set of numbers that has 0, and with each the next, has all.
LEMMA AllNumbers == ASSUME NEW M, 0 \in M, \A n \in Nat : n \in M => n + 1 \in M PROVE Nat \subseteq M
<1>1. SUFFICES ASSUME Nat \ M # {} PROVE FALSE
  OBVIOUS
<1>2. PICK k \in Nat \ M : \A m \in Nat \ M : k <= m
  BY <1>1, LeastOf
<1>3. k # 0 /\ k - 1 \in Nat /\ (k - 1) + 1 = k
  BY <1>2
<1>4. k - 1 \in M
  BY <1>2, <1>3
<1>5. QED  BY <1>2, <1>3, <1>4

\* The size of a set, as the selection counts it.
LEMMA SameSize == \A s : C!Cardinality(s) = Cardinality(s) /\ (C!IsFiniteSet(s) <=> IsFiniteSet(s))
BY DEF C!Cardinality, Cardinality, C!IsFiniteSet, IsFiniteSet

\* Some of the files are finitely many.
LEMMA SomeFiles == ASSUME C!ContextConstants, NEW D, D \subseteq Files PROVE IsFiniteSet(D) /\ Cardinality(D) \in Nat
<1>1. IsFiniteSet(Files)
  BY SameSize DEF C!ContextConstants
<1>2. QED  BY <1>1, FS_Subset, FS_CardinalityType

\* A list of some things is a list of more.
LEMMA MoreListed ==
    ASSUME NEW Any, NEW s \in Seq(Any)
    PROVE  Len(s) \in Nat /\ (\A i \in 1..Len(s) : s[i] \in Any) /\ \A More : Any \subseteq More => s \in Seq(More)
OBVIOUS

\* The elements of a finite set, listed.
LEMMA ListedAll == ASSUME NEW Any, IsFiniteSet(Any) PROVE C!SetToSeq(Any) \in Seq(Any) /\ C!ToSet(C!SetToSeq(Any)) = Any
<1> DEFINE n == Cardinality(Any)
           f == C!SetToSeq(Any)
<1>1. n \in Nat /\ ExistsBijection(1..n, Any)
  BY FS_CardinalityType
<1>2. PICK g : g \in [1..n -> Any] /\ \A a, b \in DOMAIN g : g[a] = g[b] => a = b
  BY <1>1 DEF ExistsBijection, Bijection, Injection, IsInjective
<1>3. f \in [1..n -> Any] /\ \A a, b \in DOMAIN f : f[a] = f[b] => a = b
  <2> DEFINE Q(h) == h \in [1..n -> Any] /\ \A a, b \in DOMAIN h : h[a] = h[b] => a = b
  <2>1. f = CHOOSE h : Q(h)
    <3>1. f = CHOOSE h \in [1..n -> Any] : \A a, b \in DOMAIN h : h[a] = h[b] => a = b
      BY SameSize DEF C!SetToSeq, C!IsInjective
    <3>2. QED  BY <3>1
  <2>2. Q(g)
    BY <1>2
  <2> HIDE DEF Q, f
  <2>3. Q(f)
    BY <2>1, <2>2
  <2>4. QED  BY <2>3 DEF Q
<1> HIDE DEF f
<1>4. f \in Injection(1..n, Any)
  BY <1>3 DEF Injection, IsInjective
<1>5. Cardinality(1..n) = n
  BY <1>1, FS_Interval
<1>6. f \in Surjection(1..n, Any)
  BY <1>4, <1>5, FS_Injection
<1>7. f \in Seq(Any) /\ DOMAIN f = 1..n
  BY <1>1, <1>3
<1>8. C!ToSet(f) = Any
  BY <1>6, <1>7 DEF C!ToSet, Surjection
<1>9. QED  BY <1>7, <1>8 DEF f

\* What is in a list, as the selection and as the lookup say it.
LEMMA SameSet == \A s : C!ToSet(s) = O!ToSet(s)
BY DEF C!ToSet, O!ToSet

\* The walk of a graph from some files: hs gives the distance of what it found, l is its queue.
\* What is in the queue is in order, nothing found is further than one step from its head, and
\* what left the queue has its neighbours found; whatever is found is next to what is nearer.
InOrder(hs, l) == \A i, j \in 1..Len(l) : i <= j => hs[l[i]] <= hs[l[j]]
NotFar(hs, l)  == l # <<>> => \A g \in DOMAIN hs : hs[g] <= hs[Head(l)] + 1
Left(E, hs, l) == \A g \in DOMAIN hs \ O!ToSet(l) : hs[g] < MaxHops =>
                      \A h \in Files : <<g, h>> \in E => h \in DOMAIN hs /\ hs[h] <= hs[g] + 1
Led(E, from, hs) == \A g \in DOMAIN hs : IF g \in from THEN hs[g] = 0
                                         ELSE \E p \in DOMAIN hs : hs[g] = hs[p] + 1 /\ <<p, g>> \in E
WalkOk(E, from, hs, l) ==
    /\ DOMAIN hs \subseteq Files /\ hs \in [DOMAIN hs -> 0..MaxHops] /\ l \in Seq(DOMAIN hs)
    /\ from \subseteq DOMAIN hs
    /\ InOrder(hs, l) /\ NotFar(hs, l) /\ Left(E, hs, l) /\ Led(E, from, hs)

\* It begins with those files.
LEMMA WalkBegins ==
    ASSUME NEW E, NEW from \in SUBSET Files, NEW l \in Seq(from), O!ToSet(l) = from, MaxHops \in Nat
    PROVE  WalkOk(E, from, [f \in from |-> 0], l)
<1> DEFINE hs == [f \in from |-> 0]
<1>1. DOMAIN hs = from /\ hs \in [from -> 0..MaxHops] /\ \A f \in from : hs[f] = 0
  OBVIOUS
<1>2. \A i \in 1..Len(l) : l[i] \in from
  OBVIOUS
<1>3. l # <<>> => Head(l) \in from
  OBVIOUS
<1> HIDE DEF hs
<1>4. InOrder(hs, l) /\ NotFar(hs, l)
  BY <1>1, <1>2, <1>3 DEF InOrder, NotFar
<1>5. QED  BY <1>1, <1>4 DEF WalkOk, Left, Led, hs

\* The head of the queue is taken, and what is new next to it comes to the end.
LEMMA WalkStep ==
    ASSUME NEW E, NEW from, NEW hs, NEW l, WalkOk(E, from, hs, l), l # <<>>, MaxHops \in Nat,
           NEW fresh, fresh = IF hs[Head(l)] < MaxHops THEN {g \in Files : <<Head(l), g>> \in E} \ DOMAIN hs ELSE {},
           NEW more \in Seq(fresh), O!ToSet(more) = fresh
    PROVE  WalkOk(E, from, [g \in DOMAIN hs \cup fresh |-> IF g \in fresh THEN hs[Head(l)] + 1 ELSE hs[g]], Tail(l) \o more)
<1> DEFINE h == Head(l)
           D == DOMAIN hs
           z == [g \in D \cup fresh |-> IF g \in fresh THEN hs[h] + 1 ELSE hs[g]]
           k == Tail(l) \o more
<1>1. /\ D \subseteq Files /\ \A g \in D : hs[g] \in Nat /\ hs[g] <= MaxHops
      /\ l \in Seq(D) /\ from \subseteq D /\ h \in D /\ Tail(l) \in Seq(D) /\ Len(l) \in Nat \ {0}
      /\ Len(Tail(l)) = Len(l) - 1 /\ h = l[1] /\ \A i \in 1..(Len(l) - 1) : Tail(l)[i] = l[i + 1]
  <2>1. l \in Seq(D) /\ D \subseteq Files /\ hs \in [D -> 0..MaxHops] /\ from \subseteq D
    BY DEF WalkOk
  <2>2. h \in D /\ Tail(l) \in Seq(D) /\ Len(l) \in Nat \ {0} /\ Len(Tail(l)) = Len(l) - 1 /\ h = l[1]
    BY <2>1
  <2>3. \A i \in 1..(Len(l) - 1) : Tail(l)[i] = l[i + 1]
    BY <2>1
  <2>4. QED  BY <2>1, <2>2, <2>3
<1> HIDE DEF h
<1>2. fresh \cap D = {} /\ fresh \subseteq Files /\ (fresh # {} => hs[h] < MaxHops) /\ \A g \in fresh : <<h, g>> \in E
  BY DEF h
<1>3. DOMAIN z = D \cup fresh /\ (\A g \in D : z[g] = hs[g]) /\ \A g \in fresh : z[g] = hs[h] + 1
  BY <1>2
<1>4. z \in [DOMAIN z -> 0..MaxHops]
  <2>1. \A g \in DOMAIN z : z[g] \in 0..MaxHops
    BY <1>1, <1>2, <1>3
  <2>2. z \in [D \cup fresh -> 0..MaxHops]
    BY <1>3, <2>1
  <2>3. QED  BY <1>3, <2>2
<1> HIDE DEF z
<1>5. /\ k \in Seq(DOMAIN z) /\ Len(k) = (Len(l) - 1) + Len(more) /\ Len(more) \in Nat
      /\ \A i \in 1..(Len(l) - 1) : k[i] = l[i + 1]
      /\ \A i \in 1..Len(more) : k[(Len(l) - 1) + i] = more[i] /\ more[i] \in fresh
  <2>1. Tail(l) \in Seq(DOMAIN z) /\ more \in Seq(DOMAIN z)
    <3>1. D \subseteq DOMAIN z /\ fresh \subseteq DOMAIN z
      BY <1>3
    <3>2. QED  BY <1>1, <3>1, MoreListed
  <2>2. /\ k \in Seq(DOMAIN z) /\ Len(k) = Len(Tail(l)) + Len(more)
        /\ \A i \in 1..Len(k) : k[i] = IF i <= Len(Tail(l)) THEN Tail(l)[i] ELSE more[i - Len(Tail(l))]
    BY <2>1, ConcatProperties
  <2>3. Len(more) \in Nat /\ \A i \in 1..Len(more) : more[i] \in fresh
    BY MoreListed
  <2> HIDE DEF k
  <2>4. \A i \in 1..(Len(l) - 1) : k[i] = l[i + 1]
    <3>1. SUFFICES ASSUME NEW i \in 1..(Len(l) - 1) PROVE k[i] = l[i + 1]
      OBVIOUS
    <3>2. i \in 1..Len(k) /\ i <= Len(Tail(l)) /\ Tail(l)[i] = l[i + 1]
      BY <1>1, <2>2, <2>3, <3>1
    <3>3. QED  BY <2>2, <3>2
  <2>5. \A i \in 1..Len(more) : k[(Len(l) - 1) + i] = more[i]
    BY <1>1, <2>2, <2>3
  <2>6. QED  BY <1>1, <2>2, <2>3, <2>4, <2>5
<1> HIDE DEF D, k
<1>6. \A i \in 1..Len(l) : l[i] \in D
  BY <1>1
<1>7. \A g \in D : hs[g] <= hs[h] + 1
  BY DEF WalkOk, NotFar, h, D
<1>8. InOrder(z, k)
  <2>1. SUFFICES ASSUME NEW i \in 1..Len(k), NEW j \in 1..Len(k), i <= j PROVE z[k[i]] <= z[k[j]]
    BY DEF InOrder
  <2>2. CASE j <= Len(l) - 1
    <3>1. i + 1 \in 1..Len(l) /\ j + 1 \in 1..Len(l) /\ i + 1 <= j + 1 /\ k[i] = l[i + 1] /\ k[j] = l[j + 1]
      BY <1>1, <1>5, <2>1, <2>2
    <3>2. hs[l[i + 1]] <= hs[l[j + 1]]
      BY <3>1 DEF WalkOk, InOrder
    <3>3. QED  BY <1>3, <1>6, <3>1, <3>2
  <2>3. CASE j > Len(l) - 1
    <3>1. z[k[j]] = hs[h] + 1
      <4>1. j - (Len(l) - 1) \in 1..Len(more) /\ (Len(l) - 1) + (j - (Len(l) - 1)) = j
        BY <1>1, <1>5, <2>1, <2>3
      <4>2. k[j] \in fresh
        BY <1>5, <4>1
      <4>3. QED  BY <1>3, <4>2
    <3>2. k[i] \in D \/ k[i] \in fresh
      BY <1>3, <1>5, <2>1, MoreListed
    <3>3. z[k[i]] <= hs[h] + 1
      BY <1>1, <1>3, <1>7, <3>2
    <3>4. QED  BY <3>1, <3>3
  <2>4. QED
    <3>1. j \in Nat /\ Len(l) \in Nat
      BY <1>1, <2>1
    <3>2. QED  BY <2>2, <2>3, <3>1
<1>9. NotFar(z, k)
  <2>1. SUFFICES ASSUME k # <<>>, NEW g \in DOMAIN z PROVE z[g] <= z[Head(k)] + 1
    BY DEF NotFar
  <2>2. Head(k) = k[1] /\ 1 \in 1..Len(k) /\ Head(k) \in DOMAIN z
    <3>1. k \in Seq(DOMAIN z) /\ k # <<>>
      BY <1>5, <2>1
    <3>2. QED  BY <3>1
  <2>3. z[Head(k)] >= hs[h]
    <3>1. CASE Len(l) > 1
      <4>1. k[1] = l[2] /\ 1 \in 1..Len(l) /\ 2 \in 1..Len(l) /\ 1 <= 2
        BY <1>1, <1>5, <3>1
      <4>2. hs[l[1]] <= hs[l[2]] /\ l[2] \in D
        BY <1>6, <4>1 DEF WalkOk, InOrder
      <4>3. QED  BY <1>1, <1>3, <2>2, <4>1, <4>2
    <3>2. CASE ~(Len(l) > 1)
      <4>1. Len(l) = 1 /\ 1 \in 1..Len(more)
        BY <1>1, <1>5, <2>2, <3>2
      <4>2. (Len(l) - 1) + 1 = 1
        BY <4>1
      <4>3. k[(Len(l) - 1) + 1] \in fresh
        BY <1>5, <4>1
      <4>4. k[1] \in fresh
        BY <4>2, <4>3
      <4>5. QED  BY <1>1, <1>3, <2>2, <4>4
    <3>3. QED  BY <3>1, <3>2
  <2>4. z[g] <= hs[h] + 1 /\ z[g] \in Nat
    BY <1>1, <1>3, <1>7, <2>1
  <2>5. z[Head(k)] \in Nat /\ hs[h] \in Nat
    BY <1>1, <1>4, <2>2
  <2>6. QED  BY <1>1, <2>3, <2>4, <2>5
<1>10. Left(E, z, k)
  <2>1. SUFFICES ASSUME NEW g \in DOMAIN z \ O!ToSet(k), z[g] < MaxHops, NEW y \in Files, <<g, y>> \in E
                 PROVE  y \in DOMAIN z /\ z[y] <= z[g] + 1
    BY DEF Left
  <2>2. g \notin fresh
    <3>1. SUFFICES ASSUME g \in fresh PROVE FALSE
      OBVIOUS
    <3>2. PICK i \in 1..Len(more) : more[i] = g
      BY <3>1, SetOf
    <3>3. (Len(l) - 1) + i \in 1..Len(k) /\ k[(Len(l) - 1) + i] = g
      <4>1. Len(l) \in Nat \ {0} /\ Len(more) \in Nat /\ Len(k) = (Len(l) - 1) + Len(more)
        BY <1>1, <1>5
      <4>2. (Len(l) - 1) + i \in 1..Len(k)
        BY <3>2, <4>1
      <4>3. k[(Len(l) - 1) + i] = g
        BY <1>5, <3>2
      <4>4. QED  BY <4>2, <4>3
    <3>4. g \in O!ToSet(k)
      BY <1>5, <3>3, SetOf
    <3>5. QED  BY <2>1, <3>4
  <2>3. g \in D /\ z[g] = hs[g]
    BY <1>3, <2>1, <2>2
  <2>4. CASE g \in O!ToSet(l)
    <3>1. PICK i \in 1..Len(l) : l[i] = g
      BY <1>1, <2>4, SetOf
    <3>2. i = 1
      <4>1. SUFFICES ASSUME i # 1 PROVE FALSE
        OBVIOUS
      <4>2. i - 1 \in 1..(Len(l) - 1) /\ (i - 1) + 1 = i /\ i - 1 \in 1..Len(k)
        BY <1>1, <1>5, <3>1, <4>1
      <4>3. k[i - 1] = g
        BY <1>5, <3>1, <4>2
      <4>4. g \in O!ToSet(k)
        BY <1>5, <4>2, <4>3, SetOf
      <4>5. QED  BY <2>1, <4>4
    <3>3. g = h /\ hs[h] < MaxHops
      BY <1>1, <2>1, <2>3, <3>1, <3>2
    <3>4. y \in D \/ y \in fresh
      BY <2>1, <3>3 DEF D, h
    <3>5. QED  BY <1>3, <1>7, <3>3, <3>4, <1>1
  <2>5. CASE g \notin O!ToSet(l)
    <3>1. y \in D /\ hs[y] <= hs[g] + 1
      BY <2>1, <2>3, <2>5 DEF WalkOk, Left, D
    <3>2. QED  BY <1>3, <2>3, <3>1
  <2>6. QED  BY <2>4, <2>5
<1>11. Led(E, from, z)
  <2>1. SUFFICES ASSUME NEW g \in DOMAIN z
                 PROVE  IF g \in from THEN z[g] = 0 ELSE \E p \in DOMAIN z : z[g] = z[p] + 1 /\ <<p, g>> \in E
    BY DEF Led
  <2>2. CASE g \in fresh
    <3>1. g \notin from /\ h \in DOMAIN z /\ z[g] = z[h] + 1 /\ <<h, g>> \in E
      BY <1>1, <1>2, <1>3, <2>2
    <3>2. QED  BY <3>1
  <2>3. CASE g \notin fresh
    <3>1. g \in D /\ z[g] = hs[g]
      BY <1>3, <2>1, <2>3
    <3>2. IF g \in from THEN hs[g] = 0 ELSE \E p \in D : hs[g] = hs[p] + 1 /\ <<p, g>> \in E
      BY <3>1 DEF WalkOk, Led, D
    <3>3. QED  BY <1>3, <3>1, <3>2
  <2>4. QED  BY <2>2, <2>3
<1>12. WalkOk(E, from, z, k)
  BY <1>1, <1>2, <1>3, <1>4, <1>5, <1>8, <1>9, <1>10, <1>11 DEF WalkOk
<1>13. QED  BY <1>12 DEF z, k, D, h

\* A step more leads on.
LEMMA WithinStep ==
    ASSUME NEW n \in Nat, NEW E, NEW f \in C!Within(n, E), NEW g \in Files, g = f \/ <<f, g>> \in E
    PROVE  g \in C!Within(n + 1, E)
<1>1. PICK path \in [0..n -> Files] : /\ path[0] \in repo.changed /\ path[n] = f
                                      /\ \A i \in 1..n : path[i] = path[i - 1] \/ <<path[i - 1], path[i]>> \in E
  BY DEF C!Within
<1> DEFINE more == [i \in 0..(n + 1) |-> IF i = n + 1 THEN g ELSE path[i]]
<1>2. more \in [0..(n + 1) -> Files]
  <2>1. \A i \in 0..(n + 1) : i # n + 1 => i \in 0..n
    OBVIOUS
  <2>2. QED  BY <1>1, <2>1
<1>3. more[0] = path[0] /\ more[n + 1] = g
  OBVIOUS
<1>4. ASSUME NEW i \in 1..(n + 1) PROVE more[i] = more[i - 1] \/ <<more[i - 1], more[i]>> \in E
  <2>1. CASE i = n + 1
    <3>1. more[i] = g /\ more[i - 1] = f
      BY <1>1, <2>1
    <3>2. QED  BY <3>1
  <2>2. CASE i # n + 1
    <3>1. i \in 1..n /\ more[i] = path[i] /\ more[i - 1] = path[i - 1]
      BY <2>2
    <3>2. QED  BY <1>1, <3>1
  <2>3. QED  BY <2>1, <2>2
<1> HIDE DEF more
<1>5. QED  BY <1>1, <1>2, <1>3, <1>4 DEF C!Within

\* What the walk has found is within as many steps as it says.
LEMMA FoundWithin ==
    ASSUME NEW E, NEW hs, Led(E, repo.changed \cap listed, hs), DOMAIN hs \subseteq Files,
           \A g \in DOMAIN hs : hs[g] \in Nat
    PROVE  \A n \in Nat : \A g \in DOMAIN hs : hs[g] <= n => g \in C!Within(n, E)
<1> DEFINE M == {n \in Nat : \A g \in DOMAIN hs : hs[g] <= n => g \in C!Within(n, E)}
<1>1. 0 \in M
  <2>1. SUFFICES ASSUME NEW g \in DOMAIN hs, hs[g] <= 0 PROVE g \in C!Within(0, E)
    OBVIOUS
  <2>2. g \in repo.changed
    <3>1. SUFFICES ASSUME g \notin repo.changed \cap listed PROVE FALSE
      OBVIOUS
    <3>2. PICK p \in DOMAIN hs : hs[g] = hs[p] + 1
      BY <3>1 DEF Led
    <3>3. QED  BY <2>1, <3>2
  <2> DEFINE path == [i \in 0..0 |-> g]
  <2>3. path \in [0..0 -> Files] /\ path[0] = g
    OBVIOUS
  <2>4. \A i \in 1..0 : path[i] = path[i - 1]
    OBVIOUS
  <2> HIDE DEF path
  <2>5. QED  BY <2>2, <2>3, <2>4 DEF C!Within
<1>2. ASSUME NEW n \in Nat, n \in M PROVE n + 1 \in M
  <2>1. SUFFICES ASSUME NEW g \in DOMAIN hs, hs[g] <= n + 1 PROVE g \in C!Within(n + 1, E)
    OBVIOUS
  <2>2. CASE hs[g] <= n
    <3>1. g \in C!Within(n, E)
      BY <1>2, <2>2
    <3>2. QED  BY <3>1, WithinStep
  <2>3. CASE ~(hs[g] <= n)
    <3>1. hs[g] # 0
      BY <2>1, <2>3
    <3>2. PICK p \in DOMAIN hs : hs[g] = hs[p] + 1 /\ <<p, g>> \in E
      BY <3>1 DEF Led
    <3>3. hs[p] <= n
      BY <2>1, <3>2
    <3>4. p \in C!Within(n, E) /\ g \in Files
      BY <1>2, <3>3
    <3>5. QED  BY <3>2, <3>4, WithinStep
  <2>4. QED  BY <2>2, <2>3
<1> HIDE DEF M
<1>3. Nat \subseteq M
  BY <1>1, <1>2, AllNumbers DEF M
<1>4. QED  BY <1>3 DEF M

\* When its queue is empty, what is within some steps, and listed, was found in as many.
LEMMA WithinFound ==
    ASSUME NEW E, NEW hs, WalkOk(E, repo.changed \cap listed, hs, <<>>), MaxHops \in Nat,
           \A f, g \in Files : <<f, g>> \in E => f \in listed,
           NEW n \in 0..MaxHops, NEW f \in C!Within(n, E), f \in listed
    PROVE  f \in DOMAIN hs /\ hs[f] <= n
<1>1. PICK path \in [0..n -> Files] : /\ path[0] \in repo.changed /\ path[n] = f
                                      /\ \A i \in 1..n : path[i] = path[i - 1] \/ <<path[i - 1], path[i]>> \in E
  BY DEF C!Within
<1>2. /\ DOMAIN hs \subseteq Files /\ \A g \in DOMAIN hs : hs[g] \in Nat /\ hs[g] <= MaxHops
      /\ \A g \in repo.changed \cap listed : g \in DOMAIN hs /\ hs[g] = 0
      /\ \A g \in DOMAIN hs : hs[g] < MaxHops => \A h \in Files : <<g, h>> \in E => h \in DOMAIN hs /\ hs[h] <= hs[g] + 1
  <2>1. O!ToSet(<<>>) = {}
    BY DEF O!ToSet
  <2>2. QED  BY <2>1 DEF WalkOk, Left, Led
<1> DEFINE M == {i \in Nat : i <= n /\ path[i] \in listed => path[i] \in DOMAIN hs /\ hs[path[i]] <= i}
<1>3. 0 \in M
  BY <1>1, <1>2
<1>4. ASSUME NEW i \in Nat, i \in M PROVE i + 1 \in M
  <2>1. SUFFICES ASSUME i + 1 <= n, path[i + 1] \in listed PROVE path[i + 1] \in DOMAIN hs /\ hs[path[i + 1]] <= i + 1
    OBVIOUS
  <2>2. i \in 0..n /\ i + 1 \in 0..n /\ i + 1 \in 1..n /\ (i + 1) - 1 = i
    BY <2>1
  <2>3. path[i] \in Files /\ path[i + 1] \in Files /\ (path[i + 1] = path[i] \/ <<path[i], path[i + 1]>> \in E)
    BY <1>1, <2>2
  <2>4. path[i] \in listed
    BY <2>1, <2>3
  <2>5. path[i] \in DOMAIN hs /\ hs[path[i]] <= i
    BY <1>4, <2>2, <2>4
  <2>6. CASE path[i + 1] = path[i]
    BY <1>2, <2>5, <2>6
  <2>7. CASE <<path[i], path[i + 1]>> \in E
    <3>1. hs[path[i]] < MaxHops /\ hs[path[i]] \in Nat
      BY <1>2, <2>2, <2>5
    <3>2. path[i + 1] \in DOMAIN hs /\ hs[path[i + 1]] <= hs[path[i]] + 1
      BY <1>2, <2>3, <2>5, <2>7, <3>1
    <3>3. QED  BY <1>2, <2>5, <3>1, <3>2
  <2>8. QED  BY <2>3, <2>6, <2>7
<1> HIDE DEF M
<1>5. n \in M
  BY <1>3, <1>4, AllNumbers
<1>6. QED  BY <1>1, <1>5 DEF M

\* Steps more or less make more or less of what is within.
LEMMA WithinMore ==
    ASSUME NEW n \in Nat, NEW E, NEW G, \A f, g \in Files : <<f, g>> \in E => f = g \/ <<f, g>> \in G
    PROVE  C!Within(n, E) \subseteq C!Within(n, G)
<1>1. SUFFICES ASSUME NEW f \in C!Within(n, E) PROVE f \in C!Within(n, G)
  OBVIOUS
<1>2. PICK path \in [0..n -> Files] : /\ path[0] \in repo.changed /\ path[n] = f
                                      /\ \A i \in 1..n : path[i] = path[i - 1] \/ <<path[i - 1], path[i]>> \in E
  BY <1>1 DEF C!Within
<1>3. ASSUME NEW i \in 1..n PROVE path[i] = path[i - 1] \/ <<path[i - 1], path[i]>> \in G
  <2>1. i \in 0..n /\ i - 1 \in 0..n
    OBVIOUS
  <2>2. path[i] \in Files /\ path[i - 1] \in Files
    BY <1>2, <2>1
  <2>3. QED  BY <1>2, <2>2
<1>4. f \in Files
  BY <1>1 DEF C!Within
<1>5. QED  BY <1>2, <1>3, <1>4 DEF C!Within

-------------------------------------------------------------------------------
(* The files beside a diff: the steps of the selection *)

Early == {"tree", "aliases", "index"}

SelectShape == /\ repo \in Repos /\ listed \subseteq Files /\ indexed \subseteq listed /\ DOMAIN hops \subseteq Files
               /\ stage \in Early \cup {"walk", "match", "rank", "read", "done", "tests"}
               /\ best \in Seq(Files) /\ dropped \in Seq(Files) /\ next \in Nat
               /\ stage \notin {"read", "done", "tests"} => next = 0
               /\ stage # "tests" => tests = C!NoTests
               /\ stage \in Early => indexed = {}

Walking == /\ stage = "walk" => WalkOk(C!Edges, C!Changed, hops, line)
           /\ stage = "match" => WalkOk(C!Edges, C!Changed, hops, <<>>)

\* Nothing was lost so far.
NoLoss == status = "COMPLETE" /\ reasons = {} /\ aliases # "lost"

\* Where nothing was lost all is listed, indexed, and resolves.
AllThere == /\ stage \in Early => status # "COMPLETE"
            /\ stage \in {"aliases", "index"} /\ reasons = {} => listed = Files
            /\ stage = "index" /\ reasons = {} => aliases \in {"read", "lost"}
            /\ NoLoss => listed = Files /\ indexed = Files /\ aliases = "read"
            /\ stage \in {"done", "tests"} /\ status = "COMPLETE" => reasons = {}

\* It was walked, ranked and read.
Covered == stage \in {"match", "rank", "read", "done"} /\ NoLoss => C!Within(MaxHops, C!Imports) \subseteq DOMAIN hops
Ranked  == stage = "read" \/ (stage = "done" /\ status = "COMPLETE") =>
               DOMAIN hops \subseteq repo.changed \cup O!ToSet(best) \cup O!ToSet(dropped)
AllRead == /\ stage = "read" /\ reasons = {} => \A i \in 1..Len(best) : i <= next => best[i] \in shown
           /\ stage = "done" /\ status = "COMPLETE" => \A i \in 1..Len(best) : best[i] \in shown

SelectInv == SelectShape /\ Walking /\ AllThere /\ Covered /\ Ranked /\ AllRead /\ C!SelectionSound

\* At first nothing is listed.
LEMMA SelectBegins == ASSUME C!Init PROVE SelectInv
<1>1. SelectShape
  BY DEF SelectShape, C!Init, Early
<1>2. Walking /\ AllThere /\ Covered /\ Ranked /\ AllRead /\ C!SelectionSound
  BY DEF Walking, AllThere, NoLoss, Covered, Ranked, AllRead, Early, C!Init, C!SelectionSound, C!NearestFirst, C!NothingMissed
<1>3. QED  BY <1>1, <1>2 DEF SelectInv

\* What the graph of a listing is.
LEMMA GraphIs ==
    ASSUME C!ContextConstants, SelectShape
    PROVE  /\ C!Edges \subseteq Files \X Files /\ C!Changed \subseteq listed /\ C!Changed = repo.changed \cap listed
           /\ repo.changed \subseteq Files
           /\ \A f, g \in Files : <<f, g>> \in C!Edges <=> g \in C!Neighbours(f)
           /\ \A f \in Files : C!Neighbours(f) \subseteq listed
           /\ \A f, g \in Files : <<f, g>> \in C!Edges => f \in listed /\ g \in listed
<1>1. repo.changed \subseteq Files /\ indexed \subseteq listed /\ listed \subseteq Files
  BY DEF C!ContextConstants, SelectShape
<1>2. \A f, g \in Files : <<f, g>> \in C!Edges <=> g \in C!Neighbours(f)
  BY DEF C!Edges
<1>3. \A f, g \in Files : g \in C!Neighbours(f) => f \in listed /\ g \in listed
  BY <1>1 DEF C!Neighbours, C!Forward, C!Importers, C!Resolves
<1>4. \A f \in Files : C!Neighbours(f) \subseteq listed
  BY <1>1 DEF C!Neighbours, C!Forward, C!Importers, C!Resolves
<1>5. QED  BY <1>1, <1>2, <1>3, <1>4 DEF C!Edges, C!Changed

\* It stays as long as what it is made of.
LEMMA GraphStays ==
    ASSUME UNCHANGED <<repo, listed, aliases, indexed>>
    PROVE  /\ C!Edges' = C!Edges /\ C!Changed' = C!Changed /\ C!Imports' = C!Imports
           /\ \A n, E : C!Within(n, E)' = C!Within(n, E)
<1>1. repo' = repo /\ listed' = listed /\ aliases' = aliases /\ indexed' = indexed
  OBVIOUS
<1>2. \A f : C!Neighbours(f)' = C!Neighbours(f)
  BY <1>1 DEF C!Neighbours, C!Forward, C!Importers, C!Resolves
<1>3. QED  BY <1>1, <1>2 DEF C!Edges, C!Changed, C!Imports, C!Within

\* Where nothing was lost, every import is an edge of the graph.
LEMMA GraphWhole ==
    ASSUME C!ContextConstants, SelectShape, AllThere, NoLoss
    PROVE  \A f, g \in Files : <<f, g>> \in C!Imports => f = g \/ <<f, g>> \in C!Edges
<1>1. listed = Files /\ indexed = Files /\ aliases = "read"
  BY DEF AllThere
<1>2. SUFFICES ASSUME NEW f \in Files, NEW g \in Files, <<f, g>> \in C!Imports, f # g PROVE g \in C!Neighbours(f)
  BY DEF C!Edges
<1>3. g \in repo.imports[f] \/ f \in repo.imports[g]
  BY <1>2 DEF C!Imports
<1>4. \A x, y \in Files : C!Resolves(x, y)
  BY <1>1 DEF C!Resolves
<1>5. QED  BY <1>1, <1>2, <1>3, <1>4 DEF C!Neighbours, C!Forward, C!Importers

\* The walk has found the nearest first.
LEMMA WalkEnds ==
    ASSUME C!ContextConstants, SelectShape, AllThere, WalkOk(C!Edges, C!Changed, hops, <<>>)
    PROVE  /\ \A n \in 0..MaxHops : {f \in DOMAIN hops : hops[f] <= n} = C!Within(n, C!Edges) \cap listed
           /\ NoLoss => C!Within(MaxHops, C!Imports) \subseteq DOMAIN hops
<1>1. MaxHops \in Nat
  BY DEF C!ContextConstants
<1>2. /\ DOMAIN hops \subseteq Files /\ \A g \in DOMAIN hops : hops[g] \in Nat
      /\ Led(C!Edges, repo.changed \cap listed, hops)
  <2>1. Led(C!Edges, C!Changed, hops) /\ DOMAIN hops \subseteq Files /\ hops \in [DOMAIN hops -> 0..MaxHops]
    BY DEF WalkOk
  <2>2. \A g \in DOMAIN hops : hops[g] \in Nat
    BY <1>1, <2>1
  <2>3. QED  BY <2>1, <2>2 DEF C!Changed
<1>3. DOMAIN hops \subseteq listed
  <2>1. SUFFICES ASSUME NEW g \in DOMAIN hops PROVE g \in listed
    OBVIOUS
  <2>2. g \in repo.changed \cap listed \/ \E p \in DOMAIN hops : <<p, g>> \in C!Edges
    BY <1>2 DEF Led
  <2>3. QED  BY <1>2, <2>2, GraphIs
<1>4. ASSUME NEW n \in 0..MaxHops PROVE {f \in DOMAIN hops : hops[f] <= n} = C!Within(n, C!Edges) \cap listed
  <2>1. ASSUME NEW f \in DOMAIN hops, hops[f] <= n PROVE f \in C!Within(n, C!Edges)
    <3>1. \A m \in Nat : \A g \in DOMAIN hops : hops[g] <= m => g \in C!Within(m, C!Edges)
      BY <1>2, FoundWithin
    <3>2. n \in Nat
      BY <1>1
    <3>3. QED  BY <2>1, <3>1, <3>2
  <2>2. ASSUME NEW f \in C!Within(n, C!Edges), f \in listed PROVE f \in DOMAIN hops /\ hops[f] <= n
    <3>1. \A g, h \in Files : <<g, h>> \in C!Edges => g \in listed
      BY GraphIs
    <3>2. WalkOk(C!Edges, repo.changed \cap listed, hops, <<>>)
      BY GraphIs
    <3>3. QED  BY <1>1, <2>2, <3>1, <3>2, WithinFound
  <2>3. QED  BY <1>3, <2>1, <2>2
<1>5. ASSUME NoLoss PROVE C!Within(MaxHops, C!Imports) \subseteq DOMAIN hops
  <2>1. C!Within(MaxHops, C!Imports) \subseteq C!Within(MaxHops, C!Edges)
    BY <1>1, <1>5, GraphWhole, WithinMore
  <2>2. C!Within(MaxHops, C!Edges) \subseteq listed
    BY <1>5 DEF AllThere, C!Within
  <2>3. MaxHops \in 0..MaxHops
    BY <1>1
  <2>4. QED  BY <1>4, <2>1, <2>2, <2>3
<1>6. QED  BY <1>4, <1>5

-------------------------------------------------------------------------------

\* How the selection may go on.
LEMMA ListTreeSelects == ASSUME C!ContextConstants, SelectInv, C!ListTree PROVE SelectInv'
<1>1. SelectShape /\ AllThere
  BY DEF SelectInv
<1>2. /\ stage = "tree" /\ stage' \in {"done", "aliases"} /\ indexed = {}
      /\ UNCHANGED <<repo, aliases, indexed, hops, line, best, dropped, shown, next, tests>>
  BY <1>1 DEF C!ListTree, C!Finish, SelectShape, Early
<1>3. listed' \subseteq Files /\ status' # "COMPLETE" /\ (stage' = "aliases" /\ reasons' = {} => listed' = Files)
  <2>1. CASE C!Finish({"TREE_UNAVAILABLE"}) /\ UNCHANGED listed
    BY <1>1, <1>2, <2>1 DEF C!Finish, SelectShape, AllThere, Early
  <2>2. CASE ~(C!Finish({"TREE_UNAVAILABLE"}) /\ UNCHANGED listed)
    <3>1. PICK cut \in BOOLEAN :
            /\ IF cut THEN listed' \in SUBSET Files ELSE listed' = Files
            /\ LET why == (IF cut THEN {"TREE_TRUNCATED"} ELSE {})
                          \cup (IF repo.gone \/ ~(repo.changed \subseteq listed') THEN {"MISSING_CHANGED_FILE"} ELSE {})
               IN IF repo.changed \cap listed' = {} THEN C!Finish(why)
                  ELSE reasons' = why /\ stage' = "aliases" /\ UNCHANGED status
      BY <2>2 DEF C!ListTree
    <3>2. listed' \subseteq Files
      BY <3>1
    <3>3. status' # "COMPLETE"
      BY <1>1, <1>2, <3>1 DEF C!Finish, AllThere, Early
    <3>4. ASSUME stage' = "aliases", reasons' = {} PROVE listed' = Files
      <4>1. ~cut
        BY <3>1, <3>4 DEF C!Finish
      <4>2. QED  BY <3>1, <4>1
    <3>5. QED  BY <3>2, <3>3, <3>4
  <2>3. QED  BY <2>1, <2>2
<1>4. SelectShape'
  BY <1>1, <1>2, <1>3 DEF SelectShape, Early
<1>5. Walking' /\ AllThere' /\ Covered' /\ Ranked' /\ AllRead'
  BY <1>2, <1>3 DEF Walking, AllThere, Covered, Ranked, AllRead, NoLoss, Early
<1>6. C!SelectionSound'
  BY <1>2, <1>3 DEF C!SelectionSound, C!NearestFirst, C!NothingMissed
<1>7. QED  BY <1>4, <1>5, <1>6 DEF SelectInv

LEMMA ReadAliasesSelects == ASSUME C!ContextConstants, SelectInv, C!ReadAliases PROVE SelectInv'
<1>1. SelectShape /\ AllThere
  BY DEF SelectInv
<1>2. /\ stage = "aliases" /\ stage' = "index" /\ aliases' \in {"read", "odd", "lost"}
      /\ reasons' = reasons \cup IF aliases' = "odd" THEN {"UNSUPPORTED_RESOLUTION"} ELSE {}
      /\ UNCHANGED <<repo, listed, indexed, hops, line, best, dropped, shown, next, status, tests>>
  BY DEF C!ReadAliases
<1>3. SelectShape'
  BY <1>1, <1>2 DEF SelectShape, Early
<1>4. AllThere'
  BY <1>1, <1>2 DEF AllThere, NoLoss, Early
<1>5. Walking' /\ Covered' /\ Ranked' /\ AllRead'
  BY <1>2 DEF Walking, Covered, Ranked, AllRead
<1>6. C!SelectionSound'
  BY <1>2 DEF C!SelectionSound, C!NearestFirst, C!NothingMissed
<1>7. QED  BY <1>3, <1>4, <1>5, <1>6 DEF SelectInv

LEMMA IndexSelects == ASSUME C!ContextConstants, SelectInv, C!Index PROVE SelectInv'
<1>1. SelectShape /\ AllThere
  BY DEF SelectInv
<1>2. /\ stage = "index" /\ stage' = "walk" /\ indexed' \subseteq listed
      /\ hops' = [f \in C!Changed |-> 0] /\ line' = C!SetToSeq(C!Changed)
      /\ UNCHANGED <<repo, listed, aliases, best, dropped, shown, next, tests>>
  BY DEF C!Index
<1>3. status' = "COMPLETE" /\ reasons' = {} => indexed' = listed /\ reasons = {}
  <2>1. PICK trouble \in {{}, {"CACHE_UNAVAILABLE"}} :
          LET missed == IF indexed' # listed THEN {"FILE_UNAVAILABLE"} ELSE {} IN
          /\ status' = IF missed \cup trouble = {} THEN "COMPLETE" ELSE "PARTIAL"
          /\ reasons' = reasons \cup missed \cup trouble \cup IF C!Unresolved = {} THEN {} ELSE {"UNRESOLVED_IMPORT"}
    BY DEF C!Index
  <2>2. reasons' = {} => indexed' = listed /\ reasons = {}
    BY <2>1
  <2>3. QED  BY <2>2
<1>4. SelectShape'
  <2>1. DOMAIN hops' \subseteq Files
    BY <1>1, <1>2, GraphIs DEF SelectShape
  <2>2. QED  BY <1>1, <1>2, <2>1 DEF SelectShape, Early
<1>5. AllThere'
  BY <1>1, <1>2, <1>3 DEF AllThere, NoLoss, Early
<1>6. Walking'
  <2>1. C!Changed' = C!Changed
    BY <1>2 DEF C!Changed
  <2>2. IsFiniteSet(C!Changed) /\ C!Changed \in SUBSET Files
    <3>1. C!Changed \subseteq Files
      BY <1>1, GraphIs
    <3>2. QED  BY <3>1, SomeFiles
  <2>3. line' \in Seq(C!Changed) /\ O!ToSet(line') = C!Changed
    BY <1>2, <2>2, ListedAll, SameSet
  <2>4. MaxHops \in Nat
    BY DEF C!ContextConstants
  <2>5. WalkOk(C!Edges', C!Changed, hops', line')
    BY <1>2, <2>2, <2>3, <2>4, WalkBegins
  <2>6. WalkOk(C!Edges, C!Changed, hops, line)'
    BY <2>1, <2>5
  <2>7. QED  BY <1>2, <2>6 DEF Walking
<1>7. Covered' /\ Ranked' /\ AllRead'
  BY <1>2 DEF Covered, Ranked, AllRead
<1>8. C!SelectionSound'
  BY <1>2 DEF C!SelectionSound, C!NearestFirst, C!NothingMissed
<1>9. QED  BY <1>4, <1>5, <1>6, <1>7, <1>8 DEF SelectInv

LEMMA WalkSelects == ASSUME C!ContextConstants, SelectInv, C!Walk PROVE SelectInv'
<1>1. SelectShape /\ AllThere /\ Walking
  BY DEF SelectInv
<1>2. /\ stage = "walk" /\ stage' \in {"walk", "match"}
      /\ UNCHANGED <<repo, listed, aliases, indexed, best, dropped, shown, next, reasons, status, tests>>
  BY DEF C!Walk, C!WalkBfs
<1>3. DOMAIN hops' \subseteq Files => SelectShape'
  BY <1>1, <1>2 DEF SelectShape, Early
<1>4. AllThere'
  BY <1>1, <1>2 DEF AllThere, NoLoss, Early
<1>5. Ranked' /\ AllRead'
  BY <1>2 DEF Ranked, AllRead
<1>6. C!NothingMissed'
  BY <1>2 DEF C!NothingMissed
<1>7. WalkOk(C!Edges, C!Changed, hops, line) /\ C!Edges' = C!Edges /\ C!Changed' = C!Changed
  BY <1>1, <1>2, GraphStays DEF Walking
<1>8. CASE line # <<>>
  <2>1. stage' = "walk" /\ C!WalkBfs
    BY <1>2, <1>8 DEF C!Walk
  <2> DEFINE fresh == C!Found(Head(line))
             more  == C!SetToSeq(fresh)
  <2>2. /\ hops' = [g \in DOMAIN hops \cup fresh |-> IF g \in fresh THEN hops[Head(line)] + 1 ELSE hops[g]]
        /\ line' = Tail(line) \o more
    BY <2>1 DEF C!WalkBfs, C!Set
  <2>3. Head(line) \in Files
    BY <1>7, <1>8 DEF WalkOk
  <2>4. fresh = IF hops[Head(line)] < MaxHops THEN {g \in Files : <<Head(line), g>> \in C!Edges} \ DOMAIN hops ELSE {}
    <3>1. C!Neighbours(Head(line)) = {g \in Files : <<Head(line), g>> \in C!Edges}
      BY <1>1, <2>3, GraphIs DEF SelectShape
    <3>2. QED  BY <3>1 DEF C!Found
  <2>5. IsFiniteSet(fresh)
    <3>1. fresh \subseteq Files
      BY <2>4
    <3>2. QED  BY <3>1, SomeFiles
  <2>6. more \in Seq(fresh) /\ O!ToSet(more) = fresh
    BY <2>5, ListedAll, SameSet
  <2>7. MaxHops \in Nat
    BY DEF C!ContextConstants
  <2> HIDE DEF fresh, more
  <2>8. WalkOk(C!Edges, C!Changed, hops', line')
    <3>1. WalkOk(C!Edges, C!Changed, [g \in DOMAIN hops \cup fresh |-> IF g \in fresh THEN hops[Head(line)] + 1 ELSE hops[g]],
                 Tail(line) \o more)
      <4>1. WalkOk(C!Edges, C!Changed, hops, line)
        BY <1>7
      <4>2. QED  BY <1>8, <2>4, <2>6, <2>7, <4>1, WalkStep
    <3>2. QED  BY <2>2, <3>1
  <2>9. WalkOk(C!Edges, C!Changed, hops, line)'
    BY <1>7, <2>8
  <2>10. Walking' /\ Covered' /\ C!NearestFirst'
    BY <2>1, <2>9 DEF Walking, Covered, C!NearestFirst
  <2>11. DOMAIN hops' \subseteq Files
    BY <2>8 DEF WalkOk
  <2>12. QED  BY <1>3, <1>4, <1>5, <1>6, <2>10, <2>11 DEF SelectInv, C!SelectionSound
<1>9. CASE line = <<>>
  <2>1. stage' = "match" /\ hops' = hops /\ line' = line
    BY <1>9 DEF C!Walk
  <2>2. WalkOk(C!Edges, C!Changed, hops, <<>>)
    BY <1>7, <1>9
  <2>3. WalkOk(C!Edges, C!Changed, hops, <<>>)'
    BY <1>7, <2>1, <2>2
  <2>4. Walking'
    BY <2>1, <2>3 DEF Walking
  <2>5. \A n, E : C!Within(n, E)' = C!Within(n, E)
    BY <1>2, GraphStays
  <2>6. C!NearestFirst'
    <3>1. \A n \in 0..MaxHops : {f \in DOMAIN hops : hops[f] <= n} = C!Within(n, C!Edges) \cap listed
      BY <1>1, <2>2, WalkEnds
    <3>2. SUFFICES ASSUME NEW n \in 0..MaxHops
                   PROVE  ({f \in DOMAIN hops : hops[f] <= n} = C!Within(n, C!Edges) \cap listed)'
      BY DEF C!NearestFirst
    <3>3. C!Within(n, C!Edges)' = C!Within(n, C!Edges)
      BY <1>2, GraphStays DEF C!Within
    <3>4. QED  BY <1>2, <2>1, <3>1, <3>3
  <2>7. Covered'
    <3>1. NoLoss' => NoLoss
      BY <1>2 DEF NoLoss
    <3>2. C!Within(MaxHops, C!Imports)' = C!Within(MaxHops, C!Imports)
      BY <1>2, GraphStays DEF C!Within
    <3>3. NoLoss => C!Within(MaxHops, C!Imports) \subseteq DOMAIN hops
      BY <1>1, <2>2, WalkEnds
    <3>4. QED  BY <2>1, <3>1, <3>2, <3>3 DEF Covered
  <2>8. DOMAIN hops' \subseteq Files
    BY <1>1, <2>1 DEF SelectShape
  <2>9. QED  BY <1>3, <1>4, <1>5, <1>6, <2>4, <2>6, <2>7, <2>8 DEF SelectInv, C!SelectionSound
<1>10. QED  BY <1>8, <1>9

LEMMA MatchSelects == ASSUME C!ContextConstants, SelectInv, C!Match PROVE SelectInv'
<1>1. SelectShape /\ AllThere /\ Covered
  BY DEF SelectInv
<1>2. /\ stage = "match" /\ stage' = "rank" /\ DOMAIN hops \subseteq DOMAIN hops'
      /\ UNCHANGED <<repo, listed, aliases, indexed, line, best, dropped, shown, next, reasons, status, tests>>
  BY DEF C!Match
<1>3. SelectShape'
  <2>1. hops' = [g \in DOMAIN hops \cup C!NameMatched |->
                  IF g \in C!NameMatched THEN 1 + C!Min({hops[f] : f \in C!Sources(g)}) ELSE hops[g]]
    BY DEF C!Match
  <2>2. DOMAIN hops' \subseteq Files
    BY <1>1, <2>1 DEF C!NameMatched, C!ContextConstants, SelectShape
  <2>3. QED  BY <1>1, <1>2, <2>2 DEF SelectShape, Early
<1>4. AllThere'
  BY <1>1, <1>2 DEF AllThere, NoLoss, Early
<1>5. Walking' /\ Ranked' /\ AllRead'
  BY <1>2 DEF Walking, Ranked, AllRead
<1>6. Covered'
  <2>1. C!Within(MaxHops, C!Imports)' = C!Within(MaxHops, C!Imports)
    BY <1>2, GraphStays DEF C!Within
  <2>2. QED  BY <1>1, <1>2, <2>1 DEF Covered, NoLoss
<1>7. C!SelectionSound'
  BY <1>2 DEF C!SelectionSound, C!NearestFirst, C!NothingMissed
<1>8. QED  BY <1>3, <1>4, <1>5, <1>6, <1>7 DEF SelectInv

\* What is cut off a list is the rest of it.
LEMMA CutIs ==
    ASSUME NEW Any, NEW s \in Seq(Any), NEW n \in Nat
    PROVE  /\ C!Cut(s, n) \in Seq(Any) /\ SubSeq(s, n + 1, Len(s)) \in Seq(Any)
           /\ O!ToSet(s) \subseteq O!ToSet(C!Cut(s, n)) \cup O!ToSet(SubSeq(s, n + 1, Len(s)))
<1>1. CASE n <= Len(s)
  <2>1. C!Cut(s, n) = SubSeq(s, 1, n)
    BY <1>1 DEF C!Cut
  <2>2. n \in 0..Len(s)
    BY <1>1
  <2>3. QED  BY <2>1, <2>2, SetOfCut
<1>2. CASE ~(n <= Len(s))
  <2>1. C!Cut(s, n) = s
    BY <1>2 DEF C!Cut
  <2>2. SubSeq(s, n + 1, Len(s)) = <<>>
    BY <1>2
  <2>3. QED  BY <2>1, <2>2
<1>3. QED  BY <1>1, <1>2

LEMMA RankSelects == ASSUME C!ContextConstants, SelectInv, C!RankCandidates PROVE SelectInv'
<1>1. SelectShape /\ AllThere /\ Covered
  BY DEF SelectInv
<1>2. /\ stage = "rank" /\ stage' = "read" /\ next = 0
      /\ UNCHANGED <<repo, listed, aliases, indexed, hops, line, shown, next, reasons, status, tests>>
  BY <1>1 DEF C!RankCandidates, SelectShape
<1> DEFINE D == DOMAIN hops \ C!Changed
<1>3. PICK order \in C!Orders(D) :
         best' = C!Cut(order, MaxFiles) /\ dropped' = SubSeq(order, MaxFiles + 1, Len(order))
  <2>1. \A F : DOMAIN [f \in D |-> C!Rank(f)] = D
    OBVIOUS
  <2>2. QED  BY <2>1 DEF C!RankCandidates
<1>4. order \in Seq(Files) /\ O!ToSet(order) = D
  <2>1. D \subseteq Files
    BY <1>1 DEF SelectShape
  <2>2. Cardinality(D) \in Nat
    BY <2>1, SomeFiles
  <2>3. order \in [1..Cardinality(D) -> D] /\ C!ToSet(order) = D
    BY SameSize DEF C!Orders
  <2> HIDE DEF D
  <2>4. order \in Seq(D)
    BY <2>2, <2>3
  <2>5. QED  BY <2>1, <2>3, <2>4, SameSet, MoreListed
<1>5. MaxFiles \in Nat
  BY DEF C!ContextConstants
<1>6. /\ best' \in Seq(Files) /\ dropped' \in Seq(Files)
      /\ D \subseteq O!ToSet(best') \cup O!ToSet(dropped')
  BY <1>3, <1>4, <1>5, CutIs
<1>7. SelectShape'
  BY <1>1, <1>2, <1>6 DEF SelectShape, Early
<1>8. AllThere'
  BY <1>1, <1>2 DEF AllThere, NoLoss, Early
<1>9. Covered'
  <2>1. C!Within(MaxHops, C!Imports)' = C!Within(MaxHops, C!Imports)
    BY <1>2, GraphStays DEF C!Within
  <2>2. QED  BY <1>1, <1>2, <2>1 DEF Covered, NoLoss
<1>10. Ranked'
  BY <1>2, <1>6 DEF Ranked, C!Changed
<1>11. Walking' /\ AllRead'
  <2>1. \A i \in 1..Len(best') : ~(i <= next')
    BY <1>2, <1>6
  <2>2. QED  BY <1>2, <2>1 DEF Walking, AllRead
<1>12. C!SelectionSound'
  BY <1>2 DEF C!SelectionSound, C!NearestFirst, C!NothingMissed
<1>13. QED  BY <1>7, <1>8, <1>9, <1>10, <1>11, <1>12 DEF SelectInv

LEMMA ReadContentsSelects == ASSUME C!ContextConstants, SelectInv, C!ReadContents PROVE SelectInv'
<1>1. SelectShape /\ AllThere /\ Covered /\ Ranked /\ AllRead
  BY DEF SelectInv
<1>2. /\ stage = "read" /\ UNCHANGED <<repo, listed, aliases, indexed, hops, line, best, dropped, tests>>
      /\ best \in Seq(Files) /\ Batch \in Nat /\ next \in Nat
  BY <1>1 DEF C!ReadContents, SelectShape, C!ContextConstants
<1>3. C!Within(MaxHops, C!Imports)' = C!Within(MaxHops, C!Imports)
  BY <1>2, GraphStays DEF C!Within
<1>4. CASE C!Finish(reasons) /\ UNCHANGED <<shown, next>> /\ next >= Len(best)
  <2>1. /\ stage' = "done" /\ reasons' = reasons /\ next' = next /\ shown' = shown
        /\ status' = "COMPLETE" => status = "COMPLETE" /\ reasons = {}
    BY <1>4 DEF C!Finish
  <2>2. SelectShape' /\ AllThere' /\ Covered' /\ Ranked' /\ Walking'
    <3>1. SelectShape'
      BY <1>1, <1>2, <2>1 DEF SelectShape, Early
    <3>2. AllThere'
      BY <1>1, <1>2, <2>1 DEF AllThere, NoLoss, Early
    <3>3. Covered'
      BY <1>1, <1>2, <1>3, <2>1 DEF Covered, NoLoss
    <3>4. Ranked' /\ Walking'
      BY <1>1, <1>2, <2>1 DEF Ranked, Walking
    <3>5. QED  BY <3>1, <3>2, <3>3, <3>4
  <2>3. AllRead'
    BY <1>1, <1>2, <1>4, <2>1 DEF AllRead
  <2>4. C!SelectionSound'
    <3>1. SUFFICES ASSUME status' = "COMPLETE", aliases # "lost" PROVE (C!Within(MaxHops, C!Imports) \subseteq repo.changed \cup shown \cup C!ToSet(dropped))'
      BY <1>2, <2>1 DEF C!SelectionSound, C!NearestFirst, C!NothingMissed
    <3>2. C!Within(MaxHops, C!Imports) \subseteq repo.changed \cup O!ToSet(best) \cup O!ToSet(dropped)
      BY <1>1, <1>2, <2>1, <3>1 DEF Covered, NoLoss, Ranked
    <3>3. O!ToSet(best) \subseteq shown
      <4>1. \A i \in 1..Len(best) : best[i] \in shown
        BY <1>1, <1>2, <1>4, <2>1, <3>1 DEF AllRead
      <4>2. QED  BY <1>2, <4>1 DEF O!ToSet
    <3>4. QED  BY <1>2, <1>3, <2>1, <3>2, <3>3, SameSet
  <2>5. QED  BY <2>2, <2>3, <2>4 DEF SelectInv
<1>5. CASE C!Finish(reasons \cup {"CONTENT_UNAVAILABLE"}) /\ UNCHANGED <<shown, next>>
  <2>1. stage' = "done" /\ reasons' # {} /\ next' = next /\ shown' = shown /\ status' # "COMPLETE"
    <3>1. reasons \cup {"CONTENT_UNAVAILABLE"} # {}
      OBVIOUS
    <3>2. QED  BY <1>5, <3>1 DEF C!Finish
  <2>2. SelectShape'
    BY <1>1, <1>2, <2>1 DEF SelectShape, Early
  <2>3. AllThere' /\ Covered' /\ Ranked' /\ Walking' /\ AllRead'
    BY <1>2, <2>1 DEF AllThere, NoLoss, Early, Covered, Ranked, Walking, AllRead
  <2>4. C!SelectionSound'
    BY <1>2, <2>1 DEF C!SelectionSound, C!NearestFirst, C!NothingMissed
  <2>5. QED  BY <2>2, <2>3, <2>4 DEF SelectInv
<1> DEFINE rest  == SubSeq(best, next + 1, Len(best))
           due == C!ToSet(C!Cut(rest, Batch))
<1>6. ASSUME NEW read \in SUBSET due, next < Len(best),
             shown' = shown \cup read, next' = next + Batch,
             reasons' = reasons \cup IF read = due THEN {} ELSE {"CONTENT_UNAVAILABLE"},
             UNCHANGED <<stage, status>>
      PROVE  SelectInv'
  <2>1. SelectShape'
    BY <1>1, <1>2, <1>6 DEF SelectShape, Early
  <2>2. reasons' = {} => reasons = {} /\ read = due
    BY <1>6
  <2>3. AllThere' /\ Walking'
    BY <1>1, <1>2, <1>6, <2>2 DEF AllThere, NoLoss, Early, Walking
  <2>4. Covered' /\ Ranked'
    BY <1>1, <1>2, <1>3, <1>6, <2>2 DEF Covered, Ranked, NoLoss
  <2>5. AllRead'
    <3>1. SUFFICES ASSUME reasons' = {}, NEW i \in 1..Len(best), i <= next + Batch PROVE best[i] \in shown'
      BY <1>2, <1>6 DEF AllRead
    <3>2. CASE i <= next
      BY <1>1, <1>2, <1>6, <2>2, <3>1, <3>2 DEF AllRead
    <3>3. CASE ~(i <= next)
      <4>1. rest \in Seq(Files) /\ Len(rest) = Len(best) - next /\ rest[i - next] = best[i] /\ i - next \in 1..Len(rest)
        BY <1>2, <1>6, <3>1, <3>3
      <4> HIDE DEF rest
      <4>2. /\ C!Cut(rest, Batch) \in Seq(Files) /\ i - next \in 1..Len(C!Cut(rest, Batch))
            /\ C!Cut(rest, Batch)[i - next] = rest[i - next]
        <5>1. CASE Len(rest) < Batch
          BY <4>1, <5>1 DEF C!Cut
        <5>2. CASE ~(Len(rest) < Batch)
          <6>1. C!Cut(rest, Batch) = SubSeq(rest, 1, Batch)
            BY <5>2 DEF C!Cut
          <6>2. i - next \in 1..Batch
            BY <1>2, <3>1, <3>3
          <6>3. QED  BY <1>2, <4>1, <5>2, <6>1, <6>2
        <5>3. QED  BY <5>1, <5>2
      <4>3. best[i] \in due
        BY <4>1, <4>2, SetOf, SameSet
      <4>4. QED  BY <1>6, <2>2, <3>1, <4>3
    <3>4. QED  BY <3>2, <3>3
  <2>6. C!SelectionSound'
    BY <1>2, <1>6 DEF C!SelectionSound, C!NearestFirst, C!NothingMissed
  <2>7. QED  BY <2>1, <2>3, <2>4, <2>5, <2>6 DEF SelectInv
<1>7. QED
  <2>1. CASE next >= Len(best)
    BY <1>4, <2>1 DEF C!ReadContents
  <2>2. CASE ~(next >= Len(best))
    <3>1. next < Len(best)
      BY <1>2, <2>2
    <3>2. \/ C!Finish(reasons \cup {"CONTENT_UNAVAILABLE"}) /\ UNCHANGED <<shown, next>>
          \/ \E read \in SUBSET due :
                 /\ shown' = shown \cup read /\ next' = next + Batch
                 /\ reasons' = reasons \cup IF read = due THEN {} ELSE {"CONTENT_UNAVAILABLE"}
                 /\ UNCHANGED <<stage, status>>
      BY <2>2 DEF C!ReadContents
    <3>3. QED  BY <1>5, <1>6, <3>1, <3>2
  <2>3. QED  BY <2>1, <2>2

-------------------------------------------------------------------------------

\* Of a set of numbers, each but the last few has so many before it.
LEMMA NthIs ==
    ASSUME NEW Any \in SUBSET Nat, IsFiniteSet(Any)
    PROVE  /\ \A i \in Any : Cardinality({j \in Any : j < i}) \in 0..(Cardinality(Any) - 1)
           /\ \A i, j \in Any : i < j => Cardinality({x \in Any : x < i}) < Cardinality({x \in Any : x < j})
           /\ \A k \in 0..(Cardinality(Any) - 1) : \E i \in Any : Cardinality({j \in Any : j < i}) = k
           /\ \A k \in 0..Cardinality(Any) : Cardinality({i \in Any : Cardinality({j \in Any : j < i}) < k}) = k
<1> DEFINE Below(i) == {j \in Any : j < i}
           N == Cardinality(Any)
           F(k) == {i \in Any : Cardinality(Below(i)) < k}
           M == {k \in Nat : k <= N => Cardinality(F(k)) = k}
<1>1. \A k, i : i \in F(k) <=> i \in Any /\ Cardinality(Below(i)) < k
  OBVIOUS
<1>2. \A i, j : j \in Below(i) <=> j \in Any /\ j < i
  OBVIOUS
<1> HIDE DEF Below, F
<1>3. (\A i \in Any : i \in Nat) /\ N \in Nat
  BY FS_CardinalityType
<1>4. ASSUME NEW i \in Any PROVE IsFiniteSet(Below(i)) /\ Cardinality(Below(i)) \in Nat
  <2>1. Below(i) \subseteq Any
    BY <1>2
  <2>2. QED  BY <2>1, FS_Subset, FS_CardinalityType
<1>5. ASSUME NEW i \in Any, NEW j \in Any, i < j PROVE Cardinality(Below(i)) < Cardinality(Below(j))
  <2>1. Below(i) \cup {i} \subseteq Below(j) /\ i \notin Below(i)
    <3>1. i \notin Below(i) /\ i \in Below(j)
      BY <1>2, <1>3, <1>5
    <3>2. ASSUME NEW x \in Below(i) PROVE x \in Below(j)
      <4>1. x \in Any /\ x < i
        BY <1>2, <3>2
      <4>2. x < j
        BY <1>3, <1>5, <4>1
      <4>3. QED  BY <1>2, <4>1, <4>2
    <3>3. QED  BY <3>1, <3>2
  <2>2. Cardinality(Below(i) \cup {i}) = Cardinality(Below(i)) + 1
    BY <1>4, <2>1, FS_AddElement
  <2>3. Cardinality(Below(i) \cup {i}) <= Cardinality(Below(j))
    BY <1>4, <2>1, FS_Subset
  <2>4. QED  BY <1>4, <2>2, <2>3
<1>6. ASSUME NEW i \in Any PROVE Cardinality(Below(i)) \in 0..(N - 1)
  <2>1. Below(i) \subseteq Any /\ Below(i) \cup {i} \subseteq Any /\ i \notin Below(i)
    BY <1>2, <1>3
  <2>2. Cardinality(Below(i) \cup {i}) = Cardinality(Below(i)) + 1
    BY <1>4, <2>1, FS_AddElement
  <2>3. Cardinality(Below(i) \cup {i}) <= N
    BY <2>1, FS_Subset
  <2>4. QED  BY <1>3, <1>4, <2>2, <2>3
<1>7. ASSUME NEW k \in Nat, k < N, Cardinality(F(k)) = k
      PROVE  \E m \in Any : m \notin F(k) /\ Below(m) = F(k) /\ F(k + 1) = F(k) \cup {m}
  <2> DEFINE Rest == Any \ F(k)
  <2>1. F(k) \subseteq Any /\ IsFiniteSet(F(k))
    <3>1. F(k) \subseteq Any
      BY <1>1
    <3>2. QED  BY <3>1, FS_Subset
  <2>2. Rest # {}
    <3>1. SUFFICES ASSUME Rest = {} PROVE FALSE
      OBVIOUS
    <3>2. F(k) = Any
      BY <2>1, <3>1
    <3>3. QED  BY <1>3, <1>7, <3>2
  <2>3. Rest \subseteq Nat
    BY <1>3
  <2>4. PICK m \in Rest : \A r \in Rest : m <= r
    BY <2>2, <2>3, LeastOf
  <2>5. m \in Any /\ m \notin F(k) /\ ~(Cardinality(Below(m)) < k)
    BY <1>1, <2>4
  <2>6. Below(m) = F(k)
    <3>1. ASSUME NEW i \in F(k) PROVE i \in Below(m)
      <4>1. i \in Any /\ Cardinality(Below(i)) < k
        BY <1>1, <3>1
      <4>2. i # m /\ ~(m < i)
        <5>1. m < i => Cardinality(Below(m)) < Cardinality(Below(i))
          BY <1>5, <2>5, <4>1
        <5>2. QED  BY <1>4, <2>5, <3>1, <4>1, <5>1
      <4>3. QED  BY <1>2, <1>3, <2>5, <4>1, <4>2
    <3>2. ASSUME NEW i \in Below(m) PROVE i \in F(k)
      <4>1. i \in Any /\ i < m
        BY <1>2, <3>2
      <4>2. ~(m <= i)
        BY <1>3, <2>5, <4>1
      <4>3. QED  BY <2>4, <4>1, <4>2
    <3>3. QED  BY <3>1, <3>2
  <2>7. F(k + 1) = F(k) \cup {m}
    <3>1. ASSUME NEW i \in F(k) PROVE i \in F(k + 1)
      <4>1. i \in Any /\ Cardinality(Below(i)) < k /\ Cardinality(Below(i)) \in Nat
        BY <1>1, <1>4, <3>1
      <4>2. Cardinality(Below(i)) < k + 1
        BY <4>1
      <4>3. QED  BY <1>1, <4>1, <4>2
    <3>2. m \in F(k + 1)
      BY <1>1, <1>7, <2>5, <2>6
    <3>3. ASSUME NEW i \in F(k + 1), i \notin F(k) PROVE i = m
      <4>1. i \in Any /\ Cardinality(Below(i)) < k + 1 /\ i \in Rest /\ Cardinality(Below(m)) = k
        BY <1>1, <1>7, <2>6, <3>3
      <4>2. m <= i
        BY <2>4, <4>1
      <4>3. ~(m < i)
        <5>1. SUFFICES ASSUME m < i PROVE FALSE
          OBVIOUS
        <5>2. Cardinality(Below(m)) < Cardinality(Below(i))
          BY <1>5, <2>5, <4>1, <5>1
        <5>3. QED  BY <1>4, <4>1, <5>2
      <4>4. QED  BY <1>3, <2>5, <4>1, <4>2, <4>3
    <3>4. QED  BY <3>1, <3>2, <3>3
  <2>8. QED  BY <2>5, <2>6, <2>7
<1>8. 0 \in M
  <2>1. F(0) = {}
    <3>1. SUFFICES ASSUME NEW i \in F(0) PROVE FALSE
      OBVIOUS
    <3>2. i \in Any /\ Cardinality(Below(i)) < 0
      BY <1>1, <3>1
    <3>3. QED  BY <1>4, <3>2
  <2>2. QED  BY <2>1, FS_EmptySet
<1>9. ASSUME NEW k \in Nat, k \in M PROVE k + 1 \in M
  <2>1. SUFFICES ASSUME k + 1 <= N PROVE Cardinality(F(k + 1)) = k + 1
    OBVIOUS
  <2>2. k < N /\ Cardinality(F(k)) = k
    BY <1>3, <1>9, <2>1
  <2>3. PICK m \in Any : m \notin F(k) /\ F(k + 1) = F(k) \cup {m}
    BY <1>7, <2>2
  <2>4. IsFiniteSet(F(k))
    <3>1. F(k) \subseteq Any
      BY <1>1
    <3>2. QED  BY <3>1, FS_Subset
  <2>5. QED  BY <2>2, <2>3, <2>4, FS_AddElement
<1> HIDE DEF M
<1>10. Nat \subseteq M
  BY <1>8, <1>9, AllNumbers
<1>11. ASSUME NEW k \in 0..(N - 1) PROVE \E i \in Any : Cardinality(Below(i)) = k
  <2>1. k \in Nat /\ k < N /\ k \in M
    BY <1>3, <1>10
  <2>2. Cardinality(F(k)) = k
    BY <1>3, <2>1 DEF M
  <2>3. QED  BY <1>7, <2>1, <2>2
<1>12. ASSUME NEW k \in 0..N PROVE Cardinality(F(k)) = k
  <2>1. k \in Nat /\ k <= N /\ k \in M
    BY <1>3, <1>10
  <2>2. QED  BY <2>1 DEF M
<1>13. \A k \in 0..N : Cardinality({i \in Any : Cardinality({j \in Any : j < i}) < k}) = k
  BY <1>12 DEF F, Below
<1>14. QED  BY <1>5, <1>6, <1>11, <1>13 DEF Below

\* Of the first n of a set, some are left out only if there are n.
LEMMA FirstAre ==
    ASSUME NEW Any \in SUBSET Nat, IsFiniteSet(Any), NEW n \in Nat, NEW t \in Any, t \notin C!First(n, Any)
    PROVE  Cardinality(C!First(n, Any)) = n
<1> DEFINE Below(i) == Cardinality({j \in Any : j < i})
<1>1. C!First(n, Any) = {i \in Any : Below(i) < n}
  BY SameSize DEF C!First
<1>2. Below(t) \in 0..(Cardinality(Any) - 1) /\ Cardinality(Any) \in Nat
  BY NthIs, FS_CardinalityType
<1>3. ~(Below(t) < n)
  BY <1>1
<1>4. n \in 0..Cardinality(Any)
  <2> HIDE DEF Below
  <2>1. QED  BY <1>2, <1>3
<1>5. Cardinality({i \in Any : Below(i) < n}) = n
  BY <1>4, NthIs
<1>6. QED  BY <1>1, <1>5

LEMMA CollectSelects == ASSUME C!ContextConstants, SelectInv, C!CollectTests PROVE SelectInv'
<1>1. SelectShape /\ AllThere
  BY DEF SelectInv
<1>2. /\ stage = "done" /\ stage' = "tests" /\ tests = C!NoTests
      /\ UNCHANGED <<repo, listed, aliases, indexed, hops, line, best, dropped, shown, next, reasons, status>>
  BY <1>1 DEF C!CollectTests, SelectShape
<1>3. SelectShape'
  BY <1>1, <1>2 DEF SelectShape, Early
<1>4. AllThere' /\ Walking' /\ Covered' /\ Ranked' /\ AllRead'
  BY <1>1, <1>2 DEF AllThere, NoLoss, Early, Walking, Covered, Ranked, AllRead
<1>5. C!NothingMissed'
  <2>1. PICK missing \in BOOLEAN, cut \in BOOLEAN : \E paths \in IF missing THEN {{}} ELSE IF cut THEN SUBSET Files ELSE {Files} :
         LET sources == C!First(MaxSources, repo.changed \ Tests)
             related == C!First(MaxRelated, {t \in paths \ repo.changed : \E f \in sources : C!Contains(Related(f), t)})
         IN \E read \in SUBSET (sources \cup related) :
              tests' = IF sources = {} THEN tests
                       ELSE [sources |-> sources, related |-> related, shown |-> read,
                             partial |-> cut \/ C!Missed(missing, sources \cup related, read)]
    BY DEF C!CollectTests
  <2>2. PICK paths \in IF missing THEN {{}} ELSE IF cut THEN SUBSET Files ELSE {Files} :
         LET sources == C!First(MaxSources, repo.changed \ Tests)
             related == C!First(MaxRelated, {t \in paths \ repo.changed : \E f \in sources : C!Contains(Related(f), t)})
         IN \E read \in SUBSET (sources \cup related) :
              tests' = IF sources = {} THEN tests
                       ELSE [sources |-> sources, related |-> related, shown |-> read,
                             partial |-> cut \/ C!Missed(missing, sources \cup related, read)]
    BY <2>1
  <2> DEFINE sources == C!First(MaxSources, repo.changed \ Tests)
             them    == {t \in paths \ repo.changed : \E f \in sources : C!Contains(Related(f), t)}
             related == C!First(MaxRelated, them)
  <2>3. PICK read \in SUBSET (sources \cup related) :
              tests' = IF sources = {} THEN tests
                       ELSE [sources |-> sources, related |-> related, shown |-> read,
                             partial |-> cut \/ C!Missed(missing, sources \cup related, read)]
    BY <2>2
  <2>4. SUFFICES ASSUME ~tests'.partial, NEW f \in tests'.sources, NEW t \in C!ToSet(Related(f)) \ repo.changed
                 PROVE  t \in tests'.shown \/ C!Cardinality(tests'.related) = MaxRelated
    BY <1>2 DEF C!NothingMissed
  <2>5. CASE sources = {}
    BY <1>2, <2>3, <2>4, <2>5 DEF C!NoTests
  <2>6. CASE sources # {}
    <3>1. /\ tests'.sources = sources /\ tests'.related = related /\ tests'.shown = read
          /\ ~cut /\ ~missing /\ read = sources \cup related
      BY <2>3, <2>4, <2>6 DEF C!Missed
    <3>2. paths = Files
      BY <3>1
    <3>3. f \in Files /\ t \in Files /\ C!Contains(Related(f), t)
      <4>1. f \in repo.changed /\ f \in Files
        BY <1>1, <2>4, <3>1 DEF C!First, SelectShape, C!ContextConstants
      <4>2. Related(f) \in Seq(Files)
        BY <4>1 DEF C!ContextConstants
      <4>3. PICK i \in 1..Len(Related(f)) : Related(f)[i] = t
        BY <2>4, <4>2 DEF C!ToSet
      <4>4. QED  BY <4>1, <4>2, <4>3 DEF C!Contains
    <3>4. t \in them
      BY <2>4, <3>1, <3>2, <3>3
    <3>5. them \in SUBSET Nat /\ IsFiniteSet(them) /\ MaxRelated \in Nat
      <4>1. them \subseteq Files
        BY <3>2
      <4> HIDE DEF them
      <4>2. IsFiniteSet(them)
        BY <4>1, SomeFiles
      <4>3. QED  BY <4>1, <4>2 DEF C!ContextConstants
    <3> HIDE DEF them
    <3>6. t \notin related => Cardinality(related) = MaxRelated
      BY <3>4, <3>5, FirstAre
    <3>7. QED  BY <3>1, <3>6, SameSize
  <2>7. QED  BY <2>5, <2>6
<1>6. C!NearestFirst'
  BY <1>2 DEF C!NearestFirst
<1>7. QED  BY <1>3, <1>4, <1>5, <1>6 DEF SelectInv, C!SelectionSound

LEMMA SelectHolds == C!ContextConstants => (C!Spec => []SelectInv)
<1>1. ASSUME C!ContextConstants, SelectInv, [C!Next]_C!vars PROVE SelectInv'
  <2>1. CASE UNCHANGED C!vars
    <3>1. UNCHANGED <<repo, listed, aliases, indexed, hops, line, best, dropped, shown, next, reasons, stage, status, tests>>
      BY <2>1 DEF C!vars
    <3>2. C!Within(MaxHops, C!Imports)' = C!Within(MaxHops, C!Imports) /\ C!Edges' = C!Edges /\ C!Changed' = C!Changed
      BY <3>1, GraphStays DEF C!Within
    <3>3. \A n : C!Within(n, C!Edges)' = C!Within(n, C!Edges)
      BY <3>1, <3>2 DEF C!Within
    <3>4. SelectShape' /\ AllThere' /\ Ranked' /\ AllRead'
      BY <1>1, <3>1 DEF SelectInv, SelectShape, AllThere, NoLoss, Ranked, AllRead
    <3>5. Walking' /\ Covered'
      BY <1>1, <3>1, <3>2 DEF SelectInv, Walking, Covered, NoLoss
    <3>6. C!SelectionSound'
      BY <1>1, <3>1, <3>2, <3>3 DEF SelectInv, C!SelectionSound, C!NearestFirst, C!NothingMissed
    <3>7. QED  BY <3>4, <3>5, <3>6 DEF SelectInv
  <2>2. CASE C!Next
    BY <1>1, <2>2, ListTreeSelects, ReadAliasesSelects, IndexSelects, WalkSelects, MatchSelects, RankSelects,
       ReadContentsSelects, CollectSelects DEF C!Next
  <2>3. QED  BY <1>1, <2>1, <2>2
<1>2. SUFFICES ASSUME C!ContextConstants PROVE C!Spec => []SelectInv
  OBVIOUS
<1>3. SelectInv /\ [C!Next]_C!vars => SelectInv'
  BY <1>1, <1>2
<1>4. QED  BY <1>3, SelectBegins, PTL DEF C!Spec

\* What a review is shown beside its diff is the nearest there is, for any repository and limits:
\* the walk finds every file at its shortest distance to the change, and what is called complete
\* leaves nothing out in silence (context-retrieval.service.ts, context-builder.ts).
THEOREM SelectionsAreSound == C!ContextConstants => (C!Spec => [](C!SelectionSound /\ SelectionSound))
<1>1. SelectInv => C!SelectionSound
  BY DEF SelectInv
<1>2. C!SelectionSound => SelectionSound
  BY DEF SelectionSound
<1>3. QED  BY <1>1, <1>2, SelectHolds, PTL

-------------------------------------------------------------------------------
(* Reading a diff *)

LEMMA SameCount == \A s : L!Cardinality(s) = Cardinality(s)
BY DEF L!Cardinality, Cardinality

\* Numbers up to a limit are finitely many.
LEMMA FiniteIn == ASSUME NEW n \in Nat, NEW Any \in SUBSET (1..n)
                  PROVE  Any \in SUBSET Nat /\ IsFiniteSet(Any) /\ Cardinality(Any) \in Nat
<1>1. IsFiniteSet(1..n)
  BY FS_Interval
<1>2. IsFiniteSet(Any)
  BY <1>1, FS_Subset
<1>3. Cardinality(Any) \in Nat
  BY <1>2, FS_CardinalityType
<1>4. QED  BY <1>2, <1>3

\* Lines that are picked keep their order, and those that follow one another still do.
LEMMA PickIs ==
    ASSUME NEW Any \in SUBSET Nat, IsFiniteSet(Any)
    PROVE  \E p \in [1..Cardinality(Any) -> Any] :
              /\ \A i \in Any : \E k \in 1..Cardinality(Any) : p[k] = i
              /\ \A k \in 1..Cardinality(Any) : p[k] - 1 \in Any => k - 1 \in 1..Cardinality(Any) /\ p[k - 1] = p[k] - 1
              /\ \A d : L!Pick(d, Any) = [k \in 1..Cardinality(Any) |-> d[p[k]]]
<1> DEFINE Below(i) == Cardinality({j \in Any : j < i})
           N == Cardinality(Any)
           p == [k \in 1..L!Cardinality(Any) |-> CHOOSE i \in Any : L!Cardinality({j \in Any : j < i}) = k - 1]
<1>1. \A d : L!Pick(d, Any) = [k \in 1..L!Cardinality(Any) |-> d[p[k]]]
  BY DEF L!Pick
<1>2. 1..L!Cardinality(Any) = 1..N /\ \A i : L!Cardinality({j \in Any : j < i}) = Below(i)
  BY SameCount
<1>3. N \in Nat /\ \A i \in Any : i \in Nat
  BY FS_CardinalityType
<1>4. /\ \A i \in Any : Below(i) \in 0..(N - 1)
      /\ \A i, j \in Any : i < j => Below(i) < Below(j)
      /\ \A k \in 0..(N - 1) : \E i \in Any : Below(i) = k
  BY NthIs
<1> HIDE DEF Below, N
<1>5. ASSUME NEW k \in 1..N PROVE p[k] \in Any /\ Below(p[k]) = k - 1
  <2>1. k - 1 \in 0..(N - 1)
    BY <1>3
  <2>2. \E i \in Any : Below(i) = k - 1
    BY <1>4, <2>1
  <2>3. p[k] = CHOOSE i \in Any : L!Cardinality({j \in Any : j < i}) = k - 1
    BY <1>2
  <2> HIDE DEF p
  <2>4. \E i \in Any : L!Cardinality({j \in Any : j < i}) = k - 1
    BY <1>2, <2>2
  <2>5. p[k] \in Any /\ L!Cardinality({j \in Any : j < p[k]}) = k - 1
    BY <2>3, <2>4
  <2>6. QED  BY <1>2, <2>5
<1>6. p \in [1..N -> Any]
  <2>1. DOMAIN p = 1..N /\ p = [k \in DOMAIN p |-> p[k]]
    BY <1>2
  <2> HIDE DEF p
  <2>2. QED  BY <1>5, <2>1
<1> HIDE DEF p
<1>7. ASSUME NEW i \in Any, NEW j \in Any, Below(i) = Below(j) PROVE i = j
  <2>1. ~(i < j) /\ ~(j < i)
    <3>1. Below(i) \in Nat /\ Below(j) \in Nat
      BY <1>3, <1>4
    <3>2. QED  BY <1>4, <1>7, <3>1
  <2>2. i \in Nat /\ j \in Nat
    BY <1>3
  <2>3. QED  BY <2>1, <2>2
<1>8. ASSUME NEW i \in Any PROVE \E k \in 1..N : p[k] = i
  <2>1. Below(i) \in 0..(N - 1)
    BY <1>4
  <2>2. Below(i) + 1 \in 1..N /\ (Below(i) + 1) - 1 = Below(i)
    BY <1>3, <2>1
  <2>3. p[Below(i) + 1] \in Any /\ Below(p[Below(i) + 1]) = Below(i)
    BY <1>5, <2>2
  <2>4. p[Below(i) + 1] = i
    BY <1>7, <2>3
  <2>5. QED  BY <2>2, <2>4
<1>9. ASSUME NEW k \in 1..N, p[k] - 1 \in Any PROVE k - 1 \in 1..N /\ p[k - 1] = p[k] - 1
  <2> DEFINE i == p[k]
             h == p[k] - 1
  <2>1. i \in Any /\ i \in Nat /\ h \in Any /\ h \in Nat /\ h = i - 1 /\ Below(i) = k - 1 /\ k \in Nat
    <3>1. i \in Any /\ Below(i) = k - 1
      BY <1>5, <1>9
    <3>2. h \in Any /\ h = i - 1
      BY <1>9
    <3>3. i \in Nat /\ h \in Nat
      BY <1>3, <3>1, <3>2
    <3>4. k \in Nat
      BY <1>3, <1>9
    <3>5. QED  BY <3>1, <3>2, <3>3, <3>4
  <2> HIDE DEF i, h
  <2>2. Below(h) < k - 1 /\ Below(h) \in Nat
    <3>1. h < i
      BY <2>1
    <3>2. Below(h) < Below(i)
      BY <1>4, <2>1, <3>1
    <3>3. Below(h) \in Nat
      BY <1>3, <1>4, <2>1
    <3>4. QED  BY <2>1, <3>2, <3>3
  <2>3. k - 1 \in 1..N /\ (k - 1) - 1 = k - 2
    BY <1>3, <2>1, <2>2
  <2>4. p[k - 1] \in Any /\ p[k - 1] \in Nat /\ Below(p[k - 1]) = k - 2
    BY <1>3, <1>5, <2>3
  <2>5. ~(p[k - 1] < h)
    <3>1. p[k - 1] < h => Below(p[k - 1]) < Below(h)
      BY <1>4, <2>1, <2>4
    <3>2. QED  BY <2>1, <2>2, <2>4, <3>1
  <2>6. ~(i < p[k - 1]) /\ p[k - 1] # i
    <3>1. i < p[k - 1] => Below(i) < Below(p[k - 1])
      BY <1>4, <2>1, <2>4
    <3>2. QED  BY <2>1, <2>4, <3>1
  <2>7. p[k - 1] = h
    BY <2>1, <2>4, <2>5, <2>6
  <2>8. QED  BY <2>3, <2>7 DEF h
<1>10. \A d : L!Pick(d, Any) = [k \in 1..N |-> d[p[k]]]
  BY <1>1, <1>2
<1>11. QED  BY <1>6, <1>8, <1>9, <1>10 DEF N

\* A diff is well formed when every line but the head of a file fits to the one before it, and nx
\* says which number is next after a line.
Told == {"context", "added", "removed", "mark"}   \* the kinds of lines in a hunk
FitsTo(z, last, v, was) ==
    /\ z.file = last.file
    /\ \/ z.kind = "minus" /\ last.kind = "git"
       \/ z.kind = "plus" /\ last.kind = "minus"
       \/ z.kind = "hunk" /\ last.kind \notin {"git", "minus"} /\ v = z.at
       \/ /\ z.kind \in Told /\ last.kind \notin {"git", "minus", "plus"}
          /\ v = was + (IF z.kind \in {"context", "added"} THEN 1 ELSE 0)
          /\ z.kind = "added" => z.at = was
Fits(d, nx, i) == i - 1 \in DOMAIN d /\ FitsTo(d[i], d[i - 1], nx[i], nx[i - 1])
Formed(d, nx) == /\ (\E n \in Nat : DOMAIN d = 1..n) /\ nx \in [DOMAIN d -> Nat]
                 /\ \A i \in DOMAIN d : d[i].kind = "git" \/ Fits(d, nx, i)

\* What is true of the first line of a file, and after every line of its next, is true of all.
LEMMA AllLines ==
    ASSUME NEW d, \A i \in DOMAIN d : i \in Nat \ {0}, NEW M,
           \A i \in DOMAIN d : i \in M \/ (i - 1 \in DOMAIN d /\ (i - 1 \in M => i \in M))
    PROVE  DOMAIN d \subseteq M
<1>1. SUFFICES ASSUME DOMAIN d \ M # {} PROVE FALSE
  OBVIOUS
<1>2. DOMAIN d \ M \subseteq Nat
  OBVIOUS
<1>3. PICK k \in DOMAIN d \ M : \A m \in DOMAIN d \ M : k <= m
  BY <1>1, <1>2, LeastOf
<1>4. k \in Nat /\ k - 1 \in DOMAIN d /\ k - 1 \notin M
  BY <1>3
<1>5. k <= k - 1
  BY <1>3, <1>4
<1>6. QED  BY <1>4, <1>5

\* The chunk of a line begins at the head of its file.
LEMMA ChunkIs ==
    ASSUME NEW d, NEW nx, Formed(d, nx), \A i \in DOMAIN d : d[i].file \notin Odd, NEW i \in DOMAIN d
    PROVE  /\ L!Chunk(d, i) \in DOMAIN d /\ L!Chunk(d, i) <= i /\ d[L!Chunk(d, i)].kind = "git"
           /\ d[L!Chunk(d, i)].file = d[i].file
           /\ \A j \in DOMAIN d : L!Chunk(d, i) < j /\ j <= i => d[j].kind # "git"
<1> DEFINE M == {k \in DOMAIN d : \E h \in DOMAIN d : /\ h <= k /\ d[h].kind = "git" /\ d[h].file = d[k].file
                                                     /\ \A j \in DOMAIN d : h < j /\ j <= k => d[j].kind # "git"}
<1>1. \A k \in DOMAIN d : k \in Nat \ {0}
  BY DEF Formed
<1>2. ASSUME NEW k \in DOMAIN d PROVE k \in M \/ (k - 1 \in DOMAIN d /\ (k - 1 \in M => k \in M))
  <2>1. CASE d[k].kind = "git"
    <3>1. \A j \in DOMAIN d : ~(k < j /\ j <= k)
      BY <1>1
    <3>2. k <= k
      BY <1>1
    <3>3. QED  BY <2>1, <3>1, <3>2
  <2>2. CASE d[k].kind # "git"
    <3>1. k - 1 \in DOMAIN d /\ d[k].file = d[k - 1].file
      BY <2>2 DEF Formed, Fits, FitsTo
    <3>2. ASSUME k - 1 \in M PROVE k \in M
      <4>1. PICK h \in DOMAIN d : /\ h <= k - 1 /\ d[h].kind = "git" /\ d[h].file = d[k - 1].file
                                  /\ \A j \in DOMAIN d : h < j /\ j <= k - 1 => d[j].kind # "git"
        BY <3>2
      <4>2. h <= k
        BY <1>1, <4>1
      <4>3. ASSUME NEW j \in DOMAIN d, h < j, j <= k PROVE d[j].kind # "git"
        <5>1. j = k \/ j <= k - 1
          BY <1>1, <4>3
        <5>2. QED  BY <2>2, <4>1, <4>3, <5>1
      <4>4. QED  BY <3>1, <4>1, <4>2, <4>3
    <3>3. QED  BY <3>1, <3>2
  <2>3. QED  BY <2>1, <2>2
<1>3. i \in M
  <2> HIDE DEF M
  <2>1. QED  BY <1>1, <1>2, AllLines
<1>4. PICK h \in DOMAIN d : /\ h <= i /\ d[h].kind = "git" /\ d[h].file = d[i].file
                            /\ \A j \in DOMAIN d : h < j /\ j <= i => d[j].kind # "git"
  BY <1>3
<1> DEFINE heads == {x \in L!Heads(d) : x <= i}
<1>5. \A x : x \in heads <=> x \in DOMAIN d /\ d[x].kind = "git" /\ x <= i
  BY DEF L!Heads
<1> HIDE DEF heads
<1>6. h \in heads /\ \A x \in heads : h >= x
  <2>1. h \in heads
    BY <1>4, <1>5
  <2>2. ASSUME NEW x \in heads PROVE h >= x
    <3>1. x \in DOMAIN d /\ x \in Nat /\ h \in Nat /\ d[x].kind = "git" /\ x <= i
      BY <1>1, <1>5
    <3>2. ~(h < x)
      BY <1>4, <3>1
    <3>3. QED  BY <3>1, <3>2
  <2>3. QED  BY <2>1, <2>2
<1>7. \A x \in heads : (\A y \in heads : x >= y) => x = h
  <2>1. \A x \in heads : x \in Nat
    BY <1>1, <1>5
  <2>2. QED  BY <1>6, <2>1
<1>8. L!Max(heads) = h
  BY <1>6, <1>7 DEF L!Max
<1>9. L!Chunk(d, i) = h
  <2>1. heads # {}
    BY <1>6
  <2>2. L!Chunk(d, i) = IF heads = {} THEN 0 ELSE L!Max(heads)
    BY DEF L!Chunk, heads
  <2>3. QED  BY <1>8, <2>1, <2>2
<1>10. QED  BY <1>4, <1>9

\* So a line is given its own file.
LEMMA NameIs ==
    ASSUME NEW d, NEW nx, Formed(d, nx), \A i \in DOMAIN d : d[i].file \notin Odd
    PROVE  L!InChunk(d) = DOMAIN d /\ \A i \in DOMAIN d : L!Name(d, i) = d[i].file
<1>1. ASSUME NEW i \in DOMAIN d PROVE i \in L!InChunk(d) /\ L!Name(d, i) = d[i].file
  <2>1. L!Chunk(d, i) \in DOMAIN d /\ d[L!Chunk(d, i)].kind = "git" /\ d[L!Chunk(d, i)].file = d[i].file
    BY ChunkIs
  <2>2. L!Chunk(d, i) \in L!Heads(d) /\ L!Chunk(d, i) # 0
    BY <2>1 DEF L!Heads, Formed
  <2>3. QED  BY <2>1, <2>2 DEF L!InChunk, L!Name
<1>2. L!InChunk(d) \subseteq DOMAIN d
  BY DEF L!InChunk
<1>3. QED  BY <1>1, <1>2

\* A line in a hunk is given the number that comes next.
LEMMA NumberIs ==
    ASSUME NEW d, NEW nx, Formed(d, nx), \A i \in DOMAIN d : d[i].file \notin Odd, NEW i \in DOMAIN d, d[i].kind \in Told
    PROVE  L!Hunk(d, i) # 0 /\ i - 1 \in DOMAIN d /\ L!Number(d, i) = nx[i - 1]
<1> DEFINE Counted(h, k) == {j \in (h + 1)..k : d[j].kind \notin {"removed", "minus", "mark"}}
           From(h, k) == /\ h <= k /\ d[h].kind = "hunk" /\ \A j \in DOMAIN d : h < j /\ j <= k => d[j].kind \in Told
                         /\ nx[k] = d[h].at + Cardinality(Counted(h, k))
           M == {k \in DOMAIN d : d[k].kind \in {"hunk"} \cup Told => \E h \in DOMAIN d : From(h, k)}
<1>1. PICK n \in Nat : DOMAIN d = 1..n
  BY DEF Formed
<1>2. /\ \A k \in DOMAIN d : k \in Nat \ {0} /\ nx[k] \in Nat
      /\ \A k \in DOMAIN d : d[k].kind = "git" \/ Fits(d, nx, k)
  BY <1>1 DEF Formed
<1>3. \A h, k, j : j \in Counted(h, k) <=> j \in (h + 1)..k /\ d[j].kind \notin {"removed", "minus", "mark"}
  OBVIOUS
<1> HIDE DEF Counted
<1>4. ASSUME NEW h \in DOMAIN d, NEW k \in DOMAIN d PROVE IsFiniteSet(Counted(h, k)) /\ Cardinality(Counted(h, k)) \in Nat
  <2>1. Counted(h, k) \subseteq (h + 1)..k
    BY <1>3
  <2>2. IsFiniteSet((h + 1)..k)
    BY <1>2, FS_Interval
  <2>3. QED  BY <2>1, <2>2, FS_Subset, FS_CardinalityType
<1>5. ASSUME NEW k \in DOMAIN d PROVE k \in M \/ (k - 1 \in DOMAIN d /\ (k - 1 \in M => k \in M))
  <2>1. CASE d[k].kind = "hunk"
    <3>1. Counted(k, k) = {}
      <4>1. SUFFICES ASSUME NEW j \in Counted(k, k) PROVE FALSE
        OBVIOUS
      <4>2. j \in (k + 1)..k /\ k \in Nat
        BY <1>2, <1>3, <4>1
      <4>3. QED  BY <4>2
    <3>2. Cardinality(Counted(k, k)) = 0
      BY <3>1, FS_EmptySet
    <3>3. nx[k] = d[k].at /\ nx[k] \in Nat
      BY <1>2, <2>1 DEF Fits, FitsTo, Told
    <3>4. k <= k /\ \A j \in DOMAIN d : ~(k < j /\ j <= k)
      BY <1>2
    <3>5. From(k, k)
      BY <2>1, <3>2, <3>3, <3>4
    <3> HIDE DEF From
    <3>6. QED  BY <3>5
  <2>2. CASE d[k].kind \in Told
    <3>1. /\ k - 1 \in DOMAIN d /\ d[k - 1].kind \notin {"git", "minus", "plus"}
          /\ nx[k] = nx[k - 1] + (IF d[k].kind \in {"context", "added"} THEN 1 ELSE 0)
      BY <1>2, <2>2 DEF Fits, FitsTo, Told
    <3>2. d[k - 1].kind \in {"hunk"} \cup Told
      BY <1>2, <3>1 DEF Fits, FitsTo
    <3>3. ASSUME k - 1 \in M PROVE k \in M
      <4>1. PICK h \in DOMAIN d : From(h, k - 1)
        BY <3>2, <3>3
      <4>2. h \in Nat /\ k \in Nat /\ h <= k - 1 /\ k - 1 \in Nat
        BY <1>2, <3>1, <4>1
      <4>3. k \notin Counted(h, k - 1)
        BY <1>3, <4>2
      <4>4. \A j : j \in (h + 1)..k <=> j \in (h + 1)..(k - 1) \/ j = k
        BY <4>2
      <4>5. nx[k] = d[h].at + Cardinality(Counted(h, k))
        <5>1. CASE d[k].kind \in {"context", "added"}
          <6>1. Counted(h, k) = Counted(h, k - 1) \cup {k}
            BY <1>3, <4>4, <5>1
          <6>2. Cardinality(Counted(h, k)) = Cardinality(Counted(h, k - 1)) + 1 /\ Cardinality(Counted(h, k - 1)) \in Nat
            BY <1>4, <3>1, <4>3, <6>1, FS_AddElement
          <6>3. nx[k] = nx[k - 1] + 1 /\ nx[k - 1] = d[h].at + Cardinality(Counted(h, k - 1))
            BY <3>1, <4>1, <5>1
          <6>4. d[h].at \in Nat
            BY <1>2, <4>1 DEF Fits, FitsTo, Told
          <6>5. QED  BY <6>2, <6>3, <6>4
        <5>2. CASE d[k].kind \notin {"context", "added"}
          <6>1. d[k].kind \in {"removed", "mark"}
            BY <2>2, <5>2 DEF Told
          <6>2. Counted(h, k) = Counted(h, k - 1)
            <7>1. \A j : j \in Counted(h, k) <=> j \in Counted(h, k - 1)
              BY <1>3, <4>4, <6>1
            <7>2. QED  BY <1>3, <7>1 DEF Counted
          <6>3. nx[k] = nx[k - 1] + 0 /\ nx[k - 1] \in Nat
            BY <1>2, <3>1, <5>2
          <6>4. QED  BY <4>1, <6>2, <6>3
        <5>3. QED  BY <5>1, <5>2
      <4>6. h <= k /\ d[h].kind = "hunk"
        BY <4>1, <4>2
      <4>7. ASSUME NEW j \in DOMAIN d, h < j, j <= k PROVE d[j].kind \in Told
        <5>1. j = k \/ j <= k - 1
          BY <1>2, <4>2, <4>7
        <5>2. QED  BY <2>2, <4>1, <4>7, <5>1
      <4>8. From(h, k)
        BY <4>5, <4>6, <4>7
      <4> HIDE DEF From
      <4>9. QED  BY <4>8
    <3>4. QED  BY <3>1, <3>3
  <2>3. CASE d[k].kind \notin {"hunk"} \cup Told
    BY <2>3
  <2>4. QED  BY <2>1, <2>2, <2>3
<1>6. DOMAIN d \subseteq M
  <2> HIDE DEF M
  <2>1. QED  BY <1>2, <1>5, AllLines
<1>7. i - 1 \in DOMAIN d /\ d[i - 1].kind \in {"hunk"} \cup Told
  <2>1. i - 1 \in DOMAIN d /\ d[i - 1].kind \notin {"git", "minus", "plus"}
    BY <1>2 DEF Fits, FitsTo, Told
  <2>2. QED  BY <1>2, <2>1 DEF Fits, FitsTo
<1>8. PICK h \in DOMAIN d : From(h, i - 1)
  BY <1>6, <1>7
<1>9. /\ h \in Nat \ {0} /\ i \in Nat /\ h <= i - 1 /\ d[h].kind = "hunk"
      /\ \A j \in DOMAIN d : h < j /\ j <= i - 1 => d[j].kind \in Told
      /\ nx[i - 1] = d[h].at + Cardinality(Counted(h, i - 1))
  BY <1>2, <1>8
<1> HIDE DEF From, M
<1>10. L!Chunk(d, i) < h
  <2> DEFINE c == L!Chunk(d, i)
  <2>1. c \in DOMAIN d /\ c <= i /\ d[c].kind = "git"
    BY ChunkIs
  <2> HIDE DEF c
  <2>2. c # i /\ c # h /\ c \in Nat /\ ~(h < c /\ c <= i - 1)
    BY <1>2, <1>9, <2>1 DEF Told
  <2>3. QED  BY <1>9, <2>1, <2>2 DEF c
<1> DEFINE hunks == {x \in 1..(i - 1) : d[x].kind = "hunk" /\ x > L!Chunk(d, i)}
<1>11. L!Chunk(d, i) \in Nat
  BY <1>2, ChunkIs
<1>12. h \in hunks
  BY <1>9, <1>10, <1>11
<1>13. ASSUME NEW x \in hunks PROVE x \in Nat /\ x <= h
  <2>1. x \in 1..(i - 1) /\ d[x].kind = "hunk"
    OBVIOUS
  <2>2. x \in DOMAIN d /\ x \in Nat /\ x <= i - 1
    BY <1>1, <1>9, <2>1
  <2>3. ~(h < x)
    BY <1>9, <2>1, <2>2 DEF Told
  <2>4. QED  BY <1>9, <2>2, <2>3
<1>14. L!Hunk(d, i) = h
  <2>1. L!Hunk(d, i) = IF hunks = {} THEN 0 ELSE L!Max(hunks)
    BY DEF L!Hunk
  <2> HIDE DEF hunks
  <2>2. \A x \in hunks : (\A y \in hunks : x >= y) => x = h
    BY <1>9, <1>12, <1>13
  <2>3. \A y \in hunks : h >= y
    BY <1>9, <1>13
  <2>4. L!Max(hunks) = h
    BY <1>12, <2>2, <2>3 DEF L!Max
  <2>5. QED  BY <1>12, <2>1, <2>4
<1>15. L!Number(d, i) = d[h].at + Cardinality(Counted(h, i - 1))
  BY <1>14, SameCount DEF L!Number, Counted
<1>16. QED  BY <1>7, <1>9, <1>14, <1>15

\* The lines taken for added are the added ones, each under its own number.
LEMMA AddedAre ==
    ASSUME NEW d, NEW nx, Formed(d, nx), \A i \in DOMAIN d : d[i].file \notin Odd
    PROVE  /\ L!Added(d) = {i \in DOMAIN d : d[i].kind = "added"}
           /\ \A i \in L!Added(d) : L!Number(d, i) = d[i].at
<1>1. PICK n \in Nat : DOMAIN d = 1..n
  BY DEF Formed
<1>2. ASSUME NEW i \in DOMAIN d, d[i].kind = "added" PROVE L!Hunk(d, i) # 0 /\ L!Number(d, i) = d[i].at
  <2>1. d[i].at = nx[i - 1]
    BY <1>2 DEF Formed, Fits, FitsTo, Told
  <2>2. d[i].kind \in Told
    BY <1>2 DEF Told
  <2>3. QED  BY <2>1, <2>2, NumberIs
<1>3. ASSUME NEW i \in DOMAIN d, d[i].kind = "plus" PROVE L!Hunk(d, i) = 0
  <2>1. i - 1 \in DOMAIN d /\ d[i - 1].kind = "minus"
    BY <1>3 DEF Formed, Fits, FitsTo, Told
  <2>2. (i - 1) - 1 \in DOMAIN d /\ d[(i - 1) - 1].kind = "git"
    BY <2>1 DEF Formed, Fits, FitsTo, Told
  <2> DEFINE c == L!Chunk(d, i)
  <2>3. c \in DOMAIN d /\ c <= i /\ \A j \in DOMAIN d : c < j /\ j <= i => d[j].kind # "git"
    BY ChunkIs
  <2>4. i \in Nat /\ c \in Nat /\ (i - 1) - 1 <= i
    BY <1>1, <2>3
  <2> HIDE DEF c
  <2>5. ~(c < (i - 1) - 1)
    BY <2>2, <2>3, <2>4
  <2>6. {x \in 1..(i - 1) : d[x].kind = "hunk" /\ x > c} = {}
    <3>1. SUFFICES ASSUME NEW x \in 1..(i - 1), d[x].kind = "hunk", x > c PROVE FALSE
      OBVIOUS
    <3>2. x = i - 1
      BY <2>4, <2>5, <3>1
    <3>3. QED  BY <2>1, <3>1, <3>2
  <2>7. QED  BY <2>6 DEF L!Hunk, c
<1>4. L!InChunk(d) = DOMAIN d
  BY NameIs
<1>5. L!Added(d) = {i \in DOMAIN d : d[i].kind \in {"added", "plus"} /\ L!Hunk(d, i) # 0}
  BY <1>4 DEF L!Added
<1>6. ASSUME NEW i PROVE i \in L!Added(d) <=> i \in DOMAIN d /\ d[i].kind = "added"
  BY <1>2, <1>3, <1>5
<1>7. QED  BY <1>2, <1>6

\* Lines of a diff that follow one another within a file are well formed.
LEMMA PartIs ==
    ASSUME NEW d, NEW nx, Formed(d, nx), NEW e, NEW n \in Nat, DOMAIN e = 1..n, NEW p \in [1..n -> DOMAIN d],
           \A k \in 1..n : e[k].kind = d[p[k]].kind /\ e[k].file = d[p[k]].file /\ e[k].at = d[p[k]].at,
           \A k \in 1..n : d[p[k]].kind # "git" => k - 1 \in 1..n /\ p[k - 1] = p[k] - 1
    PROVE  Formed(e, [k \in 1..n |-> nx[p[k]]])
<1> DEFINE z == [k \in 1..n |-> nx[p[k]]]
<1>1. nx \in [DOMAIN d -> Nat] /\ \A i \in DOMAIN d : d[i].kind = "git" \/ Fits(d, nx, i)
  BY DEF Formed
<1>2. \A k \in 1..n : z[k] = nx[p[k]]
  OBVIOUS
<1>3. z \in [1..n -> Nat]
  BY <1>1
<1> HIDE DEF z
<1>4. ASSUME NEW k \in 1..n, e[k].kind # "git" PROVE Fits(e, z, k)
  <2>1. k - 1 \in 1..n /\ p[k - 1] = p[k] - 1 /\ p[k] \in DOMAIN d /\ p[k - 1] \in DOMAIN d
    BY <1>4
  <2>2. Fits(d, nx, p[k])
    BY <1>1, <1>4, <2>1
  <2>3. /\ e[k].kind = d[p[k]].kind /\ e[k].file = d[p[k]].file /\ e[k].at = d[p[k]].at /\ z[k] = nx[p[k]]
        /\ e[k - 1].kind = d[p[k] - 1].kind /\ e[k - 1].file = d[p[k] - 1].file /\ z[k - 1] = nx[p[k] - 1]
    BY <1>2, <2>1
  <2>4. QED  BY <2>1, <2>2, <2>3 DEF Fits, FitsTo
<1>5. QED  BY <1>3, <1>4 DEF Formed, z

\* A line that fits to the last may follow it.
LEMMA FormedGrows ==
    ASSUME NEW Any, NEW d \in Seq(Any), NEW nx, Formed(d, nx), NEW z \in Any, NEW v \in Nat,
           z.kind = "git" \/ (d # <<>> /\ FitsTo(z, d[Len(d)], v, nx[Len(d)]))
    PROVE  /\ Append(d, z) \in Seq(Any) /\ Len(Append(d, z)) = Len(d) + 1 /\ Append(d, z)[Len(d) + 1] = z
           /\ \E y : Formed(Append(d, z), y) /\ y[Len(d) + 1] = v
<1> DEFINE e == Append(d, z)
           n == Len(d)
           y == [i \in 1..(n + 1) |-> IF i = n + 1 THEN v ELSE nx[i]]
<1>1. /\ e \in Seq(Any) /\ Len(e) = n + 1 /\ e[n + 1] = z /\ n \in Nat /\ DOMAIN d = 1..n /\ DOMAIN e = 1..(n + 1)
      /\ \A i \in 1..n : e[i] = d[i]
  OBVIOUS
<1>2. nx \in [1..n -> Nat] /\ \A i \in 1..n : d[i].kind = "git" \/ Fits(d, nx, i)
  BY <1>1 DEF Formed
<1>3. y[n + 1] = v /\ \A i \in 1..n : y[i] = nx[i]
  BY <1>1
<1>4. y \in [1..(n + 1) -> Nat]
  <2>1. \A i \in 1..(n + 1) : (IF i = n + 1 THEN v ELSE nx[i]) \in Nat
    BY <1>1, <1>2
  <2>2. QED  BY <2>1
<1>5. d # <<>> => n \in 1..n
  BY <1>1
<1> HIDE DEF e, y, n
<1>6. ASSUME NEW i \in 1..(n + 1), e[i].kind # "git" PROVE Fits(e, y, i)
  <2>1. CASE i = n + 1
    <3>1. d # <<>> /\ FitsTo(z, d[n], v, nx[n]) /\ n \in 1..n
      BY <1>1, <1>5, <1>6, <2>1 DEF n
    <3>2. i - 1 = n /\ i - 1 \in 1..(n + 1) /\ e[i] = z /\ e[i - 1] = d[n] /\ y[i] = v /\ y[i - 1] = nx[n]
      BY <1>1, <1>3, <2>1, <3>1
    <3>3. QED  BY <1>1, <3>1, <3>2 DEF Fits
  <2>2. CASE i # n + 1
    <3>1. i \in 1..n
      BY <1>1, <2>2
    <3>2. Fits(d, nx, i)
      BY <1>1, <1>2, <1>6, <3>1
    <3>3. i - 1 \in 1..n /\ FitsTo(d[i], d[i - 1], nx[i], nx[i - 1])
      BY <1>1, <3>2 DEF Fits
    <3>4. i - 1 \in 1..(n + 1) /\ e[i] = d[i] /\ e[i - 1] = d[i - 1] /\ y[i] = nx[i] /\ y[i - 1] = nx[i - 1]
      BY <1>1, <1>3, <3>1, <3>3
    <3>5. QED  BY <1>1, <3>3, <3>4 DEF Fits
  <2>3. QED  BY <2>1, <2>2
<1>7. Formed(e, y)
  <2>1. n + 1 \in Nat
    BY <1>1
  <2>2. QED  BY <1>1, <1>4, <1>6, <2>1 DEF Formed
<1>8. QED  BY <1>1, <1>3, <1>7 DEF e, n

\* The lines that GitHub prints.
PrintedLine == [kind : {"git", "minus", "plus", "hunk"} \cup Told, file : L!Paths, at : Nat,
                is : {"plain", "hit", "long", "entry", "section", "end"}]

\* What is printed is well formed, and it is known where it is.
Ends(nx) == IF diff = <<>> THEN at.file = 0 /\ at.next = 0
            ELSE /\ diff[Len(diff)].file = DiffOrder[at.file]
                 /\ IF at.next = 0 THEN diff[Len(diff)].kind = "plus"
                    ELSE diff[Len(diff)].kind \notin {"git", "minus", "plus"} /\ nx[Len(diff)] = at.next
PrintOk == /\ diff \in Seq(PrintedLine) /\ at.next \in Nat
           /\ at = [file |-> at.file, next |-> at.next, inside |-> at.inside]
           /\ \E nx : Formed(diff, nx) /\ (step = "print" => Ends(nx))

\* What was made of it.
BoundOk  == step # "print" => \E n \in 1..Len(diff) :
                /\ input = [i \in 1..n |-> L!Shorten(diff[i])]
                /\ whole = (n = Len(diff) /\ \A i \in DOMAIN diff : diff[i].is # "long")
Kept     == {i \in L!InChunk(input) : L!Name(input, i) \notin Ignored}
FilterOk == /\ step \in {"print", "filter"} => filtered = <<>>
            /\ step \notin {"print", "filter"} => filtered = L!Pick(input, Kept)

\* Findings are about added lines, and a check that passed had all of them and no hit.
FoundOk  == \A f \in found : \E i, by :
                \/ step \notin {"print", "filter"} /\ i \in L!Added(filtered) /\ f = L!Finding(filtered, i, by)
                \/ step # "print" /\ i \in L!Added(input) /\ f = L!Finding(input, i, by)
PassOk   == /\ DOMAIN check = L!Checks
            /\ \A c \in {"rule", "secrets", "sast"} : check[c] = "PASS" =>
                  /\ step \notin {"print", "filter"} /\ whole
                  /\ \A i \in L!Hits(filtered) : c = "sast" /\ L!Name(filtered, i) \notin Code

ReadInv == PrintOk /\ BoundOk /\ FilterOk /\ FoundOk /\ PassOk

\* At first nothing is printed.
LEMMA ReadBegins == ASSUME L!Init PROVE ReadInv
<1>1. PrintOk
  <2>1. diff = <<>> /\ at = [file |-> 0, next |-> 0, inside |-> FALSE] /\ step = "print"
    BY DEF L!Init
  <2> DEFINE nx == [i \in {} |-> 0]
  <2>2. DOMAIN diff = {} /\ DOMAIN diff = 1..0 /\ nx \in [{} -> Nat]
    BY <2>1
  <2>3. Formed(diff, nx)
    BY <2>2 DEF Formed
  <2> HIDE DEF nx
  <2>4. Ends(nx)
    BY <2>1 DEF Ends
  <2>5. QED  BY <2>1, <2>3, <2>4 DEF PrintOk
<1>2. BoundOk /\ FilterOk /\ FoundOk /\ PassOk
  BY DEF L!Init, BoundOk, FilterOk, FoundOk, PassOk, L!Checks
<1>3. QED  BY <1>1, <1>2 DEF ReadInv

\* While it is printed nothing else happens.
LEMMA EmitKeeps == ASSUME ReadInv, NEW ls, L!Emit(ls), PrintOk' PROVE ReadInv'
<1>1. step = "print" /\ UNCHANGED <<step, input, whole, filtered, found, check>>
  BY DEF L!Emit
<1>2. BoundOk' /\ FilterOk'
  BY <1>1 DEF ReadInv, BoundOk, FilterOk
<1>3. FoundOk'
  BY <1>1 DEF ReadInv, FoundOk
<1>4. PassOk'
  BY <1>1 DEF ReadInv, PassOk
<1>5. QED  BY <1>2, <1>3, <1>4 DEF ReadInv

\* One line is printed.
LEMMA OneMore ==
    ASSUME ReadInv, NEW z \in PrintedLine, L!Emit(<<z>>), NEW nx, Formed(diff, nx), NEW v \in Nat,
           z.kind = "git" \/ (diff # <<>> /\ FitsTo(z, diff[Len(diff)], v, nx[Len(diff)]))
    PROVE  /\ diff' \in Seq(PrintedLine) /\ diff' # <<>> /\ diff'[Len(diff')] = z
           /\ \E y : Formed(diff', y) /\ y[Len(diff')] = v
<1>1. diff \in Seq(PrintedLine)
  BY DEF ReadInv, PrintOk
<1>2. diff' = Append(diff, z)
  <2>1. diff' = diff \o <<z>>
    BY DEF L!Emit
  <2>2. QED  BY <1>1, <2>1
<1>3. /\ Append(diff, z) \in Seq(PrintedLine) /\ Len(Append(diff, z)) = Len(diff) + 1 /\ Append(diff, z)[Len(diff) + 1] = z
      /\ \E y : Formed(Append(diff, z), y) /\ y[Len(diff) + 1] = v
  BY <1>1, FormedGrows
<1>4. Append(diff, z) # <<>>
  BY <1>1
<1>5. QED  BY <1>2, <1>3, <1>4

LEMMA PrintFileReads == ASSUME L!DiffConstants, ReadInv, NEW f \in DOMAIN DiffOrder, L!PrintFile(f) PROVE ReadInv'
<1> DEFINE a == L!Line("git", f, 0, "plain")
           b == L!Line("minus", f, 0, "plain")
           c == L!Line("plus", f, 0, "plain")
<1>1. /\ L!Emit(<<a, b, c>>) /\ diff' = diff \o <<a, b, c>> /\ step = "print" /\ step' = "print"
      /\ at' = [file |-> f, next |-> 0, inside |-> FALSE]
  BY DEF L!PrintFile, L!Emit
<1>2. DiffOrder[f] \in L!Paths
  BY DEF L!Paths, L!ToSet
<1>3. a \in PrintedLine /\ b \in PrintedLine /\ c \in PrintedLine
  BY <1>2 DEF PrintedLine, L!Line
<1>4. /\ a.kind = "git" /\ b.kind = "minus" /\ c.kind = "plus" /\ a.file = DiffOrder[f] /\ b.file = DiffOrder[f]
      /\ c.file = DiffOrder[f]
  BY DEF L!Line
<1> HIDE DEF a, b, c
<1>5. diff \in Seq(PrintedLine)
  BY DEF ReadInv, PrintOk
<1>6. PICK nx : Formed(diff, nx)
  BY DEF ReadInv, PrintOk
<1> DEFINE d1 == Append(diff, a)
           d2 == Append(d1, b)
           d3 == Append(d2, c)
<1>7. diff' = d3
  <2>1. diff \o <<a, b, c>> = Append(Append(Append(diff, a), b), c)
    BY <1>3, <1>5
  <2>2. QED  BY <1>1, <2>1
<1>8. d1 \in Seq(PrintedLine) /\ Len(d1) = Len(diff) + 1 /\ d1[Len(diff) + 1] = a /\ \E y : Formed(d1, y)
  <2>1. 0 \in Nat
    OBVIOUS
  <2>2. QED  BY <1>3, <1>4, <1>5, <1>6, <2>1, FormedGrows
<1> HIDE DEF d1
<1>9. d2 \in Seq(PrintedLine) /\ Len(d2) = Len(d1) + 1 /\ d2[Len(d1) + 1] = b /\ \E y : Formed(d2, y)
  <2>1. 0 \in Nat /\ d1 # <<>> /\ d1[Len(d1)] = a
    BY <1>5, <1>8
  <2>2. PICK y : Formed(d1, y)
    BY <1>8
  <2>3. FitsTo(b, d1[Len(d1)], 0, y[Len(d1)])
    BY <1>4, <2>1 DEF FitsTo
  <2>4. QED  BY <1>3, <1>8, <2>1, <2>2, <2>3, FormedGrows
<1> HIDE DEF d2
<1>10. d3 \in Seq(PrintedLine) /\ Len(d3) = Len(d2) + 1 /\ d3[Len(d2) + 1] = c /\ \E y : Formed(d3, y)
  <2>1. 0 \in Nat /\ d2 # <<>> /\ d2[Len(d2)] = b
    BY <1>8, <1>9
  <2>2. PICK y : Formed(d2, y)
    BY <1>9
  <2>3. FitsTo(c, d2[Len(d2)], 0, y[Len(d2)])
    BY <1>4, <2>1 DEF FitsTo
  <2>4. QED  BY <1>3, <1>9, <2>1, <2>2, <2>3, FormedGrows
<1> HIDE DEF d3
<1>11. diff' \in Seq(PrintedLine) /\ diff' # <<>> /\ diff'[Len(diff')] = c /\ \E y : Formed(diff', y)
  BY <1>7, <1>9, <1>10
<1>12. at'.file = f /\ at'.next = 0 /\ at' = [file |-> at'.file, next |-> at'.next, inside |-> at'.inside] /\ at'.next \in Nat
  BY <1>1
<1>13. PICK y : Formed(diff', y)
  BY <1>11
<1>14. Ends(y)'
  BY <1>4, <1>11, <1>12 DEF Ends
<1>15. PrintOk'
  BY <1>11, <1>12, <1>13, <1>14 DEF PrintOk
<1>16. QED  BY <1>1, <1>15, EmitKeeps

LEMMA PrintHunkReads == ASSUME L!DiffConstants, ReadInv, NEW n \in Starts, L!PrintHunk(n) PROVE ReadInv'
<1> DEFINE z == L!Line("hunk", at.file, n, "plain")
<1>1. L!Emit(<<z>>) /\ step = "print" /\ step' = "print" /\ at.file # 0
  BY DEF L!PrintHunk, L!Emit
<1>2. n \in Nat \ {0}
  BY DEF L!DiffConstants
<1>3. at'.file = at.file /\ at'.next = n /\ at' = [file |-> at'.file, next |-> at'.next, inside |-> at'.inside]
  <2>1. PICK b : at' = [at EXCEPT !.next = n, !.inside = b]
    BY DEF L!PrintHunk
  <2>2. at = [file |-> at.file, next |-> at.next, inside |-> at.inside]
    BY DEF ReadInv, PrintOk
  <2>3. QED  BY <2>1, <2>2
<1>4. PICK nx : Formed(diff, nx) /\ Ends(nx)
  BY <1>1 DEF ReadInv, PrintOk
<1>5. /\ diff # <<>> /\ diff \in Seq(PrintedLine) /\ diff[Len(diff)].file = DiffOrder[at.file]
      /\ diff[Len(diff)].kind \notin {"git", "minus"}
  BY <1>1, <1>4 DEF ReadInv, PrintOk, Ends
<1>6. DiffOrder[at.file] \in L!Paths
  <2>1. diff[Len(diff)] \in PrintedLine
    BY <1>5
  <2>2. QED  BY <1>5, <2>1 DEF PrintedLine
<1>7. z \in PrintedLine /\ z.kind = "hunk" /\ z.file = DiffOrder[at.file] /\ z.at = n
  BY <1>2, <1>6 DEF PrintedLine, L!Line
<1> HIDE DEF z
<1>8. FitsTo(z, diff[Len(diff)], n, nx[Len(diff)])
  BY <1>5, <1>7 DEF FitsTo
<1>9. /\ diff' \in Seq(PrintedLine) /\ diff' # <<>> /\ diff'[Len(diff')] = z
      /\ \E y : Formed(diff', y) /\ y[Len(diff')] = n
  BY <1>1, <1>2, <1>4, <1>5, <1>7, <1>8, OneMore
<1>10. PICK y : Formed(diff', y) /\ y[Len(diff')] = n
  BY <1>9
<1>11. Ends(y)'
  BY <1>2, <1>3, <1>7, <1>9, <1>10 DEF Ends
<1>12. PrintOk'
  BY <1>2, <1>3, <1>9, <1>10, <1>11 DEF PrintOk
<1>13. QED  BY <1>1, <1>12, EmitKeeps

LEMMA PrintLineReads ==
    ASSUME L!DiffConstants, ReadInv, NEW kind \in {"context", "added", "removed"}, L!PrintLine(kind) PROVE ReadInv'
<1>1. PICK is \in L!Contents(kind) :
         /\ L!Emit(<<L!Line(kind, at.file, at.next, is)>>)
         /\ at' = [at EXCEPT !.next = @ + IF kind = "removed" THEN 0 ELSE 1,
                             !.inside = is = "section" \/ (@ /\ is # "end")]
  BY DEF L!PrintLine
<1> DEFINE z == L!Line(kind, at.file, at.next, is)
           v == at.next + IF kind = "removed" THEN 0 ELSE 1
<1>2. L!Emit(<<z>>) /\ step = "print" /\ step' = "print" /\ at.next # 0
  BY <1>1 DEF L!PrintLine, L!Emit
<1>3. at.next \in Nat /\ v \in Nat \ {0}
  BY <1>2 DEF ReadInv, PrintOk
<1>4. at'.file = at.file /\ at'.next = v /\ at' = [file |-> at'.file, next |-> at'.next, inside |-> at'.inside]
  <2>1. at = [file |-> at.file, next |-> at.next, inside |-> at.inside]
    BY DEF ReadInv, PrintOk
  <2>2. QED  BY <1>1, <2>1
<1>5. is \in {"plain", "hit", "long", "entry", "section", "end"}
  <2>1. L!Contents(kind) \subseteq {"plain", "hit", "long", "entry", "section", "end"}
    BY DEF L!Contents
  <2>2. QED  BY <1>1, <2>1
<1>6. PICK nx : Formed(diff, nx) /\ Ends(nx)
  BY <1>2 DEF ReadInv, PrintOk
<1>7. /\ diff # <<>> /\ diff \in Seq(PrintedLine) /\ diff[Len(diff)].file = DiffOrder[at.file]
      /\ diff[Len(diff)].kind \notin {"git", "minus", "plus"} /\ nx[Len(diff)] = at.next
  BY <1>2, <1>6 DEF ReadInv, PrintOk, Ends
<1>8. DiffOrder[at.file] \in L!Paths
  <2>1. diff[Len(diff)] \in PrintedLine
    BY <1>7
  <2>2. QED  BY <1>7, <2>1 DEF PrintedLine
<1>9. z \in PrintedLine /\ z.kind = kind /\ z.file = DiffOrder[at.file] /\ z.at = at.next
  BY <1>3, <1>5, <1>8 DEF PrintedLine, L!Line, Told
<1>10. v = at.next + IF kind \in {"context", "added"} THEN 1 ELSE 0
  OBVIOUS
<1> HIDE DEF z, v
<1>11. FitsTo(z, diff[Len(diff)], v, nx[Len(diff)])
  BY <1>7, <1>9, <1>10 DEF FitsTo, Told
<1>12. /\ diff' \in Seq(PrintedLine) /\ diff' # <<>> /\ diff'[Len(diff')] = z
       /\ \E y : Formed(diff', y) /\ y[Len(diff')] = v
  BY <1>2, <1>3, <1>6, <1>7, <1>9, <1>11, OneMore
<1>13. PICK y : Formed(diff', y) /\ y[Len(diff')] = v
  BY <1>12
<1>14. Ends(y)'
  BY <1>3, <1>4, <1>9, <1>12, <1>13 DEF Ends
<1>15. PrintOk'
  BY <1>3, <1>4, <1>12, <1>13, <1>14 DEF PrintOk
<1>16. QED  BY <1>2, <1>15, EmitKeeps

LEMMA PrintMarkReads == ASSUME L!DiffConstants, ReadInv, L!PrintMark PROVE ReadInv'
<1> DEFINE z == L!Line("mark", at.file, 0, "plain")
<1>1. L!Emit(<<z>>) /\ step = "print" /\ step' = "print" /\ diff # <<>> /\ at' = at
  BY DEF L!PrintMark, L!Emit
<1>2. diff[Len(diff)].kind \in {"context", "added", "removed"}
  BY DEF L!PrintMark, L!Last
<1>3. PICK nx : Formed(diff, nx) /\ Ends(nx)
  BY <1>1 DEF ReadInv, PrintOk
<1>4. /\ diff \in Seq(PrintedLine) /\ diff[Len(diff)].file = DiffOrder[at.file] /\ at.next \in Nat
      /\ at.next # 0 /\ nx[Len(diff)] = at.next
  BY <1>1, <1>2, <1>3 DEF ReadInv, PrintOk, Ends
<1>5. DiffOrder[at.file] \in L!Paths
  <2>1. diff[Len(diff)] \in PrintedLine
    BY <1>1, <1>4
  <2>2. QED  BY <1>4, <2>1 DEF PrintedLine
<1>6. z \in PrintedLine /\ z.kind = "mark" /\ z.file = DiffOrder[at.file]
  BY <1>5 DEF PrintedLine, L!Line, Told
<1> HIDE DEF z
<1>7. FitsTo(z, diff[Len(diff)], at.next, nx[Len(diff)])
  BY <1>2, <1>4, <1>6 DEF FitsTo, Told
<1>8. /\ diff' \in Seq(PrintedLine) /\ diff' # <<>> /\ diff'[Len(diff')] = z
      /\ \E y : Formed(diff', y) /\ y[Len(diff')] = at.next
  BY <1>1, <1>3, <1>4, <1>6, <1>7, OneMore
<1>9. PICK y : Formed(diff', y) /\ y[Len(diff')] = at.next
  BY <1>8
<1>10. Ends(y)'
  BY <1>1, <1>4, <1>6, <1>8, <1>9 DEF Ends
<1>11. PrintOk'
  <2>1. at = [file |-> at.file, next |-> at.next, inside |-> at.inside]
    BY DEF ReadInv, PrintOk
  <2>2. QED  BY <1>1, <1>4, <1>8, <1>9, <1>10, <2>1 DEF PrintOk
<1>12. QED  BY <1>1, <1>11, EmitKeeps

LEMMA BoundReads == ASSUME ReadInv, NEW n \in DOMAIN diff, L!Bound(n) PROVE ReadInv'
<1>1. /\ step = "print" /\ step' = "filter" /\ UNCHANGED <<diff, at, filtered, found, check>>
      /\ input' = [i \in 1..n |-> L!Shorten(diff[i])]
      /\ whole' = (n = Len(diff) /\ \A i \in DOMAIN diff : diff[i].is # "long")
  BY DEF L!Bound
<1>2. PrintOk'
  BY <1>1 DEF ReadInv, PrintOk
<1>3. BoundOk'
  <2>1. n \in 1..Len(diff)
    BY DEF ReadInv, PrintOk
  <2>2. QED  BY <1>1, <2>1 DEF BoundOk
<1>4. FilterOk'
  BY <1>1 DEF ReadInv, FilterOk
<1>5. FoundOk'
  <2>1. \A f \in found : FALSE
    BY <1>1 DEF ReadInv, FoundOk
  <2>2. QED  BY <1>1, <2>1 DEF FoundOk
<1>6. PassOk'
  BY <1>1 DEF ReadInv, PassOk
<1>7. QED  BY <1>2, <1>3, <1>4, <1>5, <1>6 DEF ReadInv

LEMMA FilterReads == ASSUME ReadInv, L!Filter PROVE ReadInv'
<1>1. /\ step = "filter" /\ step' \in {"rules", "unaudited", "failed"} /\ UNCHANGED <<diff, at, input, whole, found, check>>
      /\ filtered' = L!Pick(input, Kept)
  BY DEF L!Filter, Kept
<1>2. PrintOk'
  BY <1>1 DEF ReadInv, PrintOk
<1>3. BoundOk'
  BY <1>1 DEF ReadInv, BoundOk
<1>4. FilterOk'
  <2>1. Kept' = Kept
    BY <1>1 DEF Kept
  <2>2. QED  BY <1>1, <2>1 DEF FilterOk
<1>5. FoundOk'
  BY <1>1 DEF ReadInv, FoundOk
<1>6. PassOk'
  BY <1>1 DEF ReadInv, PassOk
<1>7. QED  BY <1>2, <1>3, <1>4, <1>5, <1>6 DEF ReadInv

\* What was bounded and filtered stays so.
LEMMA StaysFiltered ==
    ASSUME ReadInv, step \notin {"print", "filter"}, step' \notin {"print", "filter"}, UNCHANGED <<diff, at, input, whole, filtered>>
    PROVE  PrintOk' /\ BoundOk' /\ FilterOk'
<1>1. PrintOk'
  BY DEF ReadInv, PrintOk
<1>2. BoundOk'
  BY DEF ReadInv, BoundOk
<1>3. FilterOk'
  <2>1. Kept' = Kept
    BY DEF Kept
  <2>2. QED  BY <2>1 DEF ReadInv, FilterOk
<1>4. QED  BY <1>1, <1>2, <1>3

\* All of them are the first of them, if there are no more.
LEMMA AllFirst ==
    ASSUME ReadInv, step \notin {"print", "filter"}, NEW n \in Nat, ~(n < L!Cardinality(L!Added(filtered)))
    PROVE  L!First(L!Added(filtered), n) = L!Added(filtered)
<1> DEFINE Any == L!Added(filtered)
<1>1. Any \in SUBSET Nat /\ IsFiniteSet(Any)
  <2>1. PICK m \in 1..Len(diff) : input = [i \in 1..m |-> L!Shorten(diff[i])]
    BY DEF ReadInv, BoundOk
  <2>2. m \in Nat /\ DOMAIN input = 1..m
    BY <2>1
  <2>3. Kept \subseteq 1..m
    BY <2>2 DEF Kept, L!InChunk
  <2>4. IsFiniteSet(Kept) /\ Cardinality(Kept) \in Nat
    BY <2>2, <2>3, FiniteIn
  <2>5. filtered = L!Pick(input, Kept)
    BY DEF ReadInv, FilterOk
  <2>6. DOMAIN filtered = 1..Cardinality(Kept)
    BY <2>5, SameCount DEF L!Pick
  <2>7. Any \subseteq 1..Cardinality(Kept)
    BY <2>6 DEF L!Added, L!InChunk
  <2> HIDE DEF Any
  <2>8. Any \subseteq Nat
    BY <2>4, <2>7
  <2>9. IsFiniteSet(1..Cardinality(Kept))
    BY <2>4, FS_Interval
  <2>10. QED  BY <2>7, <2>8, <2>9, FS_Subset
<1>2. L!First(Any, n) = {i \in Any : Cardinality({j \in Any : j < i}) < n}
  BY SameCount DEF L!First
<1>3. \A i \in Any : Cardinality({j \in Any : j < i}) \in 0..(Cardinality(Any) - 1)
  BY <1>1, NthIs
<1>4. Cardinality(Any) \in Nat /\ ~(n < Cardinality(Any))
  BY <1>1, SameCount, FS_CardinalityType
<1> HIDE DEF Any
<1>5. ASSUME NEW i \in Any PROVE Cardinality({j \in Any : j < i}) < n
  <2> DEFINE b == Cardinality({j \in Any : j < i})
  <2>1. b \in 0..(Cardinality(Any) - 1)
    BY <1>3
  <2> HIDE DEF b
  <2>2. b < n
    BY <1>4, <2>1
  <2>3. QED  BY <2>2 DEF b
<1>6. L!First(Any, n) = Any
  BY <1>2, <1>5
<1>7. QED  BY <1>6 DEF Any

LEMMA EvaluateReads == ASSUME ReadInv, L!EvaluateRules PROVE ReadInv'
<1>1. step = "rules" /\ step' = "scan" /\ UNCHANGED <<diff, at, input, whole, filtered>>
  BY DEF L!EvaluateRules
<1>2. PICK n \in 0..L!Cardinality(L!Added(filtered)) :
          LET hits == L!First(L!Added(filtered), n) \cap L!Hits(filtered)
              late == n < L!Cardinality(L!Added(filtered))
          IN /\ late => L!Cardinality(hits) <= MaxHits
             /\ found' = {L!Finding(filtered, i, "rule") : i \in L!First(hits, MaxHits)}
             /\ check' = [check EXCEPT !["rule"] = L!RuleVerdict(hits, late)]
  BY DEF L!EvaluateRules
<1> DEFINE hits == L!First(L!Added(filtered), n) \cap L!Hits(filtered)
           late == n < L!Cardinality(L!Added(filtered))
<1>3. /\ found' = {L!Finding(filtered, i, "rule") : i \in L!First(hits, MaxHits)}
      /\ check' = [check EXCEPT !["rule"] = L!RuleVerdict(hits, late)]
  BY <1>2
<1>4. PrintOk' /\ BoundOk' /\ FilterOk'
  BY <1>1, StaysFiltered
<1>5. L!First(hits, MaxHits) \subseteq L!Added(filtered) /\ L!Hits(filtered) \subseteq L!Added(filtered)
  BY DEF L!First, L!Hits
<1>6. FoundOk'
  <2>1. SUFFICES ASSUME NEW f \in found' PROVE \E i, by : i \in L!Added(filtered) /\ f = L!Finding(filtered, i, by)
    BY <1>1 DEF FoundOk
  <2>2. QED  BY <1>3, <1>5
<1>7. PassOk'
  <2>1. DOMAIN check = L!Checks
    BY DEF ReadInv, PassOk
  <2>2. check'["rule"] = L!RuleVerdict(hits, late) /\ DOMAIN check' = L!Checks
    BY <1>3, <2>1 DEF L!Checks
  <2>3. check'["secrets"] = check["secrets"] /\ check'["sast"] = check["sast"]
    BY <1>3, <2>1 DEF L!Checks
  <2>4. ASSUME check'["rule"] = "PASS" PROVE whole /\ L!Hits(filtered) = {}
    <3>1. whole /\ ~late /\ hits = {}
      BY <2>2, <2>4 DEF L!RuleVerdict
    <3>2. n \in Nat
      OBVIOUS
    <3>3. L!First(L!Added(filtered), n) = L!Added(filtered)
      BY <1>1, <3>1, <3>2, AllFirst
    <3>4. QED  BY <1>5, <3>1, <3>3
  <2>5. \A c \in {"secrets", "sast"} : check'[c] = "PASS" =>
           whole /\ \A i \in L!Hits(filtered) : c = "sast" /\ L!Name(filtered, i) \notin Code
    BY <2>3 DEF ReadInv, PassOk
  <2> HIDE DEF hits, late
  <2>6. QED  BY <1>1, <2>2, <2>4, <2>5 DEF PassOk
<1>8. QED  BY <1>4, <1>6, <1>7 DEF ReadInv

LEMMA ScanReads == ASSUME ReadInv, L!Scan PROVE ReadInv'
<1> DEFINE sast == {i \in L!Hits(filtered) : L!Name(filtered, i) \in Code}
<1>1. /\ step = "scan" /\ step' = "done" /\ UNCHANGED <<diff, at, input, whole, filtered>>
      /\ found' = found \cup {L!Finding(filtered, i, "secrets") : i \in L!First(L!Hits(filtered), MaxHits)}
                        \cup {L!Finding(filtered, i, "sast") : i \in L!First(sast, MaxHits)} \cup L!Introduced
      /\ check' = [check EXCEPT !["secrets"] = L!Verdict(L!Hits(filtered), "PASS"), !["sast"] = L!Verdict(sast, "PASS"),
                                !["dependencies"] = L!Verdict(L!Introduced, "SKIPPED")]
  BY DEF L!Scan
<1>2. PrintOk' /\ BoundOk' /\ FilterOk'
  BY <1>1, StaysFiltered
<1>3. /\ L!First(L!Hits(filtered), MaxHits) \subseteq L!Added(filtered) /\ L!First(sast, MaxHits) \subseteq L!Added(filtered)
      /\ \A d : L!Entries(d) \subseteq L!Added(d)
  BY DEF L!First, L!Hits, L!Entries
<1>4. FoundOk'
  <2>1. SUFFICES ASSUME NEW f \in found'
                 PROVE  \E i, by : \/ i \in L!Added(filtered) /\ f = L!Finding(filtered, i, by)
                                   \/ i \in L!Added(input) /\ f = L!Finding(input, i, by)
    BY <1>1 DEF FoundOk
  <2>2. CASE f \in found
    BY <2>2 DEF ReadInv, FoundOk
  <2>3. CASE f \in {L!Finding(filtered, i, "secrets") : i \in L!First(L!Hits(filtered), MaxHits)}
    BY <1>3, <2>3
  <2>4. CASE f \in {L!Finding(filtered, i, "sast") : i \in L!First(sast, MaxHits)}
    BY <1>3, <2>4
  <2>5. CASE f \in L!Introduced
    BY <1>3, <2>5 DEF L!Introduced
  <2>6. QED  BY <1>1, <2>1, <2>2, <2>3, <2>4, <2>5
<1>5. PassOk'
  <2>1. DOMAIN check = L!Checks
    BY DEF ReadInv, PassOk
  <2>2. /\ check'["rule"] = check["rule"] /\ check'["secrets"] = L!Verdict(L!Hits(filtered), "PASS")
        /\ check'["sast"] = L!Verdict(sast, "PASS") /\ DOMAIN check' = L!Checks
    BY <1>1, <2>1 DEF L!Checks
  <2>3. check'["secrets"] = "PASS" => whole /\ L!Hits(filtered) = {}
    BY <2>2 DEF L!Verdict
  <2>4. check'["sast"] = "PASS" => whole /\ sast = {}
    BY <2>2 DEF L!Verdict
  <2>5. check'["rule"] = "PASS" => whole /\ L!Hits(filtered) = {}
    BY <2>2 DEF ReadInv, PassOk
  <2>6. QED  BY <1>1, <2>2, <2>3, <2>4, <2>5 DEF PassOk
<1>6. QED  BY <1>2, <1>4, <1>5 DEF ReadInv

-------------------------------------------------------------------------------

\* Both what is bounded and what is filtered of a plain diff is well formed; a line of either is one
\* of the diff, and when nothing was cut all lines that are not ignored are in it.
IsLine(z, l) == z.kind = l.kind /\ z.file = l.file /\ z.at = l.at /\ (l.is # "long" => z.is = l.is)

LEMMA InputIs ==
    ASSUME ReadInv, step # "print", L!Plain
    PROVE  /\ \E y : Formed(input, y)
           /\ \E n \in 1..Len(diff) : DOMAIN input = 1..n /\ (whole => n = Len(diff))
           /\ DOMAIN input \subseteq DOMAIN diff /\ \A i \in DOMAIN input : IsLine(input[i], diff[i])
           /\ \A i \in DOMAIN input : input[i].file \notin Odd
<1>1. PICK nx : Formed(diff, nx)
  BY DEF ReadInv, PrintOk
<1>2. PICK n \in 1..Len(diff) : /\ input = [i \in 1..n |-> L!Shorten(diff[i])]
                                /\ whole = (n = Len(diff) /\ \A i \in DOMAIN diff : diff[i].is # "long")
  BY DEF ReadInv, BoundOk
<1>3. diff \in Seq(PrintedLine) /\ DOMAIN diff = 1..Len(diff) /\ Len(diff) \in Nat /\ \A i \in DOMAIN diff : diff[i] \in PrintedLine
  BY DEF ReadInv, PrintOk
<1>4. DOMAIN input = 1..n /\ n \in Nat /\ 1..n \subseteq DOMAIN diff /\ \A i \in 1..n : input[i] = L!Shorten(diff[i])
  <2>1. n \in Nat /\ n <= Len(diff)
    BY <1>3
  <2>2. 1..n \subseteq DOMAIN diff
    BY <1>3, <2>1
  <2>3. DOMAIN input = 1..n /\ \A i \in 1..n : input[i] = L!Shorten(diff[i])
    BY <1>2
  <2>4. QED  BY <2>1, <2>2, <2>3
<1>5. ASSUME NEW l \in PrintedLine PROVE IsLine(L!Shorten(l), l)
  BY DEF L!Shorten, IsLine, PrintedLine
<1>6. \A i \in 1..n : IsLine(input[i], diff[i])
  BY <1>3, <1>4, <1>5
<1>7. \E y : Formed(input, y)
  <2>1. PICK p \in [1..n -> DOMAIN diff] : \A k \in 1..n : p[k] = k
    <3> DEFINE same == [k \in 1..n |-> k]
    <3>1. same \in [1..n -> DOMAIN diff] /\ \A k \in 1..n : same[k] = k
      BY <1>4
    <3>2. QED  BY <3>1
  <2>2. \A k \in 1..n : /\ input[k].kind = diff[p[k]].kind /\ input[k].file = diff[p[k]].file
                        /\ input[k].at = diff[p[k]].at
    BY <1>6, <2>1 DEF IsLine
  <2>3. ASSUME NEW k \in 1..n, diff[p[k]].kind # "git" PROVE k - 1 \in 1..n /\ p[k - 1] = p[k] - 1
    <3>1. k - 1 \in DOMAIN diff
      BY <1>1, <1>4, <2>1, <2>3 DEF Formed, Fits
    <3>2. k - 1 \in 1..n
      BY <1>3, <1>4, <3>1
    <3>3. QED  BY <2>1, <3>2
  <2>4. Formed(input, [k \in 1..n |-> nx[p[k]]])
    <3>1. \A k \in 1..n : diff[p[k]].kind # "git" => k - 1 \in 1..n /\ p[k - 1] = p[k] - 1
      BY <2>3
    <3>2. Formed(diff, nx) /\ n \in Nat /\ DOMAIN input = 1..n /\ p \in [1..n -> DOMAIN diff]
      BY <1>1, <1>4, <2>1
    <3>3. \A e : /\ DOMAIN e = 1..n
                 /\ \A k \in 1..n : e[k].kind = diff[p[k]].kind /\ e[k].file = diff[p[k]].file /\ e[k].at = diff[p[k]].at
                 => Formed(e, [k \in 1..n |-> nx[p[k]]])
      BY <3>1, <3>2, PartIs
    <3>4. QED  BY <2>2, <3>2, <3>3
  <2>5. QED  BY <2>4
<1>8. \A i \in DOMAIN input : input[i].file \notin Odd
  BY <1>4, <1>6 DEF L!Plain, IsLine
<1>9. QED  BY <1>2, <1>4, <1>6, <1>7, <1>8

LEMMA FilteredIs ==
    ASSUME ReadInv, step \notin {"print", "filter"}, L!Plain
    PROVE  /\ \E y : Formed(filtered, y)
           /\ \A k \in DOMAIN filtered : \E i \in DOMAIN diff : IsLine(filtered[k], diff[i])
           /\ \A k \in DOMAIN filtered : filtered[k].file \notin Odd
           /\ whole => \A i \in DOMAIN diff : diff[i].file \notin Ignored => \E k \in DOMAIN filtered : IsLine(filtered[k], diff[i])
<1>1. PICK nx : Formed(input, nx)
  BY InputIs
<1>2. PICK n \in 1..Len(diff) : DOMAIN input = 1..n /\ (whole => n = Len(diff))
  BY InputIs
<1>3. /\ DOMAIN input \subseteq DOMAIN diff /\ \A i \in DOMAIN input : IsLine(input[i], diff[i])
      /\ \A i \in DOMAIN input : input[i].file \notin Odd
  BY InputIs
<1>4. n \in Nat /\ DOMAIN diff = 1..Len(diff)
  BY <1>2 DEF ReadInv, PrintOk
<1>5. \A i : i \in Kept <=> i \in 1..n /\ input[i].file \notin Ignored
  <2>1. L!InChunk(input) = DOMAIN input /\ \A i \in DOMAIN input : L!Name(input, i) = input[i].file
    BY <1>1, <1>3, NameIs
  <2>2. QED  BY <1>2, <2>1 DEF Kept
<1>6. Kept \in SUBSET Nat /\ IsFiniteSet(Kept) /\ Cardinality(Kept) \in Nat
  <2>1. Kept \subseteq 1..n
    BY <1>5
  <2>2. QED  BY <1>4, <2>1, FiniteIn
<1> DEFINE N == Cardinality(Kept)
<1>7. PICK p \in [1..N -> Kept] :
              /\ \A i \in Kept : \E k \in 1..N : p[k] = i
              /\ \A k \in 1..N : p[k] - 1 \in Kept => k - 1 \in 1..N /\ p[k - 1] = p[k] - 1
              /\ \A d : L!Pick(d, Kept) = [k \in 1..N |-> d[p[k]]]
  BY <1>6, PickIs
<1>8. filtered = [k \in 1..N |-> input[p[k]]]
  BY <1>7 DEF ReadInv, FilterOk
<1> HIDE DEF N
<1>9. DOMAIN filtered = 1..N /\ N \in Nat /\ \A k \in 1..N : filtered[k] = input[p[k]] /\ p[k] \in Kept /\ p[k] \in DOMAIN input
  BY <1>2, <1>5, <1>6, <1>7, <1>8 DEF N
<1>10. \E y : Formed(filtered, y)
  <2>1. p \in [1..N -> DOMAIN input]
    BY <1>7, <1>9
  <2>2. ASSUME NEW k \in 1..N, input[p[k]].kind # "git" PROVE k - 1 \in 1..N /\ p[k - 1] = p[k] - 1
    <3>1. p[k] - 1 \in DOMAIN input /\ input[p[k]].file = input[p[k] - 1].file
      BY <1>1, <1>9, <2>2 DEF Formed, Fits, FitsTo
    <3>2. p[k] - 1 \in Kept
      BY <1>2, <1>5, <1>9, <3>1
    <3>3. QED  BY <1>7, <3>2
  <2>3. Formed(filtered, [k \in 1..N |-> nx[p[k]]])
    BY <1>1, <1>9, <2>1, <2>2, PartIs
  <2>4. QED  BY <2>3
<1>11. ASSUME NEW k \in DOMAIN filtered PROVE (\E i \in DOMAIN diff : IsLine(filtered[k], diff[i])) /\ filtered[k].file \notin Odd
  <2>1. filtered[k] = input[p[k]] /\ p[k] \in DOMAIN input
    BY <1>9
  <2>2. QED  BY <1>3, <2>1
<1>12. ASSUME whole, NEW i \in DOMAIN diff, diff[i].file \notin Ignored PROVE \E k \in DOMAIN filtered : IsLine(filtered[k], diff[i])
  <2>1. i \in DOMAIN input /\ i \in 1..n
    BY <1>2, <1>4, <1>12
  <2>2. IsLine(input[i], diff[i]) /\ i \in Kept
    BY <1>3, <1>5, <1>12, <2>1 DEF IsLine
  <2>3. PICK k \in 1..N : p[k] = i
    BY <1>7, <2>2
  <2>4. QED  BY <1>9, <2>2, <2>3
<1>13. QED  BY <1>10, <1>11, <1>12

\* So what is found is where it says, and what passes has been looked at whole.
LEMMA ReadIsSound == ASSUME ReadInv PROVE L!ReadingSound
<1>1. ASSUME L!Plain PROVE /\ \A f \in found : f.file = f.real.file /\ f.line = f.real.at
                           /\ \A f \in L!Anchored : \E i \in DOMAIN diff :
                                 diff[i].kind = "added" /\ diff[i].file = f.file /\ diff[i].at = f.line
  <2>1. step # "print" => \A i \in L!Added(input) : L!Name(input, i) = input[i].file /\ L!Number(input, i) = input[i].at
    <3>1. SUFFICES ASSUME step # "print" PROVE \A i \in L!Added(input) : L!Name(input, i) = input[i].file /\ L!Number(input, i) = input[i].at
      OBVIOUS
    <3>2. PICK y : Formed(input, y)
      BY <1>1, <3>1, InputIs
    <3>3. \A i \in DOMAIN input : input[i].file \notin Odd
      BY <1>1, <3>1, InputIs
    <3>4. \A i \in DOMAIN input : L!Name(input, i) = input[i].file
      BY <3>2, <3>3, NameIs
    <3>5. L!Added(input) = {i \in DOMAIN input : input[i].kind = "added"} /\ \A i \in L!Added(input) : L!Number(input, i) = input[i].at
      BY <3>2, <3>3, AddedAre
    <3>6. QED  BY <3>4, <3>5
  <2>2. step \notin {"print", "filter"} =>
           \A i \in L!Added(filtered) : /\ i \in DOMAIN filtered /\ filtered[i].kind = "added"
                                        /\ L!Name(filtered, i) = filtered[i].file /\ L!Number(filtered, i) = filtered[i].at
    <3>1. SUFFICES ASSUME step \notin {"print", "filter"}
                   PROVE  \A i \in L!Added(filtered) : /\ i \in DOMAIN filtered /\ filtered[i].kind = "added"
                                        /\ L!Name(filtered, i) = filtered[i].file /\ L!Number(filtered, i) = filtered[i].at
      OBVIOUS
    <3>2. PICK y : Formed(filtered, y)
      BY <1>1, <3>1, FilteredIs
    <3>3. \A i \in DOMAIN filtered : filtered[i].file \notin Odd
      BY <1>1, <3>1, FilteredIs
    <3>4. \A i \in DOMAIN filtered : L!Name(filtered, i) = filtered[i].file
      BY <3>2, <3>3, NameIs
    <3>5. /\ L!Added(filtered) = {i \in DOMAIN filtered : filtered[i].kind = "added"}
          /\ \A i \in L!Added(filtered) : L!Number(filtered, i) = filtered[i].at
      BY <3>2, <3>3, AddedAre
    <3>6. QED  BY <3>4, <3>5
  <2>3. ASSUME NEW f \in found PROVE f.file = f.real.file /\ f.line = f.real.at
    <3>1. PICK i, by : \/ step \notin {"print", "filter"} /\ i \in L!Added(filtered) /\ f = L!Finding(filtered, i, by)
                       \/ step # "print" /\ i \in L!Added(input) /\ f = L!Finding(input, i, by)
      BY DEF ReadInv, FoundOk
    <3>2. QED  BY <2>1, <2>2, <3>1 DEF L!Finding
  <2>4. ASSUME NEW f \in L!Anchored PROVE \E i \in DOMAIN diff : diff[i].kind = "added" /\ diff[i].file = f.file /\ diff[i].at = f.line
    <3>1. f \in found /\ <<f.file, f.line>> \in L!Anchors
      BY DEF L!Anchored
    <3>2. PICK i \in L!Added(filtered) : <<f.file, f.line>> = <<L!Name(filtered, i), L!Number(filtered, i)>>
      BY <3>1 DEF L!Anchors
    <3>3. step \notin {"print", "filter"}
      <4>1. SUFFICES ASSUME step \in {"print", "filter"} PROVE FALSE
        OBVIOUS
      <4>2. filtered = <<>>
        BY <4>1 DEF ReadInv, FilterOk
      <4>3. L!Added(filtered) \subseteq DOMAIN filtered
        BY DEF L!Added, L!InChunk
      <4>4. QED  BY <3>2, <4>2, <4>3
    <3>4. /\ i \in DOMAIN filtered /\ filtered[i].kind = "added" /\ filtered[i].file = f.file /\ filtered[i].at = f.line
      BY <2>2, <3>2, <3>3
    <3>5. PICK k \in DOMAIN diff : IsLine(filtered[i], diff[k])
      BY <1>1, <3>3, <3>4, FilteredIs
    <3>6. QED  BY <3>4, <3>5 DEF IsLine
  <2>5. QED  BY <2>3, <2>4
<1>2. ASSUME L!Plain, NEW c \in {"rule", "secrets", "sast"}, check[c] = "PASS",
             NEW i \in DOMAIN diff, diff[i].kind = "added", diff[i].is \in {"hit", "long"},
             diff[i].file \in (IF c = "sast" THEN Code ELSE L!Paths) \ Ignored
      PROVE  FALSE
  <2>1. /\ step \notin {"print", "filter"} /\ whole
        /\ \A k \in L!Hits(filtered) : c = "sast" /\ L!Name(filtered, k) \notin Code
    BY <1>2 DEF ReadInv, PassOk
  <2>2. \A k \in DOMAIN diff : diff[k].is # "long"
    BY <2>1 DEF ReadInv, BoundOk
  <2>3. PICK k \in DOMAIN filtered : IsLine(filtered[k], diff[i])
    BY <1>2, <2>1, FilteredIs
  <2>4. filtered[k].kind = "added" /\ filtered[k].is = "hit" /\ filtered[k].file = diff[i].file
    BY <1>2, <2>2, <2>3 DEF IsLine
  <2>5. PICK y : Formed(filtered, y)
    BY <1>2, <2>1, FilteredIs
  <2>6. \A j \in DOMAIN filtered : filtered[j].file \notin Odd
    BY <1>2, <2>1, FilteredIs
  <2>7. L!Added(filtered) = {j \in DOMAIN filtered : filtered[j].kind = "added"}
    BY <2>5, <2>6, AddedAre
  <2>8. k \in L!Hits(filtered)
    BY <2>4, <2>7 DEF L!Hits
  <2>9. L!Name(filtered, k) = filtered[k].file
    BY <2>5, <2>6, NameIs
  <2>10. QED  BY <1>2, <2>1, <2>4, <2>8, <2>9
<1>3. L!FindingsInPlace
  BY <1>1 DEF L!FindingsInPlace
<1>4. L!CleanIsWhole
  BY <1>2 DEF L!CleanIsWhole
<1>5. QED  BY <1>3, <1>4 DEF L!ReadingSound

LEMMA ReadHolds == L!DiffConstants => (L!Spec => []ReadInv)
<1>1. ASSUME L!DiffConstants, ReadInv, [L!Next]_L!vars PROVE ReadInv'
  <2>1. CASE UNCHANGED L!vars
    <3>1. UNCHANGED <<diff, at, step, input, whole, filtered, found, check>>
      BY <2>1 DEF L!vars
    <3>2. PrintOk'
      BY <1>1, <3>1 DEF ReadInv, PrintOk, Ends
    <3>3. BoundOk'
      BY <1>1, <3>1 DEF ReadInv, BoundOk
    <3>4. FilterOk'
      BY <1>1, <3>1 DEF ReadInv, FilterOk, Kept
    <3>5. FoundOk' /\ PassOk'
      BY <1>1, <3>1 DEF ReadInv, FoundOk, PassOk
    <3>6. QED  BY <3>2, <3>3, <3>4, <3>5 DEF ReadInv
  <2>2. CASE L!Next
    BY <1>1, <2>2, PrintFileReads, PrintHunkReads, PrintLineReads, PrintMarkReads, BoundReads, FilterReads,
       EvaluateReads, ScanReads DEF L!Next
  <2>3. QED  BY <1>1, <2>1, <2>2
<1>2. SUFFICES ASSUME L!DiffConstants PROVE L!Spec => []ReadInv
  OBVIOUS
<1>3. ReadInv /\ [L!Next]_L!vars => ReadInv'
  BY <1>1, <1>2
<1>4. QED  BY <1>3, ReadBegins, PTL DEF L!Spec

\* However a diff is printed, cut and filtered, every finding names the file and the line it is about, an
\* inline comment is put at an added line, and a check that passes has looked at all lines that were
\* added (diff-filter.service.ts, diff-lines.ts, scan-input.ts).
THEOREM ReadingsAreSound == L!DiffConstants => (L!Spec => [](L!ReadingSound /\ ReadingSound))
<1>1. ReadInv => L!ReadingSound
  BY ReadIsSound
<1>2. L!ReadingSound => ReadingSound
  BY DEF ReadingSound
<1>3. QED  BY <1>1, <1>2, ReadHolds, PTL
===============================================================================
