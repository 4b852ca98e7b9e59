----------------------------- MODULE KnowledgeSafety -----------------------------
(***************************************************************************)
(* The safety of what is known of a repository, for any reviews, findings,   *)
(* tabs, cards, panels, pages and repositories.                              *)
(*                                                                         *)
(* The history: patterns count what there is, what a tab was told is in the  *)
(* trail, and what was superseded or deleted never comes back.  A snapshot    *)
(* has a number its review never had before, so an occurrence that is gone   *)
(* is gone for good: what a tab knows of it cannot be taken for feedback of   *)
(* another one.                                                             *)
(*                                                                         *)
(* The decisions: a finding gives rise to one rule because it never becomes   *)
(* current again: while it is, the audit event of the creation is kept.  A    *)
(* card that waits shows what it asked for to be changed, and what it shows   *)
(* was once so; with the revision equal, it is so now.                        *)
(***************************************************************************)
EXTENDS Knowledge, Integers, FiniteSetTheorems, SequenceTheorems, TLAPS

-------------------------------------------------------------------------------
(* The history: types *)

Occurrences == Jobs \X Nat \X Findings
Reviews     == [done : BOOLEAN, stored : SUBSET Findings, snapshot : Nat, hash : (SUBSET Findings) \cup {None},
                old : BOOLEAN]
Marks       == [is : Dispositions \cup {"CONFLICT"}, revision : Nat]
TabStates   == [pc : {"idle", "sent", "checked", "answered"}, on : Occurrences \cup {None}, feedback : Marks,
                wants : Dispositions \cup {None}, expects : Nat, answer : Marks \cup {None}, saved : BOOLEAN]

JobsOK     == job \in [Jobs -> Reviews]
FoundOK    == occurrence \in [DOMAIN occurrence -> {"current", "superseded"}] /\ DOMAIN occurrence \subseteq Occurrences
FeedbackOK == /\ feedback \in [DOMAIN feedback -> Marks] /\ DOMAIN feedback \subseteq DOMAIN occurrence
              /\ events \in [DOMAIN feedback -> Seq(Dispositions)]
RepoOK     == /\ repo \in [active : BOOLEAN, memory : BOOLEAN, dirty : BOOLEAN, aggregated : Ages]
              /\ DOMAIN patterns \subseteq Fingerprints
TabsOK     == /\ tab \in [Tabs -> TabStates]
              /\ \A t \in Tabs : /\ tab[t].pc # "idle" => tab[t].wants \in Dispositions
                                 /\ tab[t].pc = "answered" => tab[t].answer \in Marks
RestOK     == /\ sweep \subseteq Occurrences /\ leaving \in BOOLEAN /\ reader \in [Readers -> {"idle", "rebuild"}]
              /\ saves \in Nat /\ faults \in Nat

TypeOK == JobsOK /\ FoundOK /\ FeedbackOK /\ RepoOK /\ TabsOK /\ RestOK

-------------------------------------------------------------------------------
(* The inductive invariants *)

\* A review that has a hash has been recorded; the patterns that have not expired count what there
\* is, and none is lacking while the repository is marked as aggregated.
Recorded == \A j \in Jobs : job[j].hash # None => job[j].done
Counted  == \A fp \in DOMAIN patterns : /\ patterns[fp].from \subseteq Jobs
                                        /\ Expired(patterns[fp]) \/ patterns[fp] = Aggregate(fp)
Whole    == ~repo.dirty => \A fp \in Fingerprints : Evidence(fp) # {} => fp \in DOMAIN patterns
Patterns == Recorded /\ Counted /\ Whole

\* A snapshot that is known, here or in a tab, is not of the future of its review.
Numbered == \A o \in DOMAIN occurrence : o[2] <= job[o[1]].snapshot
Seen     == \A t \in Tabs : tab[t].on # None => tab[t].on \in Occurrences /\ tab[t].on[2] <= job[tab[t].on[1]].snapshot

\* Every revision of a feedback has its event, and the last one says what the feedback says.
Logged   == \A o \in DOMAIN feedback : /\ Len(events[o]) = feedback[o].revision
                                       /\ feedback[o].revision > 0
                                       /\ events[o][Len(events[o])] = feedback[o].is

\* What tab t is told about its request is in the events, unless the occurrence is gone, for good.
Holds(t, mark) == tab[t].on \in DOMAIN occurrence =>
                      /\ tab[t].on \in DOMAIN feedback /\ mark.revision \in 1..Len(events[tab[t].on])
                      /\ events[tab[t].on][mark.revision] = tab[t].wants
Told(t)  == /\ tab[t].saved => Holds(t, tab[t].feedback)
            /\ tab[t].pc = "answered" /\ tab[t].answer # Conflict => Holds(t, tab[t].answer)
            /\ tab[t].pc \in {"sent", "checked"} => tab[t].expects = tab[t].feedback.revision
            /\ tab[t].saved \/ tab[t].pc # "idle" => tab[t].on # None
Trail    == Numbered /\ Seen /\ Logged /\ \A t \in Tabs : Told(t)

LEMMA InitAll == Init => TypeOK /\ Patterns /\ Trail
<1>1. SUFFICES ASSUME Init PROVE TypeOK /\ Patterns /\ Trail
  OBVIOUS
<1>2. DOMAIN occurrence = {} /\ DOMAIN feedback = {} /\ DOMAIN events = {} /\ DOMAIN patterns = {}
  <2>1. occurrence = Nothing /\ feedback = Nothing /\ events = Nothing /\ patterns = Nothing
    BY <1>1 DEF Init
  <2>2. DOMAIN Nothing = {}
    BY DEF Nothing
  <2>3. QED  BY <2>1, <2>2
<1>3. JobsOK /\ Recorded
  <2>1. PICK a, b : /\ a = [done |-> FALSE, stored |-> {}, snapshot |-> 0, hash |-> None, old |-> FALSE]
                    /\ b = [done |-> TRUE, stored |-> Findings, snapshot |-> 0, hash |-> None, old |-> FALSE]
    OBVIOUS
  <2>2. {} \in SUBSET Findings /\ Findings \in SUBSET Findings
    OBVIOUS
  <2>3. a \in Reviews /\ a.hash = None
    BY <2>1, <2>2 DEF Reviews
  <2>4. b \in Reviews /\ b.hash = None
    BY <2>1, <2>2 DEF Reviews
  <2>5. job \in [Jobs -> {a, b}]
    BY <1>1, <2>1 DEF Init
  <2>6. QED  BY <2>3, <2>4, <2>5 DEF JobsOK, Recorded
<1>4. FoundOK /\ FeedbackOK
  <2>1. occurrence = Nothing /\ feedback = Nothing /\ events = Nothing
    BY <1>1 DEF Init
  <2>2. QED  BY <2>1 DEF FoundOK, FeedbackOK, Nothing
<1>5. RepoOK /\ repo.dirty
  <2>1. repo = [active |-> TRUE, memory |-> FALSE, dirty |-> TRUE, aggregated |-> "never"]
    BY <1>1 DEF Init
  <2>2. QED  BY <1>2, <2>1 DEF RepoOK, Ages
<1>6. IdleTab \in TabStates /\ IdleTab.on = None /\ ~IdleTab.saved /\ IdleTab.pc = "idle"
  BY DEF IdleTab, TabStates, Unreviewed, Marks, Dispositions
<1>7. TabsOK /\ Seen /\ \A t \in Tabs : Told(t)
  <2>1. tab = [t \in Tabs |-> IdleTab]
    BY <1>1 DEF Init
  <2>2. QED  BY <1>6, <2>1 DEF TabsOK, Seen, Told
<1>8. RestOK
  <2>1. sweep = {} /\ leaving = FALSE /\ reader = [r \in Readers |-> "idle"] /\ saves = 0 /\ faults = 0
    BY <1>1 DEF Init
  <2>2. QED  BY <2>1 DEF RestOK
<1>9. QED  BY <1>1, <1>2, <1>3, <1>4, <1>5, <1>7, <1>8 DEF TypeOK, Patterns, Counted, Whole, Trail, Numbered, Logged

-------------------------------------------------------------------------------
(* What the steps do to what is stored *)

LEMMA DirtyFacts ==
    ASSUME RepoOK, Dirty
    PROVE  RepoOK' /\ repo'.dirty /\ repo'.active = repo.active /\ Counted' /\ Whole'
<1>1. repo' = [repo EXCEPT !.dirty = TRUE] /\ patterns' = Nothing
  BY DEF Dirty
<1>2. DOMAIN patterns' = {}
  BY <1>1 DEF Nothing
<1>3. RepoOK' /\ repo'.dirty /\ repo'.active = repo.active
  BY <1>1, <1>2 DEF RepoOK
<1>4. QED  BY <1>2, <1>3 DEF Counted, Whole

\* What was recorded before stays, superseded or not; what is new has a number that is new.
LEMMA RecordFacts ==
    ASSUME JobsOK, FoundOK, NEW j \in Jobs, NEW content \in SUBSET Findings, Record(j, content)
    PROVE  /\ JobsOK' /\ FoundOK' /\ job'[j].done /\ \A i \in Jobs \ {j} : job'[i] = job[i]
           /\ job'[j].snapshot >= job[j].snapshot /\ job'[j].old = job[j].old
           /\ \A o \in DOMAIN occurrence : /\ o \in DOMAIN occurrence'
                                           /\ occurrence[o] = "superseded" => occurrence'[o] = "superseded"
           /\ \A o \in DOMAIN occurrence' \ DOMAIN occurrence :
                 o[1] = j /\ o[2] > job[j].snapshot /\ o[2] <= job'[j].snapshot
           /\ \/ UNCHANGED <<occurrence, repo, patterns>> /\ job[j].hash # None
              \/ Dirty
<1>1. job[j] \in Reviews
  BY DEF JobsOK
<1>2. CASE job[j].hash = content
  <2>1. PICK r : r = [job[j] EXCEPT !.done = TRUE, !.stored = content]
    OBVIOUS
  <2>2. r \in Reviews /\ r.done /\ r.snapshot = job[j].snapshot /\ r.old = job[j].old
    BY <1>1, <2>1 DEF Reviews
  <2>3. job' = [job EXCEPT ![j] = r] /\ UNCHANGED <<occurrence, repo, patterns>>
    BY <1>2, <2>1 DEF Record
  <2>4. job'[j] = r /\ JobsOK' /\ \A i \in Jobs \ {j} : job'[i] = job[i]
    BY <2>2, <2>3 DEF JobsOK
  <2>5. job[j].hash # None
    BY <1>2, HistoryAssumption
  <2>6. r.snapshot \in Nat
    BY <2>2 DEF Reviews
  <2>7. FoundOK'
    BY <2>3 DEF FoundOK
  <2>8. QED  BY <2>2, <2>3, <2>4, <2>5, <2>6, <2>7
<1>3. CASE job[j].hash # content
  <2> DEFINE n == job[j].snapshot + 1
             fresh == {<<j, n, f>> : f \in content}
  <2>1. PICK r : r = [job[j] EXCEPT !.done = TRUE, !.stored = content, !.snapshot = n, !.hash = content]
    OBVIOUS
  <2>2. n \in Nat /\ n > job[j].snapshot /\ n >= job[j].snapshot
    BY <1>1 DEF Reviews
  <2>3. r \in Reviews /\ r.done /\ r.snapshot = n /\ r.old = job[j].old
    BY <1>1, <2>1, <2>2 DEF Reviews
  <2>4. /\ job' = [job EXCEPT ![j] = r] /\ Dirty
        /\ occurrence' = [o \in DOMAIN occurrence \cup fresh |->
                             IF o \notin DOMAIN occurrence THEN "current"
                             ELSE IF o[1] = j THEN "superseded" ELSE occurrence[o]]
    BY <1>3, <2>1 DEF Record
  <2>5. job'[j] = r /\ JobsOK' /\ \A i \in Jobs \ {j} : job'[i] = job[i]
    BY <2>3, <2>4 DEF JobsOK
  <2>6. \A o \in fresh : o \in Occurrences /\ o[1] = j /\ o[2] = n
    BY <2>2 DEF Occurrences
  <2>7. \A o \in DOMAIN occurrence : /\ o \in DOMAIN occurrence'
                                     /\ occurrence'[o] \in {"current", "superseded"}
                                     /\ occurrence[o] = "superseded" => occurrence'[o] = "superseded"
    BY <2>4 DEF FoundOK
  <2>8. \A o \in DOMAIN occurrence' \ DOMAIN occurrence : o \in fresh /\ occurrence'[o] = "current"
    BY <2>4
  <2>9. FoundOK'
    <3>1. DOMAIN occurrence' \subseteq Occurrences
      BY <2>6, <2>8 DEF FoundOK
    <3>2. \A o \in DOMAIN occurrence' : occurrence'[o] \in {"current", "superseded"}
      BY <2>7, <2>8
    <3>3. occurrence' = [o \in DOMAIN occurrence' |-> occurrence'[o]]
      BY <2>4
    <3>4. QED  BY <3>1, <3>2, <3>3 DEF FoundOK
  <2>10. \A o \in DOMAIN occurrence' \ DOMAIN occurrence :
            o[1] = j /\ o[2] > job[j].snapshot /\ o[2] <= job'[j].snapshot
    BY <2>2, <2>3, <2>5, <2>6, <2>8
  <2>11. QED  BY <2>2, <2>3, <2>4, <2>5, <2>7, <2>9, <2>10
<1>4. QED  BY <1>2, <1>3

\* What is erased is gone with its feedback; the rest stays as it was.
LEMMA EraseFacts ==
    ASSUME FoundOK, FeedbackOK, NEW S, Erase(S)
    PROVE  /\ FoundOK' /\ FeedbackOK'
           /\ DOMAIN occurrence' = DOMAIN occurrence \ S /\ DOMAIN feedback' = DOMAIN feedback \ S
           /\ \A o \in DOMAIN occurrence' : occurrence'[o] = occurrence[o]
           /\ \A o \in DOMAIN feedback' : feedback'[o] = feedback[o] /\ events'[o] = events[o]
<1>1. /\ occurrence' = [o \in DOMAIN occurrence \ S |-> occurrence[o]]
      /\ feedback' = [o \in DOMAIN feedback \ S |-> feedback[o]]
      /\ events' = [o \in DOMAIN events \ S |-> events[o]]
  BY DEF Erase, Without, Restrict
<1>2. DOMAIN events = DOMAIN feedback
  BY DEF FeedbackOK
<1>3. FoundOK'
  BY <1>1 DEF FoundOK
<1>4. FeedbackOK'
  BY <1>1, <1>2 DEF FeedbackOK
<1>5. QED  BY <1>1, <1>2, <1>3, <1>4

\* Saving adds one event to one occurrence.
LEMMA SaveFacts ==
    ASSUME FeedbackOK, NEW o \in DOMAIN occurrence, NEW d \in Dispositions, NEW n \in Nat, Save(o, d, n)
    PROVE  LET trail == IF o \in DOMAIN feedback THEN events[o] ELSE <<>> IN
           /\ FeedbackOK' /\ UNCHANGED <<job, occurrence>> /\ Dirty
           /\ DOMAIN feedback' = DOMAIN feedback \cup {o}
           /\ feedback'[o] = [is |-> d, revision |-> n] /\ events'[o] = Append(trail, d)
           /\ trail \in Seq(Dispositions)
           /\ \A x \in DOMAIN feedback \ {o} : feedback'[x] = feedback[x] /\ events'[x] = events[x]
<1> DEFINE trail == IF o \in DOMAIN feedback THEN events[o] ELSE <<>>
<1>1. DOMAIN events = DOMAIN feedback
  BY DEF FeedbackOK
<1>2. PICK mark : mark = [is |-> d, revision |-> n]
  OBVIOUS
<1>3. PICK longer : longer = Append(trail, d)
  OBVIOUS
<1>4. /\ feedback' = Put(feedback, o, mark) /\ events' = Put(events, o, longer)
      /\ Dirty /\ UNCHANGED <<job, occurrence>>
  BY <1>1, <1>2, <1>3 DEF Save
<1>5. /\ feedback' = [x \in {o} \cup DOMAIN feedback |-> IF x = o THEN mark ELSE feedback[x]]
      /\ events' = [x \in {o} \cup DOMAIN feedback |-> IF x = o THEN longer ELSE events[x]]
  BY <1>1, <1>4 DEF Put
<1>6. trail \in Seq(Dispositions) /\ longer \in Seq(Dispositions)
  <2>1. trail \in Seq(Dispositions)
    BY EmptySeq DEF FeedbackOK
  <2>2. QED  BY <1>3, <2>1, AppendProperties
<1>7. mark \in Marks
  BY <1>2 DEF Marks
<1>8. FeedbackOK'
  <2>1. feedback' \in [DOMAIN feedback' -> Marks] /\ DOMAIN feedback' = {o} \cup DOMAIN feedback
    BY <1>5, <1>7 DEF FeedbackOK
  <2>2. events' \in [DOMAIN feedback' -> Seq(Dispositions)]
    BY <1>5, <1>6, <2>1 DEF FeedbackOK
  <2>3. DOMAIN feedback' \subseteq DOMAIN occurrence'
    BY <1>4, <2>1 DEF FeedbackOK
  <2>4. QED  BY <2>1, <2>2, <2>3 DEF FeedbackOK
<1>9. QED  BY <1>2, <1>3, <1>4, <1>5, <1>6, <1>8

-------------------------------------------------------------------------------
(* What the steps do to the tabs *)

\* Tab t comes to be a; the others stay.
Turns(t, a) == tab'[t] = a /\ \A q \in Tabs \ {t} : tab'[q] = tab[q]

LEMMA TabTurns ==
    ASSUME TabsOK, NEW t \in Tabs, NEW a \in TabStates, tab' = [tab EXCEPT ![t] = a],
           a.pc # "idle" => a.wants \in Dispositions, a.pc = "answered" => a.answer \in Marks
    PROVE  TabsOK' /\ Turns(t, a)
BY DEF TabsOK, Turns

LEMMA MarksMade == Conflict \in Marks /\ Unreviewed \in Marks /\ Conflict.is = "CONFLICT"
BY DEF Conflict, Unreviewed, Marks, Dispositions

LEMMA LoadTurns ==
    ASSUME TabsOK, FoundOK, FeedbackOK, NEW t \in Tabs, NEW o \in DOMAIN occurrence, Load(t, o)
    PROVE  \E a \in TabStates : /\ TabsOK' /\ Turns(t, a) /\ a.pc = "idle" /\ ~a.saved /\ a.on = o
<1> DEFINE shown == IF o \in DOMAIN feedback THEN feedback[o] ELSE Unreviewed
<1>1. shown \in Marks
  BY MarksMade DEF FeedbackOK
<1>2. PICK a : a = [IdleTab EXCEPT !.on = o, !.feedback = shown]
  OBVIOUS
<1>3. o \in Occurrences
  BY DEF FoundOK
<1>4. a \in TabStates /\ a.pc = "idle" /\ ~a.saved /\ a.on = o
  BY <1>1, <1>2, <1>3 DEF IdleTab, TabStates
<1>5. tab' = [tab EXCEPT ![t] = a]
  BY <1>2 DEF Load
<1>6. QED  BY <1>4, <1>5, TabTurns

LEMMA SubmitTurns ==
    ASSUME TabsOK, NEW t \in Tabs, NEW d \in Dispositions, Submit(t, d)
    PROVE  \E a \in TabStates : /\ TabsOK' /\ Turns(t, a) /\ a.pc = "sent" /\ ~a.saved /\ a.on = tab[t].on
                                /\ a.feedback = tab[t].feedback /\ a.expects = tab[t].feedback.revision
<1>1. tab[t] \in TabStates
  BY DEF TabsOK
<1>2. PICK a : a = [tab[t] EXCEPT !.pc = "sent", !.wants = d, !.saved = FALSE, !.expects = tab[t].feedback.revision]
  OBVIOUS
<1>3. tab[t].feedback.revision \in Nat
  BY <1>1 DEF TabStates, Marks
<1>4. /\ a \in TabStates /\ a.pc = "sent" /\ ~a.saved /\ a.on = tab[t].on /\ a.wants = d
      /\ a.feedback = tab[t].feedback /\ a.expects = tab[t].feedback.revision
  BY <1>1, <1>2, <1>3 DEF TabStates
<1>5. tab' = [tab EXCEPT ![t] = a]
  BY <1>1, <1>2 DEF Submit, TabsOK
<1>6. QED  BY <1>4, <1>5, TabTurns

\* A reply goes to the tab that waits.
LEMMA ReplyTurns ==
    ASSUME TabsOK, NEW t \in Tabs, tab[t].pc # "idle", NEW mark \in Marks, Replies(t, mark)
    PROVE  \E a \in TabStates : /\ TabsOK' /\ Turns(t, a) /\ a.pc = "answered" /\ a.answer = mark
                                /\ a.saved = tab[t].saved /\ a.on = tab[t].on /\ a.wants = tab[t].wants
                                /\ a.feedback = tab[t].feedback
<1>1. tab[t] \in TabStates /\ tab[t].wants \in Dispositions
  BY DEF TabsOK
<1>2. PICK a : a = [tab[t] EXCEPT !.pc = "answered", !.answer = mark]
  OBVIOUS
<1>3. /\ a \in TabStates /\ a.pc = "answered" /\ a.answer = mark /\ a.wants = tab[t].wants
      /\ a.on = tab[t].on /\ a.feedback = tab[t].feedback
  BY <1>1, <1>2 DEF TabStates
<1>4. a.saved = tab[t].saved
  BY <1>1, <1>2 DEF TabStates
<1>5. tab' = [tab EXCEPT ![t] = a]
  BY <1>1, <1>2 DEF Replies, TabsOK
<1>6. QED  BY <1>1, <1>3, <1>4, <1>5, TabTurns

\* The tab goes on with what it knows: checked, refused or lost.
LEMMA KeepTurns ==
    ASSUME TabsOK, NEW t \in Tabs, Precheck(t) \/ Lose(t) \/ (Receive(t) /\ tab[t].answer = Conflict)
    PROVE  \E a \in TabStates : /\ TabsOK' /\ Turns(t, a) /\ a.saved = tab[t].saved /\ a.on = tab[t].on
                                /\ a.wants = tab[t].wants /\ a.feedback = tab[t].feedback
                                /\ \/ a.pc = "idle"
                                   \/ a.pc = "answered" /\ tab[t].pc = "sent" /\ a.answer = Conflict
                                   \/ a.pc = "checked" /\ tab[t].pc = "sent" /\ a.expects = tab[t].expects
<1>1. tab[t] \in TabStates
  BY DEF TabsOK
<1>2. CASE Precheck(t) /\ Eligible(tab[t].on)
  <2>1. PICK a : a = [tab[t] EXCEPT !.pc = "checked"]
    OBVIOUS
  <2>2. /\ a \in TabStates /\ a.pc = "checked" /\ a.on = tab[t].on /\ a.wants = tab[t].wants
        /\ a.feedback = tab[t].feedback /\ a.expects = tab[t].expects
    BY <1>1, <2>1 DEF TabStates
  <2>3. a.saved = tab[t].saved
    BY <1>1, <2>1 DEF TabStates
  <2>4. tab' = [tab EXCEPT ![t] = a] /\ tab[t].pc = "sent"
    BY <1>1, <1>2, <2>1 DEF Precheck, TabsOK
  <2>5. tab[t].wants \in Dispositions
    BY <2>4 DEF TabsOK
  <2>6. TabsOK' /\ Turns(t, a)
    BY <2>2, <2>4, <2>5, TabTurns
  <2>7. QED  BY <2>2, <2>3, <2>4, <2>6
<1>3. CASE Precheck(t) /\ ~Eligible(tab[t].on)
  <2>1. tab[t].pc = "sent" /\ Replies(t, Conflict)
    BY <1>3 DEF Precheck
  <2>2. QED  BY <2>1, MarksMade, ReplyTurns
<1>4. CASE Lose(t) \/ (Receive(t) /\ tab[t].answer = Conflict)
  <2>1. PICK a : a = [tab[t] EXCEPT !.pc = "idle", !.answer = None]
    OBVIOUS
  <2>2. /\ a \in TabStates /\ a.pc = "idle" /\ a.on = tab[t].on /\ a.wants = tab[t].wants
        /\ a.feedback = tab[t].feedback
    BY <1>1, <2>1 DEF TabStates
  <2>3. a.saved = tab[t].saved
    BY <1>1, <2>1 DEF TabStates
  <2>4. tab' = [tab EXCEPT ![t] = a]
    BY <1>1, <1>4, <2>1 DEF Lose, Receive, TabsOK
  <2>5. QED  BY <2>2, <2>3, <2>4, TabTurns
<1>5. QED  BY <1>2, <1>3, <1>4

\* A tab takes over the answer.
LEMMA ReceiveTurns ==
    ASSUME TabsOK, NEW t \in Tabs, Receive(t), tab[t].answer # Conflict
    PROVE  \E a \in TabStates : /\ TabsOK' /\ Turns(t, a) /\ a.pc = "idle" /\ a.on = tab[t].on
                                /\ a.wants = tab[t].wants /\ a.feedback = tab[t].answer
                                /\ tab[t].pc = "answered"
<1>1. tab[t].pc = "answered" /\ tab[t] \in TabStates /\ tab[t].answer \in Marks
  BY DEF TabsOK, Receive
<1>2. PICK a : a = [tab[t] EXCEPT !.pc = "idle", !.answer = None, !.feedback = tab[t].answer, !.saved = TRUE]
  OBVIOUS
<1>3. /\ a \in TabStates /\ a.pc = "idle" /\ a.on = tab[t].on /\ a.wants = tab[t].wants
      /\ a.feedback = tab[t].answer
  BY <1>1, <1>2 DEF TabStates
<1>4. tab' = [tab EXCEPT ![t] = a]
  BY <1>1, <1>2 DEF Receive, TabsOK
<1>5. QED  BY <1>1, <1>3, <1>4, TabTurns

-------------------------------------------------------------------------------
(* Types are kept *)

LEMMA Same ==
    /\ UNCHANGED job => (JobsOK => JobsOK')
    /\ UNCHANGED occurrence => (FoundOK => FoundOK')
    /\ UNCHANGED <<occurrence, feedback, events>> => (FeedbackOK => FeedbackOK')
    /\ UNCHANGED <<repo, patterns>> => (RepoOK => RepoOK')
    /\ UNCHANGED tab => (TabsOK => TabsOK')
    /\ UNCHANGED <<sweep, leaving, reader, saves, faults>> => (RestOK => RestOK')
BY DEF JobsOK, FoundOK, FeedbackOK, RepoOK, TabsOK, RestOK

\* A review is recorded, when it completes or when its owner enables feedback for it.
Records(j) == \E content \in SUBSET Findings : Record(j, content)

LEMMA RecordSteps ==
    ASSUME JobsOK, NEW j \in Jobs, Backfill(j) \/ \E content \in SUBSET Findings : Complete(j, content)
    PROVE  Records(j) /\ UNCHANGED <<feedback, events, tab, sweep, leaving, reader, saves, faults>>
<1>1. job[j].stored \in SUBSET Findings
  BY DEF JobsOK, Reviews
<1>2. QED  BY <1>1 DEF Backfill, Complete, Records

LEMMA RecordType ==
    ASSUME TypeOK, NEW j \in Jobs, Records(j),
           UNCHANGED <<feedback, events, tab, sweep, leaving, reader, saves, faults>>
    PROVE  TypeOK'
<1>1. PICK content \in SUBSET Findings : Record(j, content)
  BY DEF Records
<1>2. JobsOK' /\ FoundOK' /\ DOMAIN occurrence \subseteq DOMAIN occurrence'
  BY <1>1, RecordFacts DEF TypeOK
<1>3. RepoOK'
  BY <1>1, RecordFacts, DirtyFacts, Same DEF TypeOK
<1>4. FeedbackOK'
  BY <1>2 DEF TypeOK, FeedbackOK
<1>5. QED  BY <1>2, <1>3, <1>4, Same DEF TypeOK

LEMMA ExpireType ==
    ASSUME JobsOK, NEW j \in Jobs, Expire(j)
    PROVE  /\ JobsOK' /\ UNCHANGED <<occurrence, feedback, events, repo, patterns, tab, sweep, leaving, reader, saves, faults>>
           /\ \A i \in Jobs : /\ job'[i].snapshot = job[i].snapshot /\ job'[i].hash = job[i].hash
                              /\ job'[i].done = job[i].done
           /\ job'[j].old /\ \A i \in Jobs \ {j} : job'[i] = job[i]
<1>1. job[j] \in Reviews
  BY DEF JobsOK
<1>2. PICK r : r = [job[j] EXCEPT !.old = TRUE]
  OBVIOUS
<1>3. r \in Reviews /\ r.old /\ r.snapshot = job[j].snapshot /\ r.hash = job[j].hash
  BY <1>1, <1>2 DEF Reviews
<1>4. r.done = job[j].done
  BY <1>1, <1>2 DEF Reviews
<1>5. job' = [job EXCEPT ![j] = r]
  BY <1>1, <1>2 DEF Expire, JobsOK
<1>6. QED  BY <1>3, <1>4, <1>5 DEF Expire, JobsOK

LEMMA TabType ==
    ASSUME TypeOK, NEW t \in Tabs,
           \/ \E o \in DOMAIN occurrence : Load(t, o)
           \/ \E d \in Dispositions : Submit(t, d)
           \/ Precheck(t) \/ Receive(t) \/ Lose(t)
    PROVE  TypeOK'
<1>1. TabsOK'
  BY LoadTurns, SubmitTurns, KeepTurns, ReceiveTurns DEF TypeOK
<1>2. UNCHANGED <<job, occurrence, feedback, events, repo, patterns>>
  BY DEF Load, Submit, Precheck, Receive, Lose, kept
<1>3. UNCHANGED <<sweep, leaving, reader>> /\ saves' \in {saves, saves + 1} /\ faults' \in {faults, faults + 1}
  BY DEF Load, Submit, Precheck, Receive, Lose
<1>4. RestOK'
  BY <1>3 DEF TypeOK, RestOK
<1>5. QED  BY <1>1, <1>2, <1>4, Same DEF TypeOK

\* Feedback that is answered with what there is, with a conflict, or saved.
LEMMA UpdateCases ==
    ASSUME TypeOK, NEW t \in Tabs, UpdateFeedback(t)
    PROVE  LET o   == tab[t].on
               old == IF o \in DOMAIN feedback THEN feedback[o] ELSE Unreviewed
           IN  /\ tab[t].pc = "checked" /\ tab[t].wants \in Dispositions /\ old \in Marks
               /\ UNCHANGED <<sweep, leaving, reader, saves, faults>>
               /\ \/ Replies(t, Conflict) /\ UNCHANGED kept
                  \/ o \in DOMAIN feedback /\ old.is = tab[t].wants /\ Replies(t, old) /\ UNCHANGED kept
                  \/ /\ o \in DOMAIN occurrence /\ old.revision = tab[t].expects
                     /\ Save(o, tab[t].wants, old.revision + 1)
                     /\ Replies(t, [is |-> tab[t].wants, revision |-> old.revision + 1])
<1>1. tab[t].pc = "checked" /\ tab[t].wants \in Dispositions
  BY DEF UpdateFeedback, TypeOK, TabsOK
<1>2. (IF tab[t].on \in DOMAIN feedback THEN feedback[tab[t].on] ELSE Unreviewed) \in Marks
  BY MarksMade DEF TypeOK, FeedbackOK
<1>3. QED  BY <1>1, <1>2 DEF UpdateFeedback, Repeats, Stale, Eligible, Current

LEMMA UpdateType == ASSUME TypeOK, NEW t \in Tabs, UpdateFeedback(t) PROVE TypeOK'
<1> DEFINE o   == tab[t].on
           old == IF o \in DOMAIN feedback THEN feedback[o] ELSE Unreviewed
<1>1. /\ tab[t].pc # "idle" /\ tab[t].wants \in Dispositions /\ old \in Marks
      /\ UNCHANGED <<sweep, leaving, reader, saves, faults>>
  BY UpdateCases
<1>2. CASE \E mark \in Marks : Replies(t, mark) /\ UNCHANGED kept
  <2>1. TabsOK'
    BY <1>1, <1>2, ReplyTurns DEF TypeOK
  <2>2. QED  BY <1>1, <1>2, <2>1, Same DEF TypeOK, kept
<1>3. CASE /\ o \in DOMAIN occurrence /\ Save(o, tab[t].wants, old.revision + 1)
           /\ Replies(t, [is |-> tab[t].wants, revision |-> old.revision + 1])
  <2>1. old.revision + 1 \in Nat
    BY <1>1 DEF Marks
  <2>2. [is |-> tab[t].wants, revision |-> old.revision + 1] \in Marks
    BY <1>1, <2>1 DEF Marks
  <2>3. TabsOK'
    BY <1>1, <1>3, <2>2, ReplyTurns DEF TypeOK
  <2>4. FeedbackOK' /\ UNCHANGED <<job, occurrence>> /\ Dirty
    BY <1>1, <1>3, <2>1, SaveFacts DEF TypeOK
  <2>5. QED  BY <1>1, <2>3, <2>4, DirtyFacts, Same DEF TypeOK
<1>4. QED  BY <1>1, <1>2, <1>3, UpdateCases, MarksMade

\* A rebuild, by the maintenance pass or by a reader.
LEMMA RebuildFacts ==
    ASSUME RepoOK, Rebuild
    PROVE  /\ RepoOK' /\ UNCHANGED <<job, occurrence, feedback, events>>
           /\ patterns' = [fp \in {fp \in Fingerprints : Evidence(fp) # {}} |-> Aggregate(fp)]
<1>1. repo' = [repo EXCEPT !.dirty = FALSE, !.aggregated = "fresh"]
  BY DEF Rebuild, Upserted
<1>2. patterns' = [fp \in {fp \in Fingerprints : Evidence(fp) # {}} |-> Aggregate(fp)]
  BY DEF Rebuild, Upserted
<1>3. DOMAIN patterns' \subseteq Fingerprints
  BY <1>2
<1>4. QED  BY <1>1, <1>2, <1>3 DEF Rebuild, Upserted, RepoOK, Ages

Rebuilds == SweepRebuild \/ \E r \in Readers : ReaderRebuilds(r)
Erases   == SweepDelete \/ ClearRepositoryHistory
\* Everything else leaves what is recorded and the tabs alone.
Others   == \/ SweepList \/ (\E r \in Readers : Ask(r)) \/ (\E enabled \in BOOLEAN : SetMemory(enabled))
            \/ Deactivate \/ LeavingFails \/ Reconnect \/ AnHourPasses

LEMMA RebuildType == ASSUME TypeOK, Rebuilds PROVE TypeOK'
<1>1. UNCHANGED <<tab, sweep, leaving, saves, faults>> /\ (Rebuild \/ UNCHANGED kept)
  BY DEF Rebuilds, SweepRebuild, ReaderRebuilds
<1>2. reader' \in [Readers -> {"idle", "rebuild"}]
  BY DEF Rebuilds, SweepRebuild, ReaderRebuilds, TypeOK, RestOK
<1>3. RestOK'
  BY <1>1, <1>2 DEF TypeOK, RestOK
<1>4. QED  BY <1>1, <1>3, RebuildFacts, Same DEF TypeOK, kept

LEMMA EraseSteps ==
    ASSUME TypeOK, Erases
    PROVE  /\ \E S : Erase(S)
           /\ RepoOK' /\ UNCHANGED <<job, tab, reader, saves, faults>>
           /\ repo'.dirty /\ DOMAIN patterns' = {} /\ sweep' \subseteq Occurrences /\ leaving' \in BOOLEAN
<1>1. CASE SweepDelete
  BY <1>1, DirtyFacts DEF SweepDelete, TypeOK, RestOK, Dirty, Nothing
<1>2. CASE ClearRepositoryHistory
  <2>1. repo' = [repo EXCEPT !.dirty = TRUE, !.memory = FALSE] /\ patterns' = Nothing
    BY <1>2 DEF ClearRepositoryHistory
  <2>2. DOMAIN patterns' = {}
    BY <2>1 DEF Nothing
  <2>3. RepoOK' /\ repo'.dirty
    BY <2>1, <2>2 DEF TypeOK, RepoOK
  <2>4. QED  BY <1>2, <2>2, <2>3 DEF ClearRepositoryHistory, TypeOK, RestOK
<1>3. QED  BY <1>1, <1>2 DEF Erases

LEMMA EraseType == ASSUME TypeOK, Erases PROVE TypeOK'
<1>1. FoundOK' /\ FeedbackOK'
  BY EraseSteps, EraseFacts DEF TypeOK
<1>2. QED  BY <1>1, EraseSteps, Same DEF TypeOK, RestOK

LEMMA OtherType ==
    ASSUME TypeOK, Others
    PROVE  /\ TypeOK' /\ UNCHANGED <<job, occurrence, feedback, events, patterns, tab>>
           /\ repo'.dirty = repo.dirty
<1>1. CASE SweepList
  <2>1. UNCHANGED <<kept, tab, leaving, reader, saves, faults>> /\ sweep' \subseteq DOMAIN occurrence
    BY <1>1 DEF SweepList
  <2>2. RestOK'
    BY <2>1 DEF TypeOK, RestOK, FoundOK
  <2>3. QED  BY <2>1, <2>2, Same DEF TypeOK, kept
<1>2. CASE \E r \in Readers : Ask(r)
  <2>1. UNCHANGED <<kept, tab, sweep, leaving, saves, faults>> /\ reader' \in [Readers -> {"idle", "rebuild"}]
    BY <1>2 DEF Ask, TypeOK, RestOK
  <2>2. RestOK'
    BY <2>1 DEF TypeOK, RestOK
  <2>3. QED  BY <2>1, <2>2, Same DEF TypeOK, kept
<1>3. CASE LeavingFails
  <2>1. UNCHANGED <<kept, tab, sweep, reader, saves>> /\ leaving' \in BOOLEAN /\ faults' = faults + 1
    BY <1>3 DEF LeavingFails
  <2>2. faults' \in Nat
    BY <2>1 DEF TypeOK, RestOK
  <2>3. RestOK'
    BY <2>1, <2>2 DEF TypeOK, RestOK
  <2>4. QED  BY <2>1, <2>3, Same DEF TypeOK, kept
<1>4. CASE (\E enabled \in BOOLEAN : SetMemory(enabled)) \/ Deactivate \/ Reconnect \/ AnHourPasses
  <2>1. /\ UNCHANGED <<job, occurrence, feedback, events, patterns, tab, sweep, reader, saves, faults>>
        /\ leaving' \in BOOLEAN
    BY <1>4 DEF SetMemory, Deactivate, Reconnect, AnHourPasses, TypeOK, RestOK
  <2>2. \/ \E b \in BOOLEAN : repo' = [repo EXCEPT !.memory = b]
        \/ \E b \in BOOLEAN : repo' = [repo EXCEPT !.active = b]
        \/ repo' = [repo EXCEPT !.aggregated = "stale"]
    BY <1>4 DEF SetMemory, Deactivate, Reconnect, AnHourPasses
  <2>3. RepoOK'
    BY <2>1, <2>2 DEF TypeOK, RepoOK, Ages
  <2>4. repo'.dirty = repo.dirty
    BY <2>2 DEF TypeOK, RepoOK
  <2>5. RestOK'
    BY <2>1 DEF TypeOK, RestOK
  <2>6. QED  BY <2>1, <2>3, <2>4, <2>5, Same DEF TypeOK
<1>5. QED  BY <1>1, <1>2, <1>3, <1>4 DEF Others

\* Every step records, ages, or is one of a tab, of the passes or of the readers.
LEMMA StepCases ==
    ASSUME TypeOK, Next
    PROVE  \/ \E j \in Jobs : /\ Records(j)
                              /\ UNCHANGED <<feedback, events, tab, sweep, leaving, reader, saves, faults>>
           \/ \E j \in Jobs : Expire(j)
           \/ \E t \in Tabs : \/ \E o \in DOMAIN occurrence : Load(t, o)
                              \/ \E d \in Dispositions : Submit(t, d)
                              \/ Precheck(t) \/ Receive(t) \/ Lose(t)
           \/ \E t \in Tabs : UpdateFeedback(t)
           \/ Rebuilds \/ Erases \/ Others
<1>1. JobsOK
  BY DEF TypeOK
<1>2. QED  BY <1>1, RecordSteps DEF Next, Rebuilds, Erases, Others

\* What is kept of past reviews, the tabs and the readers have the shape the code gives them.
THEOREM TypeCorrect == Spec => []TypeOK
<1>1. Init => TypeOK
  BY InitAll
<1>2. TypeOK /\ [Next]_hist => TypeOK'
  <2>1. ASSUME TypeOK, Next PROVE TypeOK'
    <3>1. ASSUME NEW j \in Jobs, Expire(j) PROVE TypeOK'
      BY <2>1, <3>1, ExpireType, Same DEF TypeOK
    <3>2. QED  BY <2>1, <3>1, StepCases, RecordType, TabType, UpdateType, RebuildType, EraseType, OtherType
  <2>2. ASSUME TypeOK, UNCHANGED hist PROVE TypeOK'
    BY <2>2, Same DEF TypeOK, hist, kept
  <2>3. QED  BY <2>1, <2>2
<1>3. QED  BY <1>1, <1>2, PTL DEF Spec

-------------------------------------------------------------------------------
(* Patterns *)

\* Patterns depend on what is found, on its feedback, and on whether its review is done and young.
LEMMA AggregateSame ==
    ASSUME FoundOK, UNCHANGED <<occurrence, feedback>>, NEW fp,
           \A o \in Evidence(fp) \cup Evidence(fp)' : job'[o[1]].done = job[o[1]].done /\ job'[o[1]].old = job[o[1]].old
    PROVE  Evidence(fp)' = Evidence(fp) /\ Aggregate(fp)' = Aggregate(fp)
<1>1. \A o \in DOMAIN occurrence : Current(o)' <=> Current(o)
  BY DEF Current
<1>2. Evidence(fp)' \subseteq Evidence(fp)
  BY <1>1 DEF Evidence, Of
<1>3. Evidence(fp) \subseteq Evidence(fp)'
  BY <1>1 DEF Evidence, Of
<1>4. Evidence(fp)' = Evidence(fp)
  BY <1>2, <1>3
<1>5. \A o : Is(o)' = Is(o)
  BY DEF Is
<1>6. QED  BY <1>4, <1>5 DEF Aggregate

LEMMA PatternsSame ==
    ASSUME Patterns, UNCHANGED <<job, occurrence, feedback, patterns>>, repo'.dirty = repo.dirty
    PROVE  Patterns'
<1>1. \A fp : Evidence(fp)' = Evidence(fp) /\ Aggregate(fp)' = Aggregate(fp)
  BY DEF Evidence, Current, Of, Aggregate, Is
<1>2. \A p : Expired(p)' <=> Expired(p)
  BY DEF Expired
<1>3. Counted'
  BY <1>1, <1>2 DEF Patterns, Counted
<1>4. QED  BY <1>1, <1>3 DEF Patterns, Recorded, Whole

LEMMA RecordPatterns ==
    ASSUME TypeOK, Patterns, NEW j \in Jobs, Records(j), UNCHANGED feedback
    PROVE  Patterns'
<1>1. PICK content \in SUBSET Findings : Record(j, content)
  BY DEF Records
<1>2. /\ job'[j].done /\ job'[j].old = job[j].old /\ \A i \in Jobs \ {j} : job'[i] = job[i]
      /\ (UNCHANGED <<occurrence, repo, patterns>> /\ job[j].hash # None) \/ Dirty
  BY <1>1, RecordFacts DEF TypeOK
<1>3. Recorded'
  BY <1>2 DEF Patterns, Recorded
<1>4. CASE Dirty
  BY <1>3, <1>4, DirtyFacts DEF TypeOK, Patterns
<1>5. CASE UNCHANGED <<occurrence, repo, patterns>> /\ job[j].hash # None
  <2>1. job[j].done
    BY <1>5 DEF Patterns, Recorded
  <2>2. \A i \in Jobs : (job'[i].done <=> job[i].done) /\ job'[i].old = job[i].old
    BY <1>2, <2>1
  <2>3. \A i \in Jobs : job'[i].done = job[i].done
    <3>1. \A i \in Jobs : job[i].done \in BOOLEAN /\ job'[i].done \in BOOLEAN
      <4>1. JobsOK'
        BY <1>1, RecordFacts DEF TypeOK
      <4>2. QED  BY <4>1 DEF TypeOK, JobsOK, Reviews
    <3>2. QED  BY <2>2, <3>1
  <2>4. \A o \in DOMAIN occurrence : o[1] \in Jobs
    BY DEF TypeOK, FoundOK, Occurrences
  <2>5. \A fp : Evidence(fp)' = Evidence(fp) /\ Aggregate(fp)' = Aggregate(fp)
    <3>1. SUFFICES ASSUME NEW fp PROVE Evidence(fp)' = Evidence(fp) /\ Aggregate(fp)' = Aggregate(fp)
      OBVIOUS
    <3>2. \A o \in Evidence(fp) \cup Evidence(fp)' : o[1] \in Jobs
      BY <1>5, <2>4 DEF Evidence
    <3>3. QED  BY <1>5, <2>2, <2>3, <3>2, AggregateSame DEF TypeOK
  <2>6. \A p : p.from \subseteq Jobs => (Expired(p) => Expired(p)')
    BY <2>2 DEF Expired
  <2>7. Counted'
    BY <1>5, <2>5, <2>6 DEF Patterns, Counted
  <2>8. Whole'
    BY <1>5, <2>5 DEF Patterns, Whole
  <2>9. QED  BY <1>3, <2>7, <2>8 DEF Patterns
<1>6. QED  BY <1>2, <1>4, <1>5

\* When a review grows old, the patterns it counts in have expired, and the others do not count it.
LEMMA ExpirePatterns == ASSUME TypeOK, Patterns, NEW j \in Jobs, Expire(j) PROVE Patterns'
<1>1. /\ UNCHANGED <<occurrence, feedback, repo, patterns>> /\ JobsOK'
      /\ \A i \in Jobs : job'[i].hash = job[i].hash /\ job'[i].done = job[i].done
      /\ job'[j].old /\ \A i \in Jobs \ {j} : job'[i] = job[i]
  BY ExpireType DEF TypeOK
<1>2. Recorded'
  BY <1>1 DEF Patterns, Recorded
<1>3. \A o \in DOMAIN occurrence : o[1] \in Jobs
  BY DEF TypeOK, FoundOK, Occurrences
<1>4. \A fp : Evidence(fp)' \subseteq Evidence(fp)
  <2>1. SUFFICES ASSUME NEW fp, NEW o \in Evidence(fp)' PROVE o \in Evidence(fp)
    OBVIOUS
  <2>2. o \in DOMAIN occurrence /\ occurrence[o] = "current" /\ Fingerprint(o[3]) = fp /\ job'[o[1]].done /\ ~job'[o[1]].old
    BY <1>1 DEF Evidence, Current, Of
  <2>3. o[1] \in Jobs \ {j}
    BY <1>1, <1>3, <2>2
  <2>4. QED  BY <1>1, <2>2, <2>3 DEF Evidence, Current, Of
<1>5. \A p : p.from \subseteq Jobs => (Expired(p) => Expired(p)')
  BY <1>1 DEF Expired
<1>6. ASSUME NEW fp \in DOMAIN patterns, ~Expired(patterns[fp])', patterns[fp] = Aggregate(fp),
             patterns[fp].from \subseteq Jobs
      PROVE  patterns[fp] = Aggregate(fp)'
  <2>1. j \notin patterns[fp].from
    BY <1>1, <1>6 DEF Expired
  <2>2. patterns[fp].from = {o[1] : o \in Evidence(fp)}
    BY <1>6 DEF Aggregate
  <2>3. \A o \in Evidence(fp) : o[1] \in Jobs \ {j}
    BY <1>3, <2>1, <2>2 DEF Evidence
  <2>4. \A o \in Evidence(fp) \cup Evidence(fp)' : job'[o[1]].done = job[o[1]].done /\ job'[o[1]].old = job[o[1]].old
    BY <1>1, <1>4, <2>3
  <2>5. Aggregate(fp)' = Aggregate(fp)
    BY <1>1, <2>4, AggregateSame DEF TypeOK
  <2>6. QED  BY <1>6, <2>5
<1>7. Counted'
  <2>1. \A fp \in DOMAIN patterns : /\ patterns[fp].from \subseteq Jobs
                                    /\ Expired(patterns[fp]) \/ patterns[fp] = Aggregate(fp)
    BY DEF Patterns, Counted
  <2>2. SUFFICES ASSUME NEW fp \in DOMAIN patterns
                 PROVE  patterns[fp].from \subseteq Jobs /\ (Expired(patterns[fp])' \/ patterns[fp] = Aggregate(fp)')
    BY <1>1 DEF Counted
  <2>3. QED  BY <1>1, <1>5, <1>6, <2>1
<1>8. Whole'
  BY <1>1, <1>4 DEF Patterns, Whole
<1>9. QED  BY <1>2, <1>7, <1>8 DEF Patterns

LEMMA RebuildPatterns ==
    ASSUME TypeOK, Patterns, Rebuild
    PROVE  Patterns'
<1>1. /\ UNCHANGED <<job, occurrence, feedback>>
      /\ patterns' = [fp \in {fp \in Fingerprints : Evidence(fp) # {}} |-> Aggregate(fp)]
  BY RebuildFacts DEF TypeOK
<1>2. \A fp : Evidence(fp)' = Evidence(fp) /\ Aggregate(fp)' = Aggregate(fp)
  BY <1>1 DEF Evidence, Current, Of, Aggregate, Is
<1>3. \A fp : Aggregate(fp).from \subseteq Jobs
  BY DEF Aggregate, Evidence, TypeOK, FoundOK, Occurrences
<1>4. Counted'
  BY <1>1, <1>2, <1>3 DEF Counted
<1>5. Whole'
  BY <1>1, <1>2 DEF Whole
<1>6. QED  BY <1>1, <1>4, <1>5 DEF Patterns, Recorded

LEMMA PatternsNext == ASSUME TypeOK, Patterns, Next PROVE Patterns'
<1>1. ASSUME NEW t \in Tabs, UpdateFeedback(t) PROVE Patterns'
  <2>1. CASE UNCHANGED kept
    BY <2>1, PatternsSame DEF kept
  <2>2. CASE UNCHANGED job /\ Dirty
    BY <2>2, DirtyFacts DEF TypeOK, Patterns, Recorded
  <2>3. \A o, d, n : Save(o, d, n) => UNCHANGED job /\ Dirty
    BY DEF Save
  <2>4. QED  BY <1>1, <2>1, <2>2, <2>3 DEF UpdateFeedback
<1>2. ASSUME NEW t \in Tabs,
             \/ \E o \in DOMAIN occurrence : Load(t, o)
             \/ \E d \in Dispositions : Submit(t, d)
             \/ Precheck(t) \/ Receive(t) \/ Lose(t)
      PROVE  Patterns'
  <2>1. UNCHANGED kept
    BY <1>2 DEF Load, Submit, Precheck, Receive, Lose
  <2>2. QED  BY <2>1, PatternsSame DEF kept
<1>3. ASSUME Rebuilds PROVE Patterns'
  <2>1. Rebuild \/ UNCHANGED kept
    BY <1>3 DEF Rebuilds, SweepRebuild, ReaderRebuilds
  <2>2. QED  BY <2>1, RebuildPatterns, PatternsSame DEF kept
<1>4. ASSUME Erases PROVE Patterns'
  <2>1. UNCHANGED job /\ repo'.dirty /\ DOMAIN patterns' = {}
    BY <1>4, EraseSteps
  <2>2. QED  BY <2>1 DEF Patterns, Recorded, Counted, Whole
<1>5. ASSUME Others PROVE Patterns'
  BY <1>5, OtherType, PatternsSame
<1>6. QED  BY <1>1, <1>2, <1>3, <1>4, <1>5, StepCases, RecordPatterns, ExpirePatterns

\* Whatever was saved, superseded or deleted since the rebuild, what a reader finds
\* counts exactly the occurrences and the feedback there are now, and what is marked
\* as aggregated lacks no pattern.  (dirtyHistory in every writer, the watermark of
\* the rebuild, expiresAt.)
THEOREM PatternsFollow == Spec => []PatternsCurrent
<1>1. Init => Patterns
  BY InitAll
<1>2. TypeOK /\ Patterns /\ [Next]_hist => Patterns'
  <2>1. ASSUME Patterns, UNCHANGED hist PROVE Patterns'
    BY <2>1, PatternsSame DEF hist, kept
  <2>2. QED  BY <2>1, PatternsNext
<1>3. Patterns => PatternsCurrent
  BY DEF Patterns, Counted, Whole, PatternsCurrent, Shown
<1>4. QED  BY <1>1, <1>2, <1>3, TypeCorrect, PTL DEF Spec

-------------------------------------------------------------------------------
(* The trail *)

\* An occurrence that is there was there, with the events it had.
Continues(o) == o \in DOMAIN occurrence' =>
                    /\ o \in DOMAIN occurrence
                    /\ o \in DOMAIN feedback => /\ o \in DOMAIN feedback' /\ Len(events[o]) <= Len(events'[o])
                                                /\ \A i \in 1..Len(events[o]) : events'[o][i] = events[o][i]

LEMMA ToldStays ==
    ASSUME FeedbackOK, FeedbackOK', NEW t \in Tabs, Told(t), tab'[t] = tab[t],
           tab[t].on # None => Continues(tab[t].on)
    PROVE  Told(t)'
<1>1. \A o \in DOMAIN feedback : Len(events[o]) \in Nat
  BY LenProperties DEF FeedbackOK
<1>2. \A o \in DOMAIN feedback' : Len(events'[o]) \in Nat
  BY LenProperties DEF FeedbackOK
<1>3. ASSUME NEW mark \in {tab[t].feedback, tab[t].answer}, tab[t].on # None,
             tab[t].on \in DOMAIN occurrence =>
                 /\ tab[t].on \in DOMAIN feedback /\ mark.revision \in 1..Len(events[tab[t].on])
                 /\ events[tab[t].on][mark.revision] = tab[t].wants
      PROVE  tab[t].on \in DOMAIN occurrence' =>
                 /\ tab[t].on \in DOMAIN feedback' /\ mark.revision \in 1..Len(events'[tab[t].on])
                 /\ events'[tab[t].on][mark.revision] = tab[t].wants
  BY <1>1, <1>2, <1>3 DEF Continues
<1>4. tab[t].saved => Holds(t, tab[t].feedback)'
  BY <1>3 DEF Told, Holds
<1>5. tab[t].pc = "answered" /\ tab[t].answer # Conflict => Holds(t, tab[t].answer)'
  BY <1>3 DEF Told, Holds
<1>6. QED  BY <1>4, <1>5 DEF Told

\* What a tab does by itself.
LEMMA ToldTurns ==
    ASSUME TypeOK, Trail, NEW t \in Tabs, UNCHANGED <<job, occurrence, feedback, events>>, NEW a, Turns(t, a),
           \/ a.pc = "idle" /\ ~a.saved /\ a.on \in DOMAIN occurrence
           \/ /\ a.pc = "sent" /\ ~a.saved /\ a.on = tab[t].on /\ a.on # None
              /\ a.feedback = tab[t].feedback /\ a.expects = tab[t].feedback.revision
           \/ /\ a.saved = tab[t].saved /\ a.on = tab[t].on /\ a.wants = tab[t].wants /\ a.feedback = tab[t].feedback
              /\ \/ a.pc = "idle"
                 \/ a.pc = "answered" /\ tab[t].pc # "idle" /\ a.answer = Conflict
                 \/ a.pc = "checked" /\ tab[t].pc = "sent" /\ a.expects = tab[t].expects
           \/ /\ a.pc = "idle" /\ a.on = tab[t].on /\ a.wants = tab[t].wants /\ a.feedback = tab[t].answer
              /\ tab[t].pc = "answered" /\ tab[t].answer # Conflict
    PROVE  Trail'
<1>1. tab'[t] = a /\ \A q \in Tabs \ {t} : tab'[q] = tab[q]
  BY DEF Turns
<1>2. Numbered' /\ Logged'
  BY DEF Trail, Numbered, Logged
<1>3. Seen'
  <2>1. a.on # None => a.on \in Occurrences /\ a.on[2] <= job[a.on[1]].snapshot
    BY DEF Trail, Seen, Numbered, TypeOK, FoundOK
  <2>2. QED  BY <1>1, <2>1 DEF Trail, Seen
<1>4. \A q \in Tabs \ {t} : Told(q)'
  BY <1>1 DEF Trail, Told, Holds
<1>5. Told(t)'
  <2>1. Told(t)
    BY DEF Trail
  <2>2. QED  BY <1>1, <2>1 DEF Told, Holds
<1>6. QED  BY <1>2, <1>3, <1>4, <1>5 DEF Trail

LEMMA TabTrail ==
    ASSUME TypeOK, Trail, NEW t \in Tabs,
           \/ \E o \in DOMAIN occurrence : Load(t, o)
           \/ \E d \in Dispositions : Submit(t, d)
           \/ Precheck(t) \/ Receive(t) \/ Lose(t)
    PROVE  Trail'
<1>1. UNCHANGED <<job, occurrence, feedback, events>>
  BY DEF Load, Submit, Precheck, Receive, Lose, kept
<1>2. ASSUME NEW o \in DOMAIN occurrence, Load(t, o) PROVE Trail'
  BY <1>1, <1>2, LoadTurns, ToldTurns DEF TypeOK
<1>3. ASSUME NEW d \in Dispositions, Submit(t, d) PROVE Trail'
  <2>1. tab[t].on # None
    BY <1>3 DEF Submit
  <2>2. QED  BY <1>1, <1>3, <2>1, SubmitTurns, ToldTurns DEF TypeOK
<1>4. CASE Precheck(t) \/ Lose(t) \/ (Receive(t) /\ tab[t].answer = Conflict)
  BY <1>1, <1>4, KeepTurns, ToldTurns DEF TypeOK
<1>5. CASE Receive(t) /\ tab[t].answer # Conflict
  BY <1>1, <1>5, ReceiveTurns, ToldTurns DEF TypeOK
<1>6. QED  BY <1>2, <1>3, <1>4, <1>5

\* A step that leaves the tabs alone, raises no feedback, and gives new occurrences new numbers.
LEMMA StoreTrail ==
    ASSUME TypeOK, TypeOK', Trail, UNCHANGED tab,
           \A j \in Jobs : job'[j].snapshot >= job[j].snapshot,
           \A o \in DOMAIN feedback' : o \in DOMAIN feedback /\ feedback'[o] = feedback[o] /\ events'[o] = events[o],
           \A o \in DOMAIN feedback : o \in DOMAIN occurrence' => o \in DOMAIN feedback',
           \A o \in DOMAIN occurrence' \ DOMAIN occurrence : o[2] > job[o[1]].snapshot /\ o[2] <= job'[o[1]].snapshot
    PROVE  Trail'
<1>1. \A j \in Jobs : job[j].snapshot \in Nat /\ job'[j].snapshot \in Nat
  BY DEF TypeOK, JobsOK, Reviews
<1>2. \A o \in Occurrences : o[1] \in Jobs /\ o[2] \in Nat
  BY DEF Occurrences
<1>3. Numbered'
  BY <1>1, <1>2 DEF Trail, Numbered, TypeOK, FoundOK
<1>4. Seen'
  BY <1>1, <1>2 DEF Trail, Seen
<1>5. Logged'
  BY DEF Trail, Logged
<1>6. ASSUME NEW t \in Tabs, tab[t].on # None PROVE Continues(tab[t].on)
  <2>1. tab[t].on \in Occurrences /\ tab[t].on[2] <= job[tab[t].on[1]].snapshot
    BY <1>6 DEF Trail, Seen
  <2>2. tab[t].on \in DOMAIN occurrence' => tab[t].on \in DOMAIN occurrence
    BY <1>1, <1>2, <2>1
  <2>3. \A o \in DOMAIN feedback : Len(events[o]) \in Nat
    BY LenProperties DEF TypeOK, FeedbackOK
  <2>4. QED  BY <2>2, <2>3 DEF Continues
<1>7. \A t \in Tabs : Told(t)'
  BY <1>6, ToldStays DEF Trail, TypeOK
<1>8. QED  BY <1>3, <1>4, <1>5, <1>7 DEF Trail

\* What is saved is the next event of its occurrence, and what the tab is told is that event.
LEMMA SaveTrail ==
    ASSUME TypeOK, TypeOK', Trail, NEW t \in Tabs, tab[t].pc = "checked", tab[t].on \in DOMAIN occurrence,
           NEW old \in Marks, old = IF tab[t].on \in DOMAIN feedback THEN feedback[tab[t].on] ELSE Unreviewed,
           Save(tab[t].on, tab[t].wants, old.revision + 1),
           Replies(t, [is |-> tab[t].wants, revision |-> old.revision + 1])
    PROVE  Trail'
<1> DEFINE o     == tab[t].on
           trail == IF o \in DOMAIN feedback THEN events[o] ELSE <<>>
<1>1. tab[t].wants \in Dispositions
  BY DEF TypeOK, TabsOK
<1>2. PICK n : n = old.revision + 1
  OBVIOUS
<1>3. n \in Nat /\ n > 0
  BY <1>2 DEF Marks
<1>4. /\ UNCHANGED <<job, occurrence>> /\ DOMAIN feedback' = DOMAIN feedback \cup {o}
      /\ feedback'[o] = [is |-> tab[t].wants, revision |-> n] /\ events'[o] = Append(trail, tab[t].wants)
      /\ trail \in Seq(Dispositions)
      /\ \A x \in DOMAIN feedback \ {o} : feedback'[x] = feedback[x] /\ events'[x] = events[x]
  <2>1. PICK d \in Dispositions : d = tab[t].wants
    BY <1>1
  <2>2. PICK x \in DOMAIN occurrence : x = o
    OBVIOUS
  <2>3. FeedbackOK /\ Save(x, d, n)
    BY <1>2, <2>1, <2>2 DEF TypeOK
  <2>4. QED  BY <1>3, <2>1, <2>2, <2>3, SaveFacts
<1>5. Len(trail) = old.revision
  <2>1. Len(<<>>) = 0 /\ Unreviewed.revision = 0
    BY EmptySeq DEF Unreviewed
  <2>2. QED  BY <2>1 DEF Trail, Logged
<1>6. /\ Len(events'[o]) = n /\ events'[o][n] = tab[t].wants
      /\ \A i \in 1..Len(trail) : events'[o][i] = trail[i]
  BY <1>1, <1>2, <1>4, <1>5, AppendProperties
<1>7. PICK a \in TabStates : /\ Turns(t, a) /\ a.pc = "answered"
                             /\ a.answer = [is |-> tab[t].wants, revision |-> n]
                             /\ a.saved = tab[t].saved /\ a.on = o /\ a.wants = tab[t].wants
                             /\ a.feedback = tab[t].feedback
  <2>1. [is |-> tab[t].wants, revision |-> n] \in Marks
    BY <1>1, <1>3 DEF Marks
  <2>2. QED  BY <1>2, <2>1, ReplyTurns DEF TypeOK
<1>8. Logged'
  <2>1. /\ Len(events'[o]) = feedback'[o].revision /\ feedback'[o].revision > 0
        /\ events'[o][Len(events'[o])] = feedback'[o].is
    BY <1>3, <1>4, <1>6
  <2>2. QED  BY <1>4, <2>1 DEF Trail, Logged
<1>9. \A x : Continues(x)
  <2>1. \A x \in DOMAIN feedback : Len(events[x]) \in Nat
    BY LenProperties DEF TypeOK, FeedbackOK
  <2>2. ASSUME o \in DOMAIN feedback
        PROVE  Len(events[o]) <= Len(events'[o]) /\ \A i \in 1..Len(events[o]) : events'[o][i] = events[o][i]
    BY <1>2, <1>3, <1>5, <1>6, <2>1, <2>2 DEF Marks
  <2>3. QED  BY <1>4, <2>1, <2>2 DEF Continues
<1>10. Numbered' /\ Seen'
  BY <1>4, <1>7 DEF Trail, Numbered, Seen, Turns
<1>11. \A q \in Tabs \ {t} : Told(q)'
  BY <1>7, <1>9, ToldStays DEF Trail, Turns, TypeOK
<1>12. Told(t)'
  <2>1. tab'[t] = a
    BY <1>7 DEF Turns
  <2>2. a.saved => Holds(t, tab[t].feedback)'
    <3>1. tab[t].saved => (o \in DOMAIN occurrence =>
              /\ o \in DOMAIN feedback /\ tab[t].feedback.revision \in 1..Len(events[o])
              /\ events[o][tab[t].feedback.revision] = tab[t].wants)
      BY DEF Trail, Told, Holds
    <3>2. \A x \in DOMAIN feedback : Len(events[x]) \in Nat
      BY LenProperties DEF TypeOK, FeedbackOK
    <3>3. a.saved => (o \in DOMAIN occurrence' =>
              /\ o \in DOMAIN feedback' /\ a.feedback.revision \in 1..Len(events'[o])
              /\ events'[o][a.feedback.revision] = a.wants)
      BY <1>3, <1>4, <1>6, <1>7, <1>9, <3>1, <3>2 DEF Continues
    <3>4. QED  BY <1>7, <2>1, <3>3 DEF Holds
  <2>3. a.answer.revision = n
    BY <1>7
  <2>4. Holds(t, tab[t].answer)'
    BY <1>3, <1>4, <1>6, <1>7, <2>1, <2>3 DEF Holds
  <2>5. tab[t].on # None
    BY DEF Trail, Told
  <2>6. QED  BY <1>7, <2>1, <2>2, <2>4, <2>5 DEF Told
<1>13. QED  BY <1>8, <1>10, <1>11, <1>12 DEF Trail

LEMMA UpdateTrail == ASSUME TypeOK, TypeOK', Trail, NEW t \in Tabs, UpdateFeedback(t) PROVE Trail'
<1>1. PICK old \in Marks : old = IF tab[t].on \in DOMAIN feedback THEN feedback[tab[t].on] ELSE Unreviewed
  BY UpdateCases
<1>2. tab[t].pc = "checked"
  BY UpdateCases
<1>3. CASE Replies(t, Conflict) /\ UNCHANGED kept
  BY <1>2, <1>3, ReplyTurns, ToldTurns, MarksMade DEF TypeOK, kept
<1>4. CASE /\ tab[t].on \in DOMAIN feedback /\ old.is = tab[t].wants /\ Replies(t, old) /\ UNCHANGED kept
  <2>1. PICK a \in TabStates : /\ Turns(t, a) /\ a.pc = "answered" /\ a.answer = old /\ a.saved = tab[t].saved
                               /\ a.on = tab[t].on /\ a.wants = tab[t].wants /\ a.feedback = tab[t].feedback
    BY <1>2, <1>4, ReplyTurns DEF TypeOK
  <2>2. UNCHANGED <<job, occurrence, feedback, events>>
    BY <1>4 DEF kept
  <2>3. Numbered' /\ Logged' /\ Seen'
    BY <2>1, <2>2 DEF Trail, Numbered, Logged, Seen, Turns
  <2>4. \A q \in Tabs \ {t} : Told(q)'
    BY <2>1, <2>2 DEF Trail, Told, Holds, Turns
  <2>5. /\ old.revision \in 1..Len(events[tab[t].on]) /\ events[tab[t].on][old.revision] = tab[t].wants
        /\ tab[t].on # None
    <3>1. old = feedback[tab[t].on] /\ old.revision \in Nat
      BY <1>1, <1>4 DEF Marks
    <3>2. QED  BY <1>2, <1>4, <3>1 DEF Trail, Logged, Told
  <2>6. Told(t)'
    <3>1. Told(t) /\ tab'[t] = a
      BY <2>1 DEF Trail, Turns
    <3>2. QED  BY <1>4, <2>1, <2>2, <2>5, <3>1 DEF Told, Holds
  <2>7. QED  BY <2>3, <2>4, <2>6 DEF Trail
<1>5. CASE /\ tab[t].on \in DOMAIN occurrence /\ Save(tab[t].on, tab[t].wants, old.revision + 1)
           /\ Replies(t, [is |-> tab[t].wants, revision |-> old.revision + 1])
  BY <1>1, <1>2, <1>5, SaveTrail
<1>6. QED  BY <1>1, <1>3, <1>4, <1>5, UpdateCases

LEMMA TrailNext == ASSUME TypeOK, TypeOK', Trail, Next PROVE Trail'
<1>1. \A j \in Jobs : job[j].snapshot \in Nat
  BY DEF TypeOK, JobsOK, Reviews
<1>2. ASSUME NEW j \in Jobs, Records(j), UNCHANGED <<feedback, events, tab>> PROVE Trail'
  <2>1. PICK content \in SUBSET Findings : Record(j, content)
    BY <1>2 DEF Records
  <2>2. /\ \A i \in Jobs : job'[i].snapshot >= job[i].snapshot
        /\ \A o \in DOMAIN occurrence' \ DOMAIN occurrence :
              o[2] > job[o[1]].snapshot /\ o[2] <= job'[o[1]].snapshot
    BY <1>1, <2>1, RecordFacts DEF TypeOK
  <2>3. \A o \in DOMAIN feedback' : o \in DOMAIN feedback /\ feedback'[o] = feedback[o] /\ events'[o] = events[o]
    BY <1>2
  <2>4. QED  BY <1>2, <2>2, <2>3, StoreTrail
<1>3. ASSUME UNCHANGED <<occurrence, feedback, events, tab>>, \A j \in Jobs : job'[j].snapshot = job[j].snapshot
      PROVE  Trail'
  BY <1>1, <1>3, StoreTrail
<1>4. ASSUME NEW j \in Jobs, Expire(j) PROVE Trail'
  BY <1>3, <1>4, ExpireType DEF TypeOK
<1>5. ASSUME Rebuilds \/ Others PROVE Trail'
  <2>1. ASSUME Rebuilds PROVE UNCHANGED <<job, occurrence, feedback, events, tab>>
    BY <2>1 DEF Rebuilds, SweepRebuild, ReaderRebuilds, Rebuild, Upserted, kept
  <2>2. UNCHANGED <<job, occurrence, feedback, events, tab>>
    BY <1>5, <2>1, OtherType
  <2>3. QED  BY <1>3, <2>2
<1>6. ASSUME Erases PROVE Trail'
  <2>1. PICK S : Erase(S)
    BY <1>6, EraseSteps
  <2>2. UNCHANGED <<job, tab>>
    BY <1>6, EraseSteps
  <2>3. /\ DOMAIN occurrence' = DOMAIN occurrence \ S /\ DOMAIN feedback' = DOMAIN feedback \ S
        /\ \A o \in DOMAIN feedback' : feedback'[o] = feedback[o] /\ events'[o] = events[o]
    BY <2>1, EraseFacts DEF TypeOK
  <2>4. QED  BY <1>1, <2>2, <2>3, StoreTrail
<1>7. QED  BY <1>2, <1>4, <1>5, <1>6, StepCases, TabTrail, UpdateTrail

LEMMA TrailHolds == Spec => []Trail
<1>1. Init => Trail
  BY InitAll
<1>2. TypeOK /\ TypeOK' /\ Trail /\ [Next]_hist => Trail'
  <2>1. ASSUME Trail, UNCHANGED hist PROVE Trail'
    BY <2>1 DEF hist, kept, Trail, Numbered, Seen, Logged, Told, Holds
  <2>2. QED  BY <2>1, TrailNext
<1>3. QED  BY <1>1, <1>2, TypeCorrect, PTL DEF Spec

\* The feedback is the last of its events, and a tab that says "saved" names a
\* revision whose event is what it asked for, through lost answers, repeated
\* requests and other tabs.  (updateFeedback, submitFeedback.)
THEOREM SavesKept == Spec => []SavesRecorded
<1>1. TypeOK /\ Trail => SavesRecorded
  <2>1. SUFFICES ASSUME TypeOK, Trail PROVE SavesRecorded
    OBVIOUS
  <2>2. DOMAIN events = DOMAIN feedback /\ DOMAIN feedback \subseteq DOMAIN occurrence
    BY <2>1 DEF TypeOK, FeedbackOK
  <2>3. \A o \in DOMAIN feedback : Len(events[o]) = feedback[o].revision /\ Last(events[o]) = feedback[o].is
    BY <2>1 DEF Trail, Logged, Last
  <2>4. \A t \in Tabs : tab[t].saved /\ tab[t].on \in DOMAIN events =>
            events[tab[t].on][tab[t].feedback.revision] = tab[t].wants
    BY <2>1, <2>2 DEF Trail, Told, Holds
  <2>5. QED  BY <2>2, <2>3, <2>4 DEF SavesRecorded
<1>2. QED  BY <1>1, TypeCorrect, TrailHolds, PTL

\* Nobody overwrites feedback he has not seen: the tab whose save takes effect had
\* been shown the very revision it replaces.  (updateFeedback.)
THEOREM SavesSeen == Spec => NoBlindSave
<1>1. ASSUME TypeOK, Trail, Next, NEW o \in DOMAIN feedback, o \in DOMAIN feedback', feedback'[o] # feedback[o]
      PROVE  \E t \in Tabs : /\ tab[t].on = o /\ tab'[t].pc # tab[t].pc
                             /\ tab[t].feedback.revision = feedback[o].revision
  <2>1. ASSUME NEW t \in Tabs, UpdateFeedback(t)
        PROVE  /\ tab[t].on = o /\ tab'[t].pc # tab[t].pc
               /\ tab[t].feedback.revision = feedback[o].revision
    <3>1. PICK old \in Marks : old = IF tab[t].on \in DOMAIN feedback THEN feedback[tab[t].on] ELSE Unreviewed
      BY <1>1, <2>1, UpdateCases
    <3>2. tab[t].pc = "checked" /\ tab[t].wants \in Dispositions
      BY <1>1, <2>1, UpdateCases
    <3>3. /\ tab[t].on \in DOMAIN occurrence /\ old.revision = tab[t].expects
          /\ Save(tab[t].on, tab[t].wants, old.revision + 1)
          /\ Replies(t, [is |-> tab[t].wants, revision |-> old.revision + 1])
      BY <1>1, <2>1, <3>1, UpdateCases DEF kept
    <3>4. feedback' = Put(feedback, tab[t].on, [is |-> tab[t].wants, revision |-> old.revision + 1])
      BY <3>3 DEF Save
    <3>5. tab[t].on = o
      BY <1>1, <3>4 DEF Put
    <3>6. tab[t].feedback.revision = feedback[o].revision
      BY <1>1, <3>1, <3>2, <3>3, <3>5 DEF Trail, Told
    <3>7. old.revision + 1 \in Nat
      BY <3>1 DEF Marks
    <3>8. [is |-> tab[t].wants, revision |-> old.revision + 1] \in Marks
      BY <3>2, <3>7 DEF Marks
    <3>9. tab'[t].pc = "answered"
      BY <1>1, <3>2, <3>3, <3>8, ReplyTurns DEF TypeOK, Turns
    <3>10. QED  BY <3>2, <3>5, <3>6, <3>9
  <2>2. ASSUME ~\E t \in Tabs : UpdateFeedback(t) PROVE feedback'[o] = feedback[o]
    <3>1. ASSUME NEW t \in Tabs,
                 \/ \E x \in DOMAIN occurrence : Load(t, x)
                 \/ \E d \in Dispositions : Submit(t, d)
                 \/ Precheck(t) \/ Receive(t) \/ Lose(t)
          PROVE  UNCHANGED feedback
      BY <3>1 DEF Load, Submit, Precheck, Receive, Lose, kept
    <3>2. ASSUME NEW j \in Jobs, Expire(j) PROVE UNCHANGED feedback
      BY <3>2 DEF Expire
    <3>3. ASSUME Rebuilds PROVE UNCHANGED feedback
      BY <3>3 DEF Rebuilds, SweepRebuild, ReaderRebuilds, Rebuild, Upserted, kept
    <3>4. ASSUME Erases PROVE feedback'[o] = feedback[o]
      BY <1>1, <3>4, EraseSteps, EraseFacts DEF TypeOK
    <3>5. QED  BY <1>1, <2>2, <3>1, <3>2, <3>3, <3>4, StepCases, OtherType
  <2>3. QED  BY <1>1, <2>1, <2>2
<1>2. TypeOK /\ Trail /\ [Next]_hist =>
         [\A o \in DOMAIN feedback \cap DOMAIN feedback' : feedback'[o] # feedback[o] =>
             \E t \in Tabs : /\ tab[t].on = o /\ tab'[t].pc # tab[t].pc
                             /\ tab[t].feedback.revision = feedback[o].revision]_hist
  BY <1>1
<1>3. QED  BY <1>2, TypeCorrect, TrailHolds, PTL DEF Spec, NoBlindSave

\* The findings of a review never come back once they were superseded or deleted:
\* what appears is of a snapshot the review did not have before.  (recordCompletedJob.)
THEOREM GoneForGood == Spec => NoResurrection
<1>1. ASSUME TypeOK, Next, NEW o \in DOMAIN occurrence'
      PROVE  /\ o \notin DOMAIN occurrence => o[2] > job[o[1]].snapshot
             /\ o \in DOMAIN occurrence /\ occurrence[o] = "superseded" => occurrence'[o] = "superseded"
  <2>1. ASSUME NEW j \in Jobs, Records(j)
        PROVE  /\ o \notin DOMAIN occurrence => o[2] > job[o[1]].snapshot
               /\ o \in DOMAIN occurrence /\ occurrence[o] = "superseded" => occurrence'[o] = "superseded"
    <3>1. PICK content \in SUBSET Findings : Record(j, content)
      BY <2>1 DEF Records
    <3>2. QED  BY <1>1, <3>1, RecordFacts DEF TypeOK
  <2>2. ASSUME NEW t \in Tabs,
               \/ \E x \in DOMAIN occurrence : Load(t, x)
               \/ \E d \in Dispositions : Submit(t, d)
               \/ Precheck(t) \/ Receive(t) \/ Lose(t) \/ UpdateFeedback(t)
        PROVE  UNCHANGED occurrence
    BY <2>2 DEF Load, Submit, Precheck, Receive, Lose, UpdateFeedback, Save, kept
  <2>3. ASSUME NEW j \in Jobs, Expire(j) PROVE UNCHANGED occurrence
    BY <2>3 DEF Expire
  <2>4. ASSUME Rebuilds PROVE UNCHANGED occurrence
    BY <2>4 DEF Rebuilds, SweepRebuild, ReaderRebuilds, Rebuild, Upserted, kept
  <2>5. ASSUME Erases PROVE o \in DOMAIN occurrence /\ occurrence'[o] = occurrence[o]
    BY <1>1, <2>5, EraseSteps, EraseFacts DEF TypeOK
  <2>6. QED  BY <1>1, <2>1, <2>2, <2>3, <2>4, <2>5, StepCases, OtherType
<1>2. TypeOK /\ [Next]_hist =>
         [\A o \in DOMAIN occurrence' :
             /\ o \notin DOMAIN occurrence => o[2] > job[o[1]].snapshot
             /\ o \in DOMAIN occurrence /\ occurrence[o] = "superseded" => occurrence'[o] = "superseded"]_hist
  BY <1>1
<1>3. QED  BY <1>2, TypeCorrect, PTL DEF Spec, NoResurrection

-------------------------------------------------------------------------------
(* The decisions: types *)

Rules == [repo : Repositories, from : Findings \cup {None}, is : R!Contents, revision : Nat, alive : BOOLEAN]
Transitions == Seq([from : R!Statuses, to : R!Statuses])

WorkflowAsks    == [kind : {"workflow"}, status : R!Statuses, expects : Nat]
WorkflowAnswers == [kind : {"workflow"}, status : R!Statuses, revision : Nat]
CardStates == [status : R!Statuses, revision : Nat, proposal : BOOLEAN,
               ask : {R!NoRequest} \cup WorkflowAsks \cup [kind : {"rule"}, is : R!Contents],
               answer : {R!NoRequest, R!Error, [kind |-> "rule"]} \cup WorkflowAnswers]

SettingAsks    == [kind : {"setting"}, enabled : BOOLEAN, expects : Nat]
SettingAnswers == [kind : {"setting"}, enabled : BOOLEAN, revision : Nat]
PanelStates == [enabled : BOOLEAN, revision : Nat,
                ask : {R!NoRequest} \cup SettingAsks, answer : {R!NoRequest, R!Error} \cup SettingAnswers]

Items == [id : Nat, revision : Nat]
Loads == [repo : Repositories, is : {"asked", "read", "done"}, list : SUBSET Items, held : BOOLEAN]
Creations == [kind : {"create"}, repo : Repositories, epoch : Nat, rule : {None}, is : R!Contents]
Edits     == [kind : {"edit"}, repo : Repositories, epoch : Nat, rule : Items, is : R!Contents]
Presses   == [kind : {"switch", "remove"}, repo : Repositories, epoch : Nat, rule : Items, is : {None}]
PageAsks  == {R!NoRequest} \cup Creations \cup Edits \cup Presses
PageStates == [repo : Repositories, epoch : Nat, of : Repositories \cup {None}, list : SUBSET Items,
               editing : Items \cup {None}, loads : Seq(Loads), ask : PageAsks, answer : {R!Error} \cup PageAsks]

StoredOK == /\ active \in BOOLEAN
            /\ finding \in [Findings -> {"current", "closed", "gone"}]
            /\ tombstone \in [Findings -> {"none", "kept", "old"}]
            /\ workflow \in [Findings -> [status : R!Statuses, trail : Transitions]]
            /\ rules \in Seq(Rules)
            /\ setting \in [enabled : BOOLEAN, revision : Nat]
CardsOK  == card \in [Cards -> [Findings -> CardStates]]
PanelsOK == panel \in [Cards -> PanelStates]
PagesOK  == page \in [Pages -> PageStates]

DecisionsOK == StoredOK /\ CardsOK /\ PanelsOK /\ PagesOK

-------------------------------------------------------------------------------
(* The inductive invariant *)

\* A finding that has a rule keeps the audit event for as long as it is current.
Born == /\ \A i \in DOMAIN rules : \A f \in Findings :
              rules[i].from = f /\ finding[f] = "current" => tombstone[f] # "none"
        /\ \A f \in Findings : tombstone[f] = "old" => finding[f] # "current"

\* Status s was that of f at revision k.
Said(f, s, k) == /\ k <= R!Revision(f)
                 /\ k = 0 => s = "OPEN"
                 /\ k # 0 => s = workflow[f].trail[k].to

\* Of a finding that is current, cards show and hear what was once so; a card that waits
\* for a change asked for it at the revision it shows.
CardSees(f, w) == /\ finding[f] = "current" => Said(f, w.status, w.revision)
                  /\ finding[f] = "current" /\ w.answer.kind = "workflow" => Said(f, w.answer.status, w.answer.revision)
                  /\ w.ask.kind = "workflow" => w.ask.expects = w.revision
CardsSee == /\ \A f \in Findings : finding[f] = "current" => Said(f, workflow[f].status, R!Revision(f))
        /\ \A c \in Cards, f \in Findings : CardSees(f, card[c][f])

\* A panel that waits asked at the revision it shows.
Asked == \A c \in Cards : panel[c].ask.kind = "setting" => panel[c].ask.expects = panel[c].revision

\* Every rule a page knows, in its lists, its form or its request, is of the repository it has
\* it from.
OfRepo(x, r) == x.id \in DOMAIN rules /\ rules[x.id].repo = r
PageKnows(w) == /\ \A x \in w.list : OfRepo(x, w.of)
                /\ w.editing # None => OfRepo(w.editing, w.repo)
                /\ w.ask.kind \in {"edit", "switch", "remove"} => OfRepo(w.ask.rule, w.ask.repo)
                /\ \A n \in DOMAIN w.loads : \A x \in w.loads[n].list : OfRepo(x, w.loads[n].repo)
Known == \A p \in Pages : PageKnows(page[p])

DecisionsInv == DecisionsOK /\ R!RulesSound /\ Born /\ CardsSee /\ Asked /\ Known

-------------------------------------------------------------------------------
(* The rules there are *)

Sound(x) == /\ x.is.mode # "DETERMINISTIC" => x.is.guideline
            /\ x.is.mode # "LLM" => x.is.pattern
            /\ x.from # None => R!ModelOnly(x.is)

Added(x) == /\ rules' = Append(rules, x)
            /\ x \in Rules /\ Sound(x) /\ Cardinality(R!Alive(x.repo)) < Limit
            /\ x.from # None => \A i \in DOMAIN rules : rules[i].from # x.from

Changed(i, x) == /\ i \in DOMAIN rules /\ rules' = [rules EXCEPT ![i] = x]
                 /\ x \in Rules /\ Sound(x)
                 /\ x.repo = rules[i].repo /\ x.from = rules[i].from /\ (x.alive => rules[i].alive)

\* What a page knows of a rule stays true, for a rule stays in its repository.
Stays == /\ DOMAIN rules \subseteq DOMAIN rules'
         /\ \A i \in DOMAIN rules : rules'[i].repo = rules[i].repo

LEMMA AliveFinite ==
    ASSUME rules \in Seq(Rules), NEW r
    PROVE  IsFiniteSet(R!Alive(r))
<1>1. IsFiniteSet(1..Len(rules))
  BY LenProperties, FS_Interval
<1>2. R!Alive(r) \subseteq 1..Len(rules)
  BY LenProperties DEF R!Alive
<1>3. QED  BY <1>1, <1>2, FS_Subset

LEMMA AddingIsSound ==
    ASSUME rules \in Seq(Rules), R!RulesSound, Limit \in Nat, NEW x, Added(x)
    PROVE  rules' \in Seq(Rules) /\ R!RulesSound' /\ Stays
<1> DEFINE n == Len(rules) + 1
<1>1. /\ x \in Rules /\ rules' \in Seq(Rules)
      /\ n \in Nat /\ n \notin DOMAIN rules /\ DOMAIN rules' = DOMAIN rules \cup {n}
      /\ rules'[n] = x /\ \A i \in DOMAIN rules : rules'[i] = rules[i]
  BY AppendProperties, LenProperties DEF Added
<1> HIDE DEF n
<1>2. \A i \in DOMAIN rules' : Sound(rules'[i])
  BY <1>1 DEF Added, R!RulesSound, Sound
<1>3. ASSUME NEW r \in Repositories PROVE Cardinality(R!Alive(r)') <= Limit
  <2>1. IsFiniteSet(R!Alive(r)) /\ Cardinality(R!Alive(r)) <= Limit /\ Cardinality(R!Alive(r)) \in Nat
    BY AliveFinite, FS_CardinalityType DEF R!RulesSound, R!Cardinality, Cardinality
  <2>2. CASE x.repo = r
    <3>1. R!Alive(r)' \subseteq R!Alive(r) \cup {n}
      BY <1>1 DEF R!Alive
    <3>2. IsFiniteSet(R!Alive(r) \cup {n}) /\ Cardinality(R!Alive(r) \cup {n}) = Cardinality(R!Alive(r)) + 1
      <4>1. n \notin R!Alive(r)
        BY <1>1 DEF R!Alive
      <4>2. QED  BY <2>1, <4>1, FS_AddElement
    <3>3. Cardinality(R!Alive(r)') <= Cardinality(R!Alive(r) \cup {n}) /\ Cardinality(R!Alive(r)') \in Nat
      BY <3>1, <3>2, FS_Subset, FS_CardinalityType
    <3>4. Cardinality(R!Alive(r) \cup {n}) \in Nat
      BY <3>2, FS_CardinalityType
    <3>5. Cardinality(R!Alive(r)) < Limit
      BY <2>2 DEF Added
    <3>6. QED  BY <2>1, <3>2, <3>3, <3>4, <3>5
  <2>3. CASE x.repo # r
    <3>1. R!Alive(r)' = R!Alive(r)
      BY <1>1, <2>3 DEF R!Alive
    <3>2. QED  BY <2>1, <3>1
  <2>4. QED  BY <2>2, <2>3
<1>4. ASSUME NEW i \in DOMAIN rules', NEW k \in DOMAIN rules',
             rules'[i].from = rules'[k].from, rules'[i].from # None
      PROVE  i = k
  BY <1>1, <1>4 DEF Added, R!RulesSound
<1>5. QED  BY <1>1, <1>2, <1>3, <1>4 DEF R!RulesSound, Sound, Stays, R!Cardinality, Cardinality

LEMMA ChangingIsSound ==
    ASSUME rules \in Seq(Rules), R!RulesSound, Limit \in Nat, NEW i, NEW x, Changed(i, x)
    PROVE  rules' \in Seq(Rules) /\ R!RulesSound' /\ Stays
<1>1. /\ rules' \in Seq(Rules) /\ DOMAIN rules' = DOMAIN rules
      /\ rules'[i] = x /\ \A k \in DOMAIN rules : k # i => rules'[k] = rules[k]
  BY ExceptSeq DEF Changed
<1>2. \A k \in DOMAIN rules' : Sound(rules'[k])
  BY <1>1 DEF Changed, R!RulesSound, Sound
<1>3. \A k \in DOMAIN rules : rules'[k].repo = rules[k].repo /\ rules'[k].from = rules[k].from
  BY <1>1 DEF Changed
<1>4. ASSUME NEW r \in Repositories PROVE Cardinality(R!Alive(r)') <= Limit
  <2>1. IsFiniteSet(R!Alive(r)) /\ Cardinality(R!Alive(r)) <= Limit /\ Cardinality(R!Alive(r)) \in Nat
    BY AliveFinite, FS_CardinalityType DEF R!RulesSound, R!Cardinality, Cardinality
  <2>2. R!Alive(r)' \subseteq R!Alive(r)
    BY <1>1, <1>3 DEF R!Alive, Changed
  <2>3. Cardinality(R!Alive(r)') <= Cardinality(R!Alive(r)) /\ Cardinality(R!Alive(r)') \in Nat
    BY <2>1, <2>2, FS_Subset, FS_CardinalityType
  <2>4. QED  BY <2>1, <2>3
<1>5. ASSUME NEW j \in DOMAIN rules', NEW k \in DOMAIN rules',
             rules'[j].from = rules'[k].from, rules'[j].from # None
      PROVE  j = k
  BY <1>1, <1>3, <1>5 DEF R!RulesSound
<1>6. QED  BY <1>1, <1>2, <1>3, <1>4, <1>5 DEF R!RulesSound, Sound, Stays, R!Cardinality, Cardinality

LEMMA SameRules ==
    ASSUME R!RulesSound, UNCHANGED rules
    PROVE  R!RulesSound' /\ Stays
BY DEF R!RulesSound, R!Alive, Stays

LEMMA PagesKnow == ASSUME PagesOK, Known, Stays, UNCHANGED page PROVE PagesOK' /\ Known'
BY DEF PagesOK, Known, PageKnows, OfRepo, Stays

-------------------------------------------------------------------------------
(* Beginning, and nothing happening *)

LEMMA Begins == ASSUME R!RulesConstants, R!Init PROVE DecisionsInv
<1>1. StoredOK
  <2>1. rules \in Seq(Rules)
    BY EmptySeq DEF R!Init
  <2>2. \A f \in Findings : workflow[f] \in [status : R!Statuses, trail : Transitions]
    BY EmptySeq DEF R!Init, R!Statuses, Transitions
  <2>3. QED  BY <2>1, <2>2 DEF R!Init, StoredOK
<1>2. CardsOK /\ PanelsOK
  BY DEF R!Init, CardsOK, CardStates, R!IdleCard, R!Statuses, PanelsOK, PanelStates, R!IdlePanel
<1>3. R!NewPage \in PageStates
  <2>1. <<>> \in Seq(Loads)
    BY EmptySeq
  <2>2. QED  BY <2>1 DEF R!RulesConstants, R!NewPage, PageStates, PageAsks
<1>4. PagesOK
  BY <1>3 DEF R!Init, PagesOK
<1>5. R!RulesSound
  <2>1. DOMAIN rules = {}
    BY DEF R!Init
  <2>2. \A r \in Repositories : R!Alive(r) = {}
    BY <2>1 DEF R!Alive
  <2>3. \A r \in Repositories : Cardinality(R!Alive(r)) <= Limit
    <3>1. Cardinality({}) = 0
      BY FS_EmptySet
    <3>2. QED  BY <2>2, <3>1 DEF R!RulesConstants
  <2>4. QED  BY <2>1, <2>3 DEF R!RulesSound, R!Cardinality, Cardinality
<1>6. Born
  BY DEF R!Init, Born
<1>7. \A f \in Findings : R!Revision(f) = 0
  BY DEF R!Init, R!Revision
<1>8. CardsSee
  BY <1>7 DEF R!Init, CardsSee, CardSees, Said, R!IdleCard, R!NoRequest
<1>9. Asked
  BY DEF R!Init, Asked, R!IdlePanel, R!NoRequest
<1>10. Known
  <2>1. R!NewPage.list = {} /\ R!NewPage.editing = None /\ R!NewPage.ask.kind = "none" /\ R!NewPage.loads = <<>>
    BY DEF R!NewPage, R!NoRequest
  <2>2. PageKnows(R!NewPage)
    BY <2>1 DEF PageKnows
  <2>3. \A p \in Pages : page[p] = R!NewPage
    BY DEF R!Init
  <2>4. QED  BY <2>2, <2>3 DEF Known
<1>11. QED  BY <1>1, <1>2, <1>4, <1>5, <1>6, <1>8, <1>9, <1>10 DEF DecisionsInv, DecisionsOK

LEMMA Stutters == ASSUME DecisionsInv, UNCHANGED R!vars PROVE DecisionsInv'
<1>1. UNCHANGED <<R!stored, card, panel, page>>
  BY DEF R!vars
<1>2. DecisionsOK'
  BY <1>1 DEF DecisionsInv, DecisionsOK, R!stored, StoredOK, CardsOK, PanelsOK, PagesOK
<1>3. R!RulesSound' /\ Known'
  BY <1>1, SameRules, PagesKnow DEF DecisionsInv, DecisionsOK, R!stored
<1>4. Born' /\ CardsSee' /\ Asked'
  BY <1>1 DEF DecisionsInv, R!stored, Born, CardsSee, CardSees, Said, R!Revision, Asked
<1>5. QED  BY <1>2, <1>3, <1>4 DEF DecisionsInv

-------------------------------------------------------------------------------
(* The card of a finding *)

\* A card moves, and nothing else.
LEMMA CardMoves ==
    ASSUME DecisionsInv, NEW c \in Cards, NEW f \in Findings, NEW w \in CardStates,
           CardSees(f, w), R!Card(c, f, w)
    PROVE  DecisionsInv'
<1>1. /\ UNCHANGED <<active, finding, tombstone, workflow, rules, setting, panel, page>>
      /\ card' = [card EXCEPT ![c][f] = w]
  BY DEF R!Card, R!stored
<1>2. DecisionsOK'
  BY <1>1 DEF DecisionsInv, DecisionsOK, StoredOK, CardsOK, PanelsOK, PagesOK
<1>3. R!RulesSound' /\ Known'
  BY <1>1, SameRules, PagesKnow DEF DecisionsInv, DecisionsOK
<1>4. Born' /\ Asked'
  BY <1>1 DEF DecisionsInv, Born, Asked
<1>5. CardsSee'
  <2>1. \A d \in Cards, g \in Findings : card'[d][g] = card[d][g] \/ (g = f /\ card'[d][g] = w)
    BY <1>1 DEF DecisionsInv, DecisionsOK, CardsOK
  <2>2. ASSUME NEW d \in Cards, NEW g \in Findings PROVE CardSees(g, card'[d][g])
    BY <2>1 DEF DecisionsInv, CardsSee
  <2>0. ASSUME NEW g \in Findings, NEW s, NEW k, Said(g, s, k) PROVE Said(g, s, k)'
    BY <1>1, <2>0 DEF Said, R!Revision
  <2>3. ASSUME NEW d \in Cards, NEW g \in Findings PROVE CardSees(g, card[d][g])'
    BY <1>1, <2>0, <2>2 DEF CardSees
  <2>4. \A g \in Findings : finding'[g] = "current" => Said(g, workflow[g].status, R!Revision(g))'
    BY <1>1 DEF DecisionsInv, CardsSee, Said, R!Revision
  <2>5. QED  BY <2>3, <2>4 DEF CardsSee
<1>6. QED  BY <1>2, <1>3, <1>4, <1>5 DEF DecisionsInv

\* The buttons of a card.
LEMMA CardActs ==
    ASSUME DecisionsInv, NEW c \in Cards, NEW f \in Findings,
           \/ R!Reload(c, f) \/ R!Propose(c, f) \/ R!Discard(c, f)
           \/ \E status \in R!Statuses : R!Transition(c, f, status)
           \/ \E text \in Texts, enabled \in BOOLEAN : R!ConfirmRule(c, f, text, enabled)
    PROVE  DecisionsInv'
<1> DEFINE w == card[c][f]
<1>1. w \in CardStates /\ CardSees(f, w)
  BY DEF DecisionsInv, DecisionsOK, CardsOK, CardsSee
<1>2. workflow[f].status \in R!Statuses /\ R!Revision(f) \in Nat
  BY LenProperties DEF DecisionsInv, DecisionsOK, StoredOK, R!Revision, Transitions
<1>3. CASE R!Reload(c, f)
  <2> DEFINE v == [w EXCEPT !.status = workflow[f].status, !.revision = R!Revision(f)]
  <2>1. v \in CardStates /\ v.answer = w.answer /\ v.ask = w.ask
        /\ v.status = workflow[f].status /\ v.revision = R!Revision(f)
    BY <1>1, <1>2 DEF CardStates
  <2>2. w.ask.kind = "none"
    BY <1>3 DEF R!Reload, R!Waits
  <2>3. CardSees(f, v)
    BY <1>1, <2>1, <2>2 DEF CardSees, DecisionsInv, CardsSee
  <2>4. R!Card(c, f, v)
    BY <1>3 DEF R!Reload
  <2> HIDE DEF v
  <2>5. QED  BY <2>1, <2>3, <2>4, CardMoves
<1>4. CASE R!Propose(c, f) \/ R!Discard(c, f)
  <2>1. PICK b \in BOOLEAN : R!Card(c, f, [w EXCEPT !.proposal = b])
    BY <1>4 DEF R!Propose, R!Discard
  <2> DEFINE v == [w EXCEPT !.proposal = b]
  <2>2. v \in CardStates /\ CardSees(f, v)
    BY <1>1 DEF CardStates, CardSees
  <2> HIDE DEF v
  <2>3. QED  BY <2>1, <2>2, CardMoves DEF v
<1>5. ASSUME NEW status \in R!Statuses, R!Transition(c, f, status) PROVE DecisionsInv'
  <2> DEFINE a == [kind |-> "workflow", status |-> status, expects |-> w.revision]
             v == [w EXCEPT !.ask = a]
  <2>1. a \in WorkflowAsks /\ a.kind = "workflow" /\ a.expects = w.revision
    BY <1>1 DEF WorkflowAsks, CardStates
  <2> HIDE DEF a
  <2>2. v \in CardStates /\ v.ask = a /\ v.status = w.status /\ v.revision = w.revision /\ v.answer = w.answer
    BY <1>1, <2>1 DEF CardStates
  <2>3. CardSees(f, v)
    BY <1>1, <2>1, <2>2 DEF CardSees
  <2>4. R!Card(c, f, v)
    BY <1>5 DEF R!Transition, a
  <2> HIDE DEF v
  <2>5. QED  BY <2>2, <2>3, <2>4, CardMoves
<1>6. ASSUME NEW text \in Texts, NEW enabled \in BOOLEAN, R!ConfirmRule(c, f, text, enabled) PROVE DecisionsInv'
  <2> DEFINE a == [kind |-> "rule", is |-> [text |-> text, mode |-> "LLM", guideline |-> TRUE,
                                             pattern |-> FALSE, enabled |-> enabled]]
             v == [w EXCEPT !.ask = a]
  <2>1. a \in [kind : {"rule"}, is : R!Contents] /\ a.kind = "rule"
    BY DEF R!Contents, R!Modes
  <2> HIDE DEF a
  <2>2. v \in CardStates /\ v.ask = a /\ v.status = w.status /\ v.revision = w.revision /\ v.answer = w.answer
    BY <1>1, <2>1 DEF CardStates
  <2>3. CardSees(f, v)
    BY <1>1, <2>1, <2>2 DEF CardSees
  <2>4. R!Card(c, f, v)
    BY <1>6 DEF R!ConfirmRule, a
  <2> HIDE DEF v
  <2>5. QED  BY <2>2, <2>3, <2>4, CardMoves
<1>7. QED  BY <1>3, <1>4, <1>5, <1>6

\* What a card hears of the workflow is what it then shows.
LEMMA CardHearing == ASSUME DecisionsInv, NEW c \in Cards, NEW f \in Findings, R!CardHears(c, f) PROVE DecisionsInv'
<1> DEFINE w == card[c][f]
           rest == [w EXCEPT !.ask = R!NoRequest, !.answer = R!NoRequest]
<1>1. w \in CardStates /\ CardSees(f, w)
  BY DEF DecisionsInv, DecisionsOK, CardsOK, CardsSee
<1>2. /\ rest \in CardStates /\ rest.ask = R!NoRequest /\ rest.answer = R!NoRequest
      /\ rest.status = w.status /\ rest.revision = w.revision
  BY <1>1 DEF CardStates
<1>3. R!NoRequest.kind = "none"
  BY DEF R!NoRequest
<1> HIDE DEF rest
<1>4. CASE R!Card(c, f, rest)
  BY <1>1, <1>2, <1>3, <1>4, CardMoves DEF CardSees
<1>5. CASE /\ w.answer.kind = "workflow"
           /\ R!Card(c, f, [rest EXCEPT !.status = w.answer.status, !.revision = w.answer.revision])
  <2> DEFINE v == [rest EXCEPT !.status = w.answer.status, !.revision = w.answer.revision]
  <2>1. w.answer \in WorkflowAnswers
    BY <1>1, <1>3, <1>5 DEF CardStates, R!Error
  <2>2. /\ v \in CardStates /\ v.ask = R!NoRequest /\ v.answer = R!NoRequest
        /\ v.status = w.answer.status /\ v.revision = w.answer.revision
    BY <1>2, <2>1 DEF CardStates, WorkflowAnswers
  <2>3. CardSees(f, v)
    BY <1>1, <1>3, <1>5, <2>2 DEF CardSees
  <2> HIDE DEF v
  <2>4. QED  BY <1>5, <2>2, <2>3, CardMoves DEF v
<1>6. CASE R!Card(c, f, [rest EXCEPT !.proposal = FALSE])
  <2> DEFINE v == [rest EXCEPT !.proposal = FALSE]
  <2>1. /\ v \in CardStates /\ v.ask = R!NoRequest /\ v.answer = R!NoRequest
        /\ v.status = w.status /\ v.revision = w.revision
    BY <1>2 DEF CardStates
  <2>2. CardSees(f, v)
    BY <1>1, <1>3, <2>1 DEF CardSees
  <2> HIDE DEF v
  <2>3. QED  BY <1>6, <2>1, <2>2, CardMoves DEF v
<1>7. QED  BY <1>4, <1>5, <1>6 DEF R!CardHears, rest

Answers == {R!NoRequest, R!Error, [kind |-> "rule"]} \cup WorkflowAnswers

\* What the server answers to a card.
LEMMA AnsweredCard ==
    ASSUME CardsOK, NEW c \in Cards, NEW f \in Findings, NEW a \in Answers, R!AnswersWorkflow(c, f, a)
    PROVE  /\ CardsOK' /\ UNCHANGED <<panel, page>>
           /\ card'[c][f] = [card[c][f] EXCEPT !.answer = a]
           /\ card' = [card EXCEPT ![c][f] = [card[c][f] EXCEPT !.answer = a]]
           /\ \A d \in Cards, g \in Findings : <<d, g>> # <<c, f>> => card'[d][g] = card[d][g]
<1> DEFINE w == card[c][f]
           v == [w EXCEPT !.answer = a]
<1>1. w \in CardStates
  BY DEF CardsOK
<1>2. v \in CardStates
  BY <1>1 DEF CardStates, Answers
<1>3. card' = [card EXCEPT ![c][f] = v]
  BY DEF R!AnswersWorkflow, CardsOK
<1> HIDE DEF v
<1>4. CardsOK' /\ card'[c][f] = v /\ \A d \in Cards, g \in Findings : <<d, g>> # <<c, f>> => card'[d][g] = card[d][g]
  BY <1>2, <1>3 DEF CardsOK
<1>5. QED  BY <1>3, <1>4 DEF v, R!AnswersWorkflow

LEMMA CardAnswered ==
    ASSUME DecisionsInv, NEW c \in Cards, NEW f \in Findings, NEW a \in Answers,
           finding[f] = "current" /\ a.kind = "workflow" => Said(f, a.status, a.revision),
           R!AnswersWorkflow(c, f, a), UNCHANGED R!stored
    PROVE  DecisionsInv'
<1> DEFINE w == card[c][f]
           v == [w EXCEPT !.answer = a]
<1>1. CardsOK /\ w \in CardStates /\ CardSees(f, w)
  BY DEF DecisionsInv, DecisionsOK, CardsOK, CardsSee
<1>2. v \in CardStates /\ v.answer = a /\ v.ask = w.ask /\ v.status = w.status /\ v.revision = w.revision
  BY <1>1 DEF CardStates, Answers
<1>3. CardSees(f, v)
  BY <1>1, <1>2 DEF CardSees
<1>4. R!Card(c, f, v)
  <2>1. CardsOK /\ R!AnswersWorkflow(c, f, a)
    BY <1>1
  <2> HIDE DEF w, v
  <2>2. /\ CardsOK' /\ UNCHANGED <<panel, page>>
        /\ card'[c][f] = [card[c][f] EXCEPT !.answer = a]
        /\ card' = [card EXCEPT ![c][f] = [card[c][f] EXCEPT !.answer = a]]
        /\ \A d \in Cards, g \in Findings : <<d, g>> # <<c, f>> => card'[d][g] = card[d][g]
    BY <2>1, AnsweredCard
  <2>3. QED  BY <2>2 DEF R!Card, v, w
<1> HIDE DEF v
<1>5. QED  BY <1>2, <1>3, <1>4, CardMoves

\* A change of the workflow appends to the trail: what was once so stays written there.
LEMMA WorkflowMoves == ASSUME DecisionsInv, NEW c \in Cards, NEW f \in Findings, R!UpdateWorkflow(c, f) PROVE DecisionsInv'
<1> DEFINE a == card[c][f].ask
<1>1. a \in WorkflowAsks /\ CardsOK /\ card[c][f] \in CardStates
  BY DEF R!UpdateWorkflow, DecisionsInv, DecisionsOK, CardsOK, CardStates, WorkflowAsks, R!NoRequest
<1>2. workflow[f] \in [status : R!Statuses, trail : Transitions] /\ R!Revision(f) \in Nat
  BY LenProperties DEF DecisionsInv, DecisionsOK, StoredOK, R!Revision, Transitions
<1>3. CASE R!AnswersWorkflow(c, f, R!Present(f)) /\ UNCHANGED R!stored
  <2>1. /\ R!Present(f) \in Answers
        /\ R!Present(f).status = workflow[f].status /\ R!Present(f).revision = R!Revision(f)
    BY <1>2 DEF R!Present, Answers, WorkflowAnswers
  <2>2. finding[f] = "current" => Said(f, workflow[f].status, R!Revision(f))
    BY DEF DecisionsInv, CardsSee
  <2>3. QED  BY <1>3, <2>1, <2>2, CardAnswered
<1>4. CASE R!AnswersWorkflow(c, f, R!Error) /\ UNCHANGED R!stored
  <2>1. R!Error \in Answers /\ R!Error.kind = "error"
    BY DEF R!Error, Answers
  <2>2. QED  BY <1>4, <2>1, CardAnswered
<1>5. CASE /\ workflow' = [workflow EXCEPT ![f] = [status |-> a.status,
                              trail |-> Append(@.trail, [from |-> @.status, to |-> a.status])]]
           /\ R!AnswersWorkflow(c, f, [kind |-> "workflow", status |-> a.status, revision |-> R!Revision(f) + 1])
           /\ UNCHANGED <<active, finding, tombstone, rules, setting>>
  <2> DEFINE x      == [from |-> workflow[f].status, to |-> a.status]
             answer == [kind |-> "workflow", status |-> a.status, revision |-> R!Revision(f) + 1]
  <2>1. a.status \in R!Statuses
    BY <1>1 DEF WorkflowAsks
  <2>2. x \in [from : R!Statuses, to : R!Statuses] /\ x.to = a.status
    BY <1>2, <2>1
  <2>3. answer \in Answers /\ answer.status = a.status /\ answer.revision = R!Revision(f) + 1
    BY <1>2, <2>1 DEF Answers, WorkflowAnswers
  <2> HIDE DEF answer
  <2>4. /\ CardsOK' /\ UNCHANGED <<panel, page>>
        /\ card'[c][f] = [card[c][f] EXCEPT !.answer = answer]
        /\ \A d \in Cards, g \in Findings : <<d, g>> # <<c, f>> => card'[d][g] = card[d][g]
    <3>1. R!AnswersWorkflow(c, f, answer)
      BY <1>5 DEF answer
    <3>2. QED  BY <1>1, <2>3, <3>1, AnsweredCard
  <2>5. /\ workflow'[f].status = a.status /\ workflow'[f].trail = Append(workflow[f].trail, x)
        /\ \A g \in Findings : g # f => workflow'[g] = workflow[g]
    BY <1>5 DEF DecisionsInv, DecisionsOK, StoredOK
  <2> HIDE DEF x
  <2>6. /\ workflow'[f].trail \in Transitions /\ Len(workflow'[f].trail) = R!Revision(f) + 1
        /\ \A k \in 1..R!Revision(f) : workflow'[f].trail[k] = workflow[f].trail[k]
        /\ workflow'[f].trail[R!Revision(f) + 1] = x
    BY <1>2, <2>2, <2>5, AppendProperties DEF Transitions, R!Revision
  <2>7. DecisionsOK'
    <3>1. workflow' \in [Findings -> [status : R!Statuses, trail : Transitions]]
      <4>1. [status |-> a.status, trail |-> Append(workflow[f].trail, x)] \in [status : R!Statuses, trail : Transitions]
        BY <2>1, <2>5, <2>6
      <4>2. QED  BY <1>5, <4>1 DEF x, DecisionsInv, DecisionsOK, StoredOK
    <3>2. QED  BY <1>5, <2>4, <3>1 DEF DecisionsInv, DecisionsOK, StoredOK, PanelsOK, PagesOK
  <2>8. R!RulesSound' /\ Known'
    BY <1>5, <2>4, SameRules, PagesKnow DEF DecisionsInv, DecisionsOK
  <2>9. Born' /\ Asked'
    BY <1>5, <2>4 DEF DecisionsInv, Born, Asked
  <2>10. ASSUME NEW g \in Findings, NEW s, NEW k \in Nat, Said(g, s, k) PROVE Said(g, s, k)'
    <3>1. CASE g = f
      <4>1. k <= R!Revision(f) + 1 /\ (k # 0 => k \in 1..R!Revision(f))
        BY <1>2, <2>10, <3>1 DEF Said
      <4>2. QED  BY <2>6, <2>10, <3>1, <4>1 DEF Said, R!Revision
    <3>2. CASE g # f
      BY <2>5, <2>10, <3>2 DEF Said, R!Revision
    <3>3. QED  BY <3>1, <3>2
  <2>11. ASSUME NEW s, NEW k \in Nat, s = a.status, k = R!Revision(f) + 1 PROVE Said(f, s, k)'
    BY <1>2, <2>2, <2>6, <2>11 DEF Said, R!Revision
  <2>12. CardsSee'
    <3>1. \A g \in Findings : finding'[g] = "current" => Said(g, workflow[g].status, R!Revision(g))'
      <4>1. Said(f, workflow[f].status, R!Revision(f))'
        BY <1>2, <2>5, <2>6, <2>2 DEF Said, R!Revision
      <4>2. \A g \in Findings \ {f} : finding[g] = "current" => Said(g, workflow[g].status, R!Revision(g))'
        BY <2>5 DEF DecisionsInv, CardsSee, Said, R!Revision
      <4>3. QED  BY <1>5, <4>1, <4>2
    <3>2. ASSUME NEW d \in Cards, NEW g \in Findings PROVE CardSees(g, card[d][g])'
      <4>1. card[d][g] \in CardStates /\ card'[d][g] \in CardStates /\ CardSees(g, card[d][g])
        BY <2>4 DEF DecisionsInv, DecisionsOK, CardsOK, CardsSee
      <4>2. CASE <<d, g>> = <<c, f>>
        <5>1. /\ card'[c][f].status = card[c][f].status /\ card'[c][f].revision = card[c][f].revision
              /\ card'[c][f].ask = a /\ card'[c][f].answer = answer
          BY <1>1, <2>4 DEF CardStates
        <5>2. card[c][f].revision \in Nat
          BY <1>1 DEF CardStates
        <5>3. finding'[g] = "current" => Said(g, card[d][g].status, card[d][g].revision)'
          BY <1>5, <2>10, <4>1, <4>2, <5>1, <5>2 DEF CardSees
        <5>4. Said(g, card[d][g].answer.status, card[d][g].answer.revision)'
          BY <1>2, <2>3, <2>11, <4>2, <5>1
        <5>5. QED  BY <4>1, <4>2, <5>1, <5>3, <5>4 DEF CardSees
      <4>3. CASE <<d, g>> # <<c, f>>
        <5>1. card'[d][g] = card[d][g] /\ card[d][g].revision \in Nat
          BY <2>4, <4>1, <4>3 DEF CardStates
        <5>2. card[d][g].answer.kind = "workflow" => card[d][g].answer.revision \in Nat
          BY <4>1 DEF CardStates, WorkflowAnswers, R!NoRequest, R!Error
        <5>3. QED  BY <1>5, <2>10, <4>1, <5>1, <5>2 DEF CardSees
      <4>4. QED  BY <4>2, <4>3
    <3>3. QED  BY <3>1, <3>2 DEF CardsSee
  <2>13. QED  BY <2>7, <2>8, <2>9, <2>12 DEF DecisionsInv
<1>6. QED  BY <1>3, <1>4, <1>5 DEF R!UpdateWorkflow

\* A rule made from a finding is the first of that finding, whose audit event says so.
LEMMA RuleMade ==
    ASSUME DecisionsInv, R!RulesConstants, NEW c \in Cards, NEW f \in Findings, R!SaveRule(c, f)
    PROVE  DecisionsInv'
<1> DEFINE a == card[c][f].ask
           x == [repo |-> Home, from |-> f, is |-> a.is, revision |-> 0, alive |-> TRUE]
<1>1. a.is \in R!Contents /\ CardsOK /\ card[c][f] \in CardStates
  BY DEF R!SaveRule, DecisionsInv, DecisionsOK, CardsOK, CardStates, WorkflowAsks, R!NoRequest
<1>2. PICK answer \in {[kind |-> "rule"], R!Error} : R!AnswersWorkflow(c, f, answer)
  BY DEF R!SaveRule
<1>3. answer \in Answers /\ answer.kind # "workflow"
  BY <1>2 DEF R!Error, Answers
<1>4. CASE UNCHANGED R!stored
  BY <1>2, <1>3, <1>4, CardAnswered
<1>5. CASE /\ rules' = Append(rules, x) /\ tombstone' = [tombstone EXCEPT ![f] = "kept"]
           /\ UNCHANGED <<active, finding, workflow, setting>>
           /\ R!Eligible(f) /\ R!Valid(a.is) /\ R!ModelOnly(a.is) /\ tombstone[f] = "none"
           /\ Cardinality(R!Alive(Home)) < Limit
  <2>1. x \in Rules /\ x.from = f /\ x.repo = Home /\ x.is = a.is
    BY <1>1 DEF Rules, R!RulesConstants
  <2>2. Sound(x)
    BY <1>1, <1>5, <2>1 DEF Sound, R!Valid, R!ModelOnly, R!Contents, R!Modes
  <2>3. \A i \in DOMAIN rules : rules[i].from # f
    BY <1>5 DEF DecisionsInv, Born, R!Eligible
  <2> HIDE DEF x
  <2>4. Added(x)
    BY <1>5, <2>1, <2>2, <2>3 DEF Added
  <2>5. rules' \in Seq(Rules) /\ R!RulesSound' /\ Stays
    BY <2>4, AddingIsSound DEF DecisionsInv, DecisionsOK, StoredOK, R!RulesConstants
  <2>6. /\ CardsOK' /\ UNCHANGED <<panel, page>>
        /\ card'[c][f] = [card[c][f] EXCEPT !.answer = answer]
        /\ card' = [card EXCEPT ![c][f] = [card[c][f] EXCEPT !.answer = answer]]
        /\ \A d \in Cards, g \in Findings : <<d, g>> # <<c, f>> => card'[d][g] = card[d][g]
    BY <1>1, <1>2, <1>3, AnsweredCard
  <2>7. DecisionsOK'
    BY <1>5, <2>5, <2>6 DEF DecisionsInv, DecisionsOK, StoredOK, PanelsOK, PagesOK
  <2>8. Known' /\ Asked'
    BY <2>5, <2>6, PagesKnow DEF DecisionsInv, DecisionsOK, Asked
  <2>9. Born'
    <3>1. tombstone'[f] = "kept" /\ \A g \in Findings : g # f => tombstone'[g] = tombstone[g]
      BY <1>5 DEF DecisionsInv, DecisionsOK, StoredOK
    <3>2. \A i \in DOMAIN rules' : rules'[i] = x \/ (i \in DOMAIN rules /\ rules'[i] = rules[i])
      BY <1>5, <2>1, AppendProperties, LenProperties DEF DecisionsInv, DecisionsOK, StoredOK
    <3>3. \A i \in DOMAIN rules' : \A g \in Findings :
             rules'[i].from = g /\ finding'[g] = "current" => tombstone'[g] # "none"
      BY <1>5, <2>1, <3>1, <3>2 DEF DecisionsInv, Born
    <3>4. \A g \in Findings : tombstone'[g] = "old" => finding'[g] # "current"
      BY <1>5, <3>1 DEF DecisionsInv, Born
    <3>5. QED  BY <3>3, <3>4 DEF Born
  <2>10. CardsSee'
    <3>1. \A d \in Cards, g \in Findings :
             /\ card'[d][g].status = card[d][g].status /\ card'[d][g].revision = card[d][g].revision
             /\ card'[d][g].ask = card[d][g].ask
             /\ card'[d][g].answer.kind = "workflow" => card'[d][g].answer = card[d][g].answer
      BY <1>1, <1>3, <2>6 DEF CardStates
    <3>2. ASSUME NEW d \in Cards, NEW g \in Findings PROVE CardSees(g, card[d][g])'
      <4>1. CardSees(g, card[d][g])
        BY DEF DecisionsInv, CardsSee
      <4>2. QED  BY <1>5, <3>1, <4>1 DEF CardSees, Said, R!Revision
    <3>3. QED  BY <1>5, <3>2 DEF DecisionsInv, CardsSee, Said, R!Revision
  <2>11. QED  BY <2>5, <2>7, <2>8, <2>9, <2>10 DEF DecisionsInv
<1>6. QED  BY <1>4, <1>5 DEF R!SaveRule, R!CreateRuleFromFinding, R!Cardinality, Cardinality

-------------------------------------------------------------------------------
(* The adaptation panel *)

\* A panel moves, and with it perhaps the setting.
LEMMA PanelMoves ==
    ASSUME DecisionsInv, NEW c \in Cards, NEW w \in PanelStates,
           w.ask.kind = "setting" => w.ask.expects = w.revision,
           panel' = [panel EXCEPT ![c] = w],
           setting' \in [enabled : BOOLEAN, revision : Nat],
           UNCHANGED <<active, finding, tombstone, workflow, rules, card, page>>
    PROVE  DecisionsInv'
<1>1. DecisionsOK'
  BY DEF DecisionsInv, DecisionsOK, StoredOK, CardsOK, PanelsOK, PagesOK
<1>2. R!RulesSound' /\ Known'
  BY SameRules, PagesKnow DEF DecisionsInv, DecisionsOK
<1>3. Born' /\ CardsSee'
  BY DEF DecisionsInv, Born, CardsSee, CardSees, Said, R!Revision
<1>4. Asked'
  BY DEF DecisionsInv, DecisionsOK, PanelsOK, Asked
<1>5. QED  BY <1>1, <1>2, <1>3, <1>4 DEF DecisionsInv

\* What a panel asks and hears is at the revision it shows.
LEMMA PanelActs ==
    ASSUME DecisionsInv, NEW c \in Cards,
           R!Refresh(c) \/ R!Toggle(c) \/ R!UpdateAdaptation(c) \/ R!PanelHears(c)
    PROVE  DecisionsInv'
<1> DEFINE w == panel[c]
<1>1. /\ w \in PanelStates /\ (w.ask.kind = "setting" => w.ask.expects = w.revision)
      /\ setting \in [enabled : BOOLEAN, revision : Nat]
  BY DEF DecisionsInv, DecisionsOK, StoredOK, PanelsOK, Asked
<1>2. R!NoRequest.kind = "none" /\ R!Error.kind = "error"
  BY DEF R!NoRequest, R!Error
<1>3. CASE R!Refresh(c)
  <2> DEFINE v == [w EXCEPT !.enabled = setting.enabled, !.revision = setting.revision]
  <2>1. v \in PanelStates /\ v.ask = w.ask /\ w.ask.kind = "none"
    BY <1>1, <1>3 DEF PanelStates, R!Refresh, R!Waits
  <2>2. panel' = [panel EXCEPT ![c] = v] /\ UNCHANGED <<R!stored, card, page>>
    BY <1>3 DEF R!Refresh, R!Panel
  <2> HIDE DEF v
  <2>3. QED  BY <1>1, <2>1, <2>2, PanelMoves DEF R!stored
<1>4. CASE R!Toggle(c)
  <2> DEFINE a == [kind |-> "setting", enabled |-> ~w.enabled, expects |-> w.revision]
             v == [w EXCEPT !.ask = a]
  <2>1. a \in SettingAsks /\ a.expects = w.revision
    BY <1>1 DEF SettingAsks, PanelStates
  <2> HIDE DEF a
  <2>2. v \in PanelStates /\ v.ask = a /\ v.revision = w.revision
    BY <1>1, <2>1 DEF PanelStates
  <2>3. panel' = [panel EXCEPT ![c] = v] /\ UNCHANGED <<R!stored, card, page>>
    BY <1>4 DEF R!Toggle, R!Panel, a
  <2> HIDE DEF v
  <2>4. QED  BY <1>1, <2>1, <2>2, <2>3, PanelMoves DEF R!stored
<1>5. CASE R!UpdateAdaptation(c)
  <2>1. w.ask \in SettingAsks
    BY <1>1, <1>2, <1>5 DEF R!UpdateAdaptation, PanelStates
  <2>2. /\ setting' \in [enabled : BOOLEAN, revision : Nat]
        /\ UNCHANGED <<active, finding, tombstone, workflow, rules>>
    BY <1>1, <1>5, <2>1 DEF R!UpdateAdaptation, R!stored, SettingAsks
  <2>3. PICK answer \in {R!Error} \cup SettingAnswers : R!Panel(c, [w EXCEPT !.answer = answer])
    <3>1. R!Setting(setting.enabled, setting.revision) \in SettingAnswers
      BY <1>1 DEF R!Setting, SettingAnswers
    <3>2. R!Setting(w.ask.enabled, setting.revision + 1) \in SettingAnswers
      BY <1>1, <2>1 DEF R!Setting, SettingAnswers, SettingAsks
    <3>3. QED  BY <1>5, <3>1, <3>2 DEF R!UpdateAdaptation
  <2> DEFINE v == [w EXCEPT !.answer = answer]
  <2>4. v \in PanelStates /\ v.ask = w.ask /\ v.revision = w.revision
    BY <1>1, <2>3 DEF PanelStates
  <2>5. panel' = [panel EXCEPT ![c] = v] /\ UNCHANGED <<card, page>>
    BY <2>3 DEF R!Panel
  <2> HIDE DEF v
  <2>6. QED  BY <1>1, <2>2, <2>4, <2>5, PanelMoves
<1>6. CASE R!PanelHears(c)
  <2> DEFINE rest == [w EXCEPT !.ask = R!NoRequest, !.answer = R!NoRequest]
             v    == [rest EXCEPT !.enabled = w.answer.enabled, !.revision = w.answer.revision]
  <2>1. rest \in PanelStates /\ rest.ask = R!NoRequest
    BY <1>1 DEF PanelStates
  <2>2. w.answer.kind = "setting" => w.answer \in SettingAnswers
    BY <1>1, <1>2 DEF PanelStates
  <2>3. R!Panel(c, rest) \/ (w.answer.kind = "setting" /\ R!Panel(c, v))
    BY <1>6 DEF R!PanelHears
  <2>4. UNCHANGED R!stored
    BY <1>6 DEF R!PanelHears
  <2> HIDE DEF rest
  <2>5. w.answer.kind = "setting" => v \in PanelStates /\ v.ask = R!NoRequest
    BY <2>1, <2>2 DEF PanelStates, SettingAnswers
  <2> HIDE DEF v
  <2>6. QED  BY <1>1, <1>2, <2>1, <2>3, <2>4, <2>5, PanelMoves DEF R!Panel, R!stored
<1>7. QED  BY <1>3, <1>4, <1>5, <1>6

-------------------------------------------------------------------------------
(* The rules page *)

\* A page moves, and nothing else.
LEMMA PageMoves ==
    ASSUME DecisionsInv, NEW p \in Pages, NEW w \in PageStates, PageKnows(w), R!Page(p, w)
    PROVE  DecisionsInv'
<1>1. /\ UNCHANGED <<active, finding, tombstone, workflow, rules, setting, card, panel>>
      /\ page' = [page EXCEPT ![p] = w]
  BY DEF R!Page, R!stored
<1>2. DecisionsOK'
  BY <1>1 DEF DecisionsInv, DecisionsOK, StoredOK, CardsOK, PanelsOK, PagesOK
<1>3. R!RulesSound'
  BY <1>1, SameRules DEF DecisionsInv
<1>4. Born' /\ CardsSee' /\ Asked'
  BY <1>1 DEF DecisionsInv, Born, CardsSee, CardSees, Said, R!Revision, Asked
<1>5. Known'
  <2>1. \A q \in Pages : page'[q] = page[q] \/ page'[q] = w
    BY <1>1 DEF DecisionsInv, DecisionsOK, PagesOK
  <2>2. QED  BY <1>1, <2>1 DEF DecisionsInv, Known, PageKnows, OfRepo
<1>6. QED  BY <1>2, <1>3, <1>4, <1>5 DEF DecisionsInv

\* A list is asked for.
LEMMA LoadingKnows ==
    ASSUME NEW w \in PageStates, PageKnows(w), NEW held \in BOOLEAN
    PROVE  R!Loading(w, held) \in PageStates /\ PageKnows(R!Loading(w, held))
<1> DEFINE l == [repo |-> w.repo, is |-> "asked", list |-> {}, held |-> held]
           v == [w EXCEPT !.loads = Append(@, l)]
<1>1. l \in Loads /\ l.list = {} /\ w.loads \in Seq(Loads)
  BY DEF Loads, PageStates
<1> HIDE DEF l
<1>2. /\ Append(w.loads, l) \in Seq(Loads)
      /\ \A n \in DOMAIN Append(w.loads, l) : \/ n \in DOMAIN w.loads /\ Append(w.loads, l)[n] = w.loads[n]
                                              \/ Append(w.loads, l)[n] = l
  BY <1>1, AppendProperties, LenProperties
<1>3. /\ v \in PageStates /\ v.loads = Append(w.loads, l) /\ v.list = w.list /\ v.of = w.of
      /\ v.editing = w.editing /\ v.ask = w.ask /\ v.repo = w.repo
  BY <1>2 DEF PageStates
<1>4. PageKnows(v)
  BY <1>1, <1>2, <1>3 DEF PageKnows
<1>5. R!Loading(w, held) = v
  BY DEF R!Loading, l
<1>6. QED  BY <1>3, <1>4, <1>5

LEMMA PageTyped ==
    ASSUME DecisionsInv, NEW p \in Pages
    PROVE  page[p] \in PageStates /\ PageKnows(page[p])
BY DEF DecisionsInv, DecisionsOK, PagesOK, Known

LEMMA PageVisits == ASSUME DecisionsInv, NEW p \in Pages, R!Visit(p) PROVE DecisionsInv'
BY PageTyped, LoadingKnows, PageMoves DEF R!Visit

\* Whoever selects another repository leaves the form, whose rule is of the former one.
LEMMA Selecting ==
    ASSUME NEW w \in PageStates, PageKnows(w), NEW r \in Repositories, NEW l \in Seq(Loads),
           DOMAIN l = DOMAIN w.loads,
           \A n \in DOMAIN w.loads : l[n].list = w.loads[n].list /\ l[n].repo = w.loads[n].repo
    PROVE  LET v == [w EXCEPT !.repo = r, !.epoch = @ + 1, !.editing = None, !.loads = l]
           IN  v \in PageStates /\ PageKnows(v)
<1> DEFINE e == w.epoch + 1
           v == [w EXCEPT !.repo = r, !.epoch = e, !.editing = None, !.loads = l]
<1>0. e \in Nat
  BY DEF PageStates
<1> HIDE DEF e
<1>1. v \in PageStates
  BY <1>0 DEF PageStates
<1>2. v.loads = l /\ v.list = w.list /\ v.of = w.of /\ v.editing = None /\ v.ask = w.ask
  BY DEF PageStates
<1> HIDE DEF v
<1>3. PageKnows(v)
  BY <1>2 DEF PageKnows
<1>4. QED  BY <1>1, <1>3 DEF v, e

LEMMA PageSelects == ASSUME DecisionsInv, NEW p \in Pages, NEW r \in Repositories, R!Select(p, r) PROVE DecisionsInv'
<1> DEFINE w       == page[p]
           aborted == [n \in DOMAIN w.loads |-> [w.loads[n] EXCEPT !.held = FALSE]]
           v       == [w EXCEPT !.repo = r, !.epoch = @ + 1, !.editing = None, !.loads = aborted]
<1>1. w \in PageStates /\ PageKnows(w)
  BY PageTyped
<1>2. /\ aborted \in Seq(Loads) /\ DOMAIN aborted = DOMAIN w.loads
      /\ \A n \in DOMAIN w.loads : aborted[n].list = w.loads[n].list /\ aborted[n].repo = w.loads[n].repo
  <2>1. w.loads \in Seq(Loads) /\ \A n \in DOMAIN w.loads : w.loads[n] \in Loads
    BY <1>1, ElementOfSeq, LenProperties DEF PageStates
  <2>2. DOMAIN w.loads = 1..Len(w.loads) /\ Len(w.loads) \in Nat
    BY <2>1, LenProperties
  <2>3. \A n \in DOMAIN w.loads : [w.loads[n] EXCEPT !.held = FALSE] \in Loads
    BY <2>1 DEF Loads
  <2>4. aborted \in Seq(Loads)
    BY <2>2, <2>3, IsASeq
  <2>5. QED  BY <2>1, <2>4 DEF Loads
<1>3. R!Page(p, R!Loading(v, FALSE))
  BY DEF R!Select
<1> HIDE DEF aborted
<1>4. v \in PageStates /\ PageKnows(v)
  BY <1>1, <1>2, Selecting
<1> HIDE DEF v
<1>5. R!Loading(v, FALSE) \in PageStates /\ PageKnows(R!Loading(v, FALSE))
  BY <1>4, LoadingKnows
<1>6. QED  BY <1>3, <1>5, PageMoves

\* One of the lists a page asked for is another, of the same repository.
LEMMA LoadMoves ==
    ASSUME NEW w \in PageStates, PageKnows(w), NEW n \in DOMAIN w.loads,
           NEW l \in Loads, l.repo = w.loads[n].repo, \A x \in l.list : OfRepo(x, l.repo)
    PROVE  LET v == [w EXCEPT !.loads[n] = l]
           IN  v \in PageStates /\ PageKnows(v)
<1> DEFINE v == [w EXCEPT !.loads[n] = l]
<1>1. w.loads \in Seq(Loads)
  BY DEF PageStates
<1>2. /\ [w.loads EXCEPT ![n] = l] \in Seq(Loads) /\ DOMAIN [w.loads EXCEPT ![n] = l] = DOMAIN w.loads
      /\ [w.loads EXCEPT ![n] = l][n] = l
      /\ \A m \in DOMAIN w.loads : m # n => [w.loads EXCEPT ![n] = l][m] = w.loads[m]
  BY <1>1, ExceptSeq
<1>3. /\ v \in PageStates /\ v.loads = [w.loads EXCEPT ![n] = l] /\ v.list = w.list /\ v.of = w.of
      /\ v.editing = w.editing /\ v.ask = w.ask /\ v.repo = w.repo
  BY <1>2 DEF PageStates
<1> HIDE DEF v
<1>4. PageKnows(v)
  BY <1>2, <1>3 DEF PageKnows
<1>5. QED  BY <1>3, <1>4 DEF v

LEMMA LoadTyped ==
    ASSUME NEW w \in PageStates, NEW n \in DOMAIN w.loads
    PROVE  w.loads[n] \in Loads
BY ElementOfSeq, LenProperties DEF PageStates

LEMMA ListServed == ASSUME DecisionsInv, NEW p \in Pages, NEW n, R!ServeList(p, n) PROVE DecisionsInv'
<1> DEFINE w     == page[p]
           items == {[id |-> i, revision |-> rules[i].revision] : i \in R!Alive(w.loads[n].repo)}
           l     == [w.loads[n] EXCEPT !.is = "read", !.list = items]
           v     == [w EXCEPT !.loads[n] = l]
<1>1. w \in PageStates /\ PageKnows(w) /\ n \in DOMAIN w.loads /\ w.loads[n] \in Loads
  BY PageTyped, LoadTyped DEF R!ServeList
<1>2. items \in SUBSET Items /\ \A x \in items : OfRepo(x, w.loads[n].repo)
  <2>1. \A i \in DOMAIN rules : i \in Nat /\ rules[i].revision \in Nat
    <3>1. rules \in Seq(Rules)
      BY DEF DecisionsInv, DecisionsOK, StoredOK
    <3>2. \A i \in DOMAIN rules : i \in Nat /\ rules[i] \in Rules
      BY <3>1, ElementOfSeq, LenProperties
    <3>3. QED  BY <3>2 DEF Rules
  <2>2. QED  BY <2>1 DEF Items, R!Alive, OfRepo
<1>3. R!Page(p, v)
  <2>1. [w EXCEPT !.loads[n].is = "read", !.loads[n].list = items] = v
    BY <1>1 DEF PageStates, Loads
  <2>2. QED  BY <2>1 DEF R!ServeList
<1> HIDE DEF items
<1>4. l \in Loads /\ l.repo = w.loads[n].repo /\ l.list = items
  BY <1>1, <1>2 DEF Loads
<1> HIDE DEF l
<1>5. v \in PageStates /\ PageKnows(v)
  BY <1>1, <1>2, <1>4, LoadMoves
<1> HIDE DEF v
<1>6. QED  BY <1>3, <1>5, PageMoves

\* A list is shown for the repository it is of, or the page shows none.
LEMMA Showing ==
    ASSUME NEW w \in PageStates, PageKnows(w), NEW list \in SUBSET Items, NEW of \in Repositories \cup {None},
           \A x \in list : OfRepo(x, of)
    PROVE  LET v == [w EXCEPT !.list = list, !.of = of]
           IN  v \in PageStates /\ PageKnows(v)
<1> DEFINE v == [w EXCEPT !.list = list, !.of = of]
<1>1. /\ v \in PageStates /\ v.loads = w.loads /\ v.list = list /\ v.of = of
      /\ v.editing = w.editing /\ v.ask = w.ask /\ v.repo = w.repo
  BY DEF PageStates
<1> HIDE DEF v
<1>2. PageKnows(v)
  BY <1>1 DEF PageKnows
<1>3. QED  BY <1>1, <1>2 DEF v

LEMMA ListHeard == ASSUME DecisionsInv, NEW p \in Pages, NEW n, R!PageShows(p, n) \/ R!LoadFails(p, n) PROVE DecisionsInv'
<1> DEFINE w == page[p]
           l == w.loads[n]
           d == R!Done(l)
           v == [w EXCEPT !.loads[n] = d]
<1>1. w \in PageStates /\ PageKnows(w) /\ n \in DOMAIN w.loads /\ l \in Loads /\ \A x \in l.list : OfRepo(x, l.repo)
  BY PageTyped, LoadTyped DEF R!PageShows, R!LoadFails, PageKnows
<1>2. d \in Loads /\ d.repo = l.repo /\ d.list = {}
  BY <1>1 DEF R!Done, Loads
<1>3. v \in PageStates /\ PageKnows(v)
  BY <1>1, <1>2, LoadMoves
<1>4. CASE R!PageShows(p, n)
  <2>1. R!Page(p, [w EXCEPT !.list = l.list, !.of = l.repo, !.loads[n] = d])
    BY <1>4 DEF R!PageShows
  <2>2. [w EXCEPT !.list = l.list, !.of = l.repo, !.loads[n] = d] = [v EXCEPT !.list = l.list, !.of = l.repo]
    BY <1>1 DEF PageStates
  <2>3. l.list \in SUBSET Items /\ l.repo \in Repositories
    BY <1>1 DEF Loads
  <2> HIDE DEF v, d
  <2>4. [v EXCEPT !.list = l.list, !.of = l.repo] \in PageStates /\ PageKnows([v EXCEPT !.list = l.list, !.of = l.repo])
    BY <1>1, <1>3, <2>3, Showing
  <2>5. QED  BY <2>1, <2>2, <2>4, PageMoves
<1>5. CASE R!LoadFails(p, n)
  <2>1. R!Page(p, [w EXCEPT !.list = {}, !.of = None, !.loads[n] = d])
    BY <1>1, <1>5 DEF R!LoadFails
  <2>2. [w EXCEPT !.list = {}, !.of = None, !.loads[n] = d] = [v EXCEPT !.list = {}, !.of = None]
    BY <1>1 DEF PageStates
  <2> HIDE DEF v, d
  <2>3. [v EXCEPT !.list = {}, !.of = None] \in PageStates /\ PageKnows([v EXCEPT !.list = {}, !.of = None])
    BY <1>3, Showing
  <2>4. QED  BY <2>1, <2>2, <2>3, PageMoves
<1>6. QED  BY <1>4, <1>5

\* The form is over a rule of the repository that is selected.
LEMMA Forming ==
    ASSUME NEW w \in PageStates, PageKnows(w), NEW x \in Items \cup {None}, x # None => OfRepo(x, w.repo)
    PROVE  [w EXCEPT !.editing = x] \in PageStates /\ PageKnows([w EXCEPT !.editing = x])
<1> DEFINE v == [w EXCEPT !.editing = x]
<1>1. /\ v \in PageStates /\ v.loads = w.loads /\ v.list = w.list /\ v.of = w.of
      /\ v.editing = x /\ v.ask = w.ask /\ v.repo = w.repo
  BY DEF PageStates
<1> HIDE DEF v
<1>2. PageKnows(v)
  BY <1>1 DEF PageKnows
<1>3. QED  BY <1>1, <1>2 DEF v

LEMMA FormMoves ==
    ASSUME DecisionsInv, NEW p \in Pages, R!CancelEdit(p) \/ \E x \in page[p].list : R!StartEdit(p, x)
    PROVE  DecisionsInv'
<1>1. page[p] \in PageStates /\ PageKnows(page[p])
  BY PageTyped
<1>2. CASE R!CancelEdit(p)
  BY <1>1, <1>2, Forming, PageMoves DEF R!CancelEdit
<1>3. ASSUME NEW x \in page[p].list, R!StartEdit(p, x) PROVE DecisionsInv'
  <2>1. x \in Items /\ OfRepo(x, page[p].repo)
    BY <1>1, <1>3 DEF R!StartEdit, R!Listed, PageKnows, PageStates
  <2>2. QED  BY <1>1, <1>3, <2>1, Forming, PageMoves DEF R!StartEdit
<1>4. QED  BY <1>2, <1>3

\* A page asks for a rule it knows in the repository that is selected.
LEMMA Asking ==
    ASSUME NEW w \in PageStates, PageKnows(w), NEW a \in PageAsks,
           a.kind \in {"edit", "switch", "remove"} => OfRepo(a.rule, a.repo)
    PROVE  [w EXCEPT !.ask = a] \in PageStates /\ PageKnows([w EXCEPT !.ask = a])
<1> DEFINE v == [w EXCEPT !.ask = a]
<1>1. /\ v \in PageStates /\ v.loads = w.loads /\ v.list = w.list /\ v.of = w.of
      /\ v.editing = w.editing /\ v.ask = a /\ v.repo = w.repo
  BY DEF PageStates
<1> HIDE DEF v
<1>2. PageKnows(v)
  BY <1>1 DEF PageKnows
<1>3. QED  BY <1>1, <1>2 DEF v

LEMMA Sent ==
    ASSUME DecisionsInv, NEW p \in Pages, NEW kind, NEW x, NEW is, R!Send(p, kind, x, is),
           \/ kind = "create" /\ x = None /\ is \in R!Contents
           \/ kind = "edit" /\ x \in Items /\ OfRepo(x, page[p].repo) /\ is \in R!Contents
           \/ kind \in {"switch", "remove"} /\ x \in Items /\ OfRepo(x, page[p].repo) /\ is = None
    PROVE  DecisionsInv'
<1> DEFINE a == [kind |-> kind, repo |-> page[p].repo, epoch |-> page[p].epoch, rule |-> x, is |-> is]
<1>1. page[p] \in PageStates /\ PageKnows(page[p]) /\ page[p].repo \in Repositories /\ page[p].epoch \in Nat
  BY PageTyped DEF PageStates
<1>2. a \in PageAsks /\ (a.kind \in {"edit", "switch", "remove"} => OfRepo(a.rule, a.repo))
  BY <1>1 DEF PageAsks, Creations, Edits, Presses
<1>3. R!Page(p, [page[p] EXCEPT !.ask = a])
  BY DEF R!Send
<1> HIDE DEF a
<1>4. QED  BY <1>1, <1>2, <1>3, Asking, PageMoves

LEMMA PageSends ==
    ASSUME DecisionsInv, NEW p \in Pages,
           \/ \E x \in page[p].list : R!Press(p, x, "switch") \/ R!Press(p, x, "remove")
           \/ \E is \in R!Contents : R!Submit(p, is)
    PROVE  DecisionsInv'
<1>1. page[p] \in PageStates /\ PageKnows(page[p])
  BY PageTyped
<1>2. ASSUME NEW x \in page[p].list, NEW kind \in {"switch", "remove"}, R!Press(p, x, kind) PROVE DecisionsInv'
  <2>1. x \in Items /\ OfRepo(x, page[p].repo)
    BY <1>1, <1>2 DEF R!Press, R!Send, R!Listed, PageKnows, PageStates
  <2>2. QED  BY <1>2, <2>1, Sent DEF R!Press
<1>3. ASSUME NEW is \in R!Contents, R!Submit(p, is) PROVE DecisionsInv'
  <2>1. CASE page[p].editing = None
    BY <1>3, <2>1, Sent DEF R!Submit
  <2>2. CASE page[p].editing # None
    <3>1. page[p].editing \in Items /\ OfRepo(page[p].editing, page[p].repo)
      BY <1>1, <2>2 DEF PageKnows, PageStates
    <3>2. QED  BY <1>3, <2>2, <3>1, Sent DEF R!Submit
  <2>3. QED  BY <2>1, <2>2
<1>4. QED  BY <1>2, <1>3

\* An answer, or none, leaves a page with what it knew.
LEMMA Hearing ==
    ASSUME NEW w \in PageStates, PageKnows(w)
    PROVE  LET rest == [w EXCEPT !.ask = R!NoRequest, !.answer = R!NoRequest]
           IN  rest \in PageStates /\ PageKnows(rest) /\ rest.editing = w.editing /\ rest.repo = w.repo
<1> DEFINE v == [w EXCEPT !.ask = R!NoRequest, !.answer = R!NoRequest]
<1>1. R!NoRequest \in PageAsks /\ R!NoRequest.kind = "none"
  BY DEF PageAsks, R!NoRequest
<1>2. /\ v \in PageStates /\ v.loads = w.loads /\ v.list = w.list /\ v.of = w.of
      /\ v.editing = w.editing /\ v.ask = R!NoRequest /\ v.repo = w.repo
  BY <1>1 DEF PageStates
<1> HIDE DEF v
<1>3. PageKnows(v)
  BY <1>1, <1>2 DEF PageKnows
<1>4. QED  BY <1>2, <1>3 DEF v

LEMMA PageListens == ASSUME DecisionsInv, NEW p \in Pages, R!PageHears(p) PROVE DecisionsInv'
<1> DEFINE w    == page[p]
           rest == [w EXCEPT !.ask = R!NoRequest, !.answer = R!NoRequest]
<1>1. w \in PageStates /\ PageKnows(w)
  BY PageTyped
<1>2. rest \in PageStates /\ PageKnows(rest) /\ rest.editing = w.editing /\ rest.repo = w.repo
  BY <1>1, Hearing
<1>3. PICK form \in {None, w.editing} : R!Page(p, rest) \/ R!Page(p, R!Loading([rest EXCEPT !.editing = form], TRUE))
  BY DEF R!PageHears
<1> HIDE DEF rest
<1>4. CASE R!Page(p, rest)
  BY <1>2, <1>4, PageMoves
<1>5. CASE R!Page(p, R!Loading([rest EXCEPT !.editing = form], TRUE))
  <2> DEFINE v == [rest EXCEPT !.editing = form]
  <2>1. form \in Items \cup {None} /\ (form # None => OfRepo(form, rest.repo))
    BY <1>1, <1>2, <1>3 DEF PageStates, PageKnows
  <2>2. v \in PageStates /\ PageKnows(v)
    BY <1>2, <2>1, Forming
  <2> HIDE DEF v
  <2>3. R!Loading(v, TRUE) \in PageStates /\ PageKnows(R!Loading(v, TRUE))
    BY <2>2, LoadingKnows
  <2>4. QED  BY <1>5, <2>3, PageMoves DEF v
<1>6. QED  BY <1>3, <1>4, <1>5

\* A request is served: the rules stay sound and where they are, and none is of another finding.
LEMMA Served ==
    ASSUME DecisionsInv, R!RulesConstants, NEW p \in Pages, NEW answer \in {R!Error} \cup PageAsks,
           page' = [page EXCEPT ![p].answer = answer],
           UNCHANGED <<active, finding, tombstone, workflow, setting, card, panel>>,
           rules' \in Seq(Rules), R!RulesSound', Stays,
           \A i \in DOMAIN rules' : rules'[i].from # None => \E k \in DOMAIN rules : rules[k].from = rules'[i].from
    PROVE  DecisionsInv'
<1> DEFINE v == [page[p] EXCEPT !.answer = answer]
<1>1. page[p] \in PageStates /\ PageKnows(page[p])
  BY PageTyped
<1>2. /\ v \in PageStates /\ v.loads = page[p].loads /\ v.list = page[p].list /\ v.of = page[p].of
      /\ v.editing = page[p].editing /\ v.ask = page[p].ask /\ v.repo = page[p].repo
  BY <1>1 DEF PageStates
<1>3. page' = [page EXCEPT ![p] = v]
  OBVIOUS
<1> HIDE DEF v
<1>4. PageKnows(v)
  BY <1>1, <1>2 DEF PageKnows
<1>5. \A q \in Pages : page'[q] \in PageStates /\ (page'[q] = v \/ page'[q] = page[q])
  BY <1>2, <1>3 DEF DecisionsInv, DecisionsOK, PagesOK
<1>6. DecisionsOK'
  BY <1>2, <1>3 DEF DecisionsInv, DecisionsOK, StoredOK, CardsOK, PanelsOK, PagesOK
<1>7. Known'
  <2>1. ASSUME NEW q \in Pages PROVE PageKnows(page[q])'
    <3>1. PageKnows(page'[q])
      BY <1>4, <1>5 DEF DecisionsInv, Known
    <3>2. QED  BY <3>1 DEF PageKnows, OfRepo, Stays
  <2>2. QED  BY <2>1 DEF Known
<1>8. Born'
  <2>1. ASSUME NEW i \in DOMAIN rules', NEW f \in Findings, rules'[i].from = f, finding[f] = "current"
        PROVE  tombstone[f] # "none"
    <3>1. PICK k \in DOMAIN rules : rules[k].from = f
      BY <2>1 DEF R!RulesConstants
    <3>2. QED  BY <2>1, <3>1 DEF DecisionsInv, Born
  <2>2. QED  BY <2>1 DEF DecisionsInv, Born
<1>9. CardsSee' /\ Asked'
  BY DEF DecisionsInv, CardsSee, CardSees, Said, R!Revision, Asked
<1>10. QED  BY <1>6, <1>7, <1>8, <1>9 DEF DecisionsInv

LEMMA RuleTyped == ASSUME rules \in Seq(Rules), NEW i \in DOMAIN rules PROVE rules[i] \in Rules /\ i \in Nat
BY ElementOfSeq, LenProperties

\* The server makes of a request a sound rule, of the repository the request names.
LEMMA PageServed == ASSUME DecisionsInv, R!RulesConstants, NEW p \in Pages, R!ServePage(p) PROVE DecisionsInv'
<1> DEFINE a == page[p].ask
<1>1. page[p] \in PageStates /\ PageKnows(page[p]) /\ rules \in Seq(Rules) /\ Limit \in Nat /\ R!RulesSound
  BY PageTyped DEF DecisionsInv, DecisionsOK, StoredOK, R!RulesConstants
<1>2. /\ a \in PageAsks
      /\ a.kind = "create" => a \in Creations
      /\ a.kind = "edit" => a \in Edits
      /\ a.kind \in {"switch", "remove"} => a \in Presses
  BY <1>1 DEF PageStates, PageAsks, R!NoRequest, Creations, Edits, Presses
<1>3. PICK answer \in {R!Error} \cup PageAsks : page' = [page EXCEPT ![p].answer = answer]
  BY <1>2 DEF R!ServePage
<1>4. UNCHANGED <<active, finding, tombstone, workflow, setting, card, panel>>
  BY DEF R!ServePage, R!Create, R!Update, R!Delete, R!stored
<1>5. CASE UNCHANGED rules
  <2>1. rules' \in Seq(Rules) /\ R!RulesSound' /\ Stays
    BY <1>1, <1>5, SameRules
  <2>2. QED  BY <1>3, <1>4, <1>5, <2>1, Served
<1>6. CASE a.kind = "create" /\ R!Create(a.repo, a.is)
  <2> DEFINE x == [repo |-> a.repo, from |-> None, is |-> [a.is EXCEPT !.enabled = TRUE], revision |-> 0, alive |-> TRUE]
  <2>1. SUFFICES ASSUME rules' # rules PROVE DecisionsInv'
    BY <1>5
  <2>2. rules' = Append(rules, x) /\ R!Valid(a.is) /\ Cardinality(R!Alive(a.repo)) < Limit
    BY <1>6, <2>1 DEF R!Create, R!stored, R!Cardinality, Cardinality
  <2>3. a.repo \in Repositories /\ a.is \in R!Contents
    BY <1>2, <1>6 DEF Creations
  <2>4. x \in Rules /\ x.repo = a.repo /\ x.from = None /\ x.is = [a.is EXCEPT !.enabled = TRUE]
    BY <2>3 DEF Rules, R!Contents
  <2>5. Sound(x)
    BY <2>2, <2>3, <2>4 DEF Sound, R!Valid, R!Contents, R!Modes
  <2> HIDE DEF x
  <2>6. Added(x)
    BY <2>2, <2>4, <2>5 DEF Added
  <2>7. rules' \in Seq(Rules) /\ R!RulesSound' /\ Stays
    BY <1>1, <2>6, AddingIsSound
  <2>8. \A i \in DOMAIN rules' : rules'[i] = x \/ (i \in DOMAIN rules /\ rules'[i] = rules[i])
    BY <1>1, <2>2, <2>4, AppendProperties, LenProperties
  <2>9. QED  BY <1>3, <1>4, <2>4, <2>7, <2>8, Served
<1>7. ASSUME NEW i \in DOMAIN rules, NEW x, Changed(i, x) PROVE DecisionsInv'
  <2>1. rules' \in Seq(Rules) /\ R!RulesSound' /\ Stays
    BY <1>1, <1>7, ChangingIsSound
  <2>2. \A k \in DOMAIN rules' : k \in DOMAIN rules /\ rules'[k].from = rules[k].from
    BY <1>1, <1>7, ExceptSeq DEF Changed
  <2>3. QED  BY <1>3, <1>4, <2>1, <2>2, Served
<1>8. CASE a.kind \in {"edit", "switch"} /\ R!Update(a, R!Merged(a))
  <2> DEFINE i   == a.rule.id
             is  == R!Merged(a)
             n   == rules[i].revision + 1
             x   == [rules[i] EXCEPT !.is = is, !.revision = n]
  <2>1. SUFFICES ASSUME rules' # rules PROVE DecisionsInv'
    BY <1>5
  <2>2. /\ i \in R!Alive(a.repo) /\ R!Valid(is) /\ (rules[i].from # None => R!ModelOnly(is))
        /\ rules' = [rules EXCEPT ![i].is = is, ![i].revision = @ + 1]
    BY <1>8, <2>1 DEF R!Update, R!stored
  <2>3. i \in DOMAIN rules /\ rules[i] \in Rules /\ rules[i].is \in R!Contents /\ rules[i].revision \in Nat
    BY <1>1, <2>2, RuleTyped DEF R!Alive, Rules
  <2>4. is \in R!Contents
    <3>1. CASE a.kind = "switch"
      BY <2>3, <3>1 DEF R!Merged, R!Contents
    <3>2. CASE a.kind = "edit"
      <4>1. a.is \in R!Contents
        BY <1>2, <3>2 DEF Edits
      <4>2. R!Merged(a) = [a.is EXCEPT !.enabled = rules[i].is.enabled]
        BY <3>2 DEF R!Merged
      <4>3. QED  BY <2>3, <4>1, <4>2 DEF R!Contents
    <3>3. QED  BY <1>8, <3>1, <3>2
  <2> HIDE DEF is
  <2>5. rules' = [rules EXCEPT ![i] = x] /\ n \in Nat
    <3> DEFINE y == [rules[i] EXCEPT !.is = is]
               r == [rules EXCEPT ![i] = y]
    <3>1. rules' = [r EXCEPT ![i].revision = @ + 1]
      BY <2>2
    <3>2. r[i] = y /\ y.revision = rules[i].revision /\ DOMAIN r = DOMAIN rules
      BY <1>1, <2>3 DEF Rules
    <3>3. [r EXCEPT ![i].revision = @ + 1] = [r EXCEPT ![i] = [y EXCEPT !.revision = n]]
      BY <3>2
    <3>4. [y EXCEPT !.revision = n] = x
      BY <2>3 DEF Rules
    <3>5. [r EXCEPT ![i] = x] = [rules EXCEPT ![i] = x]
      BY <1>1, <2>3
    <3>6. n \in Nat
      BY <2>3
    <3> HIDE DEF r, y, x, n, i
    <3>7. rules' = [r EXCEPT ![i] = x]
      BY <3>1, <3>3, <3>4, Zenon
    <3>8. QED  BY <3>5, <3>6, <3>7, Zenon
  <2> HIDE DEF n, i
  <2>6. x \in Rules /\ x.is = is /\ x.repo = rules[i].repo /\ x.from = rules[i].from /\ x.alive = rules[i].alive
    <3>1. rules[i] \in Rules /\ n \in Nat
      BY <2>3, <2>5
    <3>2. x \in Rules
      BY <2>4, <3>1 DEF Rules
    <3>3. x.is = is /\ x.repo = rules[i].repo /\ x.from = rules[i].from /\ x.alive = rules[i].alive
      BY <3>1 DEF Rules
    <3>4. QED  BY <3>2, <3>3
  <2>7. Sound(x)
    BY <2>2, <2>4, <2>6 DEF Sound, R!Valid, R!ModelOnly, R!Contents, R!Modes
  <2> HIDE DEF x
  <2>8. Changed(i, x)
    BY <2>3, <2>5, <2>6, <2>7 DEF Changed
  <2>9. QED  BY <1>7, <2>3, <2>8
<1>9. CASE a.kind = "remove" /\ R!Delete(a)
  <2> DEFINE i == a.rule.id
             x == [rules[i] EXCEPT !.alive = FALSE]
  <2>1. SUFFICES ASSUME rules' # rules PROVE DecisionsInv'
    BY <1>5
  <2>2. i \in R!Alive(a.repo) /\ rules' = [rules EXCEPT ![i] = x]
    BY <1>9, <2>1 DEF R!Delete, R!stored
  <2>3. i \in DOMAIN rules /\ rules[i] \in Rules
    BY <1>1, <2>2, RuleTyped DEF R!Alive
  <2>4. x \in Rules /\ x.is = rules[i].is /\ x.repo = rules[i].repo /\ x.from = rules[i].from /\ x.alive = FALSE
    BY <2>3 DEF Rules
  <2>5. Sound(x)
    BY <1>1, <2>3, <2>4 DEF Sound, R!RulesSound
  <2> HIDE DEF x
  <2>6. Changed(i, x)
    BY <2>2, <2>3, <2>4, <2>5 DEF Changed
  <2>7. QED  BY <1>7, <2>3, <2>6
<1>10. QED  BY <1>6, <1>8, <1>9 DEF R!ServePage

-------------------------------------------------------------------------------
(* The repository, and time *)

\* A finding never becomes current again, and only of one that is not are the audit event,
\* the workflow and its trail forgotten.
LEMMA TimePasses ==
    ASSUME DecisionsInv,
           \/ \E f \in Findings : R!Close(f) \/ R!AuditAges(f) \/ R!SweepAudit(f) \/ R!SweepFinding(f)
           \/ R!Leave \/ R!Clear \/ R!Return
    PROVE  DecisionsInv'
<1>1. UNCHANGED <<rules, card, panel, page>>
  BY DEF R!Close, R!AuditAges, R!SweepAudit, R!SweepFinding, R!Leave, R!Clear, R!Return
<1>2. /\ active' \in BOOLEAN
      /\ finding' \in [Findings -> {"current", "closed", "gone"}]
      /\ tombstone' \in [Findings -> {"none", "kept", "old"}]
      /\ setting' \in [enabled : BOOLEAN, revision : Nat]
  <2>1. CASE \E f \in Findings : R!Close(f) \/ R!AuditAges(f) \/ R!SweepAudit(f) \/ R!SweepFinding(f)
    BY <2>1 DEF DecisionsInv, DecisionsOK, StoredOK, R!Close, R!AuditAges, R!SweepAudit, R!SweepFinding
  <2>2. CASE R!Leave \/ R!Return
    BY <2>2 DEF DecisionsInv, DecisionsOK, StoredOK, R!Leave, R!Return
  <2>3. CASE R!Clear
    <3>1. setting.revision + 1 \in Nat
      BY DEF DecisionsInv, DecisionsOK, StoredOK
    <3>2. QED  BY <2>3, <3>1 DEF DecisionsInv, DecisionsOK, StoredOK, R!Clear
  <2>4. QED  BY <2>1, <2>2, <2>3
<1>3. \A f \in Findings : finding'[f] = "current" => finding[f] = "current" /\ workflow'[f] = workflow[f]
  BY DEF DecisionsInv, DecisionsOK, StoredOK, R!Close, R!AuditAges, R!SweepAudit, R!SweepFinding, R!Leave, R!Clear, R!Return
<1>4. workflow' \in [Findings -> [status : R!Statuses, trail : Transitions]]
  <2>1. R!Fresh \in [status : R!Statuses, trail : Transitions]
    BY EmptySeq DEF R!Fresh, R!Statuses, Transitions
  <2>2. QED  BY <2>1 DEF DecisionsInv, DecisionsOK, StoredOK, R!Close, R!AuditAges, R!SweepAudit, R!SweepFinding, R!Leave, R!Clear, R!Return
<1>5. DecisionsOK'
  BY <1>1, <1>2, <1>4 DEF DecisionsInv, DecisionsOK, StoredOK, CardsOK, PanelsOK, PagesOK
<1>6. R!RulesSound' /\ Known' /\ Asked'
  BY <1>1, SameRules, PagesKnow DEF DecisionsInv, DecisionsOK, Asked
<1>7. Born'
  <2>1. \A f \in Findings : finding'[f] = "current" =>
            finding[f] = "current" /\ tombstone'[f] = tombstone[f]
    BY DEF DecisionsInv, DecisionsOK, StoredOK, Born, R!Close, R!AuditAges, R!SweepAudit, R!SweepFinding, R!Leave, R!Clear, R!Return
  <2>2. QED  BY <1>1, <2>1 DEF DecisionsInv, Born
<1>8. CardsSee'
  BY <1>1, <1>3 DEF DecisionsInv, CardsSee, CardSees, Said, R!Revision
<1>9. QED  BY <1>5, <1>6, <1>7, <1>8 DEF DecisionsInv

LEMMA InductiveHolds == R!RulesConstants => (R!Spec => []DecisionsInv)
<1>1. SUFFICES ASSUME R!RulesConstants PROVE R!Spec => []DecisionsInv
  OBVIOUS
<1>2. R!Init => DecisionsInv
  BY <1>1, Begins
<1>3. ASSUME DecisionsInv, [R!Next]_R!vars PROVE DecisionsInv'
  <2>1. ASSUME NEW c \in Cards, NEW f \in Findings,
               \/ R!Reload(c, f) \/ R!Propose(c, f) \/ R!Discard(c, f)
               \/ \E status \in R!Statuses : R!Transition(c, f, status)
               \/ \E text \in Texts, enabled \in BOOLEAN : R!ConfirmRule(c, f, text, enabled)
        PROVE  DecisionsInv'
    BY <1>3, <2>1, CardActs
  <2>2. ASSUME NEW c \in Cards, NEW f \in Findings, R!UpdateWorkflow(c, f) \/ R!SaveRule(c, f) \/ R!CardHears(c, f)
        PROVE  DecisionsInv'
    BY <1>1, <1>3, <2>2, WorkflowMoves, RuleMade, CardHearing
  <2>3. ASSUME NEW c \in Cards, R!Refresh(c) \/ R!Toggle(c) \/ R!UpdateAdaptation(c) \/ R!PanelHears(c)
        PROVE  DecisionsInv'
    BY <1>3, <2>3, PanelActs
  <2>4. ASSUME NEW p \in Pages,
               \/ R!Visit(p) \/ \E r \in Repositories : R!Select(p, r)
               \/ \E n \in 1..MaxLoads : R!ServeList(p, n) \/ R!PageShows(p, n) \/ R!LoadFails(p, n)
        PROVE  DecisionsInv'
    BY <1>3, <2>4, PageVisits, PageSelects, ListServed, ListHeard
  <2>5. ASSUME NEW p \in Pages,
               \/ \E x \in page[p].list : R!StartEdit(p, x) \/ R!Press(p, x, "switch") \/ R!Press(p, x, "remove")
               \/ \E c \in {c \in R!Contents : c.enabled} : R!Submit(p, c)
               \/ R!CancelEdit(p)
        PROVE  DecisionsInv'
    BY <1>3, <2>5, FormMoves, PageSends
  <2>6. ASSUME NEW p \in Pages, R!ServePage(p) \/ R!PageHears(p) PROVE DecisionsInv'
    BY <1>1, <1>3, <2>6, PageServed, PageListens
  <2>7. ASSUME \/ \E f \in Findings : R!Close(f) \/ R!AuditAges(f) \/ R!SweepAudit(f) \/ R!SweepFinding(f)
               \/ R!Leave \/ R!Clear \/ R!Return
        PROVE  DecisionsInv'
    BY <1>3, <2>7, TimePasses
  <2>8. ASSUME UNCHANGED R!vars PROVE DecisionsInv'
    BY <1>3, <2>8, Stutters
  <2>9. QED  BY <1>3, <2>1, <2>2, <2>3, <2>4, <2>5, <2>6, <2>7, <2>8 DEF R!Next
<1>4. QED  BY <1>2, <1>3, PTL DEF R!Spec

-------------------------------------------------------------------------------
(* What it shows *)

\* The type invariant, for every value of the constants: the rules, the workflow of each
\* finding, cards, panels and pages have their shapes, whatever tabs and answers do.
THEOREM RulesTypeCorrect == R!RulesConstants => (R!Spec => []DecisionsOK)
<1>1. DecisionsInv => DecisionsOK
  BY DEF DecisionsInv
<1>2. QED  BY <1>1, InductiveHolds, PTL

\* validateRule, update, createRuleFromFinding and the sweep: every rule is sound for its
\* mode and origin, no repository exceeds its limit, and a finding gives rise to one rule.
THEOREM RulesStaySound == R!RulesConstants => (R!Spec => []RulesSound)
<1>1. DecisionsInv => RulesSound
  BY DEF DecisionsInv, RulesSound
<1>2. QED  BY <1>1, InductiveHolds, PTL

\* The rules page's sequence and epoch: what a page lists, edits and sends is of the
\* repository it names.
THEOREM PagesAreTruthful == R!RulesConstants => (R!Spec => []PageTruthful)
<1>1. DecisionsInv => PageTruthful
  BY DEF DecisionsInv, Known, PageKnows, OfRepo, PageTruthful, R!PageTruthful, R!Listed
<1>2. QED  BY <1>1, InductiveHolds, PTL

\* Which operations write the rules, the workflow and the setting.
LEMMA Writers ==
    ASSUME R!Next
    PROVE  \/ UNCHANGED <<rules, workflow, setting>>
           \/ \E c \in Cards, f \in Findings : R!UpdateWorkflow(c, f) \/ R!SaveRule(c, f)
           \/ \E c \in Cards : R!UpdateAdaptation(c)
           \/ \E p \in Pages : R!ServePage(p)
           \/ \E f \in Findings : R!SweepFinding(f)
           \/ R!Clear
<1>1. ASSUME NEW c \in Cards, NEW f \in Findings,
             \/ R!Reload(c, f) \/ R!Propose(c, f) \/ R!Discard(c, f) \/ R!CardHears(c, f)
             \/ \E status \in R!Statuses : R!Transition(c, f, status)
             \/ \E text \in Texts, enabled \in BOOLEAN : R!ConfirmRule(c, f, text, enabled)
      PROVE  UNCHANGED <<rules, workflow, setting>>
  BY <1>1 DEF R!Reload, R!Propose, R!Discard, R!CardHears, R!Transition, R!ConfirmRule, R!Card, R!stored
<1>2. ASSUME NEW c \in Cards, R!Refresh(c) \/ R!Toggle(c) \/ R!PanelHears(c)
      PROVE  UNCHANGED <<rules, workflow, setting>>
  BY <1>2 DEF R!Refresh, R!Toggle, R!PanelHears, R!stored
<1>3. ASSUME NEW p \in Pages,
             \/ R!Visit(p) \/ \E r \in Repositories : R!Select(p, r)
             \/ \E n \in 1..MaxLoads : R!ServeList(p, n) \/ R!PageShows(p, n) \/ R!LoadFails(p, n)
             \/ R!CancelEdit(p) \/ R!PageHears(p)
      PROVE  UNCHANGED <<rules, workflow, setting>>
  BY <1>3 DEF R!Visit, R!Select, R!ServeList, R!PageShows, R!LoadFails, R!CancelEdit, R!PageHears, R!Page, R!stored
<1>4. ASSUME NEW p \in Pages,
             \/ \E x \in page[p].list : R!StartEdit(p, x) \/ R!Press(p, x, "switch") \/ R!Press(p, x, "remove")
             \/ \E c \in {c \in R!Contents : c.enabled} : R!Submit(p, c)
      PROVE  UNCHANGED <<rules, workflow, setting>>
  BY <1>4 DEF R!StartEdit, R!Press, R!Submit, R!Send, R!Page, R!stored
<1>5. ASSUME (\E f \in Findings : R!Close(f) \/ R!AuditAges(f) \/ R!SweepAudit(f)) \/ R!Leave \/ R!Return
      PROVE  UNCHANGED <<rules, workflow, setting>>
  BY <1>5 DEF R!Close, R!AuditAges, R!SweepAudit, R!Leave, R!Return
<1>6. QED  BY <1>1, <1>2, <1>3, <1>4, <1>5 DEF R!Next

\* A rule changes at the hand of a page that was shown its present revision.
LEMMA RuleWritten ==
    ASSUME DecisionsInv, R!Next, NEW i \in DOMAIN rules, rules'[i] # rules[i]
    PROVE  \E p \in Pages : /\ page[p].ask.kind \in {"edit", "switch", "remove"}
                            /\ page[p].ask.rule = [id |-> i, revision |-> rules[i].revision]
<1>1. rules \in Seq(Rules)
  BY DEF DecisionsInv, DecisionsOK, StoredOK
<1>2. ASSUME NEW x, rules' = Append(rules, x) PROVE FALSE
  BY <1>1, <1>2, AppendProperties, LenProperties
<1>3. ~\E c \in Cards, f \in Findings : R!UpdateWorkflow(c, f) \/ R!SaveRule(c, f)
  BY <1>2 DEF R!UpdateWorkflow, R!SaveRule, R!CreateRuleFromFinding, R!stored
<1>4. (~\E c \in Cards : R!UpdateAdaptation(c)) /\ (~\E f \in Findings : R!SweepFinding(f)) /\ ~R!Clear
  BY DEF R!UpdateAdaptation, R!SweepFinding, R!Clear, R!stored
<1>5. PICK p \in Pages : R!ServePage(p)
  BY <1>3, <1>4, Writers
<1> DEFINE a == page[p].ask
<1>6. page[p] \in PageStates
  BY PageTyped
<1>7. ~(a.kind = "create" /\ R!Create(a.repo, a.is))
  BY <1>2 DEF R!Create, R!stored
<1>8. a.kind \in {"edit", "switch", "remove"} => a.rule \in Items
  BY <1>6 DEF PageStates, PageAsks, R!NoRequest, Creations, Edits, Presses
<1>9. ASSUME NEW k, k # i, NEW x, rules' = [rules EXCEPT ![k] = x] PROVE FALSE
  BY <1>1, <1>9
<1>10. CASE a.kind \in {"edit", "switch"} /\ R!Update(a, R!Merged(a))
  <2> DEFINE is == R!Merged(a)
  <2>1. /\ rules' = [rules EXCEPT ![a.rule.id].is = is, ![a.rule.id].revision = @ + 1]
        /\ rules[a.rule.id].revision = a.rule.revision
    BY <1>10 DEF R!Update, R!stored
  <2> HIDE DEF is
  <2>2. a.rule.id = i
    BY <1>1, <2>1
  <2>3. QED  BY <1>8, <1>10, <2>1, <2>2 DEF Items
<1>11. CASE a.kind = "remove" /\ R!Delete(a)
  <2>1. /\ rules' = [rules EXCEPT ![a.rule.id].alive = FALSE]
        /\ rules[a.rule.id].revision = a.rule.revision
    BY <1>11 DEF R!Delete, R!stored
  <2>2. a.rule.id = i
    BY <1>1, <2>1
  <2>3. QED  BY <1>8, <1>11, <2>1, <2>2 DEF Items
<1>12. QED  BY <1>5, <1>7, <1>10, <1>11 DEF R!ServePage

\* A workflow moves at the hand of a card that shows its status and revision.
LEMMA WorkflowWritten ==
    ASSUME DecisionsInv, R!Next, NEW f \in Findings, Len(workflow'[f].trail) > R!Revision(f)
    PROVE  \E c \in Cards : /\ card[c][f].ask.kind = "workflow"
                            /\ card[c][f].status = workflow[f].status
                            /\ card[c][f].revision = R!Revision(f)
<1>1. workflow \in [Findings -> [status : R!Statuses, trail : Transitions]] /\ R!Revision(f) \in Nat
  BY LenProperties DEF DecisionsInv, DecisionsOK, StoredOK, R!Revision, Transitions
<1>2. workflow'[f] # workflow[f] /\ workflow'[f] # R!Fresh
  BY <1>1 DEF R!Revision, R!Fresh
<1>3. (~\E c \in Cards : R!UpdateAdaptation(c)) /\ (~\E p \in Pages : R!ServePage(p)) /\ ~R!Clear
  BY <1>2 DEF R!UpdateAdaptation, R!ServePage, R!Create, R!Update, R!Delete, R!Clear, R!stored
<1>4. ~\E g \in Findings : R!SweepFinding(g)
  BY <1>1, <1>2 DEF R!SweepFinding
<1>5. ~\E c \in Cards, g \in Findings : R!SaveRule(c, g)
  BY <1>2 DEF R!SaveRule, R!CreateRuleFromFinding, R!stored
<1>6. PICK c \in Cards, g \in Findings : R!UpdateWorkflow(c, g)
  BY <1>2, <1>3, <1>4, <1>5, Writers
<1> DEFINE a == card[c][g].ask
<1>7. /\ a.kind = "workflow" /\ R!Eligible(g) /\ a.expects = R!Revision(g) /\ g = f
  BY <1>1, <1>2, <1>6 DEF R!UpdateWorkflow, R!stored
<1>8. CardSees(f, card[c][f]) /\ Said(f, workflow[f].status, R!Revision(f)) /\ card[c][f].revision = R!Revision(f)
  BY <1>7 DEF DecisionsInv, CardsSee, CardSees, R!Eligible
<1>9. Said(f, card[c][f].status, R!Revision(f))
  BY <1>7, <1>8 DEF CardSees, R!Eligible
<1>10. card[c][f].status = workflow[f].status
  BY <1>8, <1>9 DEF Said
<1>11. QED  BY <1>7, <1>8, <1>10

\* RulesController update and remove, updateWorkflow: no rule and no workflow is written by
\* who has not seen it as it is.
THEOREM NothingEditedBlindly == R!RulesConstants => (R!Spec => R!NoBlindEdit)
<1>1. ASSUME DecisionsInv, [R!Next]_R!vars
      PROVE  [/\ \A i \in DOMAIN rules : rules'[i] # rules[i] =>
                    \E p \in Pages : /\ page[p].ask.kind \in {"edit", "switch", "remove"}
                                     /\ page[p].ask.rule = [id |-> i, revision |-> rules[i].revision]
              /\ \A f \in Findings : Len(workflow'[f].trail) > R!Revision(f) =>
                    \E c \in Cards : /\ card[c][f].ask.kind = "workflow"
                                     /\ card[c][f].status = workflow[f].status
                                     /\ card[c][f].revision = R!Revision(f)]_R!vars
  BY <1>1, RuleWritten, WorkflowWritten
<1>2. QED  BY <1>1, InductiveHolds, PTL DEF R!Spec, R!NoBlindEdit

\* updateAdaptation, clearRepositoryHistory: who enables the adaptation was shown the
\* setting as it is.
THEOREM ConsentStaysFresh == R!RulesConstants => (R!Spec => ConsentIsFresh)
<1>1. ASSUME DecisionsInv, R!Next, setting'.enabled = TRUE, setting.enabled = FALSE
      PROVE  \E c \in Cards : panel[c].ask.kind = "setting" /\ panel[c].revision = setting.revision
  <2>1. ~R!Clear
    <3>1. R!Clear => setting'.enabled = FALSE
      BY DEF R!Clear
    <3>2. QED  BY <1>1, <3>1
  <2>0. (~\E p \in Pages : R!ServePage(p)) /\ ~\E f \in Findings : R!SweepFinding(f)
    BY <1>1 DEF R!ServePage, R!Create, R!Update, R!Delete, R!SweepFinding, R!stored
  <2>2. ~\E c \in Cards, f \in Findings : R!UpdateWorkflow(c, f) \/ R!SaveRule(c, f)
    BY <1>1 DEF R!UpdateWorkflow, R!SaveRule, R!CreateRuleFromFinding, R!stored
  <2>3. PICK c \in Cards : R!UpdateAdaptation(c)
    BY <1>1, <2>0, <2>1, <2>2, Writers
  <2>4. panel[c].ask.kind = "setting" /\ panel[c].ask.expects = setting.revision
    BY <1>1, <2>3 DEF R!UpdateAdaptation, R!stored
  <2>5. QED  BY <1>1, <2>4 DEF DecisionsInv, Asked
<1>2. ASSUME DecisionsInv, [R!Next]_R!vars PROVE [setting'.enabled = TRUE /\ setting.enabled = FALSE => R!AsksAsItIs]_R!vars
  <2>1. CASE UNCHANGED R!vars
    BY <2>1
  <2>2. CASE R!Next
    BY <1>1, <1>2, <2>2 DEF R!AsksAsItIs
  <2>3. QED  BY <1>2, <2>1, <2>2
<1>3. QED  BY <1>2, InductiveHolds, PTL DEF R!Spec, ConsentIsFresh, R!ConsentIsFresh

\* The two memories beside each other: no feedback, rule or workflow is written by who has not seen
\* it as it is (updateFeedback, RulesController update and remove, updateWorkflow).
THEOREM NothingIsBlind == R!RulesConstants => (Spec /\ R!Spec => NoBlindWrite)
<1> SUFFICES ASSUME R!RulesConstants PROVE Spec /\ R!Spec => NoBlindWrite
  OBVIOUS
<1>1. R!Spec => R!NoBlindEdit
  BY NothingEditedBlindly
<1>2. QED  BY <1>1, SavesSeen, PTL DEF NoBlindWrite
===============================================================================
