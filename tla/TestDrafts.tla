--------------------------------- MODULE TestDrafts ---------------------------------
(***************************************************************************)
(* Tests drafted for the missing scenarios of one review.  The card of a      *)
(* scenario restores its latest draft, asks for a new one, edits and discards  *)
(* it; the same review may be open in several tabs, a card may be closed with  *)
(* its request under way, and the pull request gets new commits meanwhile.     *)
(***************************************************************************)
EXTENDS Naturals, Sequences, SequencesExt

CONSTANTS None, Gaps,       \* the missing scenarios of the review
          Tabs, Texts,      \* of a test; an invalid one is Bad
          Bad,
          MaxSha, MaxDrafts, MaxCalls

\* None is no scenario.
DraftConstants == None \notin Gaps

VARIABLES review,   \* pull request or push, and the commit it saw
          head,     \* of the branch, now
          drafts,   \* the rows, oldest first
          card,     \* of each tab
          calls     \* requests of the tabs, and how far they are

vars == <<review, head, drafts, card, calls>>

Closed == [of |-> None, busy |-> "idle", loading |-> FALSE, draft |-> None, text |-> Bad]

Init == /\ review \in [kind : {"PULL_REQUEST", "PUSH"}, head : {1}]
        /\ head = 1 /\ drafts = <<>>
        /\ card = [t \in Tabs |-> Closed] /\ calls = <<>>

Push == head < MaxSha /\ head' = head + 1 /\ UNCHANGED <<review, drafts, card, calls>>

-------------------------------------------------------------------------------
(* The card *)

Call(t, kind, gap, draft, text) ==
    /\ Len(calls) < MaxCalls
    /\ calls' = Append(calls, [tab |-> t, kind |-> kind, gap |-> gap, draft |-> draft, text |-> text,
                               pc |-> "sent", ref |-> 0, answer |-> None])

\* Its effect asks for the drafts of the review.
Open(t, gap) == /\ card[t].of = None
                /\ card' = [card EXCEPT ![t] = [Closed EXCEPT !.of = gap, !.loading = TRUE]]
                /\ Call(t, "list", gap, None, Bad)
                /\ UNCHANGED <<review, head, drafts>>

\* What it has asked for goes on, and nobody waits for the answer.
Close(t) == /\ card[t].of # None
            /\ card' = [card EXCEPT ![t] = Closed]
            /\ calls' = [i \in DOMAIN calls |-> IF calls[i].tab = t THEN [calls[i] EXCEPT !.tab = None] ELSE calls[i]]
            /\ UNCHANGED <<review, head, drafts>>

Generate(t) == /\ card[t].of # None /\ card[t].draft = None /\ ~card[t].loading /\ card[t].busy = "idle"
               /\ Call(t, "create", card[t].of, None, Bad)
               /\ card' = [card EXCEPT ![t].busy = "generating"]
               /\ UNCHANGED <<review, head, drafts>>

\* The fields are open while nothing is saved, whatever became of the draft elsewhere.
Edit(t, text) == /\ card[t].draft # None /\ card[t].busy = "idle"
                 /\ card' = [card EXCEPT ![t].text = text]
                 /\ UNCHANGED <<review, head, drafts, calls>>

Save(t) == /\ card[t].draft # None /\ card[t].busy = "idle"
           /\ Call(t, "save", card[t].of, card[t].draft, card[t].text)
           /\ card' = [card EXCEPT ![t].busy = "saving"]
           /\ UNCHANGED <<review, head, drafts>>

Discard(t) == /\ card[t].draft # None /\ card[t].busy = "idle"
              /\ Call(t, "discard", card[t].of, card[t].draft, Bad)
              /\ card' = [card EXCEPT ![t].busy = "saving"]
              /\ UNCHANGED <<review, head, drafts>>

Gets(t, shown) == card' = [card EXCEPT ![t] = [shown EXCEPT !.busy = "idle", !.loading = FALSE]]

\* The answer: a refusal changes nothing but that the card is free again.
Hear(i) == LET c == calls[i] IN
           /\ c.pc = "answered" /\ calls' = RemoveAt(calls, i)
           /\ CASE c.tab = None -> UNCHANGED card
                [] c.tab # None /\ c.answer = None -> Gets(c.tab, card[c.tab])
                [] c.tab # None /\ c.answer # None ->
                      Gets(c.tab, IF c.kind = "discard" THEN [card[c.tab] EXCEPT !.draft = None]
                                  ELSE [card[c.tab] EXCEPT !.draft = c.answer.id, !.text = c.answer.text])
           /\ UNCHANGED <<review, head, drafts>>

\* The connection breaks: the card is told so, the request may be served all the same.
Lost(i) == /\ calls[i].tab # None
           /\ Gets(calls[i].tab, card[calls[i].tab])
           /\ calls' = [calls EXCEPT ![i].tab = None]
           /\ UNCHANGED <<review, head, drafts>>

-------------------------------------------------------------------------------
(* The controller *)

Answer(i, answer) == calls' = [calls EXCEPT ![i].pc = "answered", ![i].answer = answer]

At(i, kind, pc) == calls[i].kind = kind /\ calls[i].pc = pc

Row(id) == [id |-> id, text |-> drafts[id].text]

\* listForJob, and the first of its rows that is the card's and not discarded.
List(i) == /\ At(i, "list", "sent")
           /\ LET mine == {d \in DOMAIN drafts : drafts[d].gap = calls[i].gap /\ drafts[d].status # "DISCARDED"} IN
              Answer(i, IF mine = {} THEN None ELSE Row(CHOOSE d \in mine : \A e \in mine : e <= d))
           /\ UNCHANGED <<review, head, drafts, card>>

\* create: the commit the test is written against; GitHub may not tell.
Resolve(i) == /\ At(i, "create", "sent")
              /\ \/ Answer(i, None)
                 \/ calls' = [calls EXCEPT ![i].pc = "resolved",
                                           ![i].ref = IF review.kind = "PULL_REQUEST" THEN head ELSE review.head]
              /\ UNCHANGED <<review, head, drafts, card>>

\* The model drafts from the files of that commit: nothing there, not enough, no answer,
\* an unsafe path or text; or a draft.
Create(i) == /\ At(i, "create", "resolved")
             /\ \/ Answer(i, None) /\ UNCHANGED drafts
                \/ \E text \in Texts :
                     /\ Len(drafts) < MaxDrafts
                     /\ drafts' = Append(drafts, [gap |-> calls[i].gap, ref |-> calls[i].ref, text |-> text, status |-> "DRAFT"])
                     /\ Answer(i, [id |-> Len(drafts) + 1, text |-> text])
             /\ UNCHANGED <<review, head, card>>

\* update reads the draft; only a pending one goes on.
Check(i) == /\ At(i, "save", "sent")
            /\ IF drafts[calls[i].draft].status # "DRAFT" \/ calls[i].text = Bad THEN Answer(i, None)
               ELSE calls' = [calls EXCEPT ![i].pc = "checked"]
            /\ UNCHANGED <<review, head, drafts, card>>

\* Mutant of Update: the row is written as it was read.
UpdateWhole(i) == /\ At(i, "save", "checked")
                  /\ drafts' = [drafts EXCEPT ![calls[i].draft].text = calls[i].text, ![calls[i].draft].status = "DRAFT"]
                  /\ Answer(i, [id |-> calls[i].draft, text |-> calls[i].text])
                  /\ UNCHANGED <<review, head, card>>

\* ... and writes path and text alone.
Update(i) == /\ At(i, "save", "checked")
             /\ drafts' = [drafts EXCEPT ![calls[i].draft].text = calls[i].text]
             /\ Answer(i, [id |-> calls[i].draft, text |-> calls[i].text])
             /\ UNCHANGED <<review, head, card>>

\* discard: the row is kept.
Throw(i) == /\ At(i, "discard", "sent")
            /\ drafts' = [drafts EXCEPT ![calls[i].draft].status = "DISCARDED"]
            /\ Answer(i, Row(calls[i].draft))
            /\ UNCHANGED <<review, head, card>>

Next == \/ Push
        \/ \E t \in Tabs : \/ \E gap \in Gaps : Open(t, gap)
                           \/ \E text \in Texts \cup {Bad} : Edit(t, text)
                           \/ Close(t) \/ Generate(t) \/ Save(t) \/ Discard(t)
        \/ \E i \in DOMAIN calls : List(i) \/ Resolve(i) \/ Create(i) \/ Check(i) \/ Update(i) \/ Throw(i)
                                      \/ Hear(i) \/ Lost(i)

Spec == Init /\ [][Next]_vars

-------------------------------------------------------------------------------
(* Properties *)

\* A draft that was discarded stays so, and out of every card opened later, although a save
\* of another tab checked it before and writes it after, and an answer comes late.
DiscardedStays ==
    [][ /\ \A d \in DOMAIN drafts : drafts[d].status = "DISCARDED" => drafts'[d].status = "DISCARDED"
        /\ \A t \in Tabs : card'[t].draft # None => drafts'[card'[t].draft].gap = card'[t].of ]_vars

\* "Commit/PR head SHA whose contents the review saw" (GenerateTestDraftOptions.ref).
GroundedInReview == \A d \in DOMAIN drafts : drafts[d].ref = review.head
===============================================================================
