------------------------------ MODULE FindingHistory ------------------------------
(***************************************************************************)
(* What one repository keeps of its past reviews.  A completed review       *)
(* leaves its findings as occurrences; the owner's browser tabs attach      *)
(* feedback to them; a rebuild aggregates both into patterns, which the     *)
(* insights page and the memory of later reviews read; a sweep and a        *)
(* disconnect delete them.                                                  *)
(*                                                                         *)
(* A write and a rebuild are transactions under the lock of the repository  *)
(* and so one action each; what is read before the lock is an action of its *)
(* own.  A disposition stands for the rejection reason and the note saved   *)
(* with it.  The revision counters of the repository are the flag `dirty'.  *)
(***************************************************************************)
EXTENDS Naturals, FiniteSets, Sequences, SequencesExt, Functions

CONSTANTS None, Jobs, PullRequests, Findings, Fingerprint(_), Tabs,
          Threshold,      \* RECURRING_PR_THRESHOLD
          MaxSnapshots, MaxSaves, MaxFaults

VARIABLES
    job,         \* of a review: done, the stored findings, the snapshot and its hash, old
    occurrence,  \* (review, snapshot, finding) |-> "current" or "superseded"
    feedback,    \* occurrence |-> is, revision
    events,      \* occurrence |-> the dispositions saved, in order
    repo,        \* active, memory, dirty, age of the aggregation
    patterns,    \* fingerprint |-> counts and the reviews they were taken from
    tab,         \* a browser tab: where it is, what it shows, what it asked
    sweep,       \* occurrences the maintenance pass is about to delete
    leaving,     \* a disconnect has still to erase the history
    reader,      \* the insights page, and a review under way that asks for memory
    saves, faults

\* A review that was never recorded has the content of none.
ASSUME HistoryAssumption == \A content \in SUBSET Findings : content # None

kept == <<job, occurrence, feedback, events, repo, patterns>>
hist == <<kept, tab, sweep, leaving, reader, saves, faults>>

Dispositions == {"UNREVIEWED", "ACCEPTED", "REJECTED", "NEEDS_REVIEW"}
Ages         == {"never", "fresh", "stale"}
Readers      == {"insights", "review"}
Unreviewed   == [is |-> "UNREVIEWED", revision |-> 0]
Conflict     == [is |-> "CONFLICT", revision |-> 0]
IdleTab      == [pc |-> "idle", on |-> None, feedback |-> Unreviewed, wants |-> None,
                 expects |-> 0, answer |-> None, saved |-> FALSE]

Nothing == [x \in {} |-> x]

Init == /\ job \in [Jobs -> {[done |-> FALSE, stored |-> {}, snapshot |-> 0, hash |-> None, old |-> FALSE],
                             [done |-> TRUE, stored |-> Findings, snapshot |-> 0, hash |-> None, old |-> FALSE]}]
        /\ occurrence = Nothing /\ feedback = Nothing /\ events = Nothing /\ patterns = Nothing
        /\ repo = [active |-> TRUE, memory |-> FALSE, dirty |-> TRUE, aggregated |-> "never"]
        /\ tab = [t \in Tabs |-> IdleTab]
        /\ sweep = {} /\ leaving = FALSE /\ reader = [r \in Readers |-> "idle"]
        /\ saves = 0 /\ faults = 0

Of(o)      == job[o[1]]
Fingerprints == {Fingerprint(f) : f \in Findings}
Current(o) == o \in DOMAIN occurrence /\ occurrence[o] = "current"
Without(f, S) == Restrict(f, DOMAIN f \ S)
Put(f, o, is) == [x \in DOMAIN f \cup {o} |-> IF x = o THEN is ELSE f[x]]

--------------------------------------------------------------------------------
(* Recording and aggregating *)

\* dirtyHistory: the revision goes up and every pattern is deleted.
Dirty == repo' = [repo EXCEPT !.dirty = TRUE] /\ patterns' = Nothing

\* Mutant of Record: the number of the snapshot is not counted up.
RecordUncounted(j, content) ==
    IF job[j].hash = content
    THEN job' = [job EXCEPT ![j] = [@ EXCEPT !.done = TRUE, !.stored = content]]
         /\ UNCHANGED <<occurrence, repo, patterns>>
    ELSE /\ job' = [job EXCEPT ![j] = [@ EXCEPT !.done = TRUE, !.stored = content,
                                               !.snapshot = 1, !.hash = content]]
         /\ occurrence' = [o \in DOMAIN occurrence \cup {<<j, 1, f>> : f \in content} |->
                              IF o \in {<<j, 1, f>> : f \in content} THEN "current" ELSE occurrence[o]]
         /\ Dirty

\* A new snapshot supersedes the old occurrences; the same content is no news.
Record(j, content) ==
    IF job[j].hash = content
    THEN job' = [job EXCEPT ![j] = [@ EXCEPT !.done = TRUE, !.stored = content]]
         /\ UNCHANGED <<occurrence, repo, patterns>>
    ELSE LET n == job[j].snapshot + 1
         IN  /\ job' = [job EXCEPT ![j] = [@ EXCEPT !.done = TRUE, !.stored = content,
                                                    !.snapshot = n, !.hash = content]]
             /\ occurrence' = [o \in DOMAIN occurrence \cup {<<j, n, f>> : f \in content} |->
                                  IF o \notin DOMAIN occurrence THEN "current"
                                  ELSE IF o[1] = j THEN "superseded" ELSE occurrence[o]]
             /\ Dirty

\* A pull request has one plan and so one content; an audit that runs a second
\* time, after its worker lost the queue's lock, may find something else.
Complete(j, content) ==
    /\ repo.active /\ ~job[j].old
    /\ j \in PullRequests /\ job[j].done => content = job[j].stored
    /\ job[j].snapshot < MaxSnapshots
    /\ Record(j, content)
    /\ UNCHANGED <<feedback, events, tab, sweep, leaving, reader, saves, faults>>

\* The user enables feedback for a review of before: it must still say the same.
Backfill(j) ==
    /\ job[j].done /\ repo.active /\ ~job[j].old /\ job[j].snapshot < MaxSnapshots
    /\ Record(j, job[j].stored)
    /\ UNCHANGED <<feedback, events, tab, sweep, leaving, reader, saves, faults>>

\* The occurrences that count for a fingerprint.
Evidence(fp) == {o \in DOMAIN occurrence : Current(o) /\ Fingerprint(o[3]) = fp /\ Of(o).done /\ ~Of(o).old}

Is(o) == IF o \in DOMAIN feedback THEN feedback[o].is ELSE "UNREVIEWED"

\* One group of the rebuild.  It expires with the oldest of its reviews.
Aggregate(fp) == LET all == Evidence(fp)
                     With(d) == Cardinality({o \in all : Is(o) = d})
                 IN  [occurrences |-> Cardinality(all),
                      prs         |-> Cardinality({o[1] : o \in all} \cap PullRequests),
                      accepted    |-> With("ACCEPTED"),
                      rejected    |-> With("REJECTED"),
                      from        |-> {o[1] : o \in all}]

Expired(p) == \E j \in p.from : job[j].old

\* Each group is written, and a pattern that has none left is removed.
Upserted == [fp \in {fp \in Fingerprints : Evidence(fp) # {}} |-> Aggregate(fp)]

\* rebuildLockedPatterns.
Rebuild == /\ repo.active
           /\ patterns' = Upserted
           /\ repo' = [repo EXCEPT !.dirty = FALSE, !.aggregated = "fresh"]
           /\ UNCHANGED <<job, occurrence, feedback, events>>

\* What the next maintenance pass, or the next review, finds worth a rebuild.
Due == repo.dirty \/ repo.aggregated # "fresh"

\* Mutant of SweepList: what a disconnected repository left is not looked for.
SweepListOld ==
    /\ sweep = {}
    /\ sweep' = {o \in DOMAIN occurrence : Of(o).old}
    /\ sweep' # {}
    /\ UNCHANGED <<kept, tab, leaving, reader, saves, faults>>

\* The passes of historical-maintenance: list what expired or is of a
\* disconnected repository, delete it, rebuild what is due.
SweepList ==
    /\ sweep = {}
    /\ sweep' = {o \in DOMAIN occurrence : Of(o).old \/ ~repo.active}
    /\ sweep' # {}
    /\ UNCHANGED <<kept, tab, leaving, reader, saves, faults>>

Erase(S) == /\ occurrence' = Without(occurrence, S)
            /\ feedback' = Without(feedback, S)
            /\ events' = Without(events, S)

SweepDelete == /\ sweep # {}
               /\ Erase(sweep) /\ Dirty /\ sweep' = {}
               /\ UNCHANGED <<job, tab, leaving, reader, saves, faults>>

SweepRebuild == /\ Due \/ (\E fp \in DOMAIN patterns : Expired(patterns[fp]))
                /\ Rebuild
                /\ UNCHANGED <<tab, sweep, leaving, reader, saves, faults>>

--------------------------------------------------------------------------------
(* Feedback *)

\* listForJob, and the reload after a conflict.
Load(t, o) ==
    /\ tab[t].pc = "idle" /\ Current(o) /\ ~Of(o).old
    /\ tab' = [tab EXCEPT ![t] = [IdleTab EXCEPT !.on = o,
                  !.feedback = IF o \in DOMAIN feedback THEN feedback[o] ELSE Unreviewed]]
    /\ tab' # tab
    /\ UNCHANGED <<kept, sweep, leaving, reader, saves, faults>>

\* The buttons: the disposition shown is disabled, a rejection may be repeated with
\* another reason, the reset is offered for what was reviewed.
Offered(shows) == (Dispositions \ {shows.is}) \cup {"REJECTED"}

Submit(t, d) ==
    /\ tab[t].pc = "idle" /\ tab[t].on # None /\ saves < MaxSaves
    /\ d \in Offered(tab[t].feedback)
    /\ saves' = saves + 1
    /\ tab' = [tab EXCEPT ![t] = [@ EXCEPT !.pc = "sent", !.wants = d, !.saved = FALSE,
                                           !.expects = tab[t].feedback.revision]]
    /\ UNCHANGED <<kept, sweep, leaving, reader, faults>>

Replies(t, a) == tab' = [tab EXCEPT ![t] = [@ EXCEPT !.pc = "answered", !.answer = a]]

\* The finding can take feedback: read once before the lock and once under it.
Eligible(o) == Current(o) /\ repo.active /\ Of(o).done /\ ~Of(o).old

Precheck(t) ==
    /\ tab[t].pc = "sent"
    /\ IF Eligible(tab[t].on)
       THEN tab' = [tab EXCEPT ![t].pc = "checked"]
       ELSE Replies(t, Conflict)
    /\ UNCHANGED <<kept, sweep, leaving, reader, saves, faults>>

\* Mutant of Save: the aggregation is not told.
SaveQuietly(o, d, revision) ==
    /\ feedback' = Put(feedback, o, [is |-> d, revision |-> revision])
    /\ events' = Put(events, o, Append(IF o \in DOMAIN events THEN events[o] ELSE <<>>, d))
    /\ UNCHANGED <<job, occurrence, repo, patterns>>

\* Saves a disposition as the next revision, with its event.
Save(o, d, revision) ==
    /\ feedback' = Put(feedback, o, [is |-> d, revision |-> revision])
    /\ events' = Put(events, o, Append(IF o \in DOMAIN events THEN events[o] ELSE <<>>, d))
    /\ Dirty
    /\ UNCHANGED <<job, occurrence>>

\* Mutant of Repeats: the revision alone is compared.
RepeatsRevision(old, t) == old.revision \in {tab[t].expects, tab[t].expects + 1}

\* A request that says what is already saved, by itself or by its first try.
Repeats(old, t) == /\ old.is = tab[t].wants
                   /\ old.revision \in {tab[t].expects, tab[t].expects + 1}

\* Mutant of Stale: feedback is saved over whatever there is.
StaleNever(old, t) == FALSE

\* Another tab was faster.
Stale(old, t) == old.revision # tab[t].expects

UpdateFeedback(t) ==
    LET o   == tab[t].on
        d   == tab[t].wants
        old == IF o \in DOMAIN feedback THEN feedback[o] ELSE Unreviewed
    IN  /\ tab[t].pc = "checked"
        /\ \/ /\ ~Eligible(o)
              /\ Replies(t, Conflict) /\ UNCHANGED kept
           \/ /\ Eligible(o) /\ o \in DOMAIN feedback /\ Repeats(old, t)
              /\ Replies(t, old) /\ UNCHANGED kept
           \/ /\ Eligible(o) /\ ~(o \in DOMAIN feedback /\ Repeats(old, t))
              /\ Stale(old, t)
              /\ Replies(t, Conflict) /\ UNCHANGED kept
           \/ /\ Eligible(o) /\ ~(o \in DOMAIN feedback /\ Repeats(old, t))
              /\ ~Stale(old, t)
              /\ Save(o, d, old.revision + 1)
              /\ Replies(t, [is |-> d, revision |-> old.revision + 1])
        /\ UNCHANGED <<sweep, leaving, reader, saves, faults>>

\* The answer reaches the tab.  After a conflict it keeps what it shows.
Receive(t) ==
    /\ tab[t].pc = "answered"
    /\ tab' = [tab EXCEPT ![t] =
                 IF @.answer = Conflict THEN [@ EXCEPT !.pc = "idle", !.answer = None]
                 ELSE [@ EXCEPT !.pc = "idle", !.answer = None, !.feedback = tab[t].answer, !.saved = TRUE]]
    /\ UNCHANGED <<kept, sweep, leaving, reader, saves, faults>>

\* The answer is lost, or the request never gets there: the tab reports an error
\* and keeps the revision it had.
Lose(t) ==
    /\ tab[t].pc \in {"sent", "answered"} /\ faults < MaxFaults
    /\ faults' = faults + 1
    /\ tab' = [tab EXCEPT ![t] = [@ EXCEPT !.pc = "idle", !.answer = None]]
    /\ UNCHANGED <<kept, sweep, leaving, reader, saves>>

--------------------------------------------------------------------------------
(* Readers *)

\* getRepositoryInsights wants a rebuild when there is nothing to read or it is more
\* than an hour old, or the user asks for it; retrieveHistoricalMemory, with the
\* memory enabled, when it is due.
Ask(r) == /\ reader[r] = "idle"
          /\ \/ r = "insights"
             \/ r = "review" /\ repo.memory /\ repo.active /\ Due
          /\ reader' = [reader EXCEPT ![r] = "rebuild"]
          /\ UNCHANGED <<kept, tab, sweep, leaving, saves, faults>>

\* The rebuild throws for a disconnected repository.
ReaderRebuilds(r) ==
    /\ reader[r] = "rebuild"
    /\ reader' = [reader EXCEPT ![r] = "idle"]
    /\ IF repo.active THEN Rebuild ELSE UNCHANGED kept
    /\ UNCHANGED <<tab, sweep, leaving, saves, faults>>

\* What a reader finds, outside the lock and so at any moment: the insights every
\* pattern that has not expired, a review the recurring ones, if the aggregation is
\* fresh and the memory enabled.
Shown(r) == {fp \in DOMAIN patterns :
                /\ ~Expired(patterns[fp])
                /\ r = "review" => /\ patterns[fp].prs >= Threshold /\ repo.aggregated = "fresh"
                                   /\ repo.active /\ repo.memory}

--------------------------------------------------------------------------------
(* The repository, and time *)

\* The settings ask only who owns the repository, connected or not.
SetMemory(enabled) == /\ repo.memory # enabled
                      /\ repo' = [repo EXCEPT !.memory = enabled]
                      /\ UNCHANGED <<job, occurrence, feedback, events, patterns, tab, sweep,
                                     leaving, reader, saves, faults>>

Deactivate == /\ repo.active
              /\ repo' = [repo EXCEPT !.active = FALSE]
              /\ leaving' = TRUE
              /\ UNCHANGED <<job, occurrence, feedback, events, patterns, tab, sweep, reader,
                             saves, faults>>

\* clearRepositoryHistory, the last step of a disconnect.
ClearRepositoryHistory ==
    /\ leaving
    /\ leaving' = FALSE
    /\ Erase(DOMAIN occurrence)
    /\ repo' = [repo EXCEPT !.dirty = TRUE, !.memory = FALSE]
    /\ patterns' = Nothing
    /\ UNCHANGED <<job, tab, sweep, reader, saves, faults>>

\* A call of the disconnect rejects before the history is cleared.
LeavingFails == /\ leaving /\ faults < MaxFaults
                /\ leaving' = FALSE /\ faults' = faults + 1
                /\ UNCHANGED <<kept, tab, sweep, reader, saves>>

Reconnect == /\ ~repo.active
             /\ repo' = [repo EXCEPT !.active = TRUE]
             /\ UNCHANGED <<job, occurrence, feedback, events, patterns, tab, sweep, leaving,
                            reader, saves, faults>>

\* Ninety days pass for a review, an hour for the aggregation.
Expire(j) == /\ job[j].done /\ ~job[j].old
             /\ job' = [job EXCEPT ![j].old = TRUE]
             /\ UNCHANGED <<occurrence, feedback, events, repo, patterns, tab, sweep, leaving,
                            reader, saves, faults>>

AnHourPasses == /\ repo.aggregated = "fresh"
                /\ repo' = [repo EXCEPT !.aggregated = "stale"]
                /\ UNCHANGED <<job, occurrence, feedback, events, patterns, tab, sweep, leaving,
                               reader, saves, faults>>

Next ==
    \/ \E j \in Jobs : \/ \E content \in SUBSET Findings : Complete(j, content)
                       \/ Backfill(j)
                       \/ Expire(j)
    \/ \E t \in Tabs : \/ \E o \in DOMAIN occurrence : Load(t, o)
                       \/ \E d \in Dispositions : Submit(t, d)
                       \/ Precheck(t) \/ UpdateFeedback(t) \/ Receive(t) \/ Lose(t)
    \/ SweepList \/ SweepDelete \/ SweepRebuild
    \/ \E r \in Readers : Ask(r) \/ ReaderRebuilds(r)
    \/ \E enabled \in BOOLEAN : SetMemory(enabled)
    \/ Deactivate \/ ClearRepositoryHistory \/ LeavingFails \/ Reconnect
    \/ AnHourPasses

Spec == Init /\ [][Next]_hist

\* The maintenance passes run every minute.
Fairness == WF_hist(SweepList) /\ WF_hist(SweepDelete)

--------------------------------------------------------------------------------
(* Properties *)

\* Whatever was saved, superseded or deleted since the rebuild, what a reader finds
\* counts exactly the occurrences and the feedback there are now, and what is marked
\* as aggregated lacks no pattern.  (dirtyHistory in every writer, the watermark of
\* the rebuild, expiresAt.)
PatternsCurrent ==
    /\ \A r \in Readers : \A fp \in Shown(r) : patterns[fp] = Aggregate(fp)
    /\ ~repo.dirty => \A fp \in Fingerprints : Evidence(fp) # {} => fp \in DOMAIN patterns

\* The feedback is the last of its events, and a tab that says "saved" names a
\* revision whose event is what it asked for, through lost answers, repeated
\* requests and other tabs.  (updateFeedback, submitFeedback.)
SavesRecorded ==
    /\ DOMAIN events = DOMAIN feedback
    /\ \A o \in DOMAIN feedback : /\ Len(events[o]) = feedback[o].revision
                                  /\ Last(events[o]) = feedback[o].is
    /\ \A t \in Tabs : tab[t].saved /\ tab[t].on \in DOMAIN events =>
           events[tab[t].on][tab[t].feedback.revision] = tab[t].wants

\* Nobody overwrites feedback he has not seen: the tab whose save takes effect had
\* been shown the very revision it replaces.
NoBlindSave == [][\A o \in DOMAIN feedback \cap DOMAIN feedback' : feedback'[o] # feedback[o] =>
                     \E t \in Tabs : /\ tab[t].on = o /\ tab'[t].pc # tab[t].pc
                                     /\ tab[t].feedback.revision = feedback[o].revision]_hist

\* The findings of a review never come back once they were superseded or deleted:
\* what appears is of a snapshot the review did not have before.
NoResurrection == [][\A o \in DOMAIN occurrence' :
                        /\ o \notin DOMAIN occurrence => o[2] > job[o[1]].snapshot
                        /\ o \in DOMAIN occurrence /\ occurrence[o] = "superseded"
                              => occurrence'[o] = "superseded"]_hist

\* The history of a disconnected repository is erased in the end, although the
\* disconnect may fail before it gets there, unless the repository comes back.
\* (repository.controller deactivate, sweepHistoricalOnce.)
ErasedAfterDisconnect == ~repo.active ~> (repo.active \/ occurrence = Nothing)
===============================================================================
