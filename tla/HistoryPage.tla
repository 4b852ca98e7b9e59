-------------------------------- MODULE HistoryPage --------------------------------
(***************************************************************************)
(* The review history in the browser: a list of reviews, narrowed by a      *)
(* repository or by the pull request of the review that is open, and read    *)
(* again every three seconds while one of them runs; beside it one review.  *)
(* Each answer comes late, fails or is overtaken by what the user does next. *)
(*                                                                         *)
(* React's rule for effects is part of every step (Render): when what the    *)
(* list is asked for changes, it is asked for again.                        *)
(***************************************************************************)
EXTENDS Naturals, Sequences, SequencesExt

CONSTANTS None, Order,       \* the reviews, newest first
          Repository, PullRequest,  \* of a review; a push has no pull request
          PageSize,
          MaxAsked           \* bound: requests of one kind whose answer is not in

VARIABLES server,   \* of a review: running, done, or gone after its retention
          ui,       \* the state of the page
          lists,    \* the requests for the list, oldest first
          details   \* the requests for one review, oldest first

vars == <<server, ui, lists, details>>

Reviews      == ToSet(Order)
Repositories == {Repository[j] : j \in Reviews}

\* What the list is asked for: `fetchJobs' is made anew whenever this changes.
Key(u) == [page |-> u.page, repo |-> u.repo,
           ref  |-> IF u.scope /\ u.selected # None THEN PullRequest[u.selected.id] ELSE None]

HasActive(u) == \E i \in DOMAIN u.rows : u.rows[i].status = "running"

-------------------------------------------------------------------------------
(* Requests *)

\* Only the request made last is heard: the others are aborted, their sequence is old.
Abort(asked) == [i \in DOMAIN asked |-> [asked[i] EXCEPT !.mine = FALSE, !.tick = FALSE]]

\* The end of an interval: nobody waits for what its poll asked for.
Unpolled(asked) == [i \in DOMAIN asked |-> [asked[i] EXCEPT !.tick = FALSE]]

\* Mutant of Heard: the answer to an aborted request is shown.
HeardAnyway(r) == TRUE

Heard(r) == r.mine

\* A request, and whether a poll waits for it that is not cancelled.
Ask(asked, query, tick) == Append(Abort(asked), [query |-> query, tick |-> tick, mine |-> TRUE])

FetchJobs(asked, u, tick) == Ask(asked, Key(u), tick)

\* openJob: the first time a skeleton is shown; in the background only for the
\* review that is still chosen.
OpenJob(u, id, background) ==
    [u EXCEPT !.chosen = IF background THEN @ ELSE [id |-> id, status |-> None],
              !.opening = background => @,
              !.missing = FALSE]

\* The page is shown again.  Its effects ask for a list that is not the one asked
\* for, and end the interval of a list that is no longer, or now, active.
Render(u, asked, detailed) ==
    /\ ui' = u
    /\ IF Key(u) # Key(ui) THEN lists' = FetchJobs(asked, u, FALSE) /\ details' = Unpolled(detailed)
       ELSE IF HasActive(u) # HasActive(ui) THEN lists' = Unpolled(asked) /\ details' = Unpolled(detailed)
       ELSE lists' = asked /\ details' = detailed
    /\ UNCHANGED server

-------------------------------------------------------------------------------
(* What the user does *)

\* applyFilter: back to the first page, with the skeleton.
ApplyFilter(u) == Render([u EXCEPT !.page = 1, !.loading = TRUE], Abort(lists), details)

PickRepository(r) == r # ui.repo /\ ApplyFilter([ui EXCEPT !.repo = r])

\* The button is there for a pull request only.
ToggleScope == /\ ui.selected # None /\ PullRequest[ui.selected.id] # None
               /\ ApplyFilter([ui EXCEPT !.scope = ~@])

Clear == /\ ui.repo # None \/ ui.scope
         /\ ApplyFilter([ui EXCEPT !.repo = None, !.scope = FALSE])

\* Pagination: the neighbours of the page, unless a list is being loaded.
GoToPage(p) == /\ ~ui.loading /\ ui.pages > 1
               /\ \/ p = ui.page - 1 /\ ui.page > 1
                  \/ p = ui.page + 1 /\ ui.page < ui.pages
               /\ Render([ui EXCEPT !.page = p, !.loading = TRUE], Abort(lists), details)

RetryList == /\ ui.failed
             /\ LET u == [ui EXCEPT !.loading = TRUE] IN Render(u, FetchJobs(lists, u, FALSE), details)

\* A row is chosen; rows are there while no skeleton is.
Choose(id) == /\ ~ui.loading
              /\ \E i \in DOMAIN ui.rows : ui.rows[i].id = id
              /\ Render(OpenJob(ui, id, FALSE), lists, Ask(details, id, FALSE))

\* Every three seconds while a review of the list runs, unless the last poll waits.
Poll == /\ HasActive(ui)
        /\ \A i \in DOMAIN lists : ~lists[i].tick
        /\ \A i \in DOMAIN details : ~details[i].tick
        /\ Render(ui, FetchJobs(lists, ui, TRUE), details)

-------------------------------------------------------------------------------
(* The backend: an answer is what is there when it is heard, since what is there
   changes at any time. *)

Ends(j) == /\ server[j] = "running"
           /\ server' = [server EXCEPT ![j] = "done"] /\ UNCHANGED <<ui, lists, details>>

\* The retention sweep deletes a review that failed, long after.
Deleted(j) == /\ server[j] = "done"
              /\ server' = [server EXCEPT ![j] = "gone"] /\ UNCHANGED <<ui, lists, details>>

Matching(q) == SelectSeq(Order, LAMBDA j : /\ server[j] # "gone"
                                           /\ q.repo \in {None, Repository[j]}
                                           /\ q.ref \in {None, PullRequest[j]})

\* list: one page of what matches, and at least one page in all.
Listed(q) ==
    LET all  == Matching(q)
        last == IF Len(all) < q.page * PageSize THEN Len(all) ELSE q.page * PageSize
        rows == SubSeq(all, (q.page - 1) * PageSize + 1, last) IN
    [rows  |-> [i \in DOMAIN rows |-> [id |-> rows[i], status |-> server[rows[i]]]],
     pages |-> IF all = <<>> THEN 1 ELSE (Len(all) + PageSize - 1) \div PageSize]

\* The rows of an answer; a page past the last one becomes the last one.
ShowList(q, answer) ==
    [ui EXCEPT !.rows = answer.rows, !.of = q, !.pages = answer.pages, !.failed = FALSE, !.loading = FALSE,
               !.page = IF answer.rows = <<>> /\ q.page > answer.pages THEN answer.pages ELSE @]

\* After a poll: the chosen review is read again when its row says something new.
Changed(r, rows) == /\ r.tick /\ ui.chosen # None /\ ui.chosen.status # None
                    /\ \E i \in DOMAIN rows : rows[i].id = ui.chosen.id /\ rows[i].status # ui.chosen.status

HearList(i) ==
    LET r    == lists[i]
        rest == RemoveAt(lists, i)
        u    == ShowList(r.query, Listed(r.query)) IN
    \/ ~Heard(r) /\ lists' = rest /\ UNCHANGED <<server, ui, details>>
    \/ Heard(r) /\ Render([ui EXCEPT !.failed = TRUE, !.loading = FALSE], rest, details)
    \/ /\ Heard(r)
       /\ IF Changed(r, u.rows) THEN Render(OpenJob(u, u.chosen.id, TRUE), rest, Ask(details, u.chosen.id, TRUE))
          ELSE Render(u, rest, details)

\* An opened review, and its row; one that cannot be read leaves what was open.
Show(id, status) ==
    [ui EXCEPT !.chosen.status = status, !.selected = [id |-> id, status |-> status], !.opening = FALSE,
               !.rows = [i \in DOMAIN @ |-> IF @[i].id = id THEN [@[i] EXCEPT !.status = status] ELSE @[i]]]

HearDetail(i) ==
    LET r    == details[i]
        rest == RemoveAt(details, i)
        mine == Heard(r) /\ ui.chosen.id = r.query IN
    \/ ~mine /\ details' = rest /\ UNCHANGED <<server, ui, lists>>
    \/ mine /\ Render([ui EXCEPT !.missing = TRUE, !.opening = FALSE], lists, rest)
    \/ mine /\ server[r.query] # "gone" /\ Render(Show(r.query, server[r.query]), lists, rest)

-------------------------------------------------------------------------------

\* The page opens, perhaps on the review a link names.
Init ==
    /\ server \in [Reviews -> {"running", "done"}]
    /\ \E link \in Reviews \cup {None} :
         /\ ui = [page |-> 1, repo |-> None, scope |-> FALSE, rows |-> <<>>, of |-> None, pages |-> 1,
                  loading |-> TRUE, failed |-> FALSE, opening |-> link # None, missing |-> FALSE,
                  chosen |-> IF link = None THEN None ELSE [id |-> link, status |-> None], selected |-> None]
         /\ details = IF link = None THEN <<>> ELSE Ask(<<>>, link, FALSE)
    /\ lists = FetchJobs(<<>>, ui, FALSE)

Next ==
    /\ \/ \E r \in Repositories \cup {None} : PickRepository(r)
       \/ ToggleScope \/ Clear \/ RetryList \/ Poll
       \/ \E p \in 1..Len(Order) : GoToPage(p)
       \/ \E j \in Reviews : Choose(j) \/ Ends(j) \/ Deleted(j)
       \/ \E i \in DOMAIN lists : HearList(i)
       \/ \E i \in DOMAIN details : HearDetail(i)
    /\ Len(lists') <= MaxAsked /\ Len(details') <= MaxAsked

Spec == Init /\ [][Next]_vars

-------------------------------------------------------------------------------
(* Properties *)

Waiting(asked) == \E i \in DOMAIN asked : asked[i].mine

\* What is shown is what was chosen last: with no skeleton, no error and no request
\* under way, the rows answer the page and the filters of the page, and the review
\* beside them is the one the user opened last (listSequence, detailSequence).
ShownIsChosen ==
    /\ ~ui.loading /\ ~ui.failed /\ ~Waiting(lists) => ui.of = Key(ui)
    /\ ~ui.opening /\ ~ui.missing /\ ui.chosen # None => ui.selected # None /\ ui.selected.id = ui.chosen.id
===============================================================================
