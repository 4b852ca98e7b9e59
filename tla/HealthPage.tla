-------------------------------- MODULE HealthPage --------------------------------
(***************************************************************************)
(* The engineering health page: a snapshot of a scope, taken at one moment,    *)
(* and under it two tables that are read page by page as of that moment.  The    *)
(* user changes the scope, the metric and the pages while requests are under      *)
(* way; reviews complete, age and leave with their repository meanwhile.          *)
(*                                                                         *)
(* React's rule for effects is part of every step, as in HistoryPage.  The      *)
(* period and the trend buckets are parts of the scope the user chooses like     *)
(* the repository; only the repository narrows the records here.               *)
(***************************************************************************)
EXTENDS Integers, Sequences, FiniteSets, SequencesExt

CONSTANTS None,
          Names,       \* the repositories of the user, in the order of their names
          PageSize,    \* limit
          Day,         \* how old a snapshot may be
          MaxTime, MaxCaptured, MaxAsked  \* bounds: time, completed reviews, requests not answered

VARIABLES server,   \* the backend: the time, the active repositories, the captured reviews
          view,     \* the state of the page
          answers   \* the requests whose answer is not in

vars == <<server, view, answers>>

Scopes  == {None} \cup ToSet(Names)   \* None: all connected repositories
Metrics == {"all", "critical"}        \* the others select reviews in the same way

-------------------------------------------------------------------------------
(* The backend: engineeringHealth *)

\* A scope is looked up among the active repositories of the user.
Available(scope) == scope = None \/ scope \in server.active

Meets(review, metric) == metric = "critical" => review.critical

\* The reviews captured before the end of a snapshot, newest first.
Reviews(scope, end, metric) ==
    Reverse(SelectSeq(server.captured, LAMBDA r : /\ r.at < end /\ Meets(r, metric)
                                                 /\ r.repo \in server.active
                                                 /\ scope \in {None, r.repo}))

Repositories(scope) == SelectSeq(Names, LAMBDA n : n \in server.active /\ scope \in {None, n})

\* paginate: a page, which is empty past the last one, and what it is a page of.
Paginate(rows, page, of) ==
    [page  |-> page,
     pages |-> (Len(rows) + PageSize - 1) \div PageSize,
     items |-> SubSeq(rows, (page - 1) * PageSize + 1,
                      IF page * PageSize < Len(rows) THEN page * PageSize ELSE Len(rows)),
     of    |-> of]

ReviewTable(scope, end, metric, page) ==
    Paginate(Reviews(scope, end, metric), page, [scope |-> scope, end |-> end, metric |-> metric])
RepoTable(scope, end, page) == Paginate(Repositories(scope), page, [scope |-> scope, end |-> end])

\* What a snapshot holds: the first pages are part of it.
Report(scope) == [scope |-> scope, end |-> server.now,
                  reviews |-> ReviewTable(scope, server.now, "all", 1), repos |-> RepoTable(scope, server.now, 1)]

\* parseScope: a snapshot of long ago is refused, as is a repository that is gone.
Recent(data) == server.now - data.end <= Day /\ Available(data.scope)

\* What is captured of a completed review: here, whether it has critical findings.
Fact(repo, critical) == [repo |-> repo, critical |-> critical, at |-> server.now]

Server(s) == server' = s /\ UNCHANGED <<view, answers>>

\* Reviews complete; the oldest one leaves after its retention; repositories are disconnected; time goes on.
Completes == /\ server.now < MaxTime /\ Len(server.captured) < MaxCaptured
             /\ \E n \in server.active, critical \in BOOLEAN :
                   Server([server EXCEPT !.now = @ + 1,
                                         !.captured = Append(@, Fact(n, critical))])
Expires == server.captured # <<>> /\ Server([server EXCEPT !.captured = Tail(@)])
Disconnects == \E n \in server.active : Server([server EXCEPT !.active = @ \ {n}])
TimePasses == server.now < MaxTime /\ Server([server EXCEPT !.now = @ + 1])

-------------------------------------------------------------------------------
(* The page's effects *)

\* The end of an effect aborts what it asked for: its answer is not heard any more.
Aborted == {[q EXCEPT !.live = FALSE] : q \in answers}

Heard(q) == q.live

Asked(q, as) == answers' = as \cup {q}

\* The effect of a new scope or of Refresh: nothing is shown until the snapshot is in.
TakeSnapshot(v) ==
    /\ view' = [v EXCEPT !.loading = TRUE, !.error = FALSE, !.data = None,
                         !.reviews = None, !.repos = None, !.trouble = FALSE]
    /\ Asked([kind |-> "snapshot", scope |-> v.scope, live |-> TRUE], Aborted)
    /\ UNCHANGED server

\* The effect of a new snapshot, metric or page: both tables are asked for together.
ReadRecords(v, as) ==
    /\ view' = [v EXCEPT !.reviews = None, !.repos = None, !.trouble = FALSE]
    /\ Asked([kind |-> "records", data |-> v.data, metric |-> v.metric, page |-> v.page,
              repoPage |-> v.repoPage, live |-> TRUE], as)
    /\ UNCHANGED server

\* The page is shown again with another metric or page.
Turn(v) == IF <<v.metric, v.page, v.repoPage>> = <<view.metric, view.page, view.repoPage>> \/ v.data = None
           THEN view' = v /\ UNCHANGED <<server, answers>>
           ELSE ReadRecords(v, Aborted)

-------------------------------------------------------------------------------
(* What the user does *)

\* The tables are there with the snapshot, once both of them are read.
ReviewsShown(v) == v.data # None /\ v.reviews # None
ReposShown(v)   == v.data # None /\ v.repos # None

First(v) == [v EXCEPT !.metric = "all", !.page = 1, !.repoPage = 1]

\* changeScope: back to the first pages of every captured review.
ChangeScope(scope) == LET v == [First(view) EXCEPT !.scope = scope] IN
                      IF scope = view.scope THEN Turn(v) ELSE TakeSnapshot(v)

\* The select fires for another choice; a row of the breakdown for the scope that is there, too.
SelectScope == \E scope \in Scopes \ {view.scope} : ChangeScope(scope)
PickRow     == ReposShown(view) /\ \E n \in ToSet(view.repos.items) : ChangeScope(n)

\* The metric and the pages stay.
Refresh == TakeSnapshot(view)

\* A card, or "Show all captured PRs".
ChooseMetric == view.data # None /\ \E m \in Metrics : Turn([view EXCEPT !.metric = m, !.page = 1])

\* Paging: the neighbours of the page that is shown.
Neighbour(table, p) == \/ p = table.page - 1 /\ table.page > 1
                       \/ p = table.page + 1 /\ table.page < table.pages
TurnReviews == ReviewsShown(view) /\ \E p \in 1..MaxCaptured :
                   Neighbour(view.reviews, p) /\ Turn([view EXCEPT !.page = p])
TurnRepos   == ReposShown(view) /\ \E p \in DOMAIN Names :
                   Neighbour(view.repos, p) /\ Turn([view EXCEPT !.repoPage = p])

-------------------------------------------------------------------------------
(* Answers *)

Ignore(q) == ~Heard(q) /\ answers' = answers \ {q} /\ UNCHANGED <<server, view>>

HearSnapshot(q) ==
    /\ q.kind = "snapshot" /\ Heard(q)
    /\ \/ /\ Available(q.scope)
          /\ ReadRecords([view EXCEPT !.data = Report(q.scope), !.loading = FALSE], answers \ {q})
       \/ /\ view' = [view EXCEPT !.error = TRUE, !.loading = FALSE]
          /\ answers' = answers \ {q} /\ UNCHANGED server

\* A table's last page, which may have gone while the table was read.
Within(table, page) == IF page > table.pages THEN (IF table.pages = 0 THEN 1 ELSE table.pages) ELSE page

\* The first page of everything is in the snapshot; another is asked for.
Local(q) == q.repoPage = 1 /\ q.metric = "all" /\ q.page = 1

HearRecords(q) ==
    LET d       == q.data
        reviews == IF q.metric = "all" /\ q.page = 1 THEN d.reviews ELSE ReviewTable(d.scope, d.end, q.metric, q.page)
        repos   == IF q.repoPage = 1 THEN d.repos ELSE RepoTable(d.scope, d.end, q.repoPage)
        page     == Within(reviews, q.page)
        repoPage == Within(repos, q.repoPage)
        v       == [view EXCEPT !.reviews = reviews, !.repos = repos, !.page = page, !.repoPage = repoPage]
    IN
    /\ q.kind = "records" /\ Heard(q)
    /\ \/ /\ Local(q) \/ Recent(d)
          /\ IF page # q.page \/ repoPage # q.repoPage THEN ReadRecords(v, answers \ {q})
             ELSE view' = v /\ answers' = answers \ {q} /\ UNCHANGED server
       \/ /\ ~Local(q)   \* refused, or lost
          /\ view' = [view EXCEPT !.trouble = TRUE]
          /\ answers' = answers \ {q} /\ UNCHANGED server

-------------------------------------------------------------------------------
Init == /\ server = [now |-> 0, active |-> ToSet(Names), captured |-> <<>>]
        /\ view = [scope |-> None, metric |-> "all", page |-> 1, repoPage |-> 1, data |-> None,
                   reviews |-> None, repos |-> None, loading |-> TRUE, error |-> FALSE, trouble |-> FALSE]
        /\ answers = {[kind |-> "snapshot", scope |-> None, live |-> TRUE]}

Next == /\ \/ Completes \/ Expires \/ Disconnects \/ TimePasses
           \/ SelectScope \/ PickRow \/ Refresh \/ ChooseMetric \/ TurnReviews \/ TurnRepos
           \/ \E q \in answers : Ignore(q) \/ HearSnapshot(q) \/ HearRecords(q)
        /\ Cardinality(answers') <= MaxAsked

Spec == Init /\ [][Next]_vars

-------------------------------------------------------------------------------
(* What is under the controls is what they say: the snapshot is of the scope    *)
(* that is chosen, the tables of that snapshot, of the metric and the page that   *)
(* are chosen, and of a page there is; and where nothing is shown, an answer is     *)
(* still to come or the page says that none came (EngineeringHealth.tsx:239-316). *)
HealthIsChosen ==
    /\ view.data # None => view.data.scope = view.scope
    /\ ReviewsShown(view) =>
          /\ view.reviews.of = [scope |-> view.scope, end |-> view.data.end, metric |-> view.metric]
          /\ view.reviews.page = view.page /\ Within(view.reviews, view.page) = view.page
    /\ ReposShown(view) =>
          /\ view.repos.of = [scope |-> view.scope, end |-> view.data.end]
          /\ view.repos.page = view.repoPage /\ Within(view.repos, view.repoPage) = view.repoPage
    /\ view.data = None \/ (view.reviews = None /\ ~view.trouble) =>
          view.error \/ \E q \in answers : q.live
=============================================================================
