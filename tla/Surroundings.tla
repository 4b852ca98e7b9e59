------------------------------ MODULE Surroundings ------------------------------
(***************************************************************************)
(* What surrounds the life of a review: how reviews come in, who may see      *)
(* them, and what the browser shows of them.  A part that takes no part has    *)
(* None for its state.                                                      *)
(***************************************************************************)
EXTENDS ReviewIntake

CONSTANTS Browsers, Sockets, Requests, MaxLogins,                   \* AccountAccess
          Order, Repository, PullRequest, PageSize, MaxAsked,       \* HistoryPage
          Names, Day, MaxTime, MaxCaptured,                         \* HealthPage
          Gaps, Tabs, Texts, Bad, MaxCommits, MaxDrafts, MaxCalls   \* TestDrafts

VARIABLES now, issued, cookie, revoked, leaving, out, socket, use,
          server, ui, lists, details,
          backend, view, answers,
          review, head, drafts, card, calls

A == INSTANCE AccountAccess
H == INSTANCE HistoryPage
E == INSTANCE HealthPage WITH server <- backend
D == INSTANCE TestDrafts WITH MaxSha <- MaxCommits

-------------------------------------------------------------------------------

\* After a sign-out was answered its token opens nothing.
SignedOutStaysOut == use = None \/ A!SignedOutStaysOut

\* The pages show what the user chose last.
ShownIsChosen == /\ server = None  \/ H!ShownIsChosen
                 /\ backend = None \/ E!HealthIsChosen

\* A test draft that was discarded is not shown again.
DiscardedStays == D!DiscardedStays
===============================================================================
