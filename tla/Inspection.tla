------------------------------- MODULE Inspection -------------------------------
(***************************************************************************)
(* How a review that came in is made: its diff is read, the files its imports *)
(* lead to are sent along, the model is asked, the scanners run, what they     *)
(* look up is looked up, and the findings are merged and weighed.  A part that *)
(* takes no part has None for its state.                                     *)
(***************************************************************************)
EXTENDS ReviewIntake

CONSTANTS Severities, DefaultLeast, MaxAttempts, MaxAnswered,                   \* AiReview
          Lines, Issues, Length, Similar(_, _), Weights, Categories, Window,    \* FindingRisk
          MaxFindings,
          ScanFiles, MaxCandidates,                                             \* SecurityScan
          Packages, Advisories, MaxRefs, MaxBatch, MaxRequests, MaxPages,       \* OsvLookup
          MaxIds, MaxDetails,
          Files, Repos, Tests, Barrels, Package(_), Related(_), Aliased,        \* ContextSelection
          Rooted, MaxHops, MaxFiles, Batch, MaxSources, MaxRelated,
          DiffOrder, Odd, Ignored, Code, Manifests, MaxBody, Starts, MaxHits    \* DiffReading

VARIABLES change, policy, att, queue, row, asked,
          wanted, given, kept, gap, ci,
          config, world, contents, phase, checks, findings, lost,
          db, states, pending, batch, requests, ids, records, cursor, stopped, outcome,
          repo, listed, aliases, indexed, hops, line, best, dropped, shown, next, reasons, stage, status, tests,
          diff, at, step, input, whole, filtered, found, check

W == INSTANCE AiReview WITH MaxFindings <- MaxAnswered
R == INSTANCE FindingRisk WITH policy <- wanted
S == INSTANCE SecurityScan WITH Files <- ScanFiles
O == INSTANCE OsvLookup
C == INSTANCE ContextSelection WITH queue <- line, kept <- best, phase <- stage
L == INSTANCE DiffReading WITH Order <- DiffOrder, Unknown <- None, phase <- step, kept <- filtered

-------------------------------------------------------------------------------

\* A review is completed with what the model answered to it, and one that was paid for counts.
PaidAnswersCount == row = None \/ W!PaidAnswersCount

\* No serious finding is hidden by a merge or by its weight, but for the one case that report
\* one does not see (R!TakenForSecret).
MergeHidesNothing == wanted = None \/ R!MergeHidesNothing

\* A scanner that broke off or could not run on what it was given does not read as full
\* coverage; files and packages that it was never given may (S!Excused).
OutageIsSaid == config = None \/ S!OutageIsSaid

\* A lookup that is called complete has looked at everything.
CompleteIsWhole == db = None \/ O!CompleteIsWhole

\* The files sent along are those the imports lead to, best first.
SelectionSound == repo = None \/ C!SelectionSound

\* A diff is cut, filtered and read without a wrong line or file.
ReadingSound        == diff = None \/ L!ReadingSound
IntroducedIsChecked == diff = None \/ L!IntroducedIsChecked
===============================================================================
