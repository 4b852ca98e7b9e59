--------------------------------- MODULE Services ---------------------------------
(***************************************************************************)
(* The services beside the reviews, which share nothing but the faults that  *)
(* befall them: billing, the behavioral runs, and the copies of a            *)
(* repository's code.                                                        *)
(***************************************************************************)
EXTENDS Billing

CONSTANTS Tabs, PerJob, MaxRuns, MaxKeys, MaxVersions,
          Listings, Blob(_), Size(_), MaxFileBytes, MaxFiles, MaxDownloads, MaxBytes, Concurrency,
          MaxBuilds, MaxLinks

VARIABLES run, report, repo, tab, keys, workflow, accepted, dispatched,
          code, table, write, build, op, leave, promised, doomed, finite, builds

paid   == <<checkout, clock, sent, applied, rows, install, pending, lock, request, offered>>
proved == <<run, report, repo, tab, keys, workflow, accepted, dispatched>>
copied == <<code, table, write, build, op, leave, promised, doomed, finite, builds>>

V == INSTANCE BehavioralRuns
C == INSTANCE ContextCache WITH repo <- code

-------------------------------------------------------------------------------

\* A click on Run is answered with the result of the run it asked for, whatever was lost.
OneResultPerRequest == V!OneResultPerRequest

\* After a disconnect was answered OK no copy of the code is there.
CodeGoneAfterDisconnect == C!CodeGoneAfterDisconnect

\* The downloads of a review stay within their budget, and a complete index is complete.
BudgetKept == C!BudgetKept
================================================================================
