--------------------------- MODULE MCReviewScenarios ---------------------------
(***************************************************************************)
(* Several questions about ReviewLifecycle share a run: a scenario, chosen  *)
(* once, says who takes part.  Its behaviours are behaviours of Spec in     *)
(* which the others rest.                                                   *)
(***************************************************************************)
EXTENDS MCReviewLifecycle

CONSTANT Scenarios

VARIABLE scenario

\* One review, its attempt and a sweep.
Alone == [jobs |-> {j1}, cancels |-> {}, disconnects |-> FALSE, sweeps |-> TRUE, months |-> 0,
          workers |-> 1, fails |-> "again", faults |-> MaxFaults]

\* Everything that the constants allow.
Free == [jobs |-> Jobs, cancels |-> Jobs, disconnects |-> TRUE, sweeps |-> TRUE, months |-> LastMonth,
         workers |-> Cardinality(Workers), fails |-> "again", faults |-> MaxFaults]

\* A review whose lock may be lost, so that a second worker runs it beside the
\* first; one whose user cancels at any point; one whose repository is
\* disconnected and connected again; two reviews that compete for a slot while the
\* month changes and one is cancelled, or while the repository is disconnected.
Scenario(name) ==
    CASE name = "free"       -> Free
      [] name = "zombie"     -> [Alone EXCEPT !.workers = 2, !.sweeps = FALSE]
      [] name = "cancel"     -> [Alone EXCEPT !.cancels = {j1}, !.fails = "once"]
      [] name = "disconnect" -> [Alone EXCEPT !.disconnects = TRUE, !.faults = 0]
      [] name = "quota"      -> [Alone EXCEPT !.jobs = Jobs, !.cancels = {j1}, !.sweeps = FALSE, !.months = LastMonth,
                                              !.fails = "never", !.faults = 0]
      [] name = "pair"       -> [Alone EXCEPT !.jobs = Jobs, !.disconnects = TRUE, !.sweeps = FALSE,
                                              !.fails = "never", !.faults = 0]

\* The others rest: without a sweep, nobody looks at the age of a row.
Within(s) == /\ \A j \in Jobs : j \in s.cancels \/ canceller'[j] = "idle"
             /\ IF s.disconnects THEN TRUE ELSE active'
             /\ IF s.sweeps THEN TRUE ELSE sweep' = sweep /\ ~\E j \in Jobs : aged'[j]
             /\ Cardinality({w \in Workers : att'[w].job # None}) <= s.workers
             /\ \A j \in Jobs : j \in s.jobs \/ producer'[j] = "idle"
             /\ month' <= s.months
             /\ s.fails = "once"  => \A j \in Jobs : status'[j] # "RETRYING"
             /\ s.fails = "never" => \A j \in Jobs : made'[j] = 0
             /\ faults' <= s.faults

MCInit == Init /\ scenario \in Scenarios
MCNext == Next /\ scenario' = scenario /\ Within(Scenario(scenario))
MCSpec == MCInit /\ [][MCNext]_<<vars, scenario>>

\* Of the scenarios only "free" restricts nothing, so that it can be asked to be fair.
MCFairSpec == MCSpec /\ Fairness
===============================================================================
