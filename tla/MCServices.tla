-------------------------------- MODULE MCServices --------------------------------
(***************************************************************************)
(* A small instance of Billing, of BehavioralRuns or of ContextCache: a      *)
(* scenario, chosen once, says which, and what happens in it; the others rest. *)
(***************************************************************************)
EXTENDS Services

CONSTANTS tab1, tab2, index, util, page, test, extra, Scenarios

VARIABLE scenario

\* One file has the bytes of another, GitHub reports no size for one, one is beyond the
\* limit; or two files of known sizes, which fit.
Crowded == <<page, util, index, test, extra>>
Few     == <<page, index>>
Trees   == {Crowded, Few}
BlobOf(f) == IF f = test THEN page ELSE f
SizeOf(f) == IF f = util THEN 0 ELSE 1

ASSUME InstancesFit == V!RunsConstants /\ C!CacheConstants

\* Two requests race for a checkout, with a fault or of two plans; the events of one
\* subscription and the App beside them; the events of two subscriptions.
Shop == [tabs |-> {tab1}, checkouts |-> 1, clock |-> 1, events |-> 0, plans |-> {"TEAM"}, faults |-> 0, app |-> FALSE]
BillingScenario(name) ==
    CASE name = "checkout" -> [Shop EXCEPT !.tabs = {tab1, tab2}, !.checkouts = 2, !.faults = 1]
      [] name = "plans"    -> [Shop EXCEPT !.checkouts = 2, !.plans = Plans]
      [] name = "events"   -> [Shop EXCEPT !.clock = 3, !.events = 3, !.plans = Plans, !.app = TRUE]
      [] name = "second"   -> [Shop EXCEPT !.clock = 3, !.events = 4, !.checkouts = 2]

WithinBilling(s) ==
    /\ \A r \in {tab1, tab2} : /\ r \in s.tabs \/ request'[r] = Idle
                               /\ request'[r].product \in s.plans \cup {None}
    /\ Len(checkout') <= s.checkouts /\ clock' <= s.clock /\ faults' <= s.faults
    /\ s.app \/ install' = install
    /\ IF s.events = 0 THEN applied' = {} ELSE Cardinality(sent') <= s.events
    /\ \A c \in DOMAIN checkout' : checkout'[c].product \in s.plans

\* Two tabs; one request and what is lost; two requests and a loss; the settings.
Runs == [tabs |-> {tab1}, keys |-> 2, versions |-> 1, faults |-> 0]
RunsScenario(name) ==
    CASE name = "tabs"     -> [Runs EXCEPT !.tabs = {tab1, tab2}]
      [] name = "lost"     -> [Runs EXCEPT !.keys = 1, !.faults = 2]
      [] name = "again"    -> [Runs EXCEPT !.faults = 1]
      [] name = "settings" -> [Runs EXCEPT !.keys = 1, !.versions = 2, !.faults = 1]

WithinRuns(s) ==
    /\ \A t \in {tab1, tab2} : t \in s.tabs \/ tab'[t] = V!IdleTab
    /\ keys' <= s.keys /\ repo'.config <= s.versions /\ (repo'.active \/ s.versions > 1) /\ faults' <= s.faults

\* The budget; disconnects beside an index, once connected again; the retention of the copies.
Cache == [files |-> Few, builds |-> 2, leaves |-> FALSE, sweeps |-> FALSE, aborts |-> 1, faults |-> 0]
CacheScenario(name) ==
    CASE name = "budget"     -> [Cache EXCEPT !.files = Crowded, !.builds = 1, !.faults = 1]
      [] name = "disconnect" -> [Cache EXCEPT !.builds = 1, !.leaves = TRUE, !.faults = 1]
      [] name = "reconnect"  -> [Cache EXCEPT !.leaves = TRUE]
      [] name = "retention"  -> [Cache EXCEPT !.builds = 1, !.sweeps = TRUE, !.aborts = 0]

WithinCache(s) ==
    /\ build'.files \in {<<>>, s.files} /\ builds' <= s.builds /\ faults' <= s.faults
    /\ s.leaves \/ <<code, leave>>' = <<code, leave>>
    /\ s.sweeps \/ ~finite'
    /\ build'.aborted => builds' <= s.aborts

billingScenarios == {"checkout", "plans", "events", "second"}
runsScenarios    == {"tabs", "lost", "again", "settings"}
cacheScenarios   == {"budget", "disconnect", "reconnect", "retention"}

Begins == /\ Init /\ V!Init /\ C!Init /\ scenario \in Scenarios
          /\ finite => scenario = "retention"

Steps == \/ /\ scenario \in billingScenarios /\ Next /\ WithinBilling(BillingScenario(scenario))
            /\ UNCHANGED <<proved, copied, scenario>>
         \/ /\ scenario \in runsScenarios /\ V!Next /\ WithinRuns(RunsScenario(scenario))
            /\ UNCHANGED <<paid, copied, scenario>>
         \/ /\ scenario \in cacheScenarios /\ C!Next /\ WithinCache(CacheScenario(scenario))
            /\ UNCHANGED <<paid, proved, scenario>>

MCSpec == Begins /\ [][Steps]_<<paid, proved, copied, faults, scenario>>
================================================================================
