------------------------------- MODULE MCKnowledge -------------------------------
(***************************************************************************)
(* A small instance of FindingHistory or of RepositoryRules: a scenario,    *)
(* chosen once, says which, and who takes part in it; the others rest.      *)
(***************************************************************************)
EXTENDS Knowledge

CONSTANTS pr, audit, finding1, tab1, tab2, home, other, text1, Scenarios

VARIABLE scenario

\* Each finding is a pattern of its own.
Alike(f) == f

ASSUME InstanceFits == R!RulesConstants

\* One tab gives feedback to the findings of one pull request.
History == [tabs |-> {tab1}, readers |-> {}, sweeps |-> FALSE, leaves |-> FALSE, jobs |-> {pr}, faults |-> 0]

\* Two tabs; the readers; a disconnect that may fail; a second review.
HistoryScenario(name) ==
    CASE name = "feedback"   -> [History EXCEPT !.tabs = Tabs, !.faults = 1]
      [] name = "readers"    -> [History EXCEPT !.readers = Readers, !.sweeps = TRUE]
      [] name = "disconnect" -> [History EXCEPT !.leaves = TRUE, !.sweeps = TRUE, !.readers = {"insights"},
                                                !.faults = 1]
      [] name = "reviews"    -> [History EXCEPT !.jobs = {pr, audit}, !.sweeps = TRUE]

WithinHistory(s) ==
    /\ \A t \in Tabs : t \in s.tabs \/ tab'[t] = IdleTab
    /\ \A r \in Readers : r \in s.readers \/ reader'[r] = "idle"
    /\ s.sweeps \/ (sweep' = {} /\ \A j \in DOMAIN job : ~job'[j].old)
    /\ IF s.leaves THEN TRUE ELSE repo'.active
    /\ "review" \in s.readers \/ ~repo'.memory
    /\ \A j \in DOMAIN job : j \in s.jobs \/ job'[j] = job[j]
    /\ faults' <= s.faults

Rules == [cards |-> {}, panels |-> {}, pages |-> {}, does |-> {}, repos |-> {home}, time |-> FALSE,
          leaves |-> FALSE, rules |-> 2, loads |-> 1]

\* Two cards of a finding; two panels and a disconnect; two tabs that derive a rule,
\* and a page that deletes it; two pages over one rule; one page and two repositories;
\* one page and every kind of rule.
RulesScenario(name) ==
    CASE name = "workflow"     -> [Rules EXCEPT !.cards = Tabs, !.does = {"workflow"}, !.time = TRUE, !.leaves = TRUE]
      [] name = "panels"       -> [Rules EXCEPT !.panels = Tabs, !.leaves = TRUE]
      [] name = "derive"       -> [Rules EXCEPT !.cards = Tabs, !.pages = {tab1}, !.does = {"rule", "remove"},
                                                !.time = TRUE]
      [] name = "pages"        -> [Rules EXCEPT !.pages = Tabs, !.rules = 1, !.loads = 2,
                                                !.does = {"create", "edit", "switch", "remove"}]
      [] name = "repositories" -> [Rules EXCEPT !.pages = {tab1}, !.repos = {home, other}, !.rules = 1, !.loads = 3,
                                                !.does = {"create", "edit", "remove"}]
      [] name = "modes"        -> [Rules EXCEPT !.cards = {tab1}, !.pages = {tab1}, !.loads = 2,
                                                !.does = {"rule", "create", "edit", "switch", "any mode"}]

Plain(c) == R!ModelOnly(c) /\ c.guideline

WithinRules(s) ==
    /\ \A t \in Tabs : /\ t \in s.cards  \/ card'[t] = card[t]
                       /\ t \in s.panels \/ panel'[t] = panel[t]
                       /\ t \in s.pages  \/ page'[t] = page[t]
                       /\ card'[t][finding1].ask.kind \in s.does \cup {"none"}
                       /\ page'[t].ask.kind \in s.does \cup {"none"}
                       /\ page'[t].ask.kind \in {"create", "edit"} => "any mode" \in s.does \/ Plain(page'[t].ask.is)
                       /\ page'[t].repo \in s.repos
                       /\ Len(page'[t].loads) <= s.loads
    /\ Len(rules') <= s.rules
    /\ IF s.leaves THEN TRUE ELSE active'
    /\ IF s.time THEN TRUE ELSE active' /\ active => finding' = finding

historyScenarios == {"feedback", "readers", "disconnect", "reviews"}
rulesScenarios   == {"workflow", "panels", "derive", "pages", "repositories", "modes"}

Begins == /\ Init /\ R!Init
          /\ scenario \in Scenarios
          /\ \A j \in Jobs : job[j].done =>
                scenario \in historyScenarios /\ j \in HistoryScenario(scenario).jobs

HistoryStep == /\ scenario \in historyScenarios
               /\ Next /\ WithinHistory(HistoryScenario(scenario))
               /\ UNCHANGED <<beside, scenario>>
RulesStep   == /\ scenario \in rulesScenarios
               /\ R!Next /\ WithinRules(RulesScenario(scenario))
               /\ UNCHANGED <<hist, scenario>>

Steps == HistoryStep \/ RulesStep

MCSpec == Begins /\ [][Steps]_<<hist, beside, scenario>> /\ Fairness
===============================================================================
