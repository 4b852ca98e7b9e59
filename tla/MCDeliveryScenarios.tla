--------------------------- MODULE MCDeliveryScenarios ---------------------------
(***************************************************************************)
(* As in MCReviewScenarios a scenario, chosen once, says who takes part in  *)
(* CommentDelivery; the others rest.                                        *)
(***************************************************************************)
EXTENDS MCCommentDelivery

CONSTANT Scenarios

VARIABLE scenario

One == [inline |-> {i1}, taking |-> {u1}, disconnects |-> FALSE, faults |-> 0]

\* Two executions side by side; two inline comments and one execution after the
\* other; one that crashes; the user's check beside
\* one; and a disconnect that comes under way.
Scenario(name) ==
    CASE name = "overlap"    -> [One EXCEPT !.taking = {u1, u2}]
      [] name = "batch"      -> [One EXCEPT !.inline = Inline]
      [] name = "crash"      -> [One EXCEPT !.faults = MaxFaults]
      [] name = "check"      -> [One EXCEPT !.taking = {u1, k1}]
      [] name = "disconnect" -> [One EXCEPT !.disconnects = TRUE]

Within(s) == /\ \A u \in Executions : u \in s.taking \/ run'[u].pc = "idle"
             /\ IF s.disconnects THEN TRUE ELSE active'
             /\ faults' <= s.faults

MCInit == /\ Init /\ scenario \in Scenarios
          /\ \A i \in Inline : (state[i] # "NONE") <=> (i \in Scenario(scenario).inline)
MCNext == Next /\ Remember /\ scenario' = scenario /\ Within(Scenario(scenario))
MCSpec == MCInit /\ [][MCNext]_<<vars, overlapped, scenario>>
===============================================================================
