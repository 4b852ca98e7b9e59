---------------------------- MODULE ReviewContract ----------------------------
(***************************************************************************)
(* What the system promises about one review and the quota slot it spends, *)
(* whoever runs it: a review opens once, is charged at most once, and ends *)
(* once.  A completed review keeps its charge; every other ending gives it *)
(* back in the same step.  Nothing leaves an ending.                        *)
(***************************************************************************)
CONSTANT Reviews

VARIABLES
    outcome,        \* [Reviews -> Outcomes]: how far the review got
    charge          \* [Reviews -> Charges]: its slot of the monthly quota

cvars == <<outcome, charge>>

Outcomes == {"absent", "open", "completed", "stopped"}
Charges  == {"none", "held", "returned"}

CInit == /\ outcome = [r \in Reviews |-> "absent"]
         /\ charge  = [r \in Reviews |-> "none"]

\* The review is recorded, not yet charged.
Open(r) == /\ outcome[r] = "absent"
           /\ outcome' = [outcome EXCEPT ![r] = "open"]
           /\ UNCHANGED charge

\* The review is recorded as already stopped: the quota was full.
Refuse(r) == /\ outcome[r] = "absent"
             /\ outcome' = [outcome EXCEPT ![r] = "stopped"]
             /\ UNCHANGED charge

\* An open review takes one slot, once.
Charge(r) == /\ outcome[r] = "open"
             /\ charge[r] = "none"
             /\ charge' = [charge EXCEPT ![r] = "held"]
             /\ UNCHANGED outcome

\* Only a review that holds its slot completes, and it keeps the slot.
Complete(r) == /\ outcome[r] = "open"
               /\ charge[r] = "held"
               /\ outcome' = [outcome EXCEPT ![r] = "completed"]
               /\ UNCHANGED charge

\* Any other ending returns a slot that was taken.
Stop(r) == /\ outcome[r] = "open"
           /\ outcome' = [outcome EXCEPT ![r] = "stopped"]
           /\ charge' = [charge EXCEPT ![r] = IF @ = "held" THEN "returned" ELSE @]

CNext == \E r \in Reviews :
            Open(r) \/ Refuse(r) \/ Charge(r) \/ Complete(r) \/ Stop(r)

Safety == CInit /\ [][CNext]_cvars

\* Every open review ends.
Settles == \A r \in Reviews : WF_cvars(Complete(r) \/ Stop(r))

Contract == Safety /\ Settles
===============================================================================
