-------------------------------- MODULE Knowledge --------------------------------
(***************************************************************************)
(* What is known of a repository beside its reviews: the history of their   *)
(* findings with the feedback on it, and the rules, workflow and adaptation  *)
(* their owner decides on.  The two meet in the findings and share no state. *)
(***************************************************************************)
EXTENDS FindingHistory

CONSTANTS Repositories, Home, Texts, Cards, Pages, Limit, MaxRules, MaxRevision, MaxLoads

VARIABLES active, finding, tombstone, workflow, rules, setting, card, panel, page

beside == <<active, finding, tombstone, workflow, rules, setting, card, panel, page>>

R == INSTANCE RepositoryRules

-------------------------------------------------------------------------------

\* No feedback, rule, workflow or setting is written by who has not seen it as it is.
NoBlindWrite == NoBlindSave /\ R!NoBlindEdit

\* The rules of a repository: each is sound for its mode and origin, and one of a finding.
RulesSound == R!RulesSound

\* A rules page lists, edits and sends what is of the repository it names.
PageTruthful == R!PageTruthful

\* Who enables the adaptation was shown the setting as it is.
ConsentIsFresh == R!ConsentIsFresh
===============================================================================
