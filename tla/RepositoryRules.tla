----------------------------- MODULE RepositoryRules -----------------------------
(***************************************************************************)
(* What the owner of a repository decides beside its reviews: the workflow  *)
(* status of a finding, the rules of the repository - written by hand or    *)
(* derived from a finding - and whether feedback may adapt reviews.  Cards  *)
(* (a finding on the history page), adaptation panels and rules pages are   *)
(* open in several tabs; each write names the revision it saw.              *)
(*                                                                         *)
(* A write is a transaction under the lock of the repository and so one     *)
(* action; the tab that sent it and the answer are actions of their own.    *)
(***************************************************************************)
EXTENDS Naturals, FiniteSets, Sequences

CONSTANTS Findings, Repositories,
          Home,           \* the repository the findings are of
          Texts,          \* what rules say, up to ruleSimilarityKey
          Cards, Pages,
          None,
          Limit,          \* bound: a repository holds 500 rules
          MaxRules,       \* bound: rules ever created
          MaxRevision,    \* bound: writes to a workflow, a rule or the setting
          MaxLoads        \* bound: lists a page asks for

VARIABLES
    active,     \* isActive of Home
    finding,    \* current; closed (superseded or of ninety days ago); gone
    tombstone,  \* of the audit event that records a creation: none, kept, old
    workflow,   \* of a finding: status and the trail of its changes
    rules,      \* the rules ever created, in order; a deleted one is not alive
    setting,    \* feedback adaptation: enabled, revision
    card,       \* a card: what it shows, and the request it waits for
    panel,      \* an adaptation panel: likewise
    page        \* a rules page: selection, list, form, loads, the write it waits for

\* The findings are of one of the repositories, and a limit is a number.
RulesConstants == Home \in Repositories /\ Limit \in Nat /\ None \notin Findings

stored == <<active, finding, tombstone, workflow, rules, setting>>
vars   == <<stored, card, panel, page>>

Statuses == {"OPEN", "DISMISSED", "REPORTED_FIXED"}
Modes    == {"LLM", "DETERMINISTIC", "BOTH"}

\* The fields validateRule looks at.
Contents == [text : Texts, mode : Modes, guideline : BOOLEAN, pattern : BOOLEAN, enabled : BOOLEAN]

\* Mutant: the pattern is asked for in the deterministic mode alone.
ValidWithoutPattern(c) == /\ c.mode \in {"LLM", "BOTH"} => c.guideline
                          /\ c.mode = "DETERMINISTIC"   => c.pattern

Valid(c) == /\ c.mode \in {"LLM", "BOTH"}           => c.guideline
            /\ c.mode \in {"DETERMINISTIC", "BOTH"} => c.pattern

\* What a rule derived from a finding may say.
ModelOnly(c) == c.mode = "LLM" /\ ~c.pattern

NoRequest == [kind |-> "none"]
Error     == [kind |-> "error"]
IdleCard  == [status |-> "OPEN", revision |-> 0, proposal |-> FALSE, ask |-> NoRequest, answer |-> NoRequest]
IdlePanel == [enabled |-> FALSE, revision |-> 0, ask |-> NoRequest, answer |-> NoRequest]
NewPage   == [repo |-> Home, epoch |-> 0, of |-> None, list |-> {}, editing |-> None, loads |-> <<>>,
              ask |-> NoRequest, answer |-> NoRequest]

Init == /\ active = TRUE
        /\ finding = [f \in Findings |-> "current"]
        /\ tombstone = [f \in Findings |-> "none"]
        /\ workflow = [f \in Findings |-> [status |-> "OPEN", trail |-> <<>>]]
        /\ rules = <<>>
        /\ setting = [enabled |-> FALSE, revision |-> 0]
        /\ card = [c \in Cards |-> [f \in Findings |-> IdleCard]]
        /\ panel = [c \in Cards |-> IdlePanel]
        /\ page = [p \in Pages |-> NewPage]

Alive(r)   == {i \in DOMAIN rules : rules[i].alive /\ rules[i].repo = r}
Open(r)    == r = Home => active
Revision(f) == Len(workflow[f].trail)

\* eligibleFinding: the whole relation is looked at again under the lock.
Eligible(f) == active /\ finding[f] = "current"

--------------------------------------------------------------------------------
(* The card of a finding, and the adaptation panel *)

Card(c, f, value) == card' = [card EXCEPT ![c][f] = value] /\ UNCHANGED <<stored, panel, page>>
Waits(w)    == w.ask.kind # "none"
Answered(w) == w.answer.kind # "none"

\* The review is loaded again.
Reload(c, f) ==
    /\ ~Waits(card[c][f]) /\ Eligible(f)
    /\ <<card[c][f].status, card[c][f].revision>> # <<workflow[f].status, Revision(f)>>
    /\ Card(c, f, [card[c][f] EXCEPT !.status = workflow[f].status, !.revision = Revision(f)])

\* The buttons: dismiss or restore, mark fixed, reopen.
Offers(status) == IF status = "OPEN" THEN {"DISMISSED", "REPORTED_FIXED"}
                  ELSE IF status = "DISMISSED" THEN {"OPEN", "REPORTED_FIXED"} ELSE {"OPEN", "DISMISSED"}

Transition(c, f, status) ==
    /\ ~Waits(card[c][f]) /\ status \in Offers(card[c][f].status)
    /\ Card(c, f, [card[c][f] EXCEPT !.ask =
                      [kind |-> "workflow", status |-> status, expects |-> card[c][f].revision]])

\* prepareRuleDraft; the draft stays until it is discarded or saved.
Propose(c, f) == /\ ~Waits(card[c][f]) /\ ~card[c][f].proposal /\ Eligible(f)
                 /\ Card(c, f, [card[c][f] EXCEPT !.proposal = TRUE])

Discard(c, f) == /\ ~Waits(card[c][f]) /\ card[c][f].proposal
                 /\ Card(c, f, [card[c][f] EXCEPT !.proposal = FALSE])

\* The user edits the draft, confirms it and saves it.
ConfirmRule(c, f, text, enabled) ==
    /\ ~Waits(card[c][f]) /\ card[c][f].proposal
    /\ Card(c, f, [card[c][f] EXCEPT !.ask =
          [kind |-> "rule", is |-> [text |-> text, mode |-> "LLM", guideline |-> TRUE,
                                     pattern |-> FALSE, enabled |-> enabled]]])

\* updateWorkflow: a repeated request is recognised, another intent needs the
\* revision; a change appends to the trail.
Repeated(f, a) == /\ workflow[f].trail # <<>> /\ workflow[f].status = a.status
                  /\ a.expects \in {Revision(f), Revision(f) - 1}

AnswersWorkflow(c, f, answer) ==
    card' = [card EXCEPT ![c][f].answer = answer] /\ UNCHANGED <<panel, page>>

Present(f) == [kind |-> "workflow", status |-> workflow[f].status, revision |-> Revision(f)]

UpdateWorkflow(c, f) ==
    LET a == card[c][f].ask
    IN  /\ a.kind = "workflow" /\ ~Answered(card[c][f])
        /\ \/ /\ Eligible(f)
              /\ Repeated(f, a) \/ (workflow[f].trail = <<>> /\ a.status = "OPEN" /\ a.expects = 0)
              /\ AnswersWorkflow(c, f, Present(f)) /\ UNCHANGED stored
           \/ /\ ~Eligible(f) \/ (~Repeated(f, a) /\ a.expects # Revision(f))
              /\ AnswersWorkflow(c, f, Error) /\ UNCHANGED stored
           \/ /\ Eligible(f) /\ ~Repeated(f, a) /\ a.expects = Revision(f)
              /\ workflow[f].trail = <<>> => a.status # "OPEN"
              /\ Revision(f) < MaxRevision
              /\ workflow' = [workflow EXCEPT ![f] = [status |-> a.status,
                                 trail |-> Append(@.trail, [from |-> @.status, to |-> a.status])]]
              /\ AnswersWorkflow(c, f, [kind |-> "workflow", status |-> a.status, revision |-> Revision(f) + 1])
              /\ UNCHANGED <<active, finding, tombstone, rules, setting>>

\* Mutant: who asks for the rule of a finding whose rule was deleted gets another.
RuleReborn(f, c) ==
    IF /\ Eligible(f) /\ Valid(c) /\ ModelOnly(c)
       /\ ~\E i \in Alive(Home) : rules[i].from = f \/ rules[i].is.text = c.text
       /\ Cardinality(Alive(Home)) < Limit
    THEN /\ Len(rules) < MaxRules
         /\ rules' = Append(rules, [repo |-> Home, from |-> f, is |-> c, revision |-> 0, alive |-> TRUE])
         /\ tombstone' = [tombstone EXCEPT ![f] = "kept"]
         /\ UNCHANGED <<active, finding, workflow, setting>>
    ELSE UNCHANGED stored

\* createRuleFromFinding: the rule there is answered again; a deleted one leaves
\* the audit event of its creation, and no second rule says the same.
CreateRuleFromFinding(f, c) ==
    IF /\ Eligible(f) /\ Valid(c) /\ ModelOnly(c)
       /\ ~\E i \in Alive(Home) : rules[i].from = f \/ rules[i].is.text = c.text
       /\ tombstone[f] = "none"
       /\ Cardinality(Alive(Home)) < Limit
    THEN /\ Len(rules) < MaxRules
         /\ rules' = Append(rules, [repo |-> Home, from |-> f, is |-> c, revision |-> 0, alive |-> TRUE])
         /\ tombstone' = [tombstone EXCEPT ![f] = "kept"]
         /\ UNCHANGED <<active, finding, workflow, setting>>
    ELSE UNCHANGED stored

SaveRule(c, f) == /\ card[c][f].ask.kind = "rule" /\ ~Answered(card[c][f])
                  /\ CreateRuleFromFinding(f, card[c][f].ask.is)
                  /\ AnswersWorkflow(c, f, IF \E i \in DOMAIN rules' : rules'[i].alive /\ rules'[i].from = f
                                           THEN [kind |-> "rule"] ELSE Error)

\* The answer arrives, or is lost, and with an error the draft is kept.
CardHears(c, f) ==
    LET w    == card[c][f]
        rest == [w EXCEPT !.ask = NoRequest, !.answer = NoRequest]
    IN  /\ Answered(w)
        /\ \/ Card(c, f, rest)
           \/ /\ w.answer.kind = "workflow"
              /\ Card(c, f, [rest EXCEPT !.status = w.answer.status, !.revision = w.answer.revision])
           \/ w.answer.kind = "rule" /\ Card(c, f, [rest EXCEPT !.proposal = FALSE])

Panel(c, value) == panel' = [panel EXCEPT ![c] = value] /\ UNCHANGED <<card, page>>

Refresh(c) == /\ ~Waits(panel[c]) /\ active
              /\ <<panel[c].enabled, panel[c].revision>> # <<setting.enabled, setting.revision>>
              /\ Panel(c, [panel[c] EXCEPT !.enabled = setting.enabled, !.revision = setting.revision])
              /\ UNCHANGED stored

\* toggle, with the consent given for what the panel shows.
Toggle(c) == /\ ~Waits(panel[c])
             /\ Panel(c, [panel[c] EXCEPT !.ask = [kind |-> "setting", enabled |-> ~panel[c].enabled,
                                                   expects |-> panel[c].revision]])
             /\ UNCHANGED stored

Setting(enabled, revision) == [kind |-> "setting", enabled |-> enabled, revision |-> revision]

\* Mutant of UpdateAdaptation: the setting is written whatever revision was seen.
UpdateAdaptationBlindly(c) ==
    LET a == panel[c].ask
    IN  /\ a.kind = "setting" /\ ~Answered(panel[c]) /\ active /\ setting.revision < MaxRevision
        /\ setting' = [enabled |-> a.enabled, revision |-> setting.revision + 1]
        /\ Panel(c, [panel[c] EXCEPT !.answer = Setting(a.enabled, setting.revision + 1)])
        /\ UNCHANGED <<active, finding, tombstone, workflow, rules>>

\* updateAdaptation: again a repeated request is recognised.
UpdateAdaptation(c) ==
    LET a      == panel[c].ask
        repeat == setting.enabled = a.enabled /\ setting.revision \in {a.expects, a.expects + 1}
    IN  /\ a.kind = "setting" /\ ~Answered(panel[c])
        /\ \/ /\ active /\ repeat
              /\ Panel(c, [panel[c] EXCEPT !.answer = Setting(setting.enabled, setting.revision)])
              /\ UNCHANGED stored
           \/ /\ ~active \/ (~repeat /\ a.expects # setting.revision)
              /\ Panel(c, [panel[c] EXCEPT !.answer = Error])
              /\ UNCHANGED stored
           \/ /\ active /\ ~repeat /\ a.expects = setting.revision /\ setting.revision < MaxRevision
              /\ setting' = [enabled |-> a.enabled, revision |-> setting.revision + 1]
              /\ Panel(c, [panel[c] EXCEPT !.answer = Setting(a.enabled, setting.revision + 1)])
              /\ UNCHANGED <<active, finding, tombstone, workflow, rules>>

PanelHears(c) ==
    LET w    == panel[c]
        rest == [w EXCEPT !.ask = NoRequest, !.answer = NoRequest]
    IN  /\ Answered(w)
        /\ \/ Panel(c, rest)
           \/ /\ w.answer.kind = "setting"
              /\ Panel(c, [rest EXCEPT !.enabled = w.answer.enabled, !.revision = w.answer.revision])
        /\ UNCHANGED stored

--------------------------------------------------------------------------------
(* The rules page *)

Page(p, value) == page' = [page EXCEPT ![p] = value] /\ UNCHANGED <<stored, card, panel>>

\* refreshRules.  `held': a write waits for it, and the buttons with it.
Loading(w, held) == [w EXCEPT !.loads = Append(@, [repo |-> w.repo, is |-> "asked", list |-> {}, held |-> held])]
CanLoad(w)       == Len(w.loads) < MaxLoads

Busy(w)   == Waits(w) \/ \E n \in DOMAIN w.loads : w.loads[n].held
Listed(w) == w.of = w.repo

\* The page is opened; a list that could not be loaded is asked for again.
Visit(p) == /\ page[p].of = None /\ CanLoad(page[p])
            /\ \A n \in DOMAIN page[p].loads : page[p].loads[n].is = "done"
            /\ Page(p, Loading(page[p], FALSE))

\* Another repository is selected, whatever is under way; a load is aborted.
Select(p, r) == /\ r # page[p].repo /\ CanLoad(page[p]) /\ page[p].loads # <<>>
                /\ LET aborted == [n \in DOMAIN page[p].loads |-> [page[p].loads[n] EXCEPT !.held = FALSE]]
                   IN  Page(p, Loading([page[p] EXCEPT !.repo = r, !.epoch = @ + 1, !.editing = None,
                                                       !.loads = aborted], FALSE))

\* list.
ServeList(p, n) ==
    /\ n \in DOMAIN page[p].loads /\ page[p].loads[n].is = "asked" /\ Open(page[p].loads[n].repo)
    /\ Page(p, [page[p] EXCEPT !.loads[n].is = "read",
                  !.loads[n].list = {[id |-> i, revision |-> rules[i].revision] : i \in Alive(page[p].loads[n].repo)}])

Done(l) == [l EXCEPT !.is = "done", !.list = {}, !.held = FALSE]

\* Mutant of PageShows: the answer is taken without a look at sequence or selection.
PageShowsAny(p, n) ==
    LET l == page[p].loads[n]
    IN  /\ n \in DOMAIN page[p].loads /\ l.is = "read"
        /\ Page(p, [page[p] EXCEPT !.list = l.list, !.of = page[p].repo, !.loads[n] = Done(l)])

\* The list is shown if it is the last one asked for.
PageShows(p, n) ==
    LET l == page[p].loads[n]
    IN  /\ n \in DOMAIN page[p].loads /\ l.is = "read"
        /\ n = Len(page[p].loads) /\ page[p].repo = l.repo
        /\ Page(p, [page[p] EXCEPT !.list = l.list, !.of = l.repo, !.loads[n] = Done(l)])

\* It fails: the rules are unavailable until the user retries.
LoadFails(p, n) ==
    /\ n \in DOMAIN page[p].loads /\ page[p].loads[n].is # "done" /\ n = Len(page[p].loads)
    /\ Page(p, [page[p] EXCEPT !.list = {}, !.of = None, !.loads[n] = Done(@)])

StartEdit(p, x) == /\ Listed(page[p]) /\ x \in page[p].list /\ ~Busy(page[p]) /\ page[p].editing # x
                   /\ Page(p, [page[p] EXCEPT !.editing = x])

CancelEdit(p) == page[p].editing # None /\ Page(p, [page[p] EXCEPT !.editing = None])

\* A request of the page: the content of the form, or none.
Send(p, kind, x, c) ==
    /\ ~Busy(page[p]) /\ Listed(page[p])
    /\ Page(p, [page[p] EXCEPT !.ask = [kind |-> kind, repo |-> page[p].repo, epoch |-> page[p].epoch,
                                        rule |-> x, is |-> c]])

\* submit: a new rule, or the form over the rule it was opened for.
Submit(p, c) == IF page[p].editing = None THEN Send(p, "create", None, c)
                                          ELSE Send(p, "edit", page[p].editing, c)

\* toggle, remove.
Press(p, x, kind) == x \in page[p].list /\ Send(p, kind, x, None)

\* create.
Create(r, c) ==
    IF Open(r) /\ Valid(c) /\ Cardinality(Alive(r)) < Limit
    THEN /\ Len(rules) < MaxRules
         /\ rules' = Append(rules, [repo |-> r, from |-> None, is |-> [c EXCEPT !.enabled = TRUE], revision |-> 0, alive |-> TRUE])
         /\ UNCHANGED <<active, finding, tombstone, workflow, setting>>
    ELSE UNCHANGED stored

\* Mutant of Update: an edit is taken for the rule as it is now.
UpdateBlindly(a, c) ==
    IF Open(a.repo) /\ a.rule.id \in Alive(a.repo) /\ Valid(c)
       /\ (rules[a.rule.id].from # None => ModelOnly(c))
    THEN /\ rules[a.rule.id].revision < MaxRevision
         /\ rules' = [rules EXCEPT ![a.rule.id].is = c, ![a.rule.id].revision = @ + 1]
         /\ UNCHANGED <<active, finding, tombstone, workflow, setting>>
    ELSE UNCHANGED stored

\* update: the revision, the rule as it becomes, its origin.
Update(a, c) ==
    IF /\ Open(a.repo) /\ a.rule.id \in Alive(a.repo)
       /\ rules[a.rule.id].revision = a.rule.revision
       /\ Valid(c) /\ (rules[a.rule.id].from # None => ModelOnly(c))
    THEN /\ a.rule.revision < MaxRevision
         /\ rules' = [rules EXCEPT ![a.rule.id].is = c, ![a.rule.id].revision = @ + 1]
         /\ UNCHANGED <<active, finding, tombstone, workflow, setting>>
    ELSE UNCHANGED stored

\* What a request makes of a rule: the form has no field for enabled, the toggle
\* nothing else.
Merged(a) == LET old == rules[a.rule.id].is
             IN  IF a.kind = "switch" THEN [old EXCEPT !.enabled = ~@] ELSE [a.is EXCEPT !.enabled = old.enabled]

\* remove.
Delete(a) ==
    IF /\ Open(a.repo) /\ a.rule.id \in Alive(a.repo)
       /\ rules[a.rule.id].revision = a.rule.revision
    THEN /\ rules' = [rules EXCEPT ![a.rule.id].alive = FALSE]
         /\ UNCHANGED <<active, finding, tombstone, workflow, setting>>
    ELSE UNCHANGED stored

\* The server handles the request of a page.
ServePage(p) ==
    LET a == page[p].ask
    IN  /\ Waits(page[p]) /\ ~Answered(page[p])
        /\ \/ a.kind = "create"             /\ Create(a.repo, a.is)
           \/ a.kind \in {"edit", "switch"} /\ Update(a, Merged(a))
           \/ a.kind = "remove"             /\ Delete(a)
        /\ page' = [page EXCEPT ![p].answer = IF rules' = rules THEN Error ELSE a]
        /\ UNCHANGED <<card, panel>>

\* The page hears: unless the selection moved on, success clears the form and loads
\* the list again; an error, or no answer, leaves both.
PageHears(p) ==
    LET w    == page[p]
        rest == [w EXCEPT !.ask = NoRequest, !.answer = NoRequest]
        form == IF \/ w.ask.kind \in {"create", "edit"}
                   \/ w.ask.kind = "remove" /\ w.editing # None /\ w.editing.id = w.ask.rule.id
                THEN None ELSE w.editing
    IN  /\ Answered(w)
        /\ \/ Page(p, rest)
           \/ /\ w.answer.kind # "error" /\ w.epoch = w.ask.epoch /\ CanLoad(w)
              /\ Page(p, Loading([rest EXCEPT !.editing = form], TRUE))

--------------------------------------------------------------------------------
(* The repository, and time *)

\* A later snapshot supersedes the finding, or ninety days pass.
Close(f) == /\ finding[f] = "current"
            /\ finding' = [finding EXCEPT ![f] = "closed"]
            /\ UNCHANGED <<active, tombstone, workflow, rules, setting, card, panel, page>>

\* The finding is older than the audit event of its rule.
AuditAges(f) == /\ tombstone[f] = "kept" /\ finding[f] # "current"
                /\ tombstone' = [tombstone EXCEPT ![f] = "old"]
                /\ UNCHANGED <<active, finding, workflow, rules, setting, card, panel, page>>

Fresh == [status |-> "OPEN", trail |-> <<>>]

\* The maintenance pass deletes old audit events, closed findings and with them
\* their workflow.
SweepAudit(f) == /\ tombstone[f] = "old"
                 /\ tombstone' = [tombstone EXCEPT ![f] = "none"]
                 /\ UNCHANGED <<active, finding, workflow, rules, setting, card, panel, page>>

SweepFinding(f) == /\ finding[f] = "closed" \/ (~active /\ finding[f] # "gone")
                   /\ finding' = [finding EXCEPT ![f] = "gone"]
                   /\ workflow' = [workflow EXCEPT ![f] = Fresh]
                   /\ UNCHANGED <<active, tombstone, rules, setting, card, panel, page>>

Leave == /\ active /\ active' = FALSE
         /\ UNCHANGED <<finding, tombstone, workflow, rules, setting, card, panel, page>>

\* clearRepositoryHistory.
Clear == /\ ~active /\ setting.revision < MaxRevision
         /\ finding' = [f \in Findings |-> "gone"]
         /\ workflow' = [f \in Findings |-> Fresh]
         /\ tombstone' = [f \in Findings |-> "none"]
         /\ setting' = [enabled |-> FALSE, revision |-> setting.revision + 1]
         /\ UNCHANGED <<active, rules, card, panel, page>>

Return == /\ ~active /\ active' = TRUE
          /\ UNCHANGED <<finding, tombstone, workflow, rules, setting, card, panel, page>>

Next ==
    \/ \E c \in Cards, f \in Findings :
          \/ Reload(c, f) \/ Propose(c, f) \/ Discard(c, f)
          \/ \E status \in Statuses : Transition(c, f, status)
          \/ \E text \in Texts, enabled \in BOOLEAN : ConfirmRule(c, f, text, enabled)
          \/ UpdateWorkflow(c, f) \/ SaveRule(c, f) \/ CardHears(c, f)
    \/ \E c \in Cards : Refresh(c) \/ Toggle(c) \/ UpdateAdaptation(c) \/ PanelHears(c)
    \/ \E p \in Pages :
          \/ Visit(p)
          \/ \E r \in Repositories : Select(p, r)
          \/ \E n \in 1..MaxLoads : ServeList(p, n) \/ PageShows(p, n) \/ LoadFails(p, n)
          \/ \E x \in page[p].list : StartEdit(p, x) \/ Press(p, x, "switch") \/ Press(p, x, "remove")
          \/ \E c \in {c \in Contents : c.enabled} : Submit(p, c)
          \/ CancelEdit(p) \/ ServePage(p) \/ PageHears(p)
    \/ \E f \in Findings : Close(f) \/ AuditAges(f) \/ SweepAudit(f) \/ SweepFinding(f)
    \/ Leave \/ Clear \/ Return

Spec == Init /\ [][Next]_vars

--------------------------------------------------------------------------------
(* Properties *)

\* Whatever was switched, edited and merged since, an enabled rule has what its mode
\* needs, one that came from a finding never becomes a pattern to execute, and a
\* repository stays within its limit.  And a finding gives rise to one rule in its life,
\* through repeated confirmations, two tabs, deletions and the expiry of the audit that
\* remembers them.  (validateRule, update, createRuleFromFinding, sweepHistoricalOnce.)
RulesSound == /\ \A i \in DOMAIN rules : /\ rules[i].is.mode # "DETERMINISTIC" => rules[i].is.guideline
                                         /\ rules[i].is.mode # "LLM" => rules[i].is.pattern
                                         /\ rules[i].from # None => ModelOnly(rules[i].is)
              /\ \A r \in Repositories : Cardinality(Alive(r)) <= Limit
              /\ \A i, k \in DOMAIN rules : rules[i].from = rules[k].from /\ rules[i].from # None => i = k

\* A rule changes or goes only at the hand of a page that was shown its present
\* revision, and a workflow moves only from the status and the revision its card shows,
\* whatever other tabs did and whichever answers were lost.  (RulesController update and
\* remove, updateWorkflow.)
NoBlindEdit ==
    [][/\ \A i \in DOMAIN rules : rules'[i] # rules[i] =>
             \E p \in Pages : /\ page[p].ask.kind \in {"edit", "switch", "remove"}
                              /\ page[p].ask.rule = [id |-> i, revision |-> rules[i].revision]
       /\ \A f \in Findings : Len(workflow'[f].trail) > Revision(f) =>
             \E c \in Cards : /\ card[c][f].ask.kind = "workflow"
                              /\ card[c][f].status = workflow[f].status
                              /\ card[c][f].revision = Revision(f)]_vars

\* What a page shows, edits and sends is of the repository it names, however its
\* selections, lists and writes overtake each other.  (rules page: sequence, epoch.)
PageTruthful == \A p \in Pages :
    LET w == page[p]
    IN  /\ Listed(w) => \A x \in w.list : rules[x.id].repo = w.repo
        /\ w.editing # None => rules[w.editing.id].repo = w.repo
        /\ w.ask.kind \in {"edit", "switch", "remove"} => rules[w.ask.rule.id].repo = w.ask.repo

\* A panel asks while it shows the setting as it is.
AsksAsItIs == \E c \in Cards : panel[c].ask.kind = "setting" /\ panel[c].revision = setting.revision

\* A consent is given for the setting as it is: the adaptation is not enabled by a
\* request of before it was changed or the repository disconnected.
\* (updateAdaptation, clearRepositoryHistory.)
ConsentIsFresh == [][setting'.enabled = TRUE /\ setting.enabled = FALSE => AsksAsItIs]_vars
===============================================================================
