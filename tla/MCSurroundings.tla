------------------------------ MODULE MCSurroundings ------------------------------
(***************************************************************************)
(* Small instances of what surrounds the life of a review: how reviews come   *)
(* in and who may see them, how one asks the model, scans and weighs, and what  *)
(* the browser shows.  A scenario, chosen once, says which of them moves and    *)
(* who takes part; the others rest.                                          *)
(***************************************************************************)
EXTENDS Surroundings, Inspection

CONSTANTS alice, bob, app1, app2, hook1, hook2, back1, back2, tab1, tab2, socket1, request1, Scenarios

VARIABLE scenario

coming == <<github, sent, install, rows, reviews, producer, seen, connecting, callback, claims, links>>
access == <<now, issued, cookie, revoked, leaving, out, socket, use>>
asking == <<change, policy, att, queue, row, asked>>
risk   == <<wanted, given, kept, gap, ci>>
scan   == <<config, world, contents, phase, checks, findings, lost>>
osv    == <<db, states, pending, batch, requests, ids, records, cursor, stopped, outcome>>
page   == <<server, ui, lists, details>>
draft  == <<review, head, drafts, card, calls>>
context == <<repo, listed, aliases, indexed, hops, line, best, dropped, shown, next, reasons, stage, status, tests>>
reading == <<diff, at, step, input, whole, filtered, found, check>>
health == <<backend, view, answers>>

\* A severity and INFO; an added line and one near it; one defect in two wordings, and another.
Levels   == 1..2
Defects  == {"query", "injection", "leak"}
Wordings == [issue \in Defects |-> IF issue = "injection" THEN 2 ELSE 1]
Alike(a, b) == a # "leak" /\ b # "leak"
Points   == <<30, 15, 0>>

Dependencies == <<"a", "b", "c">>

\* A push to one repository, then a pull request of another.
Past        == <<"push", "pull">>
RepoOf      == [j \in {"push", "pull"} |-> IF j = "push" THEN "b" ELSE "a"]
RequestOf   == [j \in {"push", "pull"} |-> IF j = "push" THEN None ELSE "five"]
Connected      == <<"a", "b">>

\* Two files, a test of the first in another package and one in its own, which is a barrel.
Paths == 1..4
Checkout(edges, changed, gone) ==
    [imports |-> [f \in 1..4 |-> {g \in 1..4 : <<f, g>> \in edges}], changed |-> changed, gone |-> gone]
Edges    == {e \in (1..4) \X (1..4) : e[1] # e[2]}
Graphs   == {Checkout(edges, changed, FALSE) : edges \in SUBSET Edges, changed \in {{1}, {1, 4}}}
Partials == {Checkout({d, e}, {1}, gone) : d \in {e \in Edges : 1 \in {e[1], e[2]}}, e \in Edges, gone \in BOOLEAN}
Checkouts    == Graphs \cup Partials
PackageOf(f) == IF f = 3 THEN "q" ELSE "p"
TestsOf(f)   == IF f = 1 THEN <<4, 3>> ELSE <<>>
ByAlias      == {<<1, 2>>, <<2, 1>>}
ByRoot       == {<<1, 2>>}

\* A manifest, a name in quotes, a source file and a manifest that is ignored.
Diffed == <<"package", "quoted", "source", "lockfile">>

ASSUME InstancesFit == /\ C!ContextConstants /\ L!DiffConstants /\ O!LookupConstants
                       /\ W!AskConstants /\ D!DraftConstants /\ R!RiskConstants

-------------------------------------------------------------------------------
(* Reviews come in *)

\* Nobody but alice; nothing happens at GitHub.
Quiet == [users |-> {alice}, apps |-> {}, producers |-> {}, hooks |-> {FALSE}, kinds |-> {}, heads |-> 1,
          faults |-> 0, rows |-> 1, reviews |-> 2, headless |-> FALSE]

\* Deliveries, lost, repeated and concurrent; a manual request beside them; those of an
\* App, and without a head ("none"); the poller and its failures; two accounts that connect
\* and install; the poller and the hook of one connection.
Scenario(name) ==
    CASE name = "webhook" -> [Quiet EXCEPT !.producers = {hook1, hook2}, !.hooks = {TRUE},
                                           !.kinds = {"PULL_REQUEST"}, !.heads = 3, !.reviews = 3,
                                           !.headless = TRUE, !.faults = 1]
      [] name = "manual"  -> [Quiet EXCEPT !.producers = {hook1, Manual}, !.hooks = {TRUE},
                                           !.kinds = {"PULL_REQUEST"}, !.heads = 2, !.faults = 1]
      [] name = "app"     -> [Quiet EXCEPT !.producers = {hook1, hook2}, !.apps = {app1}, !.hooks = {},
                                           !.kinds = {"PUSH"}, !.heads = 2]
      [] name = "none"    -> [Quiet EXCEPT !.producers = {hook1, hook2}, !.apps = {app1}, !.hooks = {}, !.headless = TRUE]
      [] name = "poller"  -> [Quiet EXCEPT !.producers = {Poller}, !.kinds = {"PUSH", "PULL_REQUEST"},
                                           !.heads = 2, !.faults = 1]
      [] name = "owners"  -> [Quiet EXCEPT !.users = {alice, bob}, !.apps = {app1, app2}, !.rows = 2]
      [] name = "both"    -> [Quiet EXCEPT !.producers = {hook1, Poller}, !.hooks = BOOLEAN,
                                           !.kinds = {"PUSH"}, !.heads = 2]

Within(s) ==
    /\ \A p \in Producers : p \in s.producers \/ producer'[p] = Idle
    /\ \A i \in {app1, app2} : i \in s.apps \/ install'[i].creator = None
    /\ \A u \in {alice, bob} \ s.users : connecting'[u] = NoConnect /\ \A i \in s.apps : install'[i].creator # u
    /\ \A k \in {"PUSH", "PULL_REQUEST"} : github'[k] <= (IF k \in s.kinds THEN s.heads ELSE 1)
    /\ \A r \in DOMAIN rows' : rows'[r].via # None \/ ~rows'[r].active \/ rows'[r].hook \in s.hooks
    /\ Len(rows') <= s.rows /\ Len(reviews') <= s.reviews /\ faults' <= s.faults
    /\ s.headless \/ \A d \in sent' : d.sha # 0
    /\ s.apps = {} => claims' = <<>>

Intakes == {"webhook", "manual", "app", "none", "poller", "owners", "both"}

-------------------------------------------------------------------------------
(* The others *)

\* One that rests has no state: its scenario is another.
Begin ==
    /\ scenario \in Scenarios
    /\ Init
    /\ IF scenario = "session" THEN A!Init
       ELSE /\ now = None /\ issued = None /\ cookie = None /\ revoked = None
            /\ leaving = None /\ out = None /\ socket = None /\ use = None
    /\ IF scenario = "ask" THEN W!Init
       ELSE change = None /\ policy = None /\ att = None /\ queue = None /\ row = None /\ asked = None
    /\ CASE scenario = "merge" -> R!Init /\ gap = None /\ wanted.least = 3
         [] scenario = "gap"   -> R!Init /\ gap # None /\ gap.points = 2 /\ wanted.secretBlocks
         [] OTHER              -> wanted = None /\ given = None /\ kept = None /\ gap = None /\ ci = None
    /\ IF scenario = "scan" THEN S!Init /\ (config["dependencies"] => ~config["sast"] /\ ~config["secrets"])
       ELSE /\ config = None /\ world = None /\ contents = None /\ phase = None
            /\ checks = None /\ findings = None /\ lost = None
    /\ IF scenario = "osv" THEN O!Init
       ELSE /\ db = None /\ states = None /\ pending = None /\ batch = None /\ requests = None /\ ids = None
            /\ records = None /\ cursor = None /\ stopped = None /\ outcome = None
    /\ CASE scenario = "browse" -> H!Init /\ \A j \in DOMAIN server : server[j] = "done"
         [] scenario = "watch"  -> H!Init /\ \E j \in DOMAIN server : server[j] = "done"
         [] OTHER               -> server = None /\ ui = None /\ lists = None /\ details = None
    /\ IF scenario \in {"walk", "index"} THEN C!Init /\ (scenario = "walk" => repo \in Graphs)
       ELSE /\ repo = None /\ listed = None /\ aliases = None /\ indexed = None /\ hops = None
            /\ line = None /\ best = None /\ dropped = None /\ shown = None /\ next = None
            /\ reasons = None /\ stage = None /\ status = None /\ tests = None
    /\ IF scenario = "reading" THEN L!Init
       ELSE /\ diff = None /\ at = None /\ step = None /\ input = None
            /\ whole = None /\ filtered = None /\ found = None /\ check = None
    /\ IF scenario = "health" THEN E!Init ELSE backend = None /\ view = None /\ answers = None
    /\ D!Init /\ review.kind = (IF scenario = "card" THEN "PULL_REQUEST" ELSE "PUSH")

\* Three serious findings are merged; one of any kind is weighed with a missing test.
Merging == IF scenario = "merge" THEN \A f \in given' : f.severity <= 2 /\ f.source # "RULES" ELSE Cardinality(given') <= 1

\* One thing about an answer of the model is odd.
Asking == asked' # None => LET a == asked'.answer IN
              a # None => /\ a.stop = "completed" \/ (~a.refused /\ a.shape = "list")
                          /\ ~a.refused \/ a.shape = "list"

\* Nothing runs while the user browses; he does not browse while something runs.
Watching == IF scenario = "browse" THEN server' = server ELSE ui'.repo = None /\ Len(details') <= 1

\* A repository and the last review stay, the other repository may go when all findings are serious.
Healthy == /\ "a" \in backend'.active /\ view'.scope # "a"
           /\ backend'.captured # <<>> \/ backend.captured = <<>>
           /\ "b" \in backend'.active \/ \A i \in DOMAIN backend'.captured : backend'.captured[i].critical

\* Two tabs with the card of one scenario; or one tab, and new commits of a pull request.
Carding == IF scenario = "tabs" THEN head' = 1 /\ \A t \in {tab1, tab2} : card'[t].of \in {None, "first"}
           ELSE card'[tab2].of = None /\ Len(drafts') <= 1

\* Every graph with nothing lost; or two imports, and one thing that goes wrong.
Selecting == IF scenario = "walk" THEN reasons' = {} /\ stage' # "rank" /\ aliases' # "lost"
             ELSE repo \in Partials /\ Cardinality(reasons') <= 1

\* Two files, two hunks, one mark; nothing in quotes; the cut near the end.
Reading ==
    LET Printed(kind) == Cardinality({i \in DOMAIN diff' : diff'[i].kind = kind}) IN
    /\ Printed("git") <= 2 /\ Printed("hunk") <= 2 /\ Printed("mark") <= 1
    /\ step = "print" => L!Plain'
    /\ (step = "print" /\ step' = "filter") => Len(input') + 1 >= Len(diff)

Acting ==
    \/ scenario \in Intakes /\ Next /\ Within(Scenario(scenario)) /\ UNCHANGED <<access, asking, risk, scan, osv, page, draft, context, reading, health>>
    \/ scenario = "session" /\ A!Next /\ UNCHANGED <<coming, asking, risk, scan, osv, page, draft, context, reading, health>>
    \/ scenario = "ask" /\ W!Next /\ Asking /\ UNCHANGED <<coming, access, risk, scan, osv, page, draft, context, reading, health>>
    \/ scenario \in {"merge", "gap"} /\ R!Next /\ Merging /\ UNCHANGED <<coming, access, asking, scan, osv, page, draft, context, reading, faults, health>>
    \/ scenario = "scan" /\ S!Next /\ UNCHANGED <<coming, access, asking, risk, osv, page, draft, context, reading, faults, health>>
    \/ scenario = "osv" /\ O!Next /\ UNCHANGED <<coming, access, asking, risk, scan, page, draft, context, reading, faults, health>>
    \/ scenario \in {"browse", "watch"} /\ H!Next /\ Watching /\ UNCHANGED <<coming, access, asking, risk, scan, osv, draft, context, reading, faults, health>>
    \/ scenario \in {"tabs", "card"} /\ D!Next /\ Carding /\ UNCHANGED <<coming, access, asking, risk, scan, osv, page, context, reading, faults, health>>
    \/ scenario \in {"walk", "index"} /\ C!Next /\ Selecting /\ UNCHANGED <<coming, access, asking, risk, scan, osv, page, draft, reading, faults, health>>
    \/ scenario = "reading" /\ L!Next /\ Reading /\ UNCHANGED <<coming, access, asking, risk, scan, osv, page, draft, context, faults, health>>
    \/ scenario = "health" /\ E!Next /\ Healthy /\ UNCHANGED <<coming, access, asking, risk, scan, osv, page, draft, context, reading, faults>>

vars == <<coming, access, asking, risk, scan, osv, page, draft, context, reading, health, faults, scenario>>

MCSpec == Begin /\ [][Acting /\ UNCHANGED scenario]_vars
=============================================================================
