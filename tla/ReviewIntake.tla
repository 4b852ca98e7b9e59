------------------------------- MODULE ReviewIntake -------------------------------
(***************************************************************************)
(* How reviews of one GitHub repository come to be.  Users connect it, by    *)
(* hand or by installing the App; GitHub announces commits, the poller looks *)
(* for them, and a user asks for a review.  Each of the three producers      *)
(* takes the same steps, between which the others and the owners act.       *)
(*                                                                         *)
(* What becomes of a queued review is ReviewLifecycle's; here a review rests *)
(* once it is queued, and a disconnect cancels it.  All reviews are private, *)
(* so that each one counts against the month's limit.                       *)
(***************************************************************************)
EXTENDS Naturals, Sequences, FiniteSets

CONSTANTS None, Users, Installs, Handlers, Callbacks,
          Limit,                                     \* FREE_TIER_PRIVATE_LIMIT
          MaxSha, MaxRows, MaxReviews, MaxFaults, MaxClaims

VARIABLES
    github,      \* the newest commit of the branch and of the pull request; is there a hook
    sent,        \* the deliveries GitHub made: each may arrive late, again, or never
    install,     \* of an App installation: is it there, who made it, who owns it here
    rows,        \* the connections of the repository, in the order they were made
    reviews,     \* the reviews, in the order they were made
    producer,    \* a webhook handler, the poller or a manual request: its next step
    seen,        \* the head of the pull request the poller keeps in Redis, per connection
    connecting,  \* of a user: the connection `register' found
    callback,    \* a request that completes an installation: its next step
    claims,      \* the installation states handed out: whose, and is it still there
    links,       \* how often a transaction linked an installation (ghost)
    faults

ASSUME IntakeAssumption == /\ None \notin Users \cup Installs
                           /\ Handlers \cap {"poller", "manual"} = {}
                           /\ MaxRows \in Nat

intake == <<github, sent, install, rows, reviews, producer, seen, connecting, callback, claims, links, faults>>

Poller    == "poller"
Manual    == "manual"
Producers == Handlers \cup {Poller, Manual}
Kinds     == {"PUSH", "PULL_REQUEST"}
Idle      == [pc |-> "idle"]
NoConnect == [pc |-> "idle", row |-> 0]
Row(u, via, hook) == [user |-> u, via |-> via, active |-> TRUE, hook |-> hook, scanned |-> 0, baseline |-> 0]

Init == /\ github = [PUSH |-> 1, PULL_REQUEST |-> 1, hooked |-> FALSE]
        /\ sent = {} /\ rows = <<>> /\ reviews = <<>> /\ claims = <<>> /\ links = 0 /\ faults = 0
        /\ install = [i \in Installs |-> [there |-> FALSE, creator |-> None, owner |-> None]]
        /\ producer = [p \in Producers |-> Idle]
        /\ seen = [r \in 1..MaxRows |-> 0]
        /\ connecting = [u \in Users |-> NoConnect]
        /\ callback = [c \in Callbacks |-> Idle]

Charged == {i \in DOMAIN reviews : reviews[i].charged}
Known(w) == \E i \in DOMAIN reviews : /\ reviews[i].row = w.row /\ reviews[i].kind = w.kind
                                      /\ w.sha # 0 /\ reviews[i].sha = w.sha
Work(pc, r, kind, sha, base) == [pc |-> pc, row |-> r, kind |-> kind, sha |-> sha, base |-> base,
                                 via |-> rows[r].via, review |-> 0]
Review(w, status) == [row |-> w.row, kind |-> w.kind, sha |-> w.sha, base |-> w.base,
                      status |-> status, charged |-> FALSE, queued |-> FALSE]
To(p, work) == producer' = [producer EXCEPT ![p] = work]
\* The poller goes on to remember the head; the others have answered.
Leave(p) == To(p, IF p = Poller THEN [producer[p] EXCEPT !.pc = "remember"] ELSE Idle)

----------------------------------------------------------------------------
(* GitHub *)

Sources == {i \in Installs : install[i].there} \cup (IF github.hooked THEN {None} ELSE {})

Commit(kind) ==
    /\ github[kind] < MaxSha
    /\ github' = [github EXCEPT ![kind] = @ + 1]
    /\ sent' = sent \cup {[kind |-> kind, sha |-> github[kind] + 1, via |-> v] : v \in Sources}
    /\ UNCHANGED <<install, rows, reviews, producer, seen, connecting, callback, claims, links, faults>>

\* A payload without a resolvable head.
CommitHeadless ==
    /\ sent' = sent \cup {[kind |-> "PULL_REQUEST", sha |-> 0, via |-> v] : v \in Sources}
    /\ UNCHANGED <<github, install, rows, reviews, producer, seen, connecting, callback, claims, links, faults>>

----------------------------------------------------------------------------
(* The webhook *)

Matching(via) == {r \in DOMAIN rows : rows[r].active /\ rows[r].via = via}

Deliver(h, d) ==
    /\ producer[h] = Idle /\ d \in sent
    /\ \/ \E r \in Matching(d.via) :
              /\ Matching(d.via) = {r}
              /\ To(h, Work(IF d.sha = 0 THEN "decline" ELSE "quota", r, d.kind, d.sha, d.sha - 1))
       \/ /\ Matching(d.via) = {} /\ d.via # None
          /\ To(h, [pc |-> "adopt", delivery |-> d])
    /\ UNCHANGED <<github, sent, install, rows, reviews, seen, connecting, callback, claims, links, faults>>

\* An installation that is linked adopts the repository, whatever the delivery is about:
\* its owner is read, and then the connection is made.
Adopt(h) ==
    /\ producer[h].pc = "adopt"
    /\ LET d == producer[h].delivery
           i == install[d.via]
       IN To(h, IF i.there /\ i.owner # None THEN [pc |-> "register", delivery |-> d, user |-> i.owner] ELSE Idle)
    /\ UNCHANGED <<github, sent, install, rows, reviews, seen, connecting, callback, claims, links, faults>>

\* The index has one place for the repository in an installation; a connection another delivery
\* made, or one its owner has ended, holds it.  Then, or without the installation: 500.
Free(i, r) == \A q \in DOMAIN rows : q # r => rows[q].via # i

Register(h) ==
    LET w == producer[h]  d == w.delivery IN
    /\ w.pc = "register"
    /\ IF install[d.via].there /\ Free(d.via, 0)
       THEN /\ Len(rows) < MaxRows
            /\ rows' = Append(rows, Row(w.user, d.via, FALSE))
            /\ To(h, [pc |-> IF d.sha = 0 THEN "decline" ELSE "quota", row |-> Len(rows) + 1, kind |-> d.kind,
                      sha |-> d.sha, base |-> d.sha - 1, via |-> d.via, review |-> 0])
       ELSE To(h, Idle) /\ UNCHANGED rows
    /\ UNCHANGED <<github, sent, install, reviews, seen, connecting, callback, claims, links, faults>>

\* Without a head there is nothing to identify the review by: it is recorded, never queued.
Decline(h) ==
    /\ producer[h].pc = "decline" /\ Len(reviews) < MaxReviews
    /\ reviews' = Append(reviews, Review(producer[h], "SKIPPED"))
    /\ To(h, Idle)
    /\ UNCHANGED <<github, sent, install, rows, seen, connecting, callback, claims, links, faults>>

CheckQuota(h) ==
    /\ producer[h].pc = "quota"
    /\ To(h, IF Cardinality(Charged) < Limit THEN [producer[h] EXCEPT !.pc = "insert"]
             ELSE IF Known(producer[h]) THEN Idle ELSE [producer[h] EXCEPT !.pc = "refuse"])
    /\ UNCHANGED <<github, sent, install, rows, reviews, seen, connecting, callback, claims, links, faults>>

Refuse(h) ==
    /\ producer[h].pc = "refuse" /\ Len(reviews) < MaxReviews
    /\ reviews' = IF Known(producer[h]) THEN reviews ELSE Append(reviews, Review(producer[h], "SKIPPED"))
    /\ To(h, Idle)
    /\ UNCHANGED <<github, sent, install, rows, seen, connecting, callback, claims, links, faults>>

----------------------------------------------------------------------------
(* What the three producers share: the row, the reservation, the queue *)

\* A plausible bug: the review is stored without its commit.
InsertUnidentified(p) ==
    LET w == producer[p] IN
    /\ w.pc = "insert" /\ Len(reviews) < MaxReviews
    /\ reviews' = Append(reviews, Review(w, "QUEUED"))
    /\ To(p, [w EXCEPT !.pc = "reserve", !.review = Len(reviews) + 1])
    /\ UNCHANGED <<github, sent, install, rows, seen, connecting, callback, claims, links, faults>>

\* The unique index decides what has been reviewed; a manual review (sha 0) never collides.
Insert(p) ==
    LET w == producer[p] IN
    /\ w.pc = "insert"
    /\ IF Known(w)
       THEN Leave(p) /\ UNCHANGED reviews
       ELSE /\ Len(reviews) < MaxReviews
            /\ reviews' = Append(reviews, Review(w, "QUEUED"))
            /\ To(p, [w EXCEPT !.pc = "reserve", !.review = Len(reviews) + 1])
    /\ UNCHANGED <<github, sent, install, rows, seen, connecting, callback, claims, links, faults>>

\* Throws when the owner has disconnected, or the connection changed, since it was read.
Reserve(p) ==
    LET w == producer[p] IN
    /\ w.pc = "reserve"
    /\ LET free == rows[w.row].active /\ rows[w.row].via = w.via /\ reviews[w.review].status = "QUEUED"
       IN CASE ~free -> To(p, Idle) /\ UNCHANGED reviews
            [] free /\ Cardinality(Charged) < Limit ->
                  /\ reviews' = [reviews EXCEPT ![w.review].charged = TRUE]
                  /\ To(p, [w EXCEPT !.pc = "enqueue"])
            [] OTHER -> reviews' = [reviews EXCEPT ![w.review].status = "SKIPPED"] /\ Leave(p)
    /\ UNCHANGED <<github, sent, install, rows, seen, connecting, callback, claims, links, faults>>

Enqueue(p) ==
    /\ producer[p].pc = "enqueue"
    /\ reviews' = [reviews EXCEPT ![producer[p].review].queued = TRUE]
    /\ Leave(p)
    /\ UNCHANGED <<github, sent, install, rows, seen, connecting, callback, claims, links, faults>>

\* A call to the database, to Redis or to GitHub rejects, or the process ends: the
\* webhook answers 500, the poller gives up on the repository until its next tick.
Fail(p) ==
    /\ producer[p] # Idle /\ faults < MaxFaults
    /\ faults' = faults + 1
    /\ To(p, Idle)
    /\ UNCHANGED <<github, sent, install, rows, reviews, seen, connecting, callback, claims, links>>

RequestReview(r, kind) ==
    /\ producer[Manual] = Idle /\ rows[r].active
    /\ To(Manual, Work("insert", r, kind, 0, 0))
    /\ UNCHANGED <<github, sent, install, rows, reviews, seen, connecting, callback, claims, links, faults>>

----------------------------------------------------------------------------
(* The poller: connections without a hook and without an installation *)

PollStart(r) ==
    /\ producer[Poller] = Idle
    /\ rows[r].active /\ ~rows[r].hook /\ rows[r].via = None
    /\ To(Poller, Work("head", r, "PUSH", 0, rows[r].scanned))
    /\ UNCHANGED <<github, sent, install, rows, reviews, seen, connecting, callback, claims, links, faults>>

\* A plausible bug: the head is remembered before its review is queued.
RememberFirst ==
    LET w == producer[Poller] IN
    /\ w.pc = "head"
    /\ rows' = [rows EXCEPT ![w.row].scanned = github.PUSH,
                            ![w.row].baseline = IF @ = 0 THEN github.PUSH ELSE @]
    /\ To(Poller, [w EXCEPT !.sha = github.PUSH,
                            !.pc = IF w.base \in {0, github.PUSH} THEN "pulls" ELSE "insert"])
    /\ UNCHANGED <<github, sent, install, reviews, seen, connecting, callback, claims, links, faults>>

\* The first sighting of the branch is a baseline.
PollHead ==
    LET w == producer[Poller] IN
    /\ w.pc = "head"
    /\ To(Poller, [w EXCEPT !.sha = github.PUSH,
                            !.pc = CASE w.base = github.PUSH -> "pulls"
                                     [] w.base = 0 -> "remember"
                                     [] OTHER -> "insert"])
    /\ UNCHANGED <<github, sent, install, rows, reviews, seen, connecting, callback, claims, links, faults>>

PollPulls ==
    LET w == producer[Poller] IN
    /\ w.pc = "pulls"
    /\ To(Poller, IF seen[w.row] = github.PULL_REQUEST THEN Idle
                  ELSE [w EXCEPT !.kind = "PULL_REQUEST", !.sha = github.PULL_REQUEST, !.pc = "insert"])
    /\ UNCHANGED <<github, sent, install, rows, reviews, seen, connecting, callback, claims, links, faults>>

Remember ==
    LET w == producer[Poller] IN
    /\ w.pc = "remember"
    /\ IF w.kind = "PUSH"
       THEN /\ rows' = [rows EXCEPT ![w.row].scanned = w.sha,
                                    ![w.row].baseline = IF @ = 0 THEN w.sha ELSE @]
            /\ To(Poller, [w EXCEPT !.pc = "pulls"])
            /\ UNCHANGED seen
       ELSE /\ seen' = [seen EXCEPT ![w.row] = w.sha]
            /\ To(Poller, Idle)
            /\ UNCHANGED rows
    /\ UNCHANGED <<github, sent, install, reviews, connecting, callback, claims, links, faults>>

\* POLLER_CACHE_TTL_SECONDS
Forget(r) ==
    /\ seen[r] # 0
    /\ seen' = [seen EXCEPT ![r] = 0]
    /\ UNCHANGED <<github, sent, install, rows, reviews, producer, connecting, callback, claims, links, faults>>

----------------------------------------------------------------------------
(* Connecting by hand, and disconnecting *)

\* Cancelled reviews give their charge back.
Cancelled(rs) == [i \in DOMAIN reviews |->
                    IF reviews[i].row \in rs /\ reviews[i].status = "QUEUED"
                    THEN [reviews[i] EXCEPT !.status = "CANCELLED", !.charged = FALSE] ELSE reviews[i]]

OwnsInstallation(u, r) == rows[r].via = None \/ install[rows[r].via].owner = u

\* 409 when it is connected, or held by another account.
FindConnection(u) ==
    /\ connecting[u] = NoConnect
    /\ LET mine == {r \in DOMAIN rows : rows[r].user = u} IN
       \E r \in IF mine = {} THEN {0} ELSE {q \in mine : ~rows[q].active /\ OwnsInstallation(u, q)} :
          /\ rows = <<>> \/ \E q \in DOMAIN rows : q = r \/ rows[q].user = u
          /\ connecting' = [connecting EXCEPT ![u] = [pc |-> "write", row |-> r]]
    /\ UNCHANGED <<github, sent, install, rows, reviews, producer, seen, callback, claims, links, faults>>

\* GitHub installs a hook where it can reach the backend.
Connect(u, hook) ==
    LET r == connecting[u].row IN
    /\ connecting[u].pc = "write"
    /\ IF r # 0 THEN rows' = [rows EXCEPT ![r].active = TRUE, ![r].hook = hook]
       ELSE Len(rows) < MaxRows /\ rows' = Append(rows, Row(u, None, hook))
    /\ github' = [github EXCEPT !.hooked = @ \/ hook]
    /\ connecting' = [connecting EXCEPT ![u] = NoConnect]
    /\ UNCHANGED <<sent, install, reviews, producer, seen, callback, claims, links, faults>>

\* Removing the hook at GitHub may fail.
Disconnect(r) ==
    /\ rows' = [rows EXCEPT ![r].active = FALSE, ![r].hook = FALSE]
    /\ \E there \in {FALSE, github.hooked} : github' = [github EXCEPT !.hooked = there]
    /\ reviews' = Cancelled({r})
    /\ UNCHANGED <<sent, install, producer, seen, connecting, callback, claims, links, faults>>

----------------------------------------------------------------------------
(* The GitHub App *)

StartInstall(u) ==
    /\ Len(claims) < MaxClaims
    /\ claims' = Append(claims, [user |-> u, open |-> TRUE])
    /\ UNCHANGED <<github, sent, install, rows, reviews, producer, seen, connecting, callback, links, faults>>

Expire(k) ==
    /\ claims[k].open
    /\ claims' = [claims EXCEPT ![k].open = FALSE]
    /\ UNCHANGED <<github, sent, install, rows, reviews, producer, seen, connecting, callback, links, faults>>

\* The signed event names the account that installed the App; the owner of the
\* repository has one installation at a time, and GitHub uses an id once.
Installed(i, u) ==
    /\ install[i].creator = None /\ \A j \in Installs : ~install[j].there
    /\ install' = [install EXCEPT ![i] = [there |-> TRUE, creator |-> u, owner |-> None]]
    /\ UNCHANGED <<github, sent, rows, reviews, producer, seen, connecting, callback, claims, links, faults>>

\* Deleting the installation sets the link of its connections to null.
Uninstalled(i) ==
    LET its == {r \in DOMAIN rows : rows[r].via = i} IN
    /\ install[i].there
    /\ install' = [install EXCEPT ![i].there = FALSE, ![i].owner = None]
    /\ rows' = [r \in DOMAIN rows |-> IF r \in its THEN [rows[r] EXCEPT !.active = FALSE, !.via = None]
                                      ELSE rows[r]]
    /\ reviews' = Cancelled(its)
    /\ UNCHANGED <<github, sent, producer, seen, connecting, callback, claims, links, faults>>

\* The rows after u's repository is linked to installation i: `existing' is whichever
\* connection of the repository the database finds first.
Own(u, i, r)     == rows[r].user = u /\ rows[r].via \in {None, i}
Foreign(u, i, r) == ~Own(u, i, r) /\ rows[r].via = i
\* A plausible bug: whichever connection is found first moves to the new owner.
LinkWhateverIsFound(u, i, r) ==
    IF r # 0 THEN {[rows EXCEPT ![r].active = TRUE, ![r].via = i, ![r].user = u]}
    ELSE {Append(rows, Row(u, i, FALSE))}

\* No set of rows: refused, or rolled back.
LinkedRows(u, i, r) ==
    CASE r # 0 /\ Own(u, i, r) /\ Free(i, r) -> {[rows EXCEPT ![r].active = TRUE, ![r].via = i]}
      [] (r = 0 \/ ~(Own(u, i, r) \/ Foreign(u, i, r))) /\ Free(i, 0) -> {Append(rows, Row(u, i, FALSE))}
      [] OTHER -> {}

First == IF rows = <<>> THEN {0} ELSE DOMAIN rows

\* The browser's installation id is believed only when GitHub named this account.
Confirmed(k, i) == install[i].there /\ install[i].creator = claims[k].user

CheckCallback(c, k, i) ==
    /\ callback[c] = Idle /\ claims[k].open /\ Confirmed(k, i)
    /\ callback' = [callback EXCEPT ![c] = [pc |-> "link", claim |-> k, app |-> i]]
    /\ UNCHANGED <<github, sent, install, rows, reviews, producer, seen, connecting, claims, links, faults>>

\* A plausible bug: the state is deleted without asking whether it was still there.
LinkAgain(c) ==
    /\ callback[c].pc = "link"
    /\ LET b == callback[c]  u == claims[b.claim].user IN
       \E r \in First : \E after \in LinkedRows(u, b.app, r) :
          /\ install[b.app].there /\ Len(after) <= MaxRows
          /\ claims' = [claims EXCEPT ![b.claim].open = FALSE]
          /\ install' = [install EXCEPT ![b.app].owner = u]
          /\ rows' = after /\ links' = links + 1
    /\ callback' = [callback EXCEPT ![c] = Idle]
    /\ UNCHANGED <<github, sent, reviews, producer, seen, connecting, faults>>

\* One transaction: the state is consumed, the installation linked, and the repository
\* connected if the list read at GitHub before has it.
Link(c) ==
    /\ callback[c].pc = "link"
    /\ callback' = [callback EXCEPT ![c] = Idle]
    /\ LET b == callback[c]  u == claims[b.claim].user IN
       \E r \in First, listed \in BOOLEAN :
         LET after == IF ~(claims[b.claim].open /\ install[b.app].there) THEN {}
                      ELSE IF listed THEN LinkedRows(u, b.app, r) ELSE {rows}
         IN IF after = {} THEN UNCHANGED <<claims, install, rows, links>>
            ELSE /\ claims' = [claims EXCEPT ![b.claim].open = FALSE]
                 /\ install' = [install EXCEPT ![b.app].owner = u]
                 /\ rows' \in {a \in after : Len(a) <= MaxRows} /\ links' = links + 1
    /\ UNCHANGED <<github, sent, reviews, producer, seen, connecting, faults>>

\* The owner the event reads is still the owner when it writes, or the installation is
\* gone and the write fails: one step.
RepositoryAdded(i) ==
    /\ install[i].there /\ install[i].owner # None
    /\ \E r \in First : rows' \in {a \in LinkedRows(install[i].owner, i, r) : Len(a) <= MaxRows}
    /\ UNCHANGED <<github, sent, install, reviews, producer, seen, connecting, callback, claims, links, faults>>

RepositoryRemoved(i) ==
    LET its == {r \in DOMAIN rows : rows[r].via = i} IN
    /\ install[i].there
    /\ rows' = [r \in DOMAIN rows |-> [rows[r] EXCEPT !.active = @ /\ r \notin its]]
    /\ reviews' = Cancelled(its)
    /\ UNCHANGED <<github, sent, install, producer, seen, connecting, callback, claims, links, faults>>

----------------------------------------------------------------------------

Produce(p) == Insert(p) \/ Reserve(p) \/ Enqueue(p) \/ Fail(p)
Webhook(h) == (\E d \in sent : Deliver(h, d)) \/ Adopt(h) \/ Register(h) \/ Decline(h) \/ CheckQuota(h) \/ Refuse(h)
Poll       == (\E r \in DOMAIN rows : PollStart(r) \/ Forget(r)) \/ PollHead \/ PollPulls \/ Remember
Owners     == \/ \E u \in Users : FindConnection(u) \/ StartInstall(u) \/ \E hook \in BOOLEAN : Connect(u, hook)
              \/ \E r \in DOMAIN rows : Disconnect(r) \/ \E kind \in Kinds : RequestReview(r, kind)
              \/ \E i \in Installs : Uninstalled(i) \/ RepositoryAdded(i) \/ RepositoryRemoved(i)
              \/ \E i \in Installs, u \in Users : Installed(i, u)
              \/ \E k \in DOMAIN claims : Expire(k)
              \/ \E c \in Callbacks : Link(c) \/ \E k \in DOMAIN claims, i \in Installs : CheckCallback(c, k, i)

Next == \/ \E kind \in Kinds : Commit(kind)
        \/ CommitHeadless
        \/ \E p \in Producers : Produce(p)
        \/ \E h \in Handlers : Webhook(h)
        \/ Poll
        \/ Owners

Spec == Init /\ [][Next]_intake

----------------------------------------------------------------------------

\* A commit of a connection is charged at most once, however often GitHub delivers it and
\* the poller sees it.
OneReviewPerHead ==
    \A i, j \in Charged :
        /\ reviews[i].row = reviews[j].row /\ reviews[i].kind = reviews[j].kind
        /\ reviews[i].sha = reviews[j].sha /\ reviews[i].sha # 0
        => i = j

\* While GitHub announces nothing, every commit between the baseline and the head that the poller
\* remembers lies in the range of a review row it made, queued or not: a failed tick is caught up, never skipped.
PollerLeavesNoGap ==
    sent = {} => \A r \in DOMAIN rows : \A s \in (rows[r].baseline + 1)..rows[r].scanned :
        \E i \in DOMAIN reviews : /\ reviews[i].row = r /\ reviews[i].kind = "PUSH"
                                  /\ reviews[i].base < s /\ s <= reviews[i].sha

\* An installation belongs to nobody or to the account GitHub named as its maker, and a
\* state handed to a browser links at most once, however many callbacks carry it.
LinkedByInstaller ==
    /\ \A i \in Installs : install[i].owner \in {None, install[i].creator}
    /\ links <= Cardinality({k \in DOMAIN claims : ~claims[k].open})

\* Neither an installation nor a connection passes from one account to another, and a
\* connection joins only an installation of its own account, at the link, an event or a
\* delivery: what arrives through an installation is never charged to another account.
InstallationsStay == \A i \in Installs : install[i].owner # None => install'[i].owner \in {None, install[i].owner}
ConnectionsStay ==
    \A r \in DOMAIN rows' : LET before == IF r \in DOMAIN rows THEN rows[r].via ELSE None IN
          /\ r \in DOMAIN rows => rows'[r].user = rows[r].user
          /\ rows'[r].via \notin {None, before} => install'[rows'[r].via].owner = rows'[r].user
TenantBoundary == [][InstallationsStay /\ ConnectionsStay]_intake

=============================================================================
