-------------------------- MODULE ReviewIntakeSafety --------------------------
(***************************************************************************)
(* The safety of the intake, for any accounts, installations, handlers and   *)
(* bounds: a head is charged once, an installation belongs to who made it,   *)
(* a connection stays with its account, and the poller leaves no gap.        *)
(***************************************************************************)
EXTENDS ReviewIntake, Integers, FiniteSetTheorems, SequenceTheorems, TLAPS

-------------------------------------------------------------------------------
(* Sequences that grow or change in place *)

LEMMA Appended ==
    ASSUME NEW S, NEW s \in Seq(S), NEW e \in S
    PROVE  /\ Append(s, e) \in Seq(S)
           /\ DOMAIN Append(s, e) = DOMAIN s \cup {Len(s) + 1}
           /\ Len(s) + 1 \notin DOMAIN s
           /\ \A i \in DOMAIN s : Append(s, e)[i] = s[i]
           /\ Append(s, e)[Len(s) + 1] = e
<1>1. /\ Append(s, e) \in Seq(S) /\ Len(Append(s, e)) = Len(s) + 1
      /\ \A i \in 1..Len(s) : Append(s, e)[i] = s[i]
      /\ Append(s, e)[Len(s) + 1] = e
  BY AppendProperties
<1>2. DOMAIN s = 1..Len(s) /\ Len(s) \in Nat /\ DOMAIN Append(s, e) = 1..(Len(s) + 1)
  BY <1>1, LenProperties
<1>3. QED  BY <1>1, <1>2

\* A sequence over the same places.
LEMMA Replaced ==
    ASSUME NEW S, NEW s \in Seq(S), NEW f \in [DOMAIN s -> S]
    PROVE  f \in Seq(S) /\ DOMAIN f = DOMAIN s
<1>1. DOMAIN s = 1..Len(s) /\ Len(s) \in Nat
  BY LenProperties
<1>2. QED  BY <1>1, SeqDef

LEMMA Elements ==
    ASSUME NEW S, NEW s \in Seq(S)
    PROVE  s \in [DOMAIN s -> S] /\ DOMAIN s \subseteq Nat \ {0} /\ IsFiniteSet(DOMAIN s)
<1>1. DOMAIN s = 1..Len(s) /\ Len(s) \in Nat /\ s \in [1..Len(s) -> S]
  BY LenProperties
<1>2. QED  BY <1>1, FS_Interval

-------------------------------------------------------------------------------
(* Types *)

Via         == Installs \cup {None}
Connections == [user : Users, via : Via, active : BOOLEAN, hook : BOOLEAN, scanned : Nat, baseline : Nat]
Deliveries  == [kind : Kinds, sha : Nat, via : Via]
Reviewed    == [row : Nat, kind : Kinds, sha : Nat, base : Int,
                status : {"QUEUED", "SKIPPED", "CANCELLED"}, charged : BOOLEAN, queued : BOOLEAN]
Places      == {"decline", "quota", "refuse", "insert", "reserve", "enqueue", "head", "remember", "pulls"}
Works       == [pc : Places, row : Nat, kind : Kinds, sha : Nat, base : Int, via : Via, review : Nat]
Arrivals    == [kind : Kinds, sha : Nat, via : Installs]
Adoptions   == [pc : {"adopt"}, delivery : Arrivals] \cup [pc : {"register"}, delivery : Arrivals, user : Users]
Links       == [pc : {"link"}, claim : Nat, app : Installs]
Claimed     == [user : Users, open : BOOLEAN]

\* What a producer does, of a connection and a review that exist.
Working(w) == /\ w \in Works /\ w.row \in DOMAIN rows
              /\ w.pc \in {"reserve", "enqueue"} => w.review \in DOMAIN reviews
Doing(w)   == w = Idle \/ w \in Adoptions \/ Working(w)

GitHubOK   == /\ github \in [PUSH : Nat \ {0}, PULL_REQUEST : Nat \ {0}, hooked : BOOLEAN]
              /\ sent \subseteq Deliveries
InstallOK  == install \in [Installs -> [there : BOOLEAN, creator : Users \cup {None}, owner : Users \cup {None}]]
RowsOK     == rows \in Seq(Connections)
ReviewsOK  == reviews \in Seq(Reviewed)
ProducerOK == producer \in [Producers -> {Idle} \cup Adoptions \cup Works] /\ \A p \in Producers : Doing(producer[p])
ConnectOK  == /\ connecting \in [Users -> [pc : {"idle", "write"}, row : Nat]]
              /\ \A u \in Users : connecting[u].row \in DOMAIN rows \cup {0}
CallbackOK == /\ callback \in [Callbacks -> {Idle} \cup Links]
              /\ \A c \in Callbacks : callback[c].pc = "link" => callback[c].claim \in DOMAIN claims
ClaimsOK   == claims \in Seq(Claimed) /\ links \in Nat

TypeOK == /\ GitHubOK /\ InstallOK /\ RowsOK /\ ReviewsOK
          /\ ProducerOK /\ ConnectOK /\ CallbackOK /\ ClaimsOK

\* Connections and reviews are never deleted.
Grow == DOMAIN rows \subseteq DOMAIN rows' /\ DOMAIN reviews \subseteq DOMAIN reviews'

LEMMA DoingGrows == ASSUME NEW w, Doing(w), Grow PROVE Doing(w)'
BY DEF Doing, Working, Grow

LEMMA StayType ==
    ASSUME ProducerOK, Grow, UNCHANGED producer
    PROVE  ProducerOK'
<1>1. \A p \in Producers : Doing(producer[p])'
  <2>1. TAKE p \in Producers
  <2>2. DEFINE w == producer[p]
  <2>3. Doing(w)
    BY DEF ProducerOK
  <2>4. \A v : Doing(v) => Doing(v)'
    BY DoingGrows
  <2>5. QED  BY <2>3 DEF ProducerOK, Doing, Working, Grow
<1>2. QED  BY <1>1 DEF ProducerOK

LEMMA ToType ==
    ASSUME ProducerOK, Grow, NEW p \in Producers, NEW w, To(p, w), Doing(w)'
    PROVE  ProducerOK'
<1>1. w \in {Idle} \cup Adoptions \cup Works
  BY DEF Doing, Working
<1>2. producer' \in [Producers -> {Idle} \cup Adoptions \cup Works]
  BY <1>1 DEF ProducerOK, To
<1>3. ASSUME NEW q \in Producers PROVE Doing(producer[q])'
  <2>1. q = p \/ (q # p /\ producer'[q] = producer[q])
    BY DEF To, ProducerOK
  <2>2. q = p => Doing(producer[q])'
    BY DEF To, ProducerOK, Doing, Working
  <2>3. q # p => Doing(producer[q])'
    BY <2>1 DEF ProducerOK, Doing, Working, Grow
  <2>4. QED  BY <2>2, <2>3
<1>4. QED  BY <1>2, <1>3 DEF ProducerOK

-------------------------------------------------------------------------------
(* What the steps do to reviews, connections and producers *)

\* An update that is not a new review leaves what identifies one.
SameReview(i) == /\ reviews'[i].row = reviews[i].row /\ reviews'[i].kind = reviews[i].kind
                 /\ reviews'[i].sha = reviews[i].sha /\ reviews'[i].base = reviews[i].base
Relabeled == DOMAIN reviews' = DOMAIN reviews /\ \A i \in DOMAIN reviews : SameReview(i)

\* A step that writes no review.
LEMMA SameReviews == ASSUME ReviewsOK, UNCHANGED reviews PROVE ReviewsOK' /\ Relabeled
BY DEF ReviewsOK, Relabeled, SameReview

LEMMA NewReview ==
    ASSUME ReviewsOK, NEW w \in Works, NEW status \in {"QUEUED", "SKIPPED"},
           reviews' = Append(reviews, Review(w, status))
    PROVE  /\ ReviewsOK' /\ DOMAIN reviews' = DOMAIN reviews \cup {Len(reviews) + 1}
           /\ Len(reviews) + 1 \notin DOMAIN reviews
           /\ \A i \in DOMAIN reviews : reviews'[i] = reviews[i]
           /\ reviews'[Len(reviews) + 1] = Review(w, status)
<1>1. Review(w, status) \in Reviewed
  BY DEF Review, Works, Reviewed
<1>2. QED  BY <1>1, Appended DEF ReviewsOK

LEMMA OneReview ==
    ASSUME ReviewsOK, NEW i \in DOMAIN reviews, NEW e \in Reviewed,
           reviews' = [reviews EXCEPT ![i] = e],
           e.row = reviews[i].row, e.kind = reviews[i].kind, e.sha = reviews[i].sha, e.base = reviews[i].base
    PROVE  ReviewsOK' /\ Relabeled
<1>1. reviews \in [DOMAIN reviews -> Reviewed]
  BY Elements DEF ReviewsOK
<1>2. reviews' \in [DOMAIN reviews -> Reviewed]
  BY <1>1
<1>3. QED  BY <1>1, <1>2, Replaced DEF ReviewsOK, Relabeled, SameReview

LEMMA CancelledReviews ==
    ASSUME ReviewsOK, NEW rs, reviews' = Cancelled(rs)
    PROVE  ReviewsOK' /\ Relabeled
<1>1. reviews \in [DOMAIN reviews -> Reviewed]
  BY Elements DEF ReviewsOK
<1>2. \A i \in DOMAIN reviews : [reviews[i] EXCEPT !.status = "CANCELLED", !.charged = FALSE] \in Reviewed
  BY <1>1 DEF Reviewed
<1>3. reviews' \in [DOMAIN reviews -> Reviewed]
  BY <1>1, <1>2 DEF Cancelled
<1>4. \A i \in DOMAIN reviews : SameReview(i)
  BY <1>1 DEF Cancelled, SameReview, Reviewed
<1>5. QED  BY <1>3, <1>4, Replaced DEF ReviewsOK, Relabeled

LEMMA NewRow ==
    ASSUME RowsOK, NEW u \in Users, NEW via \in Via, NEW hook \in BOOLEAN,
           rows' = Append(rows, Row(u, via, hook))
    PROVE  /\ RowsOK' /\ DOMAIN rows' = DOMAIN rows \cup {Len(rows) + 1}
           /\ Len(rows) + 1 \notin DOMAIN rows /\ Len(rows) + 1 \in Nat
           /\ \A r \in DOMAIN rows : rows'[r] = rows[r]
           /\ rows'[Len(rows) + 1] = Row(u, via, hook)
<1>1. Row(u, via, hook) \in Connections
  BY DEF Row, Connections
<1>2. Len(rows) \in Nat
  BY LenProperties DEF RowsOK
<1>3. QED  BY <1>1, <1>2, Appended DEF RowsOK

LEMMA RowsReplaced ==
    ASSUME RowsOK, rows' \in [DOMAIN rows -> Connections]
    PROVE  RowsOK' /\ DOMAIN rows' = DOMAIN rows
BY Replaced DEF RowsOK

LEMMA RowsElements ==
    ASSUME RowsOK
    PROVE  rows \in [DOMAIN rows -> Connections] /\ DOMAIN rows \subseteq Nat \ {0} /\ IsFiniteSet(DOMAIN rows)
BY Elements DEF RowsOK

LEMMA ReviewsElements ==
    ASSUME ReviewsOK
    PROVE  reviews \in [DOMAIN reviews -> Reviewed] /\ DOMAIN reviews \subseteq Nat \ {0} /\ IsFiniteSet(DOMAIN reviews)
BY Elements DEF ReviewsOK

\* A producer past its start has a connection.
LEMMA AtWork ==
    ASSUME ProducerOK, NEW p \in Producers, producer[p].pc \in Places
    PROVE  Working(producer[p]) /\ producer[p] \in Works
BY DEF ProducerOK, Doing, Working, Idle, Adoptions, Places

\* It goes on with the same work.
LEMMA OnwardType ==
    ASSUME ProducerOK, Grow, NEW p \in Producers, Working(producer[p]),
           NEW pc \in Places \ {"reserve", "enqueue"}, To(p, [producer[p] EXCEPT !.pc = pc])
    PROVE  ProducerOK'
<1>1. PICK w : w = [producer[p] EXCEPT !.pc = pc]
  OBVIOUS
<1>2. w \in Works /\ w.row \in DOMAIN rows' /\ w.pc = pc
  BY <1>1 DEF Working, Works, Grow
<1>3. Doing(w)' /\ To(p, w)
  BY <1>1, <1>2 DEF Doing, Working
<1>4. QED  BY <1>3, ToType

LEMMA IdleType ==
    ASSUME ProducerOK, Grow, NEW p \in Producers, To(p, Idle)
    PROVE  ProducerOK'
<1>1. \A w : w = Idle => Doing(w)'
  BY DEF Doing
<1>2. QED  BY <1>1, ToType

LEMMA LeaveType ==
    ASSUME ProducerOK, Grow, NEW p \in Producers, Working(producer[p]), Leave(p)
    PROVE  ProducerOK'
<1>1. "remember" \in Places \ {"reserve", "enqueue"}
  BY DEF Places
<1>2. QED  BY <1>1, OnwardType, IdleType DEF Leave

-------------------------------------------------------------------------------
(* Types: GitHub and the webhook *)

LEMMA InitType == ASSUME Init PROVE TypeOK
<1>1. GitHubOK /\ InstallOK
  BY DEF Init, GitHubOK, InstallOK, Deliveries
<1>2. RowsOK /\ ReviewsOK /\ ClaimsOK
  BY EmptySeq DEF Init, RowsOK, ReviewsOK, ClaimsOK
<1>3. ProducerOK
  BY DEF Init, ProducerOK, Doing, Idle
<1>4. ConnectOK /\ CallbackOK
  BY DEF Init, ConnectOK, CallbackOK, Idle, NoConnect
<1>5. QED  BY <1>1, <1>2, <1>3, <1>4 DEF TypeOK

\* Everything but the producers and GitHub stays.
LEMMA Same ==
    ASSUME TypeOK
    PROVE  /\ UNCHANGED <<github, sent>> => GitHubOK'
           /\ UNCHANGED install => InstallOK'
           /\ UNCHANGED rows => RowsOK' /\ DOMAIN rows' = DOMAIN rows
           /\ UNCHANGED reviews => ReviewsOK' /\ DOMAIN reviews' = DOMAIN reviews
           /\ UNCHANGED connecting /\ DOMAIN rows \subseteq DOMAIN rows' => ConnectOK'
           /\ UNCHANGED <<callback, claims, links>> => CallbackOK' /\ ClaimsOK'
BY DEF TypeOK, GitHubOK, InstallOK, RowsOK, ReviewsOK, ConnectOK, CallbackOK, ClaimsOK

LEMMA CommitType ==
    ASSUME TypeOK, \/ \E kind \in Kinds : Commit(kind)
                   \/ CommitHeadless
    PROVE  TypeOK'
<1>1. Grow /\ ProducerOK'
  <2>1. UNCHANGED <<rows, reviews, producer>>
    BY DEF Commit, CommitHeadless
  <2>2. QED  BY <2>1, StayType DEF Grow, TypeOK
<1>2. Sources \subseteq Via
  BY DEF Sources, Via
<1>3. GitHubOK'
  <2>1. ASSUME NEW kind \in Kinds, Commit(kind) PROVE GitHubOK'
    <3>1. github[kind] \in Nat /\ kind \in {"PUSH", "PULL_REQUEST"}
      BY DEF TypeOK, GitHubOK, Kinds
    <3>2. github' \in [PUSH : Nat \ {0}, PULL_REQUEST : Nat \ {0}, hooked : BOOLEAN]
      BY <2>1, <3>1 DEF Commit, TypeOK, GitHubOK
    <3>3. sent' \subseteq Deliveries
      BY <2>1, <3>1, <1>2 DEF Commit, TypeOK, GitHubOK, Deliveries
    <3>4. QED  BY <3>2, <3>3 DEF GitHubOK
  <2>2. CommitHeadless => GitHubOK'
    BY <1>2 DEF CommitHeadless, TypeOK, GitHubOK, Deliveries, Kinds
  <2>3. QED  BY <2>1, <2>2
<1>4. UNCHANGED <<install, rows, reviews, connecting, callback, claims, links>>
  BY DEF Commit, CommitHeadless
<1>5. QED  BY <1>1, <1>3, <1>4, Same DEF TypeOK

\* The work a producer begins, on a connection it has read.
LEMMA WorkType ==
    ASSUME TypeOK, NEW pc \in Places \ {"reserve", "enqueue"}, NEW r \in DOMAIN rows, NEW kind \in Kinds,
           NEW sha \in Nat, NEW base \in Int, NEW w, w = Work(pc, r, kind, sha, base)
    PROVE  Working(w)
<1>1. rows[r].via \in Via /\ r \in Nat
  BY RowsElements DEF TypeOK, Connections
<1>2. QED  BY <1>1 DEF Work, Working, Works

\* A step that writes only producers.
LEMMA OnlyProducers ==
    ASSUME TypeOK, UNCHANGED <<github, sent, install, rows, reviews, connecting, callback, claims, links>>, ProducerOK'
    PROVE  TypeOK'
BY Same DEF TypeOK

LEMMA DeliverType ==
    ASSUME TypeOK, NEW h \in Handlers, NEW d \in sent, Deliver(h, d)
    PROVE  TypeOK'
<1>1. d \in Deliveries /\ h \in Producers /\ d.sha - 1 \in Int /\ d.sha \in Nat /\ d.kind \in Kinds
  BY DEF TypeOK, GitHubOK, Deliveries, Producers
<1>2. Grow /\ UNCHANGED <<github, sent, install, rows, reviews, connecting, callback, claims, links>>
  BY DEF Deliver, Grow
<1>3. ASSUME NEW w, To(h, w), Doing(w) PROVE TypeOK'
  BY <1>1, <1>2, <1>3, ToType, DoingGrows, OnlyProducers DEF TypeOK
<1>4. ASSUME NEW r \in Matching(d.via),
             To(h, Work(IF d.sha = 0 THEN "decline" ELSE "quota", r, d.kind, d.sha, d.sha - 1))
      PROVE TypeOK'
  <2>1. PICK w : w = Work(IF d.sha = 0 THEN "decline" ELSE "quota", r, d.kind, d.sha, d.sha - 1)
    OBVIOUS
  <2>2. r \in DOMAIN rows /\ (IF d.sha = 0 THEN "decline" ELSE "quota") \in Places \ {"reserve", "enqueue"}
    BY DEF Matching, Places
  <2>3. Working(w)
    BY <1>1, <2>1, <2>2, WorkType
  <2>4. QED  BY <1>3, <1>4, <2>1, <2>3 DEF Doing
<1>5. ASSUME To(h, [pc |-> "adopt", delivery |-> d]), d.via # None PROVE TypeOK'
  <2>1. [pc |-> "adopt", delivery |-> d] \in Adoptions
    BY <1>1, <1>5 DEF Adoptions, Arrivals, Deliveries, Via
  <2>2. QED  BY <1>3, <1>5, <2>1 DEF Doing
<1>6. QED  BY <1>4, <1>5 DEF Deliver

\* What a handler that adopts has in hand.
LEMMA Adopting ==
    ASSUME TypeOK, NEW h \in Handlers, Adopt(h) \/ Register(h)
    PROVE  /\ h \in Producers /\ producer[h] \in Adoptions
           /\ producer[h].delivery \in Arrivals /\ producer[h].delivery.via \in Installs
           /\ Register(h) => producer[h].user \in Users
<1>1. h \in Producers /\ producer[h].pc \in {"adopt", "register"}
  BY DEF Adopt, Register, Producers
<1>2. producer[h] \in Adoptions
  BY <1>1 DEF TypeOK, ProducerOK, Doing, Working, Works, Idle, Places
<1>3. producer[h].delivery \in Arrivals /\ (producer[h].pc = "register" => producer[h].user \in Users)
  BY <1>1, <1>2 DEF Adoptions
<1>4. QED  BY <1>1, <1>2, <1>3 DEF Arrivals, Register

LEMMA AdoptType ==
    ASSUME TypeOK, NEW h \in Handlers, Adopt(h)
    PROVE  TypeOK'
<1> DEFINE d == producer[h].delivery
           i == install[d.via]
<1>1. h \in Producers /\ d \in Arrivals /\ d.via \in Installs
  BY Adopting
<1>2. Grow /\ UNCHANGED <<github, sent, install, rows, reviews, connecting, callback, claims, links>>
  BY DEF Adopt, Grow
<1>3. CASE i.there /\ i.owner # None
  <2>1. PICK w : w = [pc |-> "register", delivery |-> d, user |-> i.owner]
    OBVIOUS
  <2>2. i.owner \in Users
    BY <1>1, <1>3 DEF TypeOK, InstallOK
  <2>3. Doing(w)'
    BY <1>1, <2>1, <2>2 DEF Doing, Adoptions
  <2>4. To(h, w)
    BY <1>3, <2>1 DEF Adopt
  <2>5. QED  BY <1>1, <1>2, <2>3, <2>4, ToType, OnlyProducers DEF TypeOK
<1>4. CASE ~(i.there /\ i.owner # None)
  <2>1. To(h, Idle)
    BY <1>4 DEF Adopt
  <2>2. QED  BY <1>1, <1>2, <2>1, IdleType, OnlyProducers DEF TypeOK
<1>5. QED  BY <1>3, <1>4

LEMMA RegisterType ==
    ASSUME TypeOK, NEW h \in Handlers, Register(h)
    PROVE  TypeOK'
<1> DEFINE v == producer[h]
           d == v.delivery
<1>1. h \in Producers /\ d \in Arrivals /\ d.via \in Installs /\ v.user \in Users
  BY Adopting
<1>2. UNCHANGED <<github, sent, install, reviews, connecting, callback, claims, links>>
  BY DEF Register
<1>3. CASE install[d.via].there /\ Free(d.via, 0)
  <2>1. PICK w : w = [pc |-> IF d.sha = 0 THEN "decline" ELSE "quota", row |-> Len(rows) + 1, kind |-> d.kind,
                      sha |-> d.sha, base |-> d.sha - 1, via |-> d.via, review |-> 0]
    OBVIOUS
  <2>2. To(h, w) /\ rows' = Append(rows, Row(v.user, d.via, FALSE))
    BY <1>3, <2>1 DEF Register
  <2>3. d.via \in Via
    BY <1>1 DEF Via
  <2>4. /\ RowsOK' /\ DOMAIN rows' = DOMAIN rows \cup {Len(rows) + 1}
        /\ Len(rows) + 1 \in Nat
    BY <1>1, <2>2, <2>3, NewRow DEF TypeOK
  <2>5. Grow
    BY <2>4, <1>2 DEF Grow
  <2>6. d.sha \in Nat /\ d.kind \in Kinds /\ d.sha - 1 \in Int
    BY <1>1 DEF Arrivals
  <2>7. w \in Works /\ w.pc \notin {"reserve", "enqueue"} /\ w.row = Len(rows) + 1
    BY <2>1, <2>3, <2>4, <2>6 DEF Works, Places
  <2>8. Doing(w)'
    BY <2>4, <2>7 DEF Doing, Working
  <2>9. ProducerOK'
    BY <1>1, <2>2, <2>5, <2>8, ToType DEF TypeOK
  <2>10. QED  BY <1>2, <2>4, <2>5, <2>9, Same DEF TypeOK, Grow
<1>4. CASE ~(install[d.via].there /\ Free(d.via, 0))
  <2>1. To(h, Idle) /\ UNCHANGED rows
    BY <1>4 DEF Register
  <2>2. QED  BY <1>1, <1>2, <2>1, IdleType, OnlyProducers DEF TypeOK, Grow
<1>5. QED  BY <1>3, <1>4

-------------------------------------------------------------------------------
(* Types: what the producers share, the manual request and the poller *)

LEMMA FirstReviews ==
    ASSUME TypeOK, NEW p \in Producers, NEW status \in {"QUEUED", "SKIPPED"}, Working(producer[p]),
           reviews' = Append(reviews, Review(producer[p], status)), UNCHANGED rows
    PROVE  ReviewsOK' /\ Grow /\ Len(reviews) + 1 \in DOMAIN reviews' /\ Len(reviews) + 1 \in Nat
<1>1. producer[p] \in Works
  BY DEF Working
<1>2. ReviewsOK' /\ DOMAIN reviews' = DOMAIN reviews \cup {Len(reviews) + 1}
  BY <1>1, NewReview DEF TypeOK
<1>3. Len(reviews) \in Nat
  BY LenProperties DEF TypeOK, ReviewsOK
<1>4. QED  BY <1>2, <1>3 DEF Grow

\* A step that writes producers and reviews.
LEMMA ReviewsAndProducers ==
    ASSUME TypeOK, UNCHANGED <<github, sent, install, rows, connecting, callback, claims, links>>,
           ReviewsOK', ProducerOK'
    PROVE  TypeOK'
BY Same DEF TypeOK

LEMMA DeclineType ==
    ASSUME TypeOK, NEW h \in Handlers, Decline(h) \/ Refuse(h)
    PROVE  TypeOK'
<1>1. h \in Producers /\ producer[h].pc \in Places
  BY DEF Producers, Decline, Refuse, Places
<1>2. Working(producer[h])
  BY <1>1, AtWork DEF TypeOK
<1>3. UNCHANGED <<github, sent, install, rows, connecting, callback, claims, links>> /\ To(h, Idle)
  BY DEF Decline, Refuse
<1>4. UNCHANGED reviews \/ reviews' = Append(reviews, Review(producer[h], "SKIPPED"))
  BY DEF Decline, Refuse
<1>5. ReviewsOK' /\ Grow
  BY <1>1, <1>2, <1>3, <1>4, FirstReviews, Same DEF Grow, TypeOK
<1>6. QED  BY <1>1, <1>3, <1>5, IdleType, ReviewsAndProducers DEF TypeOK

LEMMA CheckQuotaType ==
    ASSUME TypeOK, NEW h \in Handlers, CheckQuota(h)
    PROVE  TypeOK'
<1>1. h \in Producers /\ producer[h].pc \in Places /\ Grow
  BY DEF Producers, CheckQuota, Places, Grow
<1>2. Working(producer[h])
  BY <1>1, AtWork DEF TypeOK
<1>3. \/ To(h, Idle)
      \/ \E pc \in {"insert", "refuse"} : To(h, [producer[h] EXCEPT !.pc = pc])
  BY DEF CheckQuota
<1>4. {"insert", "refuse"} \subseteq Places \ {"reserve", "enqueue"}
  BY DEF Places
<1>5. ProducerOK'
  BY <1>1, <1>2, <1>3, <1>4, IdleType, OnwardType DEF TypeOK
<1>6. QED  BY <1>5, OnlyProducers DEF CheckQuota

LEMMA InsertType ==
    ASSUME TypeOK, NEW p \in Producers, Insert(p)
    PROVE  TypeOK'
<1>1. producer[p].pc \in Places
  BY DEF Insert, Places
<1>2. Working(producer[p]) /\ producer[p] \in Works
  BY <1>1, AtWork DEF TypeOK
<1>3. UNCHANGED <<github, sent, install, rows, connecting, callback, claims, links>>
  BY DEF Insert
<1>4. CASE Known(producer[p])
  <2>1. Leave(p) /\ UNCHANGED reviews
    BY <1>4 DEF Insert
  <2>2. QED  BY <1>2, <1>3, <2>1, LeaveType, OnlyProducers DEF TypeOK, Grow
<1>5. CASE ~Known(producer[p])
  <2>1. PICK w : w = [producer[p] EXCEPT !.pc = "reserve", !.review = Len(reviews) + 1]
    OBVIOUS
  <2>2. reviews' = Append(reviews, Review(producer[p], "QUEUED")) /\ To(p, w)
    BY <1>5, <2>1 DEF Insert
  <2>3. ReviewsOK' /\ Grow /\ Len(reviews) + 1 \in DOMAIN reviews' /\ Len(reviews) + 1 \in Nat
    BY <1>2, <1>3, <2>2, FirstReviews
  <2>4. w \in Works /\ w.row \in DOMAIN rows /\ w.review = Len(reviews) + 1
    BY <1>2, <2>1, <2>3 DEF Works, Working, Places
  <2>5. Doing(w)'
    BY <1>3, <2>3, <2>4 DEF Doing, Working
  <2>6. QED  BY <1>3, <2>2, <2>3, <2>5, ToType, ReviewsAndProducers DEF TypeOK
<1>6. QED  BY <1>4, <1>5

LEMMA ReserveType ==
    ASSUME TypeOK, NEW p \in Producers, Reserve(p) \/ Enqueue(p)
    PROVE  TypeOK' /\ Relabeled
<1> DEFINE i == producer[p].review
<1>1. producer[p].pc \in {"reserve", "enqueue"} /\ producer[p].pc \in Places
  BY DEF Reserve, Enqueue, Places
<1>2. Working(producer[p]) /\ producer[p] \in Works /\ i \in DOMAIN reviews
  BY <1>1, AtWork DEF TypeOK, Working
<1>3. UNCHANGED <<github, sent, install, rows, connecting, callback, claims, links>>
  BY DEF Reserve, Enqueue
<1>4. reviews \in [DOMAIN reviews -> Reviewed] /\ reviews[i] \in Reviewed
  BY <1>2, ReviewsElements DEF TypeOK
<1>5. \/ UNCHANGED reviews
      \/ \E e \in {[reviews[i] EXCEPT !.charged = TRUE], [reviews[i] EXCEPT !.status = "SKIPPED"],
                   [reviews[i] EXCEPT !.queued = TRUE]} : reviews' = [reviews EXCEPT ![i] = e]
  BY <1>2, <1>4 DEF Reserve, Enqueue
<1>6. \A e \in {[reviews[i] EXCEPT !.charged = TRUE], [reviews[i] EXCEPT !.status = "SKIPPED"],
                [reviews[i] EXCEPT !.queued = TRUE]} :
        /\ e \in Reviewed
        /\ e.row = reviews[i].row /\ e.kind = reviews[i].kind /\ e.sha = reviews[i].sha /\ e.base = reviews[i].base
  BY <1>4 DEF Reviewed
<1>7. ReviewsOK' /\ Relabeled
  BY <1>2, <1>5, <1>6, OneReview, SameReviews DEF TypeOK
<1>8. Grow
  BY <1>3, <1>7 DEF Grow, Relabeled
<1>9. \/ To(p, Idle) \/ Leave(p)
      \/ To(p, [producer[p] EXCEPT !.pc = "enqueue"])
  BY DEF Reserve, Enqueue
<1>10. ASSUME To(p, [producer[p] EXCEPT !.pc = "enqueue"]) PROVE ProducerOK'
  <2>1. PICK w : w = [producer[p] EXCEPT !.pc = "enqueue"]
    OBVIOUS
  <2>2. w \in Works /\ w.row \in DOMAIN rows /\ w.review = i
    BY <1>2, <2>1 DEF Works, Working, Places
  <2>3. Doing(w)
    BY <1>2, <2>2 DEF Doing, Working
  <2>4. QED  BY <1>8, <1>10, <2>1, <2>3, DoingGrows, ToType DEF TypeOK
<1>11. ProducerOK'
  BY <1>2, <1>8, <1>9, <1>10, IdleType, LeaveType DEF TypeOK
<1>12. QED  BY <1>3, <1>7, <1>11, ReviewsAndProducers

LEMMA FailType ==
    ASSUME TypeOK, NEW p \in Producers, Fail(p)
    PROVE  TypeOK'
<1>1. Grow /\ To(p, Idle)
  BY DEF Fail, Grow
<1>2. QED  BY <1>1, IdleType, OnlyProducers DEF Fail, TypeOK

LEMMA BeginType ==
    ASSUME TypeOK, NEW r \in DOMAIN rows,
           PollStart(r) \/ \E kind \in Kinds : RequestReview(r, kind)
    PROVE  TypeOK'
<1>1. rows[r].scanned \in Nat
  BY RowsElements DEF TypeOK, Connections
<1>2. PICK p \in Producers, pc \in {"insert", "head"}, kind \in Kinds, base \in Int :
        To(p, Work(pc, r, kind, 0, base))
  BY <1>1 DEF PollStart, RequestReview, Producers, Kinds
<1>3. PICK w : w = Work(pc, r, kind, 0, base)
  OBVIOUS
<1>4. pc \in Places \ {"reserve", "enqueue"}
  BY DEF Places
<1>5. Working(w)
  BY <1>3, <1>4, WorkType
<1>6. Grow
  BY DEF PollStart, RequestReview, Grow
<1>7. ProducerOK'
  BY <1>2, <1>3, <1>5, <1>6, DoingGrows, ToType DEF TypeOK, Doing
<1>8. QED  BY <1>7, OnlyProducers DEF PollStart, RequestReview

LEMMA PollType ==
    ASSUME TypeOK, PollHead \/ PollPulls
    PROVE  TypeOK'
<1> DEFINE v == producer[Poller]
<1>1. Poller \in Producers /\ v.pc \in Places /\ Grow
  BY DEF Producers, PollHead, PollPulls, Places, Grow
<1>2. Working(v) /\ v \in Works
  BY <1>1, AtWork DEF TypeOK
<1>3. \/ To(Poller, Idle)
      \/ \E w : /\ To(Poller, w) /\ w \in Works /\ w.row = v.row
                /\ w.pc \notin {"reserve", "enqueue"}
  <2>1. github.PUSH \in Nat /\ github.PULL_REQUEST \in Nat
    BY DEF TypeOK, GitHubOK
  <2>2. PollHead => \E pc \in {"pulls", "remember", "insert"} :
                      To(Poller, [v EXCEPT !.sha = github.PUSH, !.pc = pc])
    BY DEF PollHead
  <2>3. \A pc \in {"pulls", "remember", "insert"} :
          /\ [v EXCEPT !.sha = github.PUSH, !.pc = pc] \in Works
          /\ [v EXCEPT !.sha = github.PUSH, !.pc = pc].row = v.row
          /\ [v EXCEPT !.sha = github.PUSH, !.pc = pc].pc = pc
    BY <1>2, <2>1 DEF Works, Places
  <2>4. LET w == [v EXCEPT !.kind = "PULL_REQUEST", !.sha = github.PULL_REQUEST, !.pc = "insert"]
        IN  w \in Works /\ w.row = v.row /\ w.pc = "insert"
    BY <1>2, <2>1 DEF Works, Places, Kinds
  <2>5. PollPulls => \/ To(Poller, Idle)
                     \/ To(Poller, [v EXCEPT !.kind = "PULL_REQUEST", !.sha = github.PULL_REQUEST, !.pc = "insert"])
    BY DEF PollPulls
  <2>6. QED  BY <2>2, <2>3, <2>4, <2>5
<1>4. ProducerOK'
  <2>1. ASSUME NEW w, To(Poller, w), w \in Works, w.row = v.row, w.pc \notin {"reserve", "enqueue"}
        PROVE  ProducerOK'
    <3>1. Doing(w)
      BY <1>2, <2>1 DEF Doing, Working
    <3>2. QED  BY <1>1, <2>1, <3>1, DoingGrows, ToType DEF TypeOK
  <2>2. QED  BY <1>1, <1>3, <2>1, IdleType DEF TypeOK
<1>5. QED  BY <1>4, OnlyProducers DEF PollHead, PollPulls

\* What identifies a connection's account and installation is left by the poller.
SameOwner(r) == rows'[r].user = rows[r].user /\ rows'[r].via = rows[r].via

LEMMA RememberType ==
    ASSUME TypeOK, Remember
    PROVE  TypeOK' /\ DOMAIN rows' = DOMAIN rows /\ \A r \in DOMAIN rows : SameOwner(r)
<1> DEFINE v == producer[Poller]
<1>1. Poller \in Producers /\ v.pc \in Places
  BY DEF Producers, Remember, Places
<1>2. Working(v) /\ v \in Works
  BY <1>1, AtWork DEF TypeOK
<1>3. UNCHANGED <<github, sent, install, reviews, connecting, callback, claims, links>>
  BY DEF Remember
<1>4. rows \in [DOMAIN rows -> Connections] /\ v.row \in DOMAIN rows /\ v.sha \in Nat
  BY <1>2, RowsElements DEF TypeOK, Working, Works
<1>5. rows[v.row] \in Connections
  BY <1>4
<1>6. RowsOK' /\ DOMAIN rows' = DOMAIN rows /\ \A r \in DOMAIN rows : SameOwner(r)
  <2>1. CASE v.kind = "PUSH"
    <3>1. PICK e : e = [rows[v.row] EXCEPT !.scanned = v.sha, !.baseline = IF @ = 0 THEN v.sha ELSE @]
      OBVIOUS
    <3>2. e \in Connections /\ e.user = rows[v.row].user /\ e.via = rows[v.row].via
      BY <1>4, <1>5, <3>1 DEF Connections
    <3>3. rows' = [rows EXCEPT ![v.row] = e]
      BY <1>4, <1>5, <2>1, <3>1 DEF Remember, Connections
    <3>4. rows' \in [DOMAIN rows -> Connections]
      BY <1>4, <3>2, <3>3
    <3>5. \A r \in DOMAIN rows : SameOwner(r)
      BY <1>4, <3>2, <3>3 DEF SameOwner
    <3>6. QED  BY <3>4, <3>5, RowsReplaced DEF TypeOK
  <2>2. CASE v.kind # "PUSH"
    BY <2>2 DEF Remember, TypeOK, RowsOK, SameOwner
  <2>3. QED  BY <2>1, <2>2
<1>7. Grow
  BY <1>3, <1>6 DEF Grow
<1>8. ProducerOK'
  <2>1. To(Poller, Idle) \/ To(Poller, [v EXCEPT !.pc = "pulls"])
    BY DEF Remember
  <2>2. "pulls" \in Places \ {"reserve", "enqueue"}
    BY DEF Places
  <2>3. QED  BY <1>1, <1>2, <1>7, <2>1, <2>2, IdleType, OnwardType DEF TypeOK
<1>9. QED  BY <1>3, <1>6, <1>7, <1>8, Same DEF TypeOK, Grow

LEMMA ForgetType == ASSUME TypeOK, NEW r \in DOMAIN rows, Forget(r) PROVE TypeOK'
<1>1. UNCHANGED <<github, sent, install, rows, reviews, producer, connecting, callback, claims, links>>
  BY DEF Forget
<1>2. QED  BY <1>1, StayType, OnlyProducers DEF TypeOK, Grow

-------------------------------------------------------------------------------
(* Types: the owners and the App *)

LEMMA FindType == ASSUME TypeOK, NEW u \in Users, FindConnection(u) PROVE TypeOK'
<1>1. UNCHANGED <<github, sent, install, rows, reviews, producer, callback, claims, links>>
  BY DEF FindConnection
<1>2. ProducerOK'
  BY <1>1, StayType DEF TypeOK, Grow
<1>3. PICK r \in DOMAIN rows \cup {0} : connecting' = [connecting EXCEPT ![u] = [pc |-> "write", row |-> r]]
  BY DEF FindConnection
<1>4. r \in Nat
  BY RowsElements DEF TypeOK
<1>5. ConnectOK'
  BY <1>1, <1>3, <1>4 DEF TypeOK, ConnectOK
<1>6. QED  BY <1>1, <1>2, <1>5, Same DEF TypeOK

LEMMA ConnectType ==
    ASSUME TypeOK, NEW u \in Users, NEW hook \in BOOLEAN, Connect(u, hook)
    PROVE  /\ TypeOK' /\ DOMAIN rows \subseteq DOMAIN rows' /\ \A r \in DOMAIN rows : SameOwner(r)
           /\ \A r \in DOMAIN rows' \ DOMAIN rows : rows'[r].via = None
<1> DEFINE r == connecting[u].row
<1>1. UNCHANGED <<sent, install, reviews, producer, callback, claims, links>>
  BY DEF Connect
<1>2. RowsOK' /\ DOMAIN rows \subseteq DOMAIN rows' /\ (\A q \in DOMAIN rows : SameOwner(q))
      /\ \A q \in DOMAIN rows' \ DOMAIN rows : rows'[q].via = None
  <2>1. CASE r # 0
    <3>1. rows \in [DOMAIN rows -> Connections] /\ r \in DOMAIN rows
      BY <2>1, RowsElements DEF TypeOK, ConnectOK
    <3>2. rows[r] \in Connections
      BY <3>1
    <3>3. PICK e : e = [rows[r] EXCEPT !.active = TRUE, !.hook = hook]
      OBVIOUS
    <3>4. e \in Connections /\ e.user = rows[r].user /\ e.via = rows[r].via
      BY <3>2, <3>3 DEF Connections
    <3>5. rows' = [rows EXCEPT ![r] = e]
      BY <2>1, <3>1, <3>2, <3>3 DEF Connect, Connections
    <3>6. rows' \in [DOMAIN rows -> Connections]
      BY <3>1, <3>4, <3>5
    <3>7. \A q \in DOMAIN rows : SameOwner(q)
      BY <3>1, <3>4, <3>5 DEF SameOwner
    <3>8. RowsOK' /\ DOMAIN rows' = DOMAIN rows
      BY <3>6, RowsReplaced DEF TypeOK
    <3>9. QED  BY <3>7, <3>8
  <2>2. CASE r = 0
    <3>1. rows' = Append(rows, Row(u, None, hook)) /\ None \in Via
      BY <2>2 DEF Connect, Via
    <3>2. /\ RowsOK' /\ DOMAIN rows' = DOMAIN rows \cup {Len(rows) + 1}
          /\ \A q \in DOMAIN rows : rows'[q] = rows[q]
          /\ rows'[Len(rows) + 1] = Row(u, None, hook)
      BY <3>1, NewRow DEF TypeOK
    <3>3. Row(u, None, hook).via = None
      BY DEF Row
    <3>4. QED  BY <3>2, <3>3 DEF SameOwner
  <2>3. QED  BY <2>1, <2>2
<1>3. GitHubOK'
  BY <1>1 DEF Connect, TypeOK, GitHubOK
<1>4. Grow
  BY <1>1, <1>2 DEF Grow
<1>5. ConnectOK'
  <2>1. connecting' = [connecting EXCEPT ![u] = NoConnect]
    BY DEF Connect
  <2>2. NoConnect \in [pc : {"idle", "write"}, row : Nat] /\ NoConnect.row = 0
    BY DEF NoConnect
  <2>3. QED  BY <1>2, <2>1, <2>2 DEF TypeOK, ConnectOK
<1>6. ProducerOK'
  BY <1>1, <1>4, StayType DEF TypeOK
<1>7. QED  BY <1>1, <1>2, <1>3, <1>5, <1>6, Same DEF TypeOK

\* An active connection ends, whatever else of it.
LEMMA EndedRows ==
    ASSUME TypeOK, NEW f \in [DOMAIN rows -> Connections], rows' = f, ReviewsOK', Relabeled,
           UNCHANGED <<sent, producer, connecting, callback, claims, links>>, GitHubOK', InstallOK'
    PROVE  TypeOK'
<1>1. RowsOK' /\ DOMAIN rows' = DOMAIN rows
  BY RowsReplaced DEF TypeOK
<1>2. Grow
  BY <1>1 DEF Grow, Relabeled
<1>3. QED  BY <1>1, <1>2, StayType, Same DEF TypeOK

LEMMA DisconnectType ==
    ASSUME TypeOK, NEW r \in DOMAIN rows, Disconnect(r)
    PROVE  TypeOK' /\ DOMAIN rows' = DOMAIN rows /\ (\A q \in DOMAIN rows : SameOwner(q)) /\ Relabeled
<1>1. rows \in [DOMAIN rows -> Connections]
  BY RowsElements DEF TypeOK
<1>2. ReviewsOK' /\ Relabeled
  BY CancelledReviews DEF Disconnect, TypeOK
<1>3. GitHubOK'
  BY DEF Disconnect, TypeOK, GitHubOK
<1>4. rows' \in [DOMAIN rows -> Connections] /\ \A q \in DOMAIN rows : SameOwner(q)
  <2>1. rows[r] \in Connections
    BY <1>1
  <2>2. PICK e : e = [rows[r] EXCEPT !.active = FALSE, !.hook = FALSE]
    OBVIOUS
  <2>3. e \in Connections /\ e.user = rows[r].user /\ e.via = rows[r].via
    BY <2>1, <2>2 DEF Connections
  <2>4. rows' = [rows EXCEPT ![r] = e]
    BY <1>1, <2>1, <2>2 DEF Disconnect, Connections
  <2>5. QED  BY <1>1, <2>3, <2>4 DEF SameOwner
<1>5. UNCHANGED <<sent, install, producer, connecting, callback, claims, links>>
  BY DEF Disconnect
<1>6. QED  BY <1>2, <1>3, <1>4, <1>5, EndedRows, Same DEF TypeOK

\* Whatever a transaction that links makes of the rows: a connection stays, or its account's
\* installation becomes its own; a new one is that account's.
Joined(a, u, i) ==
    /\ a \in Seq(Connections) /\ DOMAIN rows \subseteq DOMAIN a
    /\ \A q \in DOMAIN rows : /\ a[q].user = rows[q].user
                              /\ a[q].via = rows[q].via \/ (a[q].via = i /\ a[q].user = u)
    /\ \A q \in DOMAIN a \ DOMAIN rows : a[q].via = i /\ a[q].user = u

LEMMA LinkedRowsJoin ==
    ASSUME RowsOK, NEW u \in Users, NEW i \in Installs, NEW r \in First, NEW a \in LinkedRows(u, i, r)
    PROVE  Joined(a, u, i)
<1>1. rows \in [DOMAIN rows -> Connections] /\ 0 \notin DOMAIN rows
  BY RowsElements
<1>2. ASSUME a = Append(rows, Row(u, i, FALSE)) PROVE Joined(a, u, i)
  <2>1. Row(u, i, FALSE) \in Connections /\ Row(u, i, FALSE).via = i /\ Row(u, i, FALSE).user = u
    BY DEF Row, Connections, Via
  <2>2. rows \in Seq(Connections)
    BY DEF RowsOK
  <2>3. PICK e : e = Row(u, i, FALSE)
    OBVIOUS
  <2>5. e \in Connections
    BY <2>1, <2>3
  <2>6. /\ Append(rows, e) \in Seq(Connections) /\ DOMAIN Append(rows, e) = DOMAIN rows \cup {Len(rows) + 1}
        /\ \A q \in DOMAIN rows : Append(rows, e)[q] = rows[q]
        /\ Append(rows, e)[Len(rows) + 1] = e
    BY <2>2, <2>5, Appended
  <2>4. QED  BY <1>2, <2>1, <2>3, <2>6 DEF Joined
<1>3. ASSUME r # 0, Own(u, i, r), a = [rows EXCEPT ![r].active = TRUE, ![r].via = i] PROVE Joined(a, u, i)
  <2>1. r \in DOMAIN rows
    BY <1>3 DEF First
  <2>2. rows[r] \in Connections
    BY <1>1, <2>1
  <2>3. PICK e : e = [rows[r] EXCEPT !.active = TRUE, !.via = i]
    OBVIOUS
  <2>4. e \in Connections /\ e.user = u /\ e.via = i /\ rows[r].user = u
    BY <1>3, <2>2, <2>3 DEF Connections, Via, Own
  <2>5. a = [rows EXCEPT ![r] = e]
    BY <1>1, <1>3, <2>1, <2>2, <2>3 DEF Connections
  <2>6. a \in [DOMAIN rows -> Connections]
    BY <1>1, <2>4, <2>5
  <2>7. a \in Seq(Connections) /\ DOMAIN a = DOMAIN rows
    BY <2>6, Replaced DEF RowsOK
  <2>8. QED  BY <1>1, <2>1, <2>4, <2>5, <2>7 DEF Joined
<1>4. QED  BY <1>2, <1>3 DEF LinkedRows

\* A closed state keeps its account.
LEMMA CloseType ==
    ASSUME TypeOK, NEW k \in DOMAIN claims, claims' = [claims EXCEPT ![k].open = FALSE]
    PROVE  /\ claims' \in Seq(Claimed) /\ DOMAIN claims' = DOMAIN claims /\ ~claims'[k].open
           /\ \A j \in DOMAIN claims : claims'[j].user = claims[j].user
           /\ \A j \in DOMAIN claims \ {k} : claims'[j] = claims[j]
<1>1. claims \in Seq(Claimed) /\ claims \in [DOMAIN claims -> Claimed]
  BY Elements DEF TypeOK, ClaimsOK
<1>2. claims[k] \in Claimed
  BY <1>1
<1>3. PICK e : e = [claims[k] EXCEPT !.open = FALSE]
  OBVIOUS
<1>4. e \in Claimed /\ ~e.open /\ e.user = claims[k].user
  BY <1>2, <1>3 DEF Claimed
<1>5. claims' = [claims EXCEPT ![k] = e]
  BY <1>1, <1>2, <1>3 DEF Claimed
<1>6. claims' \in [DOMAIN claims -> Claimed]
  BY <1>1, <1>4, <1>5
<1>7. QED  BY <1>1, <1>4, <1>5, <1>6, Replaced

LEMMA StateType ==
    ASSUME TypeOK, \/ \E u \in Users : StartInstall(u)
                   \/ \E k \in DOMAIN claims : Expire(k)
    PROVE  TypeOK'
<1>1. UNCHANGED <<github, sent, install, rows, reviews, producer, connecting, callback, links>>
  BY DEF StartInstall, Expire
<1>2. claims' \in Seq(Claimed) /\ DOMAIN claims \subseteq DOMAIN claims'
  <2>1. ASSUME NEW u \in Users, StartInstall(u) PROVE claims' \in Seq(Claimed) /\ DOMAIN claims \subseteq DOMAIN claims'
    <3>1. [user |-> u, open |-> TRUE] \in Claimed
      BY DEF Claimed
    <3>2. claims \in Seq(Claimed) /\ claims' = Append(claims, [user |-> u, open |-> TRUE])
      BY <2>1 DEF StartInstall, TypeOK, ClaimsOK
    <3>3. QED  BY <3>1, <3>2, Appended
  <2>2. QED  BY <2>1, CloseType DEF Expire
<1>3. CallbackOK' /\ ClaimsOK'
  BY <1>1, <1>2 DEF TypeOK, CallbackOK, ClaimsOK
<1>4. ProducerOK'
  BY <1>1, StayType DEF Grow, TypeOK
<1>5. QED  BY <1>1, <1>3, <1>4, Same DEF TypeOK

LEMMA InstalledType == ASSUME TypeOK, NEW i \in Installs, NEW u \in Users, Installed(i, u) PROVE TypeOK'
<1>1. UNCHANGED <<github, sent, rows, reviews, producer, connecting, callback, claims, links>>
  BY DEF Installed
<1>2. InstallOK'
  BY DEF Installed, TypeOK, InstallOK
<1>3. QED  BY <1>1, <1>2, StayType, Same DEF TypeOK, Grow

\* Its connections end; after the deletion of an installation they belong to none.
LEMMA UninstalledType ==
    ASSUME TypeOK, NEW i \in Installs, Uninstalled(i) \/ RepositoryRemoved(i)
    PROVE  /\ TypeOK' /\ DOMAIN rows' = DOMAIN rows /\ Relabeled
           /\ \A q \in DOMAIN rows : rows'[q].user = rows[q].user /\ rows'[q].via \in {rows[q].via, None}
<1>1. rows \in [DOMAIN rows -> Connections]
  BY RowsElements DEF TypeOK
<1>2. ReviewsOK' /\ Relabeled
  BY CancelledReviews DEF Uninstalled, RepositoryRemoved, TypeOK
<1>3. InstallOK'
  <2>1. Uninstalled(i) => InstallOK'
    <3>1. install[i] \in [there : BOOLEAN, creator : Users \cup {None}, owner : Users \cup {None}]
      BY DEF TypeOK, InstallOK
    <3>2. PICK e : e = [install[i] EXCEPT !.there = FALSE, !.owner = None]
      OBVIOUS
    <3>3. e \in [there : BOOLEAN, creator : Users \cup {None}, owner : Users \cup {None}]
      BY <3>1, <3>2
    <3>4. Uninstalled(i) => install' = [install EXCEPT ![i] = e]
      BY <3>1, <3>2 DEF Uninstalled, TypeOK, InstallOK
    <3>5. QED  BY <3>3, <3>4 DEF TypeOK, InstallOK
  <2>2. QED  BY <2>1, Same DEF RepositoryRemoved
<1>4. /\ rows' \in [DOMAIN rows -> Connections]
      /\ \A q \in DOMAIN rows : rows'[q].user = rows[q].user /\ rows'[q].via \in {rows[q].via, None}
  <2>1. \A q \in DOMAIN rows :
          /\ [rows[q] EXCEPT !.active = FALSE, !.via = None] \in Connections
          /\ [rows[q] EXCEPT !.active = FALSE, !.via = None].user = rows[q].user
          /\ [rows[q] EXCEPT !.active = FALSE, !.via = None].via = None
    BY <1>1 DEF Connections, Via
  <2>2. Uninstalled(i) => \A q \in DOMAIN rows :
          rows'[q] \in {rows[q], [rows[q] EXCEPT !.active = FALSE, !.via = None]}
    BY DEF Uninstalled
  <2>3. \A q \in DOMAIN rows, b \in BOOLEAN :
          /\ [rows[q] EXCEPT !.active = b] \in Connections
          /\ [rows[q] EXCEPT !.active = b].user = rows[q].user
          /\ [rows[q] EXCEPT !.active = b].via = rows[q].via
    BY <1>1 DEF Connections
  <2>4. RepositoryRemoved(i) => \A q \in DOMAIN rows : \E b \in BOOLEAN : rows'[q] = [rows[q] EXCEPT !.active = b]
    <3>1. ASSUME RepositoryRemoved(i), NEW q \in DOMAIN rows
          PROVE  \E b \in BOOLEAN : rows'[q] = [rows[q] EXCEPT !.active = b]
      <4>1. PICK b : b = (rows[q].active /\ q \notin {r \in DOMAIN rows : rows[r].via = i})
        OBVIOUS
      <4>2. rows[q].active \in BOOLEAN /\ b \in BOOLEAN
        BY <1>1, <4>1 DEF Connections
      <4>3. rows'[q] = [rows[q] EXCEPT !.active = b]
        BY <3>1, <4>1 DEF RepositoryRemoved
      <4>4. QED  BY <4>2, <4>3
    <3>2. QED  BY <3>1
  <2>5. \E f : rows' = [q \in DOMAIN rows |-> f[q]]
    BY DEF Uninstalled, RepositoryRemoved
  <2>6. \A q \in DOMAIN rows : /\ rows'[q] \in Connections
                               /\ rows'[q].user = rows[q].user /\ rows'[q].via \in {rows[q].via, None}
    BY <1>1, <2>1, <2>2, <2>3, <2>4
  <2>7. rows' \in [DOMAIN rows -> Connections]
    BY <2>5, <2>6
  <2>8. QED  BY <2>6, <2>7
<1>5. UNCHANGED <<github, sent, producer, connecting, callback, claims, links>>
  BY DEF Uninstalled, RepositoryRemoved
<1>6. QED  BY <1>2, <1>3, <1>4, <1>5, EndedRows, RowsReplaced, Same DEF TypeOK

LEMMA CheckCallbackType ==
    ASSUME TypeOK, NEW c \in Callbacks, NEW k \in DOMAIN claims, NEW i \in Installs, CheckCallback(c, k, i)
    PROVE  TypeOK'
<1>1. UNCHANGED <<github, sent, install, rows, reviews, producer, connecting, claims, links>>
  BY DEF CheckCallback
<1>2. k \in Nat
  BY Elements DEF TypeOK, ClaimsOK
<1>3. CallbackOK' /\ ClaimsOK'
  BY <1>1, <1>2 DEF CheckCallback, TypeOK, CallbackOK, ClaimsOK, Links, Idle
<1>4. QED  BY <1>1, <1>3, StayType, Same DEF TypeOK, Grow

\* The transaction of a callback: nothing, or a link that its open state allowed.
Linking(c) ==
    LET b == callback[c]  u == claims[b.claim].user IN
    /\ b \in Links /\ b.claim \in DOMAIN claims /\ u \in Users
    /\ \/ UNCHANGED <<claims, install, rows, links>>
       \/ /\ claims[b.claim].open /\ Joined(rows', u, b.app)
          /\ claims' = [claims EXCEPT ![b.claim].open = FALSE]
          /\ install' = [install EXCEPT ![b.app].owner = u]
          /\ links' = links + 1

LEMMA LinkLinks == ASSUME TypeOK, NEW c \in Callbacks, Link(c) PROVE Linking(c)
<1> DEFINE b == callback[c]
           u == claims[b.claim].user
<1>1. b \in Links /\ b.claim \in DOMAIN claims
  BY DEF Link, TypeOK, CallbackOK, Idle, Links
<1>2. u \in Users
  <2>1. claims \in [DOMAIN claims -> Claimed]
    BY Elements DEF TypeOK, ClaimsOK
  <2>2. QED  BY <1>1, <2>1 DEF Claimed
<1>3. b.app \in Installs
  BY <1>1 DEF Links
<1>4. PICK r \in First, listed \in BOOLEAN :
        LET after == IF ~(claims[b.claim].open /\ install[b.app].there) THEN {}
                     ELSE IF listed THEN LinkedRows(u, b.app, r) ELSE {rows}
        IN IF after = {} THEN UNCHANGED <<claims, install, rows, links>>
           ELSE /\ claims' = [claims EXCEPT ![b.claim].open = FALSE]
                /\ install' = [install EXCEPT ![b.app].owner = u]
                /\ rows' \in {a \in after : Len(a) <= MaxRows} /\ links' = links + 1
  BY DEF Link
<1>5. rows' \in LinkedRows(u, b.app, r) \cup {rows} => Joined(rows', u, b.app)
  <2>1. UNCHANGED rows => Joined(rows', u, b.app)
    BY DEF Joined, TypeOK, RowsOK
  <2>2. QED  BY <1>2, <1>3, <2>1, LinkedRowsJoin DEF TypeOK
<1>6. \/ UNCHANGED <<claims, install, rows, links>>
      \/ /\ claims[b.claim].open /\ rows' \in LinkedRows(u, b.app, r) \cup {rows}
         /\ claims' = [claims EXCEPT ![b.claim].open = FALSE]
         /\ install' = [install EXCEPT ![b.app].owner = u]
         /\ links' = links + 1
  <2>1. CASE ~(claims[b.claim].open /\ install[b.app].there)
    BY <1>4, <2>1
  <2>2. CASE claims[b.claim].open /\ install[b.app].there /\ listed
    BY <1>4, <2>2
  <2>3. CASE claims[b.claim].open /\ install[b.app].there /\ ~listed
    BY <1>4, <2>3
  <2>4. QED  BY <2>1, <2>2, <2>3
<1> HIDE DEF u
<1>7. /\ b \in Links /\ b.claim \in DOMAIN claims /\ u \in Users
      /\ \/ UNCHANGED <<claims, install, rows, links>>
         \/ /\ claims[b.claim].open /\ Joined(rows', u, b.app)
            /\ claims' = [claims EXCEPT ![b.claim].open = FALSE]
            /\ install' = [install EXCEPT ![b.app].owner = u]
            /\ links' = links + 1
  BY <1>1, <1>2, <1>5, <1>6
<1>8. QED  BY <1>7 DEF Linking, u

LEMMA LinkType == ASSUME TypeOK, NEW c \in Callbacks, Link(c) PROVE TypeOK'
<1> DEFINE b == callback[c]
           u == claims[b.claim].user
<1>1. Linking(c)
  BY LinkLinks
<1>2. UNCHANGED <<github, sent, reviews, producer, connecting>> /\ callback' = [callback EXCEPT ![c] = Idle]
  BY DEF Link
<1>3. /\ RowsOK' /\ InstallOK' /\ DOMAIN rows \subseteq DOMAIN rows'
      /\ claims' \in Seq(Claimed) /\ DOMAIN claims \subseteq DOMAIN claims' /\ links' \in Nat
  <2>1. CASE UNCHANGED <<claims, install, rows, links>>
    BY <2>1, Same DEF TypeOK, ClaimsOK
  <2>2. CASE /\ claims[b.claim].open /\ Joined(rows', u, b.app)
             /\ claims' = [claims EXCEPT ![b.claim].open = FALSE]
             /\ install' = [install EXCEPT ![b.app].owner = u]
             /\ links' = links + 1
    <3>1. claims' \in Seq(Claimed) /\ DOMAIN claims' = DOMAIN claims
      BY <1>1, <2>2, CloseType DEF Linking
    <3>2. RowsOK' /\ DOMAIN rows \subseteq DOMAIN rows'
      BY <2>2 DEF RowsOK, Joined
    <3>3. InstallOK'
      BY <1>1, <2>2 DEF Linking, TypeOK, InstallOK, Links
    <3>4. QED  BY <2>2, <3>1, <3>2, <3>3 DEF TypeOK, ClaimsOK
  <2>3. QED  BY <1>1, <2>1, <2>2 DEF Linking
<1>4. CallbackOK' /\ ClaimsOK'
  <2>1. Idle.pc # "link"
    BY DEF Idle
  <2>2. QED  BY <1>2, <1>3, <2>1 DEF TypeOK, CallbackOK, ClaimsOK
<1>5. ProducerOK'
  BY <1>2, <1>3, StayType DEF TypeOK, Grow
<1>6. QED  BY <1>2, <1>3, <1>4, <1>5, Same DEF TypeOK

LEMMA AddedType ==
    ASSUME TypeOK, NEW i \in Installs, RepositoryAdded(i)
    PROVE  TypeOK' /\ Joined(rows', install[i].owner, i)
<1>1. install[i].owner \in Users
  BY DEF RepositoryAdded, TypeOK, InstallOK
<1>2. \E r \in First : rows' \in LinkedRows(install[i].owner, i, r)
  BY DEF RepositoryAdded
<1>3. Joined(rows', install[i].owner, i)
  BY <1>1, <1>2, LinkedRowsJoin DEF TypeOK
<1>4. UNCHANGED <<github, sent, install, reviews, producer, connecting, callback, claims, links>>
  BY DEF RepositoryAdded
<1>5. RowsOK' /\ Grow
  BY <1>3, <1>4 DEF Joined, RowsOK, Grow
<1>6. QED  BY <1>3, <1>4, <1>5, StayType, Same DEF TypeOK, Grow

LEMMA OwnersType == ASSUME TypeOK, Owners PROVE TypeOK'
BY FindType, ConnectType, DisconnectType, StateType, InstalledType, UninstalledType,
   CheckCallbackType, LinkType, AddedType, BeginType DEF Owners

\* Every step keeps the types.
LEMMA StepType == ASSUME TypeOK, Next PROVE TypeOK'
<1>1. CASE \E p \in Producers : Produce(p)
  BY <1>1, InsertType, ReserveType, FailType DEF Produce
<1>2. CASE \E h \in Handlers : Webhook(h)
  BY <1>2, DeliverType, AdoptType, RegisterType, DeclineType, CheckQuotaType DEF Webhook
<1>3. CASE Poll
  BY <1>3, BeginType, ForgetType, PollType, RememberType DEF Poll
<1>4. CASE (\E kind \in Kinds : Commit(kind)) \/ CommitHeadless
  BY <1>4, CommitType
<1>5. CASE Owners
  BY <1>5, OwnersType
<1>6. QED  BY <1>1, <1>2, <1>3, <1>4, <1>5 DEF Next

LEMMA StutterType == ASSUME TypeOK, UNCHANGED intake PROVE TypeOK'
BY StayType, Same DEF intake, TypeOK, Grow

\* The connections, reviews and pending work of the intake are what the code's tables and
\* requests may hold; pending work is on a connection and a review that exist.
THEOREM TypeCorrect == Spec => []TypeOK
<1>1. Init => TypeOK
  BY InitType
<1>2. TypeOK /\ [Next]_intake => TypeOK'
  BY StepType, StutterType
<1>3. QED  BY <1>1, <1>2, PTL DEF Spec

-------------------------------------------------------------------------------
(* One review per head *)

\* The index is unique, and only a delivery without a head goes past it.
Unique   == \A i, j \in DOMAIN reviews :
              /\ reviews[i].row = reviews[j].row /\ reviews[i].kind = reviews[j].kind
              /\ reviews[i].sha = reviews[j].sha /\ reviews[i].sha # 0
              => i = j
Declines == \A p \in Producers : producer[p].pc = "decline" => producer[p].sha = 0

Recorded(p) == /\ producer[p] \in Works /\ ~Known(producer[p])
               /\ \E status \in {"QUEUED", "SKIPPED"} : reviews' = Append(reviews, Review(producer[p], status))

LEMMA ReviewsStep ==
    ASSUME TypeOK, Declines, Next
    PROVE  Relabeled \/ \E p \in Producers : Recorded(p)
<1>1. UNCHANGED reviews => Relabeled
  BY SameReviews DEF TypeOK
<1>2. ASSUME NEW p \in Producers, Produce(p) PROVE Relabeled \/ Recorded(p)
  <2>1. CASE Insert(p)
    <3>1. producer[p] \in Works
      BY <2>1, AtWork DEF Insert, Places, TypeOK
    <3>2. QED  BY <1>1, <2>1, <3>1 DEF Insert, Recorded
  <2>2. QED  BY <1>1, <1>2, <2>1, ReserveType DEF Produce, Fail
<1>3. ASSUME NEW h \in Handlers, Webhook(h) PROVE Relabeled \/ Recorded(h)
  <2>1. CASE Decline(h) \/ Refuse(h)
    <3>1. h \in Producers /\ producer[h] \in Works
      BY <2>1, AtWork DEF Decline, Refuse, Places, TypeOK, Producers
    <3>2. Decline(h) => ~Known(producer[h])
      BY <3>1 DEF Decline, Declines, Known
    <3>3. QED  BY <1>1, <2>1, <3>1, <3>2 DEF Decline, Refuse, Recorded
  <2>2. QED  BY <1>1, <1>3, <2>1 DEF Webhook, Deliver, Adopt, Register, CheckQuota
<1>4. Poll => Relabeled
  BY <1>1 DEF Poll, PollStart, Forget, PollHead, PollPulls, Remember
<1>5. Owners => Relabeled
  BY <1>1, DisconnectType, UninstalledType
  DEF Owners, FindConnection, StartInstall, Connect, RequestReview, RepositoryAdded, Installed, Expire,
      Link, CheckCallback
<1>6. (\E kind \in Kinds : Commit(kind)) \/ CommitHeadless => Relabeled
  BY <1>1 DEF Commit, CommitHeadless
<1>7. Handlers \subseteq Producers
  BY DEF Producers
<1>8. QED  BY <1>2, <1>3, <1>4, <1>5, <1>6, <1>7 DEF Next

LEMMA RelabeledUnique == ASSUME Unique, Relabeled PROVE Unique'
BY DEF Unique, Relabeled, SameReview

LEMMA RecordedUnique ==
    ASSUME TypeOK, Unique, NEW p \in Producers, Recorded(p)
    PROVE  Unique'
<1> DEFINE w == producer[p]
           new == Len(reviews) + 1
<1>1. PICK status \in {"QUEUED", "SKIPPED"} : reviews' = Append(reviews, Review(w, status))
  BY DEF Recorded
<1>2. /\ DOMAIN reviews' = DOMAIN reviews \cup {new} /\ new \notin DOMAIN reviews
      /\ \A i \in DOMAIN reviews : reviews'[i] = reviews[i]
      /\ reviews'[new] = Review(w, status)
  BY <1>1, NewReview DEF Recorded, TypeOK
<1>3. reviews'[new].row = w.row /\ reviews'[new].kind = w.kind /\ reviews'[new].sha = w.sha
  BY <1>2 DEF Review
<1>4. \A i \in DOMAIN reviews : ~(/\ reviews[i].row = w.row /\ reviews[i].kind = w.kind
                                  /\ reviews[i].sha = w.sha /\ reviews[i].sha # 0)
  BY DEF Recorded, Known
<1> HIDE DEF new
<1>5. QED  BY <1>2, <1>3, <1>4 DEF Unique

\* Only Deliver begins a work to decline.
LEMMA DeclinesKept == ASSUME TypeOK, Declines, Next PROVE Declines'
<1>1. UNCHANGED producer => Declines'
  BY DEF Declines
<1>2. ASSUME NEW p \in Producers, NEW w, To(p, w), w.pc = "decline" => w.sha = 0 PROVE Declines'
  BY <1>2 DEF Declines, To, TypeOK, ProducerOK
<1>3. ASSUME NEW p \in Producers, To(p, Idle) PROVE Declines'
  BY <1>2, <1>3 DEF Idle
<1>4. ASSUME NEW p \in Producers, producer[p] \in Works, NEW w \in Works, To(p, w), w.pc # "decline" PROVE Declines'
  BY <1>2, <1>4
<1>5. ASSUME NEW p \in Producers, producer[p].pc \in Places, Leave(p) PROVE Declines'
  <2>1. [producer[p] EXCEPT !.pc = "remember"].pc # "decline"
    BY <1>5, AtWork DEF TypeOK, Works
  <2>2. QED  BY <1>2, <1>3, <1>5, <2>1 DEF Leave
<1>6. ASSUME NEW p \in Producers, Produce(p) PROVE Declines'
  <2>1. Fail(p) => Declines'
    BY <1>3, <1>6 DEF Fail
  <2>2. ASSUME producer[p].pc \in {"insert", "reserve", "enqueue"} PROVE producer[p].pc \in Places /\ producer[p] \in Works
    BY <1>6, <2>2, AtWork DEF Places, TypeOK
  <2>3. ASSUME producer[p] \in Works, NEW n PROVE [producer[p] EXCEPT !.pc = "reserve", !.review = n].pc # "decline"
    BY <2>3 DEF Works
  <2>4. ASSUME producer[p] \in Works PROVE [producer[p] EXCEPT !.pc = "enqueue"].pc # "decline"
    BY <2>4 DEF Works
  <2>5. Insert(p) => Declines'
    BY <1>2, <1>5, <1>6, <2>2, <2>3 DEF Insert
  <2>6. Reserve(p) => Declines'
    BY <1>2, <1>3, <1>5, <1>6, <2>2, <2>4 DEF Reserve
  <2>7. Enqueue(p) => Declines'
    BY <1>5, <1>6, <2>2 DEF Enqueue
  <2>8. QED  BY <1>6, <2>1, <2>5, <2>6, <2>7 DEF Produce
<1>7. ASSUME NEW h \in Handlers, Webhook(h) PROVE Declines'
  <2>0. h \in Producers
    BY DEF Producers
  <2>1. ASSUME NEW d \in sent, Deliver(h, d) PROVE Declines'
    <3>1. [pc |-> "adopt", delivery |-> d].pc # "decline"
      OBVIOUS
    <3>2. \A r, sha, base : /\ Work("quota", r, d.kind, sha, base).pc # "decline"
                            /\ Work("decline", r, d.kind, sha, base).sha = sha
      BY DEF Work
    <3>3. QED  BY <1>2, <2>0, <2>1, <3>1, <3>2 DEF Deliver
  <2>2. Adopt(h) \/ Register(h) => Declines'
    <3>1. \A d, u : [pc |-> "register", delivery |-> d, user |-> u].pc # "decline"
      OBVIOUS
    <3>2. \A r, k, s, b, v, pc : LET w == [pc |-> pc, row |-> r, kind |-> k, sha |-> s,
                                           base |-> b, via |-> v, review |-> 0] IN w.pc = pc /\ w.sha = s
      OBVIOUS
    <3>3. Adopt(h) => Declines'
      BY <1>2, <1>3, <2>0, <3>1 DEF Adopt
    <3>4. Register(h) => Declines'
      BY <1>2, <1>3, <2>0, <3>2 DEF Register
    <3>5. QED  BY <3>3, <3>4
  <2>3. Decline(h) \/ Refuse(h) => Declines'
    BY <1>3, <2>0 DEF Decline, Refuse
  <2>4. CheckQuota(h) => Declines'
    <3>1. CheckQuota(h) => producer[h] \in Works
      BY <2>0, AtWork DEF CheckQuota, Places, TypeOK
    <3>2. \A v \in Works : \A pc \in {"insert", "refuse"} : [v EXCEPT !.pc = pc].pc # "decline"
      BY DEF Works
    <3>3. CheckQuota(h) => To(h, Idle) \/ \E pc \in {"insert", "refuse"} : To(h, [producer[h] EXCEPT !.pc = pc])
      BY DEF CheckQuota
    <3>4. QED  BY <1>2, <1>3, <2>0, <3>1, <3>2, <3>3
  <2>5. QED  BY <1>7, <2>1, <2>2, <2>3, <2>4 DEF Webhook
<1>8. Poll => Declines'
  <2>0. Poller \in Producers
    BY DEF Producers
  <2>1. ASSUME NEW r, PollStart(r) PROVE Declines'
    BY <1>2, <2>0, <2>1 DEF PollStart, Work
  <2>2. PollHead \/ PollPulls \/ Remember => producer[Poller] \in Works
    BY <2>0, AtWork DEF PollHead, PollPulls, Remember, Places, TypeOK
  <2>3. \A v \in Works : \A sha, kind : \A pc \in {"pulls", "remember", "insert"} :
          /\ [v EXCEPT !.sha = sha, !.pc = pc].pc # "decline"
          /\ [v EXCEPT !.kind = kind, !.sha = sha, !.pc = pc].pc # "decline"
          /\ [v EXCEPT !.pc = pc].pc # "decline"
    BY DEF Works
  <2>4. PollHead => \E pc \in {"pulls", "remember", "insert"} :
                      To(Poller, [producer[Poller] EXCEPT !.sha = github.PUSH, !.pc = pc])
    BY DEF PollHead
  <2>5. PollHead \/ PollPulls \/ Remember => Declines'
    BY <1>2, <1>3, <2>0, <2>2, <2>3, <2>4 DEF PollPulls, Remember
  <2>6. QED  BY <1>1, <2>1, <2>5 DEF Poll, Forget
<1>9. ASSUME NEW r, NEW kind \in Kinds, RequestReview(r, kind) PROVE Declines'
  <2>1. Manual \in Producers
    BY DEF Producers
  <2>2. Work("insert", r, kind, 0, 0).pc # "decline"
    BY DEF Work
  <2>3. QED  BY <1>2, <1>9, <2>1, <2>2 DEF RequestReview
<1>10. Owners => Declines'
  BY <1>1, <1>9
  DEF Owners, FindConnection, StartInstall, Connect, Disconnect, RepositoryAdded, RepositoryRemoved,
      Installed, Uninstalled, Expire, Link, CheckCallback
<1>11. (\E kind \in Kinds : Commit(kind)) \/ CommitHeadless => Declines'
  BY <1>1 DEF Commit, CommitHeadless
<1>12. QED  BY <1>6, <1>7, <1>8, <1>10, <1>11 DEF Next

\* A commit of a connection is charged at most once, however often GitHub delivers it and
\* the poller sees it, and however many of them look at it at once: the index is unique.
THEOREM HeadReviewedOnce == Spec => []OneReviewPerHead
<1> DEFINE Inv == TypeOK /\ Unique /\ Declines
<1>1. Init => Inv
  <2>1. Init => Unique /\ Declines
    BY DEF Init, Unique, Declines, Idle
  <2>2. QED  BY <2>1, InitType
<1>2. Inv /\ [Next]_intake => Inv'
  <2>1. Inv /\ Next => Inv'
    BY StepType, ReviewsStep, RelabeledUnique, RecordedUnique, DeclinesKept
  <2>2. Inv /\ UNCHANGED intake => Inv'
    BY StutterType DEF intake, Unique, Declines
  <2>3. QED  BY <2>1, <2>2
<1>3. Inv => OneReviewPerHead
  BY DEF Unique, OneReviewPerHead, Charged
<1>4. QED  BY <1>1, <1>2, <1>3, PTL DEF Spec

-------------------------------------------------------------------------------
(* What a producer's step makes of its work *)

LEMMA Apart == Poller \in Producers /\ Manual \in Producers /\ Poller # Manual
               /\ Poller \notin Handlers /\ Manual \notin Handlers
BY IntakeAssumption DEF Poller, Manual, Producers

LEMMA ToFacts ==
    ASSUME ProducerOK, NEW p \in Producers, NEW w, To(p, w)
    PROVE  producer'[p] = w /\ \A q \in Producers \ {p} : producer'[q] = producer[q]
BY DEF To, ProducerOK

\* What the shared steps make of a work.
LEMMA Produced ==
    ASSUME TypeOK, NEW p \in Producers, Produce(p)
    PROVE  \E w : /\ To(p, w) /\ UNCHANGED <<github, sent, rows>>
                  /\ \/ w = Idle /\ Relabeled
                     \/ /\ producer[p] \in Works /\ Working(producer[p]) /\ w \in Works
                        /\ w.row = producer[p].row /\ w.kind = producer[p].kind
                        /\ w.sha = producer[p].sha /\ w.base = producer[p].base
                        /\ \/ w.pc = "remember" /\ p = Poller /\ producer[p].pc \in {"reserve", "enqueue"} /\ Relabeled
                           \/ w.pc = "remember" /\ p = Poller /\ producer[p].pc = "insert" /\ Known(producer[p]) /\ Relabeled
                           \/ w.pc = "reserve" /\ producer[p].pc = "insert" /\ Recorded(p)
                           \/ w.pc = "enqueue" /\ producer[p].pc = "reserve" /\ Relabeled
<1> DEFINE v == producer[p]
<1>0. UNCHANGED <<github, sent, rows>>
  BY DEF Produce, Insert, Reserve, Enqueue, Fail
<1>1. CASE Fail(p)
  <2>1. To(p, Idle) /\ Relabeled
    BY <1>1, SameReviews DEF Fail, TypeOK
  <2>2. QED  BY <1>0, <2>1
<1>2. CASE Insert(p) \/ Reserve(p) \/ Enqueue(p)
  <2>1. v.pc \in Places /\ v.pc \in {"insert", "reserve", "enqueue"}
    BY <1>2 DEF Insert, Reserve, Enqueue, Places
  <2>2. v \in Works /\ Working(v)
    BY <2>1, AtWork DEF TypeOK
  <2>3. /\ [v EXCEPT !.pc = "remember"] \in Works /\ [v EXCEPT !.pc = "remember"].row = v.row
        /\ [v EXCEPT !.pc = "remember"].kind = v.kind /\ [v EXCEPT !.pc = "remember"].sha = v.sha
        /\ [v EXCEPT !.pc = "remember"].base = v.base /\ [v EXCEPT !.pc = "remember"].pc = "remember"
    BY <2>2 DEF Works, Places
  <2>4. UNCHANGED reviews => Relabeled
    BY SameReviews DEF TypeOK
  <2>5. Leave(p) => \E w : /\ To(p, w)
                           /\ w = Idle \/ /\ w \in Works /\ w.row = v.row /\ w.kind = v.kind /\ w.sha = v.sha
                                          /\ w.base = v.base /\ w.pc = "remember" /\ p = Poller
    BY <2>3 DEF Leave
  <2>6. CASE Reserve(p) \/ Enqueue(p)
    <3>1. Relabeled
      BY <2>6, ReserveType
    <3>2. v.pc \in {"reserve", "enqueue"}
      BY <2>6 DEF Reserve, Enqueue
    <3>3. To(p, Idle) \/ Leave(p) \/ (v.pc = "reserve" /\ To(p, [v EXCEPT !.pc = "enqueue"]))
      BY <2>6 DEF Reserve, Enqueue
    <3>4. /\ [v EXCEPT !.pc = "enqueue"] \in Works /\ [v EXCEPT !.pc = "enqueue"].row = v.row
          /\ [v EXCEPT !.pc = "enqueue"].kind = v.kind /\ [v EXCEPT !.pc = "enqueue"].sha = v.sha
          /\ [v EXCEPT !.pc = "enqueue"].base = v.base /\ [v EXCEPT !.pc = "enqueue"].pc = "enqueue"
      BY <2>2 DEF Works, Places
    <3>5. QED  BY <1>0, <2>2, <2>5, <3>1, <3>2, <3>3, <3>4
  <2>7. CASE Insert(p)
    <3>1. CASE Known(v)
      BY <1>0, <2>2, <2>4, <2>5, <2>7, <3>1 DEF Insert
    <3>2. CASE ~Known(v)
      <4>1. PICK w : w = [v EXCEPT !.pc = "reserve", !.review = Len(reviews) + 1]
        OBVIOUS
      <4>2. Len(reviews) + 1 \in Nat
        BY LenProperties DEF TypeOK, ReviewsOK
      <4>3. /\ w \in Works /\ w.row = v.row /\ w.kind = v.kind /\ w.sha = v.sha
            /\ w.base = v.base /\ w.pc = "reserve"
        BY <2>2, <4>1, <4>2 DEF Works, Places
      <4>4. To(p, w) /\ v.pc = "insert" /\ Recorded(p)
        BY <2>2, <2>7, <3>2, <4>1 DEF Insert, Recorded
      <4>5. QED  BY <1>0, <2>2, <4>3, <4>4
    <3>3. QED  BY <3>1, <3>2
  <2>8. QED  BY <1>2, <2>6, <2>7
<1>3. QED  BY <1>1, <1>2 DEF Produce

-------------------------------------------------------------------------------
(* Installations and accounts *)

Closed(cs) == {k \in DOMAIN cs : ~cs[k].open}

\* A pending callback was believed because of the account of its state.
Made == /\ \A i \in Installs : install[i].owner \in {None, install[i].creator}
        /\ \A c \in Callbacks : callback[c].pc = "link" =>
              install[callback[c].app].creator = claims[callback[c].claim].user
        /\ links <= Cardinality(Closed(claims))

LEMMA ClosedFinite ==
    ASSUME ClaimsOK
    PROVE  IsFiniteSet(Closed(claims)) /\ Cardinality(Closed(claims)) \in Nat
<1>1. IsFiniteSet(DOMAIN claims) /\ Closed(claims) \subseteq DOMAIN claims
  BY Elements DEF ClaimsOK, Closed
<1>2. QED  BY <1>1, FS_Subset, FS_CardinalityType

\* Closing an open state adds it to those closed.
LEMMA OneMoreClosed ==
    ASSUME TypeOK, NEW k \in DOMAIN claims, claims[k].open, claims' = [claims EXCEPT ![k].open = FALSE]
    PROVE  Cardinality(Closed(claims')) = Cardinality(Closed(claims)) + 1
<1>1. /\ DOMAIN claims' = DOMAIN claims /\ ~claims'[k].open
      /\ \A j \in DOMAIN claims \ {k} : claims'[j] = claims[j]
  BY CloseType
<1>2. Closed(claims') = Closed(claims) \cup {k} /\ k \notin Closed(claims)
  BY <1>1 DEF Closed
<1>3. QED  BY <1>2, ClosedFinite, FS_AddElement DEF TypeOK

\* Everything but the App stays out of it.
LEMMA MadeSame ==
    ASSUME Made, UNCHANGED <<install, callback, claims, links>>
    PROVE  Made'
BY DEF Made

LEMMA MadeLink == ASSUME TypeOK, Made, NEW c \in Callbacks, Link(c) PROVE Made'
<1> DEFINE b == callback[c]
           u == claims[b.claim].user
<1>1. Linking(c)
  BY LinkLinks
<1>2. callback' = [callback EXCEPT ![c] = Idle] /\ b.pc = "link"
  BY DEF Link
<1>3. Idle.pc # "link"
  BY DEF Idle
<1>4. CASE UNCHANGED <<claims, install, rows, links>>
  BY <1>2, <1>3, <1>4 DEF Made, TypeOK, CallbackOK
<1>5. CASE /\ claims[b.claim].open
           /\ claims' = [claims EXCEPT ![b.claim].open = FALSE]
           /\ install' = [install EXCEPT ![b.app].owner = u]
           /\ links' = links + 1
  <2>1. b \in Links /\ b.claim \in DOMAIN claims /\ b.app \in Installs /\ install[b.app].creator = u
    BY <1>1, <1>2 DEF Linking, Links, Made
  <2>2. \A j \in DOMAIN claims : claims'[j].user = claims[j].user
    BY <1>5, <2>1, CloseType
  <2>3. \A i \in Installs : install'[i].creator = install[i].creator /\ install'[i].owner \in {None, install'[i].creator}
    BY <1>5, <2>1 DEF Made, TypeOK, InstallOK
  <2>4. links' <= Cardinality(Closed(claims'))
    <3>1. Cardinality(Closed(claims')) = Cardinality(Closed(claims)) + 1
      BY <1>5, <2>1, OneMoreClosed
    <3>2. links \in Nat /\ Cardinality(Closed(claims)) \in Nat /\ links <= Cardinality(Closed(claims))
      BY ClosedFinite DEF TypeOK, ClaimsOK, Made
    <3>3. QED  BY <1>5, <3>1, <3>2
  <2>5. \A a \in Callbacks : callback'[a].pc = "link" =>
          install'[callback'[a].app].creator = claims'[callback'[a].claim].user
    <3>1. ASSUME NEW a \in Callbacks, callback'[a].pc = "link"
          PROVE  install'[callback'[a].app].creator = claims'[callback'[a].claim].user
      <4>1. a # c /\ callback'[a] = callback[a]
        BY <1>2, <1>3, <3>1 DEF TypeOK, CallbackOK
      <4>2. callback[a] \in Links /\ callback[a].claim \in DOMAIN claims
        BY <3>1, <4>1 DEF TypeOK, CallbackOK, Idle
      <4>3. callback[a].app \in Installs
        BY <4>2 DEF Links
      <4>4. install[callback[a].app].creator = claims[callback[a].claim].user
        BY <3>1, <4>1 DEF Made
      <4>5. QED  BY <2>2, <2>3, <4>1, <4>2, <4>3, <4>4
    <3>2. QED  BY <3>1
  <2>6. QED  BY <2>3, <2>4, <2>5 DEF Made
<1>6. QED  BY <1>1, <1>4, <1>5 DEF Linking

LEMMA MadeState ==
    ASSUME TypeOK, Made, \/ \E u \in Users : StartInstall(u)
                         \/ \E k \in DOMAIN claims : Expire(k)
    PROVE  Made'
<1>1. UNCHANGED <<install, callback, links>>
  BY DEF StartInstall, Expire
<1>2. /\ \A j \in DOMAIN claims : claims'[j].user = claims[j].user
      /\ links <= Cardinality(Closed(claims'))
  <2>1. ASSUME NEW k \in DOMAIN claims, Expire(k)
        PROVE  /\ \A j \in DOMAIN claims : claims'[j].user = claims[j].user
               /\ links <= Cardinality(Closed(claims'))
    <3>1. claims[k].open /\ claims' = [claims EXCEPT ![k].open = FALSE]
      BY <2>1 DEF Expire
    <3>2. Cardinality(Closed(claims')) = Cardinality(Closed(claims)) + 1
      BY <3>1, OneMoreClosed
    <3>3. links \in Nat /\ Cardinality(Closed(claims)) \in Nat /\ links <= Cardinality(Closed(claims))
      BY ClosedFinite DEF TypeOK, ClaimsOK, Made
    <3>4. QED  BY <3>1, <3>2, <3>3, CloseType
  <2>2. ASSUME NEW u \in Users, StartInstall(u)
        PROVE  /\ \A j \in DOMAIN claims : claims'[j].user = claims[j].user
               /\ links <= Cardinality(Closed(claims'))
    <3>1. PICK e : e = [user |-> u, open |-> TRUE]
      OBVIOUS
    <3>2. e \in Claimed /\ e.open /\ claims \in Seq(Claimed)
      BY <3>1 DEF Claimed, TypeOK, ClaimsOK
    <3>3. claims' = Append(claims, e)
      BY <2>2, <3>1 DEF StartInstall
    <3>4. /\ DOMAIN Append(claims, e) = DOMAIN claims \cup {Len(claims) + 1}
          /\ Len(claims) + 1 \notin DOMAIN claims
          /\ \A j \in DOMAIN claims : Append(claims, e)[j] = claims[j]
          /\ Append(claims, e)[Len(claims) + 1] = e
      BY <3>2, Appended
    <3>5. Closed(claims') = Closed(claims)
      BY <3>2, <3>3, <3>4 DEF Closed
    <3>6. QED  BY <3>3, <3>4, <3>5 DEF Made
  <2>3. QED  BY <2>1, <2>2
<1>3. \A c \in Callbacks : callback[c].pc = "link" => callback[c].claim \in DOMAIN claims
  BY DEF TypeOK, CallbackOK
<1>4. QED  BY <1>1, <1>2, <1>3 DEF Made

\* An id of GitHub is used once: no callback waits for an installation that is not made.
LEMMA MadeInstalled ==
    ASSUME TypeOK, Made, NEW i \in Installs, (\E u \in Users : Installed(i, u)) \/ Uninstalled(i)
    PROVE  Made'
<1>1. UNCHANGED <<callback, claims, links>>
  BY DEF Installed, Uninstalled
<1>2. /\ \A j \in Installs : install'[j].owner \in {None, install'[j].creator}
      /\ \A j \in Installs : install[j].creator # None => install'[j].creator = install[j].creator
  <2>1. ASSUME NEW e, install' = [install EXCEPT ![i] = e], e.owner = None,
               install[i].creator = None \/ e.creator = install[i].creator
        PROVE  /\ \A j \in Installs : install'[j].owner \in {None, install'[j].creator}
               /\ \A j \in Installs : install[j].creator # None => install'[j].creator = install[j].creator
    BY <2>1 DEF Made, TypeOK, InstallOK
  <2>2. ASSUME NEW u \in Users, Installed(i, u)
        PROVE  \E e : /\ install' = [install EXCEPT ![i] = e] /\ e.owner = None
                      /\ install[i].creator = None \/ e.creator = install[i].creator
    <3>1. PICK e : e = [there |-> TRUE, creator |-> u, owner |-> None]
      OBVIOUS
    <3>2. e.owner = None /\ install' = [install EXCEPT ![i] = e] /\ install[i].creator = None
      BY <2>2, <3>1 DEF Installed
    <3>3. QED  BY <3>2
  <2>3. ASSUME Uninstalled(i)
        PROVE  \E e : /\ install' = [install EXCEPT ![i] = e] /\ e.owner = None
                      /\ install[i].creator = None \/ e.creator = install[i].creator
    <3>1. install[i] \in [there : BOOLEAN, creator : Users \cup {None}, owner : Users \cup {None}]
      BY DEF TypeOK, InstallOK
    <3>2. PICK e : e = [install[i] EXCEPT !.there = FALSE, !.owner = None]
      OBVIOUS
    <3>3. e.owner = None /\ e.creator = install[i].creator
      BY <3>1, <3>2
    <3>4. install' = [install EXCEPT ![i] = e]
      BY <2>3, <3>1, <3>2 DEF Uninstalled, TypeOK, InstallOK
    <3>5. QED  BY <3>3, <3>4
  <2>4. QED  BY <2>1, <2>2, <2>3
<1>3. ASSUME NEW c \in Callbacks, callback[c].pc = "link"
      PROVE  install'[callback[c].app].creator = claims[callback[c].claim].user
  <2>1. callback[c] \in Links /\ callback[c].claim \in DOMAIN claims
    BY <1>3 DEF TypeOK, CallbackOK, Idle
  <2>2. callback[c].app \in Installs
    BY <2>1 DEF Links
  <2>3. claims \in [DOMAIN claims -> Claimed]
    BY Elements DEF TypeOK, ClaimsOK
  <2>4. claims[callback[c].claim].user \in Users
    BY <2>1, <2>3 DEF Claimed
  <2>5. install[callback[c].app].creator = claims[callback[c].claim].user
    BY <1>3 DEF Made
  <2>6. QED  BY <1>2, <2>2, <2>4, <2>5, IntakeAssumption
<1>4. QED  BY <1>1, <1>2, <1>3 DEF Made

LEMMA MadeChecked ==
    ASSUME TypeOK, Made, NEW c \in Callbacks, NEW k \in DOMAIN claims, NEW i \in Installs, CheckCallback(c, k, i)
    PROVE  Made'
<1>1. UNCHANGED <<install, claims, links>> /\ callback' = [callback EXCEPT ![c] = [pc |-> "link", claim |-> k, app |-> i]]
      /\ install[i].creator = claims[k].user
  BY DEF CheckCallback, Confirmed
<1>2. QED  BY <1>1 DEF Made, TypeOK, CallbackOK

LEMMA MadeKept == ASSUME TypeOK, Made, Next PROVE Made'
<1>1. CASE Owners
  BY <1>1, MadeSame, MadeLink, MadeState, MadeInstalled, MadeChecked
  DEF Owners, FindConnection, Connect, Disconnect, RequestReview, RepositoryAdded, RepositoryRemoved
<1>2. CASE \E p \in Producers : Produce(p)
  BY <1>2, MadeSame DEF Produce, Insert, Reserve, Enqueue, Fail
<1>3. CASE \E h \in Handlers : Webhook(h)
  BY <1>3, MadeSame DEF Webhook, Deliver, Adopt, Register, Decline, CheckQuota, Refuse
<1>4. CASE Poll
  BY <1>4, MadeSame DEF Poll, PollStart, Forget, PollHead, PollPulls, Remember
<1>5. CASE (\E kind \in Kinds : Commit(kind)) \/ CommitHeadless
  BY <1>5, MadeSame DEF Commit, CommitHeadless
<1>6. QED  BY <1>1, <1>2, <1>3, <1>4, <1>5 DEF Next

LEMMA MadeInit == ASSUME Init PROVE Made
<1>1. Closed(claims) = {}
  BY DEF Init, Closed
<1>2. links = 0 /\ Cardinality(Closed(claims)) = 0
  BY <1>1, FS_EmptySet DEF Init
<1>3. QED  BY <1>2 DEF Init, Made, Idle

\* An installation belongs to nobody or to the account GitHub named as its maker, and a
\* state handed to a browser links at most once, however many callbacks carry it: the claim is
\* checked against the installation, and consumed by the transaction that links.
THEOREM InstallerLinks == Spec => []LinkedByInstaller
<1>1. Init => TypeOK /\ Made
  BY InitType, MadeInit
<1>2. TypeOK /\ Made /\ [Next]_intake => TypeOK' /\ Made'
  <2>1. TypeOK /\ Made /\ Next => TypeOK' /\ Made'
    BY StepType, MadeKept
  <2>2. TypeOK /\ Made /\ UNCHANGED intake => TypeOK' /\ Made'
    BY StutterType, MadeSame DEF intake
  <2>3. QED  BY <2>1, <2>2
<1>3. Made => LinkedByInstaller
  BY DEF Made, LinkedByInstaller, Closed
<1>4. QED  BY <1>1, <1>2, <1>3, PTL DEF Spec

-------------------------------------------------------------------------------
(* Installations stay with their account *)

\* An installation keeps its maker, and, while it is there, its owner or the maker owns it.
Settled == \A i \in Installs : install[i].creator # None =>
              /\ install'[i].creator = install[i].creator
              /\ install'[i].there => /\ install[i].there
                                      /\ install'[i].owner \in {install[i].owner, install[i].creator}

LEMMA SettledLink == ASSUME TypeOK, Made, NEW c \in Callbacks, Link(c) PROVE Settled
<1> DEFINE b == callback[c]
           u == claims[b.claim].user
<1>1. Linking(c) /\ b.pc = "link"
  BY LinkLinks DEF Link
<1>2. b.app \in Installs /\ install[b.app].creator = u
  BY <1>1 DEF Linking, Links, Made
<1>3. UNCHANGED install \/ install' = [install EXCEPT ![b.app].owner = u]
  BY <1>1 DEF Linking
<1>4. install' = [install EXCEPT ![b.app].owner = u] =>
        \A i \in Installs : /\ install'[i].creator = install[i].creator /\ install'[i].there = install[i].there
                            /\ install'[i].owner = install[i].owner \/ (i = b.app /\ install'[i].owner = u)
  BY <1>2 DEF TypeOK, InstallOK
<1> HIDE DEF b, u
<1>5. QED  BY <1>2, <1>3, <1>4 DEF Settled

LEMMA SettledInstalled ==
    ASSUME TypeOK, NEW i \in Installs, (\E u \in Users : Installed(i, u)) \/ Uninstalled(i)
    PROVE  Settled
<1>1. CASE \E u \in Users : Installed(i, u)
  <2>1. install[i].creator = None /\ \A j \in Installs \ {i} : install'[j] = install[j]
    BY <1>1 DEF Installed, TypeOK, InstallOK
  <2>2. QED  BY <2>1 DEF Settled
<1>2. CASE Uninstalled(i)
  <2>1. install[i] \in [there : BOOLEAN, creator : Users \cup {None}, owner : Users \cup {None}]
    BY DEF TypeOK, InstallOK
  <2>2. PICK e : e = [install[i] EXCEPT !.there = FALSE, !.owner = None]
    OBVIOUS
  <2>3. ~e.there /\ e.creator = install[i].creator
    BY <2>1, <2>2
  <2>4. install' = [install EXCEPT ![i] = e]
    BY <1>2, <2>1, <2>2 DEF Uninstalled, TypeOK, InstallOK
  <2>5. install'[i] = e /\ \A j \in Installs \ {i} : install'[j] = install[j]
    BY <2>4 DEF TypeOK, InstallOK
  <2>6. QED  BY <2>3, <2>5 DEF Settled
<1>3. QED  BY <1>1, <1>2

LEMMA SettledStep == ASSUME TypeOK, Made, Next PROVE Settled
<1>1. UNCHANGED install => Settled
  BY DEF Settled
<1>2. CASE Owners
  BY <1>1, <1>2, SettledLink, SettledInstalled
  DEF Owners, FindConnection, StartInstall, Expire, Connect, Disconnect, RequestReview, RepositoryAdded,
      RepositoryRemoved, CheckCallback
<1>3. CASE \E p \in Producers : Produce(p)
  BY <1>1, <1>3 DEF Produce, Insert, Reserve, Enqueue, Fail
<1>4. CASE \E h \in Handlers : Webhook(h)
  BY <1>1, <1>4 DEF Webhook, Deliver, Adopt, Register, Decline, CheckQuota, Refuse
<1>5. CASE Poll
  BY <1>1, <1>5 DEF Poll, PollStart, Forget, PollHead, PollPulls, Remember
<1>6. CASE (\E kind \in Kinds : Commit(kind)) \/ CommitHeadless
  BY <1>1, <1>6 DEF Commit, CommitHeadless
<1>7. QED  BY <1>2, <1>3, <1>4, <1>5, <1>6 DEF Next

\* An installation never passes from one account to another: its owner is its maker.
LEMMA StepOwners == ASSUME TypeOK, Made, Made', Settled PROVE InstallationsStay
<1>1. ASSUME NEW i \in Installs, install[i].owner # None PROVE install'[i].owner \in {None, install[i].owner}
  <2>1. install[i].owner = install[i].creator
    BY <1>1 DEF Made
  <2>2. install'[i].creator = install[i].creator
    BY <1>1, <2>1 DEF Settled
  <2>3. QED  BY <2>1, <2>2 DEF Made
<1>2. QED  BY <1>1 DEF InstallationsStay

\* The account a delivery has read is the maker's, and still the owner's while the
\* installation is there.
Reads(w)    == LET i == install[w.delivery.via] IN
               w.pc = "register" => i.creator = w.user /\ (i.there => i.owner = w.user)
Registering == \A p \in Producers : Reads(producer[p])

LEMMA ReadsStay ==
    ASSUME TypeOK, Settled, NEW p \in Producers, Reads(producer[p])
    PROVE  producer'[p] = producer[p] => Reads(producer[p])'
<1> DEFINE w == producer[p]
<1>1. ASSUME w.pc = "register"
      PROVE  install'[w.delivery.via].creator = w.user
             /\ (install'[w.delivery.via].there => install'[w.delivery.via].owner = w.user)
  <2>1. w \in Adoptions
    BY <1>1 DEF TypeOK, ProducerOK, Doing, Working, Works, Idle, Places
  <2>2. w.user \in Users /\ w.delivery.via \in Installs
    BY <1>1, <2>1 DEF Adoptions, Arrivals
  <2>3. install[w.delivery.via].creator = w.user /\ (install[w.delivery.via].there => install[w.delivery.via].owner = w.user)
    BY <1>1 DEF Reads
  <2>4. install[w.delivery.via].creator # None
    BY <2>2, <2>3, IntakeAssumption
  <2>5. QED  BY <2>2, <2>3, <2>4 DEF Settled
<1>2. QED  BY <1>1 DEF Reads

\* Only Adopt begins to register.
LEMMA Begins ==
    ASSUME TypeOK, Next, NEW p \in Producers, producer'[p] # producer[p], producer'[p].pc = "register"
    PROVE  p \in Handlers /\ Adopt(p) /\ producer'[p].pc = "register"
<1>1. ASSUME NEW q \in Producers, NEW w, To(q, w), w.pc # "register" PROVE FALSE
  BY <1>1, ToFacts DEF TypeOK
<1>2. producer' # producer
  OBVIOUS
<1>3. ASSUME NEW q \in Producers, To(q, Idle) PROVE FALSE
  BY <1>1, <1>3 DEF Idle
<1>4. Next => \/ \E q \in Producers : Produce(q)
              \/ \E h \in Handlers : Webhook(h)
              \/ PollHead \/ PollPulls \/ Remember \/ \E r : PollStart(r)
              \/ \E r, kind : RequestReview(r, kind)
  BY <1>2
  DEF Next, Commit, CommitHeadless, Poll, Forget, Owners, FindConnection, StartInstall, Connect, Disconnect,
      Uninstalled, RepositoryAdded, RepositoryRemoved, Installed, Expire, Link, CheckCallback
<1>5. ASSUME NEW q \in Producers, Produce(q) PROVE FALSE
  <2>1. PICK w : To(q, w) /\ (w = Idle \/ w.pc \in {"remember", "reserve", "enqueue"})
    BY <1>5, Produced
  <2>2. QED  BY <1>1, <1>3, <2>1
<1>6. ASSUME \E r : PollStart(r) \/ \E kind : RequestReview(r, kind) PROVE FALSE
  BY <1>1, <1>6, Apart DEF PollStart, RequestReview, Work
<1>7. ASSUME PollHead \/ PollPulls \/ Remember PROVE FALSE
  <2>1. producer[Poller] \in Works
    BY <1>7, Apart, AtWork DEF PollHead, PollPulls, Remember, Places, TypeOK
  <2>2. \A v \in Works : \A sha, kind : \A pc \in {"pulls", "remember", "insert"} :
          /\ [v EXCEPT !.sha = sha, !.pc = pc].pc # "register"
          /\ [v EXCEPT !.kind = kind, !.sha = sha, !.pc = pc].pc # "register"
          /\ [v EXCEPT !.pc = pc].pc # "register"
    BY DEF Works
  <2>3. PollHead => \E pc \in {"pulls", "remember", "insert"} :
                      To(Poller, [producer[Poller] EXCEPT !.sha = github.PUSH, !.pc = pc])
    BY DEF PollHead
  <2>4. QED  BY <1>1, <1>3, <1>7, <2>1, <2>2, <2>3, Apart DEF PollPulls, Remember
<1>8. ASSUME NEW h \in Handlers, Webhook(h), ~Adopt(h) PROVE FALSE
  <2>0. h \in Producers
    BY DEF Producers
  <2>1. ASSUME NEW d \in sent, Deliver(h, d) PROVE FALSE
    <3>1. [pc |-> "adopt", delivery |-> d].pc # "register"
      OBVIOUS
    <3>2. \A r, sha, base, pc : Work(pc, r, d.kind, sha, base).pc = pc
      BY DEF Work
    <3>3. QED  BY <1>1, <2>0, <2>1, <3>1, <3>2 DEF Deliver
  <2>2. ASSUME Register(h) PROVE FALSE
    <3>1. \A r, k, s, b, v, pc : [pc |-> pc, row |-> r, kind |-> k, sha |-> s,
                                  base |-> b, via |-> v, review |-> 0].pc = pc
      OBVIOUS
    <3>2. QED  BY <1>1, <1>3, <2>0, <2>2, <3>1 DEF Register
  <2>3. ASSUME CheckQuota(h) PROVE FALSE
    <3>1. producer[h] \in Works
      BY <2>0, <2>3, AtWork DEF CheckQuota, Places, TypeOK
    <3>2. \A v \in Works : \A pc \in {"insert", "refuse"} : [v EXCEPT !.pc = pc].pc # "register"
      BY DEF Works
    <3>3. To(h, Idle) \/ \E pc \in {"insert", "refuse"} : To(h, [producer[h] EXCEPT !.pc = pc])
      BY <2>3 DEF CheckQuota
    <3>4. QED  BY <1>1, <1>3, <2>0, <3>1, <3>2, <3>3
  <2>4. QED  BY <1>3, <1>8, <2>0, <2>1, <2>2, <2>3 DEF Webhook, Decline, Refuse
<1>9. PICK h \in Handlers : Adopt(h)
  BY <1>4, <1>5, <1>6, <1>7, <1>8
<1>10. h = p
  <2>1. h \in Producers /\ \E w : To(h, w)
    BY <1>9 DEF Adopt, Producers
  <2>2. QED  BY <2>1, ToFacts DEF TypeOK
<1>11. QED  BY <1>9, <1>10

LEMMA RegisteringKept == ASSUME TypeOK, Made, Registering, Settled, Next PROVE Registering'
<1>1. ASSUME NEW p \in Producers PROVE Reads(producer[p])'
  <2>1. CASE producer'[p] = producer[p]
    BY <2>1, ReadsStay DEF Registering
  <2>2. CASE producer'[p].pc # "register"
    BY <2>2 DEF Reads
  <2>3. CASE producer'[p] # producer[p] /\ producer'[p].pc = "register"
    <3> DEFINE d == producer[p].delivery
               i == install[d.via]
    <3>1. p \in Handlers /\ Adopt(p)
      BY <2>3, Begins
    <3>2. UNCHANGED install /\ d.via \in Installs /\ Idle.pc # "register"
      BY <3>1, Adopting DEF Adopt, Idle
    <3>3. i.there /\ i.owner # None /\ producer'[p] = [pc |-> "register", delivery |-> d, user |-> i.owner]
      BY <2>3, <3>1, <3>2, ToFacts DEF Adopt, TypeOK
    <3>4. i.creator = i.owner
      BY <3>2, <3>3 DEF Made
    <3>5. producer'[p].delivery = d /\ producer'[p].user = i.owner
      BY <3>3
    <3>6. QED  BY <3>2, <3>4, <3>5 DEF Reads
  <2>4. QED  BY <2>1, <2>2, <2>3
<1>2. QED  BY <1>1 DEF Registering

-------------------------------------------------------------------------------
(* Connections stay with their account *)

LEMMA SameBounded == ASSUME UNCHANGED rows PROVE ConnectionsStay
BY DEF ConnectionsStay

\* A connection stays where it is, or leaves its installation; a new one belongs to none.
LEMMA StayBounded ==
    ASSUME \A r \in DOMAIN rows : rows'[r].user = rows[r].user /\ rows'[r].via \in {rows[r].via, None},
           \A r \in DOMAIN rows' \ DOMAIN rows : rows'[r].via = None
    PROVE  ConnectionsStay
BY DEF ConnectionsStay

\* What joins an installation joins that of its account.
LEMMA JoinedBounded ==
    ASSUME NEW u, NEW i, Joined(rows', u, i), install'[i].owner = u
    PROVE  ConnectionsStay
BY DEF ConnectionsStay, Joined

LEMMA StepBounded == ASSUME TypeOK, Registering, Next PROVE ConnectionsStay
<1>1. CASE \E p \in Producers : Produce(p)
  BY <1>1, SameBounded DEF Produce, Insert, Reserve, Enqueue, Fail
<1>2. ASSUME NEW h \in Handlers, Webhook(h) PROVE ConnectionsStay
  <2>1. CASE Register(h)
    <3> DEFINE d == producer[h].delivery
               u == producer[h].user
    <3>1. UNCHANGED rows => ConnectionsStay
      BY SameBounded
    <3>2. ASSUME rows' = Append(rows, Row(u, d.via, FALSE)), install[d.via].there PROVE ConnectionsStay
      <4>1. h \in Producers /\ u \in Users /\ d.via \in Via /\ UNCHANGED install /\ producer[h].pc = "register"
        BY <2>1, Adopting DEF Register, Via
      <4>2. install'[d.via].owner = u
        BY <3>2, <4>1 DEF Registering, Reads
      <4>3. /\ DOMAIN rows' = DOMAIN rows \cup {Len(rows) + 1} /\ Len(rows) + 1 \notin DOMAIN rows
            /\ \A r \in DOMAIN rows : rows'[r] = rows[r]
            /\ rows'[Len(rows) + 1] = Row(u, d.via, FALSE)
        BY <3>2, <4>1, NewRow DEF TypeOK
      <4>4. Row(u, d.via, FALSE).user = u /\ Row(u, d.via, FALSE).via = d.via
        BY DEF Row
      <4>5. QED  BY <4>2, <4>3, <4>4 DEF ConnectionsStay
    <3>3. QED  BY <2>1, <3>1, <3>2 DEF Register
  <2>2. QED  BY <1>2, <2>1, SameBounded DEF Webhook, Deliver, Adopt, Decline, CheckQuota, Refuse
<1>3. CASE Poll
  <2>1. Remember => ConnectionsStay
    BY RememberType, StayBounded DEF SameOwner
  <2>2. QED  BY <1>3, <2>1, SameBounded DEF Poll, PollStart, Forget, PollHead, PollPulls
<1>4. CASE (\E kind \in Kinds : Commit(kind)) \/ CommitHeadless
  BY <1>4, SameBounded DEF Commit, CommitHeadless
<1>5. CASE Owners
  <2>1. ASSUME NEW u \in Users, NEW hook \in BOOLEAN, Connect(u, hook) PROVE ConnectionsStay
    BY <2>1, ConnectType, StayBounded DEF SameOwner
  <2>2. ASSUME NEW r \in DOMAIN rows, Disconnect(r) PROVE ConnectionsStay
    BY <2>2, DisconnectType, StayBounded DEF SameOwner
  <2>3. ASSUME NEW i \in Installs, Uninstalled(i) \/ RepositoryRemoved(i) PROVE ConnectionsStay
    BY <2>3, UninstalledType, StayBounded
  <2>4. ASSUME NEW i \in Installs, RepositoryAdded(i) PROVE ConnectionsStay
    <3>1. UNCHANGED install
      BY <2>4 DEF RepositoryAdded
    <3>2. QED  BY <2>4, <3>1, AddedType, JoinedBounded
  <2>5. ASSUME NEW c \in Callbacks, Link(c) PROVE ConnectionsStay
    <3> DEFINE b == callback[c]
               u == claims[b.claim].user
    <3>1. Linking(c)
      BY <2>5, LinkLinks
    <3>2. UNCHANGED rows \/ (Joined(rows', u, b.app) /\ install' = [install EXCEPT ![b.app].owner = u])
      BY <3>1 DEF Linking
    <3>3. b.app \in Installs
      BY <3>1 DEF Linking, Links
    <3>4. install' = [install EXCEPT ![b.app].owner = u] => install'[b.app].owner = u
      BY <3>3 DEF TypeOK, InstallOK
    <3>5. QED  BY <3>2, <3>4, SameBounded, JoinedBounded
  <2>6. QED
    BY <1>5, <2>1, <2>2, <2>3, <2>4, <2>5, SameBounded
    DEF Owners, FindConnection, StartInstall, RequestReview, Installed, Expire, CheckCallback
<1>6. QED  BY <1>1, <1>2, <1>3, <1>4, <1>5 DEF Next

\* Neither a connection nor an installation passes from one account to another, and a connection
\* joins only an installation of its own account, at the link, an event or a delivery: what
\* arrives through an installation is never charged to another account.
THEOREM AccountsStayApart == Spec => TenantBoundary
<1> DEFINE Inv == TypeOK /\ Made /\ Registering
<1>1. Init => Inv
  <2>1. Init => Registering
    BY DEF Init, Registering, Reads, Idle
  <2>2. QED  BY <2>1, InitType, MadeInit
<1>2. Inv /\ [Next]_intake => Inv' /\ [InstallationsStay /\ ConnectionsStay]_intake
  <2>1. Inv /\ Next => Inv' /\ InstallationsStay /\ ConnectionsStay
    BY StepType, MadeKept, SettledStep, RegisteringKept, StepOwners, StepBounded
  <2>2. Inv /\ UNCHANGED intake => Inv'
    <3>1. TypeOK /\ UNCHANGED intake => TypeOK'
      BY StutterType
    <3>2. Made /\ UNCHANGED intake => Made'
      BY MadeSame DEF intake
    <3>3. Registering /\ UNCHANGED intake => Registering'
      BY DEF intake, Registering, Reads
    <3>4. QED  BY <3>1, <3>2, <3>3
  <2>3. QED  BY <2>1, <2>2
<1>3. Spec => [][InstallationsStay /\ ConnectionsStay]_intake
  BY <1>1, <1>2, PTL DEF Spec
<1>4. QED  BY <1>3 DEF TenantBoundary

-------------------------------------------------------------------------------
(* The poller leaves no gap *)

\* What the poller remembers is its scan of a connection. A review of a push beyond the
\* scan starts exactly at it, and the poller goes on from it; so when the scan moves to
\* a head, a review covers the whole step. This is claimed while GitHub announces nothing.
Pushes == {i \in DOMAIN reviews : reviews[i].kind = "PUSH"}

\* A manual request has no head; the poller looks at pull requests after the branch.
Manually == \/ producer[Manual] = Idle
            \/ producer[Manual].pc \in {"insert", "reserve", "enqueue"} /\ producer[Manual].sha = 0
Pulling  == \/ producer[Poller] = Idle
            \/ /\ producer[Poller].pc \in {"head", "insert", "reserve", "enqueue", "remember", "pulls"}
               /\ producer[Poller].pc \in {"head", "pulls"} => producer[Poller].kind = "PUSH"

Resting == \A h \in Handlers : producer[h] = Idle
Scans   == \A r \in DOMAIN rows : /\ rows[r].baseline <= rows[r].scanned /\ rows[r].scanned <= github.PUSH
                                  /\ rows[r].scanned = 0 <=> rows[r].baseline = 0
Ranges  == \A i \in Pushes : reviews[i].sha # 0 =>
              /\ reviews[i].row \in DOMAIN rows /\ reviews[i].sha <= github.PUSH
              /\ reviews[i].sha > rows[reviews[i].row].scanned => reviews[i].base = rows[reviews[i].row].scanned
Gapless == \A r \in DOMAIN rows : \A s \in (rows[r].baseline + 1)..rows[r].scanned :
              \E i \in DOMAIN reviews : /\ reviews[i].row = r /\ reviews[i].kind = "PUSH"
                                        /\ reviews[i].base < s /\ s <= reviews[i].sha

\* A poll of the branch: from the scan to the head it has read.
Headed(w)  == /\ w.sha > w.base /\ w.sha <= github.PUSH
              /\ \A i \in Pushes : reviews[i].row = w.row => reviews[i].sha <= w.sha
Covered(w) == \E i \in Pushes : reviews[i].row = w.row /\ reviews[i].sha = w.sha
Begun(w)   == w.pc \in {"head", "insert", "reserve", "enqueue", "remember"} /\ w.kind = "PUSH" =>
              /\ w.base = rows[w.row].scanned
              /\ w.pc # "head" => Headed(w)
              /\ w.pc \in {"insert", "reserve", "enqueue"} => w.base # 0
              /\ w.pc \in {"reserve", "enqueue", "remember"} => w.base = 0 \/ Covered(w)
Pushing    == Begun(producer[Poller])

Quiet  == Resting /\ Scans /\ Ranges /\ Gapless /\ Pushing
Polled == Manually /\ Pulling /\ (sent = {} => Quiet)

-------------------------------------------------------------------------------
(* Where the manual request and the poller may be *)

\* A step of neither leaves both.
LEMMA PlacesSame ==
    ASSUME Manually, Pulling, producer'[Manual] = producer[Manual], producer'[Poller] = producer[Poller]
    PROVE  Manually' /\ Pulling'
BY DEF Manually, Pulling

LEMMA ManualGoes ==
    ASSUME TypeOK, Manually, Pulling, NEW w, To(Manual, w),
           w = Idle \/ (w.pc \in {"insert", "reserve", "enqueue"} /\ w.sha = 0)
    PROVE  Manually' /\ Pulling'
BY Apart, ToFacts DEF Manually, Pulling, TypeOK

LEMMA PollerGoes ==
    ASSUME TypeOK, Manually, Pulling, NEW w, To(Poller, w),
           \/ w = Idle
           \/ /\ w.pc \in {"head", "insert", "reserve", "enqueue", "remember", "pulls"}
              /\ w.pc \in {"head", "pulls"} => w.kind = "PUSH"
    PROVE  Manually' /\ Pulling'
BY Apart, ToFacts DEF Manually, Pulling, TypeOK

LEMMA PlacesKept == ASSUME TypeOK, Manually, Pulling, Next PROVE Manually' /\ Pulling'
<1>1. ASSUME UNCHANGED producer PROVE Manually' /\ Pulling'
  BY <1>1, PlacesSame
<1>2. ASSUME NEW p \in Producers, Produce(p) PROVE Manually' /\ Pulling'
  <2>1. PICK w : /\ To(p, w)
                 /\ \/ w = Idle
                    \/ /\ w \in Works /\ w.sha = producer[p].sha /\ producer[p].pc \in {"insert", "reserve", "enqueue"}
                       /\ w.pc \in {"reserve", "enqueue"} \/ (w.pc = "remember" /\ p = Poller)
    BY <1>2, Produced
  <2>2. CASE p = Manual
    <3>1. producer[p].pc \in {"insert", "reserve", "enqueue"} => producer[p].sha = 0
      BY <2>2 DEF Manually, Idle
    <3>2. QED  BY <2>1, <2>2, <3>1, Apart, ManualGoes
  <2>3. CASE p = Poller
    BY <2>1, <2>3, PollerGoes
  <2>4. CASE p \notin {Manual, Poller}
    BY <2>1, <2>4, Apart, ToFacts, PlacesSame DEF TypeOK
  <2>5. QED  BY <2>2, <2>3, <2>4
<1>3. ASSUME NEW h \in Handlers, Webhook(h) PROVE Manually' /\ Pulling'
  <2>1. \E w : To(h, w)
    BY <1>3 DEF Webhook, Deliver, Adopt, Register, Decline, CheckQuota, Refuse
  <2>2. h \in Producers /\ h # Manual /\ h # Poller
    BY Apart DEF Producers
  <2>3. QED  BY <2>1, <2>2, Apart, ToFacts, PlacesSame DEF TypeOK
<1>4. ASSUME NEW r, PollStart(r) PROVE Manually' /\ Pulling'
  <2>1. Work("head", r, "PUSH", 0, rows[r].scanned).pc = "head" /\ Work("head", r, "PUSH", 0, rows[r].scanned).kind = "PUSH"
    BY DEF Work
  <2>2. QED  BY <1>4, <2>1, PollerGoes DEF PollStart
<1>5. ASSUME PollHead \/ PollPulls \/ Remember PROVE Manually' /\ Pulling'
  <2> DEFINE v == producer[Poller]
  <2>1. v \in Works
    BY <1>5, Apart, AtWork DEF PollHead, PollPulls, Remember, Places, TypeOK
  <2>2. PollHead => v.kind = "PUSH"
    BY DEF PollHead, Pulling, Idle
  <2>3. CASE PollPulls
    <3>1. \A sha : [v EXCEPT !.kind = "PULL_REQUEST", !.sha = sha, !.pc = "insert"].pc = "insert"
      BY <2>1 DEF Works
    <3>2. QED  BY <2>3, <3>1, PollerGoes DEF PollPulls
  <2>4. CASE Remember
    <3>1. [v EXCEPT !.pc = "pulls"].kind = v.kind /\ [v EXCEPT !.pc = "pulls"].pc = "pulls"
      BY <2>1 DEF Works
    <3>2. QED  BY <2>4, <3>1, PollerGoes DEF Remember
  <2>5. CASE PollHead
    <3>1. \A sha : \A pc \in {"pulls", "remember", "insert"} :
            /\ [v EXCEPT !.sha = sha, !.pc = pc].pc = pc /\ [v EXCEPT !.sha = sha, !.pc = pc].kind = v.kind
      BY <2>1 DEF Works
    <3>2. QED  BY <2>2, <2>5, <3>1, PollerGoes DEF PollHead
  <2>6. QED  BY <1>5, <2>3, <2>4, <2>5
<1>6. ASSUME NEW r, NEW kind, RequestReview(r, kind) PROVE Manually' /\ Pulling'
  <2>1. Work("insert", r, kind, 0, 0).pc = "insert" /\ Work("insert", r, kind, 0, 0).sha = 0
    BY DEF Work
  <2>2. QED  BY <1>6, <2>1, ManualGoes DEF RequestReview
<1>7. CASE Poll
  BY <1>1, <1>4, <1>5, <1>7 DEF Poll, Forget
<1>8. CASE Owners
  BY <1>1, <1>6, <1>8
  DEF Owners, FindConnection, StartInstall, Connect, Disconnect, RepositoryAdded, RepositoryRemoved,
      Installed, Uninstalled, Expire, Link, CheckCallback
<1>9. CASE (\E kind \in Kinds : Commit(kind)) \/ CommitHeadless
  BY <1>1, <1>9 DEF Commit, CommitHeadless
<1>10. QED  BY <1>2, <1>3, <1>7, <1>8, <1>9 DEF Next

-------------------------------------------------------------------------------
(* Steps that leave the scans *)

\* Connections keep their scan; a new one has none.
ScanKept == /\ DOMAIN rows \subseteq DOMAIN rows'
            /\ \A r \in DOMAIN rows : rows'[r].scanned = rows[r].scanned /\ rows'[r].baseline = rows[r].baseline
            /\ \A r \in DOMAIN rows' \ DOMAIN rows : rows'[r].scanned = 0 /\ rows'[r].baseline = 0

\* Reviews stay what they are; a new one is not of a push that has a head.
Listed == /\ DOMAIN reviews \subseteq DOMAIN reviews' /\ \A i \in DOMAIN reviews : SameReview(i)
          /\ \A i \in DOMAIN reviews' \ DOMAIN reviews : reviews'[i].kind # "PUSH" \/ reviews'[i].sha = 0

Onward == github.PUSH \in Nat /\ github'.PUSH \in Nat /\ github.PUSH <= github'.PUSH

LEMMA Moves ==
    ASSUME TypeOK, TypeOK', Onward, ScanKept, Listed, Scans, Ranges, Gapless
    PROVE  Scans' /\ Ranges' /\ Gapless'
<1>1. /\ \A r \in DOMAIN rows : rows[r].scanned \in Nat /\ rows[r].baseline \in Nat
      /\ \A i \in DOMAIN reviews : reviews[i].sha \in Nat /\ reviews[i].base \in Int
  BY RowsElements, ReviewsElements DEF TypeOK, Connections, Reviewed
<1>2. Scans'
  BY <1>1 DEF Scans, ScanKept, Onward
<1>3. Ranges'
  <2>1. ASSUME NEW i \in DOMAIN reviews', reviews'[i].kind = "PUSH", reviews'[i].sha # 0
        PROVE  /\ reviews'[i].row \in DOMAIN rows' /\ reviews'[i].sha <= github'.PUSH
               /\ reviews'[i].sha > rows'[reviews'[i].row].scanned =>
                    reviews'[i].base = rows'[reviews'[i].row].scanned
    <3>1. i \in DOMAIN reviews /\ SameReview(i)
      BY <2>1 DEF Listed
    <3>2. i \in Pushes /\ reviews[i].sha # 0
      BY <2>1, <3>1 DEF SameReview, Pushes
    <3>3. /\ reviews[i].row \in DOMAIN rows /\ reviews[i].sha <= github.PUSH
          /\ reviews[i].sha > rows[reviews[i].row].scanned => reviews[i].base = rows[reviews[i].row].scanned
      BY <3>2 DEF Ranges
    <3>4. QED  BY <1>1, <3>1, <3>3 DEF SameReview, ScanKept, Onward
  <2>2. QED  BY <2>1 DEF Ranges, Pushes
<1>4. Gapless'
  <2>1. ASSUME NEW r \in DOMAIN rows', NEW s \in (rows'[r].baseline + 1)..rows'[r].scanned
        PROVE  \E i \in DOMAIN reviews' : /\ reviews'[i].row = r /\ reviews'[i].kind = "PUSH"
                                          /\ reviews'[i].base < s /\ s <= reviews'[i].sha
    <3>1. CASE r \in DOMAIN rows
      <4>1. s \in (rows[r].baseline + 1)..rows[r].scanned
        BY <2>1, <3>1 DEF ScanKept
      <4>2. PICK i \in DOMAIN reviews : /\ reviews[i].row = r /\ reviews[i].kind = "PUSH"
                                        /\ reviews[i].base < s /\ s <= reviews[i].sha
        BY <3>1, <4>1 DEF Gapless
      <4>3. QED  BY <4>2 DEF Listed, SameReview
    <3>2. CASE r \notin DOMAIN rows
      BY <2>1, <3>2 DEF ScanKept
    <3>3. QED  BY <3>1, <3>2
  <2>2. QED  BY <2>1 DEF Gapless
<1>5. QED  BY <1>2, <1>3, <1>4

\* What a poll has read stays true of it.
LEMMA BegunMoves ==
    ASSUME TypeOK, Onward, ScanKept, Listed, NEW w \in Works, w.row \in DOMAIN rows, Begun(w)
    PROVE  Begun(w)'
<1>1. w.sha \in Nat /\ w.base \in Int
  BY DEF Works
<1>2. Headed(w) => Headed(w)'
  <2>1. ASSUME Headed(w), NEW i \in DOMAIN reviews', reviews'[i].kind = "PUSH", reviews'[i].row = w.row
        PROVE  reviews'[i].sha <= w.sha
    <3>1. CASE i \in DOMAIN reviews
      BY <2>1, <3>1 DEF Listed, SameReview, Headed, Pushes
    <3>2. CASE i \notin DOMAIN reviews
      BY <1>1, <2>1, <3>2 DEF Listed
    <3>3. QED  BY <3>1, <3>2
  <2>2. QED  BY <1>1, <2>1 DEF Headed, Pushes, Onward
<1>3. Covered(w) => Covered(w)'
  BY DEF Covered, Pushes, Listed, SameReview
<1>4. rows'[w.row].scanned = rows[w.row].scanned
  BY DEF ScanKept
<1>5. QED  BY <1>2, <1>3, <1>4 DEF Begun

\* Others move: the poll, if there is one, stays or ends.
LEMMA QuietMoves ==
    ASSUME TypeOK, TypeOK', Onward, ScanKept, Listed, Quiet, Resting',
           producer'[Poller] = producer[Poller] \/ producer'[Poller] = Idle
    PROVE  Quiet'
<1> DEFINE v == producer[Poller]
<1>1. Begun(v)'
  <2>1. CASE producer'[Poller] = Idle
    BY <2>1 DEF Begun, Idle
  <2>2. CASE producer'[Poller] = v /\ v \in Works
    <3>1. v.row \in DOMAIN rows
      BY <2>2, Apart DEF TypeOK, ProducerOK, Doing, Working, Works, Idle, Adoptions
    <3>2. PICK w : w = v
      OBVIOUS
    <3>3. Begun(w)'
      BY <2>2, <3>1, <3>2, BegunMoves DEF Quiet, Pushing
    <3>4. QED  BY <2>2, <3>2, <3>3 DEF Begun, Headed, Covered
  <2>3. CASE producer'[Poller] = v /\ v \notin Works
    BY <2>3, Apart DEF TypeOK, ProducerOK, Begun, Idle, Adoptions
  <2>4. QED  BY <2>1, <2>2, <2>3
<1>2. QED  BY <1>1, Moves DEF Quiet, Pushing

\* A poll goes on, and what it says of itself is shown.
LEMMA PollGoes ==
    ASSUME TypeOK, TypeOK', Quiet, NEW w, To(Poller, w), Begun(w)', Scans', Ranges', Gapless'
    PROVE  Quiet'
<1>1. producer'[Poller] = w /\ \A h \in Handlers : producer'[h] = producer[h]
  BY Apart, ToFacts DEF TypeOK, Producers
<1>2. Pushing'
  BY <1>1 DEF Pushing, Begun, Headed, Covered
<1>3. QED  BY <1>1, <1>2 DEF Quiet, Resting

-------------------------------------------------------------------------------
(* The steps of others *)

LEMMA SameScans ==
    ASSUME TypeOK, UNCHANGED rows
    PROVE  ScanKept
BY DEF ScanKept

LEMMA SameHeads ==
    ASSUME TypeOK, UNCHANGED github
    PROVE  Onward
BY DEF Onward, TypeOK, GitHubOK

LEMMA RelabeledListed == ASSUME Relabeled PROVE Listed
BY DEF Relabeled, Listed

\* A manual request never identifies a head.
LEMMA ManualQuiet ==
    ASSUME TypeOK, TypeOK', Manually, Quiet, Produce(Manual)
    PROVE  Quiet'
<1> DEFINE v == producer[Manual]
<1>1. PICK w : /\ To(Manual, w) /\ UNCHANGED <<github, sent, rows>>
               /\ Relabeled \/ (v.pc = "insert" /\ Recorded(Manual))
  BY Apart, Produced
<1>2. producer'[Poller] = producer[Poller] /\ \A h \in Handlers : producer'[h] = producer[h]
  BY <1>1, Apart, ToFacts DEF TypeOK, Producers
<1>3. Listed
  <2>1. ASSUME v.pc = "insert", Recorded(Manual) PROVE Listed
    <3>1. v.sha = 0 /\ v \in Works
      BY <2>1 DEF Manually, Idle, Recorded
    <3>2. PICK status \in {"QUEUED", "SKIPPED"} : reviews' = Append(reviews, Review(v, status))
      BY <2>1 DEF Recorded
    <3>3. /\ DOMAIN reviews' = DOMAIN reviews \cup {Len(reviews) + 1}
          /\ Len(reviews) + 1 \notin DOMAIN reviews
          /\ \A i \in DOMAIN reviews : reviews'[i] = reviews[i]
          /\ reviews'[Len(reviews) + 1] = Review(v, status)
      BY <3>1, <3>2, NewReview DEF TypeOK
    <3>4. Review(v, status).sha = 0
      BY <3>1 DEF Review
    <3>5. QED  BY <3>3, <3>4 DEF Listed, SameReview
  <2>2. QED  BY <1>1, <2>1, RelabeledListed
<1>4. QED  BY <1>1, <1>2, <1>3, SameScans, SameHeads, QuietMoves DEF Quiet, Resting

\* While nothing is sent, handlers have nothing to do.
LEMMA HandlersRest ==
    ASSUME TypeOK, Resting, sent = {}, NEW h \in Handlers
    PROVE  ~Webhook(h) /\ ~Produce(h)
<1>1. producer[h] = Idle /\ producer[h].pc = "idle"
  BY DEF Resting, Idle
<1>2. QED
  BY <1>1 DEF Webhook, Deliver, Adopt, Register, Decline, CheckQuota, Refuse, Produce, Insert, Reserve, Enqueue, Fail

LEMMA JoinedScans ==
    ASSUME RowsOK, NEW u \in Users, NEW i \in Installs, NEW r \in First, rows' \in LinkedRows(u, i, r)
    PROVE  ScanKept
<1>1. rows \in [DOMAIN rows -> Connections] /\ rows \in Seq(Connections)
  BY RowsElements DEF RowsOK
<1>2. ASSUME rows' = Append(rows, Row(u, i, FALSE)) PROVE ScanKept
  <2>1. i \in Via /\ FALSE \in BOOLEAN
    BY DEF Via
  <2>2. /\ DOMAIN rows' = DOMAIN rows \cup {Len(rows) + 1}
        /\ \A q \in DOMAIN rows : rows'[q] = rows[q]
        /\ rows'[Len(rows) + 1] = Row(u, i, FALSE)
    BY <1>2, <2>1, NewRow
  <2>3. Row(u, i, FALSE).scanned = 0 /\ Row(u, i, FALSE).baseline = 0
    BY DEF Row
  <2>4. QED  BY <2>2, <2>3 DEF ScanKept
<1>3. ASSUME r # 0, rows' = [rows EXCEPT ![r].active = TRUE, ![r].via = i] PROVE ScanKept
  <2>1. r \in DOMAIN rows
    BY <1>3 DEF First
  <2>2. rows[r] \in Connections
    BY <1>1, <2>1
  <2>3. PICK e : e = [rows[r] EXCEPT !.active = TRUE, !.via = i]
    OBVIOUS
  <2>4. e.scanned = rows[r].scanned /\ e.baseline = rows[r].baseline
    BY <2>2, <2>3 DEF Connections
  <2>5. rows' = [rows EXCEPT ![r] = e]
    BY <1>1, <1>3, <2>1, <2>2, <2>3 DEF Connections
  <2>6. QED  BY <1>1, <2>1, <2>4, <2>5 DEF ScanKept
<1>4. QED  BY <1>2, <1>3 DEF LinkedRows

\* Owners and the App move connections, never a scan.
LEMMA ConnectScans == ASSUME TypeOK, NEW u \in Users, NEW hook \in BOOLEAN, Connect(u, hook) PROVE ScanKept
<1> DEFINE r == connecting[u].row
<1>1. CASE r # 0
  <2>1. rows \in [DOMAIN rows -> Connections] /\ r \in DOMAIN rows
    BY <1>1, RowsElements DEF TypeOK, ConnectOK
  <2>2. rows[r] \in Connections
    BY <2>1
  <2>3. PICK e : e = [rows[r] EXCEPT !.active = TRUE, !.hook = hook]
    OBVIOUS
  <2>4. e.scanned = rows[r].scanned /\ e.baseline = rows[r].baseline
    BY <2>2, <2>3 DEF Connections
  <2>5. rows' = [rows EXCEPT ![r] = e]
    BY <1>1, <2>1, <2>2, <2>3 DEF Connect, Connections
  <2>6. QED  BY <2>1, <2>4, <2>5 DEF ScanKept
<1>2. CASE r = 0
  <2>1. rows' = Append(rows, Row(u, None, hook)) /\ None \in Via
    BY <1>2 DEF Connect, Via
  <2>2. /\ DOMAIN rows' = DOMAIN rows \cup {Len(rows) + 1}
        /\ \A q \in DOMAIN rows : rows'[q] = rows[q]
        /\ rows'[Len(rows) + 1] = Row(u, None, hook)
    BY <2>1, NewRow DEF TypeOK
  <2>3. Row(u, None, hook).scanned = 0 /\ Row(u, None, hook).baseline = 0
    BY DEF Row
  <2>4. QED  BY <2>2, <2>3 DEF ScanKept
<1>3. QED  BY <1>1, <1>2

LEMMA DisconnectScans == ASSUME TypeOK, NEW r \in DOMAIN rows, Disconnect(r) PROVE ScanKept
<1>1. rows \in [DOMAIN rows -> Connections]
  BY RowsElements DEF TypeOK
<1>2. rows[r] \in Connections
  BY <1>1
<1>3. PICK e : e = [rows[r] EXCEPT !.active = FALSE, !.hook = FALSE]
  OBVIOUS
<1>4. e.scanned = rows[r].scanned /\ e.baseline = rows[r].baseline
  BY <1>2, <1>3 DEF Connections
<1>5. rows' = [rows EXCEPT ![r] = e]
  BY <1>1, <1>2, <1>3 DEF Disconnect, Connections
<1>6. QED  BY <1>1, <1>4, <1>5 DEF ScanKept

LEMMA UninstalledScans ==
    ASSUME TypeOK, NEW i \in Installs, Uninstalled(i) \/ RepositoryRemoved(i)
    PROVE  ScanKept
<1>1. rows \in [DOMAIN rows -> Connections]
  BY RowsElements DEF TypeOK
<1>2. \A q \in DOMAIN rows : \A b :
        /\ [rows[q] EXCEPT !.active = FALSE, !.via = None].scanned = rows[q].scanned
        /\ [rows[q] EXCEPT !.active = FALSE, !.via = None].baseline = rows[q].baseline
        /\ [rows[q] EXCEPT !.active = b].scanned = rows[q].scanned
        /\ [rows[q] EXCEPT !.active = b].baseline = rows[q].baseline
  BY <1>1 DEF Connections
<1>3. DOMAIN rows' = DOMAIN rows
  BY DEF Uninstalled, RepositoryRemoved
<1>4. ASSUME NEW q \in DOMAIN rows
      PROVE  rows'[q].scanned = rows[q].scanned /\ rows'[q].baseline = rows[q].baseline
  <2>1. PICK b : b = (rows[q].active /\ q \notin {r \in DOMAIN rows : rows[r].via = i})
    OBVIOUS
  <2>2. rows'[q] \in {rows[q], [rows[q] EXCEPT !.active = FALSE, !.via = None], [rows[q] EXCEPT !.active = b]}
    BY <2>1 DEF Uninstalled, RepositoryRemoved
  <2>3. QED  BY <1>2, <2>2
<1>5. QED  BY <1>3, <1>4 DEF ScanKept

LEMMA LinkScans == ASSUME TypeOK, NEW c \in Callbacks, Link(c) PROVE ScanKept
<1> DEFINE b == callback[c]
           u == claims[b.claim].user
<1>1. b \in Links /\ u \in Users
  BY LinkLinks DEF Linking
<1>2. b.app \in Installs
  BY <1>1 DEF Links
<1>3. PICK r \in First, listed \in BOOLEAN :
        LET after == IF ~(claims[b.claim].open /\ install[b.app].there) THEN {}
                     ELSE IF listed THEN LinkedRows(u, b.app, r) ELSE {rows}
        IN IF after = {} THEN UNCHANGED <<claims, install, rows, links>>
           ELSE /\ claims' = [claims EXCEPT ![b.claim].open = FALSE]
                /\ install' = [install EXCEPT ![b.app].owner = u]
                /\ rows' \in {a \in after : Len(a) <= MaxRows} /\ links' = links + 1
  BY DEF Link
<1>4. UNCHANGED rows \/ rows' \in LinkedRows(u, b.app, r)
  BY <1>3
<1>5. QED  BY <1>1, <1>2, <1>4, SameScans, JoinedScans DEF TypeOK

LEMMA AddedScans == ASSUME TypeOK, NEW i \in Installs, RepositoryAdded(i) PROVE ScanKept
<1>1. install[i].owner \in Users
  BY DEF RepositoryAdded, TypeOK, InstallOK
<1>2. QED  BY <1>1, JoinedScans DEF RepositoryAdded, TypeOK

\* The owners, the App and GitHub leave the producers alone, except for the manual request.
LEMMA WorldQuiet ==
    ASSUME TypeOK, TypeOK', Quiet, UNCHANGED producer, ScanKept, Relabeled, Onward
    PROVE  Quiet'
BY RelabeledListed, QuietMoves DEF Quiet, Resting

LEMMA CommitOnward ==
    ASSUME TypeOK, NEW kind \in Kinds, Commit(kind)
    PROVE  Onward
<1>1. github.PUSH \in Nat /\ github.PULL_REQUEST \in Nat
  BY DEF TypeOK, GitHubOK
<1>2. CASE kind = "PUSH"
  BY <1>1, <1>2 DEF Commit, TypeOK, GitHubOK, Onward
<1>3. CASE kind = "PULL_REQUEST"
  BY <1>1, <1>3 DEF Commit, TypeOK, GitHubOK, Onward
<1>4. QED  BY <1>2, <1>3 DEF Kinds

LEMMA OwnersQuiet ==
    ASSUME TypeOK, TypeOK', Quiet, Owners
    PROVE  Quiet'
<1>1. ASSUME UNCHANGED producer, ScanKept, Relabeled, UNCHANGED github \/ github'.PUSH = github.PUSH PROVE Quiet'
  <2>1. Onward
    BY <1>1, SameHeads DEF Onward, TypeOK, GitHubOK
  <2>2. QED  BY <1>1, <2>1, WorldQuiet
<1>2. UNCHANGED reviews => Relabeled
  BY SameReviews DEF TypeOK
<1>3. ASSUME NEW u \in Users, NEW hook \in BOOLEAN, Connect(u, hook) PROVE Quiet'
  <2>1. UNCHANGED <<producer, reviews>> /\ github'.PUSH = github.PUSH
    BY <1>3 DEF Connect, TypeOK, GitHubOK
  <2>2. QED  BY <1>1, <1>2, <1>3, <2>1, ConnectScans
<1>4. ASSUME NEW r \in DOMAIN rows, Disconnect(r) PROVE Quiet'
  <2>1. UNCHANGED producer /\ github'.PUSH = github.PUSH
    BY <1>4 DEF Disconnect, TypeOK, GitHubOK
  <2>2. QED  BY <1>1, <1>4, <2>1, DisconnectScans, DisconnectType
<1>5. ASSUME NEW i \in Installs, Uninstalled(i) \/ RepositoryRemoved(i) PROVE Quiet'
  <2>1. UNCHANGED <<producer, github>>
    BY <1>5 DEF Uninstalled, RepositoryRemoved
  <2>2. QED  BY <1>1, <1>5, <2>1, UninstalledScans, UninstalledType
<1>6. ASSUME NEW i \in Installs, RepositoryAdded(i) PROVE Quiet'
  <2>1. UNCHANGED <<producer, github, reviews>>
    BY <1>6 DEF RepositoryAdded
  <2>2. QED  BY <1>1, <1>2, <1>6, <2>1, AddedScans
<1>7. ASSUME NEW c \in Callbacks, Link(c) PROVE Quiet'
  <2>1. UNCHANGED <<producer, github, reviews>>
    BY <1>7 DEF Link
  <2>2. QED  BY <1>1, <1>2, <1>7, <2>1, LinkScans
<1>8. ASSUME UNCHANGED <<github, rows, reviews, producer>> PROVE Quiet'
  BY <1>1, <1>2, <1>8, SameScans
<1>9. ASSUME NEW r \in DOMAIN rows, NEW kind \in Kinds, RequestReview(r, kind) PROVE Quiet'
  <2>1. \E w : To(Manual, w)
    BY <1>9 DEF RequestReview
  <2>2. producer'[Poller] = producer[Poller] /\ \A h \in Handlers : producer'[h] = producer[h]
    BY <2>1, Apart, ToFacts DEF TypeOK, Producers
  <2>3. UNCHANGED <<github, rows, reviews>>
    BY <1>9 DEF RequestReview
  <2>4. QED  BY <1>2, <2>2, <2>3, SameScans, SameHeads, RelabeledListed, QuietMoves DEF Quiet, Resting
<1>10. QED
  BY <1>3, <1>4, <1>5, <1>6, <1>7, <1>8, <1>9
  DEF Owners, FindConnection, StartInstall, Installed, Expire, CheckCallback

-------------------------------------------------------------------------------
(* The steps of the poller *)

LEMMA PollStartQuiet ==
    ASSUME TypeOK, TypeOK', Quiet, NEW r \in DOMAIN rows, PollStart(r)
    PROVE  Quiet'
<1>1. PICK w : w = Work("head", r, "PUSH", 0, rows[r].scanned)
  OBVIOUS
<1>2. To(Poller, w) /\ UNCHANGED <<github, rows, reviews>>
  BY <1>1 DEF PollStart
<1>3. w.pc = "head" /\ w.row = r /\ w.base = rows[r].scanned
  BY <1>1 DEF Work
<1>4. Begun(w)'
  BY <1>2, <1>3 DEF Begun
<1>5. Scans' /\ Ranges' /\ Gapless'
  BY <1>2, SameScans, SameHeads, SameReviews, RelabeledListed, Moves DEF Quiet, TypeOK
<1>6. QED  BY <1>2, <1>4, <1>5, PollGoes

LEMMA PollHeadQuiet ==
    ASSUME TypeOK, TypeOK', Pulling, Quiet, PollHead
    PROVE  Quiet'
<1> DEFINE v == producer[Poller]
<1>1. v.pc = "head" /\ v.kind = "PUSH"
  BY DEF PollHead, Pulling, Idle
<1>2. v \in Works /\ Working(v)
  BY <1>1, Apart, AtWork DEF Places, TypeOK
<1>3. PICK pc : pc = CASE v.base = github.PUSH -> "pulls" [] v.base = 0 -> "remember" [] OTHER -> "insert"
  OBVIOUS
<1>4. PICK w : w = [v EXCEPT !.sha = github.PUSH, !.pc = pc]
  OBVIOUS
<1>5. To(Poller, w) /\ UNCHANGED <<github, rows, reviews>>
  BY <1>3, <1>4 DEF PollHead
<1>6. w.pc = pc /\ w.sha = github.PUSH /\ w.row = v.row /\ w.base = v.base /\ w.kind = "PUSH"
  BY <1>1, <1>2, <1>4 DEF Works
<1>7. v.base = rows[v.row].scanned /\ v.row \in DOMAIN rows
  BY <1>1, <1>2 DEF Quiet, Pushing, Begun, Working
<1>8. rows[v.row].scanned \in Nat /\ rows[v.row].scanned <= github.PUSH /\ github.PUSH \in Nat
  BY <1>7, RowsElements DEF TypeOK, Connections, GitHubOK, Quiet, Scans
<1>9. \A i \in DOMAIN reviews : reviews[i].sha \in Nat
  BY ReviewsElements DEF TypeOK, Reviewed
<1>10. \A i \in Pushes : reviews[i].sha <= github.PUSH
  BY <1>8, <1>9 DEF Quiet, Ranges, Pushes
<1>11. pc # "pulls" => Headed(w)
  <2>1. pc # "pulls" => v.base # github.PUSH
    <3>1. github.PUSH # 0
      BY DEF TypeOK, GitHubOK
    <3>2. QED  BY <1>3, <3>1
  <2>2. v.base # github.PUSH => w.sha > w.base /\ w.sha <= github.PUSH
    BY <1>6, <1>7, <1>8
  <2>3. \A i \in Pushes : reviews[i].sha <= w.sha
    BY <1>6, <1>10
  <2>4. QED  BY <2>1, <2>2, <2>3 DEF Headed
<1>12. pc \in {"insert", "remember", "pulls"} /\ (pc = "insert" => w.base # 0) /\ (pc = "remember" => w.base = 0)
  BY <1>3, <1>6
<1>13. Begun(w)'
  BY <1>5, <1>6, <1>7, <1>11, <1>12 DEF Begun, Headed, Covered, Pushes
<1>14. Scans' /\ Ranges' /\ Gapless'
  BY <1>5, SameScans, SameHeads, SameReviews, RelabeledListed, Moves DEF Quiet, TypeOK
<1>15. QED  BY <1>5, <1>13, <1>14, PollGoes

LEMMA PollPullsQuiet ==
    ASSUME TypeOK, TypeOK', Quiet, PollPulls
    PROVE  Quiet'
<1> DEFINE v == producer[Poller]
<1>1. v \in Works
  BY Apart, AtWork DEF PollPulls, Places, TypeOK
<1>2. [v EXCEPT !.kind = "PULL_REQUEST", !.sha = github.PULL_REQUEST, !.pc = "insert"].kind = "PULL_REQUEST"
  BY <1>1 DEF Works
<1>3. PICK w : To(Poller, w) /\ (w = Idle \/ w.kind = "PULL_REQUEST")
  BY <1>2 DEF PollPulls
<1>4. Begun(w)'
  BY <1>3 DEF Begun, Idle
<1>5. UNCHANGED <<github, rows, reviews>>
  BY DEF PollPulls
<1>6. Scans' /\ Ranges' /\ Gapless'
  BY <1>5, SameScans, SameHeads, SameReviews, RelabeledListed, Moves DEF Quiet, TypeOK
<1>7. QED  BY <1>3, <1>4, <1>6, PollGoes

\* A review of the poll's head covers the commits from the scan on.
LEMMA PollInsertQuiet ==
    ASSUME TypeOK, TypeOK', Quiet, NEW w \in Works, To(Poller, w), UNCHANGED <<github, sent, rows>>,
           Recorded(Poller), Working(producer[Poller]), producer[Poller].pc = "insert", w.pc = "reserve",
           w.row = producer[Poller].row, w.kind = producer[Poller].kind,
           w.sha = producer[Poller].sha, w.base = producer[Poller].base
    PROVE  Quiet'
<1> DEFINE v == producer[Poller]
           new == Len(reviews) + 1
<1>1. PICK status \in {"QUEUED", "SKIPPED"} : reviews' = Append(reviews, Review(v, status))
  BY DEF Recorded
<1>2. /\ DOMAIN reviews' = DOMAIN reviews \cup {new} /\ new \notin DOMAIN reviews
      /\ \A i \in DOMAIN reviews : reviews'[i] = reviews[i]
      /\ reviews'[new] = Review(v, status)
  BY <1>1, NewReview DEF Recorded, TypeOK
<1>3. /\ reviews'[new].row = w.row /\ reviews'[new].kind = w.kind
      /\ reviews'[new].sha = w.sha /\ reviews'[new].base = w.base
  BY <1>2 DEF Review
<1>4. Onward /\ ScanKept
  BY SameScans, SameHeads
<1> HIDE DEF new
<1>5. CASE w.kind # "PUSH"
  <2>1. Listed
    BY <1>2, <1>3, <1>5 DEF Listed, SameReview
  <2>2. Begun(w)'
    BY <1>5 DEF Begun
  <2>3. QED  BY <1>4, <2>1, <2>2, Moves, PollGoes DEF Quiet
<1>6. CASE w.kind = "PUSH"
  <2>1. w.base = rows[w.row].scanned /\ Headed(v) /\ w.base # 0 /\ w.row \in DOMAIN rows
    BY <1>6 DEF Quiet, Pushing, Begun, Working
  <2>2. w.sha > w.base /\ w.sha <= github.PUSH /\ \A i \in Pushes : reviews[i].row = w.row => reviews[i].sha <= w.sha
    BY <2>1 DEF Headed
  <2>3. Scans'
    BY DEF Quiet, Scans
  <2>4. Ranges'
    <3>1. ASSUME NEW i \in DOMAIN reviews', reviews'[i].kind = "PUSH", reviews'[i].sha # 0
          PROVE  /\ reviews'[i].row \in DOMAIN rows /\ reviews'[i].sha <= github.PUSH
                 /\ reviews'[i].sha > rows[reviews'[i].row].scanned => reviews'[i].base = rows[reviews'[i].row].scanned
      <4>1. CASE i = new
        BY <1>3, <2>1, <2>2, <4>1
      <4>2. CASE i # new
        <5>1. i \in DOMAIN reviews /\ reviews'[i] = reviews[i]
          BY <1>2, <4>2
        <5>2. QED  BY <3>1, <5>1 DEF Quiet, Ranges, Pushes
      <4>3. QED  BY <4>1, <4>2
    <3>2. QED  BY <3>1 DEF Ranges, Pushes
  <2>5. Gapless'
    BY <1>2 DEF Quiet, Gapless
  <2>6. new \in Pushes'
    BY <1>2, <1>3, <1>6 DEF Pushes
  <2>7. Covered(w)'
    BY <1>3, <2>6 DEF Covered
  <2>8. w.sha \in Nat
    BY DEF Works
  <2>9. Headed(w)'
    <3>1. ASSUME NEW i \in DOMAIN reviews', reviews'[i].kind = "PUSH", reviews'[i].row = w.row PROVE reviews'[i].sha <= w.sha
      <4>1. CASE i = new
        BY <1>3, <2>8, <4>1
      <4>2. CASE i # new
        BY <1>2, <2>2, <3>1, <4>2 DEF Pushes
      <4>3. QED  BY <4>1, <4>2
    <3>2. QED  BY <2>2, <3>1 DEF Headed, Pushes
  <2>10. Begun(w)'
    BY <2>1, <2>7, <2>9 DEF Begun
  <2>11. QED  BY <2>3, <2>4, <2>5, <2>10, PollGoes
<1>7. QED  BY <1>5, <1>6

LEMMA PollProduceQuiet ==
    ASSUME TypeOK, TypeOK', Pulling, Quiet, Produce(Poller)
    PROVE  Quiet'
<1> DEFINE v == producer[Poller]
<1>1. PICK w : /\ To(Poller, w) /\ UNCHANGED <<github, sent, rows>>
               /\ \/ w = Idle /\ Relabeled
                  \/ /\ v \in Works /\ Working(v) /\ w \in Works
                     /\ w.row = v.row /\ w.kind = v.kind /\ w.sha = v.sha /\ w.base = v.base
                     /\ \/ w.pc = "remember" /\ v.pc \in {"reserve", "enqueue"} /\ Relabeled
                        \/ w.pc = "remember" /\ v.pc = "insert" /\ Known(v) /\ Relabeled
                        \/ w.pc = "reserve" /\ v.pc = "insert" /\ Recorded(Poller)
                        \/ w.pc = "enqueue" /\ v.pc = "reserve" /\ Relabeled
  BY Apart, Produced
<1>2. CASE w = Idle /\ Relabeled
  <2>1. Begun(w)'
    BY <1>2 DEF Begun, Idle
  <2>2. QED  BY <1>1, <1>2, <2>1, SameScans, SameHeads, RelabeledListed, Moves, PollGoes DEF Quiet
<1>3. CASE /\ v \in Works /\ Working(v) /\ w \in Works /\ Relabeled
           /\ w.row = v.row /\ w.kind = v.kind /\ w.sha = v.sha /\ w.base = v.base
           /\ w.pc \in {"remember", "enqueue"} /\ v.pc \in {"insert", "reserve", "enqueue"}
           /\ v.pc = "insert" => Known(v)
  <2>1. Begun(w)
    <3>1. ASSUME w.kind = "PUSH" PROVE Begun(w)
      <4>1. w.base = rows[w.row].scanned /\ Headed(v) /\ w.base # 0
        BY <1>3, <3>1 DEF Quiet, Pushing, Begun
      <4>2. Headed(w)
        BY <1>3, <4>1 DEF Headed
      <4>3. v.pc # "insert" => Covered(v)
        BY <1>3, <3>1 DEF Quiet, Pushing, Begun
      <4>4. Known(v) => Covered(v)
        BY <1>3, <3>1 DEF Known, Covered, Pushes
      <4>5. Covered(w)
        BY <1>3, <4>3, <4>4 DEF Covered
      <4>6. QED  BY <1>3, <4>1, <4>2, <4>5 DEF Begun
    <3>2. QED  BY <3>1 DEF Begun
  <2>2. Listed /\ Onward /\ ScanKept /\ w.row \in DOMAIN rows
    BY <1>1, <1>3, SameScans, SameHeads, RelabeledListed DEF Working
  <2>3. Begun(w)'
    BY <1>3, <2>1, <2>2, BegunMoves
  <2>4. QED  BY <1>1, <2>2, <2>3, Moves, PollGoes DEF Quiet
<1>4. CASE /\ Working(v) /\ w \in Works /\ w.row = v.row /\ w.kind = v.kind /\ w.sha = v.sha /\ w.base = v.base
           /\ w.pc = "reserve" /\ v.pc = "insert" /\ Recorded(Poller)
  BY <1>1, <1>4, PollInsertQuiet
<1>5. QED  BY <1>1, <1>2, <1>3, <1>4

\* The scan moves to the head: what lies between has a review, unless it is the baseline.
LEMMA RememberQuiet ==
    ASSUME TypeOK, TypeOK', Pulling, Quiet, Remember
    PROVE  Quiet'
<1> DEFINE v == producer[Poller]
<1>1. v \in Works /\ Working(v) /\ v.pc = "remember"
  BY Apart, AtWork DEF Remember, Places, TypeOK
<1>2. UNCHANGED <<github, reviews>> /\ Listed /\ Onward
  BY SameReviews, RelabeledListed, SameHeads DEF Remember, TypeOK
<1>3. CASE v.kind # "PUSH"
  <2>1. To(Poller, Idle) /\ UNCHANGED rows
    BY <1>3 DEF Remember
  <2>2. \A w : w = Idle => Begun(w)'
    BY DEF Begun, Idle
  <2>3. QED  BY <1>2, <2>1, <2>2, SameScans, Moves, PollGoes DEF Quiet
<1>4. CASE v.kind = "PUSH"
  <2> DEFINE q == v.row
  <2>1. PICK w : w = [v EXCEPT !.pc = "pulls"]
    OBVIOUS
  <2>2. w.pc = "pulls" /\ To(Poller, w)
    BY <1>1, <1>4, <2>1 DEF Remember, Works
  <2>3. Begun(w)'
    BY <2>2 DEF Begun
  <2>4. /\ q \in DOMAIN rows /\ v.base = rows[q].scanned /\ v.sha > v.base /\ v.sha <= github.PUSH
        /\ \A i \in Pushes : reviews[i].row = q => reviews[i].sha <= v.sha
        /\ v.base = 0 \/ Covered(v)
    BY <1>1, <1>4 DEF Quiet, Pushing, Begun, Headed, Working
  <2>5. /\ rows \in [DOMAIN rows -> Connections] /\ rows[q] \in Connections
        /\ \A r \in DOMAIN rows : rows[r].scanned \in Nat /\ rows[r].baseline \in Nat
        /\ \A i \in DOMAIN reviews : reviews[i].sha \in Nat /\ reviews[i].base \in Int
        /\ v.sha \in Nat /\ github.PUSH \in Nat
    BY <1>1, <2>4, RowsElements, ReviewsElements DEF TypeOK, Connections, Reviewed, Works, GitHubOK
  <2>6. PICK e : e = [rows[q] EXCEPT !.scanned = v.sha, !.baseline = IF @ = 0 THEN v.sha ELSE @]
    OBVIOUS
  <2>7. e.scanned = v.sha /\ e.baseline = IF rows[q].baseline = 0 THEN v.sha ELSE rows[q].baseline
    BY <2>5, <2>6 DEF Connections
  <2>8. rows' = [rows EXCEPT ![q] = e]
    BY <1>4, <2>4, <2>5, <2>6 DEF Remember, Connections
  <2>9. DOMAIN rows' = DOMAIN rows /\ rows'[q] = e /\ \A r \in DOMAIN rows \ {q} : rows'[r] = rows[r]
    BY <2>4, <2>5, <2>8
  <2>10. /\ rows[q].baseline <= rows[q].scanned /\ (rows[q].scanned = 0 <=> rows[q].baseline = 0)
    BY <2>4 DEF Quiet, Scans
  <2>11. Scans'
    <3>1. ASSUME NEW r \in DOMAIN rows
          PROVE  /\ rows'[r].baseline <= rows'[r].scanned /\ rows'[r].scanned <= github.PUSH
                 /\ rows'[r].scanned = 0 <=> rows'[r].baseline = 0
      <4>1. CASE r = q
        BY <2>4, <2>5, <2>7, <2>9, <2>10, <4>1
      <4>2. CASE r # q
        BY <2>9, <4>2 DEF Quiet, Scans
      <4>3. QED  BY <4>1, <4>2
    <3>2. QED  BY <1>2, <2>9, <3>1 DEF Scans
  <2>12. Ranges'
    <3>1. ASSUME NEW i \in DOMAIN reviews, reviews[i].kind = "PUSH", reviews[i].sha # 0
          PROVE  /\ reviews[i].row \in DOMAIN rows /\ reviews[i].sha <= github.PUSH
                 /\ reviews[i].sha > rows'[reviews[i].row].scanned => reviews[i].base = rows'[reviews[i].row].scanned
      <4>1. /\ reviews[i].row \in DOMAIN rows /\ reviews[i].sha <= github.PUSH
            /\ reviews[i].sha > rows[reviews[i].row].scanned => reviews[i].base = rows[reviews[i].row].scanned
        BY <3>1 DEF Quiet, Ranges, Pushes
      <4>2. CASE reviews[i].row = q
        <5>1. reviews[i].sha <= v.sha
          BY <2>4, <3>1, <4>2 DEF Pushes
        <5>2. QED  BY <2>5, <2>7, <2>9, <4>1, <4>2, <5>1
      <4>3. CASE reviews[i].row # q
        BY <2>9, <4>1, <4>3
      <4>4. QED  BY <4>2, <4>3
    <3>2. QED  BY <1>2, <2>9, <3>1 DEF Ranges, Pushes
  <2>13. Gapless'
    <3>1. ASSUME NEW r \in DOMAIN rows, NEW s \in (rows'[r].baseline + 1)..rows'[r].scanned
          PROVE  \E i \in DOMAIN reviews : /\ reviews[i].row = r /\ reviews[i].kind = "PUSH"
                                           /\ reviews[i].base < s /\ s <= reviews[i].sha
      <4>1. CASE r # q
        <5>1. rows'[r] = rows[r]
          BY <2>9, <4>1
        <5>2. QED  BY <3>1, <5>1 DEF Quiet, Gapless
      <4>2. CASE r = q /\ rows[q].baseline = 0
        BY <2>5, <2>7, <2>9, <3>1, <4>2
      <4>3. CASE r = q /\ rows[q].baseline # 0
        <5>1. s \in Int /\ rows[q].baseline + 1 <= s /\ s <= v.sha
          BY <2>5, <2>7, <2>9, <3>1, <4>3
        <5>2. CASE s <= rows[q].scanned
          <6>1. s \in (rows[q].baseline + 1)..rows[q].scanned
            BY <2>4, <2>5, <5>1, <5>2
          <6>2. QED  BY <2>4, <4>3, <6>1 DEF Quiet, Gapless
        <5>3. CASE s > rows[q].scanned
          <6>1. v.base # 0
            BY <2>4, <2>10, <4>3
          <6>2. PICK i \in Pushes : reviews[i].row = q /\ reviews[i].sha = v.sha
            BY <2>4, <6>1 DEF Covered
          <6>3. reviews[i].base = rows[q].scanned
            BY <2>4, <2>5, <6>2 DEF Quiet, Ranges
          <6>4. QED  BY <4>3, <5>1, <5>3, <6>2, <6>3 DEF Pushes
        <5>4. QED  BY <2>4, <2>5, <5>1, <5>2, <5>3
      <4>4. QED  BY <4>1, <4>2, <4>3
    <3>2. QED  BY <1>2, <2>9, <3>1 DEF Gapless
  <2>14. QED  BY <2>2, <2>3, <2>11, <2>12, <2>13, PollGoes
<1>5. QED  BY <1>3, <1>4

-------------------------------------------------------------------------------
(* Every step *)

LEMMA QuietKept ==
    ASSUME TypeOK, TypeOK', Manually, Pulling, sent = {}, Quiet, Next, sent' = {}
    PROVE  Quiet'
<1>1. CASE \E p \in Producers : Produce(p)
  BY <1>1, HandlersRest, ManualQuiet, PollProduceQuiet DEF Quiet, Producers
<1>2. CASE \E h \in Handlers : Webhook(h)
  BY <1>2, HandlersRest DEF Quiet
<1>3. CASE Poll
  <2>1. ASSUME NEW r \in DOMAIN rows, Forget(r) PROVE Quiet'
    BY <2>1, SameScans, SameReviews, SameHeads, WorldQuiet DEF Forget, TypeOK
  <2>2. QED  BY <1>3, <2>1, PollStartQuiet, PollHeadQuiet, PollPullsQuiet, RememberQuiet DEF Poll
<1>4. CASE CommitHeadless
  BY <1>4, SameScans, SameReviews, SameHeads, WorldQuiet DEF CommitHeadless, TypeOK
<1>5. ASSUME NEW kind \in Kinds, Commit(kind) PROVE Quiet'
  BY <1>5, SameScans, SameReviews, CommitOnward, WorldQuiet DEF Commit, TypeOK
<1>6. CASE Owners
  BY <1>6, OwnersQuiet
<1>7. QED  BY <1>1, <1>2, <1>3, <1>4, <1>5, <1>6 DEF Next

LEMMA PolledKept == ASSUME TypeOK, TypeOK', Polled, Next PROVE Polled'
<1>1. sent \subseteq sent'
  BY DEF Next, Commit, CommitHeadless, Produce, Insert, Reserve, Enqueue, Fail, Webhook, Deliver, Adopt, Register, Decline,
         CheckQuota, Refuse, Poll, PollStart, Forget, PollHead, PollPulls, Remember, Owners, FindConnection,
         StartInstall, Connect, Disconnect, RequestReview, Uninstalled, RepositoryAdded, RepositoryRemoved,
         Installed, Expire, Link, CheckCallback
<1>2. sent' = {} => Quiet'
  BY <1>1, QuietKept DEF Polled
<1>3. QED  BY <1>2, PlacesKept DEF Polled

LEMMA PolledInit == ASSUME Init PROVE Polled
<1>1. Idle.pc = "idle" /\ \A p \in Producers : producer[p] = Idle
  BY DEF Init, Idle
<1>2. rows = <<>> /\ reviews = <<>> /\ DOMAIN rows = {} /\ DOMAIN reviews = {}
  BY DEF Init
<1>3. Manually /\ Pulling /\ Resting
  BY <1>1, Apart DEF Manually, Pulling, Resting, Producers
<1>4. Scans /\ Ranges /\ Gapless
  BY <1>2 DEF Scans, Ranges, Gapless, Pushes
<1>5. Pushing
  BY <1>1, Apart DEF Pushing, Begun
<1>6. QED  BY <1>3, <1>4, <1>5 DEF Polled, Quiet

\* While GitHub announces nothing, every commit between the baseline and the head that the
\* poller remembers lies in the range of a review it made, whatever fails at any of its steps:
\* a tick that is given up is caught up, never skipped.
THEOREM NoGap == Spec => []PollerLeavesNoGap
<1>1. Init => TypeOK /\ Polled
  BY InitType, PolledInit
<1>2. TypeOK /\ Polled /\ [Next]_intake => TypeOK' /\ Polled'
  <2>1. TypeOK /\ Polled /\ Next => TypeOK' /\ Polled'
    BY StepType, PolledKept
  <2>2. TypeOK /\ Polled /\ UNCHANGED intake => TypeOK' /\ Polled'
    <3>1. TypeOK /\ UNCHANGED intake => TypeOK'
      BY StutterType
    <3>2. Polled /\ UNCHANGED intake => Polled'
      BY DEF intake, Polled, Manually, Pulling, Quiet, Resting, Scans, Ranges, Gapless, Pushing, Begun,
             Headed, Covered, Pushes
    <3>3. QED  BY <3>1, <3>2
  <2>3. QED  BY <2>1, <2>2
<1>3. Polled => PollerLeavesNoGap
  BY DEF Polled, Quiet, Gapless, PollerLeavesNoGap
<1>4. QED  BY <1>1, <1>2, <1>3, PTL DEF Spec

=============================================================================
