---------------------------- MODULE SurroundingsSafety ----------------------------
(***************************************************************************)
(* Who may see the reviews and what the browser shows, for any browsers,      *)
(* sockets, requests, reviews, repositories, drafts and tabs.                 *)
(*                                                                         *)
(* Signed out stays out: the check of a token is two steps and its revocation *)
(* may be deleted between them; but only a token that has ended is deleted,   *)
(* and whoever is at the second step after a sign-out finds the row or an      *)
(* ended token.                                                             *)
(*                                                                         *)
(* Shown is chosen: of the requests under way at most one may still be heard, *)
(* and it asks for what the page says; every choice silences the others.      *)
(*                                                                         *)
(* Thrown stays thrown: no row leaves its scenario or, once discarded, that    *)
(* state, and every call of a tab is about a row of the scenario it is on.     *)
(***************************************************************************)
EXTENDS Surroundings, Integers, SequenceTheorems, FiniteSetTheorems, WellFoundedInduction, TLAPS

-------------------------------------------------------------------------------
(* The inductive invariant *)

CheckSteps   == {"idle", "verify", "row", "allowed"}
SocketPlaces  == {"closed", "signed", "verified", "open"}

AccessShape ==
    /\ now \in BOOLEAN
    /\ issued \in [token : Nat, state : Nat]
    /\ cookie \in [Browsers -> [state : Nat, install : BOOLEAN, token : Nat]]
    /\ revoked \subseteq Nat /\ leaving \subseteq Nat /\ out \subseteq Nat
    /\ socket \in [Sockets -> [pc : SocketPlaces, token : Nat]]
    /\ use \in [A!Uses -> [pc : CheckSteps, token : Nat, late : BOOLEAN]]
    /\ faults \in Nat

\* A token that is being or has been signed out has its row, or has ended.
RowsKept == \A t \in leaving \cup out : t \in revoked \/ A!Expired(t)

\* A use that is late uses a token whose sign-out was answered.
LateIsOut == \A u \in A!Uses : use[u].late => use[u].token \in out

AccessInv == AccessShape /\ RowsKept /\ LateIsOut /\ A!SignedOutStaysOut

LEMMA AccessBegins == ASSUME A!Init PROVE AccessInv
BY DEF A!Init, AccessInv, AccessShape, RowsKept, LateIsOut, A!SignedOutStaysOut, A!Uses, A!NoUse, A!Closed, CheckSteps, SocketPlaces

LEMMA AccessStutters == ASSUME AccessInv, UNCHANGED A!access PROVE AccessInv'
BY DEF A!access, AccessInv, AccessShape, RowsKept, LateIsOut, A!SignedOutStaysOut, A!Expired

-------------------------------------------------------------------------------
(* The steps *)

\* Signing in concerns nothing the invariant speaks of.
LEMMA SignIn ==
    ASSUME AccessInv, NEW b \in Browsers,
           A!AskInstall(b) \/ A!StartLogin(b) \/ \E s \in A!Tokens : A!Callback(b, s)
    PROVE  AccessInv'
<1> USE DEF AccessInv
<1>1. AccessShape'
  <2>1. CASE A!AskInstall(b)
    BY <2>1 DEF AccessShape, A!AskInstall
  <2>2. CASE A!StartLogin(b)
    BY <2>2 DEF AccessShape, A!StartLogin
  <2>3. ASSUME NEW s \in A!Tokens, A!Callback(b, s) PROVE AccessShape'
    <3> DEFINE New == [state |-> 0, install |-> FALSE, token |-> issued.token + 1]
    <3> HIDE DEF New
    <3>0. \/ cookie' = [cookie EXCEPT ![b] = New]
          \/ cookie' = [cookie EXCEPT ![b].state = 0, ![b].install = FALSE]
      BY <2>3 DEF A!Callback, New
    <3>1. issued' \in [token : Nat, state : Nat]
      BY <2>3 DEF AccessShape, A!Callback
    <3>2. cookie' \in [Browsers -> [state : Nat, install : BOOLEAN, token : Nat]]
      <4>1. CASE cookie' = [cookie EXCEPT ![b] = New]
        <5>1. New \in [state : Nat, install : BOOLEAN, token : Nat]
          BY DEF AccessShape, New
        <5>2. QED  BY <4>1, <5>1 DEF AccessShape
      <4>2. CASE cookie' = [cookie EXCEPT ![b].state = 0, ![b].install = FALSE]
        <5> DEFINE spent == [cookie EXCEPT ![b].state = 0]
        <5>1. spent \in [Browsers -> [state : Nat, install : BOOLEAN, token : Nat]]
          BY DEF AccessShape
        <5>2. cookie' = [spent EXCEPT ![b].install = FALSE]
          BY <4>2 DEF AccessShape
        <5> HIDE DEF spent
        <5>3. QED  BY <5>1, <5>2
      <4>3. QED  BY <3>0, <4>1, <4>2
    <3>3. QED  BY <2>3, <3>1, <3>2 DEF AccessShape, A!Callback
  <2>4. QED  BY <2>1, <2>2, <2>3
<1>2. UNCHANGED <<now, revoked, leaving, out, use>>
  BY DEF A!AskInstall, A!StartLogin, A!Callback
<1>3. QED  BY <1>1, <1>2 DEF RowsKept, LateIsOut, A!SignedOutStaysOut, A!Expired

\* A sign-out has its row from the moment it begins; the rows deleted with it are of
\* ended tokens.
LEMMA SignOut ==
    ASSUME AccessInv,
           (\E b \in Browsers : A!Revoke(b)) \/ \E t \in A!Tokens : A!SignedOut(t) \/ A!SignOutFails(t)
    PROVE  AccessInv'
<1> USE DEF AccessInv
<1>1. ASSUME NEW b \in Browsers, A!Revoke(b) PROVE AccessInv'
  <2>1. AccessShape'
    BY <1>1 DEF AccessShape, A!Revoke
  <2>2. RowsKept'
    BY <1>1 DEF AccessShape, RowsKept, A!Revoke, A!Expired
  <2>3. QED  BY <1>1, <2>1, <2>2 DEF A!Revoke, LateIsOut, A!SignedOutStaysOut, A!Expired
<1>2. ASSUME NEW t \in A!Tokens, A!SignedOut(t) PROVE AccessInv'
  <2>1. AccessShape'
    BY <1>2 DEF AccessShape, A!SignedOut, A!Closed, SocketPlaces, A!Tokens
  <2>2. RowsKept' /\ LateIsOut' /\ A!SignedOutStaysOut'
    BY <1>2 DEF A!SignedOut, RowsKept, LateIsOut, A!SignedOutStaysOut, A!Expired
  <2>3. QED  BY <2>1, <2>2
<1>3. ASSUME NEW t \in A!Tokens, A!SignOutFails(t) PROVE AccessInv'
  BY <1>3 DEF AccessShape, A!SignOutFails, RowsKept, LateIsOut, A!SignedOutStaysOut, A!Expired
<1>4. QED  BY <1>1, <1>2, <1>3

\* Time only makes more tokens end.
LEMMA TokensEnd == ASSUME AccessInv, A!Expire PROVE AccessInv'
<1> USE DEF AccessInv
<1>1. AccessShape'
  BY DEF AccessShape, A!Expire, A!Closed, SocketPlaces
<1>2. QED  BY <1>1 DEF A!Expire, RowsKept, LateIsOut, A!SignedOutStaysOut, A!Expired

\* A socket's own steps leave the uses of tokens alone.
LEMMA SocketMoves ==
    ASSUME AccessInv, NEW s \in Sockets,
           A!Admit(s) \/ A!Join(s) \/ A!Drop(s) \/ \E t \in A!Tokens : A!Handshake(s, t)
    PROVE  AccessInv'
<1> USE DEF AccessInv
<1>1. AccessShape'
  <2>1. CASE A!Admit(s)
    BY <2>1 DEF AccessShape, A!Admit, A!Closed, SocketPlaces
  <2>2. CASE A!Join(s)
    BY <2>2 DEF AccessShape, A!Join, A!Closed, SocketPlaces
  <2>3. CASE A!Drop(s)
    BY <2>3 DEF AccessShape, A!Drop, A!Closed, SocketPlaces
  <2>4. ASSUME NEW t \in A!Tokens, A!Handshake(s, t) PROVE AccessShape'
    BY <2>4 DEF AccessShape, A!Handshake, SocketPlaces, A!Tokens
  <2>5. QED  BY <2>1, <2>2, <2>3, <2>4
<1>2. UNCHANGED <<now, revoked, leaving, out, use>>
  BY DEF A!Admit, A!Join, A!Drop, A!Handshake
<1>3. QED  BY <1>1, <1>2 DEF RowsKept, LateIsOut, A!SignedOutStaysOut, A!Expired

LEMMA RefusedKeepsShape ==
    ASSUME AccessShape, NEW u \in A!Uses, A!Refused(u)
    PROVE  /\ use' \in [A!Uses -> [pc : CheckSteps, token : Nat, late : BOOLEAN]]
           /\ socket' \in [Sockets -> [pc : SocketPlaces, token : Nat]]
BY DEF AccessShape, A!Refused, A!NoUse, A!Closed, CheckSteps, SocketPlaces

\* A use begins late exactly when its token's sign-out was answered; from then on the
\* second step finds the row, unless the token has ended.
LEMMA UseMoves ==
    ASSUME AccessInv, NEW u \in A!Uses,
           A!CheckSignature(u) \/ A!CheckRow(u) \/ A!Finish(u) \/ \E t \in A!Tokens : A!Begin(u, t)
    PROVE  AccessInv'
<1> USE DEF AccessInv
<1>1. ASSUME NEW t \in A!Tokens, A!Begin(u, t) PROVE AccessInv'
  <2>1. AccessShape'
    BY <1>1 DEF AccessShape, A!Begin, CheckSteps, A!Tokens
  <2>2. RowsKept' /\ LateIsOut' /\ A!SignedOutStaysOut'
    BY <1>1 DEF AccessShape, A!Begin, RowsKept, LateIsOut, A!SignedOutStaysOut, A!Expired
  <2>3. QED  BY <2>1, <2>2
<1>2. CASE A!CheckSignature(u)
  <2>1. AccessShape'
    BY <1>2, RefusedKeepsShape DEF AccessShape, A!CheckSignature, CheckSteps
  <2>2. RowsKept' /\ LateIsOut' /\ A!SignedOutStaysOut'
    BY <1>2 DEF AccessShape, A!CheckSignature, A!Refused, A!NoUse, RowsKept, LateIsOut, A!SignedOutStaysOut, A!Expired
  <2>3. QED  BY <2>1, <2>2
<1>3. CASE A!CheckRow(u)
  <2>1. CASE A!Refused(u) /\ UNCHANGED <<now, issued, cookie, revoked, leaving, out>> /\ faults' \in Nat
    <3>1. AccessShape'
      BY <2>1, RefusedKeepsShape DEF AccessShape
    <3>2. QED  BY <2>1, <3>1 DEF AccessShape, A!Refused, A!NoUse, RowsKept, LateIsOut, A!SignedOutStaysOut, A!Expired
  <2>2. CASE /\ use[u].token \notin revoked /\ use' = [use EXCEPT ![u].pc = "allowed"]
             /\ UNCHANGED <<now, issued, cookie, revoked, leaving, out, socket, faults>>
    <3>1. AccessShape'
      BY <2>2 DEF AccessShape, CheckSteps
    <3>2. use[u].late => A!Expired(use[u].token)
      BY <2>2 DEF RowsKept, LateIsOut
    <3>3. \A v \in A!Uses : /\ use'[v].late = use[v].late /\ use'[v].token = use[v].token
                          /\ v # u => use'[v] = use[v]
      BY <2>2 DEF AccessShape
    <3>4. QED  BY <2>2, <3>1, <3>2, <3>3 DEF RowsKept, LateIsOut, A!SignedOutStaysOut, A!Expired
  <2>3. QED  BY <1>3, <2>1, <2>2 DEF A!CheckRow, AccessShape
<1>4. CASE A!Finish(u)
  BY <1>4 DEF AccessShape, A!Finish, A!NoUse, CheckSteps, RowsKept, LateIsOut, A!SignedOutStaysOut, A!Expired
<1>5. QED  BY <1>1, <1>2, <1>3, <1>4

-------------------------------------------------------------------------------
(* The theorems *)

\* The invariant of sessions holds in every state.
LEMMA AccessHolds == A!Spec => []AccessInv
<1>1. AccessInv /\ [A!Next]_A!access => AccessInv'
  BY AccessStutters, SignIn, SignOut, TokensEnd, SocketMoves, UseMoves DEF A!Next
<1>2. QED  BY <1>1, AccessBegins, PTL DEF A!Spec

\* Tokens, cookies, sockets and uses keep their shape.
THEOREM AccessTypeCorrect == A!Spec => []AccessShape
BY AccessHolds, PTL DEF AccessInv

\* Once a sign-out has been answered, nothing that begins later is allowed with its token, unless
\* the token ends between the two steps of the check (AuthController.logout, AuthService.verifyToken,
\* the handshake and the rooms of socket.ts).
THEOREM NobodyReturns == A!Spec => [](A!SignedOutStaysOut /\ SignedOutStaysOut)
<1>1. AccessInv => A!SignedOutStaysOut /\ SignedOutStaysOut
  BY DEF AccessInv, SignedOutStaysOut
<1>2. QED  BY <1>1, AccessHolds, PTL

-------------------------------------------------------------------------------
(* The history page *)

\* A list of requests, and a page.
Request(Q)  == [query : Q, tick : BOOLEAN, mine : BOOLEAN]
Asks(reqs) == \E Q : reqs \in Seq(Request(Q))

PageShape(u) == u \in [page : {u.page}, repo : {u.repo}, scope : {u.scope}, rows : {u.rows}, of : {u.of},
                       pages : {u.pages}, loading : BOOLEAN, failed : BOOLEAN, opening : BOOLEAN,
                       missing : BOOLEAN, chosen : {u.chosen}, selected : {u.selected}]

\* Who waits for a list waits for what the page says; and a list that is there is of it.
Asking(u, ls)   == \A i \in DOMAIN ls : ls[i].mine => ls[i].query = H!Key(u)
ListOf(u, ls)   == ~u.loading /\ ~u.failed /\ ~H!Waiting(ls) => u.of = H!Key(u)

\* A review that was shown is the one beside the list; one that was not is on its way, or missing.
Beside(u)  == u.selected # None /\ u.selected.id = u.chosen.id
Showing(u) == /\ u.chosen # None => Beside(u) \/ u.opening \/ u.missing
              /\ u.chosen # None /\ u.chosen.status # None => Beside(u)
Chosen(u, ds) == \/ u.chosen = None /\ ds = <<>>
                 \/ u.chosen \in [id : {u.chosen.id}, status : {u.chosen.status}]

PageInv == /\ PageShape(ui) /\ Asks(lists) /\ Asks(details)
           /\ Asking(ui, lists) /\ ListOf(ui, lists) /\ Showing(ui) /\ Chosen(ui, details)

LEMMA AbortedIs ==
  ASSUME NEW Q, NEW r \in Request(Q), NEW z, z = [r EXCEPT !.mine = FALSE, !.tick = FALSE]
  PROVE  z \in Request(Q) /\ ~z.mine
BY DEF Request

LEMMA UnpolledRequest ==
  ASSUME NEW Q, NEW r \in Request(Q), NEW z, z = [r EXCEPT !.tick = FALSE]
  PROVE  z \in Request(Q) /\ z.mine = r.mine /\ z.query = r.query
BY DEF Request

\* A request is added to its list, heard, and no other is.
LEMMA AskIs ==
  ASSUME NEW s, Asks(s), NEW q, NEW t \in BOOLEAN
  PROVE  /\ Asks(H!Ask(s, q, t)) /\ H!Waiting(H!Ask(s, q, t)) /\ H!Ask(s, q, t) # <<>>
         /\ \A i \in DOMAIN H!Ask(s, q, t) : H!Ask(s, q, t)[i].mine => H!Ask(s, q, t)[i].query = q
<1> DEFINE a == H!Abort(s)
           r == [query |-> q, tick |-> t, mine |-> TRUE]
           z == Append(a, r)
           n == Len(s)
<1>1. PICK Q : s \in Seq(Request(Q))
  BY DEF Asks
<1>2. DOMAIN s = 1..n /\ n \in Nat
  BY <1>1
<1> HIDE DEF n
<1> DEFINE T == Request(Q \cup {q})
<1>3. a \in Seq(T) /\ Len(a) = n /\ \A i \in 1..n : ~a[i].mine
  <2>0. Request(Q) \subseteq T
    BY DEF Request
  <2>1. \A i \in 1..n : s[i] \in Request(Q)
    BY <1>1, <1>2
  <2>2. \A i \in 1..n : a[i] = [s[i] EXCEPT !.mine = FALSE, !.tick = FALSE]
    BY <1>2 DEF H!Abort
  <2>3. ASSUME NEW i \in 1..n PROVE a[i] \in T /\ ~a[i].mine
    <3> DEFINE x == s[i]
    <3>1. x \in Request(Q) /\ a[i] = [x EXCEPT !.mine = FALSE, !.tick = FALSE]
      BY <2>1, <2>2
    <3> HIDE DEF x, a, T
    <3>2. QED  BY <2>0, <3>1, AbortedIs
  <2>4. a = [i \in 1..n |-> a[i]]
    BY <1>2 DEF H!Abort
  <2> HIDE DEF a, T
  <2>5. QED  BY <1>2, <2>3, <2>4
<1>4. r \in T
  BY DEF Request
<1> HIDE DEF a, r, T
<1>5. z \in Seq(T) /\ Len(z) = n + 1 /\ z[n + 1] = r /\ \A i \in 1..n : z[i] = a[i]
  BY <1>2, <1>3, <1>4
<1> HIDE DEF z
<1>6. DOMAIN z = 1..(n + 1)
  BY <1>2, <1>5
<1>7. \A i \in DOMAIN z : z[i].mine => z[i] = r
  BY <1>2, <1>3, <1>5, <1>6
<1>8. z[n + 1].mine /\ r.query = q /\ n + 1 \in DOMAIN z
  BY <1>2, <1>5, <1>6 DEF r
<1>9. H!Waiting(z) /\ z # <<>>
  BY <1>8 DEF H!Waiting
<1>10. z = H!Ask(s, q, t)
  BY DEF z, a, r, H!Ask
<1>11. Asks(z)
  BY <1>5 DEF Asks, T
<1>12. QED  BY <1>7, <1>8, <1>9, <1>10, <1>11

\* A poll that is not waited for any more is still heard.
LEMMA UnpolledIs ==
  ASSUME NEW s, Asks(s)
  PROVE  /\ Asks(H!Unpolled(s)) /\ DOMAIN H!Unpolled(s) = DOMAIN s
         /\ \A i \in DOMAIN s : H!Unpolled(s)[i].mine = s[i].mine /\ H!Unpolled(s)[i].query = s[i].query
<1>1. PICK Q : s \in Seq(Request(Q))
  BY DEF Asks
<1>2. DOMAIN s = 1..Len(s) /\ Len(s) \in Nat
  BY <1>1
<1> DEFINE a == H!Unpolled(s)
           n == Len(s)
           T == Request(Q)
<1>3. \A i \in 1..n : s[i] \in T
  BY <1>1, <1>2
<1>4. \A i \in 1..n : a[i] = [s[i] EXCEPT !.tick = FALSE]
  BY <1>2 DEF H!Unpolled
<1>5. a = [i \in 1..n |-> a[i]]
  BY <1>2 DEF H!Unpolled
<1>6. ASSUME NEW i \in 1..n PROVE a[i] \in T /\ a[i].mine = s[i].mine /\ a[i].query = s[i].query
  <2> DEFINE x == s[i]
  <2>1. x \in Request(Q) /\ a[i] = [x EXCEPT !.tick = FALSE]
    BY <1>3, <1>4
  <2>2. x = s[i]
    OBVIOUS
  <2> HIDE DEF x, a
  <2>3. QED  BY <2>1, <2>2, UnpolledRequest
<1> HIDE DEF a, T, n
<1>7. a \in Seq(T) /\ Len(a) = n
  BY <1>2, <1>5, <1>6 DEF n
<1>8. Asks(a) /\ DOMAIN a = 1..n
  BY <1>7 DEF Asks, T
<1>9. QED  BY <1>2, <1>6, <1>8 DEF a, n

\* After an abort no request of the list is heard.
LEMMA AbortIs ==
  ASSUME NEW s, Asks(s)
  PROVE  /\ Asks(H!Abort(s)) /\ DOMAIN H!Abort(s) = DOMAIN s
         /\ \A i \in DOMAIN s : ~H!Abort(s)[i].mine
<1>1. PICK Q : s \in Seq(Request(Q))
  BY DEF Asks
<1>2. DOMAIN s = 1..Len(s) /\ Len(s) \in Nat
  BY <1>1
<1> DEFINE a == H!Abort(s)
           n == Len(s)
           T == Request(Q)
<1>3. \A i \in 1..n : s[i] \in T
  BY <1>1, <1>2
<1>4. \A i \in 1..n : a[i] = [s[i] EXCEPT !.mine = FALSE, !.tick = FALSE]
  BY <1>2 DEF H!Abort
<1>5. a = [i \in 1..n |-> a[i]]
  BY <1>2 DEF H!Abort
<1>6. ASSUME NEW i \in 1..n PROVE a[i] \in T /\ ~a[i].mine
  <2> DEFINE x == s[i]
  <2>1. x \in Request(Q) /\ a[i] = [x EXCEPT !.mine = FALSE, !.tick = FALSE]
    BY <1>3, <1>4
  <2>2. x = s[i]
    OBVIOUS
  <2> HIDE DEF x, a
  <2>3. QED  BY <2>1, <2>2, AbortedIs
<1> HIDE DEF a, T, n
<1>7. a \in Seq(T) /\ Len(a) = n
  BY <1>2, <1>5, <1>6 DEF n
<1>8. Asks(a) /\ DOMAIN a = 1..n
  BY <1>7 DEF Asks, T
<1>9. QED  BY <1>2, <1>6, <1>8 DEF a, n

\* An answered request leaves its list, and the others stay.
LEMMA RemovedIs ==
  ASSUME NEW s, Asks(s), NEW i \in DOMAIN s
  PROVE  /\ Asks(H!RemoveAt(s, i))
         /\ \A k \in DOMAIN H!RemoveAt(s, i) : \E m \in DOMAIN s : H!RemoveAt(s, i)[k] = s[m]
         /\ \A m \in DOMAIN s \ {i} : \E k \in DOMAIN H!RemoveAt(s, i) : H!RemoveAt(s, i)[k] = s[m]
<1> DEFINE z == H!RemoveAt(s, i)
           n == Len(s)
<1>0. PICK Q : s \in Seq(Request(Q))
  BY DEF Asks
<1> DEFINE T == Request(Q)
<1>1. s \in Seq(T) /\ DOMAIN s = 1..n /\ n \in Nat /\ i \in 1..n
  BY <1>0
<1> HIDE DEF T, n
<1>2. z = SubSeq(s, 1, i - 1) \o SubSeq(s, i + 1, n)
  BY DEF H!RemoveAt, n
<1>3. /\ SubSeq(s, 1, i - 1) \in Seq(T) /\ Len(SubSeq(s, 1, i - 1)) = i - 1
      /\ \A k \in 1..(i - 1) : SubSeq(s, 1, i - 1)[k] = s[k]
  BY <1>1 DEF n
<1>4. /\ SubSeq(s, i + 1, n) \in Seq(T) /\ Len(SubSeq(s, i + 1, n)) = n - i
      /\ \A k \in 1..(n - i) : SubSeq(s, i + 1, n)[k] = s[k + i]
  BY <1>1 DEF n
<1> HIDE DEF z
<1>5. /\ z \in Seq(T) /\ Len(z) = n - 1
      /\ \A k \in 1..(n - 1) : z[k] = IF k <= i - 1 THEN s[k] ELSE s[k + 1]
  <2> DEFINE a == SubSeq(s, 1, i - 1)
             b == SubSeq(s, i + 1, n)
  <2>1. a \in Seq(T) /\ b \in Seq(T) /\ Len(a) = i - 1 /\ Len(b) = n - i /\ z = a \o b
    BY <1>2, <1>3, <1>4
  <2>2. /\ \A k \in 1..(i - 1) : a[k] = s[k]
        /\ \A k \in 1..(n - i) : b[k] = s[k + i]
    BY <1>3, <1>4
  <2> HIDE DEF a, b
  <2>3. z \in Seq(T) /\ Len(z) = Len(a) + Len(b) /\ \A k \in 1..(Len(a) + Len(b)) :
            z[k] = IF k <= Len(a) THEN a[k] ELSE b[k - Len(a)]
    BY <2>1, ConcatProperties
  <2>4. \A k \in 1..(n - 1) : z[k] = IF k <= i - 1 THEN a[k] ELSE b[k - (i - 1)]
    BY <1>1, <2>1, <2>3
  <2>5. \A k \in 1..(n - 1) : k <= i - 1 => z[k] = s[k]
    BY <1>1, <2>2, <2>4
  <2>6. ASSUME NEW k \in 1..(n - 1), ~(k <= i - 1) PROVE z[k] = s[k + 1]
    <3>1. k - (i - 1) \in 1..(n - i) /\ (k - (i - 1)) + i = k + 1
      BY <1>1, <2>6
    <3>2. QED  BY <2>2, <2>4, <2>6, <3>1
  <2>7. Len(z) = n - 1
    BY <1>1, <2>1, <2>3
  <2>8. QED  BY <2>3, <2>5, <2>6, <2>7
<1>6. DOMAIN z = 1..(n - 1)
  BY <1>1, <1>5
<1>7. ASSUME NEW k \in DOMAIN z PROVE \E m \in DOMAIN s : z[k] = s[m]
  <2>1. k \in DOMAIN s /\ k + 1 \in DOMAIN s
    BY <1>1, <1>6
  <2>2. z[k] = s[k] \/ z[k] = s[k + 1]
    BY <1>5, <1>6
  <2>3. QED  BY <2>1, <2>2
<1>8. \A m \in DOMAIN s \ {i} : \E k \in DOMAIN z : z[k] = s[m]
  <2> SUFFICES ASSUME NEW m \in DOMAIN s \ {i} PROVE \E k \in DOMAIN z : z[k] = s[m]
    OBVIOUS
  <2>1. CASE m < i
    BY <1>1, <1>5, <1>6, <2>1
  <2>2. CASE m > i
    <3>1. m - 1 \in DOMAIN z /\ z[m - 1] = s[m]
      BY <1>1, <1>5, <1>6, <2>2
    <3>2. QED  BY <3>1
  <2>3. QED  BY <1>1, <2>1, <2>2
<1>9. Asks(z)
  BY <1>5 DEF Asks, T
<1>10. QED  BY <1>7, <1>8, <1>9 DEF z

\* The page is shown again: what changed what it asks for asks.
LEMMA Rendered ==
  ASSUME NEW u, NEW ls, NEW ds, H!Render(u, ls, ds),
         PageShape(u), Asks(ls), Asks(ds), Asking(ui, ls), H!Key(u) = H!Key(ui) => ListOf(u, ls),
         Showing(u), Chosen(u, ds)
  PROVE  PageInv'
<1>1. ui' = u
  BY DEF H!Render
<1>2. Chosen(u, H!Unpolled(ds)) /\ Asks(H!Unpolled(ds))
  <2>1. Asks(H!Unpolled(ds)) /\ (ds = <<>> => H!Unpolled(ds) = <<>>)
    BY UnpolledIs DEF H!Unpolled
  <2>2. QED  BY <2>1 DEF Chosen
<1>3. Asks(details') /\ Chosen(u, details')
  BY <1>2 DEF H!Render
<1>4. Asks(lists') /\ Asking(u, lists') /\ ListOf(u, lists')
  <2>1. CASE H!Key(u) # H!Key(ui)
    <3>1. lists' = H!Ask(ls, H!Key(u), FALSE)
      BY <2>1 DEF H!Render, H!FetchJobs
    <3>2. QED  BY <3>1, AskIs DEF Asking, ListOf
  <2>2. CASE H!Key(u) = H!Key(ui)
    <3>1. lists' = ls \/ lists' = H!Unpolled(ls)
      BY <2>2 DEF H!Render
    <3>2. Asks(H!Unpolled(ls)) /\ (H!Waiting(ls) => H!Waiting(H!Unpolled(ls)))
      BY UnpolledIs DEF H!Waiting
    <3>3. Asking(u, ls) /\ Asking(u, H!Unpolled(ls))
      BY <2>2, UnpolledIs DEF Asking
    <3>4. ListOf(u, ls) /\ ListOf(u, H!Unpolled(ls))
      BY <2>2, <3>2 DEF ListOf
    <3>5. QED  BY <3>1, <3>2, <3>3, <3>4
  <2>3. QED  BY <2>1, <2>2
<1>5. QED  BY <1>1, <1>3, <1>4 DEF PageInv, Asking, ListOf, Showing, Chosen, PageShape, Beside, Asks, Request, H!Waiting, H!Key

\* What the user does to the list leaves the review beside it.
LEMMA Narrowed ==
  ASSUME PageInv, NEW u, PageShape(u), u.chosen = ui.chosen, u.selected = ui.selected,
         u.opening = ui.opening, u.missing = ui.missing, u.loading,
         NEW ls, Asks(ls), Asking(ui, ls), H!Render(u, ls, details)
  PROVE  PageInv'
<1>1. ListOf(u, ls) /\ Showing(u) /\ Chosen(u, details) /\ Asks(details)
  BY DEF PageInv, ListOf, Showing, Chosen, Beside
<1>2. QED  BY <1>1, Rendered

LEMMA FilterNarrows ==
  ASSUME PageInv, NEW u, PageShape(u), u.chosen = ui.chosen, u.selected = ui.selected,
         u.opening = ui.opening, u.missing = ui.missing, H!ApplyFilter(u)
  PROVE  PageInv'
<1> DEFINE v == [u EXCEPT !.page = 1, !.loading = TRUE]
<1>1. /\ PageShape(v) /\ v.chosen = ui.chosen /\ v.selected = ui.selected
      /\ v.opening = ui.opening /\ v.missing = ui.missing /\ v.loading
  BY DEF PageShape
<1>2. Asks(H!Abort(lists)) /\ Asking(ui, H!Abort(lists))
  BY AbortIs DEF PageInv, Asking
<1>3. H!Render(v, H!Abort(lists), details)
  BY DEF H!ApplyFilter
<1> HIDE DEF v
<1>4. QED  BY <1>1, <1>2, <1>3, Narrowed

\* The page: a step of the user, its own polls, the backend and each answer keep the invariant.
LEMMA UserFilters ==
  ASSUME PageInv, (\E r \in H!Repositories \cup {None} : H!PickRepository(r)) \/ H!ToggleScope \/ H!Clear
  PROVE  PageInv'
<1>0. PageShape(ui)
  BY DEF PageInv
<1>1. ASSUME NEW r, H!PickRepository(r) PROVE PageInv'
  <2> DEFINE u == [ui EXCEPT !.repo = r]
  <2>1. /\ PageShape(u) /\ u.chosen = ui.chosen /\ u.selected = ui.selected
        /\ u.opening = ui.opening /\ u.missing = ui.missing
    BY <1>0 DEF PageShape
  <2>2. H!ApplyFilter(u)
    BY <1>1 DEF H!PickRepository
  <2> HIDE DEF u
  <2>3. QED  BY <2>1, <2>2, FilterNarrows
<1>2. ASSUME H!ToggleScope PROVE PageInv'
  <2> DEFINE u == [ui EXCEPT !.scope = ~@]
  <2>1. /\ PageShape(u) /\ u.chosen = ui.chosen /\ u.selected = ui.selected
        /\ u.opening = ui.opening /\ u.missing = ui.missing
    BY <1>0 DEF PageShape
  <2>2. H!ApplyFilter(u)
    BY <1>2 DEF H!ToggleScope
  <2> HIDE DEF u
  <2>3. QED  BY <2>1, <2>2, FilterNarrows
<1>3. ASSUME H!Clear PROVE PageInv'
  <2> DEFINE u == [ui EXCEPT !.repo = None, !.scope = FALSE]
  <2>1. /\ PageShape(u) /\ u.chosen = ui.chosen /\ u.selected = ui.selected
        /\ u.opening = ui.opening /\ u.missing = ui.missing
    BY <1>0 DEF PageShape
  <2>2. H!ApplyFilter(u)
    BY <1>3 DEF H!Clear
  <2> HIDE DEF u
  <2>3. QED  BY <2>1, <2>2, FilterNarrows
<1>4. QED  BY <1>1, <1>2, <1>3

LEMMA UserTurns == ASSUME PageInv, NEW p, H!GoToPage(p) PROVE PageInv'
<1>0. PageShape(ui)
  BY DEF PageInv
<1> DEFINE u == [ui EXCEPT !.page = p, !.loading = TRUE]
<1>1. /\ PageShape(u) /\ u.chosen = ui.chosen /\ u.selected = ui.selected
      /\ u.opening = ui.opening /\ u.missing = ui.missing /\ u.loading
  BY <1>0 DEF PageShape
<1>2. Asks(H!Abort(lists)) /\ Asking(ui, H!Abort(lists))
  BY AbortIs DEF PageInv, Asking
<1>3. H!Render(u, H!Abort(lists), details)
  BY DEF H!GoToPage
<1> HIDE DEF u
<1>4. QED  BY <1>1, <1>2, <1>3, Narrowed

\* A request for what the page says.
LEMMA Fetching ==
  ASSUME PageInv, NEW u, H!Key(u) = H!Key(ui), NEW t \in BOOLEAN
  PROVE  /\ Asks(H!FetchJobs(lists, u, t)) /\ Asking(ui, H!FetchJobs(lists, u, t))
         /\ H!Waiting(H!FetchJobs(lists, u, t))
BY AskIs DEF H!FetchJobs, PageInv, Asking

LEMMA UserRetries == ASSUME PageInv, H!RetryList PROVE PageInv'
<1>0. PageShape(ui)
  BY DEF PageInv
<1> DEFINE u == [ui EXCEPT !.loading = TRUE]
<1>1. /\ PageShape(u) /\ u.chosen = ui.chosen /\ u.selected = ui.selected
      /\ u.opening = ui.opening /\ u.missing = ui.missing /\ u.loading
      /\ u.page = ui.page /\ u.repo = ui.repo /\ u.scope = ui.scope
  BY <1>0 DEF PageShape
<1>2. H!Render(u, H!FetchJobs(lists, u, FALSE), details)
  BY DEF H!RetryList
<1> HIDE DEF u
<1>3. H!Key(u) = H!Key(ui)
  BY <1>1 DEF H!Key
<1>4. QED  BY <1>1, <1>2, <1>3, Fetching, Narrowed

LEMMA PagePolls == ASSUME PageInv, H!Poll PROVE PageInv'
<1>1. /\ Asks(H!FetchJobs(lists, ui, TRUE)) /\ Asking(ui, H!FetchJobs(lists, ui, TRUE))
      /\ H!Waiting(H!FetchJobs(lists, ui, TRUE))
  BY Fetching
<1>2. H!Render(ui, H!FetchJobs(lists, ui, TRUE), details)
  BY DEF H!Poll
<1>3. ListOf(ui, H!FetchJobs(lists, ui, TRUE))
  BY <1>1 DEF ListOf
<1>4. QED  BY <1>1, <1>2, <1>3, Rendered DEF PageInv

\* A row is chosen.
LEMMA UserChooses == ASSUME PageInv, NEW id, H!Choose(id) PROVE PageInv'
<1>0. PageShape(ui)
  BY DEF PageInv
<1> DEFINE u == H!OpenJob(ui, id, FALSE)
<1>1. /\ PageShape(u) /\ u.chosen = [id |-> id, status |-> None] /\ u.opening
      /\ u.selected = ui.selected /\ u.page = ui.page /\ u.repo = ui.repo /\ u.scope = ui.scope
      /\ u.loading = ui.loading /\ u.failed = ui.failed /\ u.of = ui.of
  BY <1>0 DEF PageShape, H!OpenJob
<1>2. H!Render(u, lists, H!Ask(details, id, FALSE))
  BY DEF H!Choose
<1> HIDE DEF u
<1>3. H!Key(u) = H!Key(ui)
  BY <1>1 DEF H!Key
<1>4. ListOf(u, lists) /\ Showing(u) /\ Chosen(u, H!Ask(details, id, FALSE))
  BY <1>1, <1>3 DEF PageInv, ListOf, Showing, Chosen
<1>5. Asks(H!Ask(details, id, FALSE))
  BY AskIs DEF PageInv
<1>6. QED  BY <1>1, <1>2, <1>4, <1>5, Rendered DEF PageInv

LEMMA BackendMoves == ASSUME PageInv, NEW j, H!Ends(j) \/ H!Deleted(j) PROVE PageInv'
<1>1. UNCHANGED <<ui, lists, details>>
  BY DEF H!Ends, H!Deleted
<1>2. QED  BY <1>1 DEF PageInv, PageShape, Asks, Asking, ListOf, Showing, Chosen, Beside, H!Key, H!Waiting

\* The answer to a request for the list.
LEMMA ListHeard == ASSUME PageInv, NEW i \in DOMAIN lists, H!HearList(i) PROVE PageInv'
<1> DEFINE r    == lists[i]
           rest == H!RemoveAt(lists, i)
<1>0. PageShape(ui) /\ Asks(lists) /\ Asks(details)
  BY DEF PageInv
<1>1. /\ Asks(rest) /\ Asking(ui, rest)
      /\ ~r.mine => (H!Waiting(lists) => H!Waiting(rest))
  <2>1. /\ Asks(rest)
        /\ \A k \in DOMAIN rest : \E m \in DOMAIN lists : rest[k] = lists[m]
        /\ \A m \in DOMAIN lists \ {i} : \E k \in DOMAIN rest : rest[k] = lists[m]
    BY <1>0, RemovedIs
  <2> HIDE DEF rest
  <2>2. QED  BY <2>1 DEF PageInv, Asking, H!Waiting
<1>2. CASE ~H!Heard(r) /\ lists' = rest /\ UNCHANGED <<server, ui, details>>
  <2> HIDE DEF rest
  <2>1. ListOf(ui, rest)
    BY <1>1, <1>2 DEF PageInv, ListOf, H!Heard
  <2>2. QED  BY <1>1, <1>2, <2>1 DEF PageInv, PageShape, Asks, Asking, ListOf, Showing, Chosen, Beside, H!Key, H!Waiting
<1>3. CASE H!Render([ui EXCEPT !.failed = TRUE, !.loading = FALSE], rest, details)
  <2> DEFINE u == [ui EXCEPT !.failed = TRUE, !.loading = FALSE]
  <2>1. /\ PageShape(u) /\ u.chosen = ui.chosen /\ u.selected = ui.selected
        /\ u.opening = ui.opening /\ u.missing = ui.missing /\ u.failed
    BY <1>0 DEF PageShape
  <2> HIDE DEF u, rest
  <2>2. ListOf(u, rest) /\ Showing(u) /\ Chosen(u, details)
    BY <2>1 DEF PageInv, ListOf, Showing, Chosen, Beside
  <2>3. QED  BY <1>0, <1>1, <1>3, <2>1, <2>2, Rendered DEF u
<1> DEFINE u == H!ShowList(r.query, H!Listed(r.query))
<1>4. /\ PageShape(u) /\ u.chosen = ui.chosen /\ u.selected = ui.selected
      /\ u.opening = ui.opening /\ u.missing = ui.missing /\ u.of = r.query
      /\ u.repo = ui.repo /\ u.scope = ui.scope
  BY <1>0 DEF PageShape, H!ShowList
<1>5. H!Heard(r) => r.query = H!Key(ui)
  BY DEF PageInv, Asking, H!Heard
<1>6. Showing(u) /\ Chosen(u, details)
  BY <1>4 DEF PageInv, Showing, Chosen, Beside
<1>7. CASE H!Heard(r) /\ H!Render(u, rest, details)
  <2> HIDE DEF u, rest
  <2>1. H!Key(u) = H!Key(ui) => ListOf(u, rest)
    BY <1>4, <1>5, <1>7 DEF ListOf
  <2>2. QED  BY <1>0, <1>1, <1>4, <1>6, <1>7, <2>1, Rendered
<1>8. CASE H!Heard(r) /\ H!Changed(r, u.rows) /\ H!Render(H!OpenJob(u, u.chosen.id, TRUE), rest, H!Ask(details, u.chosen.id, TRUE))
  <2> HIDE DEF u, rest
  <2> DEFINE v == H!OpenJob(u, u.chosen.id, TRUE)
  <2>1. /\ PageShape(v) /\ v.chosen = u.chosen /\ v.selected = u.selected /\ v.opening = u.opening /\ v.of = u.of
        /\ v.page = u.page /\ v.repo = u.repo /\ v.scope = u.scope
    BY <1>4 DEF PageShape, H!OpenJob
  <2>2. ui.chosen # None /\ ui.chosen.status # None
    BY <1>8 DEF H!Changed
  <2>3. H!Render(v, rest, H!Ask(details, u.chosen.id, TRUE))
    BY <1>8
  <2> HIDE DEF v
  <2>4. Showing(v) /\ Chosen(v, H!Ask(details, u.chosen.id, TRUE))
    BY <1>4, <1>6, <2>1, <2>2 DEF Showing, Chosen, Beside
  <2>5. H!Key(v) = H!Key(ui) => ListOf(v, rest)
    BY <1>4, <1>5, <1>8, <2>1 DEF ListOf
  <2>6. Asks(H!Ask(details, u.chosen.id, TRUE))
    BY <1>0, AskIs
  <2>7. QED  BY <1>0, <1>1, <2>1, <2>3, <2>4, <2>5, <2>6, Rendered
<1>9. QED  BY <1>2, <1>3, <1>7, <1>8 DEF H!HearList

\* The answer to a request for a review.
LEMMA DetailHeard == ASSUME PageInv, NEW i \in DOMAIN details, H!HearDetail(i) PROVE PageInv'
<1> DEFINE r    == details[i]
           rest == H!RemoveAt(details, i)
           mine == H!Heard(r) /\ ui.chosen.id = r.query
<1>0. PageShape(ui) /\ Asks(lists) /\ Asks(details) /\ Asking(ui, lists)
  BY DEF PageInv
<1>1. Asks(rest)
  BY <1>0, RemovedIs
<1>2. ui.chosen \in [id : {ui.chosen.id}, status : {ui.chosen.status}]
  BY DEF PageInv, Chosen
<1> HIDE DEF rest
<1>3. CASE lists' = lists /\ details' = rest /\ ui' = ui
  <2>1. Chosen(ui, rest)
    BY <1>2 DEF Chosen
  <2>2. QED  BY <1>1, <1>3, <2>1 DEF PageInv, PageShape, Asks, Asking, ListOf, Showing, Chosen, Beside, H!Key, H!Waiting
<1>4. CASE H!Render([ui EXCEPT !.missing = TRUE, !.opening = FALSE], lists, rest)
  <2> DEFINE u == [ui EXCEPT !.missing = TRUE, !.opening = FALSE]
  <2>1. /\ PageShape(u) /\ u.chosen = ui.chosen /\ u.selected = ui.selected /\ u.missing
        /\ u.page = ui.page /\ u.repo = ui.repo /\ u.scope = ui.scope
        /\ u.loading = ui.loading /\ u.failed = ui.failed /\ u.of = ui.of
    BY <1>0 DEF PageShape
  <2> HIDE DEF u
  <2>2. ListOf(u, lists) /\ Showing(u) /\ Chosen(u, rest)
    BY <1>2, <2>1 DEF PageInv, ListOf, Showing, Chosen, Beside, H!Key
  <2>3. QED  BY <1>0, <1>1, <1>4, <2>1, <2>2, Rendered DEF u
<1>5. ASSUME NEW told, mine, H!Render(H!Show(r.query, told), lists, rest) PROVE PageInv'
  <2> DEFINE u == H!Show(r.query, told)
  <2>1. /\ u \in [page : {u.page}, repo : {u.repo}, scope : {u.scope}, rows : {u.rows}, of : {u.of},
                  pages : {u.pages}, loading : BOOLEAN, failed : BOOLEAN, opening : BOOLEAN,
                  missing : BOOLEAN, chosen : {u.chosen}, selected : {u.selected}]
        /\ u.chosen = [ui.chosen EXCEPT !.status = told] /\ u.selected = [id |-> r.query, status |-> told]
        /\ u.loading = ui.loading /\ u.failed = ui.failed /\ u.of = ui.of
    BY <1>0 DEF PageShape, H!Show
  <2>2. u.chosen \in [id : {r.query}, status : {told}] /\ u.chosen = u.selected
    BY <1>2, <1>5, <2>1
  <2>3. PageShape(u)
    BY <2>1 DEF PageShape
  <2> HIDE DEF u
  <2>4. H!Key(u) = H!Key(ui) => ListOf(u, lists)
    BY <2>1 DEF PageInv, ListOf
  <2>5. Showing(u)
    BY <2>2 DEF Showing, Beside
  <2>6. Chosen(u, rest)
    BY <2>2 DEF Chosen
  <2>7. QED  BY <1>0, <1>1, <1>5, <2>3, <2>4, <2>5, <2>6, Rendered DEF u
<1>6. QED  BY <1>3, <1>4, <1>5 DEF H!HearDetail, rest

LEMMA PageOpens == ASSUME H!Init PROVE PageInv
<1>1. PICK link \in H!Reviews \cup {None} :
         /\ ui = [page |-> 1, repo |-> None, scope |-> FALSE, rows |-> <<>>, of |-> None, pages |-> 1,
                  loading |-> TRUE, failed |-> FALSE, opening |-> link # None, missing |-> FALSE,
                  chosen |-> IF link = None THEN None ELSE [id |-> link, status |-> None], selected |-> None]
         /\ details = IF link = None THEN <<>> ELSE H!Ask(<<>>, link, FALSE)
  BY DEF H!Init
<1>2. Asks(<<>>)
  BY DEF Asks
<1>3. Asks(details)
  BY <1>1, <1>2, AskIs
<1>4. Asks(lists) /\ Asking(ui, lists)
  BY <1>2, AskIs DEF H!Init, H!FetchJobs, Asking
<1>5. PageShape(ui) /\ ui.loading /\ ui.opening = (link # None)
      /\ ui.chosen = IF link = None THEN None ELSE [id |-> link, status |-> None]
  BY <1>1 DEF PageShape
<1>6. ListOf(ui, lists)
  BY <1>5 DEF ListOf
<1>7. Showing(ui) /\ Chosen(ui, details)
  BY <1>1, <1>5 DEF Showing, Chosen
<1>8. QED  BY <1>3, <1>4, <1>5, <1>6, <1>7 DEF PageInv

\* The invariant of the history page holds in every state.
LEMMA PageHolds == H!Spec => []PageInv
<1>1. ASSUME PageInv, [H!Next]_H!vars PROVE PageInv'
  <2>1. CASE UNCHANGED H!vars
    BY <1>1, <2>1 DEF H!vars, PageInv, PageShape, Asks, Asking, ListOf, Showing, Chosen, Beside, H!Key, H!Waiting
  <2>2. CASE H!Next
    BY <1>1, <2>2, UserFilters, UserTurns, UserRetries, PagePolls, UserChooses, BackendMoves, ListHeard, DetailHeard
       DEF H!Next
  <2>3. QED  BY <1>1, <2>1, <2>2
<1>2. QED  BY <1>1, PageOpens, PTL DEF H!Spec

\* The history page shows the list of its filters, and the review chosen last, whatever answers
\* come late (history/page.tsx).
THEOREM ChosenIsShown == H!Spec => []H!ShownIsChosen
<1>1. PageInv => H!ShownIsChosen
  BY DEF PageInv, ListOf, Showing, Beside, H!ShownIsChosen
<1>2. QED  BY <1>1, PageHolds, PTL

-------------------------------------------------------------------------------
(* The health page *)

\* None is no snapshot and no table.
NoneIsNothing == /\ \A s, e, r, p : None # [scope |-> s, end |-> e, reviews |-> r, repos |-> p]
                 /\ \A p, n, i, o : None # [page |-> p, pages |-> n, items |-> i, of |-> o]

Snapshot(q) == q \in [kind : {"snapshot"}, scope : {q.scope}, live : BOOLEAN]
Records(q)  == q \in [kind : {"records"}, data : {q.data}, metric : {q.metric}, page : {q.page},
                      repoPage : {q.repoPage}, live : BOOLEAN]
ViewShape(v) == v \in [scope : {v.scope}, metric : {v.metric}, page : {v.page}, repoPage : {v.repoPage},
                       data : {v.data}, reviews : {v.reviews}, repos : {v.repos},
                       loading : BOOLEAN, error : BOOLEAN, trouble : BOOLEAN]

\* A snapshot holds the first pages of itself.
Whole(d) == /\ d.reviews.of = [scope |-> d.scope, end |-> d.end, metric |-> "all"] /\ d.reviews.page = 1
            /\ d.repos.of = [scope |-> d.scope, end |-> d.end] /\ d.repos.page = 1
            /\ d.reviews # None

\* Who is heard asked for what the page says.
AsksFor(v, q) == IF q.kind = "snapshot" THEN Snapshot(q) /\ q.scope = v.scope /\ v.data = None
              ELSE /\ Records(q) /\ q.data = v.data /\ v.data # None
                   /\ q.metric = v.metric /\ q.page = v.page /\ q.repoPage = v.repoPage
Shaped(as)   == \A q \in as : Snapshot(q) \/ Records(q)
HeardAsk(v, as) == \A q \in as : q.live => AsksFor(v, q)
Single(as)    == \A q, r \in as : q.live /\ r.live => q = r
Awaited(v, as) == v.data = None \/ (v.reviews = None /\ ~v.trouble) => v.error \/ \E q \in as : q.live

Tables(v) == /\ v.data # None => v.data.scope = v.scope /\ Whole(v.data)
             /\ E!ReviewsShown(v) =>
                   /\ v.reviews.of = [scope |-> v.scope, end |-> v.data.end, metric |-> v.metric]
                   /\ v.reviews.page = v.page /\ E!Within(v.reviews, v.page) = v.page
             /\ E!ReposShown(v) =>
                   /\ v.repos.of = [scope |-> v.scope, end |-> v.data.end]
                   /\ v.repos.page = v.repoPage /\ E!Within(v.repos, v.repoPage) = v.repoPage

HealthInv == /\ ViewShape(view) /\ Shaped(answers) /\ HeardAsk(view, answers) /\ Single(answers)
             /\ Awaited(view, answers) /\ Tables(view)

\* What is aborted is not heard.
LEMMA AbortedUnheard == ASSUME Shaped(answers) PROVE Shaped(E!Aborted) /\ \A q \in E!Aborted : ~q.live
<1>1. ASSUME NEW q \in answers PROVE /\ ~[q EXCEPT !.live = FALSE].live
                                     /\ Snapshot([q EXCEPT !.live = FALSE]) \/ Records([q EXCEPT !.live = FALSE])
  <2> DEFINE z == [q EXCEPT !.live = FALSE]
  <2>1. CASE Snapshot(q)
    BY <2>1 DEF Snapshot
  <2>2. CASE Records(q)
    BY <2>2 DEF Records
  <2>3. QED  BY <1>1, <2>1, <2>2 DEF Shaped
<1>2. QED  BY <1>1 DEF E!Aborted, Shaped

\* The health page: a state that satisfies the parts of the invariant is one it may become.
LEMMA HealthBecomes ==
  ASSUME NEW v, NEW as, ViewShape(v), Shaped(as), HeardAsk(v, as), Single(as), Awaited(v, as), Tables(v),
         view' = v, answers' = as
  PROVE  HealthInv'
<1>1. ViewShape(view)' /\ Shaped(answers)' /\ Single(answers)'
  BY DEF ViewShape, Shaped, Single, Snapshot, Records
<1>2. HeardAsk(view, answers)'
  BY DEF HeardAsk, AsksFor, Snapshot, Records
<1>3. Awaited(view, answers)'
  BY DEF Awaited
<1>4. Tables(view)'
  BY DEF Tables, E!ReviewsShown, E!ReposShown, E!Within, Whole
<1>5. QED  BY <1>1, <1>2, <1>3, <1>4 DEF HealthInv

\* One request is heard, the one made last.
LEMMA OneAsks ==
  ASSUME NEW v, NEW as, NEW q, ViewShape(v), Shaped(as), \A r \in as : ~r.live, q.live, AsksFor(v, q), Tables(v),
         view' = v, answers' = as \cup {q}
  PROVE  HealthInv'
<1>1. Shaped(as \cup {q})
  BY DEF AsksFor, Shaped
<1>2. HeardAsk(v, as \cup {q}) /\ Single(as \cup {q}) /\ Awaited(v, as \cup {q})
  BY DEF HeardAsk, Single, Awaited
<1> DEFINE z == as \cup {q}
<1>3. answers' = z /\ Shaped(z) /\ HeardAsk(v, z) /\ Single(z) /\ Awaited(v, z)
  BY <1>1, <1>2
<1> HIDE DEF z
<1>4. QED  BY <1>3, HealthBecomes DEF HealthInv

LEMMA SnapshotTaken ==
  ASSUME HealthInv, NEW v, ViewShape(v), E!TakeSnapshot(v)
  PROVE  HealthInv'
<1> DEFINE w == [v EXCEPT !.loading = TRUE, !.error = FALSE, !.data = None,
                          !.reviews = None, !.repos = None, !.trouble = FALSE]
           q == [kind |-> "snapshot", scope |-> v.scope, live |-> TRUE]
<1>1. ViewShape(w) /\ w.data = None /\ w.scope = v.scope
  BY DEF ViewShape
<1>2. view' = w /\ answers' = E!Aborted \cup {q}
  BY DEF E!TakeSnapshot, E!Asked
<1>3. Shaped(E!Aborted) /\ \A r \in E!Aborted : ~r.live
  BY AbortedUnheard DEF HealthInv
<1> HIDE DEF w
<1>4. AsksFor(w, q) /\ q.live
  BY <1>1 DEF AsksFor, Snapshot
<1>5. Tables(w)
  BY <1>1 DEF Tables, E!ReviewsShown, E!ReposShown
<1> HIDE DEF q
<1>6. QED  BY <1>1, <1>2, <1>3, <1>4, <1>5, OneAsks

LEMMA RecordsRead ==
  ASSUME NEW v, NEW as, ViewShape(v), v.data # None, v.data.scope = v.scope, Whole(v.data),
         Shaped(as), \A r \in as : ~r.live, E!ReadRecords(v, as)
  PROVE  HealthInv'
<1> DEFINE w == [v EXCEPT !.reviews = None, !.repos = None, !.trouble = FALSE]
           q == [kind |-> "records", data |-> v.data, metric |-> v.metric, page |-> v.page,
                 repoPage |-> v.repoPage, live |-> TRUE]
<1>1. /\ ViewShape(w) /\ w.data = v.data /\ w.scope = v.scope /\ w.metric = v.metric /\ w.page = v.page
      /\ w.repoPage = v.repoPage /\ w.reviews = None /\ w.repos = None
  BY DEF ViewShape
<1>2. view' = w /\ answers' = as \cup {q}
  BY DEF E!ReadRecords, E!Asked
<1> HIDE DEF w
<1>4. AsksFor(w, q) /\ q.live
  BY <1>1 DEF AsksFor, Records
<1>5. Tables(w)
  BY <1>1 DEF Tables, E!ReviewsShown, E!ReposShown
<1> HIDE DEF q
<1>6. QED  BY <1>1, <1>2, <1>4, <1>5, OneAsks

\* The page as it is, perhaps with another metric or page.
LEMMA Turned ==
  ASSUME HealthInv, NEW v, ViewShape(v), v.scope = view.scope, v.data = view.data, v.reviews = view.reviews,
         v.repos = view.repos, v.error = view.error, v.trouble = view.trouble, E!Turn(v)
  PROVE  HealthInv'
<1>1. CASE v.data = None
  <2>1. view' = v /\ answers' = answers
    BY <1>1 DEF E!Turn
  <2>2. HeardAsk(v, answers) /\ Awaited(v, answers) /\ Tables(v)
    BY <1>1 DEF HealthInv, HeardAsk, Awaited, Tables, AsksFor, E!ReviewsShown, E!ReposShown
  <2>3. QED  BY <2>1, <2>2, HealthBecomes DEF HealthInv
<1>2. CASE v.data # None /\ <<v.metric, v.page, v.repoPage>> = <<view.metric, view.page, view.repoPage>>
  <2>1. view' = v /\ answers' = answers
    BY <1>2 DEF E!Turn
  <2>2. HeardAsk(v, answers)
    BY <1>2 DEF HealthInv, HeardAsk, AsksFor
  <2>3. Awaited(v, answers)
    BY <1>2 DEF HealthInv, Awaited
  <2>4. Tables(v)
    BY <1>2 DEF HealthInv, Tables, E!ReviewsShown, E!ReposShown
  <2>5. QED  BY <2>1, <2>2, <2>3, <2>4, HealthBecomes DEF HealthInv
<1>3. CASE v.data # None /\ ~(<<v.metric, v.page, v.repoPage>> = <<view.metric, view.page, view.repoPage>>)
  <2>1. E!ReadRecords(v, E!Aborted)
    BY <1>3 DEF E!Turn
  <2>2. v.data.scope = v.scope /\ Whole(v.data)
    BY <1>3 DEF HealthInv, Tables
  <2>3. Shaped(E!Aborted) /\ \A r \in E!Aborted : ~r.live
    BY AbortedUnheard DEF HealthInv
  <2>4. QED  BY <1>3, <2>1, <2>2, <2>3, RecordsRead
<1>4. QED  BY <1>1, <1>2, <1>3

LEMMA ScopeChanges == ASSUME HealthInv, NEW scope, E!ChangeScope(scope) PROVE HealthInv'
<1> DEFINE v == [E!First(view) EXCEPT !.scope = scope]
<1>0. ViewShape(view)
  BY DEF HealthInv
<1>1. ViewShape(E!First(view)) /\ E!First(view).scope = view.scope /\ E!First(view).data = view.data
      /\ E!First(view).reviews = view.reviews /\ E!First(view).repos = view.repos
      /\ E!First(view).error = view.error /\ E!First(view).trouble = view.trouble
  BY <1>0 DEF E!First, ViewShape
<1>2. ViewShape(v) /\ v.scope = scope /\ v.data = view.data /\ v.reviews = view.reviews /\ v.repos = view.repos
      /\ v.error = view.error /\ v.trouble = view.trouble
  <2> DEFINE f == E!First(view)
  <2> HIDE DEF f
  <2>1. ViewShape([f EXCEPT !.scope = scope]) /\ [f EXCEPT !.scope = scope].scope = scope
        /\ [f EXCEPT !.scope = scope].data = f.data /\ [f EXCEPT !.scope = scope].reviews = f.reviews
        /\ [f EXCEPT !.scope = scope].repos = f.repos /\ [f EXCEPT !.scope = scope].error = f.error
        /\ [f EXCEPT !.scope = scope].trouble = f.trouble
    BY <1>1 DEF ViewShape, f
  <2>2. QED  BY <1>1, <2>1 DEF f
<1>3. IF scope = view.scope THEN E!Turn(v) ELSE E!TakeSnapshot(v)
  BY DEF E!ChangeScope
<1> HIDE DEF v
<1>4. CASE scope = view.scope
  BY <1>2, <1>3, <1>4, Turned
<1>5. CASE scope # view.scope
  BY <1>2, <1>3, <1>5, SnapshotTaken
<1>6. QED  BY <1>4, <1>5

LEMMA MetricChosen == ASSUME HealthInv, NEW m, NEW p, E!Turn([view EXCEPT !.metric = m, !.page = p]) PROVE HealthInv'
<1> DEFINE v == [view EXCEPT !.metric = m, !.page = p]
<1>1. ViewShape(v) /\ v.scope = view.scope /\ v.data = view.data /\ v.reviews = view.reviews /\ v.repos = view.repos
      /\ v.error = view.error /\ v.trouble = view.trouble
  BY DEF HealthInv, ViewShape
<1>2. E!Turn(v)
  OBVIOUS
<1> HIDE DEF v
<1>3. QED  BY <1>1, <1>2, Turned

LEMMA PageTurns ==
  ASSUME HealthInv, NEW p, E!Turn([view EXCEPT !.page = p]) \/ E!Turn([view EXCEPT !.repoPage = p])
  PROVE  HealthInv'
<1>1. ASSUME NEW v, v = [view EXCEPT !.page = p] \/ v = [view EXCEPT !.repoPage = p], E!Turn(v) PROVE HealthInv'
  <2>1. ViewShape(v) /\ v.scope = view.scope /\ v.data = view.data /\ v.reviews = view.reviews /\ v.repos = view.repos
        /\ v.error = view.error /\ v.trouble = view.trouble
    BY <1>1 DEF HealthInv, ViewShape
  <2>2. QED  BY <1>1, <2>1, Turned
<1>2. QED  BY <1>1

LEMMA AnswerIgnored == ASSUME HealthInv, NEW q \in answers, E!Ignore(q) PROVE HealthInv'
<1> DEFINE as == answers \ {q}
<1>1. view' = view /\ answers' = as /\ ~q.live
  BY DEF E!Ignore, E!Heard
<1>2. Shaped(as) /\ HeardAsk(view, as) /\ Single(as) /\ Awaited(view, as)
  BY <1>1 DEF HealthInv, Shaped, HeardAsk, Single, Awaited
<1> HIDE DEF as
<1>3. QED  BY <1>1, <1>2, HealthBecomes DEF HealthInv

\* The others are not heard.
LEMMA Others == ASSUME HealthInv, NEW q \in answers, q.live
                PROVE Shaped(answers \ {q}) /\ (\A r \in answers \ {q} : ~r.live) /\ AsksFor(view, q)
BY DEF HealthInv, Shaped, Single, HeardAsk

\* An answer that is heard is about what the page says.
LEMMA SnapshotHeard == ASSUME NoneIsNothing, HealthInv, NEW q \in answers, E!HearSnapshot(q) PROVE HealthInv'
<1> DEFINE as == answers \ {q}
<1>0. ViewShape(view) /\ q.live /\ AsksFor(view, q) /\ q.kind = "snapshot"
  BY Others DEF HealthInv, E!HearSnapshot, E!Heard
<1>1. Shaped(as) /\ \A r \in as : ~r.live
  BY <1>0, Others
<1> HIDE DEF as
<1>2. ASSUME E!ReadRecords([view EXCEPT !.data = E!Report(q.scope), !.loading = FALSE], as) PROVE HealthInv'
  <2> DEFINE d == E!Report(q.scope)
             v == [view EXCEPT !.data = d, !.loading = FALSE]
  <2>1. d # None
    BY DEF NoneIsNothing, E!Report
  <2>2. /\ d.scope = q.scope /\ d.reviews = E!ReviewTable(q.scope, d.end, "all", 1)
        /\ d.repos = E!RepoTable(q.scope, d.end, 1)
    BY DEF E!Report
  <2> HIDE DEF d
  <2>3. Whole(d)
    BY <2>2 DEF Whole, E!ReviewTable, E!RepoTable, E!Paginate, NoneIsNothing
  <2>4. ViewShape(v) /\ v.data = d /\ v.scope = view.scope
    BY <1>0 DEF ViewShape
  <2>5. E!ReadRecords(v, as)
    BY <1>2 DEF d
  <2>6. d.scope = view.scope
    BY <1>0, <2>2 DEF AsksFor
  <2> HIDE DEF v
  <2>7. QED  BY <1>1, <2>1, <2>3, <2>4, <2>5, <2>6, RecordsRead
<1>3. ASSUME view' = [view EXCEPT !.error = TRUE, !.loading = FALSE], answers' = as PROVE HealthInv'
  <2> DEFINE v == [view EXCEPT !.error = TRUE, !.loading = FALSE]
  <2>1. ViewShape(v) /\ v.data = view.data /\ v.error
    BY <1>0 DEF ViewShape
  <2>2. view.data = None
    BY <1>0 DEF AsksFor
  <2>3. view' = v
    BY <1>3
  <2> HIDE DEF v
  <2>4. Tables(v) /\ Awaited(v, as) /\ HeardAsk(v, as) /\ Single(as)
    BY <1>1, <2>1, <2>2 DEF Tables, E!ReviewsShown, E!ReposShown, Awaited, HeardAsk, Single
  <2>5. QED  BY <1>1, <1>3, <2>1, <2>3, <2>4, HealthBecomes DEF HealthInv
<1>4. QED  BY <1>2, <1>3 DEF E!HearSnapshot, as

LEMMA RecordsHeard == ASSUME NoneIsNothing, HealthInv, NEW q \in answers, E!HearRecords(q) PROVE HealthInv'
<1> DEFINE as      == answers \ {q}
           d       == q.data
           table   == IF q.metric = "all" /\ q.page = 1 THEN d.reviews ELSE E!ReviewTable(d.scope, d.end, q.metric, q.page)
           repos   == IF q.repoPage = 1 THEN d.repos ELSE E!RepoTable(d.scope, d.end, q.repoPage)
           page     == E!Within(table, q.page)
           repoPage == E!Within(repos, q.repoPage)
           v       == [view EXCEPT !.reviews = table, !.repos = repos, !.page = page, !.repoPage = repoPage]
<1>0. ViewShape(view) /\ q.live /\ AsksFor(view, q) /\ q.kind = "records" /\ Tables(view)
  BY Others DEF HealthInv, E!HearRecords, E!Heard
<1>1. Shaped(as) /\ \A r \in as : ~r.live
  BY <1>0, Others
<1>2. /\ d = view.data /\ d # None /\ q.metric = view.metric /\ q.page = view.page /\ q.repoPage = view.repoPage
      /\ d.scope = view.scope /\ Whole(d)
  BY <1>0 DEF AsksFor, Tables
<1>3. table # None /\ table.of = [scope |-> d.scope, end |-> d.end, metric |-> q.metric] /\ table.page = q.page
  <2>1. CASE q.metric = "all" /\ q.page = 1
    BY <1>2, <2>1 DEF Whole
  <2>2. CASE ~(q.metric = "all" /\ q.page = 1)
    BY <2>2 DEF E!ReviewTable, E!Paginate, NoneIsNothing
  <2>3. QED  BY <2>1, <2>2
<1>4. repos.of = [scope |-> d.scope, end |-> d.end] /\ repos.page = q.repoPage
  <2>1. CASE q.repoPage = 1
    BY <1>2, <2>1 DEF Whole
  <2>2. CASE ~(q.repoPage = 1)
    BY <2>2 DEF E!RepoTable, E!Paginate
  <2>3. QED  BY <2>1, <2>2
<1>5. \/ E!ReadRecords(v, as)
      \/ page = q.page /\ repoPage = q.repoPage /\ view' = v /\ answers' = as
      \/ view' = [view EXCEPT !.trouble = TRUE] /\ answers' = as
  BY DEF E!HearRecords
<1> HIDE DEF as, d, table, repos, page, repoPage
<1>6. /\ ViewShape(v) /\ v.data = view.data /\ v.scope = view.scope /\ v.metric = view.metric /\ v.reviews = table
      /\ v.repos = repos /\ v.page = page /\ v.repoPage = repoPage
  BY <1>0 DEF ViewShape
<1> HIDE DEF v
<1>7. ASSUME E!ReadRecords(v, as) PROVE HealthInv'
  BY <1>1, <1>2, <1>6, <1>7, RecordsRead
<1>8. ASSUME page = q.page, repoPage = q.repoPage, view' = v, answers' = as PROVE HealthInv'
  <2>1. Tables(v)
    BY <1>2, <1>3, <1>4, <1>6, <1>8 DEF Tables, E!ReviewsShown, E!ReposShown, page, repoPage
  <2>2. Awaited(v, as) /\ HeardAsk(v, as) /\ Single(as)
    BY <1>1, <1>2, <1>3, <1>6 DEF Awaited, HeardAsk, Single
  <2>3. QED  BY <1>1, <1>6, <1>8, <2>1, <2>2, HealthBecomes DEF HealthInv
<1>9. ASSUME view' = [view EXCEPT !.trouble = TRUE], answers' = as PROVE HealthInv'
  <2> DEFINE w == [view EXCEPT !.trouble = TRUE]
  <2>1. /\ ViewShape(w) /\ w.data = view.data /\ w.scope = view.scope /\ w.metric = view.metric
        /\ w.reviews = view.reviews /\ w.repos = view.repos /\ w.page = view.page /\ w.repoPage = view.repoPage /\ w.trouble
    BY <1>0 DEF ViewShape
  <2>2. view' = w
    BY <1>9
  <2> HIDE DEF w
  <2>3. Tables(w)
    BY <1>0, <2>1 DEF Tables, E!ReviewsShown, E!ReposShown
  <2>4. Awaited(w, as) /\ HeardAsk(w, as) /\ Single(as)
    BY <1>1, <1>2, <2>1 DEF Awaited, HeardAsk, Single
  <2>5. QED  BY <1>1, <1>9, <2>1, <2>2, <2>3, <2>4, HealthBecomes DEF HealthInv
<1>10. QED  BY <1>5, <1>7, <1>8, <1>9

LEMMA HealthBegins == ASSUME E!Init PROVE HealthInv
<1>1. view = [scope |-> None, metric |-> "all", page |-> 1, repoPage |-> 1, data |-> None,
                   reviews |-> None, repos |-> None, loading |-> TRUE, error |-> FALSE, trouble |-> FALSE]
  BY DEF E!Init
<1>2. answers = {[kind |-> "snapshot", scope |-> None, live |-> TRUE]}
  BY DEF E!Init
<1>3. ViewShape(view) /\ Tables(view) /\ view.scope = None /\ view.data = None
  BY <1>1 DEF ViewShape, Tables, E!ReviewsShown, E!ReposShown
<1> DEFINE q == [kind |-> "snapshot", scope |-> None, live |-> TRUE]
<1>4. q.live /\ AsksFor(view, q) /\ Snapshot(q)
  BY <1>3 DEF AsksFor, Snapshot
<1>5. answers = {q}
  BY <1>2
<1> HIDE DEF q
<1>6. QED  BY <1>3, <1>4, <1>5 DEF HealthInv, Shaped, HeardAsk, Single, Awaited

LEMMA HealthStays == ASSUME HealthInv, UNCHANGED <<view, answers>> PROVE HealthInv'
BY DEF HealthInv, Shaped, HeardAsk, Single, Awaited, ViewShape, Tables,
                       E!ReviewsShown, E!ReposShown, E!Within, Whole, AsksFor, Snapshot, Records

\* The invariant of the health page holds in every state.
LEMMA HealthHolds == NoneIsNothing => (E!Spec => []HealthInv)
<1>1. ASSUME NoneIsNothing, HealthInv, [E!Next]_E!vars PROVE HealthInv'
  <2>1. CASE UNCHANGED E!vars
    BY <1>1, <2>1, HealthStays DEF E!vars
  <2>2. CASE E!Completes \/ E!Expires \/ E!Disconnects \/ E!TimePasses
    BY <1>1, <2>2, HealthStays DEF E!Completes, E!Expires, E!Disconnects, E!TimePasses, E!Server
  <2>3. CASE E!SelectScope \/ E!PickRow
    BY <1>1, <2>3, ScopeChanges DEF E!SelectScope, E!PickRow
  <2>4. CASE E!Refresh
    BY <1>1, <2>4, SnapshotTaken DEF E!Refresh, HealthInv
  <2>5. CASE E!ChooseMetric
    BY <1>1, <2>5, MetricChosen DEF E!ChooseMetric
  <2>6. CASE E!TurnReviews \/ E!TurnRepos
    BY <1>1, <2>6, PageTurns DEF E!TurnReviews, E!TurnRepos
  <2>7. CASE \E q \in answers : E!Ignore(q) \/ E!HearSnapshot(q) \/ E!HearRecords(q)
    BY <1>1, <2>7, AnswerIgnored, SnapshotHeard, RecordsHeard
  <2>8. QED  BY <1>1, <2>1, <2>2, <2>3, <2>4, <2>5, <2>6, <2>7 DEF E!Next
<1>2. SUFFICES ASSUME NoneIsNothing PROVE E!Spec => []HealthInv
  OBVIOUS
<1>3. HealthInv /\ [E!Next]_E!vars => HealthInv'
  BY <1>1, <1>2
<1>4. QED  BY <1>3, HealthBegins, PTL DEF E!Spec

\* The health page shows the scope, metric and pages chosen last, of one snapshot
\* (EngineeringHealth.tsx).
THEOREM ChosenIsHealth == NoneIsNothing => (E!Spec => []E!HealthIsChosen)
<1>1. HealthInv => E!HealthIsChosen
  BY DEF HealthInv, Tables, Awaited, E!HealthIsChosen
<1>2. QED  BY <1>1, HealthHolds, PTL

\* The two pages beside each other: checked as ShownIsChosen.
THEOREM PagesShowChosen ==
  NoneIsNothing => (H!Spec /\ E!Spec => [](H!ShownIsChosen /\ E!HealthIsChosen /\ ShownIsChosen))
<1>1. H!ShownIsChosen /\ E!HealthIsChosen => ShownIsChosen
  BY DEF ShownIsChosen
<1> SUFFICES ASSUME NoneIsNothing PROVE H!Spec /\ E!Spec => [](H!ShownIsChosen /\ E!HealthIsChosen /\ ShownIsChosen)
  OBVIOUS
<1>2. E!Spec => []E!HealthIsChosen
  BY ChosenIsHealth
<1>3. QED  BY <1>1, <1>2, ChosenIsShown, PTL

-------------------------------------------------------------------------------
(* The drafts of tests *)

AnyText == Texts \cup {Bad}
Reply   == {None} \cup [id : Nat, text : AnyText]
DraftCall  == [tab : Tabs \cup {None}, kind : {"list", "create", "save", "discard"}, gap : Gaps,
            draft : Nat \cup {None}, text : AnyText, pc : {"sent", "resolved", "checked", "answered"},
            ref : Nat, answer : Reply]
Drafted == [gap : Gaps, ref : Nat, text : AnyText, status : {"DRAFT", "DISCARDED"}]
Shown   == [of : Gaps \cup {None}, busy : {"idle", "generating", "saving"}, loading : BOOLEAN,
            draft : Nat \cup {None}, text : AnyText]

DraftsShape == /\ review \in [kind : {"PULL_REQUEST", "PUSH"}, head : Nat] /\ head \in Nat
               /\ drafts \in Seq(Drafted) /\ calls \in Seq(DraftCall) /\ card \in [Tabs -> Shown]

\* A draft is of a scenario; a request is of the scenario of its card and of a draft of it.
IsOf(d, scene, ds)  == d \in DOMAIN ds /\ ds[d].gap = scene
CallFits(c, k, ds) == /\ c.tab # None => k[c.tab].of = c.gap
                      /\ c.kind \in {"save", "discard"} => IsOf(c.draft, c.gap, ds)
                      /\ c.answer # None => IsOf(c.answer.id, c.gap, ds)
CardFits(k, ds)    == \A t \in Tabs : k[t].draft # None => IsOf(k[t].draft, k[t].of, ds)
CallsFit(cs, k, ds) == \A i \in DOMAIN cs : CallFits(cs[i], k, ds)

DraftsInv == DraftsShape /\ CardFits(card, drafts) /\ CallsFit(calls, card, drafts)

\* Rows stay, of their scenario, and discarded.
RowsStay == /\ DOMAIN drafts \subseteq DOMAIN drafts'
            /\ \A d \in DOMAIN drafts : /\ drafts'[d].gap = drafts[d].gap
                                        /\ drafts[d].status = "DISCARDED" => drafts'[d].status = "DISCARDED"

\* What cards and calls say of rows stays true of rows that stay.
LEMMA FitsStay ==
  ASSUME RowsStay, CardFits(card, drafts), card' = card
  PROVE  /\ CardFits(card, drafts)'
         /\ \A c : CallFits(c, card, drafts) => CallFits(c, card', drafts')
BY DEF RowsStay, CardFits, CallFits, IsOf

\* A request is answered, or goes on.
LEMMA AnsweredIs ==
  ASSUME DraftsShape, NEW i \in DOMAIN calls, NEW answer \in Reply, D!Answer(i, answer)
  PROVE  /\ calls' \in Seq(DraftCall) /\ DOMAIN calls' = DOMAIN calls
         /\ \A j \in DOMAIN calls \ {i} : calls'[j] = calls[j]
         /\ calls'[i].tab = calls[i].tab /\ calls'[i].kind = calls[i].kind /\ calls'[i].gap = calls[i].gap
         /\ calls'[i].draft = calls[i].draft /\ calls'[i].answer = answer
<1> DEFINE c == [calls[i] EXCEPT !.pc = "answered", !.answer = answer]
<1>1. calls[i] \in DraftCall /\ DOMAIN calls = 1..Len(calls) /\ Len(calls) \in Nat
  BY DEF DraftsShape
<1>2. /\ c \in DraftCall /\ c.tab = calls[i].tab /\ c.kind = calls[i].kind /\ c.gap = calls[i].gap
      /\ c.draft = calls[i].draft /\ c.answer = answer
  BY <1>1 DEF DraftCall
<1>3. calls' = [calls EXCEPT ![i] = c]
  BY <1>1 DEF D!Answer, DraftsShape
<1> HIDE DEF c
<1>4. QED  BY <1>1, <1>2, <1>3 DEF DraftsShape

\* The answer of a call fits the card that made it.
LEMMA AnswerFits ==
  ASSUME DraftsInv, RowsStay, card' = card, review' = review, head' = head, drafts' \in Seq(Drafted),
         NEW i \in DOMAIN calls, NEW answer \in Reply, D!Answer(i, answer),
         answer # None => IsOf(answer.id, calls[i].gap, drafts')
  PROVE  DraftsInv'
<1>1. DraftsShape'
  BY AnsweredIs DEF DraftsInv, DraftsShape
<1>2. CardFits(card, drafts)' /\ \A c : CallFits(c, card, drafts) => CallFits(c, card', drafts')
  BY FitsStay DEF DraftsInv
<1>3. ASSUME NEW j \in DOMAIN calls' PROVE CallFits(calls'[j], card', drafts')
  <2>1. CASE j # i
    BY <1>2, <2>1, AnsweredIs DEF DraftsInv, CallsFit
  <2>2. CASE j = i
    BY <1>2, <2>2, AnsweredIs DEF DraftsInv, CallsFit, CallFits
  <2>3. QED  BY <2>1, <2>2
<1>4. QED  BY <1>1, <1>2, <1>3 DEF DraftsInv, CallsFit

LEMMA GoesOn ==
  ASSUME DraftsInv, card' = card, review' = review, head' = head, drafts' = drafts,
         NEW i \in DOMAIN calls, NEW pc \in {"resolved", "checked"}, NEW ref \in Nat,
         calls' = [calls EXCEPT ![i] = [calls[i] EXCEPT !.pc = pc, !.ref = ref]]
  PROVE  DraftsInv'
<1> DEFINE c == [calls[i] EXCEPT !.pc = pc, !.ref = ref]
<1>1. calls[i] \in DraftCall /\ DOMAIN calls = 1..Len(calls) /\ Len(calls) \in Nat /\ calls \in Seq(DraftCall)
  BY DEF DraftsInv, DraftsShape
<1>2. /\ c \in DraftCall /\ c.tab = calls[i].tab /\ c.kind = calls[i].kind /\ c.gap = calls[i].gap
      /\ c.draft = calls[i].draft /\ c.answer = calls[i].answer
  BY <1>1 DEF DraftCall
<1> HIDE DEF c
<1>3. calls' = [calls EXCEPT ![i] = c]
  BY DEF c
<1>4. calls' \in Seq(DraftCall) /\ DOMAIN calls' = DOMAIN calls /\ calls'[i] = c
      /\ \A j \in DOMAIN calls \ {i} : calls'[j] = calls[j]
  BY <1>1, <1>2, <1>3
<1>5. CallFits(calls[i], card, drafts) => CallFits(c, card, drafts)
  BY <1>2 DEF CallFits
<1>6. CallsFit(calls', card, drafts)
  BY <1>4, <1>5 DEF DraftsInv, CallsFit
<1>7. QED  BY <1>4, <1>6 DEF DraftsInv, DraftsShape, CardFits, CallsFit, CallFits, IsOf

\* Numbers below a bound have a greatest one.
LEMMA HasLatest ==
  ASSUME NEW n \in Nat, NEW M, M \subseteq 1..n, M # {}
  PROVE  \E d \in M : \A e \in M : e <= d
<1> DEFINE T == {k \in Nat : \E d \in M : k = n - d}
<1>1. T \subseteq Nat /\ T # {}
  <2>1. PICK d \in M : TRUE
    OBVIOUS
  <2>2. d \in 1..n
    BY <2>1
  <2>3. n - d \in T
    BY <2>2
  <2>4. QED  BY <2>3
<1>2. IsWellFoundedOn(OpToRel(<, Nat), Nat)
  BY NatLessThanWellFounded
<1> DEFINE B == OpToRel(<, Nat)
<1>3. \A k, m \in Nat : k < m => <<k, m>> \in B
  BY DEF OpToRel
<1> HIDE DEF T, B
<1>4. PICK k \in T : \A m \in T : ~(<<m, k>> \in B)
  BY <1>1, <1>2, WFMin DEF B
<1>5. ASSUME NEW m \in T PROVE k <= m
  <2>1. k \in Nat /\ m \in Nat
    BY <1>1, <1>4
  <2>2. ~(m < k)
    BY <1>3, <1>4, <2>1
  <2>3. QED  BY <2>1, <2>2
<1>6. PICK d \in M : k = n - d
  BY DEF T
<1>7. ASSUME NEW e \in M PROVE e <= d
  <2>1. n - e \in T
    BY DEF T
  <2>2. QED  BY <1>5, <1>6, <2>1
<1>8. QED  BY <1>7

-------------------------------------------------------------------------------
(* The controller *)

\* Each step of the controller keeps the invariant and the rows.
LEMMA ListIs == ASSUME DraftsInv, NEW i \in DOMAIN calls, D!List(i) PROVE DraftsInv' /\ RowsStay
<1> DEFINE mine   == {d \in DOMAIN drafts : drafts[d].gap = calls[i].gap /\ drafts[d].status # "DISCARDED"}
           d      == CHOOSE e \in mine : \A f \in mine : f <= e
           answer == IF mine = {} THEN None ELSE D!Row(d)
<1>1. D!Answer(i, answer) /\ review' = review /\ head' = head /\ drafts' = drafts /\ card' = card /\ drafts' \in Seq(Drafted)
  BY DEF D!List, DraftsInv, DraftsShape
<1>2. RowsStay
  BY <1>1 DEF RowsStay
<1>3. DOMAIN drafts = 1..Len(drafts) /\ Len(drafts) \in Nat
  BY DEF DraftsInv, DraftsShape
<1>4. ASSUME mine # {} PROVE d \in DOMAIN drafts /\ drafts[d].gap = calls[i].gap
  <2>1. mine \subseteq 1..Len(drafts)
    BY <1>3
  <2>2. \E e \in mine : \A f \in mine : f <= e
    BY <1>3, <1>4, <2>1, HasLatest
  <2>3. d \in mine
    BY <2>2
  <2>4. QED  BY <2>3
<1> HIDE DEF d
<1>5. answer \in Reply /\ (answer # None => IsOf(answer.id, calls[i].gap, drafts'))
  <2>1. CASE mine = {}
    BY <2>1 DEF Reply
  <2>2. CASE mine # {}
    <3>0. drafts[d] \in Drafted /\ d \in Nat
      BY <1>3, <1>4, <2>2 DEF DraftsInv, DraftsShape
    <3>1. drafts[d].text \in AnyText
      BY <3>0 DEF Drafted
    <3>2. QED  BY <1>1, <1>4, <2>2, <3>0, <3>1 DEF D!Row, Reply, IsOf
  <2>3. QED  BY <2>1, <2>2
<1> HIDE DEF answer
<1>6. QED  BY <1>1, <1>2, <1>5, AnswerFits

LEMMA ResolveIs == ASSUME DraftsInv, NEW i \in DOMAIN calls, D!Resolve(i) PROVE DraftsInv' /\ RowsStay
<1>1. RowsStay /\ review' = review /\ head' = head /\ drafts' = drafts /\ card' = card /\ drafts' \in Seq(Drafted)
  BY DEF D!Resolve, RowsStay, DraftsInv, DraftsShape
<1>2. CASE D!Answer(i, None)
  BY <1>1, <1>2, AnswerFits DEF Reply
<1> DEFINE ref == IF review.kind = "PULL_REQUEST" THEN head ELSE review.head
<1>3. CASE calls' = [calls EXCEPT ![i].pc = "resolved", ![i].ref = ref]
  <2>1. ref \in Nat
    BY DEF DraftsInv, DraftsShape
  <2> HIDE DEF ref
  <2>2. calls' = [calls EXCEPT ![i] = [calls[i] EXCEPT !.pc = "resolved", !.ref = ref]]
    BY <1>3 DEF DraftsInv, DraftsShape
  <2>3. QED  BY <1>1, <2>1, <2>2, GoesOn
<1>4. QED  BY <1>2, <1>3 DEF D!Resolve

LEMMA CreateIs == ASSUME DraftsInv, NEW i \in DOMAIN calls, D!Create(i) PROVE DraftsInv' /\ RowsStay
<1>1. review' = review /\ head' = head /\ card' = card
  BY DEF D!Create
<1>2. CASE D!Answer(i, None) /\ drafts' = drafts
  <2>1. RowsStay /\ drafts' \in Seq(Drafted)
    BY <1>2 DEF RowsStay, DraftsInv, DraftsShape
  <2>2. QED  BY <1>1, <1>2, <2>1, AnswerFits DEF Reply
<1>3. ASSUME NEW text \in Texts,
             drafts' = Append(drafts, [gap |-> calls[i].gap, ref |-> calls[i].ref, text |-> text, status |-> "DRAFT"]),
             D!Answer(i, [id |-> Len(drafts) + 1, text |-> text])
      PROVE  DraftsInv' /\ RowsStay
  <2> DEFINE entry    == [gap |-> calls[i].gap, ref |-> calls[i].ref, text |-> text, status |-> "DRAFT"]
             answer == [id |-> Len(drafts) + 1, text |-> text]
  <2>0. calls[i] \in DraftCall
    BY DEF DraftsInv, DraftsShape
  <2>1. entry \in Drafted /\ entry.gap = calls[i].gap
    BY <2>0 DEF DraftCall, Drafted, AnyText
  <2>2. drafts \in Seq(Drafted) /\ Len(drafts) \in Nat /\ drafts' = Append(drafts, entry)
    BY <1>3 DEF DraftsInv, DraftsShape
  <2>3. answer \in Reply /\ answer.id = Len(drafts) + 1
    BY <2>2 DEF Reply, AnyText
  <2> HIDE DEF entry
  <2>4. /\ drafts' \in Seq(Drafted) /\ Len(drafts') = Len(drafts) + 1 /\ drafts'[Len(drafts) + 1] = entry
        /\ \A d \in DOMAIN drafts : d \in DOMAIN drafts' /\ drafts'[d] = drafts[d]
    BY <2>1, <2>2
  <2>5. RowsStay /\ IsOf(answer.id, calls[i].gap, drafts')
    BY <2>1, <2>2, <2>3, <2>4 DEF RowsStay, IsOf
  <2> HIDE DEF answer
  <2>6. D!Answer(i, answer)
    BY <1>3 DEF answer
  <2>7. QED  BY <1>1, <2>3, <2>4, <2>5, <2>6, AnswerFits
<1>4. QED  BY <1>2, <1>3 DEF D!Create

\* A row is written where it stays a row of its scenario, and discarded.
LEMMA RowWritten ==
  ASSUME DraftsInv, NEW i \in DOMAIN calls, NEW d, IsOf(d, calls[i].gap, drafts), NEW entry \in Drafted,
         entry.gap = drafts[d].gap, drafts[d].status = "DISCARDED" => entry.status = "DISCARDED",
         drafts' = [drafts EXCEPT ![d] = entry]
  PROVE  RowsStay /\ drafts' \in Seq(Drafted) /\ IsOf(d, calls[i].gap, drafts') /\ drafts'[d] = entry
<1>1. drafts \in Seq(Drafted) /\ d \in DOMAIN drafts /\ drafts[d].gap = calls[i].gap
  BY DEF DraftsInv, DraftsShape, IsOf
<1>2. /\ drafts' \in Seq(Drafted) /\ DOMAIN drafts' = DOMAIN drafts /\ drafts'[d] = entry
      /\ \A e \in DOMAIN drafts \ {d} : drafts'[e] = drafts[e]
  BY <1>1
<1>3. QED  BY <1>1, <1>2 DEF RowsStay, IsOf

LEMMA CheckIs == ASSUME DraftsInv, NEW i \in DOMAIN calls, D!Check(i) PROVE DraftsInv' /\ RowsStay
<1>1. RowsStay /\ review' = review /\ head' = head /\ drafts' = drafts /\ card' = card /\ drafts' \in Seq(Drafted)
  BY DEF D!Check, RowsStay, DraftsInv, DraftsShape
<1>2. CASE D!Answer(i, None)
  BY <1>1, <1>2, AnswerFits DEF Reply
<1>3. CASE calls' = [calls EXCEPT ![i].pc = "checked"]
  <2>1. calls[i] \in DraftCall
    BY DEF DraftsInv, DraftsShape
  <2>2. [calls[i] EXCEPT !.pc = "checked"] = [calls[i] EXCEPT !.pc = "checked", !.ref = calls[i].ref]
        /\ calls[i].ref \in Nat
    BY <2>1 DEF DraftCall
  <2>3. calls' = [calls EXCEPT ![i] = [calls[i] EXCEPT !.pc = "checked", !.ref = calls[i].ref]]
    BY <1>3, <2>2
  <2>4. QED  BY <1>1, <2>2, <2>3, GoesOn
<1>4. QED  BY <1>2, <1>3 DEF D!Check

LEMMA UpdateIs == ASSUME DraftsInv, NEW i \in DOMAIN calls, D!Update(i) PROVE DraftsInv' /\ RowsStay
<1> DEFINE d      == calls[i].draft
           entry    == [drafts[d] EXCEPT !.text = calls[i].text]
           answer == [id |-> d, text |-> calls[i].text]
<1>1. review' = review /\ head' = head /\ card' = card /\ D!Answer(i, answer) /\ drafts' = [drafts EXCEPT ![d] = entry]
  BY DEF D!Update
<1>2. IsOf(d, calls[i].gap, drafts) /\ calls[i].text \in AnyText
  <2>1. calls[i] \in DraftCall
    BY DEF DraftsInv, DraftsShape
  <2>2. QED  BY <2>1 DEF DraftsInv, CallsFit, CallFits, D!Update, D!At, DraftCall
<1>3. d \in Nat /\ drafts[d] \in Drafted
  BY <1>2 DEF IsOf, DraftsInv, DraftsShape
<1>4. entry \in Drafted /\ entry.gap = drafts[d].gap /\ entry.status = drafts[d].status
  BY <1>2, <1>3 DEF Drafted
<1>5. answer \in Reply /\ answer.id = d
  BY <1>2, <1>3 DEF Reply
<1> HIDE DEF d, entry, answer
<1>6. RowsStay /\ drafts' \in Seq(Drafted) /\ IsOf(d, calls[i].gap, drafts')
  BY <1>1, <1>2, <1>4, RowWritten
<1>7. QED  BY <1>1, <1>5, <1>6, AnswerFits

LEMMA ThrowIs == ASSUME DraftsInv, NEW i \in DOMAIN calls, D!Throw(i) PROVE DraftsInv' /\ RowsStay
<1> DEFINE d      == calls[i].draft
           entry    == [drafts[d] EXCEPT !.status = "DISCARDED"]
           answer == [id |-> d, text |-> drafts[d].text]
<1>1. review' = review /\ head' = head /\ card' = card /\ D!Answer(i, answer) /\ drafts' = [drafts EXCEPT ![d] = entry]
  BY DEF D!Throw, D!Row
<1>2. IsOf(d, calls[i].gap, drafts)
  BY DEF DraftsInv, DraftsShape, CallsFit, CallFits, D!Throw, D!At, DraftCall
<1>3. d \in Nat /\ drafts[d] \in Drafted
  BY <1>2 DEF IsOf, DraftsInv, DraftsShape
<1>4. entry \in Drafted /\ entry.gap = drafts[d].gap /\ entry.status = "DISCARDED"
  BY <1>3 DEF Drafted
<1>5. answer \in Reply /\ answer.id = d
  BY <1>3 DEF Reply, Drafted
<1> HIDE DEF d, entry, answer
<1>6. RowsStay /\ drafts' \in Seq(Drafted) /\ IsOf(d, calls[i].gap, drafts')
  BY <1>1, <1>2, <1>4, RowWritten
<1>7. QED  BY <1>1, <1>5, <1>6, AnswerFits

-------------------------------------------------------------------------------
(* The card *)

\* A card is shown anew.
LEMMA CardMoves ==
  ASSUME DraftsInv, UNCHANGED <<review, head, drafts>>, NEW t \in Tabs, NEW k \in Shown,
         card' = [card EXCEPT ![t] = k], k.draft # None => IsOf(k.draft, k.of, drafts),
         calls' \in Seq(DraftCall), CallsFit(calls', card', drafts)
  PROVE  DraftsInv' /\ RowsStay
<1>1. RowsStay
  BY DEF RowsStay, DraftsInv, DraftsShape
<1>2. /\ card' \in [Tabs -> Shown] /\ card'[t] = k
      /\ \A s \in Tabs \ {t} : card'[s] = card[s]
  BY DEF DraftsInv, DraftsShape
<1>3. CardFits(card, drafts)'
  BY <1>2 DEF DraftsInv, CardFits
<1>4. QED  BY <1>1, <1>2, <1>3 DEF DraftsInv, DraftsShape, CallsFit

\* A request fits where the card keeps its scenario.
LEMMA SameScenario ==
  ASSUME DraftsInv, NEW t \in Tabs, NEW k \in Shown, k.of = card[t].of, card' = [card EXCEPT ![t] = k],
         NEW c \in DraftCall, CallFits(c, card, drafts)
  PROVE  CallFits(c, card', drafts)
<1>1. \A s \in Tabs : card'[s].of = card[s].of
  BY DEF DraftsInv, DraftsShape
<1>2. c.tab # None => c.tab \in Tabs
  BY DEF DraftCall
<1>3. QED  BY <1>1, <1>2 DEF CallFits

\* A new call is added behind the others.
LEMMA Appended ==
  ASSUME calls \in Seq(DraftCall), NEW c \in DraftCall, calls' = Append(calls, c),
         NEW j \in DOMAIN calls'
  PROVE  calls'[j] = c \/ (j \in DOMAIN calls /\ calls'[j] = calls[j])
<1>1. DOMAIN calls = 1..Len(calls) /\ DOMAIN calls' = 1..(Len(calls) + 1) /\ Len(calls) \in Nat
  OBVIOUS
<1>2. CASE j = Len(calls) + 1
  BY <1>2
<1>3. CASE j # Len(calls) + 1
  <2>1. j \in 1..Len(calls)
    BY <1>1, <1>3
  <2>2. QED  BY <1>1, <2>1
<1>4. QED  BY <1>2, <1>3

\* A button asks for what is on the card.
LEMMA Asked ==
  ASSUME DraftsInv, UNCHANGED <<review, head, drafts>>, NEW t \in Tabs,
         NEW kind \in {"create", "save", "discard"}, NEW draft \in Nat \cup {None}, NEW text \in AnyText,
         card[t].of # None, D!Call(t, kind, card[t].of, draft, text),
         kind \in {"save", "discard"} => draft = card[t].draft /\ draft # None,
         NEW busy \in {"generating", "saving"}, card' = [card EXCEPT ![t].busy = busy]
  PROVE  DraftsInv' /\ RowsStay
<1> DEFINE c == [tab |-> t, kind |-> kind, gap |-> card[t].of, draft |-> draft, text |-> text,
                 pc |-> "sent", ref |-> 0, answer |-> None]
           k == [card[t] EXCEPT !.busy = busy]
<1>1. card[t] \in Shown /\ card' = [card EXCEPT ![t] = k] /\ calls \in Seq(DraftCall) /\ calls' = Append(calls, c)
  BY DEF DraftsInv, DraftsShape, D!Call
<1>2. k \in Shown /\ k.of = card[t].of /\ k.draft = card[t].draft
  BY <1>1 DEF Shown
<1>3. c \in DraftCall
  BY <1>1 DEF DraftCall, Reply, Shown
<1>4. /\ c.tab = t /\ c.gap = card[t].of /\ c.kind = kind /\ c.draft = draft /\ c.answer = None
  OBVIOUS
<1>5. k.draft # None => IsOf(k.draft, k.of, drafts)
  BY <1>2 DEF DraftsInv, CardFits
<1> HIDE DEF c, k
<1>6. CallFits(c, card, drafts)
  BY <1>2, <1>4, <1>5 DEF CallFits
<1>7. calls' \in Seq(DraftCall)
  BY <1>1, <1>3
<1>8. ASSUME NEW j \in DOMAIN calls' PROVE CallFits(calls'[j], card', drafts)
  <2>1. calls'[j] \in DraftCall /\ CallFits(calls'[j], card, drafts)
    BY <1>1, <1>3, <1>6, <1>7, Appended DEF DraftsInv, CallsFit
  <2>2. QED  BY <1>1, <1>2, <2>1, SameScenario
<1>9. QED  BY <1>1, <1>2, <1>5, <1>7, <1>8, CardMoves DEF CallsFit

\* Each step of a card keeps the invariant and the rows.
LEMMA OpenIs ==
  ASSUME D!DraftConstants, DraftsInv, NEW t \in Tabs, NEW scene \in Gaps, D!Open(t, scene)
  PROVE  DraftsInv' /\ RowsStay
<1> DEFINE c == [tab |-> t, kind |-> "list", gap |-> scene, draft |-> None, text |-> Bad,
                 pc |-> "sent", ref |-> 0, answer |-> None]
           k == [D!Closed EXCEPT !.of = scene, !.loading = TRUE]
<1>1. card' = [card EXCEPT ![t] = k] /\ calls \in Seq(DraftCall) /\ calls' = Append(calls, c)
      /\ card[t].of = None /\ UNCHANGED <<review, head, drafts>> /\ card \in [Tabs -> Shown]
  BY DEF DraftsInv, DraftsShape, D!Call, D!Open
<1>2. k \in Shown /\ k.of = scene /\ k.draft = None
  BY DEF Shown, D!Closed, AnyText
<1>3. c \in DraftCall /\ c.tab = t /\ c.gap = scene /\ c.kind = "list" /\ c.answer = None
  BY DEF DraftCall, Reply, AnyText
<1> HIDE DEF c, k
<1>4. calls' \in Seq(DraftCall)
  BY <1>1, <1>3
<1>5. ASSUME NEW j \in DOMAIN calls' PROVE CallFits(calls'[j], card', drafts)
  <2>1. CASE calls'[j] = c
    <3>1. card'[t].of = scene
      BY <1>1, <1>2
    <3>2. QED  BY <1>3, <2>1, <3>1 DEF CallFits
  <2>2. CASE j \in DOMAIN calls /\ calls'[j] = calls[j]
    <3>1. CallFits(calls[j], card, drafts) /\ calls[j] \in DraftCall
      BY <1>1, <2>2 DEF DraftsInv, CallsFit
    <3>2. calls[j].gap # None
      BY <3>1 DEF DraftCall, D!DraftConstants
    <3>3. calls[j].tab # None => calls[j].tab # t /\ calls[j].tab \in Tabs
      BY <1>1, <3>1, <3>2 DEF CallFits, DraftCall
    <3>4. calls[j].tab # None => card'[calls[j].tab] = card[calls[j].tab]
      BY <1>1, <3>3
    <3>5. QED  BY <2>2, <3>1, <3>4 DEF CallFits
  <2>3. QED  BY <1>1, <1>3, <2>1, <2>2, Appended
<1>6. QED  BY <1>1, <1>2, <1>4, <1>5, CardMoves DEF CallsFit

LEMMA CloseIs == ASSUME DraftsInv, NEW t \in Tabs, D!Close(t) PROVE DraftsInv' /\ RowsStay
<1>1. /\ card' = [card EXCEPT ![t] = D!Closed] /\ UNCHANGED <<review, head, drafts>>
      /\ calls' = [i \in DOMAIN calls |-> IF calls[i].tab = t THEN [calls[i] EXCEPT !.tab = None] ELSE calls[i]]
      /\ calls \in Seq(DraftCall) /\ card \in [Tabs -> Shown]
  BY DEF DraftsInv, DraftsShape, D!Close
<1>2. D!Closed \in Shown /\ D!Closed.draft = None
  BY DEF Shown, D!Closed, AnyText
<1>3. ASSUME NEW j \in DOMAIN calls PROVE calls'[j] \in DraftCall /\ CallFits(calls'[j], card', drafts)
  <2> DEFINE c == calls[j]
             z == [c EXCEPT !.tab = None]
  <2>1. c \in DraftCall /\ CallFits(c, card, drafts)
    BY <1>1 DEF DraftsInv, CallsFit
  <2>2. /\ z \in DraftCall /\ z.tab = None /\ z.gap = c.gap /\ z.kind = c.kind
        /\ z.draft = c.draft /\ z.answer = c.answer
    BY <2>1 DEF DraftCall
  <2>3. calls'[j] = IF c.tab = t THEN z ELSE c
    BY <1>1
  <2> HIDE DEF c, z
  <2>4. CASE c.tab = t
    BY <2>1, <2>2, <2>3, <2>4 DEF CallFits
  <2>5. CASE c.tab # t
    <3>1. c.tab # None => c.tab \in Tabs
      BY <2>1 DEF DraftCall
    <3>2. c.tab # None => card'[c.tab] = card[c.tab]
      BY <1>1, <2>5, <3>1
    <3>3. QED  BY <2>1, <2>3, <2>5, <3>2 DEF CallFits
  <2>6. QED  BY <2>4, <2>5
<1>4. DOMAIN calls' = 1..Len(calls) /\ Len(calls) \in Nat
  BY <1>1
<1>5. calls' \in Seq(DraftCall)
  BY <1>3, <1>4, <1>1
<1>6. CallsFit(calls', card', drafts)
  BY <1>1, <1>3 DEF CallsFit
<1>7. QED  BY <1>1, <1>2, <1>5, <1>6, CardMoves

LEMMA EditIs ==
  ASSUME DraftsInv, NEW t \in Tabs, NEW text \in AnyText, D!Edit(t, text) PROVE DraftsInv' /\ RowsStay
<1> DEFINE k == [card[t] EXCEPT !.text = text]
<1>1. card[t] \in Shown /\ card' = [card EXCEPT ![t] = k] /\ UNCHANGED <<review, head, drafts, calls>>
      /\ calls \in Seq(DraftCall)
  BY DEF DraftsInv, DraftsShape, D!Edit
<1>2. k \in Shown /\ k.of = card[t].of /\ k.draft = card[t].draft
  BY <1>1 DEF Shown
<1>3. k.draft # None => IsOf(k.draft, k.of, drafts)
  BY <1>2 DEF DraftsInv, CardFits
<1> HIDE DEF k
<1>4. ASSUME NEW j \in DOMAIN calls' PROVE CallFits(calls'[j], card', drafts)
  <2>1. calls'[j] \in DraftCall /\ CallFits(calls'[j], card, drafts)
    BY <1>1 DEF DraftsInv, CallsFit
  <2>2. QED  BY <1>1, <1>2, <2>1, SameScenario
<1>5. QED  BY <1>1, <1>2, <1>3, <1>4, CardMoves DEF CallsFit

LEMMA Pressed ==
  ASSUME D!DraftConstants, DraftsInv, NEW t \in Tabs, D!Generate(t) \/ D!Save(t) \/ D!Discard(t) PROVE DraftsInv' /\ RowsStay
<1>1. card[t] \in Shown /\ None \in Nat \cup {None} /\ Bad \in AnyText
  BY DEF DraftsInv, DraftsShape, AnyText
<1>2. card[t].draft \in Nat \cup {None} /\ card[t].text \in AnyText
  BY <1>1 DEF Shown
<1>3. ASSUME card[t].draft # None PROVE card[t].of # None
  <2>1. IsOf(card[t].draft, card[t].of, drafts)
    BY <1>3 DEF DraftsInv, CardFits
  <2>2. drafts[card[t].draft] \in Drafted /\ drafts[card[t].draft].gap = card[t].of
    BY <2>1 DEF DraftsInv, DraftsShape, IsOf
  <2>3. QED  BY <2>2 DEF D!DraftConstants, Drafted
<1>4. CASE D!Generate(t)
  BY <1>1, <1>4, Asked DEF D!Generate
<1>5. CASE D!Save(t)
  BY <1>2, <1>3, <1>5, Asked DEF D!Save
<1>6. CASE D!Discard(t)
  BY <1>1, <1>2, <1>3, <1>6, Asked DEF D!Discard
<1>7. QED  BY <1>4, <1>5, <1>6

-------------------------------------------------------------------------------
(* Answers *)

\* A sequence without one of its elements.
LEMMA WithoutOne ==
  ASSUME NEW T, NEW s \in Seq(T), NEW i \in DOMAIN s
  PROVE  /\ D!RemoveAt(s, i) \in Seq(T)
         /\ \A k \in DOMAIN D!RemoveAt(s, i) : \E m \in DOMAIN s : D!RemoveAt(s, i)[k] = s[m]
<1> DEFINE n == Len(s)
           a == SubSeq(s, 1, i - 1)
           b == SubSeq(s, i + 1, n)
           z == D!RemoveAt(s, i)
<1>1. DOMAIN s = 1..n /\ n \in Nat /\ i \in 1..n
  OBVIOUS
<1>2. z = a \o b
  BY DEF D!RemoveAt
<1>3. a \in Seq(T) /\ Len(a) = i - 1 /\ \A k \in 1..(i - 1) : a[k] = s[k]
  BY <1>1
<1>4. b \in Seq(T) /\ Len(b) = n - i /\ \A k \in 1..(n - i) : b[k] = s[k + i]
  BY <1>1
<1> HIDE DEF a, b, z, n
<1>5. z \in Seq(T) /\ Len(z) = Len(a) + Len(b) /\ \A k \in 1..(Len(a) + Len(b)) :
          z[k] = IF k <= Len(a) THEN a[k] ELSE b[k - Len(a)]
  BY <1>2, <1>3, <1>4, ConcatProperties
<1>6. ASSUME NEW k \in DOMAIN z PROVE \E m \in DOMAIN s : z[k] = s[m]
  <2>1. k \in 1..(n - 1) /\ z[k] = IF k <= i - 1 THEN a[k] ELSE b[k - (i - 1)]
    BY <1>1, <1>3, <1>4, <1>5
  <2>2. CASE k <= i - 1
    <3>1. k \in 1..(i - 1) /\ k \in DOMAIN s
      BY <1>1, <2>1, <2>2
    <3>2. QED  BY <1>3, <2>1, <2>2, <3>1
  <2>3. CASE ~(k <= i - 1)
    <3>1. k - (i - 1) \in 1..(n - i) /\ k - (i - 1) + i = k + 1 /\ k + 1 \in DOMAIN s
      BY <1>1, <2>1, <2>3
    <3>2. QED  BY <1>4, <2>1, <2>3, <3>1
  <2>4. QED  BY <2>2, <2>3
<1>7. QED  BY <1>5, <1>6 DEF z

\* Whoever hears an answer, or its loss, shows a row of its scenario.
LEMMA HearIs == ASSUME DraftsInv, NEW i \in DOMAIN calls, D!Hear(i) PROVE DraftsInv' /\ RowsStay
<1> DEFINE c == calls[i]
           t == c.tab
<1>1. /\ calls \in Seq(DraftCall) /\ card \in [Tabs -> Shown] /\ c \in DraftCall /\ CallFits(c, card, drafts)
      /\ calls' = D!RemoveAt(calls, i) /\ UNCHANGED <<review, head, drafts>>
  BY DEF DraftsInv, DraftsShape, CallsFit, D!Hear
<1>2. /\ calls' \in Seq(DraftCall)
      /\ \A j \in DOMAIN calls' : calls'[j] \in DraftCall /\ CallFits(calls'[j], card, drafts)
  BY <1>1, WithoutOne DEF DraftsInv, CallsFit
<1>3. CASE t = None
  <2>1. card' = card
    BY <1>3 DEF D!Hear
  <2>2. QED  BY <1>1, <1>2, <2>1 DEF DraftsInv, DraftsShape, CallsFit, CardFits, IsOf, RowsStay
<1>4. ASSUME t # None, NEW face \in Shown, face.of = card[t].of,
             face.draft # None => IsOf(face.draft, face.of, drafts), D!Gets(t, face)
      PROVE  DraftsInv' /\ RowsStay
  <2> DEFINE k == [face EXCEPT !.busy = "idle", !.loading = FALSE]
  <2>1. k \in Shown /\ k.of = card[t].of /\ k.draft = face.draft
    BY <1>4 DEF Shown
  <2>2. card' = [card EXCEPT ![t] = k] /\ t \in Tabs
    BY <1>1, <1>4 DEF D!Gets, DraftCall
  <2> HIDE DEF k, t, c
  <2>3. CallsFit(calls', card', drafts)
    BY <1>2, <2>1, <2>2, SameScenario DEF CallsFit
  <2>4. QED  BY <1>1, <1>2, <1>4, <2>1, <2>2, <2>3, CardMoves
<1>5. CASE t # None /\ c.answer = None
  <2>1. t \in Tabs /\ card[t] \in Shown
    BY <1>1, <1>5 DEF DraftCall
  <2>2. card[t].draft # None => IsOf(card[t].draft, card[t].of, drafts)
    BY <2>1 DEF DraftsInv, CardFits
  <2>3. D!Gets(t, card[t])
    BY <1>5 DEF D!Hear
  <2>4. QED  BY <1>4, <1>5, <2>1, <2>2, <2>3
<1>6. CASE t # None /\ c.answer # None /\ c.kind = "discard"
  <2> DEFINE k == [card[t] EXCEPT !.draft = None]
  <2>1. t \in Tabs /\ card[t] \in Shown
    BY <1>1, <1>6 DEF DraftCall
  <2>2. k \in Shown /\ k.of = card[t].of /\ k.draft = None
    BY <2>1 DEF Shown
  <2>3. D!Gets(t, k)
    BY <1>6 DEF D!Hear
  <2> HIDE DEF k
  <2>4. QED  BY <1>4, <1>6, <2>2, <2>3
<1>7. CASE t # None /\ c.answer # None /\ c.kind # "discard"
  <2> DEFINE k == [card[t] EXCEPT !.draft = c.answer.id, !.text = c.answer.text]
  <2>1. t \in Tabs /\ card[t] \in Shown
    BY <1>1, <1>7 DEF DraftCall
  <2>2. c.answer.id \in Nat /\ c.answer.text \in AnyText
    BY <1>1, <1>7 DEF DraftCall, Reply
  <2>3. k \in Shown /\ k.of = card[t].of /\ k.draft = c.answer.id
    BY <2>1, <2>2 DEF Shown
  <2>4. D!Gets(t, k)
    BY <1>7 DEF D!Hear
  <2> HIDE DEF k
  <2>5. k.draft # None => IsOf(k.draft, k.of, drafts)
    BY <1>1, <1>7, <2>3 DEF CallFits
  <2>6. QED  BY <1>4, <1>7, <2>3, <2>4, <2>5
<1>8. QED  BY <1>3, <1>5, <1>6, <1>7

LEMMA LostIs == ASSUME DraftsInv, NEW i \in DOMAIN calls, D!Lost(i) PROVE DraftsInv' /\ RowsStay
<1> DEFINE c == calls[i]
           t == c.tab
           z == [c EXCEPT !.tab = None]
           k == [card[t] EXCEPT !.busy = "idle", !.loading = FALSE]
<1>1. /\ calls \in Seq(DraftCall) /\ card \in [Tabs -> Shown] /\ c \in DraftCall /\ CallFits(c, card, drafts)
      /\ t # None /\ calls' = [calls EXCEPT ![i] = z] /\ card' = [card EXCEPT ![t] = k]
      /\ UNCHANGED <<review, head, drafts>>
  BY DEF DraftsInv, DraftsShape, CallsFit, D!Lost, D!Gets
<1>2. t \in Tabs /\ card[t] \in Shown
  BY <1>1 DEF DraftCall
<1>3. k \in Shown /\ k.of = card[t].of /\ k.draft = card[t].draft
  BY <1>2 DEF Shown
<1>4. /\ z \in DraftCall /\ z.tab = None /\ z.gap = c.gap /\ z.kind = c.kind
      /\ z.draft = c.draft /\ z.answer = c.answer
  BY <1>1 DEF DraftCall
<1>5. card[t].draft # None => IsOf(card[t].draft, card[t].of, drafts)
  BY <1>2 DEF DraftsInv, CardFits
<1> HIDE DEF t, z, k
<1>6. CallFits(z, card, drafts)
  BY <1>1, <1>4 DEF CallFits
<1> HIDE DEF c
<1>7. /\ calls' \in Seq(DraftCall)
      /\ \A j \in DOMAIN calls' : j \in DOMAIN calls /\ calls'[j] = IF j = i THEN z ELSE calls[j]
  BY <1>1, <1>4
<1>8. ASSUME NEW j \in DOMAIN calls' PROVE calls'[j] \in DraftCall /\ CallFits(calls'[j], card, drafts)
  BY <1>1, <1>6, <1>7 DEF DraftsInv, CallsFit
<1>9. CallsFit(calls', card', drafts)
  BY <1>1, <1>2, <1>3, <1>8, SameScenario DEF CallsFit
<1>10. QED  BY <1>1, <1>2, <1>3, <1>5, <1>7, <1>9, CardMoves

-------------------------------------------------------------------------------

LEMMA DraftsBegin == ASSUME D!Init PROVE DraftsInv
<1>1. review \in [kind : {"PULL_REQUEST", "PUSH"}, head : Nat] /\ head = 1 /\ drafts = <<>> /\ calls = <<>>
  BY DEF D!Init
<1>2. D!Closed \in Shown /\ D!Closed.draft = None
  BY DEF Shown, D!Closed, AnyText
<1>3. card \in [Tabs -> Shown] /\ \A t \in Tabs : card[t].draft = None
  BY <1>2 DEF D!Init
<1>4. QED  BY <1>1, <1>3 DEF DraftsInv, DraftsShape, CardFits, CallsFit

\* Every step keeps the invariant of the drafts, and the rows.
LEMMA DraftsStep == ASSUME D!DraftConstants, DraftsInv, D!Next PROVE DraftsInv' /\ RowsStay
<1>1. CASE D!Push
  BY <1>1 DEF D!Push, DraftsInv, DraftsShape, CardFits, CallsFit, CallFits, IsOf, RowsStay
<1>2. ASSUME NEW t \in Tabs, \E scene \in Gaps : D!Open(t, scene) PROVE DraftsInv' /\ RowsStay
  BY <1>2, OpenIs
<1>3. ASSUME NEW t \in Tabs, \E text \in Texts \cup {Bad} : D!Edit(t, text) PROVE DraftsInv' /\ RowsStay
  BY <1>3, EditIs DEF AnyText
<1>4. ASSUME NEW t \in Tabs, D!Close(t) \/ D!Generate(t) \/ D!Save(t) \/ D!Discard(t) PROVE DraftsInv' /\ RowsStay
  BY <1>4, CloseIs, Pressed
<1>5. ASSUME NEW i \in DOMAIN calls, \/ D!List(i) \/ D!Resolve(i) \/ D!Create(i) \/ D!Check(i) \/ D!Update(i) \/ D!Throw(i)
                                     \/ D!Hear(i) \/ D!Lost(i)
      PROVE  DraftsInv' /\ RowsStay
  BY <1>5, ListIs, ResolveIs, CreateIs, CheckIs, UpdateIs, ThrowIs, HearIs, LostIs
<1>6. QED  BY <1>1, <1>2, <1>3, <1>4, <1>5 DEF D!Next

\* Stated of one step, as a state formula of both states.
LEMMA DraftsStayThrown == ASSUME DraftsInv', RowsStay
  PROVE  /\ \A d \in DOMAIN drafts : drafts[d].status = "DISCARDED" => drafts'[d].status = "DISCARDED"
         /\ \A t \in Tabs : card'[t].draft # None => drafts'[card'[t].draft].gap = card'[t].of
BY DEF DraftsInv, RowsStay, CardFits, IsOf

\* A draft that was discarded stays so, and the card of a scenario shows a draft of that scenario
\* (test-draft.controller.ts, TestDraftFlow.tsx).
THEOREM ThrownStaysThrown == D!DraftConstants => (D!Spec => DiscardedStays)
<1> SUFFICES ASSUME D!DraftConstants PROVE D!Spec => DiscardedStays
  OBVIOUS
<1>1. DraftsInv /\ [D!Next]_D!vars => DraftsInv'
  <2>1. ASSUME DraftsInv, UNCHANGED D!vars PROVE DraftsInv'
    BY <2>1 DEF D!vars, DraftsInv, DraftsShape, CardFits, CallsFit, CallFits, IsOf
  <2>2. QED  BY <2>1, DraftsStep
<1>2. DraftsInv /\ DraftsInv' /\ [D!Next]_D!vars =>
        [ /\ \A d \in DOMAIN drafts : drafts[d].status = "DISCARDED" => drafts'[d].status = "DISCARDED"
          /\ \A t \in Tabs : card'[t].draft # None => drafts'[card'[t].draft].gap = card'[t].of ]_D!vars
  BY DraftsStep, DraftsStayThrown
<1>3. QED  BY <1>1, <1>2, DraftsBegin, PTL DEF D!Spec, DiscardedStays, D!DiscardedStays
===============================================================================
