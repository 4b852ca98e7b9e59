---------------------------- MODULE BillingSafety ----------------------------
(***************************************************************************)
(* The safety of billing, for any requests, checkouts and events: an account *)
(* does not buy twice, and its access is what the events say.               *)
(*                                                                          *)
(* A checkout that can still be paid is the account's pending one; only the  *)
(* holder of the lock replaces it, and only when it is closed or its         *)
(* subscription has ended, which neither of the two ever takes back.         *)
(***************************************************************************)
EXTENDS Billing, Integers, FiniteSetTheorems, SequenceTheorems, TLAPS

-------------------------------------------------------------------------------
(* Types *)

Statuses  == {"incomplete", "active", "paused", "canceled"}
Checkouts == [product : Plans, status : {"open", "confirmed", "closed", "succeeded"},
              subscription : Statuses \cup {"none"}, indexed : BOOLEAN]
Events    == [of : Ids, status : Statuses, plan : Plans, at : Nat \ {0}]
Rows      == [status : Statuses \cup {"none"}, plan : Plans \cup {"FREE"}, at : Nat]
Steps     == {"idle", "begin", "list", "pending", "get", "create", "store"}
Shops     == [linked : BOOLEAN, plan : Plans \cup {"FREE"}]
Working   == [pc : Steps, product : Plans \cup {None}, checkout : Nat]

CheckoutsOK == checkout \in Seq(Checkouts) /\ DOMAIN checkout \subseteq Ids
EventsOK    == clock \in Nat \ {0} /\ sent \subseteq Events /\ applied \subseteq sent
AccessOK    == rows \in [Ids -> Rows] /\ install \in Shops
RequestsOK  == /\ request \in [Requests -> Working] /\ lock \in Requests \cup {None}
               /\ \A r \in Requests : request[r].pc # "idle" => request[r].product \in Plans
OffersOK    == /\ offered \subseteq DOMAIN checkout /\ pending \in DOMAIN checkout \cup {0}
               /\ \A r \in Requests : /\ request[r].pc = "store" => request[r].checkout \in DOMAIN checkout
                                      /\ request[r].pc = "get" => pending # 0

TypeOK == CheckoutsOK /\ EventsOK /\ AccessOK /\ RequestsOK /\ OffersOK

-------------------------------------------------------------------------------
(* The inductive invariants *)

\* It can still be paid, or was and its subscription goes on.
Live(c) == checkout[c].status # "closed" /\ ~Terminated(checkout[c].subscription)

\* Only the pending checkout may be live; the one who goes on to replace it has seen that it is not.
Locked    == \A r \in Requests : lock = r => request[r].pc \notin {"idle", "begin"}
OneLive   == \A c \in offered : Live(c) => c = pending
Replacing == \A r \in Requests : lock = r /\ request[r].pc \in {"create", "store"} => (pending = 0 \/ ~Live(pending))
Bought    == Locked /\ OneLive /\ Replacing

\* A row is that of the newest event processed, and not one that a revocation of that time overtakes.
Newest(s) ==
    LET its == {e \in applied : e.of = s} IN
    /\ its = {} => rows[s] = NoRow
    /\ its # {} => \E e \in its : /\ rows[s].status = e.status /\ rows[s].at = e.at
                                  /\ \A f \in its : f.at <= e.at
    /\ Entitling(rows[s].status) => /\ rows[s].plan \in Plans
                                    /\ \A f \in its : f.at = rows[s].at => f.status # "canceled"
Shown == install.plan = IF install.linked THEN Best(rows) ELSE "FREE"
Held  == Shown /\ \A s \in Ids : Newest(s)

-------------------------------------------------------------------------------
(* What the steps of a request do to requests and the lock *)

\* Request r comes to pc; the others stay.
Turns(r, pc) == request'[r].pc = pc /\ \A q \in Requests \ {r} : request'[q] = request[q]

LEMMA GoTurns ==
    ASSUME RequestsOK, NEW r \in Requests, NEW pc \in Steps \ {"idle"}, request[r].pc # "idle", Go(r, pc),
           lock' \in Requests \cup {None}
    PROVE  RequestsOK' /\ Turns(r, pc) /\ request'[r].checkout = request[r].checkout
<1>1. request[r] \in Working /\ request[r].product \in Plans
  BY DEF RequestsOK
<1>2. PICK a : a = [request[r] EXCEPT !.pc = pc]
  OBVIOUS
<1>3. a \in Working /\ a.pc = pc /\ a.product = request[r].product /\ a.checkout = request[r].checkout
  BY <1>1, <1>2 DEF Working
<1>4. request' = [request EXCEPT ![r] = a]
  BY <1>1, <1>2 DEF Go, RequestsOK, Working
<1>5. QED  BY <1>1, <1>3, <1>4 DEF RequestsOK, Turns

LEMMA LeaveTurns ==
    ASSUME RequestsOK, NEW r \in Requests, Leave(r)
    PROVE  RequestsOK' /\ Turns(r, "idle") /\ lock' # r /\ lock' \in {lock, None}
<1>1. Idle \in Working /\ Idle.pc = "idle"
  BY DEF Idle, Working, Steps
<1>2. request' = [request EXCEPT ![r] = Idle] /\ lock' = IF lock = r THEN None ELSE lock
  BY DEF Leave
<1>3. r # None
  BY BillingAssumption
<1>4. QED  BY <1>1, <1>2, <1>3 DEF RequestsOK, Turns

LEMMA ClickTurns ==
    ASSUME RequestsOK, NEW r \in Requests, NEW plan \in Plans, Click(r, plan)
    PROVE  RequestsOK' /\ Turns(r, "begin") /\ UNCHANGED lock /\ request[r].pc = "idle"
<1>1. PICK a : a = [pc |-> "begin", product |-> plan, checkout |-> 0]
  OBVIOUS
<1>2. a \in Working /\ a.pc = "begin" /\ a.product = plan
  BY <1>1 DEF Working, Steps
<1>3. request' = [request EXCEPT ![r] = a] /\ UNCHANGED lock /\ request[r] = Idle
  BY <1>1 DEF Click
<1>4. QED  BY <1>2, <1>3 DEF RequestsOK, Turns, Idle

-------------------------------------------------------------------------------
(* Types *)

LEMMA CheckoutElements ==
    ASSUME CheckoutsOK
    PROVE  /\ checkout \in [DOMAIN checkout -> Checkouts] /\ DOMAIN checkout = 1..Len(checkout)
           /\ Len(checkout) \in Nat /\ 0 \notin DOMAIN checkout /\ DOMAIN checkout \subseteq Nat
<1>1. checkout \in Seq(Checkouts)
  BY DEF CheckoutsOK
<1>2. Len(checkout) \in Nat /\ checkout \in [1..Len(checkout) -> Checkouts] /\ DOMAIN checkout = 1..Len(checkout)
  BY <1>1, LenProperties
<1>3. QED  BY <1>2

\* A checkout changes in place.
LEMMA CheckoutChanges ==
    ASSUME CheckoutsOK, NEW c \in DOMAIN checkout, NEW e \in Checkouts, checkout' = [checkout EXCEPT ![c] = e]
    PROVE  /\ CheckoutsOK' /\ DOMAIN checkout' = DOMAIN checkout /\ checkout'[c] = e
           /\ \A d \in DOMAIN checkout \ {c} : checkout'[d] = checkout[d]
<1>1. checkout \in [DOMAIN checkout -> Checkouts] /\ DOMAIN checkout = 1..Len(checkout) /\ Len(checkout) \in Nat
  BY CheckoutElements
<1>2. checkout' \in [1..Len(checkout) -> Checkouts]
  BY <1>1
<1>3. checkout' \in Seq(Checkouts)
  BY <1>1, <1>2, SeqDef
<1>4. QED  BY <1>1, <1>2, <1>3 DEF CheckoutsOK

\* A new one comes last.
LEMMA CheckoutAppends ==
    ASSUME CheckoutsOK, NEW e \in Checkouts, Len(checkout) < MaxCheckouts, checkout' = Append(checkout, e)
    PROVE  /\ CheckoutsOK' /\ DOMAIN checkout' = DOMAIN checkout \cup {Len(checkout) + 1}
           /\ Len(checkout) + 1 \notin DOMAIN checkout /\ Len(checkout) + 1 \in Nat
           /\ \A d \in DOMAIN checkout : checkout'[d] = checkout[d]
<1>1. checkout \in Seq(Checkouts) /\ DOMAIN checkout = 1..Len(checkout) /\ Len(checkout) \in Nat
  BY CheckoutElements DEF CheckoutsOK
<1>2. /\ checkout' \in Seq(Checkouts) /\ Len(checkout') = Len(checkout) + 1
      /\ \A d \in 1..Len(checkout) : checkout'[d] = checkout[d]
  BY <1>1, AppendProperties
<1>3. DOMAIN checkout' = 1..(Len(checkout) + 1)
  BY <1>2, LenProperties
<1>4. Len(checkout) + 1 \in Ids /\ DOMAIN checkout \subseteq Ids
  BY <1>1, BillingAssumption DEF Ids, CheckoutsOK
<1>5. DOMAIN checkout' = DOMAIN checkout \cup {Len(checkout) + 1} /\ Len(checkout) + 1 \notin DOMAIN checkout
  BY <1>1, <1>3
<1>6. QED  BY <1>1, <1>2, <1>4, <1>5 DEF CheckoutsOK

LEMMA InitType == ASSUME Init PROVE TypeOK
<1>1. <<>> \in Seq(Checkouts) /\ DOMAIN <<>> = {}
  BY EmptySeq
<1>2. CheckoutsOK
  BY <1>1 DEF Init, CheckoutsOK
<1>3. EventsOK /\ AccessOK
  BY DEF Init, EventsOK, AccessOK, NoRow, Rows, Shops
<1>4. RequestsOK /\ OffersOK
  BY DEF Init, RequestsOK, OffersOK, Idle, Working, Steps
<1>5. QED  BY <1>2, <1>3, <1>4 DEF TypeOK

LEMMA Same ==
    ASSUME TypeOK
    PROVE  /\ UNCHANGED checkout => CheckoutsOK'
           /\ UNCHANGED <<clock, sent, applied>> => EventsOK'
           /\ UNCHANGED <<rows, install>> => AccessOK'
           /\ UNCHANGED <<request, lock>> => RequestsOK'
           /\ UNCHANGED <<request, pending, offered>> /\ DOMAIN checkout \subseteq DOMAIN checkout' => OffersOK'
BY DEF TypeOK, CheckoutsOK, EventsOK, AccessOK, RequestsOK, OffersOK

\* A request turns to where nothing is owed.
LEMMA TurnsOffers ==
    ASSUME OffersOK, NEW r \in Requests, NEW pc, Turns(r, pc), UNCHANGED <<checkout, pending, offered>>,
           pc # "store", pc = "get" => pending # 0
    PROVE  OffersOK'
BY DEF OffersOK, Turns

LEMMA RequestType ==
    ASSUME TypeOK, NEW r \in Requests,
           \/ \E plan \in Plans : Click(r, plan)
           \/ Begin(r) \/ List(r) \/ ReadPending(r) \/ TimeOut(r) \/ Fail(r)
    PROVE  TypeOK'
<1>1. UNCHANGED <<checkout, clock, sent, applied, rows, install, pending, offered>>
  BY DEF Click, Begin, List, ReadPending, TimeOut, Fail
<1>2. ASSUME Leave(r) PROVE RequestsOK' /\ OffersOK'
  BY <1>1, <1>2, LeaveTurns, TurnsOffers DEF TypeOK
<1>3. ASSUME NEW pc \in Steps \ {"idle"}, request[r].pc # "idle", Go(r, pc), lock' \in {lock, r},
             pc # "store", pc = "get" => pending # 0
      PROVE  RequestsOK' /\ OffersOK'
  <2>1. lock' \in Requests \cup {None}
    BY <1>3 DEF TypeOK, RequestsOK
  <2>2. QED  BY <1>1, <1>3, <2>1, GoTurns, TurnsOffers DEF TypeOK
<1>4. ASSUME NEW plan \in Plans, Click(r, plan) PROVE RequestsOK' /\ OffersOK'
  BY <1>1, <1>4, ClickTurns, TurnsOffers DEF TypeOK
<1>5. Begin(r) \/ List(r) \/ ReadPending(r) => RequestsOK' /\ OffersOK'
  <2>1. {"list", "pending", "create", "get"} \subseteq Steps \ {"idle"}
    BY DEF Steps
  <2>2. Begin(r) => RequestsOK' /\ OffersOK'
    BY <1>2, <1>3, <2>1 DEF Begin
  <2>3. List(r) => RequestsOK' /\ OffersOK'
    BY <1>2, <1>3, <2>1 DEF List
  <2>4. ReadPending(r) => RequestsOK' /\ OffersOK'
    BY <1>2, <1>3, <2>1 DEF ReadPending
  <2>5. QED  BY <2>2, <2>3, <2>4
<1>6. TimeOut(r) => RequestsOK' /\ OffersOK'
  BY DEF TimeOut, TypeOK, RequestsOK, OffersOK
<1>7. Fail(r) => RequestsOK' /\ OffersOK'
  BY <1>2 DEF Fail
<1>8. QED  BY <1>1, <1>4, <1>5, <1>6, <1>7, Same DEF TypeOK

LEMMA GetType == ASSUME TypeOK, NEW r \in Requests, GetCheckout(r) PROVE TypeOK'
<1>1. UNCHANGED <<checkout, clock, sent, applied, rows, install, pending>>
  BY DEF GetCheckout
<1>2. request[r].pc = "get" /\ pending \in DOMAIN checkout /\ "create" \in Steps \ {"idle"}
  BY DEF GetCheckout, TypeOK, OffersOK, Steps
<1>3. offered' \subseteq DOMAIN checkout
  BY <1>2 DEF GetCheckout, TypeOK, OffersOK
<1>4. Leave(r) \/ (Go(r, "create") /\ UNCHANGED lock)
  BY DEF GetCheckout
<1>5. RequestsOK' /\ \E pc \in {"idle", "create"} : Turns(r, pc)
  BY <1>2, <1>4, LeaveTurns, GoTurns DEF TypeOK, RequestsOK
<1>6. OffersOK'
  BY <1>1, <1>3, <1>5 DEF TypeOK, OffersOK, Turns
<1>7. QED  BY <1>1, <1>5, <1>6, Same DEF TypeOK

\* A checkout is made; the answer, if there is one, names it.
LEMMA CreateTurns ==
    ASSUME TypeOK, NEW r \in Requests, CreateCheckout(r)
    PROVE  /\ CheckoutsOK' /\ DOMAIN checkout \subseteq DOMAIN checkout' /\ RequestsOK'
           /\ \A d \in DOMAIN checkout : checkout'[d] = checkout[d]
           /\ \/ Leave(r) /\ Turns(r, "idle")
              \/ Turns(r, "store") /\ request'[r].checkout \in DOMAIN checkout' /\ UNCHANGED lock
<1> DEFINE n == Len(checkout) + 1
<1>1. request[r] \in Working /\ request[r].pc = "create" /\ request[r].product \in Plans
  BY DEF CreateCheckout, TypeOK, RequestsOK
<1>2. PICK e : e = [product |-> request[r].product, status |-> "open", subscription |-> "none", indexed |-> FALSE]
  OBVIOUS
<1>3. e \in Checkouts
  BY <1>1, <1>2 DEF Checkouts
<1>4. checkout' = Append(checkout, e) /\ Len(checkout) < MaxCheckouts
  BY <1>2 DEF CreateCheckout
<1>5. /\ CheckoutsOK' /\ DOMAIN checkout' = DOMAIN checkout \cup {n} /\ n \in Nat
      /\ \A d \in DOMAIN checkout : checkout'[d] = checkout[d]
  BY <1>3, <1>4, CheckoutAppends DEF TypeOK
<1>6. CASE Leave(r)
  BY <1>5, <1>6, LeaveTurns DEF TypeOK
<1>7. CASE request' = [request EXCEPT ![r].pc = "store", ![r].checkout = n] /\ UNCHANGED lock
  <2>1. PICK a : a = [request[r] EXCEPT !.pc = "store", !.checkout = n]
    OBVIOUS
  <2>2. a \in Working /\ a.pc = "store" /\ a.checkout = n /\ a.product = request[r].product
    BY <1>1, <1>5, <2>1 DEF Working, Steps
  <2>3. request' = [request EXCEPT ![r] = a]
    BY <1>1, <1>7, <2>1 DEF TypeOK, RequestsOK, Working
  <2>4. QED  BY <1>1, <1>5, <1>7, <2>2, <2>3 DEF TypeOK, RequestsOK, Turns
<1>8. QED  BY <1>6, <1>7 DEF CreateCheckout

LEMMA CreateType == ASSUME TypeOK, NEW r \in Requests, CreateCheckout(r) PROVE TypeOK'
<1>1. UNCHANGED <<clock, sent, applied, rows, install, pending, offered>>
  BY DEF CreateCheckout
<1>2. OffersOK'
  BY <1>1, CreateTurns DEF TypeOK, OffersOK, Turns
<1>3. QED  BY <1>1, <1>2, CreateTurns, Same DEF TypeOK

LEMMA StoreType == ASSUME TypeOK, NEW r \in Requests, Store(r) PROVE TypeOK'
<1>1. UNCHANGED <<checkout, clock, sent, applied, rows, install>> /\ Leave(r)
  BY DEF Store
<1>2. RequestsOK' /\ Turns(r, "idle")
  BY <1>1, LeaveTurns DEF TypeOK
<1>3. request[r].checkout \in DOMAIN checkout
  BY DEF Store, TypeOK, OffersOK
<1>4. 0 \notin DOMAIN checkout
  BY CheckoutElements DEF TypeOK
<1>5. offered' \subseteq DOMAIN checkout /\ pending' \in DOMAIN checkout \cup {0} /\ (pending # 0 => pending' # 0)
  BY <1>3, <1>4 DEF Store, TypeOK, OffersOK
<1>6. OffersOK'
  BY <1>1, <1>2, <1>5 DEF TypeOK, OffersOK, Turns
<1>7. QED  BY <1>1, <1>2, <1>6, Same DEF TypeOK

-------------------------------------------------------------------------------
(* Types: the provider and the webhook *)

Provider(c) == \/ Pay(c) \/ Close(c) \/ Succeed(c) \/ Index(c)
               \/ \E status \in Statuses, plan \in Plans, at \in 1..MaxClock : Change(c, status, plan, at)

\* What the provider does to a checkout: what is over stays over.
LEMMA ProviderChanges ==
    ASSUME TypeOK, NEW c \in DOMAIN checkout, Provider(c)
    PROVE  /\ CheckoutsOK' /\ DOMAIN checkout' = DOMAIN checkout
           /\ \A d \in DOMAIN checkout : ~Live(d) => ~Live(d)'
<1>1. checkout[c] \in Checkouts
  BY CheckoutElements DEF TypeOK
<1>2. ASSUME NEW status \in Statuses, NEW plan \in Plans, NEW at \in 1..MaxClock, Change(c, status, plan, at)
      PROVE  \E e \in Checkouts : /\ checkout' = [checkout EXCEPT ![c] = e]
                                  /\ checkout[c].status = "closed" => e.status = "closed"
                                  /\ Terminated(checkout[c].subscription) => Terminated(e.subscription)
  <2>1. PICK e : e = [checkout[c] EXCEPT !.subscription = status, !.product = plan]
    OBVIOUS
  <2>2. e \in Checkouts /\ e.status = checkout[c].status /\ e.subscription = status
    BY <1>1, <2>1 DEF Checkouts
  <2>3. checkout' = [checkout EXCEPT ![c] = e]
    BY <1>1, <1>2, <2>1, CheckoutElements DEF Change, Checkouts, TypeOK
  <2>4. checkout[c].subscription # "canceled"
    BY <1>2 DEF Change, After
  <2>5. QED  BY <2>2, <2>3, <2>4 DEF Terminated
<1>3. ASSUME Pay(c) \/ Close(c) \/ Succeed(c)
      PROVE  \E e \in Checkouts : /\ checkout' = [checkout EXCEPT ![c] = e]
                                  /\ checkout[c].status = "closed" => e.status = "closed"
                                  /\ Terminated(checkout[c].subscription) => Terminated(e.subscription)
  <2>1. PICK s \in {"confirmed", "closed", "succeeded"} :
          checkout[c].status # "closed" /\ checkout' = [checkout EXCEPT ![c].status = s]
    BY <1>3 DEF Pay, Close, Succeed
  <2>2. PICK e : e = [checkout[c] EXCEPT !.status = s]
    OBVIOUS
  <2>3. e \in Checkouts /\ e.subscription = checkout[c].subscription
    BY <1>1, <2>2 DEF Checkouts
  <2>4. checkout' = [checkout EXCEPT ![c] = e]
    BY <1>1, <2>1, <2>2, CheckoutElements DEF Checkouts, TypeOK
  <2>5. QED  BY <2>1, <2>3, <2>4
<1>4. ASSUME Index(c)
      PROVE  \E e \in Checkouts : /\ checkout' = [checkout EXCEPT ![c] = e]
                                  /\ checkout[c].status = "closed" => e.status = "closed"
                                  /\ Terminated(checkout[c].subscription) => Terminated(e.subscription)
  <2>1. PICK e : e = [checkout[c] EXCEPT !.indexed = TRUE]
    OBVIOUS
  <2>2. e \in Checkouts /\ e.status = checkout[c].status /\ e.subscription = checkout[c].subscription
    BY <1>1, <2>1 DEF Checkouts
  <2>3. checkout' = [checkout EXCEPT ![c] = e]
    BY <1>1, <1>4, <2>1, CheckoutElements DEF Index, Checkouts, TypeOK
  <2>4. QED  BY <2>2, <2>3
<1>5. PICK e \in Checkouts : /\ checkout' = [checkout EXCEPT ![c] = e]
                             /\ checkout[c].status = "closed" => e.status = "closed"
                             /\ Terminated(checkout[c].subscription) => Terminated(e.subscription)
  BY <1>2, <1>3, <1>4 DEF Provider
<1>6. /\ CheckoutsOK' /\ DOMAIN checkout' = DOMAIN checkout /\ checkout'[c] = e
      /\ \A d \in DOMAIN checkout \ {c} : checkout'[d] = checkout[d]
  BY <1>5, CheckoutChanges DEF TypeOK
<1>7. QED  BY <1>5, <1>6 DEF Live

LEMMA ProviderType == ASSUME TypeOK, NEW c \in DOMAIN checkout, Provider(c) PROVE TypeOK'
<1>1. UNCHANGED <<applied, rows, install, pending, lock, request, offered>>
  BY DEF Provider, Pay, Close, Succeed, Index, Change
<1>2. c \in Ids
  BY DEF TypeOK, CheckoutsOK
<1>3. EventsOK'
  <2>1. ASSUME NEW status \in Statuses, NEW plan \in Plans, NEW at \in 1..MaxClock, Change(c, status, plan, at) PROVE EventsOK'
    <3>1. at \in Nat \ {0}
      OBVIOUS
    <3>2. [of |-> c, status |-> status, plan |-> plan, at |-> at] \in Events
      BY <1>2, <3>1 DEF Events
    <3>3. QED  BY <2>1, <3>1, <3>2 DEF Change, TypeOK, EventsOK
  <2>2. QED  BY <2>1, Same DEF Provider, Pay, Close, Succeed, Index
<1>4. QED  BY <1>1, <1>3, ProviderChanges, Same DEF TypeOK

LEMMA BestType == Best(rows) \in Plans \cup {"FREE"}
BY DEF Best, Plans

LEMMA WebhookType == ASSUME TypeOK, (\E e \in sent : Deliver(e)) \/ Link \/ Uninstall PROVE TypeOK'
<1>1. UNCHANGED <<checkout, clock, sent, pending, lock, request, offered>>
  BY DEF Deliver, Link, Uninstall
<1>2. ASSUME NEW e \in sent, Deliver(e) PROVE EventsOK' /\ AccessOK'
  <2>1. e \in Events
    BY DEF TypeOK, EventsOK
  <2>2. EventsOK'
    BY <1>2 DEF Deliver, TypeOK, EventsOK
  <2>3. PICK row : row = [status |-> e.status, plan |-> IF Entitling(e.status) THEN e.plan ELSE "FREE", at |-> e.at]
    OBVIOUS
  <2>4. row \in Rows
    BY <2>1, <2>3 DEF Rows, Events
  <2>5. PICK after : after = [rows EXCEPT ![e.of] = row]
    OBVIOUS
  <2>6. after \in [Ids -> Rows]
    BY <2>4, <2>5 DEF TypeOK, AccessOK
  <2>7. Best(after) \in Plans \cup {"FREE"}
    BY DEF Best, Plans
  <2>8. \/ UNCHANGED <<rows, install>>
        \/ rows' = after /\ install' = [install EXCEPT !.plan = IF install.linked THEN Best(after) ELSE @]
    BY <1>2, <2>3, <2>5 DEF Deliver
  <2>9. AccessOK'
    BY <2>6, <2>7, <2>8 DEF TypeOK, AccessOK, Shops
  <2>10. QED  BY <2>2, <2>9
<1>3. ASSUME Link PROVE EventsOK' /\ AccessOK'
  <2>1. PICK shop : shop = [linked |-> TRUE, plan |-> Best(rows)]
    OBVIOUS
  <2>2. Best(rows) \in Plans \cup {"FREE"}
    BY DEF Best, Plans
  <2>3. shop \in Shops
    BY <2>1, <2>2 DEF Shops
  <2>4. install' = shop /\ UNCHANGED <<clock, sent, applied, rows>>
    BY <1>3, <2>1 DEF Link
  <2>5. AccessOK'
    BY <2>3, <2>4 DEF TypeOK, AccessOK
  <2>6. EventsOK'
    BY <2>4 DEF TypeOK, EventsOK
  <2>7. QED  BY <2>5, <2>6
<1>4. ASSUME Uninstall PROVE EventsOK' /\ AccessOK'
  <2>1. install' = [linked |-> FALSE, plan |-> "FREE"] /\ UNCHANGED <<clock, sent, applied, rows>>
    BY <1>4 DEF Uninstall
  <2>2. [linked |-> FALSE, plan |-> "FREE"] \in Shops
    BY DEF Shops
  <2>3. AccessOK'
    BY <2>1, <2>2 DEF TypeOK, AccessOK
  <2>4. EventsOK'
    BY <2>1 DEF TypeOK, EventsOK
  <2>5. QED  BY <2>3, <2>4
<1>5. QED  BY <1>1, <1>2, <1>3, <1>4, Same DEF TypeOK

\* Every step is one of a request, of the provider or of the webhook.
LEMMA Steps3 ==
    ASSUME Next
    PROVE  \/ \E r \in Requests : \/ \E plan \in Plans : Click(r, plan)
                                  \/ Begin(r) \/ List(r) \/ ReadPending(r) \/ TimeOut(r) \/ Fail(r)
                                  \/ GetCheckout(r) \/ CreateCheckout(r) \/ Store(r)
           \/ \E c \in DOMAIN checkout : Provider(c)
           \/ (\E e \in sent : Deliver(e)) \/ Link \/ Uninstall
BY DEF Next, Provider, Statuses

\* What billing keeps at the provider and here has the shape the code gives it.
THEOREM TypeCorrect == Spec => []TypeOK
<1>1. Init => TypeOK
  BY InitType
<1>2. TypeOK /\ [Next]_billing => TypeOK'
  <2>1. TypeOK /\ Next => TypeOK'
    BY Steps3, RequestType, GetType, CreateType, StoreType, ProviderType, WebhookType
  <2>2. TypeOK /\ UNCHANGED billing => TypeOK'
    BY Same DEF TypeOK, billing
  <2>3. QED  BY <2>1, <2>2
<1>3. QED  BY <1>1, <1>2, PTL DEF Spec

-------------------------------------------------------------------------------
(* An account buys once *)

\* A request goes on; what is sold stays as it is.
LEMMA BoughtTurns ==
    ASSUME TypeOK, Bought, NEW r \in Requests, NEW pc, Turns(r, pc), lock' \in {lock, None, r},
           pc \in {"idle", "begin"} => lock' # r,
           pc \in {"create", "store"} => lock' # r \/ pending = 0 \/ ~Live(pending),
           UNCHANGED <<checkout, pending, offered>>
    PROVE  Bought'
<1>1. None \notin Requests
  BY BillingAssumption
<1>2. Locked'
  BY <1>1 DEF Bought, Locked, Turns
<1>3. OneLive' /\ \A c : Live(c)' = Live(c)
  BY DEF Bought, OneLive, Live
<1>4. Replacing'
  BY <1>1, <1>3 DEF Bought, Replacing, Turns, Live
<1>5. QED  BY <1>2, <1>3, <1>4 DEF Bought

LEMMA BoughtRequest ==
    ASSUME TypeOK, Bought, NEW r \in Requests,
           \/ \E plan \in Plans : Click(r, plan)
           \/ Begin(r) \/ List(r) \/ ReadPending(r) \/ TimeOut(r) \/ Fail(r)
    PROVE  Bought'
<1>1. UNCHANGED <<checkout, pending, offered>>
  BY DEF Click, Begin, List, ReadPending, TimeOut, Fail
<1>2. ASSUME Leave(r) PROVE Bought'
  BY <1>1, <1>2, LeaveTurns, BoughtTurns DEF TypeOK
<1>3. ASSUME NEW pc \in Steps \ {"idle", "begin", "store"}, request[r].pc # "idle", Go(r, pc), lock' \in {lock, r},
             pc = "create" => pending = 0
      PROVE  Bought'
  <2>1. lock' \in Requests \cup {None}
    BY <1>3 DEF TypeOK, RequestsOK
  <2>2. QED  BY <1>1, <1>3, <2>1, GoTurns, BoughtTurns DEF TypeOK
<1>4. ASSUME NEW plan \in Plans, Click(r, plan) PROVE Bought'
  <2>1. Turns(r, "begin") /\ UNCHANGED lock /\ request[r].pc = "idle"
    BY <1>4, ClickTurns DEF TypeOK
  <2>2. lock # r
    BY <2>1 DEF Bought, Locked
  <2>3. QED  BY <1>1, <2>1, <2>2, BoughtTurns
<1>5. {"list", "pending", "create", "get"} \subseteq Steps \ {"idle", "begin", "store"}
  BY DEF Steps
<1>6. Begin(r) => Bought'
  BY <1>2, <1>3, <1>5 DEF Begin
<1>7. List(r) => Bought'
  BY <1>2, <1>3, <1>5 DEF List
<1>8. ReadPending(r) => Bought'
  BY <1>2, <1>3, <1>5 DEF ReadPending
<1>9. TimeOut(r) => Bought'
  BY <1>1, BillingAssumption DEF TimeOut, Bought, Locked, OneLive, Replacing, Live
<1>10. Fail(r) => Bought'
  BY <1>2 DEF Fail
<1>11. QED  BY <1>4, <1>6, <1>7, <1>8, <1>9, <1>10

LEMMA BoughtGet == ASSUME TypeOK, Bought, NEW r \in Requests, GetCheckout(r) PROVE Bought'
<1>1. UNCHANGED <<checkout, pending>> /\ offered' \subseteq offered \cup {pending} /\ request[r].pc = "get"
  BY DEF GetCheckout
<1>2. OneLive' /\ \A c : Live(c)' = Live(c)
  BY <1>1 DEF Bought, OneLive, Live
<1>3. None \notin Requests
  BY BillingAssumption
<1>4. CASE Replaceable(checkout[pending])
  <2>1. Go(r, "create") /\ UNCHANGED lock
    BY <1>4 DEF GetCheckout
  <2>2. Turns(r, "create")
    BY <1>1, <2>1, GoTurns DEF TypeOK, RequestsOK, Steps
  <2>3. ~Live(pending)
    BY <1>4 DEF Replaceable, Live
  <2>4. QED  BY <1>1, <1>2, <2>1, <2>2, <2>3 DEF Bought, Locked, Replacing, Turns
<1>5. CASE ~Replaceable(checkout[pending])
  <2>1. Leave(r)
    BY <1>5 DEF GetCheckout
  <2>2. Turns(r, "idle") /\ lock' # r /\ lock' \in {lock, None}
    BY <2>1, LeaveTurns DEF TypeOK
  <2>3. QED  BY <1>1, <1>2, <1>3, <2>2 DEF Bought, Locked, Replacing, Turns
<1>6. QED  BY <1>4, <1>5

\* A new checkout is nobody's until it is stored.
LEMMA BoughtCreate == ASSUME TypeOK, Bought, NEW r \in Requests, CreateCheckout(r) PROVE Bought'
<1>1. UNCHANGED <<pending, offered>> /\ request[r].pc = "create"
  BY DEF CreateCheckout
<1>2. \A d \in DOMAIN checkout : Live(d)' = Live(d)
  BY CreateTurns DEF Live
<1>3. OneLive'
  BY <1>1, <1>2 DEF Bought, OneLive, TypeOK, OffersOK
<1>4. pending = 0 \/ (~Live(pending) => ~Live(pending)')
  <2>1. ASSUME pending \in DOMAIN checkout  PROVE ~Live(pending) => ~Live(pending)'
    <3>1. checkout'[pending] = checkout[pending] /\ pending' = pending
      BY <1>1, <2>1, CreateTurns
    <3>2. QED  BY <3>1 DEF Live
  <2>2. QED  BY <2>1 DEF TypeOK, OffersOK
<1>5. CASE Leave(r)
  <2>1. Turns(r, "idle") /\ lock' # r /\ lock' \in {lock, None}
    BY <1>5, LeaveTurns DEF TypeOK
  <2>2. QED  BY <1>1, <1>3, <1>4, <2>1, BillingAssumption DEF Bought, Locked, Replacing, Turns
<1>6. CASE Turns(r, "store") /\ UNCHANGED lock
  BY <1>1, <1>3, <1>4, <1>6 DEF Bought, Locked, Replacing, Turns
<1>7. QED  BY <1>5, <1>6, CreateTurns

\* Only the holder of the lock stores, and what was pending before is over.
LEMMA BoughtStore == ASSUME TypeOK, Bought, NEW r \in Requests, Store(r) PROVE Bought'
<1>1. UNCHANGED checkout /\ Leave(r) /\ request[r].pc = "store"
  BY DEF Store
<1>2. Turns(r, "idle") /\ lock' # r /\ lock' \in {lock, None}
  BY <1>1, LeaveTurns DEF TypeOK
<1>3. \A c : Live(c)' = Live(c)
  BY <1>1 DEF Live
<1>4. CASE lock = r
  <2>1. pending' = request[r].checkout /\ offered' = offered \cup {request[r].checkout}
    BY <1>4 DEF Store
  <2>2. pending = 0 \/ ~Live(pending)
    BY <1>1, <1>4 DEF Bought, Replacing
  <2>3. \A c \in offered : ~Live(c)
    BY <2>2, CheckoutElements DEF Bought, OneLive, TypeOK, OffersOK
  <2>4. OneLive'
    BY <1>3, <2>1, <2>3 DEF OneLive
  <2>5. lock' \notin Requests
    BY <1>2, <1>4, BillingAssumption
  <2>6. QED  BY <2>4, <2>5 DEF Bought, Locked, Replacing
<1>5. CASE lock # r
  <2>1. UNCHANGED <<pending, offered>>
    BY <1>5 DEF Store
  <2>2. QED  BY <1>1, <1>2, <2>1, BoughtTurns
<1>6. QED  BY <1>4, <1>5

LEMMA BoughtProvider == ASSUME TypeOK, Bought, NEW c \in DOMAIN checkout, Provider(c) PROVE Bought'
<1>1. UNCHANGED <<pending, lock, request, offered>>
  BY DEF Provider, Pay, Close, Succeed, Index, Change
<1>2. \A d \in DOMAIN checkout : ~Live(d) => ~Live(d)'
  BY ProviderChanges
<1>3. QED  BY <1>1, <1>2 DEF Bought, Locked, OneLive, Replacing, TypeOK, OffersOK

LEMMA BoughtRest ==
    ASSUME Bought, UNCHANGED <<checkout, pending, lock, request, offered>>
    PROVE  Bought'
BY DEF Bought, Locked, OneLive, Replacing, Live

\* Of the checkouts a browser can reach at most one can still be paid, or was and its
\* subscription goes on: no lost answer, rolled back transaction, concurrent request, late event
\* or late list makes an account buy twice.
THEOREM BuysOnce == Spec => []NoDoublePurchase
<1>1. Init => TypeOK /\ Bought
  <2>1. Init => Bought
    BY BillingAssumption DEF Init, Bought, Locked, OneLive, Replacing
  <2>2. QED  BY <2>1, InitType
<1>2. TypeOK /\ Bought /\ [Next]_billing => Bought'
  <2>1. TypeOK /\ Bought /\ Next => Bought'
    <3>1. (\E e \in sent : Deliver(e)) \/ Link \/ Uninstall => UNCHANGED <<checkout, pending, lock, request, offered>>
      BY DEF Deliver, Link, Uninstall
    <3>2. QED
      BY <3>1, Steps3, BoughtRequest, BoughtGet, BoughtCreate, BoughtStore, BoughtProvider, BoughtRest
  <2>2. TypeOK /\ Bought /\ UNCHANGED billing => Bought'
    BY BoughtRest DEF billing
  <2>3. QED  BY <2>1, <2>2
<1>3. TypeOK /\ Bought => NoDoublePurchase
  <2>1. ASSUME TypeOK, Bought PROVE NoDoublePurchase
    <3> DEFINE live == {c \in offered : checkout[c].status # "closed" /\ ~Terminated(checkout[c].subscription)}
    <3>1. live \subseteq {pending}
      BY <2>1 DEF Bought, OneLive, Live
    <3>2. IsFiniteSet({pending}) /\ Cardinality({pending}) = 1
      BY FS_Singleton
    <3>3. IsFiniteSet(live) /\ Cardinality(live) <= Cardinality({pending})
      BY <3>1, <3>2, FS_Subset
    <3>4. QED  BY <3>2, <3>3 DEF NoDoublePurchase
  <2>2. QED  BY <2>1
<1>4. QED  BY <1>1, <1>2, <1>3, TypeCorrect, PTL DEF Spec

-------------------------------------------------------------------------------
(* Access *)

\* The best plan is the plan of a subscription that entitles, and no such plan is better.
LEMMA BestOfAll ==
    ASSUME Held
    PROVE  /\ \A s \in Ids : Entitling(rows[s].status) => Best(rows) \in {rows[s].plan, "TEAM"}
           /\ Best(rows) # "FREE" => \E s \in Ids : Entitling(rows[s].status) /\ rows[s].plan = Best(rows)
<1> DEFINE held == {rows[s].plan : s \in {t \in Ids : Entitling(rows[t].status)}}
<1>1. Best(rows) = IF "TEAM" \in held THEN "TEAM" ELSE IF "INDIE" \in held THEN "INDIE" ELSE "FREE"
  BY DEF Best
<1>2. ASSUME NEW s \in Ids, Entitling(rows[s].status) PROVE Best(rows) \in {rows[s].plan, "TEAM"}
  <2>1. rows[s].plan \in held
    BY <1>2
  <2>2. rows[s].plan \in {"INDIE", "TEAM"}
    BY <1>2 DEF Held, Newest, Plans
  <2>3. QED  BY <1>1, <2>1, <2>2
<1>3. ASSUME Best(rows) # "FREE"
      PROVE  \E s \in Ids : Entitling(rows[s].status) /\ rows[s].plan = Best(rows)
  <2>1. Best(rows) \in held
    BY <1>1, <1>3
  <2>2. QED  BY <2>1
<1>4. QED  BY <1>2, <1>3

LEMMA HeldRest == ASSUME Held, UNCHANGED <<applied, rows, install>> PROVE Held'
BY DEF Held, Shown, Newest, Best

LEMMA HeldLinks == ASSUME TypeOK, Held, Link \/ Uninstall PROVE Held'
<1>1. UNCHANGED <<applied, rows>>
  BY DEF Link, Uninstall
<1>2. \A s \in Ids : Newest(s)'
  BY <1>1 DEF Held, Newest
<1>3. Best(rows)' = Best(rows)
  BY <1>1 DEF Best
<1>4. Shown'
  BY <1>3 DEF Shown, Link, Uninstall
<1>5. QED  BY <1>2, <1>4 DEF Held

\* An event that is newer than the row takes its place; any other leaves a row that is newer.
LEMMA DeliverNewest ==
    ASSUME TypeOK, Held, NEW e \in sent, Deliver(e), NEW s \in Ids
    PROVE  Newest(s)'
<1> DEFINE its == {f \in applied : f.of = s}
           now == {f \in applied' : f.of = s}
<1>1. applied' = applied \cup {e} /\ e \in Events /\ applied \subseteq Events
  BY DEF Deliver, TypeOK, EventsOK
<1>2. \A f \in its \cup {e} : f.at \in Nat \ {0}
  BY <1>1 DEF Events
<1>3. rows[s].at \in Nat
  BY DEF TypeOK, AccessOK, Rows
<1>4. /\ its = {} => rows[s] = NoRow
      /\ its # {} => \E f \in its : rows[s].status = f.status /\ rows[s].at = f.at /\ \A g \in its : g.at <= f.at
      /\ Entitling(rows[s].status) => /\ rows[s].plan \in Plans
                                      /\ \A f \in its : f.at = rows[s].at => f.status # "canceled"
  BY DEF Held, Newest
<1>5. \A f \in its : f.at <= rows[s].at
  BY <1>4
<1>6. SUFFICES /\ now = {} => rows'[s] = NoRow
               /\ now # {} => \E f \in now : /\ rows'[s].status = f.status /\ rows'[s].at = f.at
                                             /\ \A g \in now : g.at <= f.at
               /\ Entitling(rows'[s].status) => /\ rows'[s].plan \in Plans
                                                /\ \A f \in now : f.at = rows'[s].at => f.status # "canceled"
  BY DEF Newest, Entitling, NoRow, Plans
<1>7. CASE e.of # s
  <2>1. now = its
    BY <1>1, <1>7
  <2>2. rows'[s] = rows[s]
    BY <1>7 DEF Deliver, TypeOK, AccessOK
  <2>3. QED  BY <1>4, <2>1, <2>2
<1>8. CASE e.of = s /\ Newer(rows[s], e)
  <2>1. PICK row : row = [status |-> e.status, plan |-> IF Entitling(e.status) THEN e.plan ELSE "FREE", at |-> e.at]
    OBVIOUS
  <2>2. rows' = [rows EXCEPT ![s] = row]
    BY <1>8, <2>1 DEF Deliver
  <2>3. rows'[s] = row
    BY <2>2 DEF TypeOK, AccessOK
  <2>4. row.status = e.status /\ row.at = e.at /\ (Entitling(e.status) => row.plan = e.plan)
    BY <2>1
  <2>5. now = its \cup {e}
    BY <1>1, <1>8
  <2>6. e.at >= rows[s].at
    BY <1>2, <1>3, <1>8 DEF Newer
  <2>7. \A g \in now : g.at <= e.at
    BY <1>2, <1>3, <1>5, <2>5, <2>6
  <2>8. ASSUME Entitling(e.status), NEW f \in now, f.at = e.at PROVE f.status # "canceled"
    <3>1. e.at > rows[s].at
      BY <1>8, <2>8 DEF Newer, Entitling
    <3>2. f \notin its
      BY <1>2, <1>3, <1>5, <2>8, <3>1
    <3>3. f = e
      BY <2>5, <2>8, <3>2
    <3>4. QED  BY <2>8, <3>3 DEF Entitling
  <2>9. e.plan \in Plans
    BY <1>1 DEF Events
  <2>10. QED  BY <2>3, <2>4, <2>5, <2>7, <2>8, <2>9
<1>9. CASE e.of = s /\ ~Newer(rows[s], e)
  <2>1. rows' = rows
    BY <1>9 DEF Deliver
  <2>2. now = its \cup {e}
    BY <1>1, <1>9
  <2>3. e.at <= rows[s].at /\ (e.at = rows[s].at /\ Entitling(rows[s].status) => e.status # "canceled")
    BY <1>2, <1>3, <1>9 DEF Newer
  <2>4. its # {}
    <3>1. NoRow.at = 0
      BY DEF NoRow
    <3>2. QED  BY <1>2, <1>4, <2>3, <3>1
  <2>5. PICK f \in its : rows[s].status = f.status /\ rows[s].at = f.at
    BY <1>4, <2>4
  <2>6. \A g \in now : g.at <= f.at
    BY <1>5, <2>2, <2>3, <2>5
  <2>7. Entitling(rows[s].status) => \A g \in now : g.at = rows[s].at => g.status # "canceled"
    BY <1>4, <2>2, <2>3
  <2>8. QED  BY <1>4, <2>1, <2>2, <2>5, <2>6, <2>7
<1>10. QED  BY <1>7, <1>8, <1>9

LEMMA HeldDeliver == ASSUME TypeOK, Held, NEW e \in sent, Deliver(e) PROVE Held'
<1>1. \A s \in Ids : Newest(s)'
  BY DeliverNewest
<1>2. CASE UNCHANGED <<rows, install>>
  <2>1. Best(rows)' = Best(rows)
    BY <1>2 DEF Best
  <2>2. QED  BY <1>1, <1>2, <2>1 DEF Held, Shown
<1>3. CASE install' = [install EXCEPT !.plan = IF install.linked THEN Best(rows') ELSE @]
  <2>1. Best(rows)' = Best(rows')
    BY DEF Best
  <2>2. install'.linked = install.linked /\ install'.plan = IF install.linked THEN Best(rows') ELSE install.plan
    BY <1>3 DEF TypeOK, AccessOK, Shops
  <2>3. QED  BY <1>1, <2>1, <2>2 DEF Held, Shown
<1>4. QED  BY <1>2, <1>3 DEF Deliver

\* Whatever the order and the repetition of the events, a subscription's row is that of the
\* newest one processed, a revocation among several of that time; and the installation shows
\* the best plan held, whether it was linked before or after the purchase.
THEOREM AccessFollows == Spec => []AccessMatchesEvents
<1>1. Init => Held
  BY DEF Init, Held, Shown, Newest, NoRow, Entitling
<1>2. TypeOK /\ Held /\ [Next]_billing => Held'
  <2>1. TypeOK /\ Held /\ Next => Held'
    <3>1. ASSUME NEW r \in Requests,
                 \/ \E plan \in Plans : Click(r, plan)
                 \/ Begin(r) \/ List(r) \/ ReadPending(r) \/ TimeOut(r) \/ Fail(r)
                 \/ GetCheckout(r) \/ CreateCheckout(r) \/ Store(r)
          PROVE  UNCHANGED <<applied, rows, install>>
      BY <3>1 DEF Click, Begin, List, ReadPending, TimeOut, Fail, GetCheckout, CreateCheckout, Store
    <3>2. ASSUME NEW c \in DOMAIN checkout, Provider(c) PROVE UNCHANGED <<applied, rows, install>>
      BY <3>2 DEF Provider, Pay, Close, Succeed, Index, Change
    <3>3. QED  BY <3>1, <3>2, Steps3, HeldRest, HeldDeliver, HeldLinks
  <2>2. TypeOK /\ Held /\ UNCHANGED billing => Held'
    BY HeldRest DEF billing
  <2>3. QED  BY <2>1, <2>2
<1>3. TypeOK /\ Held => AccessMatchesEvents
  <2>1. SUFFICES ASSUME TypeOK, Held PROVE AccessMatchesEvents
    OBVIOUS
  <2>2. ASSUME NEW s \in Ids
        PROVE  LET its    == {e \in applied : e.of = s}
                   newest == {e \in its : \A f \in its : f.at <= e.at}
               IN its # {} => /\ \E e \in newest : rows[s].status = e.status /\ rows[s].at = e.at
                              /\ Entitling(rows[s].status) => \A e \in newest : e.status # "canceled"
    <3> DEFINE its    == {e \in applied : e.of = s}
               newest == {e \in its : \A f \in its : f.at <= e.at}
    <3>1. \A e \in its : e.at \in Nat
      BY <2>1 DEF TypeOK, EventsOK, Events
    <3>2. ASSUME its # {}
          PROVE  /\ \E e \in newest : rows[s].status = e.status /\ rows[s].at = e.at
                 /\ Entitling(rows[s].status) => \A e \in newest : e.status # "canceled"
      <4>1. PICK e \in its : rows[s].status = e.status /\ rows[s].at = e.at /\ \A f \in its : f.at <= e.at
        BY <2>1, <3>2 DEF Held, Newest
      <4>2. e \in newest
        BY <4>1
      <4>3. \A f \in newest : f.at = rows[s].at
        BY <3>1, <4>1
      <4>4. Entitling(rows[s].status) => \A f \in its : f.at = rows[s].at => f.status # "canceled"
        BY <2>1 DEF Held, Newest
      <4>5. QED  BY <4>1, <4>2, <4>3, <4>4
    <3>3. QED  BY <3>2
  <2>3. install.plan = IF install.linked THEN Best(rows) ELSE "FREE"
    BY <2>1 DEF Held, Shown
  <2>4. install.linked => \A s \in Ids : Entitling(rows[s].status) => install.plan \in {rows[s].plan, "TEAM"}
    BY <2>1, <2>3, BestOfAll
  <2>5. install.plan # "FREE" => \E s \in Ids : Entitling(rows[s].status) /\ rows[s].plan = install.plan
    BY <2>1, <2>3, BestOfAll
  <2>6. QED  BY <2>2, <2>4, <2>5 DEF AccessMatchesEvents
<1>4. QED  BY <1>1, <1>2, <1>3, TypeCorrect, PTL DEF Spec

=============================================================================
