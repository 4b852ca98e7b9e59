---------------------------------- MODULE Billing ----------------------------------
(***************************************************************************)
(* The paid plan of one account.  Checkouts and subscriptions live at the    *)
(* provider (Polar), which reports changes of subscriptions in events that   *)
(* may arrive late, twice, in any order or never.  A request for a checkout  *)
(* holds the lock of the account's row over its calls to the provider.       *)
(***************************************************************************)
EXTENDS Naturals, Sequences, FiniteSets

CONSTANTS None, Requests,
          MaxCheckouts, MaxClock, MaxFaults

VARIABLES
    checkout,   \* at the provider, in the order they were made: product, status, subscription
    clock,      \* the provider's time: its events are stamped with it
    sent,       \* the events
    applied,    \* the events a webhook has processed (ghost)
    rows,       \* the local row of the subscription of each checkout
    install,    \* the account's App installation: is it linked, and its plan
    pending,    \* the account's row in billing_checkouts, 0 when there is none
    lock,       \* which request holds the lock of the account's row
    request,    \* of a request for a checkout: its next step, its product, its checkout
    offered,    \* checkouts whose URL a browser has (ghost)
    faults

ASSUME BillingAssumption == None \notin Requests /\ MaxCheckouts \in Nat

billing == <<checkout, clock, sent, applied, rows, install, pending, lock, request, offered, faults>>

Plans      == {"INDIE", "TEAM"}
Ids        == 1..MaxCheckouts
Idle       == [pc |-> "idle", product |-> None, checkout |-> 0]
NoRow      == [status |-> "none", plan |-> "FREE", at |-> 0]

Init == /\ checkout = <<>> /\ clock = 1 /\ sent = {} /\ applied = {}
        /\ rows = [s \in Ids |-> NoRow]
        /\ install = [linked |-> FALSE, plan |-> "FREE"]
        /\ pending = 0 /\ lock = None /\ offered = {} /\ faults = 0
        /\ request = [r \in Requests |-> Idle]

Entitling(status)  == status = "active"              \* and past_due, trialing
Terminated(status) == status = "canceled"            \* and unpaid, incomplete_expired

\* getSubscription: the highest paid tier among the subscriptions that entitle.
Best(rs) ==
    LET held == {rs[s].plan : s \in {t \in Ids : Entitling(rs[t].status)}}
    IN IF "TEAM" \in held THEN "TEAM" ELSE IF "INDIE" \in held THEN "INDIE" ELSE "FREE"

----------------------------------------------------------------------------
(* A request for a checkout: UpgradeButton, createCheckout *)

Go(r, pc) == request' = [request EXCEPT ![r].pc = pc]
\* The transaction ends: its lock is free, if it had not timed out before.
Leave(r)  == /\ request' = [request EXCEPT ![r] = Idle]
             /\ lock' = IF lock = r THEN None ELSE lock

Click(r, plan) ==
    /\ request[r] = Idle
    /\ request' = [request EXCEPT ![r] = [pc |-> "begin", product |-> plan, checkout |-> 0]]
    /\ UNCHANGED <<checkout, clock, sent, applied, rows, install, pending, lock, offered, faults>>

\* The lock of the account's row, and what is known here.
Begin(r) ==
    /\ request[r].pc = "begin" /\ lock = None
    /\ IF Best(rows) # "FREE" THEN Leave(r) ELSE lock' = r /\ Go(r, "list")
    /\ UNCHANGED <<checkout, clock, sent, applied, rows, install, pending, offered, faults>>

\* The provider's list may not know a new subscription yet.
Listable == {c \in DOMAIN checkout : checkout[c].subscription \in {"incomplete", "active"}}

List(r) ==
    /\ request[r].pc = "list"
    /\ \/ Listable # {} /\ Leave(r)
       \/ /\ \A c \in Listable : ~checkout[c].indexed
          /\ Go(r, "pending") /\ UNCHANGED lock
    /\ UNCHANGED <<checkout, clock, sent, applied, rows, install, pending, offered, faults>>

ReadPending(r) ==
    /\ request[r].pc = "pending"
    /\ IF lock # r THEN Leave(r)
       ELSE Go(r, IF pending = 0 THEN "create" ELSE "get") /\ UNCHANGED lock
    /\ UNCHANGED <<checkout, clock, sent, applied, rows, install, pending, offered, faults>>

\* May another checkout be made beside c?  A plausible bug: a payment that succeeded is done with.
ReplaceableAnyhow(c) == c.status \in {"closed", "succeeded"}
Replaceable(c) == \/ c.status = "closed"
                  \/ c.status = "succeeded" /\ Terminated(c.subscription)

\* The answer for a checkout of the same plan that is still open is its URL.
GetCheckout(r) ==
    /\ request[r].pc = "get"
    /\ LET c == checkout[pending] IN
       IF Replaceable(c)
       THEN Go(r, "create") /\ UNCHANGED <<lock, offered>>
       ELSE /\ offered' = IF c.status = "open" /\ c.product = request[r].product /\ lock = r
                          THEN offered \cup {pending} ELSE offered
            /\ Leave(r)
    /\ UNCHANGED <<checkout, clock, sent, applied, rows, install, pending, faults>>

\* A transaction that timed out rolls back, but its callback goes on to the provider.
CreateCheckout(r) ==
    /\ request[r].pc = "create" /\ Len(checkout) < MaxCheckouts
    /\ checkout' = Append(checkout, [product |-> request[r].product, status |-> "open",
                                     subscription |-> "none", indexed |-> FALSE])
    /\ \/ /\ request' = [request EXCEPT ![r].pc = "store", ![r].checkout = Len(checkout) + 1]
          /\ UNCHANGED <<lock, faults>>
       \/ /\ faults < MaxFaults /\ faults' = faults + 1      \* no answer
          /\ Leave(r)
    /\ UNCHANGED <<clock, sent, applied, rows, install, pending, offered>>

Store(r) ==
    /\ request[r].pc = "store"
    /\ IF lock = r
       THEN pending' = request[r].checkout /\ offered' = offered \cup {request[r].checkout}
       ELSE UNCHANGED <<pending, offered>>
    /\ Leave(r)
    /\ UNCHANGED <<checkout, clock, sent, applied, rows, install, faults>>

TimeOut(r) ==
    /\ lock = r /\ faults < MaxFaults
    /\ lock' = None /\ faults' = faults + 1
    /\ UNCHANGED <<checkout, clock, sent, applied, rows, install, pending, request, offered>>

\* A call rejects, or the process ends.
Fail(r) ==
    /\ request[r] # Idle /\ faults < MaxFaults
    /\ Leave(r) /\ faults' = faults + 1
    /\ UNCHANGED <<checkout, clock, sent, applied, rows, install, pending, offered>>

----------------------------------------------------------------------------
(* The provider *)

Pay(c) ==
    /\ c \in offered /\ checkout[c].status = "open"
    /\ checkout' = [checkout EXCEPT ![c].status = "confirmed"]
    /\ UNCHANGED <<clock, sent, applied, rows, install, pending, lock, request, offered, faults>>

Close(c) ==                                          \* expired, or the payment failed
    /\ checkout[c].status \in {"open", "confirmed"}
    /\ checkout' = [checkout EXCEPT ![c].status = "closed"]
    /\ UNCHANGED <<clock, sent, applied, rows, install, pending, lock, request, offered, faults>>

\* The subscription may be known a while after the payment.
Succeed(c) ==
    /\ checkout[c].status = "confirmed"
    /\ checkout' = [checkout EXCEPT ![c].status = "succeeded"]
    /\ UNCHANGED <<clock, sent, applied, rows, install, pending, lock, request, offered, faults>>

Index(c) ==
    /\ c \in Listable /\ ~checkout[c].indexed
    /\ checkout' = [checkout EXCEPT ![c].indexed = TRUE]
    /\ UNCHANGED <<clock, sent, applied, rows, install, pending, lock, request, offered, faults>>

After(status) == CASE status = "none"       -> {"incomplete", "active"}
                   [] status = "incomplete" -> {"active", "canceled"}
                   [] status = "active"     -> {"paused", "canceled"}
                   [] status = "paused"     -> {"active", "canceled"}
                   [] OTHER                 -> {}

\* Two changes may carry the same time.
Change(c, status, plan, at) ==
    /\ checkout[c].status = "succeeded" /\ at \in {clock, clock + 1} /\ at <= MaxClock
    /\ status \in After(checkout[c].subscription)
    /\ plan = checkout[c].product \/ checkout[c].subscription = "paused"     \* the plan is changed
    /\ checkout' = [checkout EXCEPT ![c].subscription = status, ![c].product = plan]
    /\ sent' = sent \cup {[of |-> c, status |-> status, plan |-> plan, at |-> at]}
    /\ clock' = at
    /\ UNCHANGED <<applied, rows, install, pending, lock, request, offered, faults>>

----------------------------------------------------------------------------
(* The webhook: syncSubscription, syncCancellation *)

\* A plausible bug: the later of two events of one time wins.
NewerOrEqual(row, e) == e.at >= row.at
\* At equal times a revocation wins, whichever comes first.
Newer(row, e) == \/ e.at > row.at
                 \/ e.at = row.at /\ e.status = "canceled" /\ Entitling(row.status)

Deliver(e) ==
    /\ e \in sent /\ lock = None
    /\ LET row   == [status |-> e.status, plan |-> IF Entitling(e.status) THEN e.plan ELSE "FREE", at |-> e.at]
           after == [rows EXCEPT ![e.of] = row]
       IN IF Newer(rows[e.of], e)
          THEN rows' = after /\ install' = [install EXCEPT !.plan = IF install.linked THEN Best(after) ELSE @]
          ELSE UNCHANGED <<rows, install>>
    /\ applied' = applied \cup {e}
    /\ UNCHANGED <<checkout, clock, sent, pending, lock, request, offered, faults>>

\* completeGitHubAppInstall: the plan of the account in the transaction that links.
Link ==
    /\ ~install.linked /\ lock = None
    /\ install' = [linked |-> TRUE, plan |-> Best(rows)]
    /\ UNCHANGED <<checkout, clock, sent, applied, rows, pending, lock, request, offered, faults>>

Uninstall ==
    /\ install.linked
    /\ install' = [linked |-> FALSE, plan |-> "FREE"]
    /\ UNCHANGED <<checkout, clock, sent, applied, rows, pending, lock, request, offered, faults>>

----------------------------------------------------------------------------

Next == \/ \E r \in Requests : \/ Begin(r) \/ List(r) \/ ReadPending(r) \/ GetCheckout(r) \/ CreateCheckout(r)
                               \/ Store(r) \/ TimeOut(r) \/ Fail(r) \/ \E plan \in Plans : Click(r, plan)
        \/ \E c \in DOMAIN checkout : \/ Pay(c) \/ Close(c) \/ Succeed(c) \/ Index(c)
                                      \/ \E status \in {"incomplete", "active", "paused", "canceled"}, plan \in Plans, at \in 1..MaxClock :
                                            Change(c, status, plan, at)
        \/ \E e \in sent : Deliver(e)
        \/ Link \/ Uninstall

Spec == Init /\ [][Next]_billing

----------------------------------------------------------------------------

\* Of the checkouts a browser can reach at most one can still be paid, or was and its
\* subscription goes on: no lost answer, rolled back transaction, concurrent request, late event
\* or late list makes an account buy twice.
NoDoublePurchase ==
    Cardinality({c \in offered : checkout[c].status # "closed" /\ ~Terminated(checkout[c].subscription)}) <= 1

\* Whatever the order and the repetition of the events, a subscription's row is that of the
\* newest one processed, a revocation among several of that time; and the installation shows
\* the best plan held, whether it was linked before or after the purchase.
AccessMatchesEvents ==
    /\ \A s \in Ids :
          LET its    == {e \in applied : e.of = s}
              newest == {e \in its : \A f \in its : f.at <= e.at}
          IN its # {} => /\ \E e \in newest : rows[s].status = e.status /\ rows[s].at = e.at
                         /\ Entitling(rows[s].status) => \A e \in newest : e.status # "canceled"
    /\ install.linked => \A s \in Ids : Entitling(rows[s].status) => install.plan \in {rows[s].plan, "TEAM"}
    /\ install.plan # "FREE" => \E s \in Ids : Entitling(rows[s].status) /\ rows[s].plan = install.plan

=============================================================================
