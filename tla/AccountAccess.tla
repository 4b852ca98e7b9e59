------------------------------ MODULE AccountAccess ------------------------------
(***************************************************************************)
(* Signing in and out.  A browser signs in through GitHub and holds a signed *)
(* token; what it asks for, and every update pushed to one of its sockets,   *)
(* verifies the token first: the signature by the clock, the revocation in   *)
(* the database.  Signing out stores the token's hash until it expires.      *)
(***************************************************************************)
EXTENDS Naturals, FiniteSets

CONSTANTS None, Browsers, Sockets, Requests,
          MaxLogins,      \* bound: tokens ever issued, and login states ever made
          MaxFaults

VARIABLES
    now,       \* has the clock passed the end of the first token
    issued,    \* how many tokens, and login states, have been made
    cookie,    \* of a browser: the login state, the wish to install, the token
    revoked,   \* tokens with a row in revoked_sessions
    leaving,   \* tokens being signed out: the row is stored, sockets still to be closed
    out,       \* tokens whose sign-out has been answered (ghost)
    socket,    \* of a socket: closed, signed, verified, open, and its token
    use,       \* of a request or an update to a socket: its step, its token, and
               \* whether it began after the sign-out (ghost)
    faults

access == <<now, issued, cookie, revoked, leaving, out, socket, use, faults>>

Tokens == 1..MaxLogins
Uses   == Requests \cup Sockets
NoUse  == [pc |-> "idle", token |-> 0, late |-> FALSE]
Closed == [pc |-> "closed", token |-> 0]

Init == /\ now = FALSE /\ issued = [token |-> 0, state |-> 0]
        /\ cookie = [b \in Browsers |-> [state |-> 0, install |-> FALSE, token |-> 0]]
        /\ revoked = {} /\ leaving = {} /\ out = {}
        /\ socket = [s \in Sockets |-> Closed]
        /\ use = [u \in Uses |-> NoUse]
        /\ faults = 0

\* The first token ends first: it stands for a session that outlives its sign-out's row.
Expired(t) == now /\ t = 1

----------------------------------------------------------------------------
(* Signing in *)

\* Asking to install the App without a session remembers the wish and signs in first.
AskInstall(b) ==
    /\ cookie[b].token = 0
    /\ cookie' = [cookie EXCEPT ![b].install = TRUE]
    /\ UNCHANGED <<now, issued, revoked, leaving, out, socket, use, faults>>

\* A second login replaces the state of the first: only its own callback will match.
StartLogin(b) ==
    /\ issued.state < MaxLogins
    /\ issued' = [issued EXCEPT !.state = @ + 1]
    /\ cookie' = [cookie EXCEPT ![b].state = issued.state + 1]
    /\ UNCHANGED <<now, revoked, leaving, out, socket, use, faults>>

\* GitHub's answer to state s: both cookies are spent, whatever comes of it.
Callback(b, s) ==
    /\ cookie[b].state # 0
    /\ \/ /\ s = cookie[b].state /\ issued.token < MaxLogins
          /\ issued' = [issued EXCEPT !.token = @ + 1]
          /\ cookie' = [cookie EXCEPT ![b] = [state |-> 0, install |-> FALSE, token |-> issued.token + 1]]
       \/ /\ UNCHANGED issued           \* another state, or GitHub refuses the code
          /\ cookie' = [cookie EXCEPT ![b].state = 0, ![b].install = FALSE]
    /\ UNCHANGED <<now, revoked, leaving, out, socket, use, faults>>

----------------------------------------------------------------------------
(* Signing out *)

\* The row is written, then the rows of expired tokens are deleted; an expired token needs none.
Revoke(b) ==
    LET t == cookie[b].token IN
    /\ t # 0
    /\ revoked' = IF Expired(t) THEN revoked ELSE {r \in revoked \cup {t} : ~Expired(r)}
    /\ leaving' = leaving \cup {t}
    /\ UNCHANGED <<now, issued, cookie, out, socket, use, faults>>

\* The sockets that have joined the session's room are closed, and the cookie is cleared.
SignedOut(t) ==
    /\ t \in leaving
    /\ socket' = [s \in Sockets |-> IF socket[s] = [pc |-> "open", token |-> t] THEN Closed ELSE socket[s]]
    /\ cookie' = [b \in Browsers |-> IF cookie[b].token = t THEN [cookie[b] EXCEPT !.token = 0] ELSE cookie[b]]
    /\ leaving' = leaving \ {t} /\ out' = out \cup {t}
    /\ UNCHANGED <<now, issued, revoked, use, faults>>

\* The database rejects after the row was stored, or the process ends: 503, still signed in.
SignOutFails(t) ==
    /\ t \in leaving /\ faults < MaxFaults
    /\ leaving' = leaving \ {t} /\ faults' = faults + 1
    /\ UNCHANGED <<now, issued, cookie, revoked, out, socket, use>>

Expire ==
    /\ ~now /\ now' = TRUE
    /\ socket' = [s \in Sockets |-> IF socket[s] = [pc |-> "open", token |-> 1] THEN Closed ELSE socket[s]]
    /\ UNCHANGED <<issued, cookie, revoked, leaving, out, use, faults>>

----------------------------------------------------------------------------
(* Sockets and requests *)

Handshake(s, t) ==
    /\ socket[s] = Closed /\ t \in 1..issued.token
    /\ ~Expired(t)
    /\ socket' = [socket EXCEPT ![s] = [pc |-> "signed", token |-> t]]
    /\ UNCHANGED <<now, issued, cookie, revoked, leaving, out, use, faults>>

Admit(s) ==
    /\ socket[s].pc = "signed"
    /\ socket' = [socket EXCEPT ![s] = IF @.token \in revoked THEN Closed ELSE [@ EXCEPT !.pc = "verified"]]
    /\ UNCHANGED <<now, issued, cookie, revoked, leaving, out, use, faults>>

\* The connection joins its rooms after the verification: a sign-out may come between.
Join(s) ==
    /\ socket[s].pc = "verified"
    /\ socket' = [socket EXCEPT ![s] = IF Expired(@.token) THEN Closed ELSE [@ EXCEPT !.pc = "open"]]
    /\ UNCHANGED <<now, issued, cookie, revoked, leaving, out, use, faults>>

Drop(s) ==
    /\ socket[s].pc # "closed"
    /\ socket' = [socket EXCEPT ![s] = Closed]
    /\ UNCHANGED <<now, issued, cookie, revoked, leaving, out, use, faults>>

\* A request arrives with a token, or a worker's progress reaches an open socket.
Begin(u, t) ==
    /\ use[u] = NoUse /\ t \in 1..issued.token
    /\ u \in Sockets => socket[u] = [pc |-> "open", token |-> t]
    /\ use' = [use EXCEPT ![u] = [pc |-> "verify", token |-> t, late |-> t \in out]]
    /\ UNCHANGED <<now, issued, cookie, revoked, leaving, out, socket, faults>>

\* A refused request is answered 401 or 503, a refused socket is disconnected.
Refused(u) == /\ use' = [use EXCEPT ![u] = NoUse]
              /\ socket' = [s \in Sockets |-> IF s = u THEN Closed ELSE socket[s]]

\* A plausible bug: the token of a socket proved itself at the handshake.
CheckSignatureOnce(u) ==
    /\ use[u].pc = "verify"
    /\ IF u \notin Sockets /\ Expired(use[u].token) THEN Refused(u)
       ELSE /\ use' = [use EXCEPT ![u].pc = IF u \in Sockets THEN "allowed" ELSE "row"]
            /\ UNCHANGED socket
    /\ UNCHANGED <<now, issued, cookie, revoked, leaving, out, faults>>

\* verifySession: the signature and its end by the clock, and then the row.
CheckSignature(u) ==
    /\ use[u].pc = "verify"
    /\ IF Expired(use[u].token) THEN Refused(u)
       ELSE use' = [use EXCEPT ![u].pc = "row"] /\ UNCHANGED socket
    /\ UNCHANGED <<now, issued, cookie, revoked, leaving, out, faults>>

CheckRow(u) ==
    /\ use[u].pc = "row"
    /\ \/ /\ use[u].token \notin revoked
          /\ use' = [use EXCEPT ![u].pc = "allowed"]
          /\ UNCHANGED <<socket, faults>>
       \/ /\ use[u].token \in revoked
          /\ Refused(u) /\ UNCHANGED faults
       \/ /\ faults < MaxFaults /\ faults' = faults + 1
          /\ Refused(u)
    /\ UNCHANGED <<now, issued, cookie, revoked, leaving, out>>

Finish(u) ==
    /\ use[u].pc = "allowed"
    /\ use' = [use EXCEPT ![u] = NoUse]
    /\ UNCHANGED <<now, issued, cookie, revoked, leaving, out, socket, faults>>

----------------------------------------------------------------------------

Next == \/ \E b \in Browsers : AskInstall(b) \/ StartLogin(b) \/ Revoke(b) \/ \E s \in Tokens : Callback(b, s)
        \/ \E t \in Tokens : SignedOut(t) \/ SignOutFails(t)
        \/ Expire
        \/ \E s \in Sockets : Admit(s) \/ Join(s) \/ Drop(s) \/ \E t \in Tokens : Handshake(s, t)
        \/ \E u \in Uses : CheckSignature(u) \/ CheckRow(u) \/ Finish(u) \/ \E t \in Tokens : Begin(u, t)

Spec == Init /\ [][Next]_access

----------------------------------------------------------------------------

\* Once a sign-out has been answered, nothing that begins later is allowed with that token: no
\* request, and no update to a socket, be it one whose handshake overtook the sign-out and
\* that nobody closed. Only when the token ends between the check of its signature and the
\* read of its row, and the row is deleted in that moment, is the last use let through.
SignedOutStaysOut ==
    \A u \in Uses : use[u].pc = "allowed" /\ use[u].late => Expired(use[u].token)

=============================================================================
