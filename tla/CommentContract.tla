---------------------------- MODULE CommentContract ----------------------------
(***************************************************************************)
(* What delivery promises about one comment, whoever sends, checks or       *)
(* forgets it: GitHub accepts it at most once; the receipt says delivered   *)
(* only of an accepted comment, and refused only of one that has not been   *)
(* accepted and never will be.  In between the receipt may be unconfirmed.  *)
(***************************************************************************)
CONSTANT Comments

VARIABLES
    accepted,       \* [Comments -> BOOLEAN]: it is on GitHub
    receipt         \* [Comments -> Receipts]: what the database says of it

cvars == <<accepted, receipt>>

Receipts == {"open", "unconfirmed", "delivered", "refused"}

\* A finding without a proven location is never sent.
CInit == /\ accepted = [c \in Comments |-> FALSE]
         /\ receipt \in [Comments -> {"open", "refused"}]

\* GitHub takes the comment, once, while its receipt is still out.
Accept(c) == /\ ~accepted[c]
             /\ receipt[c] \in {"open", "unconfirmed"}
             /\ accepted' = [accepted EXCEPT ![c] = TRUE]
             /\ UNCHANGED receipt

\* A batch of comments gets a receipt: what was accepted may be confirmed, what
\* was not may be refused, and nothing settled is reconsidered.
Settle == /\ UNCHANGED accepted
          /\ receipt' \in [Comments -> Receipts]
          /\ \A c \in Comments :
                \/ receipt'[c] = receipt[c]
                \/ /\ receipt[c] \in {"open", "unconfirmed"}
                   /\ \/ receipt'[c] \in {"open", "unconfirmed"}
                      \/ receipt'[c] = "delivered" /\ accepted[c]
                      \/ receipt'[c] = "refused" /\ ~accepted[c]

CNext == Settle \/ \E c \in Comments : Accept(c)

Safety == CInit /\ [][CNext]_cvars
===============================================================================
