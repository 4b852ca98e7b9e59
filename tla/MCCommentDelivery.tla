---------------------------- MODULE MCCommentDelivery ----------------------------
(***************************************************************************)
(* Small instances of CommentDelivery for TLC.                              *)
(***************************************************************************)
EXTENDS CommentDelivery, TLC

CONSTANTS i1, i2, u1, u2, k1

Alike == Permutations(Runs)
===============================================================================
