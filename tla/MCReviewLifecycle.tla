--------------------------- MODULE MCReviewLifecycle ---------------------------
(***************************************************************************)
(* Small instances of ReviewLifecycle for TLC.                              *)
(***************************************************************************)
EXTENDS ReviewLifecycle, TLC

CONSTANTS j1, j2, w1, w2, s1

Alike == Permutations(Workers)
===============================================================================
