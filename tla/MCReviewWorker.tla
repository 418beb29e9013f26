---------------------------- MODULE MCReviewWorker --------------------------
(* Small instances of ReviewWorker for TLC. *)
EXTENDS ReviewWorker

CONSTANTS w1, w2, j1, j2, d1, d2

OneEach == [j \in Jobs |-> IF j = j1 THEN d1 ELSE d2]
=============================================================================
