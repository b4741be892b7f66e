-------------------------- MODULE MCBatchPromotion --------------------------
(* TLC instances of BatchPromotion. *)
EXTENDS BatchPromotion

CONSTANTS a, b, b1, b2, d1, d2

OneBatch == [d \in Draft |-> b1]
OwnBatch == [d \in Draft |-> IF d = d1 THEN b1 ELSE b2]
=============================================================================
