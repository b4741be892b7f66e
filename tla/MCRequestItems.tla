--------------------------- MODULE MCRequestItems ---------------------------
(* TLC instances of RequestItems. *)
EXTENDS RequestItems, TLC

CONSTANTS a1, a2, b1, b2, d1, d2

OneBatch   == [i \in Item |-> b1]
OwnDraft   == [i \in Item |-> IF i = 1 THEN d1 ELSE d2]

Processes == Permutations(App)
=============================================================================
