--------------------------- MODULE MCTaskDispatch ---------------------------
(* TLC instances of TaskDispatch. *)
EXTENDS TaskDispatch, TLC

CONSTANTS a, b, t1, t2, t3, u, v

NoLegacy   == [t \in Task |-> NoJob]
OneLegacy  == [t \in Task |-> IF t = t1 THEN 1 ELSE NoJob]
SameOwner  == [t \in Task |-> u]
EitherProcess == Permutations(App)
TwoOwners  == [t \in Task |-> IF t = t1 THEN u ELSE v]
=============================================================================
