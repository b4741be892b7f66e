--------------------------- MODULE MCSandboxPods ---------------------------
(* TLC instances of SandboxPods. *)
EXTENDS SandboxPods, TLC

CONSTANTS p1, p2, p3, none, small, large, o1, o2

BothGPUs   == <<large, small>>
OnlyStops  == (o1 :> Kinds) @@ (o2 :> {"stop"})
OneOperator == (o1 :> Kinds)

(* All contents of the volume but for the names of the pods. *)
Code(r)  == (CASE r.state = "none" -> 0 [] r.state = "EXITED" -> 1 [] OTHER -> 3) + IF r.gpu = large THEN 0 ELSE 1
AnyPods  == {v \in [Pod -> [state: {"none", "EXITED", "RUNNING"}, gpu: {small, large}]] :
               /\ Code(v[p1]) <= Code(v[p2]) /\ Code(v[p2]) <= Code(v[p3])
               /\ \A p \in Pod : v[p].state = "none" => v[p].gpu = large
               /\ v[p2].state # "RUNNING"}
=============================================================================
