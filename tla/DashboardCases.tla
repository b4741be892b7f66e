--------------------------- MODULE DashboardCases ---------------------------
(***************************************************************************)
(* The questions that Dashboard is checked with: two tasks of every status *)
(* at the edges of the ranges and of the Korean and the UTC day, asked     *)
(* once; and, without tasks, a bill that is asked for again and again.     *)
(***************************************************************************)
EXTENDS Dashboard, TLC

Ran(made, status, deleted, context, cut, seconds) ==
    [made |-> made, changed |-> made, status |-> status, deleted |-> deleted,
     context |-> context, runpod |-> status # "dryRun", cut |-> cut, seconds |-> seconds]

\* Afternoon in Korea, its midnight, and the early morning, which is the day before in UTC.
Nows == {250, 255, 260}
Ages == {0, 1, 5, 9, 10, 19, 20, 30, 130, 170}
First(now) ==
    {Ran(now - age, "COMPLETED", FALSE, age % 2 = 0, "fiveSec", 1) : age \in Ages}
    \cup {Ran(now - 10, s, FALSE, TRUE, "tenSec", 3) : s \in {"FAILED", "IN_QUEUE", "DISPATCHING", "UNKNOWN", "dryRun"}}
Second(now) ==
    {Ran(now - age, "FAILED", FALSE, FALSE, "tenSec", seconds) : age \in {0, 1, 9, 19, 30}, seconds \in {0, 2}}
    \cup {Ran(now - 10, "FAILED", TRUE, FALSE, "tenSec", 1)}

World(now, tasks, bill, asks) == [now |-> now, tasks |-> tasks, bill |-> bill, limit |-> 1, cutoff |-> 10, asks |-> asks]
Worlds ==
    UNION {{World(now, <<a, b>>, (9 :> 20 @@ 10 :> 16), 1) : a \in First(now), b \in Second(now)} : now \in Nows}
    \cup {World(255, <<>>, bill, 3) : bill \in {(9 :> 20), (4 :> 5 @@ 10 :> 7)}}

Init == world \in Worlds /\ Start
Spec == Init /\ [][Next]_<<world, shown>>
=============================================================================
