--------------------------- MODULE InstructionFile ---------------------------
(***************************************************************************)
(* The instructions that prompts are written by: one JSON file with a set  *)
(* of documents per workflow.  Whoever changes it reads it, changes it in  *)
(* memory, writes all of it under one temporary name and renames that; no  *)
(* lock orders them.  The first to find no file, or one of an older        *)
(* release, writes it the same way.  The process may die at any step.      *)
(***************************************************************************)
EXTENDS Naturals, FiniteSets

CONSTANTS Handler, Asked, MaxSaves, MaxDeaths   \* the requests under way at once, what they may ask; bounds on both events

VARIABLES
    disk,       \* the nodes that the file's name and the temporary one stand for, and what the nodes hold
    handler,    \* per request: what it does, the set it holds, the node it has open
    agreed,     \* what the finished changes add up to, one after the other
    count       \* changes begun, deaths, whether two requests ever overlapped

vars == <<disk, handler, agreed, count>>

Workflow == {"w1", "w2"}
Code     == {"a", "b"}
Role     == {"CORE", "GUIDE"}
Sets     == [Workflow -> [Code -> Role \cup {"none"}]]
Nodes    == 1..(Cardinality(Handler) + 2)
Content  == [state : {"nothing", "blank", "torn", "whole"}, set : Sets]

-----------------------------------------------------------------------------
(* The changes of a set.  A code is used once in a workflow, and the main  *)
(* document is the only one of its kind; only an empty workflow gets a copy. *)

Empty(s, w) == \A c \in Code : s[w][c] = "none"
Whole(s)    == [state |-> "whole", set |-> s]
Seed        == [w \in Workflow |-> [c \in Code |-> IF w = "w1" /\ c = "a" THEN "CORE" ELSE "none"]]

Saves   == [kind : {"save"}, w : Workflow, from : Code \cup {"none"}, code : Code, role : Role]
Deletes == [kind : {"delete"}, w : Workflow, code : Code]
Copies  == {[kind |-> "copy", from |-> "w1", w |-> "w2"], [kind |-> "copy", from |-> "w2", w |-> "w1"]}

TypeOK ==
    /\ disk \in [path : {0} \cup Nodes, tmp : {0} \cup Nodes, old : BOOLEAN, holds : [Nodes -> Content]]
    /\ DOMAIN handler = Handler
    /\ agreed \in Sets
    /\ Asked \subseteq Saves \cup Deletes \cup Copies

Changed(s, op) ==
    CASE op.kind = "save"   -> [s EXCEPT ![op.w] = [c \in Code |-> IF c = op.code THEN op.role
                                                                   ELSE IF c = op.from THEN "none" ELSE @[c]]]
      [] op.kind = "delete" -> [s EXCEPT ![op.w][op.code] = "none"]
      [] op.kind = "copy"   -> [s EXCEPT ![op.w] = s[op.from]]

OneCore(s, w) == Cardinality({c \in Code : s[w][c] = "CORE"}) <= 1
Accepted(s, op) ==
    /\ CASE op.kind = "save"   -> /\ op.from # "none" => s[op.w][op.from] # "none"
                                  /\ op.code = op.from \/ s[op.w][op.code] = "none"
         [] op.kind = "delete" -> s[op.w][op.code] # "none"
         [] op.kind = "copy"   -> ~Empty(s, op.from) /\ Empty(s, op.w)
    /\ op.kind # "delete" => OneCore(Changed(s, op), op.w)

-----------------------------------------------------------------------------
(* The requests.                                                           *)

Idle == [pc |-> "idle"]
In(h, pc)  == handler[h].pc = pc
Goes(h, r) == handler' = [handler EXCEPT ![h] = r]
Used       == {disk.path, disk.tmp} \cup {handler[h].node : h \in {g \in Handler : In(g, "write")}}
Free       == CHOOSE n \in Nodes : n \notin Used

(* A request that finds no file writes one and reads again; one that finds *)
(* the file of an older release rewrites it and goes on with what it has   *)
(* read; one that finds half a file fails.                                 *)
Begins(h) ==
    /\ In(h, "idle") /\ count.saves < MaxSaves
    /\ \E op \in Asked : Goes(h, [pc |-> "read", op |-> op])
    /\ count' = [count EXCEPT !.saves = @ + 1, !.overlapped = @ \/ \E g \in Handler : ~In(g, "idle")]
    /\ UNCHANGED <<disk, agreed>>

Reads(h) ==
    LET op    == handler[h].op
        found == disk.holds[disk.path]
    IN  /\ In(h, "read")
        /\ \/ disk.path = 0 /\ Goes(h, [pc |-> "open", op |-> op, set |-> Seed, then |-> "read"])
           \/ disk.path # 0 /\ found.state # "whole" /\ Goes(h, Idle)
           \/ disk.path # 0 /\ found.state = "whole" /\ disk.old /\ Goes(h, [pc |-> "open", op |-> op, set |-> found.set, then |-> "change"])
           \/ disk.path # 0 /\ found.state = "whole" /\ ~disk.old /\ Goes(h, [pc |-> "change", op |-> op, set |-> found.set])
        /\ UNCHANGED <<disk, agreed, count>>

Changes(h) ==
    LET r == handler[h]
    IN  /\ In(h, "change")
        /\ Goes(h, IF Accepted(r.set, r.op)
                   THEN [pc |-> "open", op |-> r.op, set |-> Changed(r.set, r.op), then |-> "answer"] ELSE Idle)
        /\ UNCHANGED <<disk, agreed, count>>

(* The temporary file is emptied when it is opened, also under the one who *)
(* is writing it.                                                          *)
Target == IF disk.tmp # 0 THEN disk.tmp ELSE Free
Opens(h) ==
    LET r == handler[h]
    IN  /\ In(h, "open")
        /\ disk' = [disk EXCEPT !.tmp = Target, !.holds[Target] = [state |-> "blank", set |-> Seed]]
        /\ Goes(h, [pc |-> "write", op |-> r.op, set |-> r.set, then |-> r.then, node |-> Target])
        /\ UNCHANGED <<agreed, count>>

(* What is written over something else may leave the end of that standing. *)
Writes(h) ==
    LET r   == handler[h]
        was == disk.holds[r.node]
    IN  /\ In(h, "write")
        /\ \E c \in {Whole(r.set)} \cup (IF was.state = "blank" \/ was = Whole(r.set) THEN {} ELSE {[state |-> "torn", set |-> Seed]}) :
               disk' = [disk EXCEPT !.holds[r.node] = c]
        /\ Goes(h, [pc |-> "rename", op |-> r.op, set |-> r.set, then |-> r.then])
        /\ UNCHANGED <<agreed, count>>

(* The rename fails if somebody else has renamed the file meanwhile.       *)
Renames(h) ==
    LET r == handler[h]
    IN  /\ In(h, "rename")
        /\ disk' = IF disk.tmp = 0 THEN disk ELSE [disk EXCEPT !.path = disk.tmp, !.tmp = 0, !.old = FALSE]
        /\ Goes(h, IF disk.tmp = 0 \/ r.then = "answer" THEN Idle
                   ELSE IF r.then = "read" THEN [pc |-> "read", op |-> r.op]
                   ELSE [pc |-> "change", op |-> r.op, set |-> r.set])
        /\ agreed' = IF r.then = "answer" /\ Accepted(agreed, r.op) THEN Changed(agreed, r.op) ELSE agreed
        /\ UNCHANGED count

Dies ==
    /\ count.deaths < MaxDeaths
    /\ handler' = [h \in Handler |-> Idle]
    /\ count' = [count EXCEPT !.deaths = @ + 1]
    /\ UNCHANGED <<disk, agreed>>

Init ==
    /\ \E path \in {0, 1}, old \in BOOLEAN :
           disk = [path |-> path, tmp |-> 0, old |-> path = 1 /\ old,
                   holds |-> [n \in Nodes |-> [state |-> IF n = path THEN "whole" ELSE "nothing", set |-> Seed]]]
    /\ handler = [h \in Handler |-> Idle]
    /\ agreed = Seed
    /\ count = [saves |-> 0, deaths |-> 0, overlapped |-> FALSE]

Next == Dies \/ \E h \in Handler :
            Begins(h) \/ Reads(h) \/ Changes(h) \/ Opens(h) \/ Writes(h) \/ Renames(h)

-----------------------------------------------------------------------------
(* As long as no two requests overlap, the file is at every moment a whole *)
(* set, also when the process dies in the middle of a save: the one that   *)
(* all finished changes add up to, of every workflow.  And whoever has     *)
(* overlapped whom, a set that can be read has one main document per       *)
(* workflow at most.                                                       *)
InstructionsWhole ==
    /\ ~count.overlapped /\ disk.path # 0 => disk.holds[disk.path] = Whole(agreed)
    /\ disk.path # 0 => \A w \in Workflow : OneCore(disk.holds[disk.path].set, w)
=============================================================================
