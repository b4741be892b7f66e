----------------------------- MODULE OutputImport -----------------------------
(***************************************************************************)
(* The outputs of one task that RunPod has completed.  The worker leaves   *)
(* its files in the bucket and then a manifest that lists them.  Whoever   *)
(* sees the task completed reads the manifest and gives each file, in      *)
(* order, the name that belongs to its role: it copies the object, deletes *)
(* the original, and in the end records where every output is.  A copy or  *)
(* a deletion may fail and the process may die; the task then stays        *)
(* PENDING and is imported again from the same manifest, and the monitors  *)
(* of two processes may be at it at once.                                  *)
(***************************************************************************)
EXTENDS Naturals, Sequences

CONSTANTS Importer, MaxFaults               \* the processes; the failures of a behaviour

VARIABLES
    bucket,         \* the outputs, the objects there, what was recorded, the failures so far
    importing       \* per process: at which output, and what it does with it

vars == <<bucket, importing>>

Key  == {"original", "segment", "final", "place"} \X (0..2)
Idle == [at |-> "idle", i |-> 0]
None == 0

(* What the worker lists of an output: the node it comes from, if it says  *)
(* so, the segment in its file name, if any, whether its key carries the   *)
(* name it is to get, and whether the manifest calls it so as well.        *)
Listed == [node : {"final", "none"}, segment : {0}, named : {FALSE}, called : {FALSE}] \cup
          [node : {"none"}, segment : {1, 2}, named : {FALSE}, called : {FALSE}] \cup
          [node : {"segment"}, segment : {2}, named : BOOLEAN, called : BOOLEAN]
Outputs  == bucket.outputs
Total    == Len(Outputs)

Role(i) ==
    LET o == Outputs[i]
    IN  CASE o.segment # 0                     -> <<"segment", o.segment>>
          [] o.node = "final"                  -> <<"final", 0>>
          [] bucket.segments <= 1              -> <<"final", 0>>
          [] Total = bucket.segments           -> <<"segment", i>>
          [] Total = bucket.segments + 1       -> IF i = 1 THEN <<"final", 0>> ELSE <<"segment", i - 1>>
          [] OTHER                             -> IF i = 1 THEN <<"final", 0>> ELSE <<"extra", i>>

(* The name of the file: that of the first image, and the role; the place  *)
(* where the role says nothing, or there is only one output.               *)
Name(i) ==
    CASE Role(i)[1] = "segment"           -> Role(i)
      [] Role(i)[1] = "final" /\ Total > 1 -> <<"final", 0>>
      [] OTHER                            -> <<"place", i>>

Original(i) == IF Outputs[i].named THEN Name(i) ELSE <<"original", i>>
Object(k)    == bucket.objects[k]
Put(k, content) == [bucket.objects EXCEPT ![k] = content]

(* An object that has its name already, in the manifest too, is left alone. *)
InPlace(i) == Original(i) = Name(i) /\ Outputs[i].called

Goes(p, at, i) == importing' = [importing EXCEPT ![p] = [at |-> at, i |-> i]]
Stops(p)       == Goes(p, "idle", 0)
Passes(p)      == Goes(p, IF importing[p].i = Total THEN "record" ELSE "copy",
                       IF importing[p].i = Total THEN 0 ELSE importing[p].i + 1)
Fault          == bucket.faults < MaxFaults /\ bucket' = [bucket EXCEPT !.faults = @ + 1]

(* The worker writes its outputs and their manifest.                       *)
Provides ==
    /\ ~bucket.manifest /\ UNCHANGED importing
    /\ bucket' = [bucket EXCEPT !.manifest = TRUE, !.objects =
           [k \in Key |-> IF \E i \in 1..Total : Original(i) = k THEN CHOOSE i \in 1..Total : Original(i) = k ELSE None]]

(* Without the manifest the import stays pending.                          *)
Fetches(p) ==
    /\ importing[p] = Idle /\ bucket.recorded = <<>> /\ bucket.manifest
    /\ Goes(p, "copy", 1) /\ UNCHANGED bucket

(* Copied, the original is to go: also when the copy is to its own key and *)
(* was not made.  What cannot be copied may have been renamed before: then *)
(* its target is there.                                                    *)
Copies(p) ==
    LET i == importing[p].i
    IN  /\ importing[p].at = "copy"
        /\ \/ InPlace(i) /\ Passes(p) /\ UNCHANGED bucket
           \/ /\ ~InPlace(i) /\ Object(Original(i)) # None
              /\ bucket' = [bucket EXCEPT !.objects = Put(Name(i), Object(Original(i)))]
              /\ Goes(p, "delete", i)
           \/ /\ ~InPlace(i) /\ Object(Original(i)) = None /\ UNCHANGED bucket
              /\ IF Object(Name(i)) # None THEN Passes(p) ELSE Stops(p)

(* A copy that fails may have been made all the same.                      *)
CopyFails(p) ==
    LET i == importing[p].i
        made == Object(Original(i)) # None
    IN  /\ importing[p].at = "copy" /\ ~InPlace(i)
        /\ \/ Fault /\ (IF Object(Name(i)) # None THEN Passes(p) ELSE Stops(p))
           \/ /\ made /\ bucket.faults < MaxFaults
              /\ bucket' = [bucket EXCEPT !.faults = @ + 1, !.objects = Put(Name(i), Object(Original(i)))]
              /\ Passes(p)

Deletes(p) ==
    /\ importing[p].at = "delete"
    /\ bucket' = [bucket EXCEPT !.objects = Put(Original(importing[p].i), None)]
    /\ Passes(p)

(* The assets of the task, in order.                                       *)
Saved == [i \in 1..Total |-> Name(i)]
Records(p) ==
    /\ importing[p].at = "record"
    /\ bucket' = [bucket EXCEPT !.recorded = Saved]
    /\ Stops(p)

(* A deletion or the record fails, or the process dies.                    *)
BreaksOff(p) == importing[p] # Idle /\ Fault /\ Stops(p)

Init ==
    /\ \E o \in Listed \X Listed, s \in {1, 2} :
           bucket = [outputs |-> o, segments |-> s, objects |-> [k \in Key |-> None],
                     manifest |-> FALSE, recorded |-> <<>>, faults |-> 0]
    /\ importing = [p \in Importer |-> Idle]

Next ==
    \/ Provides
    \/ \E p \in Importer : Fetches(p) \/ Copies(p) \/ CopyFails(p) \/ Deletes(p) \/ Records(p) \/ BreaksOff(p)

-----------------------------------------------------------------------------
TypeOK ==
    /\ \A i \in 1..Total : bucket.outputs[i] \in Listed
    /\ bucket.segments \in {1, 2} /\ bucket.objects \in [Key -> 0..Total] /\ bucket.manifest \in BOOLEAN
    /\ bucket.recorded \in {<<>>} \cup [1..Total -> Key] /\ bucket.faults \in 0..MaxFaults
    /\ importing \in [Importer -> [at : {"idle", "copy", "delete", "record"}, i : 0..Total]]

(* Two outputs with one role get one name, and then the second is all that *)
(* is left: what follows is of tasks whose outputs differ in their roles.  *)
Distinct == \A i, j \in 1..Total : i # j => Name(i) # Name(j)

(* An output that is under its name while the manifest calls it otherwise  *)
(* is deleted as its own original.                                         *)
Misnamed(i) == Original(i) = Name(i) /\ ~InPlace(i)

(* No failure, death or second importer loses an output of a completed     *)
(* task that is not misnamed: it is in the bucket at every moment, and     *)
(* once the task has its outputs recorded each of these is the one the     *)
(* worker wrote.                                                           *)
OutputsKept ==
    Distinct /\ bucket.manifest => \A i \in 1..Total :
        \/ Misnamed(i)
        \/ /\ \E k \in {Original(i), Name(i)} : Object(k) = i
           /\ bucket.recorded # <<>> => Object(bucket.recorded[i]) = i
=============================================================================
