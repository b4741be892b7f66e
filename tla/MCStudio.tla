------------------------------- MODULE MCStudio -------------------------------
(* A TLC instance of Studio. *)
EXTENDS Studio

(* An image that bundles nothing, and two of different versions.           *)
Images == <<"none", "b1", "b2">>

(* A new document under a code that is taken or not, a new code and role   *)
(* for one that is there, a removal, and a copy to an empty workflow.      *)
Changes == {[kind |-> "save", w |-> "w1", from |-> "none", code |-> "b", role |-> "CORE"],
            [kind |-> "save", w |-> "w1", from |-> "a", code |-> "a", role |-> "GUIDE"],
            [kind |-> "save", w |-> "w2", from |-> "none", code |-> "a", role |-> "CORE"],
            [kind |-> "delete", w |-> "w1", code |-> "a"],
            [kind |-> "copy", from |-> "w1", w |-> "w2"]}
=============================================================================
