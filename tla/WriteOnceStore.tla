--------------------------- MODULE WriteOnceStore ---------------------------
(***************************************************************************)
(* What the evidence store promises: "write-once by construction: objects  *)
(* are named by SHA-256" (store.py:3-4).  One step stores an object whole; *)
(* no step ever changes or removes it.                                     *)
(***************************************************************************)

CONSTANT Digests

VARIABLE object         \* what a digest's name stands for

Init == object = [d \in Digests |-> "none"]

Store(d) == /\ object[d] = "none"
            /\ object' = [object EXCEPT ![d] = "whole"]

Next == \E d \in Digests : Store(d)

Spec == Init /\ [][Next]_object

=============================================================================
