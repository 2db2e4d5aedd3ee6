----------------------------- MODULE MCEvidence -----------------------------
(***************************************************************************)
(* The kernel, the evidence store and a release directory side by side.    *)
(* They share no state, so a behaviour moves one of them, chosen at the    *)
(* start; the others stay as they were initialised.                        *)
(***************************************************************************)
EXTENDS MCKernel, EvidenceStore, Release

VARIABLE vault

evidenceVars == <<vars, storeVars, releaseVars, vault>>

InitEvidence == Init /\ InitStore /\ InitRelease
                     /\ vault \in {"kernel", "store", "release"}

NextEvidence ==
    /\ UNCHANGED vault
    /\ \/ /\ vault = "kernel" /\ Next /\ UNCHANGED <<storeVars, releaseVars>>
       \/ /\ vault = "store" /\ NextStore /\ UNCHANGED <<vars, releaseVars>>
       \/ /\ vault = "release" /\ NextRelease /\ UNCHANGED <<vars, storeVars>>

SpecEvidence == InitEvidence /\ [][NextEvidence]_evidenceVars

-----------------------------------------------------------------------------
(* Releases that differ in a record, leave one out, or hold a canary. *)
MCBuilds == {[r1 |-> "a", r2 |-> "a"], [r1 |-> "b", r2 |-> "a"],
             [r1 |-> "b", r2 |-> "none"], [r1 |-> "a", r2 |-> "x"]}

=============================================================================
