------------------------------ MODULE MCRecords ------------------------------
(***************************************************************************)
(* The components that keep the records' identity, history and freshness,  *)
(* side by side.  They share no state, so a behaviour moves one of them,   *)
(* chosen at the start; the others stay as they were initialised.          *)
(***************************************************************************)
EXTENDS Identity, Migration, Monitoring, Revisions

VARIABLE keeper

recordsVars == <<identityVars, migrationVars, monitoringVars, events, keeper>>

InitRecords == /\ InitIdentity /\ InitMigration /\ InitMonitoring
               /\ InitRevisions
               /\ keeper \in {"identity", "migration", "monitoring", "revisions"}

NextRecords ==
    /\ UNCHANGED keeper
    /\ \/ /\ keeper = "identity" /\ NextIdentity
          /\ UNCHANGED <<migrationVars, monitoringVars, events>>
       \/ /\ keeper = "migration" /\ NextMigration
          /\ UNCHANGED <<identityVars, monitoringVars, events>>
       \/ /\ keeper = "monitoring" /\ NextMonitoring
          /\ UNCHANGED <<identityVars, migrationVars, events>>
       \/ /\ keeper = "revisions" /\ NextRevisions
          /\ UNCHANGED <<identityVars, migrationVars, monitoringVars>>

SpecRecords == InitRecords /\ [][NextRecords]_recordsVars

-----------------------------------------------------------------------------
(* A docket number in two spellings, one more, and two weaker keys. *)
MCSpellings == {"D-1", "d-1", "D-2", "2024 SGPDPC 1", "2024 SGPDPC 2"}
MCKeys == {"docket:d-1", "docket:d-2", "citation:1", "citation:2"}
MCKeyOf == [s \in MCSpellings |->
               CASE s \in {"D-1", "d-1"} -> "docket:d-1"
                 [] s = "D-2"            -> "docket:d-2"
                 [] s = "2024 SGPDPC 1"  -> "citation:1"
                 [] s = "2024 SGPDPC 2"  -> "citation:2"]
MCRank == [k \in MCKeys |-> CASE k = "docket:d-1" -> 1
                              [] k = "docket:d-2" -> 2
                              [] k = "citation:1" -> 3
                              [] k = "citation:2" -> 4]

(* A slug that is a legacy id of another record. *)
MCSlugs == {"l2", "s"}
MCTargets == <<"register", "docket">>

=============================================================================
