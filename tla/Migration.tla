------------------------------ MODULE Migration ------------------------------
(***************************************************************************)
(* The idempotent importer and its ledger (migration.py).  Legacy records  *)
(* are imported, imported again unchanged or changed, and merged, in any   *)
(* order.  A name is a legacy id or slug in its normal form; legacy ids    *)
(* and slugs share one table of redirects and may collide.  The stable     *)
(* record id is a hash of the normal form, so it is named by that.         *)
(*                                                                         *)
(* A ledger entry keeps what import_record compares; its other fields are  *)
(* constant or text.                                                       *)
(***************************************************************************)
EXTENDS Integers, FiniteSets

CONSTANTS LegacyIds,    \* the legacy ids, normalised
          Slugs,        \* the slugs, normalised
          Payloads,     \* payloads, each standing for its hash too
          Versions,     \* mapping versions
          None          \* no entry, payload, redirect or slug

Names == LegacyIds \cup Slugs

SECONDARY_DISPOSITIONS == {"awaiting_primary", "quarantined"}
Dispositions == {"mapped"} \cup SECONDARY_DISPOSITIONS

ASSUME MigrationAssumption ==
    None \notin Names \cup Payloads

VARIABLES entries,      \* _entries
          payloads,     \* _payloads, by record id
          redirects,    \* _redirects
          last          \* history: the arguments of the last import of an id

migrationVars == <<entries, payloads, redirects, last>>

NoEntry == [payload |-> None, version |-> None, disposition |-> "none"]

InitMigration == /\ entries = [n \in LegacyIds |-> NoEntry]
                 /\ payloads = [n \in LegacyIds |-> None]
                 /\ redirects = [n \in Names |-> None]
                 /\ last = [n \in LegacyIds |-> <<>>]

-----------------------------------------------------------------------------

Normal(disposition, secondary) ==
    IF secondary /\ disposition \notin SECONDARY_DISPOSITIONS
    THEN "awaiting_primary" ELSE disposition

Entry(payload, version, disposition) ==
    [payload |-> payload, version |-> version, disposition |-> disposition]

ComparesGiven(entry, n, given) ==                                   \* mutant
    entries[n] = Entry(given.payload, given.version, given.disposition)
Unchanged(entry, n, given) == entries[n] = entry

KeepsFirst(n, payload) == IF payloads[n] = None THEN payload        \* mutant
                          ELSE payloads[n]
Stored(n, payload) == payload

(* import_record: an entry that says the same already is left alone, with  *)
(* its payload, redirects and slug; any other is overwritten and its       *)
(* redirects point to its own record, also after a merge.                  *)
Import(n, given) ==
    LET entry == Entry(given.payload, given.version,
                       Normal(given.disposition, given.secondary))
    IN  /\ last' = [last EXCEPT ![n] = <<given>>]
        /\ IF Unchanged(entry, n, given)
           THEN UNCHANGED <<entries, payloads, redirects>>
           ELSE /\ entries' = [entries EXCEPT ![n] = entry]
                /\ payloads' = [payloads EXCEPT ![n] = Stored(n, given.payload)]
                /\ redirects' = [m \in Names |->
                                    IF m \in {n, given.slug} THEN n
                                    ELSE redirects[m]]

(* merge: what was redirected to a merged record goes to the survivor.     *)
(* merge checks neither id; callers name a survivor that was imported.     *)
Merge(survivor, merged) ==
    /\ entries[survivor] # NoEntry
    /\ redirects' = [m \in Names |->
                        IF redirects[m] \in merged THEN survivor
                        ELSE redirects[m]]
    /\ UNCHANGED <<entries, payloads, last>>

Given == [payload : Payloads, version : Versions, disposition : Dispositions,
          secondary : BOOLEAN, slug : Slugs \cup {None}]

NextMigration ==
    \/ \E n \in LegacyIds, given \in Given : Import(n, given)
    \/ \E survivor \in LegacyIds, merged \in SUBSET LegacyIds :
          Merge(survivor, merged)

SpecMigration == InitMigration /\ [][NextMigration]_migrationVars

-----------------------------------------------------------------------------

(* Whatever was imported again, merged, or shares a slug with another      *)
(* record: every redirect ends at an imported record, every imported       *)
(* legacy id has a redirect, and the payload kept for a record is the one  *)
(* the ledger has the hash of (migration.py:14-16, 93-97, 122-124).  That  *)
(* is the payload of the record's last import: the "original payload" of   *)
(* an earlier one is overwritten by a changed re-import.                   *)
RedirectsEndAtPayload ==
    /\ \A m \in Names : redirects[m] # None =>
          /\ redirects[m] \in LegacyIds
          /\ entries[redirects[m]] # NoEntry
    /\ \A n \in LegacyIds : entries[n] # NoEntry =>
          /\ payloads[n] = entries[n].payload
          /\ redirects[n] # None

(* "re-running identical input/config creates no new IDs or diffs"         *)
(* (migration.py:7): the arguments an id was last imported with change     *)
(* nothing when they come again, whatever was merged or imported since.    *)
RerunIsIdle ==
    [][\A n \in LegacyIds : \A given \in Given :
          last[n] = <<given>> /\ Import(n, given) =>
              UNCHANGED <<entries, payloads, redirects>>]_migrationVars

=============================================================================
