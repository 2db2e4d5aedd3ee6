--------------------------- MODULE RecordsProofs ----------------------------
(***************************************************************************)
(* Theorems about the parts that keep the records: identity (any           *)
(* identifiers, however they are spelt and ranked, any documents), the     *)
(* migration (any legacy ids, slugs, payloads and mapping versions), the   *)
(* revisions (any releases and number of events) and the monitoring (any   *)
(* targets, intervals and results).  Each part has its own state,          *)
(* invariant and assumption.                                               *)
(***************************************************************************)
EXTENDS Identity, Migration, Revisions, Monitoring, SumTheorems

-----------------------------------------------------------------------------
(* Identity. *)

USE IdentityAssumption

(* The new record id is one of the keys. *)
LEMMA NewRecordIdIsKey ==
    ASSUME NEW keys \in SUBSET Keys, keys # {}
    PROVE  NewRecordId(keys) \in keys
<1> DEFINE T == {Rank[k] : k \in keys}
<1>1. T \in SUBSET Nat /\ T # {}
  OBVIOUS
<1>2. \E x \in T : \A y \in T : x <= y
  <2> HIDE DEF T
  <2> QED
    BY <1>1, NatHasMinimum
<1>3. \E k \in keys : \A l \in keys : Rank[k] <= Rank[l]
  BY <1>2
<1> QED
  BY <1>3 DEF NewRecordId

TypeOKIdentity ==
    /\ by_key \in [Keys -> Keys \cup {NoRecord}]
    /\ aliases \in [Keys -> SUBSET Keys]
    /\ announced \in [Keys -> Nat]

(* A record that has no alias yet was never announced. *)
NothingAnnouncedEarly == \A r \in Keys : aliases[r] = {} => announced[r] = 0

IInvIdentity == /\ TypeOKIdentity
                /\ RecordsPartitionKeys
                /\ NewOnlyOnce
                /\ NothingAnnouncedEarly

LEMMA InitIInvIdentity == InitIdentity => IInvIdentity
  BY DEF InitIdentity, IInvIdentity, TypeOKIdentity, RecordsPartitionKeys,
         NewOnlyOnce, NothingAnnouncedEarly

(* The record a description resolves to has all its keys that have one,    *)
(* and has its own key, before or by the call.                             *)
LEMMA ResolvedRecord ==
    ASSUME TypeOKIdentity, RecordsPartitionKeys,
           NEW keys \in SUBSET Keys, keys # {},
           NEW r \in Keys, ResolvesTo(keys, r)
    PROVE  /\ \A k \in keys : by_key[k] \in {r, NoRecord}
           /\ r \in aliases[r] \cup keys
<1>1. CASE Existing(keys) = {r}
  <2>1. \A k \in keys : by_key[k] \in {r, NoRecord}
    BY <1>1 DEF Existing
  <2>2. PICK k \in keys : by_key[k] = r
    BY <1>1 DEF Existing
  <2>3. k \in aliases[r]
    BY <2>2 DEF RecordsPartitionKeys
  <2> QED
    BY <2>1, <2>3 DEF RecordsPartitionKeys
<1>2. CASE Existing(keys) = {} /\ r = NewRecordId(keys)
  BY <1>2, NewRecordIdIsKey DEF Existing
<1> QED
  BY <1>1, <1>2 DEF ResolvesTo

LEMMA ResolveKeepsIInvIdentity ==
    ASSUME IInvIdentity,
           NEW spellings \in SUBSET Spellings, NEW documents,
           NEW malformed, NEW r \in Keys,
           Resolve(spellings, documents, malformed, r)
    PROVE  /\ IInvIdentity'
           /\ \A k \in Keys : by_key[k] # NoRecord => by_key'[k] = by_key[k]
<1> DEFINE keys == {KeyOf[s] : s \in spellings}
<1>1. keys \in SUBSET Keys
  OBVIOUS
<1>2. /\ keys # {}
      /\ ResolvesTo(keys, r)
      /\ by_key' = [k \in Keys |-> IF k \in keys THEN r ELSE by_key[k]]
      /\ aliases' = [aliases EXCEPT ![r] = @ \cup keys]
      /\ announced' = IF IsNew(r) /\ ~malformed
                      THEN [announced EXCEPT ![r] = @ + 1] ELSE announced
  BY DEF Resolve
<1> HIDE DEF keys
<1>3. /\ \A k \in keys : by_key[k] \in {r, NoRecord}
      /\ r \in aliases[r] \cup keys
  BY <1>1, <1>2, ResolvedRecord DEF IInvIdentity
<1>4. \A s \in Keys : aliases'[s] = IF s = r THEN aliases[r] \cup keys
                                            ELSE aliases[s]
  BY <1>2 DEF IInvIdentity, TypeOKIdentity
<1>5. TypeOKIdentity'
  BY <1>1, <1>2 DEF IInvIdentity, TypeOKIdentity
<1>6. RecordsPartitionKeys'
  <2> SUFFICES ASSUME NEW s \in Keys
               PROVE  /\ aliases'[s] = {k \in Keys : by_key'[k] = s}
                      /\ aliases'[s] # {} => s \in aliases'[s]
    BY DEF RecordsPartitionKeys
  <2>1. /\ aliases[s] = {k \in Keys : by_key[k] = s}
        /\ aliases[s] # {} => s \in aliases[s]
    BY DEF IInvIdentity, RecordsPartitionKeys
  <2>2. CASE s = r
    BY <1>1, <1>2, <1>3, <1>4, <2>1, <2>2
  <2>3. CASE s # r
    <3>1. \A k \in Keys : by_key'[k] = s <=> by_key[k] = s
      BY <1>2, <1>3, <2>3
    <3> QED
      BY <1>4, <2>1, <2>3, <3>1
  <2> QED
    BY <2>2, <2>3
<1>7. NewOnlyOnce' /\ NothingAnnouncedEarly'
  <2>1. aliases'[r] # {}
    BY <1>2, <1>4
  <2>2. IsNew(r) => announced[r] = 0
    BY DEF IsNew, IInvIdentity, NothingAnnouncedEarly
  <2>3. \A s \in Keys : announced'[s] = IF s = r /\ IsNew(r) /\ ~malformed
                                       THEN announced[s] + 1 ELSE announced[s]
    BY <1>2 DEF IInvIdentity, TypeOKIdentity
  <2>4. \A s \in Keys : announced[s] <= 1 /\ announced[s] \in Nat
    BY DEF IInvIdentity, NewOnlyOnce, TypeOKIdentity
  <2>5. \A s \in Keys : announced'[s] <= 1
    BY <2>2, <2>3, <2>4
  <2>6. \A s \in Keys : aliases'[s] = {} => announced'[s] = 0
    BY <1>4, <2>1, <2>3 DEF IInvIdentity, NothingAnnouncedEarly
  <2> QED
    BY <2>5, <2>6 DEF NewOnlyOnce, NothingAnnouncedEarly
<1>8. \A k \in Keys : by_key[k] # NoRecord => by_key'[k] = by_key[k]
  BY <1>2, <1>3
<1> QED
  BY <1>5, <1>6, <1>7, <1>8 DEF IInvIdentity

(* Every step keeps the invariant, and a key that has a record. *)
LEMMA StepIdentity ==
    ASSUME IInvIdentity, [NextIdentity]_identityVars
    PROVE  /\ IInvIdentity'
           /\ \A k \in Keys : by_key[k] # NoRecord => by_key'[k] = by_key[k]
<1>1. CASE \E spellings \in SUBSET Spellings, documents \in SUBSET Documents,
              malformed \in BOOLEAN, r \in Keys :
              Resolve(spellings, documents, malformed, r)
  BY <1>1, ResolveKeepsIInvIdentity
<1>2. CASE \/ \E document \in Documents, r \in Keys : LinkDocument(document, r)
           \/ UNCHANGED identityVars
  <2>1. UNCHANGED <<by_key, aliases, announced>>
    BY <1>2 DEF LinkDocument, identityVars
  <2> QED
    BY <2>1 DEF IInvIdentity, TypeOKIdentity, RecordsPartitionKeys,
                NewOnlyOnce, NothingAnnouncedEarly
<1> QED
  BY <1>1, <1>2 DEF NextIdentity

THEOREM IdentityInvariant == SpecIdentity => []IInvIdentity
<1>1. IInvIdentity /\ [NextIdentity]_identityVars => IInvIdentity'
  BY StepIdentity
<1> QED
  BY InitIInvIdentity, <1>1, PTL DEF SpecIdentity

(* Identifiers are partitioned among the records and no record is new      *)
(* twice, whatever is described in whatever order (identity.py:60-98).     *)
THEOREM RecordsAreSound == SpecIdentity => []IdentityIsSound
<1>1. IInvIdentity => IdentityIsSound
  BY DEF IInvIdentity, IdentityIsSound
<1> QED
  BY IdentityInvariant, <1>1, PTL

(* "the same identifier always resolves to the same record_id": no step    *)
(* moves a key to another record (identity.py:7-12).                       *)
THEOREM RecordIdsAreStable == SpecIdentity => IdentityIsStable
<1>1. IInvIdentity /\ [NextIdentity]_identityVars =>
        [\A k \in Keys : by_key[k] # NoRecord =>
            by_key'[k] = by_key[k]]_identityVars
  BY StepIdentity
<1> QED
  BY IdentityInvariant, <1>1, PTL DEF SpecIdentity, IdentityIsStable

HIDE IdentityAssumption

-----------------------------------------------------------------------------
(* The migration. *)

USE MigrationAssumption

(* The ledger entry import_record makes of its arguments. *)
EntryOf(given) == Entry(given.payload, given.version,
                        Normal(given.disposition, given.secondary))

TypeOKMigration ==
    /\ entries \in [LegacyIds -> {EntryOf(g) : g \in Given} \cup {NoEntry}]
    /\ payloads \in [LegacyIds -> Payloads \cup {None}]
    /\ redirects \in [Names -> LegacyIds \cup {None}]
    /\ DOMAIN last = LegacyIds

(* The ledger says of an id what it was last imported with. *)
LedgerIsLast ==
    \A n \in LegacyIds :
        \/ last[n] = <<>> /\ entries[n] = NoEntry
        \/ \E g \in Given : last[n] = <<g>> /\ entries[n] = EntryOf(g)

IInvMigration == /\ TypeOKMigration
                 /\ LedgerIsLast
                 /\ RedirectsEndAtPayload

LEMMA InitIInvMigration == InitMigration => IInvMigration
  BY DEF InitMigration, IInvMigration, TypeOKMigration, LedgerIsLast,
         RedirectsEndAtPayload, Names

(* An entry that was made has a payload, so it is not NoEntry. *)
LEMMA EntryOfFields ==
    ASSUME NEW g \in Given
    PROVE  /\ EntryOf(g).payload = g.payload
           /\ g.payload \in Payloads
           /\ g.slug \in Slugs \cup {None}
           /\ EntryOf(g) # NoEntry
<1>1. EntryOf(g).payload = g.payload
  BY DEF EntryOf, Entry
<1>2. g.payload \in Payloads /\ g.slug \in Slugs \cup {None}
  BY DEF Given
<1>3. NoEntry.payload = None
  BY DEF NoEntry
<1> QED
  BY <1>1, <1>2, <1>3

(* The two ways an import goes. *)
LEMMA ImportCases ==
    ASSUME NEW n \in LegacyIds, NEW g \in Given, Import(n, g)
    PROVE  /\ last' = [last EXCEPT ![n] = <<g>>]
           /\ \/ /\ entries[n] = EntryOf(g)
                 /\ UNCHANGED <<entries, payloads, redirects>>
              \/ /\ entries' = [entries EXCEPT ![n] = EntryOf(g)]
                 /\ payloads' = [payloads EXCEPT ![n] = g.payload]
                 /\ redirects' = [m \in Names |-> IF m \in {n, g.slug} THEN n
                                                  ELSE redirects[m]]
  BY DEF Import, Unchanged, Stored, EntryOf

LEMMA ImportKeepsIInvMigration ==
    ASSUME IInvMigration, NEW n \in LegacyIds, NEW g \in Given, Import(n, g)
    PROVE  IInvMigration'
<1>1. /\ last' = [last EXCEPT ![n] = <<g>>]
      /\ DOMAIN last = LegacyIds
  BY ImportCases DEF IInvMigration, TypeOKMigration
<1>2. CASE /\ entries[n] = EntryOf(g)
           /\ UNCHANGED <<entries, payloads, redirects>>
  <2>1. LedgerIsLast'
    BY <1>1, <1>2 DEF IInvMigration, LedgerIsLast
  <2> QED
    BY <1>1, <1>2, <2>1
       DEF IInvMigration, TypeOKMigration, RedirectsEndAtPayload
<1>3. CASE /\ entries' = [entries EXCEPT ![n] = EntryOf(g)]
           /\ payloads' = [payloads EXCEPT ![n] = g.payload]
           /\ redirects' = [m \in Names |-> IF m \in {n, g.slug} THEN n
                                            ELSE redirects[m]]
  <2>1. /\ \A i \in LegacyIds :
              /\ entries'[i] = IF i = n THEN EntryOf(g) ELSE entries[i]
              /\ payloads'[i] = IF i = n THEN g.payload ELSE payloads[i]
              /\ last'[i] = IF i = n THEN <<g>> ELSE last[i]
        /\ \A m \in Names : redirects'[m] = IF m \in {n, g.slug} THEN n
                                            ELSE redirects[m]
    BY <1>1, <1>3 DEF IInvMigration, TypeOKMigration
  <2>2. TypeOKMigration'
    BY <1>1, <1>3, EntryOfFields DEF IInvMigration, TypeOKMigration
  <2>3. LedgerIsLast'
    BY <2>1 DEF IInvMigration, LedgerIsLast
  <2>4. RedirectsEndAtPayload'
    <3>1. \A m \in Names : redirects'[m] # None =>
             redirects'[m] \in LegacyIds /\ entries'[redirects'[m]] # NoEntry
      BY <2>1, EntryOfFields DEF IInvMigration, RedirectsEndAtPayload
    <3>2. \A i \in LegacyIds : i \in Names
      BY DEF Names
    <3>3. \A i \in LegacyIds : i # None
      BY DEF Names
    <3>4. \A i \in LegacyIds : entries'[i] # NoEntry =>
             payloads'[i] = entries'[i].payload /\ redirects'[i] # None
      BY <2>1, <3>2, <3>3, EntryOfFields
         DEF IInvMigration, RedirectsEndAtPayload
    <3> QED
      BY <3>1, <3>4 DEF RedirectsEndAtPayload
  <2> QED
    BY <2>2, <2>3, <2>4 DEF IInvMigration
<1> QED
  BY <1>2, <1>3, ImportCases

LEMMA MergeKeepsIInvMigration ==
    ASSUME IInvMigration, NEW survivor \in LegacyIds,
           NEW merged \in SUBSET LegacyIds, Merge(survivor, merged)
    PROVE  IInvMigration'
<1>1. /\ entries[survivor] # NoEntry
      /\ entries' = entries /\ payloads' = payloads /\ last' = last
      /\ redirects' = [m \in Names |-> IF redirects[m] \in merged
                                       THEN survivor ELSE redirects[m]]
  BY DEF Merge
<1>2. TypeOKMigration' /\ LedgerIsLast'
  BY <1>1 DEF IInvMigration, TypeOKMigration, LedgerIsLast
<1>3. RedirectsEndAtPayload'
  <2>1. survivor # None /\ \A i \in LegacyIds : i \in Names
    BY DEF Names
  <2> QED
    BY <1>1, <2>1 DEF IInvMigration, RedirectsEndAtPayload
<1> QED
  BY <1>2, <1>3 DEF IInvMigration

LEMMA NextKeepsIInvMigration ==
    IInvMigration /\ [NextMigration]_migrationVars => IInvMigration'
<1> SUFFICES ASSUME IInvMigration, [NextMigration]_migrationVars
             PROVE  IInvMigration'
  OBVIOUS
<1>1. CASE \E n \in LegacyIds, given \in Given : Import(n, given)
  BY <1>1, ImportKeepsIInvMigration
<1>2. CASE \E survivor \in LegacyIds, merged \in SUBSET LegacyIds :
              Merge(survivor, merged)
  BY <1>2, MergeKeepsIInvMigration
<1>3. CASE UNCHANGED migrationVars
  BY <1>3 DEF migrationVars, IInvMigration, TypeOKMigration, LedgerIsLast,
              RedirectsEndAtPayload
<1> QED
  BY <1>1, <1>2, <1>3 DEF NextMigration

THEOREM MigrationInvariant == SpecMigration => []IInvMigration
  BY InitIInvMigration, NextKeepsIInvMigration, PTL DEF SpecMigration

(* Every redirect ends at an imported record, kept with the payload of its *)
(* last import, whatever was merged or imported again (migration.py:93-124). *)
THEOREM RedirectsResolve == SpecMigration => []RedirectsEndAtPayload
<1>1. IInvMigration => RedirectsEndAtPayload
  BY DEF IInvMigration
<1> QED
  BY MigrationInvariant, <1>1, PTL

(* The arguments of the last import of an id change nothing when they come *)
(* again (migration.py:7).                                                 *)
THEOREM RerunsAreIdle == SpecMigration => RerunIsIdle
<1>1. ASSUME IInvMigration, NEW n \in LegacyIds, NEW g \in Given,
             last[n] = <<g>>, Import(n, g)
      PROVE  UNCHANGED <<entries, payloads, redirects>>
  <2>1. entries[n] = EntryOf(g)
    <3>1. <<g>> # <<>>
      OBVIOUS
    <3>2. PICK h \in Given : last[n] = <<h>> /\ entries[n] = EntryOf(h)
      BY <1>1, <3>1 DEF IInvMigration, LedgerIsLast
    <3>3. h = g
      BY <1>1, <3>2
    <3> QED
      BY <3>2, <3>3
  <2> QED
    BY <1>1, <2>1 DEF Import, Unchanged, EntryOf
<1>2. IInvMigration =>
        [\A n \in LegacyIds : \A given \in Given :
            last[n] = <<given>> /\ Import(n, given) =>
                UNCHANGED <<entries, payloads, redirects>>]_migrationVars
  BY <1>1
<1> QED
  BY MigrationInvariant, <1>2, PTL DEF RerunIsIdle

HIDE MigrationAssumption

-----------------------------------------------------------------------------
(* The revisions. *)

USE RevisionsAssumption

Event == [revision : Revision, from : DOMAIN REVISION, to : DOMAIN REVISION,
          release : Releases \cup {NoRelease}]

(* A revision with events has a last one, and a published one goes nowhere *)
(* but to superseded.                                                      *)
HasLast == \A i \in DOMAIN events : \E j \in DOMAIN events :
              i <= j /\ LastOf(events[i].revision, j)

PublishedIsReplaced ==
    \A i, j \in DOMAIN events :
        (/\ i < j
         /\ events[i].revision = events[j].revision
         /\ events[i].to = "published") => events[j].to = "superseded"

IInvRevisions == /\ events \in Seq(Event)
                 /\ HasLast
                 /\ PublishedIsReplaced
                 /\ PublicationWasApproved

LEMMA InitIInvRevisions == InitRevisions => IInvRevisions
  BY DEF InitRevisions, IInvRevisions, HasLast, PublishedIsReplaced,
         PublicationWasApproved

(* The REVISION table, read backwards. *)
LEMMA RevisionTable ==
    /\ \A s, to : Transition(REVISION, s, to) =>
          s \in DOMAIN REVISION /\ to \in DOMAIN REVISION
    /\ \A s : Transition(REVISION, s, "published") => s = "approved"
    /\ \A to : ~Transition(REVISION, "rejected", to)
    /\ \A to : ~Transition(REVISION, "superseded", to)
    /\ \A to : Transition(REVISION, "published", to) => to = "superseded"
  BY DEF REVISION, Transition

(* The state of a revision is where its last event led. *)
LEMMA LastDecides ==
    ASSUME IInvRevisions, NEW i \in DOMAIN events
    PROVE  \E c \in DOMAIN events :
              /\ i <= c
              /\ LastOf(events[i].revision, c)
              /\ DerivedState(events[i].revision) = events[c].to
<1> PICK r : r = events[i].revision
  OBVIOUS
<1>1. PICK j \in DOMAIN events : i <= j /\ LastOf(r, j)
  BY DEF IInvRevisions, HasLast
<1>2. /\ DOMAIN events = 1..Len(events) /\ Len(events) \in Nat
  BY DEF IInvRevisions
<1>3. \A c \in DOMAIN events : LastOf(r, c) => c = j
  BY <1>1, <1>2 DEF LastOf
<1>4. (CHOOSE c \in DOMAIN events : LastOf(r, c)) = j
  BY <1>1, <1>3
<1> QED
  BY <1>1, <1>4 DEF DerivedState

LEMMA NoEventIsDraft ==
    ASSUME NEW r, \A i \in DOMAIN events : events[i].revision # r
    PROVE  DerivedState(r) = "draft"
  BY DEF DerivedState, LastOf

LEMMA OneMoreEvent ==
    ASSUME events \in Seq(Event), NEW e \in Event
    PROVE  /\ Append(events, e) \in Seq(Event)
           /\ Len(events) \in Nat
           /\ Len(Append(events, e)) = Len(events) + 1
           /\ DOMAIN events = 1..Len(events)
           /\ DOMAIN Append(events, e) = 1..(Len(events) + 1)
           /\ Append(events, e)[Len(events) + 1] = e
           /\ \A i \in 1..Len(events) : Append(events, e)[i] = events[i]
  OBVIOUS

LEMMA AppendKeepsIInvRevisions ==
    ASSUME IInvRevisions, NEW r \in Revision, NEW to,
           NEW release \in Releases \cup {NoRelease},
           AppendLifecycleEvent(r, to, release)
    PROVE  IInvRevisions'
<1> DEFINE e == [revision |-> r, from |-> DerivedState(r),
                 to |-> to, release |-> release]
<1>1. /\ events' = Append(events, e)
      /\ Transition(REVISION, DerivedState(r), to)
      /\ to = "published" => release # NoRelease
  BY DEF AppendLifecycleEvent
<1>2. e \in Event
  BY <1>1, RevisionTable DEF Event
<1>3. e.revision = r /\ e.to = to /\ e.release = release
  OBVIOUS
<1> PICK n : n = Len(events) + 1
  OBVIOUS
<1> HIDE DEF e
<1>4. /\ events' \in Seq(Event) /\ n \in Nat /\ Len(events') = n
      /\ n - 1 = Len(events)
      /\ DOMAIN events = 1..(n - 1) /\ DOMAIN events' = 1..n
      /\ events'[n].revision = r /\ events'[n].to = to
      /\ events'[n].release = release
      /\ \A i \in 1..(n - 1) : events'[i] = events[i]
  BY <1>1, <1>2, <1>3, OneMoreEvent DEF IInvRevisions
(* What an earlier event of the same revision says about this one. *)
<1>5. ASSUME NEW i \in 1..(n - 1), events[i].revision = r
      PROVE  \E c \in i..(n - 1) :
                /\ events[c].revision = r
                /\ \A k \in (c + 1)..(n - 1) : events[k].revision # r
                /\ DerivedState(r) = events[c].to
  <2>1. PICK c \in DOMAIN events : /\ i <= c
                                   /\ LastOf(r, c)
                                   /\ DerivedState(r) = events[c].to
    BY <1>4, <1>5, LastDecides
  <2>2. c \in i..(n - 1)
    BY <1>4, <2>1
  <2> QED
    BY <1>4, <2>1, <2>2 DEF LastOf
<1>6. ASSUME NEW i \in 1..(n - 1), events[i].revision = r,
             events[i].to = "published"
      PROVE  to = "superseded"
  <2>1. PICK c \in i..(n - 1) : /\ events[c].revision = r
                                /\ DerivedState(r) = events[c].to
    BY <1>5, <1>6
  <2>2. CASE c = i
    BY <1>1, <1>6, <2>1, <2>2, RevisionTable
  <2>3. CASE c # i
    <3>1. events[c].to = "superseded"
      BY <1>4, <1>6, <2>1, <2>3 DEF IInvRevisions, PublishedIsReplaced
    <3> QED
      BY <1>1, <2>1, <3>1, RevisionTable
  <2> QED
    BY <2>2, <2>3
<1>7. ASSUME NEW i \in 1..(n - 1), events[i].to \in {"rejected", "superseded"}
      PROVE  events[i].revision # r
  <2> SUFFICES ASSUME events[i].revision = r PROVE FALSE
    OBVIOUS
  <2>1. PICK c \in i..(n - 1) : /\ events[c].revision = r
                                /\ DerivedState(r) = events[c].to
    BY <1>5
  <2>2. \A j \in (i + 1)..(n - 1) : events[j].revision # r
    BY <1>4, <1>7 DEF IInvRevisions, PublicationWasApproved
  <2>3. c = i
    BY <1>4, <2>1, <2>2
  <2> QED
    BY <1>1, <1>7, <2>1, <2>3, RevisionTable
<1>8. HasLast'
  <2> SUFFICES ASSUME NEW i \in 1..n
               PROVE  \E j \in 1..n : /\ i <= j
                                      /\ LastOf(events[i].revision, j)'
    BY <1>4 DEF HasLast
  <2>1. CASE i = n \/ events[i].revision = r
    <3>1. events'[i].revision = r
      BY <1>4, <2>1
    <3>2. LastOf(events[i].revision, n)'
      BY <1>4, <3>1 DEF LastOf
    <3> QED
      BY <1>4, <3>2
  <2>2. CASE i # n /\ events[i].revision # r
    <3>1. PICK j \in 1..(n - 1) : i <= j /\ LastOf(events[i].revision, j)
      BY <1>4, <2>2 DEF IInvRevisions, HasLast
    <3>2. LastOf(events[i].revision, j)'
      BY <1>4, <2>2, <3>1 DEF LastOf
    <3> QED
      BY <1>4, <3>1, <3>2
  <2> QED
    BY <2>1, <2>2
<1>9. PublishedIsReplaced'
  <2> SUFFICES ASSUME NEW i \in 1..n, NEW j \in 1..n, i < j,
                      events'[i].revision = events'[j].revision,
                      events'[i].to = "published"
               PROVE  events'[j].to = "superseded"
    BY <1>4 DEF PublishedIsReplaced
  <2>1. CASE j = n
    BY <1>4, <1>6, <2>1
  <2>2. CASE j # n
    BY <1>4, <2>2 DEF IInvRevisions, PublishedIsReplaced
  <2> QED
    BY <2>1, <2>2
<1>10. PublicationWasApproved'
  <2> SUFFICES ASSUME NEW i \in 1..n
               PROVE  /\ events'[i].to = "published" =>
                            /\ events'[i].release # NoRelease
                            /\ \E j \in 1..(i - 1) :
                                  /\ events'[j].revision = events'[i].revision
                                  /\ events'[j].to = "approved"
                                  /\ \A k \in (j + 1)..(i - 1) :
                                        events'[k].revision # events'[i].revision
                            /\ \A j \in 1..n :
                                  events'[j].revision = events'[i].revision
                                  /\ events'[j].to = "published" => j = i
                      /\ events'[i].to \in {"rejected", "superseded"} =>
                            \A j \in (i + 1)..n :
                                events'[j].revision # events'[i].revision
    BY <1>4 DEF PublicationWasApproved
  <2>1. CASE i = n
    <3>1. CASE to = "published"
      <4>1. DerivedState(r) = "approved"
        BY <1>1, <3>1, RevisionTable
      <4>2. PICK m \in 1..(n - 1) : events[m].revision = r
        BY <1>4, <4>1, NoEventIsDraft
      <4>3. PICK c \in m..(n - 1) :
                /\ events[c].revision = r
                /\ \A k \in (c + 1)..(n - 1) : events[k].revision # r
                /\ DerivedState(r) = events[c].to
        BY <1>5, <4>2
      <4>4. \A j \in 1..(n - 1) : events[j].revision = r =>
               events[j].to # "published"
        BY <1>6, <3>1
      <4>5. /\ c \in 1..(n - 1)
            /\ events'[c].revision = r /\ events'[c].to = "approved"
            /\ \A k \in (c + 1)..(n - 1) : events'[k].revision # r
        BY <1>4, <4>1, <4>3
      <4> QED
        BY <1>1, <1>4, <2>1, <3>1, <4>4, <4>5
    <3>2. CASE to # "published"
      BY <1>4, <2>1, <3>2
    <3> QED
      BY <3>1, <3>2
  <2>2. CASE i # n
    <3>1. i \in 1..(n - 1) /\ events'[i] = events[i]
      BY <1>4, <2>2
    <3>2. CASE events[i].to = "published"
      <4>1. /\ events[i].release # NoRelease
            /\ \E j \in 1..(i - 1) :
                  /\ events[j].revision = events[i].revision
                  /\ events[j].to = "approved"
                  /\ \A k \in (j + 1)..(i - 1) :
                        events[k].revision # events[i].revision
            /\ \A j \in 1..(n - 1) :
                  events[j].revision = events[i].revision
                  /\ events[j].to = "published" => j = i
        BY <1>4, <3>1, <3>2 DEF IInvRevisions, PublicationWasApproved
      <4>2. events[i].revision = r => to # "published"
        BY <1>6, <3>1, <3>2
      <4> QED
        BY <1>4, <3>1, <3>2, <4>1, <4>2
    <3>3. CASE events[i].to \in {"rejected", "superseded"}
      <4>1. \A j \in (i + 1)..(n - 1) : events[j].revision # events[i].revision
        BY <1>4, <3>1, <3>3 DEF IInvRevisions, PublicationWasApproved
      <4>2. events[i].revision # r
        BY <1>7, <3>1, <3>3
      <4> QED
        BY <1>4, <3>1, <3>3, <4>1, <4>2
    <3> QED
      BY <3>1, <3>2, <3>3
  <2> QED
    BY <2>1, <2>2
<1> QED
  BY <1>4, <1>8, <1>9, <1>10 DEF IInvRevisions

LEMMA NextKeepsIInvRevisions ==
    IInvRevisions /\ [NextRevisions]_events => IInvRevisions'
<1> SUFFICES ASSUME IInvRevisions, [NextRevisions]_events PROVE IInvRevisions'
  OBVIOUS
<1>1. CASE NextRevisions
  BY <1>1, AppendKeepsIInvRevisions DEF NextRevisions
<1>2. CASE UNCHANGED events
  BY <1>2 DEF IInvRevisions, HasLast, LastOf, PublishedIsReplaced,
              PublicationWasApproved
<1> QED
  BY <1>1, <1>2

(* Whatever order the events of many revisions are appended in, what is    *)
(* published was approved right before and is in a release, once, and      *)
(* nothing follows a final state (revisions.py:3-6).                       *)
THEOREM PublicationIsApproved == SpecRevisions => []PublicationWasApproved
<1>1. IInvRevisions => PublicationWasApproved
  BY DEF IInvRevisions
<1> QED
  BY InitIInvRevisions, NextKeepsIInvRevisions, <1>1, PTL DEF SpecRevisions

HIDE RevisionsAssumption

-----------------------------------------------------------------------------
(* Monitoring. *)

USE MonitoringAssumption

Applied == [ok : BOOLEAN, attempted : Nat]

TypeOKMonitoring ==
    /\ ticks \in Nat
    /\ target \in [TargetNos -> [last_successful : Nat \cup {Never},
                                 failures : Nat, due : Int]]
    /\ results \in [TargetNos -> Seq(Applied)]

(* A success on record is a result that was applied, and dates the target. *)
SuccessWasApplied ==
    \A i \in TargetNos : target[i].last_successful # Never =>
        /\ target[i].due = target[i].last_successful + Interval
        /\ \E k \in DOMAIN results[i] :
              /\ results[i][k].ok
              /\ results[i][k].attempted = target[i].last_successful

(* No run of failures at the end of the results is longer than counted. *)
FailuresAreCounted ==
    \A i \in TargetNos, n \in Nat : FailedLast(i, n) => n <= target[i].failures

IInvMonitoring == /\ TypeOKMonitoring
                  /\ SuccessWasApplied
                  /\ FailuresAreCounted

LEMMA InitIInvMonitoring == InitMonitoring => IInvMonitoring
<1> SUFFICES ASSUME InitMonitoring PROVE IInvMonitoring
  OBVIOUS
<1>1. TypeOKMonitoring
  BY DEF InitMonitoring, TypeOKMonitoring, Never
<1>2. SuccessWasApplied
  BY DEF InitMonitoring, SuccessWasApplied
<1>3. FailuresAreCounted
  BY DEF InitMonitoring, FailuresAreCounted, FailedLast
<1> QED
  BY <1>1, <1>2, <1>3 DEF IInvMonitoring

LEMMA ApplyKeepsIInvMonitoring ==
    ASSUME IInvMonitoring, NEW i \in TargetNos, NEW ok \in BOOLEAN,
           NEW attempted \in Nat, ApplyCheck(i, ok, attempted)
    PROVE  IInvMonitoring'
<1> DEFINE result == [ok |-> ok, attempted |-> attempted]
           newest  == Len(results[i]) + 1
<1> USE DEF IInvMonitoring
<1>1. /\ results[i] \in Seq(Applied)
      /\ result \in Applied
      /\ results'[i] = Append(results[i], result)
      /\ Len(results'[i]) = newest
      /\ results'[i][newest] = result
      /\ \A k \in DOMAIN results[i] : results'[i][k] = results[i][k]
      /\ results'[i] \in Seq(Applied)
  BY DEF ApplyCheck, TypeOKMonitoring, Applied
<1>2. \A j \in TargetNos \ {i} : /\ results'[j] = results[j]
                                 /\ target'[j] = target[j]
  BY DEF ApplyCheck, TypeOKMonitoring
<1>3. ok => target'[i] = [last_successful |-> attempted, failures |-> 0,
                          due |-> attempted + Interval]
  BY DEF ApplyCheck, TypeOKMonitoring, Succeeded
<1>4. ~ok => /\ target'[i].last_successful = target[i].last_successful
             /\ target'[i].due = target[i].due
             /\ target'[i].failures = target[i].failures + 1
             /\ target'[i] \in [last_successful : Nat \cup {Never},
                                failures : Nat, due : Int]
  <2>1. target[i] \in [last_successful : Nat \cup {Never},
                       failures : Nat, due : Int]
    BY DEF TypeOKMonitoring
  <2>2. ~ok => target'[i] = [target[i] EXCEPT !.failures = target[i].failures + 1]
    BY DEF ApplyCheck, TypeOKMonitoring, Failed
  <2>3. target[i].failures + 1 \in Nat
    BY <2>1
  <2> QED
    BY <2>1, <2>2, <2>3
<1>5. TypeOKMonitoring'
  <2>1. target'[i] \in [last_successful : Nat \cup {Never},
                        failures : Nat, due : Int]
    BY <1>3, <1>4
  <2> QED
    BY <1>1, <1>2, <2>1 DEF ApplyCheck, TypeOKMonitoring
<1>6. SuccessWasApplied'
  <2>1. CASE ok
    <3>1. newest \in DOMAIN results'[i]
      BY <1>1
    <3>2. results'[i][newest].ok /\ results'[i][newest].attempted = attempted
      BY <1>1, <2>1
    <3>3. /\ target'[i].last_successful = attempted
          /\ target'[i].due = attempted + Interval
      BY <1>3, <2>1
    <3>4. /\ target'[i].due = target'[i].last_successful + Interval
          /\ \E k \in DOMAIN results'[i] :
                /\ results'[i][k].ok
                /\ results'[i][k].attempted = target'[i].last_successful
      BY <3>1, <3>2, <3>3
    <3> QED
      BY <1>2, <3>4 DEF SuccessWasApplied
  <2>2. CASE ~ok
    <3>1. DOMAIN results[i] \subseteq DOMAIN results'[i]
      BY <1>1
    <3>2. \A j \in TargetNos \ {i} :
             /\ target'[j] = target[j]
             /\ results'[j] = results[j]
      BY <1>2
    <3>3. ASSUME target'[i].last_successful # Never
          PROVE  /\ target'[i].due = target'[i].last_successful + Interval
                 /\ \E k \in DOMAIN results'[i] :
                       /\ results'[i][k].ok
                       /\ results'[i][k].attempted
                              = target'[i].last_successful
      <4>1. /\ target[i].due = target[i].last_successful + Interval
            /\ \E k \in DOMAIN results[i] :
                  /\ results[i][k].ok
                  /\ results[i][k].attempted = target[i].last_successful
        BY <1>4, <2>2, <3>3 DEF SuccessWasApplied
      <4> QED
        BY <1>1, <1>4, <2>2, <3>1, <4>1
    <3> QED
      BY <3>2, <3>3 DEF SuccessWasApplied
  <2> QED
    BY <2>1, <2>2
<1>7. FailuresAreCounted'
  <2>1. ASSUME NEW n \in Nat, FailedLast(i, n)', n # 0
        PROVE  ~ok /\ FailedLast(i, n - 1)
    <3>1. newest \in (Len(results'[i]) - n + 1)..Len(results'[i])
      BY <1>1, <2>1
    <3>2. ~ok
      BY <1>1, <2>1, <3>1 DEF FailedLast
    <3>3. Len(results[i]) >= n - 1
      BY <1>1, <2>1 DEF FailedLast
    <3>4. \A k \in (Len(results[i]) - (n - 1) + 1)..Len(results[i]) :
             ~results[i][k].ok
      BY <1>1, <2>1, <3>3 DEF FailedLast
    <3> QED
      BY <3>2, <3>3, <3>4 DEF FailedLast
  <2>2. \A n \in Nat : FailedLast(i, n)' => n <= target'[i].failures
    <3> SUFFICES ASSUME NEW n \in Nat, FailedLast(i, n)', n # 0
                 PROVE  n <= target'[i].failures
      BY <1>5 DEF TypeOKMonitoring
    <3>1. ~ok /\ FailedLast(i, n - 1)
      BY <2>1
    <3>2. n - 1 \in Nat
      OBVIOUS
    <3>3. n - 1 <= target[i].failures
      BY <3>1, <3>2 DEF FailuresAreCounted
    <3>4. target[i].failures \in Nat
      BY DEF TypeOKMonitoring
    <3> QED
      BY <1>4, <3>1, <3>3, <3>4
  <2>3. \A j \in TargetNos \ {i}, n \in Nat :
           FailedLast(j, n)' => n <= target'[j].failures
    BY <1>2 DEF FailuresAreCounted, FailedLast
  <2> QED
    BY <2>2, <2>3 DEF FailuresAreCounted
<1> QED
  BY <1>5, <1>6, <1>7

LEMMA NextKeepsIInvMonitoring ==
    ASSUME IInvMonitoring, [NextMonitoring]_monitoringVars
    PROVE  IInvMonitoring'
<1>1. ASSUME NEW i \in TargetNos, NEW ok \in BOOLEAN,
             NEW attempted \in 0..ticks, ApplyCheck(i, ok, attempted)
      PROVE  IInvMonitoring'
  <2>1. attempted \in Nat
    BY DEF IInvMonitoring, TypeOKMonitoring
  <2> QED
    BY <1>1, <2>1, ApplyKeepsIInvMonitoring
<1>2. CASE Tick \/ UNCHANGED monitoringVars
  <2>1. /\ ticks' \in Nat
        /\ UNCHANGED <<target, results>>
    BY <1>2 DEF Tick, monitoringVars, IInvMonitoring, TypeOKMonitoring
  <2> QED
    BY <2>1 DEF IInvMonitoring, TypeOKMonitoring, SuccessWasApplied,
       FailuresAreCounted, FailedLast
<1> QED
  BY <1>1, <1>2 DEF NextMonitoring

-----------------------------------------------------------------------------

LEMMA SeverityOfFreshness ==
    ASSUME IInvMonitoring, NEW i \in TargetNos
    PROVE  /\ Severity(Freshness(i)) \in 0..3
           /\ Severity(Freshness(i)) = 0 <=> Freshness(i) = "current"
<1>1. Freshness(i) \in {"unmonitored", "monitoring_degraded", "current",
                        "stale", "overdue"}
  BY DEF Freshness
<1> QED
  BY <1>1 DEF Severity

(* There is a worst target: severities are bounded, positions have a least. *)
LEMMA WorstIsWorst ==
    ASSUME IInvMonitoring, TargetNos # {}
    PROVE  /\ Worst \in TargetNos
           /\ \A j \in TargetNos :
                 Severity(Freshness(j)) <= Severity(Freshness(Worst))
<1> DEFINE Sev(i) == Severity(Freshness(i))
           Gap == {3 - Sev(i) : i \in TargetNos}
<1>1. \A i \in TargetNos : Sev(i) \in 0..3
  BY SeverityOfFreshness
<1> HIDE DEF Sev
<1>2. PICK g \in Gap : \A h \in Gap : g <= h
  <2>1. Gap \in SUBSET Nat /\ Gap # {}
    BY <1>1
  <2> QED
    BY <2>1, NatHasMinimum
<1>3. PICK top \in TargetNos : g = 3 - Sev(top)
  OBVIOUS
<1>4. \A j \in TargetNos : Sev(j) <= Sev(top)
  <2>1. \A j \in TargetNos : g <= 3 - Sev(j)
    BY <1>2
  <2> QED
    BY <1>1, <1>3, <2>1
<1> DEFINE Tops == {i \in TargetNos : Sev(i) = Sev(top)}
<1>5. PICK first \in Tops : \A i \in Tops : first <= i
  <2>1. Tops \in SUBSET Nat /\ Tops # {}
    BY DEF TargetNos
  <2> QED
    BY <2>1, NatHasMinimum
<1>6. \A j \in TargetNos : \/ Sev(j) < Sev(first)
                           \/ Sev(j) = Sev(first) /\ first <= j
  BY <1>1, <1>4, <1>5
<1>7. /\ Worst \in TargetNos
      /\ \A j \in TargetNos : \/ Sev(j) < Sev(Worst)
                              \/ Sev(j) = Sev(Worst) /\ Worst <= j
  BY <1>6 DEF Worst, Sev
<1>8. \A j \in TargetNos : Sev(j) <= Sev(Worst)
  BY <1>1, <1>7
<1> QED
  BY <1>7, <1>8 DEF Sev

LEMMA InvariantIsEarned == IInvMonitoring => FreshnessIsEarned
<1> SUFFICES ASSUME IInvMonitoring PROVE FreshnessIsEarned
  OBVIOUS
<1>1. ASSUME RecordFreshness = "current", NEW i \in TargetNos
      PROVE  /\ \E k \in DOMAIN results[i] :
                   /\ results[i][k].ok
                   /\ ticks - results[i][k].attempted <= Interval
             /\ ~FailedLast(i, FailureLimit)
  <2>1. Freshness(Worst) = "current" /\ Worst \in TargetNos
    BY <1>1, WorstIsWorst DEF RecordFreshness
  <2>2. Severity(Freshness(i)) = 0
    BY <2>1, SeverityOfFreshness, WorstIsWorst
  <2>3. Freshness(i) = "current"
    BY <2>2, SeverityOfFreshness
  <2>4. /\ target[i].last_successful # Never
        /\ ~(target[i].failures >= FailureLimit)
        /\ ticks <= target[i].due
    BY <2>3 DEF Freshness
  <2>5. PICK k \in DOMAIN results[i] :
               /\ results[i][k].ok
               /\ results[i][k].attempted + Interval = target[i].due
    BY <2>4 DEF IInvMonitoring, SuccessWasApplied
  <2>6. results[i][k].attempted \in Nat /\ ticks \in Nat
    <3>1. results[i] \in Seq(Applied) /\ ticks \in Nat
      BY DEF IInvMonitoring, TypeOKMonitoring
    <3>2. results[i][k] \in Applied
      BY <3>1
    <3> QED
      BY <3>1, <3>2 DEF Applied
  <2>7. ticks - results[i][k].attempted <= Interval
    BY <2>4, <2>5, <2>6
  <2>8. ~FailedLast(i, FailureLimit)
    BY <2>4 DEF IInvMonitoring, TypeOKMonitoring, FailuresAreCounted
  <2> QED
    BY <2>5, <2>7, <2>8
<1>2. ASSUME NEW i \in TargetNos, NEW j \in WorstTargets
      PROVE  Severity(Freshness(i)) <= Severity(Freshness(j))
  BY WorstIsWorst DEF WorstTargets, RecordFreshness
<1> QED
  BY <1>1, <1>2 DEF FreshnessIsEarned

(* For any targets, intervals and limits, and whatever order results come  *)
(* in: a record is called current only if every target succeeded within    *)
(* the interval and has not failed to the limit since, and the target that *)
(* names a record's freshness stands worst (monitoring.py:3-7).            *)
THEOREM FreshnessIsNeverGiven == SpecMonitoring => []FreshnessIsEarned
  BY InitIInvMonitoring, NextKeepsIInvMonitoring, InvariantIsEarned, PTL
  DEF SpecMonitoring

HIDE MonitoringAssumption

=============================================================================
