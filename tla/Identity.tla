------------------------------ MODULE Identity ------------------------------
(***************************************************************************)
(* Exact identity resolution (identity.py).  Descriptions of matters come  *)
(* in any order, each with some identifiers of three kinds, in any         *)
(* spelling, and perhaps the hash of a document.  The resolver gives all   *)
(* identifiers of one matter one record id, the hash of one of its keys;   *)
(* a record id is therefore named by that key here.                        *)
(*                                                                         *)
(* A call that raises before it changed anything is not a step.            *)
(***************************************************************************)
EXTENDS Integers, FiniteSets

CONSTANTS Spellings,    \* identifier values as they come
          KeyOf,        \* the identity key of each: kind and normal form
          Keys,         \* the identity keys
          Rank,         \* where a key stands: by kind, then alphabetically
          NoRecord,     \* what a key without a record has
          Documents     \* artifact hashes

ASSUME IdentityAssumption ==
    /\ KeyOf \in [Spellings -> Keys]
    /\ Rank \in [Keys -> Nat]
    /\ \A k, l \in Keys : Rank[k] = Rank[l] => k = l
    /\ NoRecord \notin Keys

VARIABLES by_key,       \* _by_key; NoRecord for a key without one
          aliases,      \* _aliases
          doc_index,    \* _doc_index, as pairs of hash and record id
          announced     \* history: the record ids returned as new, in a bag

identityVars == <<by_key, aliases, doc_index, announced>>

InitIdentity == /\ by_key = [k \in Keys |-> NoRecord]
                /\ aliases = [k \in Keys |-> {}]
                /\ doc_index = {}
                /\ announced = [k \in Keys |-> 0]

-----------------------------------------------------------------------------

(* _new_record_id: the strongest kind, then the smallest key. *)
NewRecordId(keys) == CHOOSE k \in keys : \A l \in keys : Rank[k] <= Rank[l]

Existing(keys) == {by_key[k] : k \in keys} \ {NoRecord}

(* The record a description belongs to; none if its keys already belong to *)
(* two records, for then resolve raises IdentityConflict.                  *)
MergesAll(keys, r) == r \in Existing(keys) \cup {NewRecordId(keys)} \* mutant
ResolvesTo(keys, r) ==
    \/ Existing(keys) = {r}
    \/ Existing(keys) = {} /\ r = NewRecordId(keys)

Link(documents, r) == doc_index' = doc_index \cup (documents \X {r})

(* resolve: it registers the keys first and then the documents, up to the  *)
(* first malformed hash, where it raises; what was registered stays.       *)
AlwaysNew(r) == TRUE                                                \* mutant
IsNew(r) == aliases[r] = {}

Resolve(spellings, documents, malformed, r) ==
    LET keys == {KeyOf[s] : s \in spellings} IN
    /\ keys # {}
    /\ ResolvesTo(keys, r)
    /\ by_key' = [k \in Keys |-> IF k \in keys THEN r ELSE by_key[k]]
    /\ aliases' = [aliases EXCEPT ![r] = @ \cup keys]
    /\ Link(documents, r)
    /\ announced' = IF IsNew(r) /\ ~malformed
                    THEN [announced EXCEPT ![r] = @ + 1] ELSE announced

(* link_document takes any record id, known or not. *)
LinkDocument(document, r) == /\ Link({document}, r)
                             /\ UNCHANGED <<by_key, aliases, announced>>

NextIdentity ==
    \/ \E spellings \in SUBSET Spellings, documents \in SUBSET Documents,
          malformed \in BOOLEAN, r \in Keys :
          Resolve(spellings, documents, malformed, r)
    \/ \E document \in Documents, r \in Keys : LinkDocument(document, r)

SpecIdentity == InitIdentity /\ [][NextIdentity]_identityVars

-----------------------------------------------------------------------------

(* Whatever the order of arrivals, _by_key and _aliases are two views of   *)
(* one partition of the keys, and the key a record id was derived from     *)
(* belongs to that record: so a new record never gets the id of another    *)
(* one (identity.py:60-67, 90-98).                                         *)
RecordsPartitionKeys ==
    \A r \in Keys :
        /\ aliases[r] = {k \in Keys : by_key[k] = r}
        /\ aliases[r] # {} => r \in aliases[r]

(* No caller is told twice that a record is new, so none is created twice, *)
(* however descriptions overlap or a call failed half-way                  *)
(* (identity.py:94).                                                       *)
NewOnlyOnce == \A r \in Keys : announced[r] <= 1

IdentityIsSound == RecordsPartitionKeys /\ NewOnlyOnce

(* "the same identifier always resolves to the same record_id" and "No     *)
(* destructive merge" (identity.py:7-12): a key that has a record keeps it.*)
IdentityIsStable ==
    [][\A k \in Keys : by_key[k] # NoRecord => by_key'[k] = by_key[k]]_identityVars

=============================================================================
