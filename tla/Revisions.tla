------------------------------ MODULE Revisions ------------------------------
(***************************************************************************)
(* Lifecycle events of record revisions (revisions.py).  One list holds    *)
(* the events of all revisions; a revision's state is derived from it.     *)
(* Reviewers and the release process append in any order.                  *)
(***************************************************************************)
EXTENDS Integers, Sequences, StateMachines

CONSTANTS Revision,     \* the ids of record revisions
          Releases,     \* the ids of releases
          NoRelease,    \* release_id left out
          MaxEvents     \* bound on the events

ASSUME RevisionsAssumption == NoRelease \notin Releases /\ MaxEvents \in Nat

VARIABLE events

InitRevisions == events = <<>>

(* derive_state: where the revision's last event led. *)
LastOfAll(r, i) == i \in DOMAIN events /\ i = Len(events)            \* mutant
LastOf(r, i) == /\ i \in DOMAIN events
                /\ events[i].revision = r
                /\ \A j \in (i + 1)..Len(events) : events[j].revision # r

DerivedState(r) == IF \E i \in DOMAIN events : LastOf(r, i)
                   THEN events[CHOOSE i \in DOMAIN events : LastOf(r, i)].to
                   ELSE "draft"

AppendLifecycleEvent(r, to, release) ==
    /\ Len(events) < MaxEvents
    /\ Transition(REVISION, DerivedState(r), to)
    /\ to = "published" => release # NoRelease
    /\ events' = Append(events, [revision |-> r, from |-> DerivedState(r),
                                 to |-> to, release |-> release])

NextRevisions ==
    \E r \in Revision, to \in DOMAIN REVISION,
       release \in Releases \cup {NoRelease} :
       AppendLifecycleEvent(r, to, release)

SpecRevisions == InitRevisions /\ [][NextRevisions]_events

-----------------------------------------------------------------------------

(* "Displayed workflow state is derived from append-only lifecycle events; *)
(* publication is release inclusion" (revisions.py:3-6).  Seen from the    *)
(* list alone, however the events of several revisions interleave: what is *)
(* published was approved in review right before, is in a release, and is  *)
(* published once; what was rejected or superseded has no later event.     *)
PublicationWasApproved ==
    \A i \in DOMAIN events :
        LET e     == events[i]
            Mine(j) == events[j].revision = e.revision
        IN  /\ e.to = "published" =>
                  /\ e.release # NoRelease
                  /\ \E j \in 1..(i - 1) :
                        /\ Mine(j) /\ events[j].to = "approved"
                        /\ \A k \in (j + 1)..(i - 1) : ~Mine(k)
                  /\ \A j \in DOMAIN events :
                        Mine(j) /\ events[j].to = "published" => j = i
            /\ e.to \in {"rejected", "superseded"} =>
                  \A j \in (i + 1)..Len(events) : ~Mine(j)

=============================================================================
