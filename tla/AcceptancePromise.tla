------------------------- MODULE AcceptancePromise -------------------------
(***************************************************************************)
(* What the operational database promises about acceptances: "every domain *)
(* change commits atomically with its audit event and any follow-up job    *)
(* row" (db.py:6-8).  One step accepts: the assertion, its decision, its   *)
(* place at the end of the audit chain and its follow-up job, or nothing.  *)
(***************************************************************************)
EXTENDS Sequences

CONSTANTS Requests, None

VARIABLES accepted,     \* the requests whose decision and assertion exist
          ledger,       \* the audit chain, oldest first
          followUps     \* the idempotency keys in the job table

vars == <<accepted, ledger, followUps>>

Init == accepted = {} /\ ledger = <<>> /\ followUps = {}

Accept(r) ==
    /\ \A q \in accepted : q.decision # r.decision /\ q.assertion # r.assertion
    /\ accepted' = accepted \cup {r}
    /\ ledger' = Append(ledger, r.decision)
    /\ followUps' = followUps \cup ({r.job} \ {None})

Next == \E r \in Requests : Accept(r)

Spec == Init /\ [][Next]_vars

=============================================================================
