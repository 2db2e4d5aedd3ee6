--------------------------- MODULE MCAuditLedger ---------------------------
(* Small instances of AuditLedger. *)
EXTENDS AuditLedger

CONSTANTS d1, d2, d3, d4, a1, a2, a3, p1, p2, k1

Request(d, a, p, k) == [decision |-> d, assertion |-> a, proposal |-> p, job |-> k]

(* Two acceptances with the same follow-up job, one without a job on a     *)
(* proposal of its own, and one that reuses an assertion id.               *)
MCRequests == {Request(d1, a1, p1, k1), Request(d2, a2, p1, k1),
               Request(d3, a1, p2, None)}

(* Three acceptances can commit one after the other, so that the oldest    *)
(* event and the last one differ when the third is written.                *)
MCRequestsInTurn == MCRequests \cup {Request(d4, a3, p2, None)}

=============================================================================
