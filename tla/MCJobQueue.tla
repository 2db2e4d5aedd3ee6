----------------------------- MODULE MCJobQueue -----------------------------
(* Small instances of JobQueue. *)
EXTENDS JobQueue, TLC

CONSTANTS w1, w2, k1, k2

MCWorkers == {w1, w2}
MCKeys == {k1, k2}
MCJobs == {1, 2}

Symmetric == Permutations(MCWorkers) \cup Permutations(MCKeys)

=============================================================================
