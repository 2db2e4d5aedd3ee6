------------------------------ MODULE JobQueue ------------------------------
(***************************************************************************)
(* The durable PostgreSQL job queue (jobs.py over the jobs table of        *)
(* db.py).  Every call runs in a transaction of its own at PostgreSQL's    *)
(* default isolation, READ COMMITTED: a statement sees what is committed   *)
(* when it starts, an UPDATE waits for a row another transaction locks.    *)
(*                                                                         *)
(*  - enqueue, complete and fail read with a plain SELECT and write with a *)
(*    second statement: two steps, anything may commit in between;         *)
(*  - lease reads FOR UPDATE SKIP LOCKED and so holds the row from its     *)
(*    SELECT to its commit: two steps as well, but the row is locked;      *)
(*  - heartbeat and requeue_due are a single UPDATE each: one step.        *)
(*                                                                         *)
(* A call that raises changes nothing and is not a step.                   *)
(***************************************************************************)
EXTENDS Integers, StateMachines

CONSTANTS Jobs,             \* the job ids (ORDER BY job_id: numbers)
          Workers,          \* the processes that call the queue
          Keys,             \* idempotency keys
          None,             \* SQL NULL
          AttemptLimits,    \* the max_attempts callers pass
          LeaseTerm,        \* lease_until - now
          RetryDelay,       \* retry_at - now
          MaxTime,          \* bound on the clock
          Timely            \* TRUE: callers report only under a live lease
                            \* and the call ends before the lease expires

ASSUME JobQueueAssumption ==
    /\ Jobs \subseteq Nat
    /\ None \notin Workers \cup Keys \cup Jobs \cup Nat
    /\ AttemptLimits \subseteq Nat
    /\ LeaseTerm \in Nat
    /\ RetryDelay \in Nat
    /\ MaxTime \in Nat
    /\ Timely \in BOOLEAN

VARIABLES row,      \* row[j]: the committed row of the jobs table
          call,     \* call[w]: the transaction worker w has open
          clock,    \* the time callers pass as "now"
          grants    \* history: how often lease handed out job j

vars == <<row, call, clock, grants>>

States == DOMAIN JOB

Row == [state            : States \cup {"absent"},
        idempotency_key  : Keys \cup {None},
        lease_owner      : Workers \cup {None},
        lease_expires_at : Nat \cup {None},
        attempts         : Nat,
        max_attempts     : Nat,
        retry_at         : Nat \cup {None}]

NoRow == [state |-> "absent", idempotency_key |-> None, lease_owner |-> None,
          lease_expires_at |-> None, attempts |-> 0, max_attempts |-> 0,
          retry_at |-> None]

(* What a transaction carries from its first statement to its second:      *)
(* the row it means, the key it inserts, a count it read or was given      *)
(* (attempts, max_attempts), a time it was given (now, retry_at).          *)
Reports == {"complete", "retry", "dead_letter"}

Call == [op    : {"idle", "enqueue", "lease"} \cup Reports,
         job   : Jobs \cup {None},
         key   : Keys \cup {None},
         count : Nat,
         at    : Nat]

Open(op, job, key, count, at) ==
    [op |-> op, job |-> job, key |-> key, count |-> count, at |-> at]

Idle == Open("idle", None, None, 0, 0)

TypeOK == /\ row \in [Jobs -> Row]
          /\ call \in [Workers -> Call]
          /\ clock \in Nat
          /\ grants \in [Jobs -> Nat]

Init == /\ row = [j \in Jobs |-> NoRow]
        /\ call = [w \in Workers |-> Idle]
        /\ clock = 0
        /\ grants = [j \in Jobs |-> 0]

-----------------------------------------------------------------------------

Exists(j) == row[j].state # "absent"

KeyTaken(k) == \E j \in Jobs : Exists(j) /\ row[j].idempotency_key = k

(* The unique constraint on idempotency_key refuses an INSERT. *)
NoConstraint(k) == FALSE                                            \* mutant
ViolatesUnique(k) == KeyTaken(k)

(* The row lock SELECT ... FOR UPDATE holds until the leaser commits. *)
PlainSelect(j) == FALSE                                             \* mutant
Locked(j) == \E w \in Workers : call[w].op = "lease" /\ call[w].job = j

ExpiredTooSoon(j) == /\ row[j].lease_expires_at # None              \* mutant
                     /\ row[j].lease_expires_at <= clock
Expired(j) == /\ row[j].lease_expires_at # None     \* NULL < now is not true
              /\ row[j].lease_expires_at < clock

LeasableAnyTime(j) == row[j].state \in {"ready", "leased"}          \* mutant
Leasable(j) == \/ row[j].state = "ready"
               \/ row[j].state = "leased" /\ Expired(j)

HoldsLease(w, j) == row[j].state = "leased" /\ row[j].lease_owner = w

(* The owner check of complete and fail. *)
AnyOwner(w, j) == TRUE                                              \* mutant
IsOwner(w, j) == row[j].lease_owner = w

ExhaustedTooSoon(j) == row[j].attempts + 1 >= row[j].max_attempts   \* mutant
ExhaustedTooLate(j) == row[j].attempts > row[j].max_attempts        \* mutant
Exhausted(j) == row[j].attempts >= row[j].max_attempts

(* A row after an UPDATE. *)
Written(r, state, owner, expires, attempts, retry_at) ==
    [state |-> state, lease_owner |-> owner, lease_expires_at |-> expires,
     attempts |-> attempts, retry_at |-> retry_at,
     idempotency_key |-> r.idempotency_key, max_attempts |-> r.max_attempts]

(* What the UPDATE of complete and of fail makes of a row. *)
ReportedKeepsOwner(r, target, retry_at) ==                          \* mutant
    Written(r, target, r.lease_owner, None, r.attempts, retry_at)
ReportedUndated(r, target, retry_at) ==                             \* mutant
    Written(r, target, None, None, r.attempts, r.retry_at)
ReportedUnlisted(r, target, retry_at) ==                            \* mutant
    Written(r, "failed", None, None, r.attempts, retry_at)
Reported(r, target, retry_at) ==
    Written(r, target, None, None, r.attempts, retry_at)

Begin(w, c) == call[w] = Idle /\ call' = [call EXCEPT ![w] = c]
End(w)      == call' = [call EXCEPT ![w] = Idle]

-----------------------------------------------------------------------------

(* enqueue, its SELECT: the key is not there yet.  A key that is there     *)
(* returns the existing job id and writes nothing.                         *)
EnqueueSelect(w, k, limit) ==
    /\ ~KeyTaken(k)
    /\ Begin(w, Open("enqueue", None, k, limit, 0))
    /\ UNCHANGED <<row, clock, grants>>

(* enqueue, its INSERT under a fresh random id.  The unique constraint on  *)
(* idempotency_key fails the whole transaction if the key came in between. *)
EnqueueInsert(w, j) ==
    /\ call[w].op = "enqueue"
    /\ ~Exists(j)
    /\ row' = IF ViolatesUnique(call[w].key)
              THEN row
              ELSE [row EXCEPT ![j] = [NoRow EXCEPT
                        !.state = "ready",
                        !.idempotency_key = call[w].key,
                        !.max_attempts = call[w].count]]
    /\ End(w)
    /\ UNCHANGED <<clock, grants>>

(* lease, its SELECT ... ORDER BY job_id LIMIT 1 FOR UPDATE SKIP LOCKED. *)
LeaseSelect(w, j) ==
    /\ Leasable(j) /\ ~Locked(j)
    /\ \A i \in Jobs : i < j => Locked(i) \/ ~Leasable(i)
    /\ Begin(w, Open("lease", j, None, row[j].attempts, clock))
    /\ UNCHANGED <<row, clock, grants>>

(* lease, its UPDATE and commit. *)
LeaseUpdate(w) ==
    LET j == call[w].job IN
    /\ call[w].op = "lease"
    /\ row[j].state = "ready" => Transition(JOB, "ready", "leased")
    /\ row' = [row EXCEPT ![j] =
                  Written(@, "leased", w, call[w].at + LeaseTerm,
                          call[w].count + 1, @.retry_at)]
    /\ grants' = [grants EXCEPT ![j] = @ + 1]
    /\ End(w)
    /\ UNCHANGED clock

(* heartbeat: one UPDATE that names job, owner and state; no rowcount of   *)
(* one, no effect.  It does not look at the expiry it extends.             *)
Heartbeat(w, j) ==
    /\ call[w] = Idle
    /\ ~Locked(j) /\ HoldsLease(w, j)
    /\ row' = [row EXCEPT ![j].lease_expires_at = clock + LeaseTerm]
    /\ UNCHANGED <<call, clock, grants>>

(* The SELECT of complete and of fail, with the checks on the row it read. *)
ReportSelect(w, j, target, c) ==
    /\ Transition(JOB, row[j].state, target)
    /\ IsOwner(w, j)
    /\ Timely => ~Expired(j)
    /\ Begin(w, c)
    /\ UNCHANGED <<row, clock, grants>>

(* complete on a row that is already completed returns and writes nothing. *)
CompleteSelect(w, j) ==
    ReportSelect(w, j, "completed", Open("complete", j, None, 0, 0))

FailSelect(w, j) ==
    IF Exhausted(j)
    THEN ReportSelect(w, j, "dead_lettered",
                      Open("dead_letter", j, None, 0, 0))
    ELSE ReportSelect(w, j, "retry_scheduled",
                      Open("retry", j, None, 0, clock + RetryDelay))

(* The UPDATE of complete and of fail names the row by job_id alone: it    *)
(* waits for a leaser's lock and then overwrites whatever is there.        *)
ReportUpdate(w, op, target, retry_at) ==
    LET j == call[w].job IN
    /\ call[w].op = op
    /\ ~Locked(j)
    /\ row' = [row EXCEPT ![j] = Reported(@, target, retry_at)]
    /\ End(w)
    /\ UNCHANGED <<clock, grants>>

CompleteUpdate(w) ==
    ReportUpdate(w, "complete", "completed", row[call[w].job].retry_at)

FailUpdate(w) ==
    \/ ReportUpdate(w, "dead_letter", "dead_lettered",
                    row[call[w].job].retry_at)
    \/ ReportUpdate(w, "retry", "retry_scheduled", call[w].at)

(* requeue_due: one UPDATE over every due row. *)
Due(j) == /\ row[j].state = "retry_scheduled"
          /\ row[j].retry_at # None
          /\ row[j].retry_at <= clock

RequeueDue ==
    /\ \E j \in Jobs : Due(j)
    /\ row' = [j \in Jobs |->
                 IF Due(j)
                 THEN Written(row[j], "ready", row[j].lease_owner,
                              row[j].lease_expires_at, row[j].attempts, None)
                 ELSE row[j]]
    /\ UNCHANGED <<call, clock, grants>>

(* A worker dies, or its connection drops, with a transaction open: the    *)
(* database rolls back, which releases the lock.  A worker that dies       *)
(* between two calls is a worker that takes no further step.               *)
Crash(w) ==
    /\ call[w] # Idle
    /\ End(w)
    /\ UNCHANGED <<row, clock, grants>>

(* Time passes.  Under Timely a report that is under way is not overtaken  *)
(* by the expiry of the lease it reports on.                               *)
Tick ==
    /\ clock < MaxTime
    /\ Timely => \A w \in Workers : call[w].op \in Reports =>
                     row[call[w].job].lease_expires_at > clock
    /\ clock' = clock + 1
    /\ UNCHANGED <<row, call, grants>>

Next ==
    \/ \E w \in Workers :
          \/ \E k \in Keys, limit \in AttemptLimits : EnqueueSelect(w, k, limit)
          \/ \E j \in Jobs : \/ EnqueueInsert(w, j)
                             \/ LeaseSelect(w, j)
                             \/ Heartbeat(w, j)
                             \/ CompleteSelect(w, j)
                             \/ FailSelect(w, j)
          \/ LeaseUpdate(w)
          \/ CompleteUpdate(w)
          \/ FailUpdate(w)
          \/ Crash(w)
    \/ RequeueDue
    \/ Tick

Spec == Init /\ [][Next]_vars

-----------------------------------------------------------------------------
(* Properties that hold for every caller, however calls overlap. *)

(* Replaying an idempotency key creates no duplicate job, even when two    *)
(* enqueue calls both find the key missing (jobs.py:15-23, db.py:91).      *)
UniqueKeys ==
    \A i, j \in Jobs : Exists(i) /\ Exists(j) /\ i # j =>
        row[i].idempotency_key # row[j].idempotency_key

(* Every lease has an owner and an expiry, and no other row keeps a stale  *)
(* owner that heartbeat or a report could match (jobs.py:40-42, 64, 74).   *)
LeaseShape ==
    \A j \in Jobs :
        /\ row[j].state = "leased" <=> row[j].lease_owner # None
        /\ row[j].state = "leased" <=> row[j].lease_expires_at # None

(* No work is parked for good: requeue_due can find every job that waits   *)
(* for its retry, for retry_at is set (jobs.py:78-87).                     *)
RetryIsDated ==
    \A j \in Jobs : row[j].state = "retry_scheduled" => row[j].retry_at # None

(* A job is given up only after it used all its attempts, whichever lease  *)
(* the failing worker held when it read the counter (jobs.py:72-76).       *)
DeadLetterAtLimit ==
    \A j \in Jobs : row[j].state = "dead_lettered" =>
        row[j].attempts >= row[j].max_attempts

(* attempts counts the leases handed out: the increment lease computes     *)
(* from the row it read is never lost (jobs.py:34-42).                     *)
AttemptsCountGrants == \A j \in Jobs : row[j].attempts = grants[j]

(* A worker never takes over a lease that is still running: the row lock   *)
(* keeps a heartbeat from renewing the lease between the SELECT that found *)
(* it expired and the UPDATE that hands it on (jobs.py:28-42, 47-53).      *)
TakeoverOnlyAfterExpiry ==
    [][\A j \in Jobs, v, w \in Workers :
          HoldsLease(v, j) /\ v # w /\ HoldsLease(w, j)' => Expired(j)]_vars

-----------------------------------------------------------------------------
(* The inductive invariant: what an open call may rely on about the row it *)
(* means.  The lock keeps a leaser's row as its SELECT found it; a report  *)
(* keeps no more than the row's existence and its used-up attempts, unless *)
(* callers are Timely.                                                     *)
LeaserHoldsRow ==
    \A w \in Workers : call[w].op = "lease" =>
        /\ call[w].job \in Jobs
        /\ Leasable(call[w].job)
        /\ call[w].count = row[call[w].job].attempts

OneLeaserPerRow ==
    \A v, w \in Workers : call[v].op = "lease" /\ call[w].op = "lease"
                            /\ call[v].job = call[w].job => v = w

ReportHasRow ==
    \A w \in Workers : call[w].op \in Reports =>
        /\ call[w].job \in Jobs
        /\ Exists(call[w].job)
        /\ call[w].op = "dead_letter" => Exhausted(call[w].job)

TimelyReportHoldsLease ==
    Timely => \A w \in Workers : call[w].op \in Reports =>
                  HoldsLease(w, call[w].job) /\ ~Expired(call[w].job)

FreshIdIsUntried == \A j \in Jobs : ~Exists(j) => row[j].attempts = 0

IInv == /\ LeaserHoldsRow
        /\ OneLeaserPerRow
        /\ ReportHasRow
        /\ TimelyReportHoldsLease
        /\ UniqueKeys
        /\ LeaseShape
        /\ RetryIsDated
        /\ DeadLetterAtLimit
        /\ AttemptsCountGrants
        /\ FreshIdIsUntried

-----------------------------------------------------------------------------
(* Properties that hold when callers are Timely and not otherwise. *)

(* The queue keeps to the JOB table of states.py. *)
Lifecycle == INSTANCE JobLifecycle WITH state <- [j \in Jobs |-> row[j].state]
KeepsJobTable == Lifecycle!Spec

(* Completion is final: no call brings a completed job back, so its work   *)
(* is not done a second time (states.py:56, jobs.py:56-81).                *)
CompletedIsFinal ==
    [][\A j \in Jobs : row[j].state = "completed" =>
          row'[j].state = "completed"]_vars

(* The limit is met exactly: a job is given up with no try left, and one   *)
(* that was tried waits for another, scheduled or due, only with a try     *)
(* left.  fail counts on the row its SELECT read; a lease granted before   *)
(* its UPDATE would use that try up (jobs.py:72-76, 78-87).                *)
TriesEndAtLimit ==
    \A j \in Jobs :
        /\ row[j].state = "dead_lettered" =>
              row[j].attempts >= row[j].max_attempts
        /\ row[j].state = "retry_scheduled" =>
              row[j].attempts < row[j].max_attempts
        /\ row[j].state = "ready" /\ row[j].attempts > 0 =>
              row[j].attempts < row[j].max_attempts

(* A lease that is still running is ended by its holder and nobody else    *)
(* ("failure report from non-lease-holder", jobs.py:62-63, 70-71): the     *)
(* worker whose transaction ends is the owner.                             *)
LiveLeaseEndsByHolder ==
    [][\A j \in Jobs, w \in Workers :
          HoldsLease(w, j) /\ ~Expired(j) /\ ~HoldsLease(w, j)' =>
              call[w].job = j /\ call'[w] = Idle]_vars

=============================================================================
