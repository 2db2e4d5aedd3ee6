--------------------------- MODULE JobQueueProofs ---------------------------
(***************************************************************************)
(* Theorems about JobQueue for any number of jobs, workers and keys, any   *)
(* lease term, retry delay and length of the run.                          *)
(***************************************************************************)
EXTENDS JobQueue, TLAPS

USE JobQueueAssumption

(* The states of the JOB table, and the transitions the queue uses. *)
LEMMA JobTable ==
    /\ States = {"ready", "leased", "retry_scheduled", "completed",
                 "dead_lettered", "cancelled"}
    /\ \A from \in States \cup {"absent"}, to \in
            {"completed", "retry_scheduled", "dead_lettered"} :
          Transition(JOB, from, to) <=> from = "leased"
  BY DEF States, JOB, Transition

(* The type invariant: every row, open call and counter keeps its type.    *)
LEMMA InitTypeOK == Init => TypeOK
  BY DEF Init, TypeOK, Row, NoRow, Call, Idle, Open, Reports

LEMMA RowUpdate ==
    ASSUME NEW f \in [Jobs -> Row], NEW j, NEW r, j \in Jobs => r \in Row
    PROVE  [f EXCEPT ![j] = r] \in [Jobs -> Row]
  OBVIOUS

LEMMA WrittenType ==
    ASSUME NEW r \in Row, NEW state \in States,
           NEW owner \in Workers \cup {None},
           NEW expires \in Nat \cup {None}, NEW attempts \in Nat,
           NEW retry_at \in Nat \cup {None}
    PROVE  Written(r, state, owner, expires, attempts, retry_at) \in Row
  BY DEF Written, Row

LEMMA OpenType ==
    ASSUME NEW op \in {"idle", "enqueue", "lease"} \cup Reports,
           NEW job \in Jobs \cup {None}, NEW key \in Keys \cup {None},
           NEW count \in Nat, NEW at \in Nat
    PROVE  Open(op, job, key, count, at) \in Call
  BY DEF Open, Call

LEMMA StepTypeOK == TypeOK /\ [Next]_vars => TypeOK'
<1> SUFFICES ASSUME TypeOK, [Next]_vars PROVE TypeOK'
    OBVIOUS
<1> USE JobTable DEF TypeOK
<1>a. Idle \in Call
  BY OpenType DEF Idle
<1>b. \A j \in Jobs : /\ row[j] \in Row
                      /\ row[j].attempts \in Nat
                      /\ row[j].lease_owner \in Workers \cup {None}
                      /\ row[j].lease_expires_at \in Nat \cup {None}
                      /\ row[j].retry_at \in Nat \cup {None}
  BY DEF Row
<1>c. \A w \in Workers : /\ call[w].key \in Keys \cup {None}
                         /\ call[w].count \in Nat
                         /\ call[w].at \in Nat
  BY DEF Call
<1>1. ASSUME NEW w \in Workers, NEW k \in Keys, NEW limit \in AttemptLimits,
             EnqueueSelect(w, k, limit)
      PROVE  TypeOK'
  <2>1. Open("enqueue", None, k, limit, 0) \in Call
    BY OpenType
  <2> QED
    BY <1>1, <2>1 DEF EnqueueSelect, Begin
<1>2. ASSUME NEW w \in Workers, NEW j \in Jobs, EnqueueInsert(w, j)
      PROVE  TypeOK'
  <2>2. [NoRow EXCEPT !.state = "ready", !.idempotency_key = call[w].key,
                      !.max_attempts = call[w].count] \in Row
    BY <1>c DEF Row, NoRow
  <2>3. row' \in [Jobs -> Row]
    BY <1>2, <2>2 DEF EnqueueInsert
  <2> QED
    BY <1>2, <1>a, <2>3 DEF EnqueueInsert, End
<1>3. ASSUME NEW w \in Workers, NEW j \in Jobs, LeaseSelect(w, j)
      PROVE  TypeOK'
  <2>1. Open("lease", j, None, row[j].attempts, clock) \in Call
    BY <1>b, OpenType
  <2> QED
    BY <1>3, <2>1 DEF LeaseSelect, Begin
<1>4. ASSUME NEW w \in Workers, LeaseUpdate(w)
      PROVE  TypeOK'
  <2> DEFINE j == call[w].job
             r == Written(row[j], "leased", w, call[w].at + LeaseTerm,
                          call[w].count + 1, row[j].retry_at)
  <2>1. row' = [row EXCEPT ![j] = r]
    BY <1>4 DEF LeaseUpdate
  <2>2. j \in Jobs => r \in Row
    <3>1. "leased" \in States
      OBVIOUS
    <3>2. call[w].at + LeaseTerm \in Nat /\ call[w].count + 1 \in Nat
      BY <1>c
    <3> QED
      BY <3>1, <3>2, <1>b, WrittenType
  <2>3. row' \in [Jobs -> Row]
    <3> HIDE DEF j, r
    <3> QED
      BY <2>1, <2>2, RowUpdate
  <2>4. grants' = [grants EXCEPT ![j] = grants[j] + 1]
    BY <1>4 DEF LeaseUpdate
  <2>5. grants' \in [Jobs -> Nat]
    <3> HIDE DEF j
    <3>1. CASE j \in Jobs
      <4>1. grants[j] + 1 \in Nat
        BY <3>1
      <4> QED
        BY <2>4, <3>1, <4>1
    <3>2. CASE j \notin Jobs
      BY <2>4, <3>2
    <3> QED
      BY <3>1, <3>2
  <2> QED
    BY <1>4, <1>a, <2>3, <2>5 DEF LeaseUpdate, End
<1>5. ASSUME NEW w \in Workers, NEW j \in Jobs, Heartbeat(w, j)
      PROVE  TypeOK'
  BY <1>5 DEF Heartbeat, Row
<1>6. ASSUME NEW w \in Workers, NEW j, NEW target, NEW c \in Call,
             ReportSelect(w, j, target, c)
      PROVE  TypeOK'
  BY <1>6 DEF ReportSelect, Begin
<1>7. ASSUME NEW w \in Workers, NEW j \in Jobs,
             CompleteSelect(w, j) \/ FailSelect(w, j)
      PROVE  TypeOK'
  <2>1. /\ Open("complete", j, None, 0, 0) \in Call
        /\ Open("dead_letter", j, None, 0, 0) \in Call
        /\ Open("retry", j, None, 0, clock + RetryDelay) \in Call
    <3>1. clock + RetryDelay \in Nat
      OBVIOUS
    <3> QED
      BY <3>1, OpenType DEF Reports
  <2> QED
    BY <1>6, <1>7, <2>1 DEF CompleteSelect, FailSelect
<1>8. ASSUME NEW w \in Workers, NEW op, NEW target \in States,
             NEW at, call[w].job \in Jobs => at \in Nat \cup {None},
             ReportUpdate(w, op, target, at)
      PROVE  TypeOK'
  <2> DEFINE j == call[w].job
             r == Reported(row[j], target, at)
  <2>1. row' = [row EXCEPT ![j] = r]
    BY <1>8 DEF ReportUpdate
  <2>2. j \in Jobs => r \in Row
    BY <1>8, <1>b, WrittenType DEF Reported
  <2>3. row' \in [Jobs -> Row]
    <3> HIDE DEF j, r
    <3> QED
      BY <2>1, <2>2, RowUpdate
  <2> QED
    BY <1>8, <1>a, <2>3 DEF ReportUpdate, End
<1>9. ASSUME NEW w \in Workers, CompleteUpdate(w) \/ FailUpdate(w)
      PROVE  TypeOK'
  BY <1>8, <1>9, <1>b, <1>c, JobTable DEF CompleteUpdate, FailUpdate
<1>10. ASSUME NEW w \in Workers, Crash(w)
       PROVE  TypeOK'
  BY <1>10, <1>a DEF Crash, End
<1>11. CASE RequeueDue
  <2>1. row' \in [Jobs -> Row]
    BY <1>11, <1>b, WrittenType DEF RequeueDue
  <2> QED
    BY <1>11, <2>1 DEF RequeueDue
<1>12. CASE Tick
  BY <1>12 DEF Tick
<1>13. CASE UNCHANGED vars
  BY <1>13 DEF vars
<1>14. Next => TypeOK'
  BY <1>1, <1>2, <1>3, <1>4, <1>5, <1>7, <1>9, <1>10, <1>11, <1>12
  DEF Next
<1> QED
  BY <1>13, <1>14

(* Rows and open calls keep their types in every reachable state. *)
THEOREM TypeCorrect == Spec => []TypeOK
  BY InitTypeOK, StepTypeOK, PTL DEF Spec

-----------------------------------------------------------------------------
(* The inductive invariant. *)
LEMMA InitIInv == Init => IInv
  BY DEF Init, IInv, LeaserHoldsRow, OneLeaserPerRow, ReportHasRow,
         TimelyReportHoldsLease, UniqueKeys, LeaseShape, RetryIsDated,
         DeadLetterAtLimit, AttemptsCountGrants, FreshIdIsUntried, Idle, Open, NoRow, Exists,
         Reports

(* A step that leaves the open calls and the rows that do not wait for a   *)
(* retry alone takes nothing from a leaser.                                *)
LEMMA LeaserHoldsRowKept ==
    ASSUME LeaserHoldsRow, OneLeaserPerRow, call' = call, clock' = clock,
           \A j \in Jobs : row[j].state # "retry_scheduled" => row'[j] = row[j]
    PROVE  LeaserHoldsRow' /\ OneLeaserPerRow'
<1>1. OneLeaserPerRow'
  BY DEF OneLeaserPerRow
<1>2. ASSUME NEW w \in Workers, call[w].op = "lease"
      PROVE  /\ call[w].job \in Jobs
             /\ row'[call[w].job] = row[call[w].job]
             /\ Leasable(call[w].job)
             /\ call[w].count = row[call[w].job].attempts
  BY <1>2 DEF LeaserHoldsRow, Leasable
<1>3. LeaserHoldsRow'
  BY <1>2 DEF LeaserHoldsRow, Leasable, Expired
<1> QED
  BY <1>1, <1>3

(* A step that keeps every key and count, and which ids are used, keeps    *)
(* the keys unique and the unused ids untried.                             *)
LEMMA KeysKept ==
    ASSUME UniqueKeys, FreshIdIsUntried,
           \A j \in Jobs :
              /\ row'[j].idempotency_key = row[j].idempotency_key
              /\ row'[j].attempts = row[j].attempts
              /\ row'[j].state = "absent" <=> row[j].state = "absent"
    PROVE  UniqueKeys' /\ FreshIdIsUntried'
<1>1. \A j \in Jobs : Exists(j)' <=> Exists(j)
  BY DEF Exists
<1>2. UniqueKeys'
  <2> SUFFICES ASSUME NEW i \in Jobs, NEW j \in Jobs,
                      Exists(i)', Exists(j)', i # j
               PROVE  row'[i].idempotency_key # row'[j].idempotency_key
      BY DEF UniqueKeys
  <2>1. Exists(i) /\ Exists(j)
    BY <1>1
  <2>2. row[i].idempotency_key # row[j].idempotency_key
    BY <2>1 DEF UniqueKeys
  <2> QED
    BY <2>2
<1>3. FreshIdIsUntried'
  BY <1>1 DEF FreshIdIsUntried
<1> QED
  BY <1>2, <1>3

(* A step that keeps rows, keeps what is exhausted exhausted and opens no  *)
(* report keeps ReportHasRow.                                              *)
LEMMA ReportHasRowKept ==
    ASSUME ReportHasRow,
           \A v \in Workers : call'[v].op \in Reports => call'[v] = call[v],
           \A i \in Jobs : Exists(i) => Exists(i)',
           \A i \in Jobs : Exists(i) /\ Exhausted(i) => Exhausted(i)'
    PROVE  ReportHasRow'
<1> SUFFICES ASSUME NEW v \in Workers, call'[v].op \in Reports
             PROVE  (/\ call[v].job \in Jobs
                     /\ Exists(call[v].job)
                     /\ call[v].op = "dead_letter" => Exhausted(call[v].job))'
  BY DEF ReportHasRow
<1>1. call'[v] = call[v]
  OBVIOUS
<1>2. /\ call[v].job \in Jobs
      /\ Exists(call[v].job)
      /\ call[v].op = "dead_letter" => Exhausted(call[v].job)
  BY <1>1 DEF ReportHasRow
<1>3. PICK i \in Jobs : i = call[v].job
  BY <1>2
<1>4. /\ row'[i].state # "absent"
      /\ call[v].op = "dead_letter" =>
            row'[i].attempts >= row'[i].max_attempts
  BY <1>2, <1>3 DEF Exists, Exhausted
<1> QED
  BY <1>1, <1>3, <1>4 DEF Exists, Exhausted

(* The second statement of a report, whichever report it is.               *)
LEMMA ReportUpdateKeepsIInv ==
    ASSUME TypeOK, IInv, NEW w \in Workers, NEW op \in Reports,
           NEW target \in {"completed", "retry_scheduled", "dead_lettered"},
           NEW at \in Nat \cup {None},
           target = "retry_scheduled" => at # None,
           target = "dead_lettered" => op = "dead_letter",
           ReportUpdate(w, op, target, at)
    PROVE  IInv'
<1> DEFINE j == call[w].job
<1>1. /\ j \in Jobs /\ Exists(j) /\ ~Locked(j)
      /\ op = "dead_letter" => Exhausted(j)
      /\ call[w].op = op
  BY DEF ReportUpdate, IInv, ReportHasRow
<1>2. /\ row' = [row EXCEPT ![j] = Reported(row[j], target, at)]
      /\ call' = [call EXCEPT ![w] = Idle]
      /\ clock' = clock /\ grants' = grants
  BY DEF ReportUpdate, End
<1>3. /\ row'[j].state = target /\ row'[j].retry_at = at
      /\ row'[j].lease_owner = None /\ row'[j].lease_expires_at = None
      /\ row'[j].attempts = row[j].attempts
      /\ row'[j].max_attempts = row[j].max_attempts
      /\ row'[j].idempotency_key = row[j].idempotency_key
  BY <1>1, <1>2 DEF Reported, Written, TypeOK
<1>4. /\ \A i \in Jobs : i # j => row'[i] = row[i]
      /\ call'[w].op = "idle"
      /\ \A v \in Workers : v # w => call'[v] = call[v]
  BY <1>1, <1>2 DEF TypeOK, Idle, Open
<1>5. \A v \in Workers : call[v].op = "lease" => call[v].job # j
  BY <1>1 DEF Locked
<1>6. \A v \in Workers : Timely /\ v # w /\ call[v].op \in Reports =>
          call[v].job # j
  BY <1>1 DEF IInv, TimelyReportHoldsLease, HoldsLease
<1>7. row[j].state # "absent"
  BY <1>1 DEF Exists
<1>7a. UniqueKeys /\ LeaseShape /\ RetryIsDated /\ DeadLetterAtLimit
       /\ AttemptsCountGrants /\ FreshIdIsUntried /\ LeaserHoldsRow
       /\ OneLeaserPerRow /\ TimelyReportHoldsLease /\ ReportHasRow
  BY DEF IInv
<1> HIDE DEF j
<1>8. LeaserHoldsRow'
  <2> SUFFICES ASSUME NEW v \in Workers, call'[v].op = "lease"
               PROVE  (/\ call[v].job \in Jobs
                       /\ Leasable(call[v].job)
                       /\ call[v].count = row[call[v].job].attempts)'
    BY DEF LeaserHoldsRow
  <2>1. v # w /\ call'[v] = call[v] /\ call[v].job # j
    BY <1>4, <1>5
  <2>2. /\ call[v].job \in Jobs /\ Leasable(call[v].job)
        /\ call[v].count = row[call[v].job].attempts
    BY <1>7a, <2>1 DEF LeaserHoldsRow
  <2>3. row'[call[v].job] = row[call[v].job]
    BY <1>4, <2>1, <2>2
  <2> QED
    BY <1>2, <2>1, <2>2, <2>3 DEF Leasable, Expired
<1>9. OneLeaserPerRow'
  BY <1>4, <1>7a DEF OneLeaserPerRow
<1>10. ReportHasRow'
  <2>1. \A v \in Workers : call'[v].op \in Reports => call'[v] = call[v]
    BY <1>4 DEF Reports
  <2>2. /\ \A i \in Jobs : Exists(i) => Exists(i)'
        /\ \A i \in Jobs : Exists(i) /\ Exhausted(i) => Exhausted(i)'
    BY <1>3, <1>4 DEF Exists, Exhausted
  <2> QED
    BY <1>7a, <2>1, <2>2, ReportHasRowKept
<1>11. TimelyReportHoldsLease'
  <2> SUFFICES ASSUME Timely, NEW v \in Workers, call'[v].op \in Reports
               PROVE  (HoldsLease(v, call[v].job) /\ ~Expired(call[v].job))'
    BY DEF TimelyReportHoldsLease
  <2>1. v # w /\ call'[v] = call[v] /\ call[v].job # j
    BY <1>4, <1>6 DEF Reports
  <2>2. /\ call[v].job \in Jobs
        /\ HoldsLease(v, call[v].job) /\ ~Expired(call[v].job)
    BY <1>7a, <2>1 DEF TimelyReportHoldsLease, ReportHasRow
  <2>3. row'[call[v].job] = row[call[v].job]
    BY <1>4, <2>1, <2>2
  <2> QED
    BY <1>2, <2>1, <2>2, <2>3 DEF HoldsLease, Expired
<1>12. UniqueKeys' /\ FreshIdIsUntried'
  BY <1>1, <1>3, <1>4, <1>7, <1>7a DEF UniqueKeys, FreshIdIsUntried, Exists
<1>13. LeaseShape' /\ RetryIsDated'
  BY <1>3, <1>4, <1>7a DEF LeaseShape, RetryIsDated
<1>14. DeadLetterAtLimit'
  BY <1>1, <1>3, <1>4, <1>7a DEF DeadLetterAtLimit, Exhausted
<1>15. AttemptsCountGrants'
  BY <1>2, <1>3, <1>4, <1>7a DEF AttemptsCountGrants
<1> QED
  BY <1>8, <1>9, <1>10, <1>11, <1>12, <1>13, <1>14, <1>15 DEF IInv

LEMMA StepIInv == TypeOK /\ IInv /\ [Next]_vars => IInv'
<1> SUFFICES ASSUME TypeOK, IInv, [Next]_vars PROVE IInv'
    OBVIOUS
<1> USE DEF IInv, LeaserHoldsRow, OneLeaserPerRow, ReportHasRow,
            TimelyReportHoldsLease, UniqueKeys, LeaseShape, RetryIsDated,
            DeadLetterAtLimit, AttemptsCountGrants, FreshIdIsUntried
<1>1. ASSUME NEW w \in Workers, NEW k \in Keys, NEW limit \in AttemptLimits,
             EnqueueSelect(w, k, limit)
      PROVE  IInv'
  BY <1>1 DEF EnqueueSelect, Begin, TypeOK, Open, Reports, Leasable, Expired,
    Exists, HoldsLease, Exhausted
<1>2. ASSUME NEW w \in Workers, NEW j \in Jobs, EnqueueInsert(w, j)
      PROVE  IInv'
  <2> DEFINE k == call[w].key
  <2>1. CASE ViolatesUnique(k)
    BY <1>2, <2>1 DEF EnqueueInsert, End, TypeOK, Open, Idle, Reports,
       Leasable, Expired, Exists, HoldsLease, Exhausted
  <2>2. CASE ~ViolatesUnique(k)
    <3>1. /\ row'[j] = [NoRow EXCEPT !.state = "ready",
                                     !.idempotency_key = k,
                                     !.max_attempts = call[w].count]
      BY <1>2, <2>2 DEF EnqueueInsert, TypeOK
    <3>1a. /\ \A i \in Jobs : i # j => row'[i] = row[i]
           /\ row[j].state = "absent"
           /\ \A i \in Jobs : Exists(i) => row[i].idempotency_key # k
      BY <1>2, <2>2 DEF EnqueueInsert, TypeOK, ViolatesUnique, KeyTaken, Exists
    <3>2. /\ row'[j].state = "ready" /\ row'[j].idempotency_key = k
          /\ row'[j].lease_owner = None /\ row'[j].lease_expires_at = None
          /\ row'[j].attempts = 0
      BY <3>1 DEF NoRow
    <3>3. /\ call' = [call EXCEPT ![w] = Idle]
          /\ UNCHANGED <<clock, grants>>
      BY <1>2 DEF EnqueueInsert, End
    <3>4. \A v \in Workers : call[v].op \in {"lease"} \cup Reports =>
              call[v].job # j
      BY <3>1a DEF Leasable, Exists
    <3>5. grants[j] = 0
      BY <3>1a DEF Exists
    <3>6. /\ call'[w].op = "idle"
          /\ \A v \in Workers : v # w => call'[v] = call[v]
      BY <3>3 DEF TypeOK, Idle, Open
    <3> HIDE DEF k
    <3>6a. \A v \in Workers : v # w /\ call[v].op \in {"lease"} \cup Reports =>
              row'[call[v].job] = row[call[v].job]
      BY <3>1a, <3>4
    <3>7. LeaserHoldsRow' /\ OneLeaserPerRow'
      BY <3>3, <3>6, <3>6a DEF Leasable, Expired
    <3>8. ReportHasRow' /\ TimelyReportHoldsLease'
      BY <3>3, <3>6, <3>6a DEF Reports, Exists, Exhausted, HoldsLease, Expired
    <3>9. UniqueKeys'
      BY <3>1a, <3>2 DEF Exists
    <3>10. LeaseShape' /\ RetryIsDated' /\ DeadLetterAtLimit'
      BY <3>1a, <3>2
    <3>11. AttemptsCountGrants' /\ FreshIdIsUntried'
      BY <3>1a, <3>2, <3>3, <3>5 DEF Exists
    <3> QED
      BY <3>7, <3>8, <3>9, <3>10, <3>11
  <2> QED
    BY <2>1, <2>2
<1>3. ASSUME NEW w \in Workers, NEW j \in Jobs, LeaseSelect(w, j)
      PROVE  IInv'
  BY <1>3 DEF LeaseSelect, Begin, TypeOK, Open, Idle, Reports, Leasable, Expired,
    Exists, HoldsLease, Exhausted, Locked
<1>4. ASSUME NEW w \in Workers, LeaseUpdate(w)
      PROVE  IInv'
  <2> DEFINE j == call[w].job
  <2>1. /\ j \in Jobs /\ Leasable(j)
        /\ row[j].attempts = call[w].count
        /\ call[w].op = "lease"
        /\ \A v \in Workers : v # w /\ call[v].op = "lease" => call[v].job # j
    BY <1>4 DEF LeaseUpdate
  <2>2. /\ row' = [row EXCEPT ![j] =
                      Written(row[j], "leased", w, call[w].at + LeaseTerm,
                              call[w].count + 1, row[j].retry_at)]
        /\ grants' = [grants EXCEPT ![j] = @ + 1]
        /\ call' = [call EXCEPT ![w] = Idle]
        /\ clock' = clock
    BY <1>4 DEF LeaseUpdate, End
  <2>3. /\ row'[j].state = "leased" /\ row'[j].lease_owner = w
        /\ row'[j].lease_expires_at = call[w].at + LeaseTerm
        /\ row'[j].attempts = row[j].attempts + 1
        /\ row'[j].max_attempts = row[j].max_attempts
        /\ row'[j].idempotency_key = row[j].idempotency_key
        /\ grants'[j] = grants[j] + 1
        /\ row[j].attempts \in Nat /\ row[j].max_attempts \in Nat
    BY <2>1, <2>2 DEF Written, TypeOK, Row
  <2>4. /\ \A i \in Jobs : i # j => row'[i] = row[i] /\ grants'[i] = grants[i]
        /\ call'[w].op = "idle"
        /\ \A v \in Workers : v # w => call'[v] = call[v]
    BY <2>1, <2>2 DEF TypeOK, Idle, Open
  <2>5. None # w /\ call[w].at + LeaseTerm # None
    BY DEF TypeOK, Call
  <2>6. \A v \in Workers : Timely /\ call[v].op \in Reports => call[v].job # j
    BY <2>1 DEF Leasable, HoldsLease
  <2> HIDE DEF j
  <2>7. LeaserHoldsRow'
    BY <2>1, <2>2, <2>3, <2>4 DEF Leasable, Expired
  <2>8. OneLeaserPerRow'
    BY <2>4
  <2>8a. row[j].state # "absent"
    BY <2>1 DEF Leasable
  <2>8b. UniqueKeys'
    BY <2>1, <2>3, <2>4, <2>8a DEF Exists
  <2>8c. FreshIdIsUntried'
    BY <2>3, <2>4 DEF Exists
  <2>9. ReportHasRow'
    <3>1. \A v \in Workers : call'[v].op \in Reports => call'[v] = call[v]
      BY <2>4 DEF Reports
    <3>2. \A i \in Jobs : Exists(i) => Exists(i)'
      BY <2>3, <2>4 DEF Exists
    <3>3. \A i \in Jobs : Exhausted(i) => Exhausted(i)'
      BY <2>3, <2>4 DEF Exhausted
    <3> QED
      BY <3>1, <3>2, <3>3, ReportHasRowKept
  <2>10. TimelyReportHoldsLease'
    BY <2>1, <2>2, <2>4, <2>6 DEF HoldsLease, Expired, Reports
  <2>11. LeaseShape' /\ RetryIsDated' /\ DeadLetterAtLimit'
    BY <2>3, <2>4, <2>5
  <2>12. AttemptsCountGrants'
    BY <2>3, <2>4
  <2> QED
    BY <2>7, <2>8, <2>8b, <2>8c, <2>9, <2>10, <2>11, <2>12
<1>5. ASSUME NEW w \in Workers, NEW j \in Jobs, Heartbeat(w, j)
      PROVE  IInv'
  BY <1>5 DEF Heartbeat, TypeOK, Row, Open, Idle, Reports, Leasable, Expired,
    Exists, HoldsLease, Exhausted, Locked
<1>6. ASSUME NEW w \in Workers, NEW j \in Jobs, CompleteSelect(w, j)
      PROVE  IInv'
  BY <1>6, JobTable DEF CompleteSelect, ReportSelect, Begin, TypeOK, Row, Open, Idle, Reports, Leasable, Expired,
    Exists, HoldsLease, Exhausted, IsOwner
<1>7. ASSUME NEW w \in Workers, NEW j \in Jobs, FailSelect(w, j)
      PROVE  IInv'
  BY <1>7, JobTable DEF FailSelect, ReportSelect, Begin, TypeOK, Row, Open, Idle, Reports, Leasable, Expired,
    Exists, HoldsLease, Exhausted, IsOwner
<1>8. ASSUME NEW w \in Workers, CompleteUpdate(w)
      PROVE  IInv'
  <2> DEFINE at == row[call[w].job].retry_at
  <2>1. ReportUpdate(w, "complete", "completed", at)
    BY <1>8 DEF CompleteUpdate
  <2>2. at \in Nat \cup {None}
    BY <2>1 DEF ReportUpdate, Reports, TypeOK, Row
  <2> QED
    BY <2>1, <2>2, ReportUpdateKeepsIInv DEF Reports
<1>9. ASSUME NEW w \in Workers, FailUpdate(w)
      PROVE  IInv'
  <2> DEFINE at == row[call[w].job].retry_at
  <2>1. CASE ReportUpdate(w, "dead_letter", "dead_lettered", at)
    <3>1. at \in Nat \cup {None}
      BY <2>1 DEF ReportUpdate, Reports, TypeOK, Row
    <3> QED
      BY <2>1, <3>1, ReportUpdateKeepsIInv DEF Reports
  <2>2. CASE ReportUpdate(w, "retry", "retry_scheduled", call[w].at)
    <3>1. call[w].at \in Nat /\ call[w].at # None
      BY DEF TypeOK, Call
    <3> QED
      BY <2>2, <3>1, ReportUpdateKeepsIInv DEF Reports
  <2> QED
    BY <1>9, <2>1, <2>2 DEF FailUpdate
<1>10. ASSUME NEW w \in Workers, Crash(w)
       PROVE  IInv'
  BY <1>10 DEF Crash, End, TypeOK, Open, Idle, Reports, Leasable, Expired,
    Exists, HoldsLease, Exhausted
<1>11. CASE RequeueDue
  <2>1. /\ row' = [j \in Jobs |->
                     IF Due(j)
                     THEN Written(row[j], "ready", row[j].lease_owner,
                                  row[j].lease_expires_at, row[j].attempts,
                                  None)
                     ELSE row[j]]
        /\ call' = call /\ clock' = clock /\ grants' = grants
    BY <1>11 DEF RequeueDue
  <2>2. \A j \in Jobs : Due(j) =>
          /\ row[j].state = "retry_scheduled" /\ row'[j].state = "ready"
          /\ row'[j].lease_owner = row[j].lease_owner
          /\ row'[j].lease_expires_at = row[j].lease_expires_at
          /\ row'[j].attempts = row[j].attempts
          /\ row'[j].max_attempts = row[j].max_attempts
          /\ row'[j].idempotency_key = row[j].idempotency_key
    BY <2>1 DEF Due, Written
  <2>3. \A j \in Jobs : ~Due(j) => row'[j] = row[j]
    BY <2>1
  <2>4. LeaserHoldsRow' /\ OneLeaserPerRow'
    <3>1. \A j \in Jobs : row[j].state # "retry_scheduled" => row'[j] = row[j]
      BY <2>3 DEF Due
    <3> QED
      BY <2>1, <3>1, LeaserHoldsRowKept
  <2>5. ReportHasRow'
    <3>1. \A i \in Jobs : Exists(i) => Exists(i)'
      BY <2>2, <2>3 DEF Exists
    <3>2. \A i \in Jobs : Exhausted(i) => Exhausted(i)'
      BY <2>2, <2>3 DEF Exhausted
    <3> QED
      BY <2>1, <3>1, <3>2, ReportHasRowKept
  <2>6. TimelyReportHoldsLease'
    BY <2>1, <2>2, <2>3 DEF HoldsLease, Expired
  <2>7. UniqueKeys' /\ FreshIdIsUntried'
    <3>1. \A j \in Jobs :
            /\ row'[j].idempotency_key = row[j].idempotency_key
            /\ row'[j].attempts = row[j].attempts
            /\ row'[j].state = "absent" <=> row[j].state = "absent"
      BY <2>2, <2>3
    <3> QED
      BY <3>1, KeysKept
  <2>8. LeaseShape' /\ RetryIsDated' /\ DeadLetterAtLimit'
    <3> SUFFICES ASSUME NEW j \in Jobs
                 PROVE  /\ row'[j].state = "leased"
                               <=> row'[j].lease_owner # None
                        /\ row'[j].state = "leased"
                               <=> row'[j].lease_expires_at # None
                        /\ row'[j].state = "retry_scheduled"
                               => row'[j].retry_at # None
                        /\ row'[j].state = "dead_lettered"
                               => row'[j].attempts >= row'[j].max_attempts
        OBVIOUS
    <3>1. CASE Due(j)
      BY <2>2, <3>1
    <3>2. CASE ~Due(j)
      BY <2>3, <3>2
    <3> QED
      BY <3>1, <3>2
  <2>9. AttemptsCountGrants'
    <3>1. \A j \in Jobs : row'[j].attempts = row[j].attempts
      BY <2>2, <2>3
    <3> QED
      BY <2>1, <3>1
  <2> QED
    BY <2>4, <2>5, <2>6, <2>7, <2>8, <2>9
<1>12. CASE Tick
  <2>1. /\ row' = row /\ call' = call /\ grants' = grants
        /\ clock' = clock + 1 /\ clock \in Nat
    BY <1>12 DEF Tick, TypeOK
  <2>2. \A j \in Jobs : Expired(j) => Expired(j)'
    <3>1. \A j \in Jobs : row[j].lease_expires_at \in Nat \cup {None}
      BY DEF TypeOK, Row
    <3> QED
      BY <2>1, <3>1 DEF Expired
  <2>3. LeaserHoldsRow'
    BY <2>1, <2>2 DEF Leasable
  <2>4. TimelyReportHoldsLease'
    <3> SUFFICES ASSUME Timely, NEW w \in Workers, call[w].op \in Reports
                 PROVE  (HoldsLease(w, call[w].job) /\ ~Expired(call[w].job))'
      BY <2>1
    <3>1. row[call[w].job].lease_expires_at > clock
      BY <1>12 DEF Tick
    <3>2. HoldsLease(w, call[w].job)'
      BY <2>1 DEF HoldsLease
    <3>3. row[call[w].job].lease_expires_at \in Nat \cup {None}
      BY DEF TypeOK, Row
    <3> QED
      BY <2>1, <3>1, <3>2, <3>3 DEF Expired
  <2> QED
    BY <2>1, <2>3, <2>4 DEF Exists, Exhausted
<1>13. CASE UNCHANGED vars
  BY <1>13 DEF vars, Leasable, Expired, Exists, HoldsLease, Exhausted
<1>14. Next => IInv'
  BY <1>1, <1>2, <1>3, <1>4, <1>5, <1>6, <1>7, <1>8, <1>9, <1>10, <1>11, <1>12
  DEF Next
<1> QED
  BY <1>13, <1>14

(* Every reachable state satisfies the inductive invariant. *)
THEOREM Inductive == Spec => [](TypeOK /\ IInv)
<1>1. Init => TypeOK /\ IInv
  BY InitTypeOK, InitIInv
<1>2. TypeOK /\ IInv /\ [Next]_vars => (TypeOK /\ IInv)'
  BY StepTypeOK, StepIInv
<1> QED
  BY <1>1, <1>2, PTL DEF Spec

(* What the queue promises every caller, however calls overlap.            *)
(* Two enqueue calls that both found the key missing leave one job.        *)
THEOREM NoDuplicateJob == Spec => []UniqueKeys
<1>1. IInv => UniqueKeys
  BY DEF IInv
<1> QED
  BY <1>1, Inductive, PTL

(* A leased row has an owner and an expiry and no other row has either.    *)
THEOREM LeasesAreComplete == Spec => []LeaseShape
<1>1. IInv => LeaseShape
  BY DEF IInv
<1> QED
  BY <1>1, Inductive, PTL

(* requeue_due can find every job that waits for its retry.                *)
THEOREM RetriesAreDue == Spec => []RetryIsDated
<1>1. IInv => RetryIsDated
  BY DEF IInv
<1> QED
  BY <1>1, Inductive, PTL

(* A job is dead-lettered only when its attempts are used up.              *)
THEOREM DeadLettersAreExhausted == Spec => []DeadLetterAtLimit
<1>1. IInv => DeadLetterAtLimit
  BY DEF IInv
<1> QED
  BY <1>1, Inductive, PTL

(* No increment of attempts is lost.                                       *)
THEOREM AttemptsAreExact == Spec => []AttemptsCountGrants
<1>1. IInv => AttemptsCountGrants
  BY DEF IInv
<1> QED
  BY <1>1, Inductive, PTL

-----------------------------------------------------------------------------
(* How a step changes one row: what each action writes. *)
LEMMA RowStep ==
    ASSUME TypeOK, IInv, [Next]_vars, NEW j \in Jobs, row'[j] # row[j]
    PROVE  \/ row[j].state = "absent" /\ row'[j].state = "ready"
                /\ row'[j].lease_owner = None
           \/ \E w \in Workers :
                /\ Leasable(j) /\ row'[j].state = "leased"
                /\ row'[j].lease_owner = w
                /\ call[w].op = "lease" /\ call[w].job = j
           \/ row[j].state = "leased" /\ row'[j].state = "leased"
                /\ row'[j].lease_owner = row[j].lease_owner
           \/ \E w \in Workers :
                /\ call[w].op \in Reports /\ call[w].job = j
                /\ call'[w] = Idle
                /\ row'[j].state \in
                       {"completed", "dead_lettered", "retry_scheduled"}
                /\ row'[j].lease_owner = None
           \/ row[j].state = "retry_scheduled" /\ row'[j].state = "ready"
                /\ row'[j].lease_owner = row[j].lease_owner
<1>1. ASSUME NEW w \in Workers, NEW i \in Jobs, EnqueueInsert(w, i)
      PROVE  row[j].state = "absent" /\ row'[j].state = "ready"
               /\ row'[j].lease_owner = None
  <2>1. ~ViolatesUnique(call[w].key) /\ i = j
    BY <1>1 DEF EnqueueInsert, TypeOK
  <2>2. row'[j] = [NoRow EXCEPT !.state = "ready",
                                !.idempotency_key = call[w].key,
                                !.max_attempts = call[w].count]
    BY <1>1, <2>1 DEF EnqueueInsert, TypeOK
  <2>3. row'[j].state = "ready" /\ row'[j].lease_owner = None
    BY <2>2 DEF NoRow
  <2> QED
    BY <1>1, <2>1, <2>3 DEF EnqueueInsert, Exists
<1>2. ASSUME NEW w \in Workers, LeaseUpdate(w)
      PROVE  /\ Leasable(j) /\ row'[j].state = "leased"
             /\ row'[j].lease_owner = w
             /\ call[w].op = "lease" /\ call[w].job = j
  BY <1>2 DEF LeaseUpdate, TypeOK, Written, IInv, LeaserHoldsRow
<1>3. ASSUME NEW w \in Workers, NEW i \in Jobs, Heartbeat(w, i)
      PROVE  row[j].state = "leased" /\ row'[j].state = "leased"
                /\ row'[j].lease_owner = row[j].lease_owner
  BY <1>3 DEF Heartbeat, TypeOK, Row, HoldsLease
<1>4. ASSUME NEW w \in Workers, NEW op \in Reports,
             NEW target \in {"completed", "dead_lettered", "retry_scheduled"},
             NEW at, ReportUpdate(w, op, target, at)
      PROVE  /\ call[w].op \in Reports /\ call[w].job = j
             /\ call'[w] = Idle
             /\ row'[j].state = target
             /\ row'[j].lease_owner = None
  BY <1>4 DEF ReportUpdate, Reported, Written, End, TypeOK
<1>5. ASSUME NEW w \in Workers, CompleteUpdate(w) \/ FailUpdate(w)
      PROVE  /\ call[w].op \in Reports /\ call[w].job = j
             /\ call'[w] = Idle
             /\ row'[j].state \in
                    {"completed", "dead_lettered", "retry_scheduled"}
             /\ row'[j].lease_owner = None
  <2>1. {"complete", "retry", "dead_letter"} = Reports
    BY DEF Reports
  <2> QED
    BY <1>4, <1>5, <2>1 DEF CompleteUpdate, FailUpdate
<1>6. CASE RequeueDue
  BY <1>6 DEF RequeueDue, Due, Written
<1>7. ASSUME NEW w \in Workers,
             \/ \E k \in Keys, limit \in AttemptLimits : EnqueueSelect(w, k, limit)
             \/ \E i \in Jobs : LeaseSelect(w, i) \/ CompleteSelect(w, i)
                               \/ FailSelect(w, i)
             \/ Crash(w)
      PROVE  row' = row
  BY <1>7 DEF EnqueueSelect, LeaseSelect, CompleteSelect, FailSelect,
              ReportSelect, Crash
<1>8. Tick \/ UNCHANGED vars => row' = row
  BY DEF Tick, vars
<1> QED
  BY <1>1, <1>2, <1>3, <1>5, <1>6, <1>7, <1>8 DEF Next

(* A lease changes hands only after it expired. *)
THEOREM NoLiveLeaseIsTaken == Spec => TakeoverOnlyAfterExpiry
<1>1. ASSUME TypeOK, IInv, [Next]_vars, NEW j \in Jobs,
             NEW v \in Workers, NEW w \in Workers,
             HoldsLease(v, j), v # w, HoldsLease(w, j)'
      PROVE  Expired(j)
  <2>1. v # None /\ w # None
    OBVIOUS
  <2>2. row'[j] # row[j]
    BY <1>1 DEF HoldsLease
  <2> QED
    BY <1>1, <2>1, <2>2, RowStep DEF HoldsLease, Leasable
<1>2. TypeOK /\ IInv /\ [Next]_vars =>
        [\A j \in Jobs, v, w \in Workers :
            HoldsLease(v, j) /\ v # w /\ HoldsLease(w, j)' => Expired(j)]_vars
  BY <1>1
<1> QED
  BY <1>2, Inductive, PTL DEF Spec, TakeoverOnlyAfterExpiry

-----------------------------------------------------------------------------
(* What the queue promises Timely callers. *)
LEMMA TimelyStep ==
    ASSUME Timely, TypeOK, IInv, [Next]_vars, NEW j \in Jobs
    PROVE  \/ row'[j].state = row[j].state
           \/ Lifecycle!Listed(row[j].state, row'[j].state)
<1> USE DEF Lifecycle!Listed, Lifecycle!Transition, Lifecycle!JOB
<1>1. ASSUME NEW w \in Workers, call[w].op \in Reports, call[w].job = j
      PROVE  row[j].state = "leased"
  BY <1>1 DEF IInv, TimelyReportHoldsLease, HoldsLease
<1> QED
  BY <1>1, RowStep DEF Leasable

(* A Timely queue implements the lifecycle of states.py. *)
THEOREM TimelyQueueKeepsJobTable ==
    ASSUME Timely PROVE Spec => KeepsJobTable
<1>1. Init => Lifecycle!Init
  BY DEF Init, NoRow, Lifecycle!Init
<1>2. TypeOK /\ IInv /\ TypeOK' /\ [Next]_vars =>
          [Lifecycle!Next]_([j \in Jobs |-> row[j].state])
  <2> SUFFICES ASSUME TypeOK, IInv, TypeOK', [Next]_vars
               PROVE  Lifecycle!Next
      OBVIOUS
  <2>1. \A j \in Jobs : row'[j].state \in DOMAIN Lifecycle!JOB \cup {"absent"}
    BY DEF TypeOK, Row, States, JOB, Lifecycle!JOB
  <2>2. \A j \in Jobs : \/ row'[j].state = row[j].state
                       \/ Lifecycle!Listed(row[j].state, row'[j].state)
    BY TimelyStep
  <2> QED
    BY <2>1, <2>2 DEF Lifecycle!Next
<1> QED
  BY <1>1, <1>2, Inductive, PTL DEF Spec, KeepsJobTable, Lifecycle!Spec

(* A completed job stays completed, so its work is not handed out again. *)
THEOREM TimelyCompletionIsFinal ==
    ASSUME Timely PROVE Spec => CompletedIsFinal
<1>1. TypeOK /\ IInv /\ [Next]_vars =>
        [\A j \in Jobs : row[j].state = "completed" =>
            row'[j].state = "completed"]_vars
  BY TimelyStep DEF Lifecycle!Listed, Lifecycle!Transition, Lifecycle!JOB
<1> QED
  BY <1>1, Inductive, PTL DEF Spec, CompletedIsFinal

(* Nobody but its holder ends a lease that is still running. *)
THEOREM TimelyLeaseEndsByHolder ==
    ASSUME Timely PROVE Spec => LiveLeaseEndsByHolder
<1>1. ASSUME TypeOK, IInv, [Next]_vars, NEW j \in Jobs,
             NEW w \in Workers, HoldsLease(w, j), ~Expired(j),
             ~HoldsLease(w, j)'
      PROVE  call[w].job = j /\ call'[w] = Idle
  <2>1. row'[j] # row[j]
    BY <1>1 DEF HoldsLease
  <2>2. ASSUME NEW v \in Workers, call[v].op \in Reports, call[v].job = j
        PROVE  v = w
    BY <1>1, <2>2 DEF IInv, TimelyReportHoldsLease, HoldsLease
  <2>3. ~Leasable(j)
    BY <1>1 DEF HoldsLease, Leasable
  <2> QED
    BY <1>1, <2>1, <2>2, <2>3, RowStep DEF HoldsLease
<1>2. TypeOK /\ IInv /\ [Next]_vars =>
        [\A j \in Jobs, w \in Workers :
            HoldsLease(w, j) /\ ~Expired(j) /\ ~HoldsLease(w, j)' =>
                call[w].job = j /\ call'[w] = Idle]_vars
  BY <1>1
<1> QED
  BY <1>2, Inductive, PTL DEF Spec, LiveLeaseEndsByHolder

-----------------------------------------------------------------------------
(* How a Timely queue counts tries. *)
SameTries(j) == /\ row'[j].attempts = row[j].attempts
                /\ row'[j].max_attempts = row[j].max_attempts

(* What a step that changes a row makes of its tries. *)
LEMMA TriesOfRow ==
    ASSUME TypeOK, IInv, [Next]_vars, NEW j \in Jobs, row'[j] # row[j]
    PROVE  \/ row'[j].state = "ready" /\ row'[j].attempts = 0
           \/ row'[j].state = "leased" /\ Leasable(j)
           \/ row'[j].state = "leased" /\ SameTries(j)
           \/ \E w \in Workers :
                /\ call[w].op = "complete" /\ call[w].job = j
                /\ call'[w] = Idle /\ row'[j].state = "completed"
           \/ \E w \in Workers :
                /\ call[w].op = "dead_letter" /\ call[w].job = j
                /\ call'[w] = Idle
                /\ row'[j].state = "dead_lettered" /\ SameTries(j)
           \/ \E w \in Workers :
                /\ call[w].op = "retry" /\ call[w].job = j
                /\ call'[w] = Idle
                /\ row'[j].state = "retry_scheduled" /\ SameTries(j)
           \/ /\ row[j].state = "retry_scheduled" /\ row'[j].state = "ready"
              /\ SameTries(j)
<1>1. ASSUME NEW w \in Workers, NEW i \in Jobs, EnqueueInsert(w, i)
      PROVE  row'[j].state = "ready" /\ row'[j].attempts = 0
  <2>1. ~ViolatesUnique(call[w].key) /\ i = j
    BY <1>1 DEF EnqueueInsert, TypeOK
  <2>2. row'[j] = [NoRow EXCEPT !.state = "ready",
                                !.idempotency_key = call[w].key,
                                !.max_attempts = call[w].count]
    BY <1>1, <2>1 DEF EnqueueInsert, TypeOK
  <2> QED
    BY <2>2 DEF NoRow
<1>2. ASSUME NEW w \in Workers, LeaseUpdate(w)
      PROVE  row'[j].state = "leased" /\ Leasable(j)
  BY <1>2 DEF LeaseUpdate, TypeOK, Written, IInv, LeaserHoldsRow
<1>3. ASSUME NEW w \in Workers, NEW i \in Jobs, Heartbeat(w, i)
      PROVE  row'[j].state = "leased" /\ SameTries(j)
  BY <1>3 DEF Heartbeat, TypeOK, Row, HoldsLease, SameTries
<1>4. ASSUME NEW w \in Workers, NEW op \in Reports,
             NEW target \in {"completed", "dead_lettered", "retry_scheduled"},
             NEW at, ReportUpdate(w, op, target, at)
      PROVE  /\ call[w].op = op /\ call[w].job = j /\ call'[w] = Idle
             /\ row'[j].state = target /\ SameTries(j)
  BY <1>4 DEF ReportUpdate, Reported, Written, End, TypeOK, SameTries
<1>5. ASSUME NEW w \in Workers, CompleteUpdate(w)
      PROVE  /\ call[w].op = "complete" /\ call[w].job = j
             /\ call'[w] = Idle /\ row'[j].state = "completed"
  BY <1>4, <1>5 DEF CompleteUpdate, Reports
<1>6. ASSUME NEW w \in Workers, FailUpdate(w)
      PROVE  \/ /\ call[w].op = "dead_letter" /\ call[w].job = j
                /\ call'[w] = Idle
                /\ row'[j].state = "dead_lettered" /\ SameTries(j)
             \/ /\ call[w].op = "retry" /\ call[w].job = j
                /\ call'[w] = Idle
                /\ row'[j].state = "retry_scheduled" /\ SameTries(j)
  BY <1>4, <1>6 DEF FailUpdate, Reports
<1>7. CASE RequeueDue
  <2>1. row'[j] = Written(row[j], "ready", row[j].lease_owner,
                          row[j].lease_expires_at, row[j].attempts, None)
        /\ Due(j)
    BY <1>7 DEF RequeueDue
  <2> QED
    BY <2>1 DEF Written, Due, SameTries
<1>8. ASSUME NEW w \in Workers,
             \/ \E k \in Keys, limit \in AttemptLimits : EnqueueSelect(w, k, limit)
             \/ \E i \in Jobs : LeaseSelect(w, i) \/ CompleteSelect(w, i)
                               \/ FailSelect(w, i)
             \/ Crash(w)
      PROVE  row' = row
  BY <1>8 DEF EnqueueSelect, LeaseSelect, CompleteSelect, FailSelect,
              ReportSelect, Crash
<1>9. Tick \/ UNCHANGED vars => row' = row
  BY DEF Tick, vars
<1> QED
  BY <1>1, <1>2, <1>3, <1>5, <1>6, <1>7, <1>8, <1>9 DEF Next

(* fail reschedules a job whose row, as its SELECT saw it, has a try left; *)
(* while the lease it reports on lives, no other lease uses that try up.   *)
RetryHasTry ==
    \A w \in Workers : call[w].op = "retry" => ~Exhausted(call[w].job)

LEMMA RetryHasTryKept ==
    ASSUME Timely, TypeOK, IInv, RetryHasTry, [Next]_vars
    PROVE  RetryHasTry'
<1> SUFFICES ASSUME NEW w \in Workers, call'[w].op = "retry"
             PROVE  ~Exhausted(call[w].job)'
  BY DEF RetryHasTry
<1>1. CASE call'[w] = call[w]
  <2>1. PICK j \in Jobs : j = call[w].job
    BY <1>1 DEF IInv, ReportHasRow, Reports
  <2>2. HoldsLease(w, j) /\ ~Expired(j) /\ ~Exhausted(j)
    BY <1>1, <2>1 DEF IInv, TimelyReportHoldsLease, RetryHasTry, Reports
  <2>3. ~Leasable(j) /\ row[j].state = "leased"
    BY <2>2 DEF HoldsLease, Leasable
  <2>4. ASSUME NEW v \in Workers, call[v].op \in Reports, call[v].job = j
        PROVE  v = w
    BY <2>2, <2>4 DEF IInv, TimelyReportHoldsLease, HoldsLease
  <2>5. call'[w] # Idle
    BY DEF Idle, Open
  <2>6. row[j].attempts \in Nat /\ row[j].max_attempts \in Nat
    BY DEF TypeOK, Row
  <2>7. row'[j] = row[j] \/ row'[j].state # "ready"
    BY <2>3, <2>4, <2>5, RowStep DEF Reports
  <2>8. SameTries(j)
    <3>1. CASE row'[j] = row[j]
      BY <3>1 DEF SameTries
    <3>2. CASE row'[j] # row[j]
      BY <2>3, <2>4, <2>5, <2>7, <3>2, TriesOfRow DEF Reports
    <3> QED
      BY <3>1, <3>2
  <2>9. ~Exhausted(j)'
    BY <2>2, <2>6, <2>8 DEF Exhausted, SameTries
  <2> QED
    BY <1>1, <2>1, <2>9 DEF Exhausted
<1>2. CASE call'[w] # call[w]
  <2>1. PICK j \in Jobs : FailSelect(w, j)
    <3>1. ASSUME NEW v \in Workers, NEW op, NEW job, NEW key, NEW count,
                 NEW at, Begin(v, Open(op, job, key, count, at))
          PROVE  v = w /\ op = "retry"
      <4>1. call' = [call EXCEPT ![v] = Open(op, job, key, count, at)]
        BY <3>1 DEF Begin
      <4>2. v = w
        BY <1>2, <4>1 DEF TypeOK
      <4>3. call'[w].op = op
        BY <4>1, <4>2 DEF TypeOK, Open
      <4> QED
        BY <4>2, <4>3
    <3>2. ASSUME NEW v \in Workers PROVE ~End(v)
      BY <1>2, <3>2 DEF End, TypeOK, Idle, Open
    <3>3. call' # call
      BY <1>2
    <3>4. PICK v \in Workers :
             \/ \E k \in Keys, limit \in AttemptLimits : EnqueueSelect(v, k, limit)
             \/ \E j \in Jobs : \/ LeaseSelect(v, j)
                                \/ CompleteSelect(v, j)
                                \/ FailSelect(v, j)
      BY <3>2, <3>3 DEF Next, vars, EnqueueInsert, Heartbeat, LeaseUpdate,
         CompleteUpdate, FailUpdate, ReportUpdate, Crash, RequeueDue, Tick
    <3>5. ~\E k \in Keys, limit \in AttemptLimits : EnqueueSelect(v, k, limit)
      BY <3>1 DEF EnqueueSelect
    <3>6. ~\E j \in Jobs : LeaseSelect(v, j) \/ CompleteSelect(v, j)
      BY <3>1 DEF LeaseSelect, CompleteSelect, ReportSelect
    <3>7. \A j \in Jobs : FailSelect(v, j) => v = w
      BY <3>1 DEF FailSelect, ReportSelect
    <3> QED
      BY <3>4, <3>5, <3>6, <3>7
  <2>2. ~Exhausted(j) /\ call'[w].job = j /\ row' = row
    BY <2>1 DEF FailSelect, ReportSelect, Begin, TypeOK, Open
  <2> QED
    BY <2>2 DEF Exhausted
<1> QED
  BY <1>1, <1>2

LEMMA TriesStep ==
    ASSUME TypeOK, IInv, RetryHasTry, TriesEndAtLimit, [Next]_vars
    PROVE  TriesEndAtLimit'
<1> SUFFICES ASSUME NEW j \in Jobs
             PROVE  /\ row'[j].state = "dead_lettered" =>
                          row'[j].attempts >= row'[j].max_attempts
                    /\ row'[j].state = "retry_scheduled" =>
                          row'[j].attempts < row'[j].max_attempts
                    /\ row'[j].state = "ready" /\ row'[j].attempts > 0 =>
                          row'[j].attempts < row'[j].max_attempts
  BY DEF TriesEndAtLimit
<1>1. CASE row'[j] = row[j]
  BY <1>1 DEF TriesEndAtLimit
<1>2. CASE row'[j] # row[j]
  <2>1. row[j].attempts \in Nat /\ row[j].max_attempts \in Nat
    BY DEF TypeOK, Row
  <2>2. ASSUME NEW w \in Workers, call[w].op = "retry", call[w].job = j
        PROVE  row[j].attempts < row[j].max_attempts
    BY <2>1, <2>2 DEF RetryHasTry, Exhausted
  <2>3. ASSUME NEW w \in Workers, call[w].op = "dead_letter", call[w].job = j
        PROVE  row[j].attempts >= row[j].max_attempts
    BY <2>3 DEF IInv, ReportHasRow, Reports, Exhausted
  <2>4. row[j].state = "retry_scheduled" =>
           row[j].attempts < row[j].max_attempts
    BY DEF TriesEndAtLimit
  <2> QED
    BY <1>2, <2>1, <2>2, <2>3, <2>4, TriesOfRow DEF SameTries
<1> QED
  BY <1>1, <1>2

(* Timely callers use up a job's tries exactly: none is given up early,    *)
(* and none waits for a try beyond the limit (jobs.py:72-76).              *)
THEOREM TimelyTriesEndAtLimit ==
    ASSUME Timely PROVE Spec => []TriesEndAtLimit
<1>1. Init => RetryHasTry /\ TriesEndAtLimit
  BY DEF Init, RetryHasTry, TriesEndAtLimit, Idle, Open, NoRow
<1>2. TypeOK /\ IInv /\ RetryHasTry /\ TriesEndAtLimit /\ [Next]_vars =>
         (RetryHasTry /\ TriesEndAtLimit)'
  BY RetryHasTryKept, TriesStep
<1> QED
  BY <1>1, <1>2, Inductive, PTL DEF Spec

=============================================================================
