----------------------------- MODULE Monitoring -----------------------------
(***************************************************************************)
(* Monitoring targets and the freshness of a record (monitoring.py).  A    *)
(* check has a result some time after it was attempted, so the results of  *)
(* one target may be applied in another order than the checks were made.   *)
(*                                                                         *)
(* Left out are the fields freshness does not read, last_attempted_check_at*)
(* and retry_due_at.                                                       *)
(***************************************************************************)
EXTENDS Integers, Sequences, FiniteSets

CONSTANTS Monitored,    \* the targets of one record, in the order passed
          Interval,     \* callers make the next check due so long after one
          Grace,        \* and give an overdue target so much longer
          FailureLimit, \* degraded_after_failures
          MaxTicks,     \* bound on the clock
          MaxChecks     \* bound on the results per target

ASSUME MonitoringAssumption ==
    /\ Monitored \in Seq(STRING)
    /\ Interval \in Nat /\ Grace \in Nat /\ FailureLimit \in Nat \ {0}
    /\ MaxTicks \in Nat /\ MaxChecks \in Nat

Never == -1

Severity(state) ==
    CASE state = "current"                        -> 0
      [] state = "due"                            -> 1
      [] state \in {"overdue", "unmonitored"}     -> 2
      [] state \in {"stale", "monitoring_degraded"} -> 3

VARIABLES ticks,        \* the clock
          target,       \* the targets' state
          results       \* history: the results applied to each, in order

monitoringVars == <<ticks, target, results>>

TargetNos == DOMAIN Monitored

InitMonitoring ==
    /\ ticks = 0
    /\ target = [i \in TargetNos |->
                    [last_successful |-> Never, failures |-> 0, due |-> Never]]
    /\ results = [i \in TargetNos |-> <<>>]

-----------------------------------------------------------------------------

(* apply_check: a failure leaves the last success and the due time alone.  *)
Checked(t, attempted) ==                                            \* mutant
    [t EXCEPT !.failures = @ + 1, !.due = attempted + Interval]
Failed(t, attempted) == [t EXCEPT !.failures = @ + 1]

Succeeded(attempted) ==
    [last_successful |-> attempted, failures |-> 0, due |-> attempted + Interval]

ApplyCheck(i, ok, attempted) ==
    /\ Len(results[i]) < MaxChecks
    /\ target' = [target EXCEPT ![i] = IF ok THEN Succeeded(attempted)
                                       ELSE Failed(@, attempted)]
    /\ results' = [results EXCEPT ![i] =
                      Append(@, [ok |-> ok, attempted |-> attempted])]
    /\ UNCHANGED ticks

Tick == /\ ticks < MaxTicks
        /\ ticks' = ticks + 1
        /\ UNCHANGED <<target, results>>

NextMonitoring ==
    \/ \E i \in TargetNos, ok \in BOOLEAN, attempted \in 0..ticks :
          ApplyCheck(i, ok, attempted)
    \/ Tick

SpecMonitoring == InitMonitoring /\ [][NextMonitoring]_monitoringVars

-----------------------------------------------------------------------------

(* target_freshness, as of now. *)
Freshness(i) ==
    LET t == target[i] IN
    CASE t.last_successful = Never -> "unmonitored"
      [] t.last_successful # Never /\ t.failures >= FailureLimit ->
             "monitoring_degraded"
      [] OTHER -> IF ticks <= t.due THEN "current"
                  ELSE IF ticks > t.due + Grace THEN "stale" ELSE "overdue"

(* aggregate_record_freshness: the first of the worst targets names it. *)
Worst == CHOOSE i \in TargetNos : \A j \in TargetNos :
            \/ Severity(Freshness(j)) < Severity(Freshness(i))
            \/ Severity(Freshness(j)) = Severity(Freshness(i)) /\ i <= j

RecordFreshness == IF TargetNos = {} THEN "unmonitored" ELSE Freshness(Worst)

WorstTargets == {i \in TargetNos : Freshness(i) = RecordFreshness}

-----------------------------------------------------------------------------

FailedLast(i, n) ==
    /\ Len(results[i]) >= n
    /\ \A k \in (Len(results[i]) - n + 1)..Len(results[i]) : ~results[i][k].ok

(* "a failed check NEVER advances last_successful_check_at; success is     *)
(* per-target; one source succeeding does not erase another's failure"     *)
(* (monitoring.py:3-7): in whatever order results come, a record is        *)
(* current only if every single target was checked with success within the *)
(* interval and has not failed to its limit since, and a record that names *)
(* its worst targets leaves none out that stands worse.                    *)
FreshnessIsEarned ==
    /\ RecordFreshness = "current" => \A i \in TargetNos :
          /\ \E k \in DOMAIN results[i] :
                /\ results[i][k].ok
                /\ ticks - results[i][k].attempted <= Interval
          /\ ~FailedLast(i, FailureLimit)
    /\ \A i \in TargetNos, j \in WorstTargets :
          Severity(Freshness(i)) <= Severity(Freshness(j))

=============================================================================
