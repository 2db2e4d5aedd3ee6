---------------------------- MODULE BudgetLedger ----------------------------
(***************************************************************************)
(* The budget ledger of the builder (builder/core/budget.py): a file with  *)
(* an entry per run, which reserve reads and appends to, and reconcile     *)
(* reads and writes as a whole.  A run has one entry, and uses no more     *)
(* than its worst case: that is what callers promise.                      *)
(***************************************************************************)
EXTENDS Integers, FiniteSets, Functions

CONSTANTS Runs,
          MaxCost,          \* bound on a worst case
          SessionCeilings,  \* session_ceiling; Unset when it or day_ceiling
                            \* is None (a set day_ceiling is compared with
                            \* nothing)
          Unset,
          OneProcess        \* whether one call ends before the next starts

ASSUME BudgetAssumption == /\ IsFiniteSet(Runs)
                           /\ MaxCost \in Nat
                           /\ SessionCeilings \subseteq Nat \cup {Unset}
                           /\ Unset \notin Nat
                           /\ OneProcess \in BOOLEAN

NoEntry == [reserved |-> 0, reconciled |-> FALSE, observed |-> 0]
NoCall == [op |-> "none", worst_case_cost |-> 0, read |-> [r \in Runs |-> NoEntry]]

VARIABLES ceiling,
          entries,      \* the file: each run's entry
          entered,      \* the runs with an entry
          call,         \* each run's open call of the ledger
          used          \* what each run has really cost

budgetVars == <<ceiling, entries, entered, call, used>>

InitBudget == /\ ceiling \in SessionCeilings
              /\ entries = [r \in Runs |-> NoEntry]
              /\ entered = {}
              /\ call = [r \in Runs |-> NoCall]
              /\ used = [r \in Runs |-> 0]

Free(run) == IF OneProcess THEN \A r \in Runs : call[r] = NoCall
                           ELSE call[run] = NoCall

(* committed: what was observed, or else the whole reservation. *)
ClosedCost(entry) == IF entry.reconciled THEN entry.observed ELSE 0  \* mutant
Cost(entry) == IF entry.reconciled THEN entry.observed ELSE entry.reserved
Committed == SumFunctionOnSet([r \in Runs |-> Cost(entries[r])], Runs)

ReserveRead(run, worst_case_cost) ==
    /\ Free(run)
    /\ run \notin entered
    /\ ceiling # Unset
    /\ Committed + worst_case_cost <= ceiling
    /\ call' = [call EXCEPT ![run] = [op |-> "reserve", read |-> entries,
                                      worst_case_cost |-> worst_case_cost]]
    /\ UNCHANGED <<ceiling, entries, entered, used>>

ReserveAppend(run) ==
    /\ call[run].op = "reserve"
    /\ entries' = [entries EXCEPT ![run] =
                      [reserved |-> call[run].worst_case_cost,
                       reconciled |-> FALSE, observed |-> 0]]
    /\ entered' = entered \cup {run}
    /\ call' = [call EXCEPT ![run] = NoCall]
    /\ UNCHANGED <<ceiling, used>>

(* The run itself. *)
Use(run) == /\ run \in entered
            /\ call[run] = NoCall
            /\ ~entries[run].reconciled
            /\ used[run] < entries[run].reserved
            /\ used' = [used EXCEPT ![run] = @ + 1]
            /\ UNCHANGED <<ceiling, entries, entered, call>>

ReconcileRead(run) ==
    /\ Free(run)
    /\ run \in entered
    /\ ~entries[run].reconciled
    /\ call' = [call EXCEPT ![run] = [op |-> "reconcile", read |-> entries,
                                      worst_case_cost |-> 0]]
    /\ UNCHANGED <<ceiling, entries, entered, used>>

(* write_text puts back what was read, with the run's entry changed. *)
ReconcileWrite(run) ==
    /\ call[run].op = "reconcile"
    /\ entries' = [call[run].read EXCEPT ![run] =
                      [reserved |-> call[run].read[run].reserved,
                       reconciled |-> TRUE, observed |-> used[run]]]
    /\ entered' = {r \in entered : entries'[r] # NoEntry}
    /\ call' = [call EXCEPT ![run] = NoCall]
    /\ UNCHANGED <<ceiling, used>>

NextBudget ==
    \E run \in Runs :
        \/ \E cost \in 1..MaxCost : ReserveRead(run, cost)
        \/ ReserveAppend(run)
        \/ Use(run)
        \/ ReconcileRead(run)
        \/ ReconcileWrite(run)

SpecBudget == InitBudget /\ [][NextBudget]_budgetVars

-----------------------------------------------------------------------------

(* "Exhaustion blocks the next run" (budget.py:2): what the runs have      *)
(* really cost stays within the session's ceiling, at every moment and     *)
(* however far each of them is.  With an unset ceiling nothing runs.       *)
SpendWithinCeiling ==
    LET spent == SumFunctionOnSet(used, Runs)
    IN  IF ceiling = Unset THEN spent = 0 ELSE spent <= ceiling

=============================================================================
