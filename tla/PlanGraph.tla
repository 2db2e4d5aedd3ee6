------------------------------ MODULE PlanGraph ------------------------------
(***************************************************************************)
(* The check of plan/tasks.yaml for cycles in atlas_plan.py, validate:     *)
(* Kahn's algorithm over the tasks and what they depend on.                *)
(*                                                                         *)
(* The queue is a set: validate pops its last entry, the model any.  The   *)
(* schema keeps the dependencies of one task distinct.                     *)
(***************************************************************************)
EXTENDS Integers, FiniteSets

CONSTANTS Tasks,
          Unknown       \* ids that a task may name and no task has

ASSUME PlanGraphAssumption ==
    IsFiniteSet(Tasks) /\ Tasks \cap Unknown = {}

VARIABLES depends_on,   \* the plan
          indeg, queue, seen,
          popped        \* history: the tasks that left the queue

graphVars == <<depends_on, indeg, queue, seen, popped>>

Known(t) == depends_on[t] \cap Tasks

InitGraph ==
    /\ depends_on \in [Tasks -> SUBSET (Tasks \cup Unknown)]
    /\ indeg = [t \in Tasks |-> Cardinality(Known(t))]
    /\ queue = {t \in Tasks : Known(t) = {}}
    /\ seen = 0
    /\ popped = {}

Dependents(n) == {t \in Tasks : n \in depends_on[t]}

(* Those whose last open dependency goes. *)
AlmostFreed(n) == {t \in Dependents(n) : indeg[t] <= 2}              \* mutant
Freed(n) == {t \in Dependents(n) : indeg[t] = 1}

Pop(n) ==
    /\ n \in queue
    /\ seen' = seen + 1
    /\ indeg' = [t \in Tasks |-> IF t \in Dependents(n)
                                 THEN indeg[t] - 1 ELSE indeg[t]]
    /\ queue' = (queue \ {n}) \cup Freed(n)
    /\ popped' = popped \cup {n}
    /\ UNCHANGED depends_on

NextGraph == \E n \in queue : Pop(n)

SpecGraph == InitGraph /\ [][NextGraph]_graphVars

-----------------------------------------------------------------------------

Walked == queue = {}
Accepted == seen = Cardinality(Tasks)

(* The definition of a cycle: some tasks that all wait for each other. *)
Cyclic == \E S \in SUBSET Tasks :
             S # {} /\ \A t \in S : depends_on[t] \cap S # {}

(* validate finds "dependency graph contains a cycle" exactly when there   *)
(* is one, whatever else the plan depends on.                              *)
KahnIsSound == Walked => (Accepted <=> ~Cyclic)

(* Why: the counters count what was not popped yet, the queue holds the    *)
(* free tasks that were not popped, and no popped task is on a cycle.      *)
CountersAreExact ==
    \A t \in Tasks : indeg[t] = Cardinality(Known(t) \ popped)

QueueHoldsFree ==
    queue = {t \in Tasks \ popped : Known(t) \subseteq popped}

PoppedAreClosed == \A t \in popped : Known(t) \subseteq popped

PoppedAreGrounded ==
    \A S \in SUBSET Tasks :
        (\A t \in S : depends_on[t] \cap S # {}) => S \cap popped = {}

TypeOKGraph ==
    /\ depends_on \in [Tasks -> SUBSET (Tasks \cup Unknown)]
    /\ indeg \in [Tasks -> Nat]
    /\ popped \in SUBSET Tasks
    /\ seen = Cardinality(popped)

IInvGraph == /\ TypeOKGraph
             /\ CountersAreExact
             /\ QueueHoldsFree
             /\ PoppedAreClosed
             /\ PoppedAreGrounded

=============================================================================
