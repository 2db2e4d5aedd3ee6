---------------------------- MODULE ReviewQueue ----------------------------
(***************************************************************************)
(* The queue of review tasks (review_queue.py).  Reviewers answer, a timer *)
(* calls expire_unanswered, and components that need an answer add tasks,  *)
(* in any order and at any time.  A task's id is a hash of its queue,      *)
(* question and creation time, so the same question may arrive again with  *)
(* another priority, default or time to live under the id of a task that   *)
(* is open or has left.                                                    *)
(*                                                                         *)
(* Times are ticks of one clock, which callers pass as "at" and "now".     *)
(***************************************************************************)
EXTENDS Integers, Sequences, FiniteSets

CONSTANTS Questions,        \* what is asked: arguments of make_task
          NoDefault,        \* restrictive_default left out
          PRIORITY_TTL,     \* default time to live by priority
          Resolutions,      \* what reviewers answer
          MaxHours,         \* bound on the clock
          MaxArrivals       \* bound on the calls of add

QUEUES == {"new_candidates", "status_updates", "uncertain", "duplicates",
           "corrections", "quarantine", "migration"}
PRIORITIES == {"P0", "P1", "P2", "P3"}
RESTRICTIVE_DEFAULTS == {"hold", "exclude", "human_review", "defer"}

ASSUME ReviewQueueAssumption ==
    /\ Questions \subseteq [queue : QUEUES, priority : PRIORITIES,
                            question : STRING,
                            default : RESTRICTIVE_DEFAULTS \cup {NoDefault}]
    /\ NoDefault \notin RESTRICTIVE_DEFAULTS
    /\ PRIORITY_TTL \in [PRIORITIES -> Nat]
    /\ MaxHours \in Nat
    /\ MaxArrivals \in Nat

QUEUE_DEFAULT_DISPOSITION ==
    [q \in QUEUES |->
        CASE q \in {"new_candidates", "uncertain", "duplicates"} -> "human_review"
          [] q \in {"status_updates", "migration"} -> "defer"
          [] q \in {"corrections", "quarantine"} -> "hold"]

VARIABLES hours,        \* the clock
          open,         \* _open and _arrived: [task, arrived, nr]
          exits,        \* _exits
          asked,        \* history: the task of every call of add, in order
          replaced      \* history: the arrivals whose task was overwritten

queueVars == <<hours, open, exits, asked, replaced>>

(* make_task; it refuses a default outside RESTRICTIVE_DEFAULTS. *)
Default(q) == IF q.default = NoDefault THEN QUEUE_DEFAULT_DISPOSITION[q.queue]
              ELSE q.default

Task(q, created) ==
    [queue |-> q.queue, priority |-> q.priority, question |-> q.question,
     created_at |-> created, restrictive_default |-> Default(q),
     expiry |-> created + PRIORITY_TTL[q.priority]]

TaskId(task) == <<task.queue, task.question, task.created_at>>

InitQueue == /\ hours = 0
             /\ open = {}
             /\ exits = {}
             /\ asked = <<>>
             /\ replaced = {}

-----------------------------------------------------------------------------

(* add: the dictionaries keep one task for an id, the last. *)
Overwritten(task) == {e \in open : TaskId(e.task) = TaskId(task)}

Add(task) ==
    /\ Len(asked) < MaxArrivals
    /\ asked' = Append(asked, task)
    /\ open' = (open \ Overwritten(task)) \cup
                   {[task |-> task, arrived |-> hours, nr |-> Len(asked) + 1]}
    /\ replaced' = replaced \cup {e.nr : e \in Overwritten(task)}
    /\ UNCHANGED <<hours, exits>>

Exit(e, reason, resolution) ==
    [nr |-> e.nr, queue |-> e.task.queue, priority |-> e.task.priority,
     arrived |-> e.arrived, exited |-> hours,
     reason |-> reason, resolution |-> resolution]

RemainOpen(leaving) == open                                         \* mutant
Remaining(leaving) == open \ leaving

(* resolve: a reviewer's answer, before the expiry or after it. *)
Resolve(e, resolution) ==
    /\ e \in open
    /\ open' = Remaining({e})
    /\ exits' = exits \cup {Exit(e, "answered", resolution)}
    /\ UNCHANGED <<hours, asked, replaced>>

WithinDay(e) == hours >= e.task.created_at                          \* mutant
Overdue(e) == hours >= e.task.expiry

(* expire_unanswered: all that is overdue leaves with its default. *)
ExpireUnanswered ==
    LET late == {e \in open : Overdue(e)} IN
    /\ late # {}
    /\ open' = Remaining(late)
    /\ exits' = exits \cup
          {Exit(e, "expired_unanswered", e.task.restrictive_default) : e \in late}
    /\ UNCHANGED <<hours, asked, replaced>>

HourPasses == /\ hours < MaxHours
              /\ hours' = hours + 1
              /\ UNCHANGED <<open, exits, asked, replaced>>

NextQueue ==
    \/ \E q \in Questions, created \in 0..hours : Add(Task(q, created))
    \/ \E e \in open, resolution \in Resolutions : Resolve(e, resolution)
    \/ ExpireUnanswered
    \/ HourPasses

SpecQueue == InitQueue /\ [][NextQueue]_queueVars

-----------------------------------------------------------------------------

(* Conservation: every call of add is open, has left once, or was replaced *)
(* by a later task of its id, and never two of these, however answers race *)
(* the timer and ids come again: no decision is counted twice and no       *)
(* question disappears (review_queue.py:112-123, 132-137).                 *)
EveryArrivalIsAccounted ==
    /\ {e.nr : e \in open} \cup {x.nr : x \in exits} \cup replaced
           = 1..Len(asked)
    /\ {e.nr : e \in open} \cap {x.nr : x \in exits} = {}
    /\ ({e.nr : e \in open} \cup {x.nr : x \in exits}) \cap replaced = {}
    /\ \A d, e \in open : d.nr = e.nr => d = e
    /\ \A x, y \in exits : x.nr = y.nr => x = y

(* "no answer resolves to a restrictive state, never acceptance or         *)
(* publication" (review_queue.py:10-12): what leaves unanswered leaves     *)
(* with the default its own arrival named, not one of another task that    *)
(* had its id, and not before that arrival's expiry.                       *)
UnansweredIsRestrictive ==
    \A x \in exits : x.reason = "expired_unanswered" =>
        /\ x.resolution \in RESTRICTIVE_DEFAULTS
        /\ x.resolution = asked[x.nr].restrictive_default
        /\ x.exited >= asked[x.nr].expiry

=============================================================================
