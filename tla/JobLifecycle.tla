---------------------------- MODULE JobLifecycle ----------------------------
(***************************************************************************)
(* What the durable job queue promises about one job's state, whoever      *)
(* calls it and however the calls overlap: a job is created ready and then *)
(* only ever takes a transition the JOB table of states.py lists.          *)
(***************************************************************************)
EXTENDS StateMachines

CONSTANT Jobs

VARIABLE state      \* state[j]: "absent" before the row exists

Init == state = [j \in Jobs |-> "absent"]

Listed(from, to) == \/ from = "absent" /\ to = "ready"
                    \/ Transition(JOB, from, to)

(* requeue_due moves several rows with one statement, so a step may move   *)
(* any number of jobs.                                                     *)
Next == /\ state' \in [Jobs -> DOMAIN JOB \cup {"absent"}]
        /\ \A j \in Jobs : state'[j] = state[j] \/ Listed(state[j], state'[j])

Spec == Init /\ [][Next]_state

=============================================================================
