--------------------------- MODULE StateMachines ---------------------------
(***************************************************************************)
(* The transition tables of states.py.  A machine maps each of its states  *)
(* to the set of states it may move to; "every transition not listed       *)
(* fails".                                                                 *)
(***************************************************************************)

CANDIDATE_WORK ==
    LET later == [open                   |-> {"fetch_pending"},
                  fetch_pending          |-> {"triage_pending"},
                  triage_pending         |-> {"extraction_pending"},
                  extraction_pending     |-> {"verification_pending"},
                  verification_pending   |-> {"classification_pending"},
                  classification_pending |-> {"review_pending"},
                  review_pending         |-> {}]
    IN  [s \in DOMAIN later \cup {"blocked", "resolved"} |->
            CASE s = "resolved" -> {}
              [] s = "blocked"  -> DOMAIN later \cup {"resolved"}
              [] OTHER          -> later[s] \cup {"blocked", "resolved"}]

Settled == {"duplicate", "linked_existing", "record_created", "rejected"}

CANDIDATE_DISPOSITION ==
    [s \in Settled \cup {"unresolved", "awaiting_primary", "escalated",
                         "quarantined", "excluded"} |->
        CASE s = "unresolved" -> Settled \cup
                {"awaiting_primary", "excluded", "quarantined", "escalated"}
          [] s = "awaiting_primary" -> Settled \cup
                {"excluded", "quarantined", "escalated"}
          [] s = "escalated" -> Settled \cup
                {"awaiting_primary", "excluded", "quarantined"}
          [] s = "quarantined" -> {"excluded", "rejected", "escalated"}
          [] s = "excluded" -> {"unresolved"}
          [] OTHER -> {}]

REVISION ==
    [draft      |-> {"in_review"},
     in_review  |-> {"approved", "rejected", "draft"},
     approved   |-> {"published"},
     published  |-> {"superseded"},
     rejected   |-> {},
     superseded |-> {}]

VERIFICATION ==
    [not_run |-> {"running"},
     running |-> {"passed", "failed"},
     passed  |-> {},
     failed  |-> {}]

JOB ==
    [ready           |-> {"leased", "cancelled"},
     leased          |-> {"completed", "retry_scheduled", "dead_lettered",
                          "cancelled"},
     retry_scheduled |-> {"ready", "cancelled"},
     completed       |-> {},
     dead_lettered   |-> {},
     cancelled       |-> {}]

MONITORING ==
    [idle           |-> {"checking"},
     checking       |-> {"idle", "change_pending", "degraded"},
     degraded       |-> {"checking"},
     change_pending |-> {"idle"}]

(* transition(machine, current, target) returns rather than raises. *)
Transition(machine, current, target) ==
    /\ current \in DOMAIN machine
    /\ target \in machine[current]

=============================================================================
