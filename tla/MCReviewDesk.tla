----------------------------- MODULE MCReviewDesk -----------------------------
(***************************************************************************)
(* The parts of the review desk side by side.  They share no state,  *)
(* so a behaviour moves one of them, chosen at the start; the others stay  *)
(* as they were initialised.                                               *)
(***************************************************************************)
EXTENDS MCReviewerActions, ReviewQueue, DecisionPack, ViewLinks, Rulings

VARIABLE desk

(* A case of which the policy knows nothing. *)
MCFacts == [operation |-> "publish_public", suppression_denied |-> FALSE,
            overall |-> Missing, semantic_review_state |-> Missing,
            distribution |-> Missing, boundary_version |-> Missing]

deskVars == <<vars, queueVars, packVars, linkVars, rulingVars, desk>>

InitDesk == /\ Init /\ InitQueue /\ InitPack /\ InitLinks /\ InitRulings
            /\ desk \in {"actions", "queue", "pack", "links", "checklist",
                         "policy"}
            /\ desk # "policy" => facts = MCFacts

NextDesk ==
    /\ UNCHANGED desk
    /\ \/ /\ desk = "actions" /\ Next
          /\ UNCHANGED <<queueVars, packVars, linkVars, rulingVars>>
       \/ /\ desk = "queue" /\ NextQueue
          /\ UNCHANGED <<vars, packVars, linkVars, rulingVars>>
       \/ /\ desk = "pack" /\ NextPack
          /\ UNCHANGED <<vars, queueVars, linkVars, rulingVars>>
       \/ /\ desk = "links" /\ NextLinks
          /\ UNCHANGED <<vars, queueVars, packVars, rulingVars>>
       \/ /\ desk = "checklist" /\ NextChecklist
          /\ UNCHANGED <<vars, queueVars, packVars, linkVars>>
       \/ /\ desk = "policy" /\ ReviseFacts
          /\ UNCHANGED <<vars, queueVars, packVars, linkVars>>

SpecDesk == InitDesk /\ [][NextDesk]_deskVars

-----------------------------------------------------------------------------
(* Two tasks that share an id and differ in priority and default, and one  *)
(* more.                                                                   *)
Question(queue, priority, question, default) ==
    [queue |-> queue, priority |-> priority, question |-> question,
     default |-> default]

MCQuestions == {Question("corrections", "P0", "withdraw?", NoDefault),
                Question("corrections", "P2", "withdraw?", "exclude"),
                Question("migration", "P1", "import?", NoDefault)}

MCPriorityTTL == [P0 |-> 1, P1 |-> 2, P2 |-> 2, P3 |-> 3]

(* Cards that meet each cap: 3 cards, 10 minutes, 1 complex decision, 1    *)
(* record review; two of them have equal keys.                             *)
WaitingCard(id, priority, born, value, minutes, is_complex, is_record) ==
    [id |-> id, priority |-> priority, born |-> born, value |-> value,
     minutes |-> minutes, is_complex |-> is_complex, is_record |-> is_record]

MCCards == {WaitingCard("a", "P0", 0, 1, 7, TRUE,  FALSE),
            WaitingCard("b", "P1", 0, 1, 4, FALSE, TRUE),
            WaitingCard("c", "P1", 0, 2, 3, TRUE,  FALSE),
            WaitingCard("d", "P1", 1, 2, 1, FALSE, TRUE),
            WaitingCard("e", "P3", 0, 1, 3, FALSE, FALSE),
            WaitingCard("f", "P3", 0, 1, 2, FALSE, FALSE)}

MCCaps == [review_minutes |-> 10, decision_cards |-> 3, record_reviews |-> 1,
           complex_decisions |-> 1]

(* Of each kind one criterion, but two instruments: the second of them     *)
(* must have a result and decides nothing.                                 *)
MCRubric == <<"ai_nexus", "instrument_exists", "order_published",
              "primary_accessible", "investigation", "ai_incidental_only">>

MCKind == [c \in {MCRubric[i] : i \in DOMAIN MCRubric} |->
              CASE c = "ai_nexus"           -> "core_inclusion"
                [] c = "ai_incidental_only" -> "exclusion"
                [] c \in {"instrument_exists", "order_published"} -> "instrument"
                [] c = "primary_accessible" -> "accessibility"
                [] c = "investigation"      -> "investigation_signal"]

=============================================================================
