------------------------------ MODULE PlanGates ------------------------------
(***************************************************************************)
(* The plan's evidence: receipts bound to commits, operator decisions, the *)
(* closing of tasks (builder/core/completion.py) and the verification of   *)
(* gates (atlas_plan.py).  The files only grow: agents and the clean       *)
(* checkout of the CI append receipts, the operator answers.               *)
(***************************************************************************)
EXTENDS Integers, FiniteSets

CONSTANTS GatedTasks,
          Gate,             \* task -> its gate
          Gates,
          Decisions,
          GATE_OPERATOR_DECISIONS,  \* gate -> the decisions it needs
          SelfAssertedOk,   \* GATE_EVIDENCE_POLICY
          CriteriaSets,     \* the results a receipt may list
          MaxCommits,       \* bound on the commits
          MaxReceipts       \* bound on the receipts

Results == {"pass", "not_applicable", "fail", "indeterminate"}

ASSUME PlanGatesAssumption ==
    /\ Gate \in [GatedTasks -> Gates]
    /\ GATE_OPERATOR_DECISIONS \in [Gates -> SUBSET Decisions]
    /\ SelfAssertedOk \subseteq Gates
    /\ CriteriaSets \subseteq SUBSET Results
    /\ MaxCommits \in Nat
    /\ MaxReceipts \in Nat

NoManifest == [pass |-> FALSE, commit |-> 0]

VARIABLES head,         \* the checked out commit
          receipts,     \* plan/evidence.jsonl
          decisions,    \* load_decisions
          closed,       \* history: each task's commit when close_task said done
          gate          \* each gate's manifest

gateVars == <<head, receipts, decisions, closed, gate>>

InitGates == /\ head = 1
             /\ receipts = {}
             /\ decisions = {}
             /\ closed = [t \in GatedTasks |-> 0]
             /\ gate = [g \in Gates |-> NoManifest]

Commit == /\ head < MaxCommits
          /\ head' = head + 1
          /\ UNCHANGED <<receipts, decisions, closed, gate>>

(* A line is appended to the evidence file.  The schema forbids an empty   *)
(* set of criteria; only task-verify looks at it.                          *)
Record(t, criteria, self_asserted) ==
    /\ Cardinality(receipts) < MaxReceipts
    /\ receipts' = receipts \cup {[task |-> t, criteria |-> criteria,
                                   self_asserted |-> self_asserted,
                                   result_commit |-> head]}
    /\ UNCHANGED <<head, decisions, closed, gate>>

Decide(d) == /\ decisions' = decisions \cup {d}
             /\ UNCHANGED <<head, receipts, closed, gate>>

-----------------------------------------------------------------------------

(* _receipt_ok *)
Passes(r) == r.criteria \subseteq {"pass", "not_applicable"}
ReceiptsOk(t) == {r \in receipts : r.task = t /\ Passes(r)}

(* task_verify: one malformed receipt of the task fails it. *)
TaskVerified(t) ==
    /\ \A r \in receipts : r.task = t => r.criteria # {}
    /\ \E r \in ReceiptsOk(t) : r.result_commit = head

(* close_task, for a provider result that is complete and well formed. *)
CloseTask(t) == /\ TaskVerified(t)
                /\ closed' = [closed EXCEPT ![t] = head]
                /\ UNCHANGED <<head, receipts, decisions, gate>>

(* gate_verify: evidence of any commit. *)
AnyEvidence(t) == ReceiptsOk(t) # {}                                \* mutant
EvidenceIsEnough(t) ==
    \E r \in ReceiptsOk(t) : ~r.self_asserted \/ Gate[t] \in SelfAssertedOk

VerifyGate(g) ==
    /\ \E t \in GatedTasks : Gate[t] = g
    /\ gate' = [gate EXCEPT ![g] =
          [pass |-> /\ \A t \in GatedTasks : Gate[t] = g => EvidenceIsEnough(t)
                    /\ GATE_OPERATOR_DECISIONS[g] \subseteq decisions,
           commit |-> head]]
    /\ UNCHANGED <<head, receipts, decisions, closed>>

NextGates ==
    \/ Commit
    \/ \E t \in GatedTasks, criteria \in CriteriaSets, self \in BOOLEAN :
          Record(t, criteria, self)
    \/ \E d \in Decisions : Decide(d)
    \/ \E t \in GatedTasks : CloseTask(t)
    \/ \E g \in Gates : VerifyGate(g)

SpecGates == InitGates /\ [][NextGates]_gateVars

-----------------------------------------------------------------------------

(* "self-asserted receipts never satisfy gate-verify" (atlas_plan.py:13),  *)
(* but for the gates whose policy says so: a gate that passed rests, for   *)
(* every task, on a passing receipt of the clean checkout no later than    *)
(* the commit it passed at, and on every operator decision it needs; a     *)
(* task is closed on a passing receipt bound to the commit of its closing. *)
Earned(t, commit) ==
    \E r \in receipts : /\ r.task = t
                        /\ Passes(r)
                        /\ ~r.self_asserted \/ Gate[t] \in SelfAssertedOk
                        /\ r.result_commit <= commit

GatePassIsEarned ==
    /\ \A g \in Gates : gate[g].pass =>
          /\ \A t \in GatedTasks : Gate[t] = g => Earned(t, gate[g].commit)
          /\ GATE_OPERATOR_DECISIONS[g] \subseteq decisions
    /\ \A t \in GatedTasks : closed[t] # 0 =>
          \E r \in receipts : /\ r.task = t
                              /\ Passes(r)
                              /\ r.result_commit = closed[t]

(* "done only with a clean-checkout CI receipt for the exact result        *)
(* commit" (builder/contracts/HAR-000-01-supervisor.md:16-18).  It does    *)
(* not hold: close_task asks task-verify, which takes any receipt.         *)
DoneHasCleanEvidence ==
    \A t \in GatedTasks : closed[t] # 0 =>
        \E r \in receipts : /\ r.task = t
                            /\ Passes(r)
                            /\ ~r.self_asserted
                            /\ r.result_commit = closed[t]

=============================================================================
