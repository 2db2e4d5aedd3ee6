------------------------------- MODULE MCTools -------------------------------
(***************************************************************************)
(* The tools around the atlas side by side: the live probe, the plan's     *)
(* graph and gates, and the builder's budget.  They share no state, so a   *)
(* behaviour moves one of them, chosen at the start; the others stay as    *)
(* they were initialised.                                                  *)
(***************************************************************************)
EXTENDS LiveProbe, PlanGraph, PlanGates, BudgetLedger

VARIABLE tool

toolsVars == <<probeVars, graphVars, gateVars, budgetVars, tool>>

(* Only the graph's walk needs more than one plan. *)
InitTools ==
    /\ InitProbe /\ InitGraph /\ InitGates /\ InitBudget
    /\ tool \in {"probe", "graph", "gates", "budget"}
    /\ tool # "graph" => depends_on = [t \in Tasks |-> {}]
    /\ tool # "probe" => probe.source = "ftc_enforcement"
    /\ tool # "budget" => ceiling = Unset

ProbeMoves == /\ tool = "probe" /\ NextProbe
              /\ UNCHANGED <<graphVars, gateVars, budgetVars, tool>>

NextTools ==
    \/ ProbeMoves
    \/ /\ tool = "graph" /\ NextGraph
       /\ UNCHANGED <<probeVars, gateVars, budgetVars, tool>>
    \/ /\ tool = "gates" /\ NextGates
       /\ UNCHANGED <<probeVars, graphVars, budgetVars, tool>>
    \/ /\ tool = "budget" /\ NextBudget
       /\ UNCHANGED <<probeVars, graphVars, gateVars, tool>>

SpecTools == InitTools /\ [][NextTools]_toolsVars /\ WF_toolsVars(ProbeMoves)

-----------------------------------------------------------------------------
(* Two spellings of one url, and a url without a cluster id. *)
MCCandidate == [l \in {"u/1", "u/1?x", "nokey"} |->
                   CASE l \in {"u/1", "u/1?x"} -> "c1" [] l = "nokey" -> "c2"]
MCGate == [t \in {"BOOT-010", "KER-001", "KER-002"} |->
              IF t = "BOOT-010" THEN "G0" ELSE "G1"]
MCDecisions == [g \in {"G0", "G1"} |-> IF g = "G0" THEN {"G0-Q1"} ELSE {}]
MCCriteria == {{}, {"pass", "not_applicable"}, {"pass", "fail"}}

=============================================================================
