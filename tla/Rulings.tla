------------------------------- MODULE Rulings -------------------------------
(***************************************************************************)
(* The two pure rulings that stand between a candidate and the public: the *)
(* boundary checklist (triage.py, evaluate) and the publication policy     *)
(* (policy.py, evaluate).  What they are asked about changes while work    *)
(* goes on: facts are found, revised and lost, one at a time.              *)
(***************************************************************************)
EXTENDS Integers

CONSTANTS Rubric,       \* the sequence of the rubric's criteria
          Kind,         \* criterion -> its kind
          Missing       \* None in the policy's arguments

Criteria == {Rubric[i] : i \in DOMAIN Rubric}

Kinds == {"core_inclusion", "exclusion", "instrument", "accessibility",
          "investigation_signal"}

ASSUME RulingsAssumption ==
    /\ DOMAIN Rubric \subseteq Nat
    /\ Kind \in [Criteria -> Kinds]
    /\ {"instrument", "accessibility"} \subseteq {Kind[c] : c \in Criteria}
    /\ Missing \notin {"pass", "fail", "indeterminate", "human_approved",
                      "proposed", "cleared", "not_cleared", "1.0.0"}

VARIABLES results,      \* the checklist: the criteria that have a result
          facts         \* the policy's arguments

rulingVars == <<results, facts>>

-----------------------------------------------------------------------------
(* triage.py *)

RESULT_VALUES == {"met", "not_met", "uncertain", "not_applicable"}

ByKind(kind) == {c \in Criteria : Kind[c] = kind}

(* results.get(criterion) *)
ResultOf(given, c) == IF c \in DOMAIN given THEN given[c] ELSE "missing"
Some(given, kind, values) == \E c \in ByKind(kind) : ResultOf(given, c) \in values

(* _one: of the criteria of a kind, the one the rubric lists first; the    *)
(* others of that kind must have a result, and it decides nothing.         *)
IsFirst(c, kind) ==
    \E i \in DOMAIN Rubric :
        /\ c = Rubric[i] /\ Kind[c] = kind
        /\ \A j \in DOMAIN Rubric : j < i => Kind[Rubric[j]] # kind

TheOne(given, kind, values) ==
    \E c \in Criteria : IsFirst(c, kind) /\ ResultOf(given, c) \in values

CoreIsComplete(given) == ByKind("core_inclusion") \subseteq DOMAIN given  \* mutant
IsComplete(given) == DOMAIN given = Criteria

(* evaluate: the route, by the first rule that applies. *)
Route(given) ==
    CASE ~IsComplete(given) -> "review"
      [] OTHER ->
    CASE \/ Some(given, "exclusion", {"met"})
         \/ Some(given, "core_inclusion", {"not_met"}) -> "exclude"
      [] OTHER ->
    CASE Some(given, "core_inclusion", {"uncertain", "not_applicable"}) -> "review"
      [] OTHER ->
    CASE /\ ~TheOne(given, "instrument", {"met"})
         /\ TheOne(given, "investigation_signal", {"met"}) -> "awaiting_primary"
      [] /\ ~TheOne(given, "instrument", {"met"})
         /\ ~TheOne(given, "investigation_signal", {"met"}) -> "review"
      [] /\ TheOne(given, "instrument", {"met"})
         /\ ~TheOne(given, "accessibility", {"met"}) -> "awaiting_primary"
      [] OTHER -> "include"

-----------------------------------------------------------------------------
(* policy.py *)

Facts == [operation : {"publish_public", "other"},
          suppression_denied : BOOLEAN,
          overall : {Missing, "pass", "fail", "indeterminate"},
          semantic_review_state : {Missing, "human_approved", "proposed"},
          distribution : {Missing, "cleared", "not_cleared"},
          boundary_version : {Missing, "1.0.0"}]

Denies(f, reason) ==
    \/ reason = "suppressed" /\ f.suppression_denied
    \/ reason = "unverified" /\ f.overall = Missing
    \/ reason = "failed"     /\ f.overall = "fail"
    \/ /\ f.operation = "publish_public"
       /\ \/ reason = "unreviewed" /\ f.semantic_review_state = Missing
          \/ reason = "rights"     /\ f.distribution # "cleared"
          \/ reason = "boundary"   /\ f.boundary_version = Missing

Denials(f) == {reason \in {"suppressed", "unverified", "failed", "unreviewed",
                           "rights", "boundary"} : Denies(f, reason)}

NeedsReview(f) ==
    \/ f.overall = "indeterminate"
    \/ /\ f.operation = "publish_public"
       /\ f.semantic_review_state = "proposed"

PolicyDecision(f) == CASE Denials(f) # {}                     -> "deny"
                       [] Denials(f) = {} /\ NeedsReview(f)   -> "human_review"
                       [] Denials(f) = {} /\ ~NeedsReview(f)  -> "allow"

-----------------------------------------------------------------------------

InitRulings == /\ results = [c \in {} |-> "met"]
               /\ facts \in {f \in Facts : f.overall = Missing}

Settle(c, result) ==
    /\ results' = [k \in DOMAIN results \cup {c} |->
                       IF k = c THEN result ELSE results[k]]
    /\ UNCHANGED facts

Withdraw(c) == /\ results' = [k \in DOMAIN results \ {c} |-> results[k]]
               /\ UNCHANGED facts

ReviseFacts == /\ facts' \in Facts
               /\ UNCHANGED results

NextChecklist == \/ \E c \in Criteria, r \in RESULT_VALUES : Settle(c, r)
                 \/ \E c \in DOMAIN results : Withdraw(c)

SpecRulings == InitRulings /\ [][NextChecklist \/ ReviseFacts]_rulingVars

-----------------------------------------------------------------------------

(* A checklist says less when a result is withdrawn, or becomes uncertain  *)
(* though only a met one helps an include.  An exclusion that turns        *)
(* uncertain is not among these: evaluate then stops excluding.            *)
SaysLess(new, old) ==
    /\ DOMAIN new \subseteq DOMAIN old
    /\ \A c \in DOMAIN new :
          \/ new[c] = old[c]
          \/ new[c] = "uncertain" /\ Kind[c] # "exclusion"

KnowsLess(new, old) ==
    /\ new.operation = old.operation
    /\ new.suppression_denied = old.suppression_denied
    /\ \A field \in DOMAIN new : new[field] \in {old[field], Missing}

Strictness == [allow |-> 0, human_review |-> 1, deny |-> 2]

(* "Missing or unknown information never silently becomes allow"           *)
(* (policy.py:4) and "a missing criterion can never silently become an     *)
(* include" (triage.py:9): with less information a case that was not       *)
(* included is not, and the policy is at least as strict as before.        *)
LossNeverLoosens ==
    [][/\ SaysLess(results', results) /\ Route(results') = "include" =>
              Route(results) = "include"
       /\ KnowsLess(facts', facts) =>
              Strictness[PolicyDecision(facts')] >= Strictness[PolicyDecision(facts)]
      ]_rulingVars

=============================================================================
