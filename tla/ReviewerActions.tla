--------------------------- MODULE ReviewerActions ---------------------------
(***************************************************************************)
(* The decision core behind the reviewers' command API                     *)
(* (reviewer_actions.py).  One ActionProcessor serves requests of several  *)
(* sessions.  A client may repeat a request it got no answer to, two       *)
(* clients may hold the same version of a target, and days pass between    *)
(* the staging of a change and its confirmation: any request may arrive at *)
(* any time, any number of times, through any session.                     *)
(*                                                                         *)
(* A call that raises before it applied anything is not a step.  Versions  *)
(* "v0", "v1", ... are numbers.  Nothing but the processor writes them, so *)
(* the branch for a version that does not start with "v" is unreachable.   *)
(***************************************************************************)
EXTENDS Integers, FiniteSets, Sequences

CONSTANTS Requests,     \* the requests clients send
          Batches,      \* the sequences of requests sent to process_bulk
          Sessions,     \* the sessions the service layer hands over
          Diffs,        \* the hashes of the diffs shown at staging
          NoDiff,       \* a request without fresh_diff_hash
          Changes,      \* the changes staged: pairs of target and class
          DayLength,    \* clock ticks per calendar day
          MaxTime,      \* bound on the clock
          MaxIntents    \* bound on the stagings

HUMAN_ROLES == {"operator_reviewer", "policy_rights_adjudicator",
                "release_approver"}
OPERATOR == "Alexios"

CLASS_REQUIRED_ROLE ==
    [ordinary_review          |-> "operator_reviewer",
     identity_merge_split     |-> "operator_reviewer",
     conflict                 |-> "operator_reviewer",
     material_correction      |-> "operator_reviewer",
     rights_personal_data     |-> "policy_rights_adjudicator",
     policy_override          |-> "policy_rights_adjudicator",
     suppression_retraction   |-> "policy_rights_adjudicator",
     release_approval         |-> "release_approver",
     automation_qualification |-> "release_approver"]

SENSITIVE_NO_BULK == DOMAIN CLASS_REQUIRED_ROLE \ {"ordinary_review"}

COOLING_PERIOD_CLASSES ==
    {"material_correction", "boundary_change", "rubric_change",
     "source_policy_change", "rights_policy_change"}

Classes == DOMAIN CLASS_REQUIRED_ROLE \cup COOLING_PERIOD_CLASSES

Targets == {r.target_ref : r \in Requests}

Session == [actor : STRING, roles : SUBSET HUMAN_ROLES,
            authenticated : BOOLEAN, expires_at : Nat]

(* csrf_ok: the request carries its session's token; supported: it edits   *)
(* no assertion, or one that _assertion_ok accepts.                        *)
Request == [target_ref : STRING, role : STRING, decision_class : Classes,
            expected_version : Nat, nonce : STRING, idempotency_key : STRING,
            csrf_ok : BOOLEAN, supported : BOOLEAN,
            fresh_diff_hash : Diffs \cup {NoDiff}]

ASSUME ReviewerActionsAssumption ==
    /\ Requests \subseteq Request
    /\ Sessions \subseteq Session
    /\ \A b \in Batches : b \in Seq(Requests)
    /\ NoDiff \notin Diffs
    /\ Changes \subseteq Targets \X COOLING_PERIOD_CLASSES
    /\ DayLength \in Nat \ {0}
    /\ MaxTime \in Nat
    /\ MaxIntents \in Nat

VARIABLES processor,    \* the ActionProcessor: versions, nonces, idem, staged
          clock,        \* the time callers pass as "now"
          left,         \* what a call of process_bulk has yet to process
          pending,      \* what it will return, were it to end now
          intents,      \* history: every staging, in order
          answered      \* history: the requests that got a decision back

vars == <<processor, clock, left, pending, intents, answered>>

Day(t)  == t \div DayLength
Today   == Day(clock)

Intent == [change : Changes, date : Nat, diff : Diffs]
Result == [request : Requests, decided_at : Nat,
           input_version : Nat, output_version : Nat]

(* The dictionaries are functions on the keys they hold. *)
TypeOK ==
    /\ processor.versions \in [Targets -> Nat]
    /\ processor.nonces \subseteq {r.nonce : r \in Requests}
    /\ \A k \in DOMAIN processor.idem : processor.idem[k] \in Result
    /\ DOMAIN processor.staged \subseteq Changes
    /\ \A c \in DOMAIN processor.staged : processor.staged[c] \in Intent
    /\ clock \in 0..MaxTime
    /\ left \in Seq([session : Sessions, request : Requests])
    /\ pending \subseteq Requests \X Result
    /\ intents \in Seq(Intent)
    /\ answered \subseteq Requests \X Result

Empty == [x \in {} |-> 0]

Init == /\ processor = [versions |-> [t \in Targets |-> 0], nonces |-> {},
                        idem |-> Empty, staged |-> Empty]
        /\ clock = 0
        /\ left = <<>>
        /\ pending = {}
        /\ intents = <<>>
        /\ answered = {}

-----------------------------------------------------------------------------

(* Session.check and _require_role. *)
Permitted(s, r) ==
    /\ s.authenticated
    /\ s.actor = OPERATOR
    /\ clock < s.expires_at
    /\ r.csrf_ok
    /\ r.role \in HUMAN_ROLES \cap s.roles
    /\ r.decision_class \in DOMAIN CLASS_REQUIRED_ROLE
    /\ r.role = CLASS_REQUIRED_ROLE[r.decision_class]

Known(p, r) == r.idempotency_key \in DOMAIN p.idem

NonceForgotten(p, r) == FALSE                                       \* mutant
Replayed(p, r) == r.nonce \in p.nonces

AnyVersion(p, r) == TRUE                                            \* mutant
IsCurrent(p, r) == r.expected_version = p.versions[r.target_ref]

Change(r) == <<r.target_ref, r.decision_class>>
IsCooling(r) == r.decision_class \in COOLING_PERIOD_CLASSES

SameDay(p, r) == /\ Change(r) \in DOMAIN p.staged                   \* mutant
                 /\ p.staged[Change(r)].date <= Today
                 /\ r.fresh_diff_hash = p.staged[Change(r)].diff
Confirms(p, r) == /\ Change(r) \in DOMAIN p.staged
                  /\ p.staged[Change(r)].date < Today
                  /\ r.fresh_diff_hash = p.staged[Change(r)].diff

(* What a request must pass when its idempotency key is new. *)
Acceptable(p, r) == /\ ~Replayed(p, r)
                    /\ IsCurrent(p, r)
                    /\ r.supported
                    /\ IsCooling(r) => Confirms(p, r)

DecisionOnPrevious(p, r) ==                                         \* mutant
    [request |-> r, decided_at |-> clock,
     input_version |-> p.versions[r.target_ref] - 1,
     output_version |-> p.versions[r.target_ref]]
Decision(p, r) == [request |-> r, decided_at |-> clock,
                   input_version |-> p.versions[r.target_ref],
                   output_version |-> p.versions[r.target_ref] + 1]

With(f, x, y) == [z \in DOMAIN f \cup {x} |-> IF z = x THEN y ELSE f[z]]

StagingKept(p, r) == p.staged                                       \* mutant
Unstaged(p, r) == [c \in DOMAIN p.staged \ {Change(r)} |-> p.staged[c]]

(* The processor after it applied r: the version bumped, the nonce and the *)
(* result kept, a confirmed change no longer staged.                       *)
Applied(p, r) ==
    LET d == Decision(p, r) IN
    [versions |-> [p.versions EXCEPT ![r.target_ref] = d.output_version],
     nonces   |-> p.nonces \cup {r.nonce},
     idem     |-> With(p.idem, r.idempotency_key, d),
     staged   |-> IF IsCooling(r) THEN Unstaged(p, r) ELSE p.staged]

(* process, without the session: a known key returns its earlier result    *)
(* and applies nothing, whatever the request that carries it.              *)
Processed(p, r) == IF Known(p, r) THEN p ELSE Applied(p, r)

Answer(p, r) == <<r, Processed(p, r).idem[r.idempotency_key]>>

Accepts(p, s, r) == Permitted(s, r) /\ (Known(p, r) \/ Acceptable(p, r))

-----------------------------------------------------------------------------

(* Each call is one step of a single thread, but for process_bulk, which   *)
(* takes a step for each of its requests; nothing comes between those.     *)
Idle == left = <<>>

(* stage_cooling_period: the day-1 intent.  A second staging of the same   *)
(* change replaces the first.                                              *)
Stage(change, diff) ==
    LET intent == [change |-> change, date |-> Today, diff |-> diff] IN
    /\ Idle
    /\ Len(intents) < MaxIntents
    /\ processor' = [processor EXCEPT !.staged = With(@, change, intent)]
    /\ intents' = Append(intents, intent)
    /\ UNCHANGED <<clock, left, pending, answered>>

Process(s, r) ==
    /\ Idle
    /\ Accepts(processor, s, r)
    /\ processor' = Processed(processor, r)
    /\ answered' = answered \cup {Answer(processor, r)}
    /\ UNCHANGED <<clock, left, pending, intents>>

(* process_bulk: refused as a whole for any sensitive class.               *)
StartBulk(s, batch) ==
    /\ Idle
    /\ \A i \in DOMAIN batch : batch[i].decision_class \notin SENSITIVE_NO_BULK
    /\ left' = [i \in DOMAIN batch |-> [session |-> s, request |-> batch[i]]]
    /\ UNCHANGED <<processor, clock, pending, intents, answered>>

(* Then request by request.  The first one refused raises: what came       *)
(* before it stays applied and the caller gets no result at all.           *)
ProcessNext ==
    LET s == Head(left).session
        r == Head(left).request
        known == pending \cup {Answer(processor, r)}
    IN  /\ ~Idle
        /\ \/ /\ Accepts(processor, s, r)
              /\ processor' = Processed(processor, r)
              /\ left' = Tail(left)
              /\ \/ left' # <<>> /\ pending' = known /\ UNCHANGED answered
                 \/ left' = <<>> /\ pending' = {}
                                 /\ answered' = answered \cup known
           \/ /\ ~Accepts(processor, s, r)
              /\ left' = <<>> /\ pending' = {}
              /\ UNCHANGED <<processor, answered>>
        /\ UNCHANGED <<clock, intents>>

Tick == /\ Idle
        /\ clock < MaxTime
        /\ clock' = clock + 1
        /\ UNCHANGED <<processor, left, pending, intents, answered>>

Next == \/ \E change \in Changes, diff \in Diffs : Stage(change, diff)
        \/ \E s \in Sessions : \/ \E r \in Requests : Process(s, r)
                               \/ \E b \in Batches : StartBulk(s, b)
        \/ ProcessNext
        \/ Tick

Spec == Init /\ [][Next]_vars

-----------------------------------------------------------------------------
(* The results on record are the decisions that were applied. *)
OnTarget(t) ==
    {k \in DOMAIN processor.idem : processor.idem[k].request.target_ref = t}

(* No decision silently overwrites another: every version of a target was  *)
(* left by exactly one decision, whose reviewer had seen that very         *)
(* version; retries and half-done batches apply nothing a second time      *)
(* (reviewer_actions.py:192-201, 219-229, 239).                            *)
NoSilentOverwrite ==
    \A t \in Targets :
        LET seen == {processor.idem[k].request.expected_version :
                         k \in OnTarget(t)}
        IN  /\ Cardinality(OnTarget(t)) = processor.versions[t]
            /\ seen = 0 .. processor.versions[t] - 1

(* A nonce is good for one decision, under whatever key it comes back      *)
(* (reviewer_actions.py:195-196, 226).                                     *)
NonceUsedOnce ==
    \A k, l \in DOMAIN processor.idem :
        processor.idem[k].request.nonce = processor.idem[l].request.nonce
            => k = l

(* The decisions up to a day that confirmed a change with a diff, and the  *)
(* stagings of it on earlier days.                                         *)
Confirmations(c, diff, day) ==
    {k \in DOMAIN processor.idem :
        LET res == processor.idem[k] IN
        /\ Change(res.request) = c
        /\ res.request.fresh_diff_hash = diff
        /\ Day(res.decided_at) <= day}

Stagings(c, diff, day) ==
    {i \in DOMAIN intents :
        /\ intents[i].change = c
        /\ intents[i].diff = diff
        /\ intents[i].date < day}

(* The cooling period is kept: up to any day, a change with a given diff   *)
(* was confirmed at most as often as it had been staged with that diff on  *)
(* earlier days, so no staging serves twice, on its own day, or for a diff *)
(* it did not show (reviewer_actions.py:209-216, 230-231).                 *)
CoolingPeriodKept ==
    \A c \in Changes, diff \in Diffs, day \in 0..Day(MaxTime) :
        Cardinality(Confirmations(c, diff, day))
            <= Cardinality(Stagings(c, diff, day))

(* "Decision types stay separate [...] so an earlier ordinary-review       *)
(* approval never satisfies a later rights, policy, or release decision":  *)
(* no request is answered with a decision of another role                  *)
(* (docs/review/reviewer-actions.md:23-26, reviewer_actions.py:193-194).   *)
DecisionTypesAreSeparate ==
    \A a \in answered : a[1].role = a[2].request.role

(* A staged change has a role that can confirm it: boundary, rubric,       *)
(* source-policy and rights-policy changes are "confirmed by the same      *)
(* operator on a later calendar day" (docs/review/reviewer-actions.md:     *)
(* 38-41, reviewer_actions.py:60-63, 179-181).                             *)
StagedChangeIsConfirmable ==
    \A c \in DOMAIN processor.staged :
        \E role \in HUMAN_ROLES :
            /\ c[2] \in DOMAIN CLASS_REQUIRED_ROLE
            /\ CLASS_REQUIRED_ROLE[c[2]] = role

=============================================================================
