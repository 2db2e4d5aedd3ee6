-------------------------- MODULE ReviewDeskProofs --------------------------
(***************************************************************************)
(* Theorems about the parts around a reviewer's desk: the review queue     *)
(* (any questions, times to live, answers and number of arrivals), the     *)
(* one-time links (any items, salts and lives) and the rulings (any rubric *)
(* and any facts).  Each part has its own state, invariant and assumption. *)
(***************************************************************************)
EXTENDS ReviewQueue, ViewLinks, Rulings, ReviewerActions, DecisionPack,
        SumTheorems

-----------------------------------------------------------------------------
(* The review queue. *)

USE ReviewQueueAssumption

TaskType == [queue : QUEUES, priority : PRIORITIES, question : STRING,
             created_at : Nat, restrictive_default : RESTRICTIVE_DEFAULTS,
             expiry : Nat]

(* An open entry still carries the task of its own arrival. *)
OpenAsAsked ==
    \A e \in open : e.nr \in DOMAIN asked /\ e.task = asked[e.nr]

IInvQueue == /\ asked \in Seq(TaskType)
             /\ hours \in Nat
             /\ OpenAsAsked
             /\ EveryArrivalIsAccounted
             /\ UnansweredIsRestrictive

LEMMA InitIInvQueue == InitQueue => IInvQueue
  BY DEF InitQueue, IInvQueue, OpenAsAsked, EveryArrivalIsAccounted,
         UnansweredIsRestrictive

(* make_task accepts nothing but a restrictive default. *)
LEMMA DefaultIsRestrictive ==
    ASSUME NEW q \in Questions PROVE Default(q) \in RESTRICTIVE_DEFAULTS
<1>1. \A r \in QUEUES : QUEUE_DEFAULT_DISPOSITION[r] \in RESTRICTIVE_DEFAULTS
  BY DEF QUEUES, QUEUE_DEFAULT_DISPOSITION, RESTRICTIVE_DEFAULTS
<1>2. q.queue \in QUEUES
  OBVIOUS
<1>3. q.default = NoDefault \/ q.default \in RESTRICTIVE_DEFAULTS
  OBVIOUS
<1> QED
  BY <1>1, <1>2, <1>3 DEF Default

LEMMA MadeTaskType ==
    ASSUME NEW q \in Questions, NEW created \in Nat
    PROVE  Task(q, created) \in TaskType
<1>1. /\ q.queue \in QUEUES /\ q.priority \in PRIORITIES
      /\ q.question \in STRING
  OBVIOUS
<1>2. PRIORITY_TTL[q.priority] \in Nat
  BY <1>1
<1> QED
  BY <1>1, <1>2, DefaultIsRestrictive DEF Task, TaskType

(* One more arrival. *)
LEMMA OneMoreArrival ==
    ASSUME asked \in Seq(TaskType), NEW task \in TaskType
    PROVE  /\ Append(asked, task) \in Seq(TaskType)
           /\ Len(asked) \in Nat
           /\ Len(Append(asked, task)) = Len(asked) + 1
           /\ DOMAIN asked = 1..Len(asked)
           /\ DOMAIN Append(asked, task) = 1..(Len(asked) + 1)
           /\ Append(asked, task)[Len(asked) + 1] = task
           /\ \A i \in 1..Len(asked) : Append(asked, task)[i] = asked[i]
  OBVIOUS

LEMMA AddKeepsIInvQueue ==
    ASSUME IInvQueue, NEW task \in TaskType, Add(task)
    PROVE  IInvQueue'
<1> DEFINE n == Len(asked) + 1
           new == [task |-> task, arrived |-> hours, nr |-> n]
           old == Overwritten(task)
<1>1. /\ asked' = Append(asked, task)
      /\ open' = (open \ old) \cup {new}
      /\ replaced' = replaced \cup {e.nr : e \in old}
      /\ exits' = exits /\ hours' = hours
  BY DEF Add
<1>2. /\ asked' \in Seq(TaskType) /\ Len(asked) \in Nat /\ Len(asked') = n
      /\ DOMAIN asked = 1..Len(asked) /\ DOMAIN asked' = 1..n
      /\ asked'[n] = task
      /\ \A i \in 1..Len(asked) : asked'[i] = asked[i]
  BY <1>1, OneMoreArrival DEF IInvQueue
<1>3. old \subseteq open
  BY DEF Overwritten
<1>4. new.nr = n /\ new.task = task
  OBVIOUS
<1>5. /\ {e.nr : e \in open} \cup {x.nr : x \in exits} \cup replaced
             = 1..Len(asked)
      /\ {e.nr : e \in open} \cap {x.nr : x \in exits} = {}
      /\ ({e.nr : e \in open} \cup {x.nr : x \in exits}) \cap replaced = {}
      /\ \A d, e \in open : d.nr = e.nr => d = e
      /\ \A x, y \in exits : x.nr = y.nr => x = y
  BY DEF IInvQueue, EveryArrivalIsAccounted
<1> HIDE DEF n, new, old
<1>6. n \notin 1..Len(asked) /\ 1..n = 1..Len(asked) \cup {n}
  BY <1>2 DEF n
<1>7. EveryArrivalIsAccounted'
  <2>1. {e.nr : e \in open'} = ({e.nr : e \in open} \ {e.nr : e \in old}) \cup {n}
    BY <1>1, <1>3, <1>4, <1>5
  <2>2. /\ {e.nr : e \in open'} \cup {x.nr : x \in exits'} \cup replaced' = 1..n
        /\ {e.nr : e \in open'} \cap {x.nr : x \in exits'} = {}
        /\ ({e.nr : e \in open'} \cup {x.nr : x \in exits'}) \cap replaced' = {}
    <3> DEFINE O == {e.nr : e \in open}
               X == {x.nr : x \in exits}
               D == {e.nr : e \in old}
    <3>1. D \subseteq O
      BY <1>3
    <3>2. {x.nr : x \in exits'} = X /\ replaced' = replaced \cup D
      BY <1>1
    <3>3. {e.nr : e \in open'} = (O \ D) \cup {n}
      BY <2>1
    <3>4. /\ O \cup X \cup replaced = 1..Len(asked)
          /\ O \cap X = {} /\ (O \cup X) \cap replaced = {}
      BY <1>5
    <3> HIDE DEF O, X, D
    <3> QED
      BY <1>6, <3>1, <3>2, <3>3, <3>4
  <2>3. \A d, e \in open' : d.nr = e.nr => d = e
    BY <1>1, <1>4, <1>5, <1>6
  <2>4. \A x, y \in exits' : x.nr = y.nr => x = y
    BY <1>1, <1>5
  <2> QED
    BY <1>2, <2>2, <2>3, <2>4 DEF EveryArrivalIsAccounted
<1>8. OpenAsAsked'
  BY <1>1, <1>2, <1>4, <1>6 DEF IInvQueue, OpenAsAsked
<1>9. UnansweredIsRestrictive'
  <2>1. \A x \in exits : x.nr \in 1..Len(asked)
    BY <1>5
  <2> QED
    BY <1>1, <1>2, <2>1 DEF IInvQueue, UnansweredIsRestrictive
<1> QED
  BY <1>1, <1>2, <1>7, <1>8, <1>9 DEF IInvQueue

(* Some open entries leave, each with an exit of its own. *)
Leave(leaving, new) ==
    /\ leaving \subseteq open
    /\ open' = open \ leaving
    /\ exits' = exits \cup new
    /\ hours' = hours /\ asked' = asked /\ replaced' = replaced
    /\ \A e \in leaving : \E x \in new : x.nr = e.nr
    /\ \A x, y \in new : x.nr = y.nr => x = y
    /\ \A x \in new : \E e \in leaving :
          /\ x.nr = e.nr
          /\ x.reason = "expired_unanswered" =>
                 /\ x.resolution = e.task.restrictive_default
                 /\ x.exited >= e.task.expiry

LEMMA LeavingKeepsIInvQueue ==
    ASSUME IInvQueue, NEW leaving, NEW new, Leave(leaving, new)
    PROVE  IInvQueue'
<1> USE DEF Leave
<1>4. /\ {e.nr : e \in open} \cup {x.nr : x \in exits} \cup replaced
             = 1..Len(asked)
      /\ {e.nr : e \in open} \cap {x.nr : x \in exits} = {}
      /\ ({e.nr : e \in open} \cup {x.nr : x \in exits}) \cap replaced = {}
      /\ \A d, e \in open : d.nr = e.nr => d = e
      /\ \A x, y \in exits : x.nr = y.nr => x = y
  BY DEF IInvQueue, EveryArrivalIsAccounted
<1>5. EveryArrivalIsAccounted'
  <2> DEFINE O == {e.nr : e \in open}
             X == {x.nr : x \in exits}
             D == {e.nr : e \in leaving}
  <2>1. D \subseteq O
    OBVIOUS
  <2>2. {x.nr : x \in exits'} = X \cup D
    <3>1. {x.nr : x \in new} = D
      OBVIOUS
    <3> QED
      BY <3>1
  <2>3. {e.nr : e \in open'} = O \ D
    BY <1>4
  <2>4. /\ O \cup X \cup replaced = 1..Len(asked)
        /\ O \cap X = {} /\ (O \cup X) \cap replaced = {}
    BY <1>4
  <2>5. \A d, e \in open' : d.nr = e.nr => d = e
    BY <1>4
  <2>6. \A x, y \in exits' : x.nr = y.nr => x = y
    <3>1. \A x \in exits, y \in new : x.nr # y.nr
      BY <1>4
    <3> QED
      BY <1>4, <3>1
  <2> HIDE DEF O, X, D
  <2>7. /\ (O \ D) \cup (X \cup D) \cup replaced = 1..Len(asked)
        /\ (O \ D) \cap (X \cup D) = {}
        /\ ((O \ D) \cup (X \cup D)) \cap replaced = {}
    BY <2>1, <2>4
  <2> QED
    BY <2>2, <2>3, <2>5, <2>6, <2>7 DEF EveryArrivalIsAccounted
<1>6. UnansweredIsRestrictive'
  <2> SUFFICES ASSUME NEW x \in new, x.reason = "expired_unanswered"
               PROVE  /\ x.resolution \in RESTRICTIVE_DEFAULTS
                      /\ x.resolution = asked[x.nr].restrictive_default
                      /\ x.exited >= asked[x.nr].expiry
    BY DEF IInvQueue, UnansweredIsRestrictive
  <2>1. PICK e \in leaving : /\ x.nr = e.nr
                             /\ x.resolution = e.task.restrictive_default
                             /\ x.exited >= e.task.expiry
    OBVIOUS
  <2>2. e.nr \in DOMAIN asked /\ e.task = asked[e.nr]
    BY DEF IInvQueue, OpenAsAsked
  <2>3. asked[e.nr] \in TaskType
    BY <2>2 DEF IInvQueue
  <2> QED
    BY <2>1, <2>2, <2>3 DEF TaskType
<1> QED
  BY <1>5, <1>6 DEF IInvQueue, OpenAsAsked

LEMMA NextKeepsIInvQueue == IInvQueue /\ [NextQueue]_queueVars => IInvQueue'
<1> SUFFICES ASSUME IInvQueue, [NextQueue]_queueVars PROVE IInvQueue'
  OBVIOUS
<1>1. CASE \E q \in Questions, created \in 0..hours : Add(Task(q, created))
  <2>1. PICK q \in Questions, created \in 0..hours : Add(Task(q, created))
    BY <1>1
  <2>2. created \in Nat
    BY DEF IInvQueue
  <2> QED
    BY <2>1, <2>2, MadeTaskType, AddKeepsIInvQueue
<1>2. CASE \E e \in open, resolution \in Resolutions : Resolve(e, resolution)
  <2>1. PICK e \in open, resolution \in Resolutions : Resolve(e, resolution)
    BY <1>2
  <2> PICK new : new = {Exit(e, "answered", resolution)}
    OBVIOUS
  <2>2. /\ open' = open \ {e}
        /\ exits' = exits \cup new
        /\ hours' = hours /\ asked' = asked /\ replaced' = replaced
    BY <2>1 DEF Resolve, Remaining
  <2>3. \A x \in new : x.nr = e.nr /\ x.reason = "answered"
    BY DEF Exit
  <2>4. new # {} /\ \A x, y \in new : x = y
    OBVIOUS
  <2> PICK leaving : leaving = {e}
    OBVIOUS
  <2>5. Leave(leaving, new)
    BY <2>2, <2>3, <2>4 DEF Leave
  <2> QED
    BY <2>5, LeavingKeepsIInvQueue
<1>3. CASE ExpireUnanswered
  <2> PICK late : late = {e \in open : Overdue(e)}
    OBVIOUS
  <2> PICK new : new = {Exit(e, "expired_unanswered",
                             e.task.restrictive_default) : e \in late}
    OBVIOUS
  <2>1. /\ open' = open \ late
        /\ exits' = exits \cup new
        /\ hours' = hours /\ asked' = asked /\ replaced' = replaced
    BY <1>3 DEF ExpireUnanswered, Remaining
  <2>2. late \subseteq open /\ \A e \in late : hours >= e.task.expiry
    BY DEF Overdue
  <2>3. \A x \in new : \E e \in late :
           /\ x = Exit(e, "expired_unanswered", e.task.restrictive_default)
           /\ x.nr = e.nr
           /\ x.resolution = e.task.restrictive_default
           /\ x.exited = hours
    BY DEF Exit
  <2>4. \A e \in late : \E x \in new : x.nr = e.nr
    <3> TAKE e \in late
    <3> DEFINE x == Exit(e, "expired_unanswered", e.task.restrictive_default)
    <3>1. x \in new
      OBVIOUS
    <3>2. x.nr = e.nr
      BY DEF Exit
    <3> QED
      BY <3>1, <3>2
  <2>5. \A d, e \in late : d.nr = e.nr => d = e
    BY <2>2 DEF IInvQueue, EveryArrivalIsAccounted
  <2>6. \A x, y \in new : x.nr = y.nr => x = y
    BY <2>3, <2>5
  <2>7. \A x \in new : \E e \in late :
           /\ x.nr = e.nr
           /\ x.reason = "expired_unanswered" =>
                  /\ x.resolution = e.task.restrictive_default
                  /\ x.exited >= e.task.expiry
    BY <2>2, <2>3
  <2>8. Leave(late, new)
    BY <2>1, <2>2, <2>4, <2>6, <2>7 DEF Leave
  <2> QED
    BY <2>8, LeavingKeepsIInvQueue
<1>4. CASE HourPasses
  <2>1. hours' \in Nat /\ UNCHANGED <<open, exits, asked, replaced>>
    BY <1>4 DEF HourPasses, IInvQueue
  <2> QED
    BY <2>1 DEF IInvQueue, OpenAsAsked, EveryArrivalIsAccounted,
                UnansweredIsRestrictive
<1>5. CASE UNCHANGED queueVars
  BY <1>5 DEF queueVars, IInvQueue, OpenAsAsked, EveryArrivalIsAccounted,
              UnansweredIsRestrictive
<1> QED
  BY <1>1, <1>2, <1>3, <1>4, <1>5 DEF NextQueue

THEOREM QueueInvariant == SpecQueue => []IInvQueue
  BY InitIInvQueue, NextKeepsIInvQueue, PTL DEF SpecQueue

(* Every arrival is open, has left once or was replaced, and only one of   *)
(* these (review_queue.py:112-137).                                        *)
THEOREM ArrivalsAreConserved == SpecQueue => []EveryArrivalIsAccounted
<1>1. IInvQueue => EveryArrivalIsAccounted
  BY DEF IInvQueue
<1> QED
  BY QueueInvariant, <1>1, PTL

(* What leaves unanswered leaves with the restrictive default of its own   *)
(* arrival, at its expiry or later (review_queue.py:10-12).                *)
THEOREM SilenceIsRestrictive == SpecQueue => []UnansweredIsRestrictive
<1>1. IInvQueue => UnansweredIsRestrictive
  BY DEF IInvQueue
<1> QED
  BY QueueInvariant, <1>1, PTL

HIDE ReviewQueueAssumption

-----------------------------------------------------------------------------
(* The one-time links. *)

USE ViewLinksAssumption

Tokens == [item : Items, expires_at : Nat, salt : Salts]

Opening == [token : Tokens, at : Nat]

(* What opened a card is consumed, so it cannot open another. *)
IInvLinks == /\ days \in Nat
             /\ issued \subseteq Tokens
             /\ opened \in Seq(Opening)
             /\ \A i \in DOMAIN opened : opened[i].token \in consumed
             /\ LinkOpensOnce

LEMMA InitIInvLinks == InitLinks => IInvLinks
  BY DEF InitLinks, IInvLinks, LinkOpensOnce

(* The sequence of openings after one more. *)
LEMMA OneMoreOpening ==
    ASSUME opened \in Seq(Opening), NEW o \in Opening
    PROVE  /\ Append(opened, o) \in Seq(Opening)
           /\ DOMAIN Append(opened, o) = DOMAIN opened \cup {Len(opened) + 1}
           /\ Len(opened) + 1 \notin DOMAIN opened
           /\ \A i \in DOMAIN opened : Append(opened, o)[i] = opened[i]
           /\ Append(opened, o)[Len(opened) + 1] = o
  OBVIOUS

LEMMA ConsumeKeepsIInvLinks ==
    ASSUME IInvLinks, NEW token \in issued, Consume(token)
    PROVE  IInvLinks'
<1> DEFINE o == [token |-> token, at |-> days]
<1>1. o \in Opening /\ opened \in Seq(Opening)
  BY DEF IInvLinks, Opening
<1>2. /\ opened' = Append(opened, o)
      /\ consumed' = consumed \cup {token}
      /\ token \notin consumed
      /\ days < token.expires_at
      /\ days' = days /\ issued' = issued
  BY DEF Consume, Usable
<1>3. o.token = token /\ o.at = days
  OBVIOUS
<1> HIDE DEF o
<1>4. /\ opened' \in Seq(Opening)
      /\ DOMAIN opened' = DOMAIN opened \cup {Len(opened) + 1}
      /\ Len(opened) + 1 \notin DOMAIN opened
      /\ \A i \in DOMAIN opened : opened'[i] = opened[i]
      /\ opened'[Len(opened) + 1] = o
  BY <1>1, <1>2, OneMoreOpening
<1>5. \A i \in DOMAIN opened : opened[i].token \in consumed
  BY DEF IInvLinks
<1>6. \A i \in DOMAIN opened' : opened'[i].token \in consumed'
  BY <1>2, <1>3, <1>4, <1>5
<1>7. LinkOpensOnce'
  <2>1. \A i \in DOMAIN opened : opened[i].token # token
    BY <1>2, <1>5
  <2>2. ASSUME NEW i \in DOMAIN opened', NEW j \in DOMAIN opened',
               opened'[i].token = opened'[j].token
        PROVE  i = j
    BY <1>3, <1>4, <2>1, <2>2 DEF IInvLinks, LinkOpensOnce
  <2>3. \A i \in DOMAIN opened' : opened'[i].at < opened'[i].token.expires_at
    BY <1>2, <1>3, <1>4 DEF IInvLinks, LinkOpensOnce
  <2> QED
    BY <2>2, <2>3 DEF LinkOpensOnce
<1> QED
  BY <1>2, <1>4, <1>6, <1>7 DEF IInvLinks

LEMMA NextKeepsIInvLinks == IInvLinks /\ [NextLinks]_linkVars => IInvLinks'
<1> SUFFICES ASSUME IInvLinks, [NextLinks]_linkVars PROVE IInvLinks'
  OBVIOUS
<1>1. CASE \E item \in Items, life \in LinkLives, salt \in Salts :
              Issue(item, life, salt)
  <2> PICK item \in Items, life \in LinkLives, salt \in Salts :
         Issue(item, life, salt)
    BY <1>1
  <2>1. Token(item, days + life, salt) \in Tokens
    BY DEF Token, Tokens, IInvLinks
  <2> QED
    BY <2>1 DEF Issue, IInvLinks, LinkOpensOnce
<1>2. CASE \E token \in issued : Consume(token)
  BY <1>2, ConsumeKeepsIInvLinks
<1>3. CASE DayPasses
  BY <1>3 DEF DayPasses, IInvLinks, LinkOpensOnce
<1>4. CASE UNCHANGED linkVars
  BY <1>4 DEF linkVars, IInvLinks, LinkOpensOnce
<1> QED
  BY <1>1, <1>2, <1>3, <1>4 DEF NextLinks

(* A link opens a card once and before it expires, however many links are  *)
(* issued, and issued again, in whatever order (decision_pack.py:127).     *)
THEOREM LinksAreSingleUse == SpecLinks => []LinkOpensOnce
<1>1. SpecLinks => []IInvLinks
  BY InitIInvLinks, NextKeepsIInvLinks, PTL DEF SpecLinks
<1>2. IInvLinks => LinkOpensOnce
  BY DEF IInvLinks
<1> QED
  BY <1>1, <1>2, PTL

HIDE ViewLinksAssumption

-----------------------------------------------------------------------------
(* The checklist and the publication policy. *)

USE RulingsAssumption

IInvRulings == DOMAIN results \subseteq Criteria /\ facts \in Facts

LEMMA InitIInvRulings == InitRulings => IInvRulings
  BY DEF InitRulings, IInvRulings

LEMMA NextKeepsIInvRulings ==
    ASSUME IInvRulings, [NextChecklist \/ ReviseFacts]_rulingVars
    PROVE  IInvRulings'
<1>1. CASE \E c \in Criteria, r \in RESULT_VALUES : Settle(c, r)
  BY <1>1 DEF Settle, IInvRulings
<1>2. CASE \E c \in DOMAIN results : Withdraw(c)
  BY <1>2 DEF Withdraw, IInvRulings
<1>3. CASE ReviseFacts
  BY <1>3 DEF ReviseFacts, IInvRulings
<1>4. CASE UNCHANGED rulingVars
  BY <1>4 DEF rulingVars, IInvRulings
<1> QED
  BY <1>1, <1>2, <1>3, <1>4 DEF NextChecklist

(* What an include takes, rule by rule. *)
Includes(given) ==
    /\ DOMAIN given = Criteria
    /\ \A c \in Criteria :
          /\ Kind[c] = "exclusion" => given[c] # "met"
          /\ Kind[c] = "core_inclusion" =>
                given[c] \notin {"not_met", "uncertain", "not_applicable"}
    /\ \E c \in Criteria : IsFirst(c, "instrument") /\ given[c] = "met"
    /\ \E c \in Criteria : IsFirst(c, "accessibility") /\ given[c] = "met"

LEMMA RouteOfInclude ==
    ASSUME NEW given PROVE Route(given) = "include" <=> Includes(given)
<1>1. CASE DOMAIN given # Criteria
  BY <1>1 DEF Route, IsComplete, Includes
<1>2. CASE DOMAIN given = Criteria
  <2>1. \A c \in Criteria : ResultOf(given, c) = given[c]
    BY <1>2 DEF ResultOf
  <2>2. \A kind, values :
           /\ Some(given, kind, values) <=>
                 \E c \in Criteria : Kind[c] = kind /\ given[c] \in values
           /\ TheOne(given, kind, values) <=>
                 \E c \in Criteria : IsFirst(c, kind) /\ given[c] \in values
    BY <2>1 DEF Some, TheOne, ByKind
  <2>3. IsComplete(given)
    BY <1>2 DEF IsComplete
  <2>4. Route(given) = "include" <=>
           /\ ~Some(given, "exclusion", {"met"})
           /\ ~Some(given, "core_inclusion", {"not_met"})
           /\ ~Some(given, "core_inclusion", {"uncertain", "not_applicable"})
           /\ TheOne(given, "instrument", {"met"})
           /\ TheOne(given, "accessibility", {"met"})
    BY <2>3, Zenon DEF Route
  <2> QED
    BY <1>2, <2>2, <2>4 DEF Includes
<1> QED
  BY <1>1, <1>2

LEMMA LessNeverIncludes ==
    ASSUME NEW old, NEW new, DOMAIN old \subseteq Criteria,
           SaysLess(new, old), Includes(new)
    PROVE  Includes(old)
<1>1. DOMAIN new = Criteria /\ DOMAIN old = Criteria
  BY DEF SaysLess, Includes
<1>2. \A c \in Criteria : \/ new[c] = old[c]
                          \/ new[c] = "uncertain" /\ Kind[c] # "exclusion"
  BY <1>1 DEF SaysLess
<1> QED
  BY <1>1, <1>2 DEF Includes

(* The policy denies a case with less known about it if it did before, and *)
(* allows none that it did not.                                            *)
LEMMA LessNeverAllows ==
    ASSUME NEW old \in Facts, NEW new \in Facts, KnowsLess(new, old)
    PROVE  Strictness[PolicyDecision(new)] >= Strictness[PolicyDecision(old)]
<1>1. /\ new.operation = old.operation
      /\ new.suppression_denied = old.suppression_denied
      /\ new.overall \in {old.overall, Missing}
      /\ new.semantic_review_state \in {old.semantic_review_state, Missing}
      /\ new.distribution \in {old.distribution, Missing}
      /\ new.boundary_version \in {old.boundary_version, Missing}
  BY DEF KnowsLess, Facts
<1>2. /\ Missing # "fail" /\ Missing # "cleared" /\ Missing # "indeterminate"
      /\ Missing # "proposed"
  BY DEF RulingsAssumption
<1>3. Denials(new) = {} => Denials(old) = {}
  BY <1>1, <1>2 DEF Denials, Denies
<1>4. Denials(new) = {} /\ NeedsReview(old) => NeedsReview(new)
  BY <1>1, <1>2 DEF Denials, Denies, NeedsReview
<1>5. \A f : PolicyDecision(f) = IF Denials(f) # {} THEN "deny"
                                 ELSE IF NeedsReview(f) THEN "human_review"
                                 ELSE "allow"
  BY DEF PolicyDecision
<1>6. /\ Strictness["allow"] = 0 /\ Strictness["human_review"] = 1
      /\ Strictness["deny"] = 2
  BY DEF Strictness
<1> QED
  BY <1>3, <1>4, <1>5, <1>6

(* For any rubric and any case: losing or withdrawing information never    *)
(* turns a candidate into an include, nor makes the policy less strict     *)
(* (triage.py:9, policy.py:4).                                             *)
THEOREM LossesNeverLoosen == SpecRulings => LossNeverLoosens
<1>1. IInvRulings /\ [NextChecklist \/ ReviseFacts]_rulingVars => IInvRulings'
  BY NextKeepsIInvRulings
<1>2. IInvRulings /\ IInvRulings' =>
         [/\ SaysLess(results', results) /\ Route(results') = "include" =>
                 Route(results) = "include"
          /\ KnowsLess(facts', facts) =>
                 Strictness[PolicyDecision(facts')]
                     >= Strictness[PolicyDecision(facts)]]_rulingVars
  BY RouteOfInclude, LessNeverIncludes, LessNeverAllows DEF IInvRulings
<1> QED
  BY InitIInvRulings, <1>1, <1>2, PTL DEF SpecRulings, LossNeverLoosens

HIDE RulingsAssumption

-----------------------------------------------------------------------------
(* The decision pack. *)

USE DecisionPackAssumption

Tallies == [cards : Nat, minutes : Nat, complex_n : Nat, records : Nat]

Complex(S) == {i \in S : passed[i].is_complex}
Records(S) == {i \in S : passed[i].is_record}

(* What the pass over the cards has counted for a set of them. *)
Totals(S) == [cards     |-> Cardinality(S),
              minutes   |-> SumFunctionOnSet(Minutes, S),
              complex_n |-> Cardinality(Complex(S)),
              records   |-> Cardinality(Records(S))]

TypeOKPack == /\ backlog \in Seq(Cards)
              /\ passed \in Seq(Cards)
              /\ unsorted \in SUBSET DOMAIN passed
              /\ included \in Seq(DOMAIN passed)
              /\ excess \in Seq(DOMAIN passed)
              /\ tally \in Tallies

EachOnce == /\ Range(included) \cap Range(excess) = {}
            /\ Range(included) \cap unsorted = {}
            /\ Range(excess) \cap unsorted = {}
            /\ Range(included) \cup Range(excess) \cup unsorted = DOMAIN passed

(* What the loop has come to goes before what it has not. *)
InOrder == \A i \in Range(included) \cup Range(excess), j \in unsorted :
              GoesFirst(i, j)

NothingMissing ==
    Len(included) + Len(excess) + Cardinality(unsorted) = Len(passed)

Earlier(i) == {j \in Range(included) : GoesFirst(j, i)}
NoRoom == \A i \in Range(excess) : ~Within(Earlier(i) \cup {i})

IInvPack == /\ TypeOKPack
            /\ EachOnce
            /\ InOrder
            /\ NothingMissing
            /\ tally = Totals(Range(included))
            /\ Within(Range(included))
            /\ NoRoom

LEMMA FairFromIInv == IInvPack => PackIsFair
  BY DEF IInvPack, EachOnce, NothingMissing, NoRoom, Earlier, PackIsFair

LEMMA CardType ==
    ASSUME passed \in Seq(Cards), NEW i \in DOMAIN passed
    PROVE  /\ passed[i] \in Cards
           /\ passed[i].priority \in DOMAIN RANK
           /\ RANK[passed[i].priority] \in Nat
           /\ passed[i].born \in Int
           /\ passed[i].value \in Nat
           /\ passed[i].minutes \in Nat
           /\ passed[i].is_complex \in BOOLEAN
           /\ passed[i].is_record \in BOOLEAN
           /\ i \in Nat
<1>1. passed[i] \in Cards /\ i \in Nat
  OBVIOUS
<1>2. \A p \in DOMAIN RANK : RANK[p] \in Nat
  BY DEF RANK
<1> QED
  BY <1>1, <1>2

(* Two cards are compared as their ranks, births and values are. *)
LEMMA LessIsLexical ==
    ASSUME NEW a1 \in Int, NEW a2 \in Int, NEW a3 \in Int,
           NEW b1 \in Int, NEW b2 \in Int, NEW b3 \in Int
    PROVE  Less(<<a1, a2, a3>>, <<b1, b2, b3>>) <=>
              \/ a1 < b1
              \/ a1 = b1 /\ a2 < b2
              \/ a1 = b1 /\ a2 = b2 /\ a3 < b3
<1> DEFINE a == <<a1, a2, a3>>
           b == <<b1, b2, b3>>
<1>1. /\ a[1] = a1 /\ a[2] = a2 /\ a[3] = a3
      /\ b[1] = b1 /\ b[2] = b2 /\ b[3] = b3
  OBVIOUS
<1>2. 1..3 = {1, 2, 3} /\ 1..(1-1) = {} /\ 1..(2-1) = {1} /\ 1..(3-1) = {1,2}
  OBVIOUS
<1> HIDE DEF a, b
<1>3. Less(a, b) <=>
          \/ a[1] < b[1] 
          \/ a[2] < b[2] /\ a[1] = b[1]
          \/ a[3] < b[3] /\ a[1] = b[1] /\ a[2] = b[2]
  BY <1>2 DEF Less
<1>4. Less(a, b) <=>
              \/ a1 < b1
              \/ a1 = b1 /\ a2 < b2
              \/ a1 = b1 /\ a2 = b2 /\ a3 < b3
  BY <1>1, <1>3
<1> QED
  BY <1>4 DEF a, b

LEMMA RanksDiffer ==
    \A p, q \in DOMAIN RANK : RANK[p] = RANK[q] <=> p = q
  BY DEF RANK

LEMMA AheadGoesFirst ==
    ASSUME passed \in Seq(Cards),
           NEW i \in DOMAIN passed, NEW j \in DOMAIN passed
    PROVE  Ahead(i, j) <=> GoesFirst(i, j)
<1>1. PICK r \in Nat, b \in Int, v \in Nat :
         r = RANK[passed[i].priority] /\ b = passed[i].born /\ v = passed[i].value
  BY CardType
<1>2. PICK q \in Nat, d \in Int, w \in Nat :
         q = RANK[passed[j].priority] /\ d = passed[j].born /\ w = passed[j].value
  BY CardType
<1>3. r = q <=> passed[i].priority = passed[j].priority
  BY <1>1, <1>2, CardType, RanksDiffer
<1>4. Key(passed[i]) = <<r, b, -v>> /\ Key(passed[j]) = <<q, d, -w>>
  BY <1>1, <1>2 DEF Key
<1>5. PICK x \in Int, y \in Int : x = -v /\ y = -w
  OBVIOUS
<1>6. Less(<<r, b, x>>, <<q, d, y>>) <=>
              \/ r < q
              \/ r = q /\ b < d
              \/ r = q /\ b = d /\ x < y
  <2>1. r \in Int /\ q \in Int
    OBVIOUS
  <2> HIDE DecisionPackAssumption
  <2> QED
    BY <2>1, LessIsLexical
<1>7. Ahead(i, j) <=>
              \/ r < q
              \/ r = q /\ b < d
              \/ r = q /\ b = d /\ v > w
              \/ r = q /\ b = d /\ v = w /\ i < j
  <2>1. Ahead(i, j) <=> \/ Less(<<r, b, x>>, <<q, d, y>>)
                        \/ <<r, b, x>> = <<q, d, y>> /\ i < j
    BY <1>4, <1>5 DEF Ahead
  <2>2. <<r, b, x>> = <<q, d, y>> <=> r = q /\ b = d /\ v = w
    BY <1>5
  <2>3. x < y <=> v > w
    BY <1>5
  <2> QED
    BY <2>1, <2>2, <2>3, <1>6
<1>8. GoesFirst(i, j) <=>
              \/ r < q
              \/ r = q /\ b < d
              \/ r = q /\ b = d /\ v > w
              \/ r = q /\ b = d /\ v = w /\ i < j
  BY <1>1, <1>2, <1>3 DEF GoesFirst
<1> QED
  BY <1>7, <1>8

(* Of two cards one goes first. *)
LEMMA OneGoesFirst ==
    ASSUME passed \in Seq(Cards),
           NEW i \in DOMAIN passed, NEW j \in DOMAIN passed, GoesFirst(i, j)
    PROVE  ~GoesFirst(j, i)
<1>1. PICK r \in Nat, b \in Int, v \in Nat :
         r = RANK[passed[i].priority] /\ b = passed[i].born /\ v = passed[i].value
  BY CardType
<1>2. PICK q \in Nat, d \in Int, w \in Nat :
         q = RANK[passed[j].priority] /\ d = passed[j].born /\ w = passed[j].value
  BY CardType
<1>3. r = q <=> passed[i].priority = passed[j].priority
  BY <1>1, <1>2, CardType, RanksDiffer
<1>4. i \in Nat /\ j \in Nat
  BY CardType
<1>5. GoesFirst(i, j) <=> \/ r < q
                          \/ /\ r = q
                             /\ \/ b < d
                                \/ b = d /\ v > w
                                \/ b = d /\ v = w /\ i < j
  BY <1>1, <1>2, <1>3 DEF GoesFirst
<1>6. GoesFirst(j, i) <=> \/ q < r
                          \/ /\ r = q
                             /\ \/ d < b
                                \/ d = b /\ w > v
                                \/ d = b /\ w = v /\ j < i
  BY <1>1, <1>2, <1>3 DEF GoesFirst
<1> QED
  BY <1>4, <1>5, <1>6

(* The tally of one card more. *)
LEMMA PositionsAreFinite ==
    ASSUME passed \in Seq(Cards), NEW S \in SUBSET DOMAIN passed
    PROVE  /\ IsFiniteSet(S) /\ IsFiniteSet(Complex(S))
           /\ IsFiniteSet(Records(S)) /\ NatOn(S, Minutes)
<1>1. IsFiniteSet(DOMAIN passed)
  <2>1. DOMAIN passed = 1..Len(passed) /\ Len(passed) \in Nat
    OBVIOUS
  <2> QED
    BY <2>1, FS_Interval
<1>2. IsFiniteSet(S)
  BY <1>1, FS_Subset
<1>3. IsFiniteSet(Complex(S)) /\ IsFiniteSet(Records(S))
  BY <1>2, FS_Subset DEF Complex, Records
<1>4. NatOn(S, Minutes)
  <2> SUFFICES ASSUME NEW i \in S PROVE Minutes[i] \in Nat
    BY DEF NatOn
  <2> QED
    BY CardType DEF Minutes
<1> QED
  BY <1>2, <1>3, <1>4

LEMMA TotalsType ==
    ASSUME passed \in Seq(Cards), NEW S \in SUBSET DOMAIN passed
    PROVE  Totals(S) \in Tallies
<1>1. Cardinality(S) \in Nat /\ Cardinality(Complex(S)) \in Nat
      /\ Cardinality(Records(S)) \in Nat
  BY PositionsAreFinite, FS_CardinalityType
<1>2. SumFunctionOnSet(Minutes, S) \in Nat
  BY PositionsAreFinite, SumFacts
<1> QED
  BY <1>1, <1>2 DEF Totals, Tallies

(* The caps are kept by a set as they are by its totals. *)
Kept(count) ==
    /\ count.cards <= CAPS.decision_cards
    /\ count.minutes <= CAPS.review_minutes
    /\ count.complex_n <= CAPS.complex_decisions
    /\ count.records <= CAPS.record_reviews

LEMMA WithinIsKept == ASSUME NEW S PROVE Within(S) <=> Kept(Totals(S))
  BY DEF Within, Kept, Totals, Complex, Records

LEMMA TotalsJoined ==
    ASSUME passed \in Seq(Cards), NEW S \in SUBSET DOMAIN passed,
           NEW i \in DOMAIN passed, i \notin S, tally = Totals(S)
    PROVE  Totals(S \cup {i}) = Tallied(passed[i])
<1>1. S \cup {i} \in SUBSET DOMAIN passed
  OBVIOUS
<1>2. Cardinality(S \cup {i}) = tally.cards + 1
  BY PositionsAreFinite, FS_AddElement DEF Totals
<1>3. SumFunctionOnSet(Minutes, S \cup {i}) = tally.minutes + passed[i].minutes
  <2>1. NatOn(S \cup {i}, Minutes) /\ IsFiniteSet(S)
    BY <1>1, PositionsAreFinite
  <2>2. Minutes[i] = passed[i].minutes
    BY DEF Minutes
  <2>3. SumFunctionOnSet(Minutes, S \cup {i}) =
           SumFunctionOnSet(Minutes, S) + Minutes[i]
    BY <2>1, SumJoined
  <2> QED
    BY <2>2, <2>3 DEF Totals
<1>4. Cardinality(Complex(S \cup {i})) =
         tally.complex_n + One(passed[i].is_complex)
  <2>1. tally.complex_n = Cardinality(Complex(S)) /\ tally.complex_n \in Nat
    BY PositionsAreFinite, FS_CardinalityType DEF Totals
  <2>2. CASE passed[i].is_complex
    <3>1. Complex(S \cup {i}) = Complex(S) \cup {i} /\ i \notin Complex(S)
      BY <2>2 DEF Complex
    <3>2. Cardinality(Complex(S) \cup {i}) = Cardinality(Complex(S)) + 1
      BY <3>1, PositionsAreFinite, FS_AddElement
    <3> QED
      BY <2>1, <2>2, <3>1, <3>2 DEF One
  <2>3. CASE ~passed[i].is_complex
    <3>1. Complex(S \cup {i}) = Complex(S)
      BY <2>3 DEF Complex
    <3> QED
      BY <2>1, <2>3, <3>1 DEF One
  <2> QED
    BY <2>2, <2>3
<1>5. Cardinality(Records(S \cup {i})) =
         tally.records + One(passed[i].is_record)
  <2>1. tally.records = Cardinality(Records(S)) /\ tally.records \in Nat
    BY PositionsAreFinite, FS_CardinalityType DEF Totals
  <2>2. CASE passed[i].is_record
    <3>1. Records(S \cup {i}) = Records(S) \cup {i} /\ i \notin Records(S)
      BY <2>2 DEF Records
    <3>2. Cardinality(Records(S) \cup {i}) = Cardinality(Records(S)) + 1
      BY <3>1, PositionsAreFinite, FS_AddElement
    <3> QED
      BY <2>1, <2>2, <3>1, <3>2 DEF One
  <2>3. CASE ~passed[i].is_record
    <3>1. Records(S \cup {i}) = Records(S)
      BY <2>3 DEF Records
    <3> QED
      BY <2>1, <2>3, <3>1 DEF One
  <2> QED
    BY <2>2, <2>3
<1> QED
  BY <1>2, <1>3, <1>4, <1>5 DEF Totals, Tallied

(* The guard of the loop says whether the pack keeps its caps with the     *)
(* card.                                                                   *)
LEMMA FitsIsKept ==
    ASSUME passed \in Seq(Cards), NEW i \in DOMAIN passed,
           tally \in Tallies, Kept(tally)
    PROVE  Fits(passed[i]) <=> Kept(Tallied(passed[i]))
<1>1. PICK c \in Nat, m \in Nat, x \in Nat, r \in Nat :
         c = tally.cards /\ m = tally.minutes /\ x = tally.complex_n
         /\ r = tally.records
  BY DEF Tallies
<1>2. PICK k1 \in Nat, k2 \in Nat, k3 \in Nat, k4 \in Nat :
         /\ k1 = CAPS.decision_cards /\ k2 = CAPS.review_minutes
         /\ k3 = CAPS.complex_decisions /\ k4 = CAPS.record_reviews
  BY DEF Caps
<1>3. passed[i].is_complex \in BOOLEAN /\ passed[i].is_record \in BOOLEAN
      /\ passed[i].minutes \in Nat
  BY CardType
<1>4. c <= k1 /\ m <= k2 /\ x <= k3 /\ r <= k4
  BY <1>1, <1>2 DEF Kept
<1>5. Kept(Tallied(passed[i])) <=>
         /\ c + 1 <= k1 /\ m + passed[i].minutes <= k2
         /\ x + One(passed[i].is_complex) <= k3
         /\ r + One(passed[i].is_record) <= k4
  BY <1>1, <1>2 DEF Kept, Tallied
<1>6. x + One(passed[i].is_complex) <= k3 <=>
         (passed[i].is_complex => x + 1 <= k3)
  <2>1. CASE passed[i].is_complex
    BY <2>1 DEF One
  <2>2. CASE ~passed[i].is_complex
    BY <2>2, <1>4 DEF One
  <2> QED
    BY <2>1, <2>2
<1>7. r + One(passed[i].is_record) <= k4 <=>
         (passed[i].is_record => r + 1 <= k4)
  <2>1. CASE passed[i].is_record
    BY <2>1 DEF One
  <2>2. CASE ~passed[i].is_record
    BY <2>2, <1>4 DEF One
  <2> QED
    BY <2>1, <2>2
<1>8. Fits(passed[i]) <=>
         /\ c + 1 <= k1 /\ m + passed[i].minutes <= k2
         /\ passed[i].is_complex => x + 1 <= k3
         /\ passed[i].is_record => r + 1 <= k4
  BY <1>1, <1>2 DEF Fits
<1> QED
  BY <1>5, <1>6, <1>7, <1>8

(* One position more at the end of a list. *)
LEMMA OneMorePosition ==
    ASSUME NEW s \in Seq(DOMAIN passed), NEW i \in DOMAIN passed
    PROVE  /\ Append(s, i) \in Seq(DOMAIN passed)
           /\ Len(Append(s, i)) = Len(s) + 1
           /\ Len(s) \in Nat
           /\ Range(Append(s, i)) = Range(s) \cup {i}
           /\ Range(s) \in SUBSET DOMAIN passed
<1> PICK D : D = DOMAIN passed
  OBVIOUS
<1>1. s \in Seq(D) /\ i \in D
  OBVIOUS
<1>2. Append(s, i) \in Seq(D) /\ Len(Append(s, i)) = Len(s) + 1 /\ Len(s) \in Nat
  BY <1>1
<1>3. Range(Append(s, i)) = Range(s) \cup {i}
  <2>1. DOMAIN Append(s, i) = DOMAIN s \cup {Len(s) + 1}
    BY <1>1
  <2>2. Append(s, i)[Len(s) + 1] = i
    BY <1>1
  <2>3. \A k \in DOMAIN s : Append(s, i)[k] = s[k]
    BY <1>1
  <2> QED
    BY <2>1, <2>2, <2>3 DEF Range
<1>4. Range(s) \in SUBSET D
  BY <1>1 DEF Range
<1> QED
  BY <1>2, <1>3, <1>4

LEMMA EmptyTotals == Totals({}) = NoTally /\ Within({})
<1>1. SumFunctionOnSet(Minutes, {}) = 0
  BY FS_EmptySet, SumFacts DEF NatOn
<1>2. Complex({}) = {} /\ Records({}) = {} /\ Cardinality({}) = 0
  BY FS_EmptySet DEF Complex, Records
<1>3. Totals({}) = NoTally
  BY <1>1, <1>2 DEF Totals, NoTally
<1>4. Kept(NoTally)
  BY DEF Kept, NoTally, Caps
<1> QED
  BY <1>3, <1>4, WithinIsKept

(* Nothing of the pass yet: the pack is empty. *)
Fresh == /\ backlog \in Seq(Cards) /\ passed \in Seq(Cards)
         /\ unsorted = DOMAIN passed
         /\ included = <<>> /\ excess = <<>> /\ tally = NoTally

LEMMA FreshPack == Fresh => IInvPack
<1> SUFFICES ASSUME Fresh PROVE IInvPack
  OBVIOUS
<1> USE DEF Fresh
<1>1. Range(included) = {} /\ Range(excess) = {}
  BY DEF Range
<1>2. TypeOKPack
  BY DEF TypeOKPack, Tallies, NoTally
<1>3. Len(included) + Len(excess) + Cardinality(unsorted) = Len(passed)
  <2>1. PICK n \in Nat : n = Len(passed) /\ unsorted = 1..n
    OBVIOUS
  <2>2. Cardinality(1..n) = n
    BY FS_Interval
  <2> QED
    BY <2>1, <2>2
<1>4. tally = Totals(Range(included)) /\ Within(Range(included))
  BY <1>1, EmptyTotals
<1> QED
  BY <1>1, <1>2, <1>3, <1>4
     DEF IInvPack, EachOnce, InOrder, NothingMissing, NoRoom

LEMMA InitIInvPack == InitPack => IInvPack
<1> SUFFICES ASSUME InitPack PROVE IInvPack
  OBVIOUS
<1>1. <<>> \in Seq(Cards) /\ DOMAIN <<>> = {}
  OBVIOUS
<1> QED
  BY <1>1, FreshPack DEF InitPack, Fresh

(* The card that was considered is left over: it had no room, and all the  *)
(* cards of the pack go before it.                                         *)
LEMMA LeftOver ==
    ASSUME IInvPack, NEW i \in unsorted, ~Fits(passed[i])
    PROVE  ~Within(Earlier(i) \cup {i}) /\ Earlier(i) = Range(included)
<1>1. /\ passed \in Seq(Cards) /\ tally \in Tallies
      /\ Range(included) \in SUBSET DOMAIN passed
      /\ i \in DOMAIN passed /\ i \notin Range(included)
      /\ tally = Totals(Range(included))
  BY DEF IInvPack, TypeOKPack, EachOnce
<1>2. Kept(tally)
  BY <1>1, WithinIsKept DEF IInvPack
<1>3. Totals(Range(included) \cup {i}) = Tallied(passed[i])
  BY <1>1, TotalsJoined
<1>4. ~Kept(Totals(Range(included) \cup {i}))
  BY <1>1, <1>2, <1>3, FitsIsKept
<1>5. ~Within(Range(included) \cup {i})
  BY <1>4, WithinIsKept
<1>6. Earlier(i) = Range(included)
  BY DEF IInvPack, InOrder, Earlier
<1> QED
  BY <1>5, <1>6

LEMMA Included ==
    ASSUME IInvPack, NEW i \in unsorted, Fits(passed[i])
    PROVE  /\ Within(Range(included) \cup {i})
           /\ Tallied(passed[i]) = Totals(Range(included) \cup {i})
           /\ Tallied(passed[i]) \in Tallies
<1>1. /\ passed \in Seq(Cards) /\ tally \in Tallies
      /\ Range(included) \in SUBSET DOMAIN passed
      /\ i \in DOMAIN passed /\ i \notin Range(included)
      /\ tally = Totals(Range(included))
  BY DEF IInvPack, TypeOKPack, EachOnce
<1>2. Kept(tally)
  BY <1>1, WithinIsKept DEF IInvPack
<1>3. Totals(Range(included) \cup {i}) = Tallied(passed[i])
  BY <1>1, TotalsJoined
<1>4. Kept(Totals(Range(included) \cup {i}))
  BY <1>1, <1>2, <1>3, FitsIsKept
<1>5. Range(included) \cup {i} \in SUBSET DOMAIN passed
  BY <1>1
<1>6. Totals(Range(included) \cup {i}) \in Tallies
  BY <1>1, <1>5, TotalsType
<1> QED
  BY <1>3, <1>4, <1>6, WithinIsKept

(* The list that was passed stays while its cards are considered. *)
LEMMA SameList ==
    ASSUME passed' = passed
    PROVE  /\ \A S : Within(S)' <=> Within(S)
           /\ \A S : Totals(S)' = Totals(S)
           /\ \A i, j : GoesFirst(i, j)' <=> GoesFirst(i, j)
<1>1. Minutes' = Minutes
  BY DEF Minutes
<1>2. \A S : Within(S)' <=> Within(S)
  BY <1>1 DEF Within
<1>3. \A S : Totals(S)' = Totals(S)
  BY <1>1 DEF Totals, Complex, Records
<1>4. \A i, j : GoesFirst(i, j)' <=> GoesFirst(i, j)
  BY DEF GoesFirst
<1> QED
  BY <1>2, <1>3, <1>4

LEMMA QueuedAgain ==
    ASSUME passed \in Seq(Cards), NEW s \in Seq(DOMAIN passed)
    PROVE  [k \in DOMAIN s |-> passed[s[k]]] \in Seq(Cards)
<1> PICK D : D = DOMAIN passed
  OBVIOUS
<1>1. s \in Seq(D) /\ \A j \in D : passed[j] \in Cards
  OBVIOUS
<1>2. PICK n \in Nat : DOMAIN s = 1..n /\ \A k \in 1..n : s[k] \in D
  BY <1>1
<1>3. \A k \in 1..n : passed[s[k]] \in Cards
  BY <1>1, <1>2
<1>4. [k \in DOMAIN s |-> passed[s[k]]] \in [1..n -> Cards]
  BY <1>2, <1>3
<1> QED
  BY <1>4

LEMMA ConsiderKeepsIInvPack ==
    ASSUME IInvPack, NEW i \in unsorted, Consider(i)
    PROVE  IInvPack'
<1> USE DEF IInvPack
<1>1. /\ passed' = passed /\ passed \in Seq(Cards)
      /\ unsorted' = unsorted \ {i}
      /\ i \in DOMAIN passed /\ unsorted \in SUBSET DOMAIN passed
  BY DEF Consider, TypeOKPack
<1>2. /\ included \in Seq(DOMAIN passed) /\ excess \in Seq(DOMAIN passed)
      /\ tally \in Tallies
  BY DEF TypeOKPack
<1>3. \A j \in unsorted' : GoesFirst(i, j)
  <2> SUFFICES ASSUME NEW j \in unsorted' PROVE GoesFirst(i, j)
    OBVIOUS
  <2>1. j \in unsorted /\ j # i /\ j \in DOMAIN passed
    BY <1>1
  <2>2. Ahead(i, j)
    BY <2>1 DEF Consider
  <2> QED
    BY <1>1, <2>1, <2>2, AheadGoesFirst
<1>4. Cardinality(unsorted') = Cardinality(unsorted) - 1
      /\ Cardinality(unsorted) \in Nat
  BY <1>1, PositionsAreFinite, FS_RemoveElement, FS_CardinalityType
<1>5. PICK n1 \in Nat, n2 \in Nat, n3 \in Nat :
         /\ n1 = Len(included) /\ n2 = Len(excess)
         /\ n3 = Cardinality(unsorted) /\ n1 + n2 + n3 = Len(passed)
  BY <1>1, <1>2, <1>4, OneMorePosition DEF NothingMissing
<1>6. CASE /\ Fits(passed[i])
           /\ included' = Append(included, i)
           /\ tally' = Tallied(passed[i])
           /\ UNCHANGED excess
  <2>1. /\ included' \in Seq(DOMAIN passed)
        /\ Len(included') = n1 + 1
        /\ Range(included') = Range(included) \cup {i}
    BY <1>1, <1>2, <1>5, <1>6, OneMorePosition
  <2>2. /\ Within(Range(included'))
        /\ tally' = Totals(Range(included')) /\ tally' \in Tallies
    BY <1>6, <2>1, Included
  <2>3. EachOnce'
    BY <1>1, <1>6, <2>1 DEF EachOnce
  <2>4. InOrder'
    <3> SUFFICES ASSUME NEW a \in Range(included') \cup Range(excess'),
                        NEW b \in unsorted'
                 PROVE  GoesFirst(a, b)
      BY <1>1, SameList DEF InOrder
    <3>1. a = i \/ a \in Range(included) \cup Range(excess)
      BY <1>6, <2>1
    <3>2. b \in unsorted
      BY <1>1
    <3> QED
      BY <1>3, <3>1, <3>2 DEF InOrder
  <2>5. NothingMissing'
    <3>1. /\ Len(included') = n1 + 1 /\ Len(excess') = n2
          /\ Cardinality(unsorted') = n3 - 1
          /\ Len(passed') = n1 + n2 + n3
      BY <1>1, <1>4, <1>5, <1>6, <2>1
    <3> QED
      BY <3>1 DEF NothingMissing
  <2>6. NoRoom'
    <3> SUFFICES ASSUME NEW k \in Range(excess)
                 PROVE  ~Within(Earlier(k)' \cup {k})
      BY <1>1, <1>6, SameList DEF NoRoom
    <3>1. k \in DOMAIN passed /\ GoesFirst(k, i)
      BY DEF EachOnce, InOrder
    <3>2. ~GoesFirst(i, k)
      BY <1>1, <3>1, OneGoesFirst
    <3>3. Earlier(k)' = Earlier(k)
      BY <1>1, <2>1, <3>2, SameList DEF Earlier
    <3> QED
      BY <3>3 DEF NoRoom
  <2> QED
    <3>1. backlog' \in Seq(Cards)
      <4>1. excess' = excess
        BY <1>6
      <4> QED
        BY <1>1, <1>2, <4>1, QueuedAgain DEF Consider
    <3> QED
      BY <1>1, <1>2, <1>6, <2>1, <2>2, <2>3, <2>4, <2>5, <2>6, <3>1, SameList
         DEF TypeOKPack
<1>7. CASE /\ ~Fits(passed[i])
           /\ excess' = Append(excess, i)
           /\ UNCHANGED <<included, tally>>
  <2>1. /\ excess' \in Seq(DOMAIN passed)
        /\ Len(excess') = n2 + 1
        /\ Range(excess') = Range(excess) \cup {i}
    BY <1>1, <1>2, <1>5, <1>7, OneMorePosition
  <2>3. EachOnce'
    BY <1>1, <1>7, <2>1 DEF EachOnce
  <2>4. InOrder'
    <3> SUFFICES ASSUME NEW a \in Range(included') \cup Range(excess'),
                        NEW b \in unsorted'
                 PROVE  GoesFirst(a, b)
      BY <1>1, SameList DEF InOrder
    <3>1. a = i \/ a \in Range(included) \cup Range(excess)
      BY <1>7, <2>1
    <3>2. b \in unsorted
      BY <1>1
    <3> QED
      BY <1>3, <3>1, <3>2 DEF InOrder
  <2>5. NothingMissing'
    <3>1. /\ Len(included') = n1 /\ Len(excess') = n2 + 1
          /\ Cardinality(unsorted') = n3 - 1
          /\ Len(passed') = n1 + n2 + n3
      BY <1>1, <1>4, <1>5, <1>7, <2>1
    <3> QED
      BY <3>1 DEF NothingMissing
  <2>6. NoRoom'
    <3> SUFFICES ASSUME NEW k \in Range(excess')
                 PROVE  ~Within(Earlier(k)' \cup {k})
      BY <1>1, <1>7, SameList DEF NoRoom
    <3>1. Earlier(k)' = Earlier(k)
      BY <1>1, <1>7, SameList DEF Earlier
    <3>2. CASE k = i
      BY <1>7, <3>1, <3>2, LeftOver
    <3>3. CASE k \in Range(excess)
      BY <3>1, <3>3 DEF NoRoom
    <3> QED
      BY <2>1, <3>2, <3>3
  <2> QED
    <3>1. backlog' \in Seq(Cards)
      <4>1. [k \in DOMAIN excess' |-> passed[excess'[k]]] \in Seq(Cards)
        BY <1>1, <2>1, QueuedAgain
      <4>2. <<>> \in Seq(Cards)
        OBVIOUS
      <4> QED
        BY <1>1, <4>1, <4>2 DEF Consider
    <3> QED
      BY <1>1, <1>2, <1>7, <2>1, <2>3, <2>4, <2>5, <2>6, <3>1, SameList
         DEF TypeOKPack
<1> QED
  BY <1>6, <1>7 DEF Consider

LEMMA NextKeepsIInvPack == IInvPack /\ [NextPack]_packVars => IInvPack'
<1> SUFFICES ASSUME IInvPack, [NextPack]_packVars PROVE IInvPack'
  OBVIOUS
<1>1. CASE \E c \in Cards : CardArrives(c)
  <2>1. PICK c \in Cards : CardArrives(c)
    BY <1>1
  <2>2. backlog' \in Seq(Cards)
    BY <2>1 DEF CardArrives, IInvPack, TypeOKPack
  <2> QED
    BY <2>1, <2>2, SameList
       DEF CardArrives, IInvPack, TypeOKPack, EachOnce, InOrder,
           NothingMissing, NoRoom, Earlier
<1>2. CASE BuildPack
  <2>1. Fresh'
    BY <1>2 DEF BuildPack, IInvPack, TypeOKPack, Fresh, NoTally
  <2> QED
    BY <2>1, FreshPack, PTL
<1>3. CASE \E i \in unsorted : Consider(i)
  BY <1>3, ConsiderKeepsIInvPack
<1>4. CASE UNCHANGED packVars
  BY <1>4, SameList
     DEF packVars, IInvPack, TypeOKPack, EachOnce, InOrder, NothingMissing,
         NoRoom, Earlier
<1> QED
  BY <1>1, <1>2, <1>3, <1>4 DEF NextPack

(* The greedy pass is fair and loses no card, for any cards that come in   *)
(* any order and any caps.                                                 *)
THEOREM PacksAreFair == SpecPack => []PackIsFair
<1> QED
  BY InitIInvPack, NextKeepsIInvPack, FairFromIInv, PTL DEF SpecPack

HIDE DecisionPackAssumption

-----------------------------------------------------------------------------
(* The reviewers' decisions. *)

USE ReviewerActionsAssumption

Fields == {"versions", "nonces", "idem", "staged"}

(* The processor is a record, its results are finitely many, and the       *)
(* nonces of all of them are kept.                                         *)
ResultsAreKept ==
    /\ DOMAIN processor = Fields
    /\ IsFiniteSet(DOMAIN processor.idem)
    /\ \A k \in DOMAIN processor.idem :
          processor.idem[k].request.nonce \in processor.nonces

(* A change that is staged counts as one more confirmation: the one it may *)
(* still get.                                                              *)
Waiting(c, diff, day) ==
    IF /\ c \in DOMAIN processor.staged
       /\ processor.staged[c].diff = diff
       /\ processor.staged[c].date < day
    THEN 1 ELSE 0

StagingsSuffice ==
    \A c \in Changes, diff \in Diffs, day \in 0..Day(MaxTime) :
        Cardinality(Confirmations(c, diff, day)) + Waiting(c, diff, day)
            <= Cardinality(Stagings(c, diff, day))

IInv == /\ TypeOK
        /\ ResultsAreKept
        /\ NoSilentOverwrite
        /\ NonceUsedOnce
        /\ StagingsSuffice

(* The part of it that processing a request may disturb.                   *)
ProcessorIsTyped ==
    /\ processor.versions \in [Targets -> Nat]
    /\ processor.nonces \subseteq {r.nonce : r \in Requests}
    /\ \A k \in DOMAIN processor.idem : processor.idem[k] \in Result
    /\ DOMAIN processor.staged \subseteq Changes
    /\ \A c \in DOMAIN processor.staged : processor.staged[c] \in Intent

DecisionsStand == /\ ProcessorIsTyped
                  /\ ResultsAreKept
                  /\ NoSilentOverwrite
                  /\ NonceUsedOnce
                  /\ StagingsSuffice

LEMMA TodayIsNat ==
    ASSUME TypeOK
    PROVE  clock \in Nat /\ Today \in Nat
<1>1. clock \in Nat
  BY DEF TypeOK
<1> QED
  BY <1>1 DEF Today, Day

LEMMA ConfirmationsAreFinite ==
    ASSUME ResultsAreKept, NEW c, NEW diff, NEW day
    PROVE  /\ IsFiniteSet(Confirmations(c, diff, day))
           /\ Cardinality(Confirmations(c, diff, day)) \in Nat
<1>1. Confirmations(c, diff, day) \subseteq DOMAIN processor.idem
  BY DEF Confirmations
<1> QED
  BY <1>1, FS_Subset, FS_CardinalityType DEF ResultsAreKept

LEMMA StagingsAreFinite ==
    ASSUME TypeOK, NEW c, NEW diff, NEW day
    PROVE  /\ IsFiniteSet(Stagings(c, diff, day))
           /\ Cardinality(Stagings(c, diff, day)) \in Nat
<1>1. Len(intents) \in Nat /\ DOMAIN intents = 1..Len(intents)
  BY DEF TypeOK
<1>2. IsFiniteSet(1..Len(intents))
  BY <1>1, FS_Interval
<1>3. Stagings(c, diff, day) \subseteq 1..Len(intents)
  BY <1>1 DEF Stagings
<1> QED
  BY <1>2, <1>3, FS_Subset, FS_CardinalityType

-----------------------------------------------------------------------------
(* A new decision. *)

LEMMA AppliedIs ==
    ASSUME TypeOK, DecisionsStand, NEW r \in Requests,
           processor' = Applied(processor, r)
    PROVE  \E d :
              /\ d = Decision(processor, r) /\ d \in Result
              /\ d.request = r /\ d.decided_at = clock
              /\ DOMAIN processor' = Fields
              /\ processor'.versions \in [Targets -> Nat]
              /\ \A t \in Targets : processor'.versions[t] =
                    IF t = r.target_ref THEN processor.versions[t] + 1
                    ELSE processor.versions[t]
              /\ processor'.nonces = processor.nonces \cup {r.nonce}
              /\ processor'.idem = With(processor.idem, r.idempotency_key, d)
              /\ processor'.staged = IF IsCooling(r)
                                     THEN Unstaged(processor, r)
                                     ELSE processor.staged
<1>1. PICK d : d = Decision(processor, r)
  OBVIOUS
<1>2. /\ r.target_ref \in Targets
      /\ processor.versions \in [Targets -> Nat]
      /\ processor.versions[r.target_ref] \in Nat
  BY DEF Targets, TypeOK
<1>3. clock \in Nat
  BY DEF TypeOK
<1>4. /\ d.request = r /\ d.decided_at = clock
      /\ d.output_version = processor.versions[r.target_ref] + 1
      /\ d \in Result
  BY <1>1, <1>2, <1>3 DEF Decision, Result
<1>5. processor' =
         [versions |-> [processor.versions EXCEPT
                           ![r.target_ref] = d.output_version],
          nonces   |-> processor.nonces \cup {r.nonce},
          idem     |-> With(processor.idem, r.idempotency_key, d),
          staged   |-> IF IsCooling(r) THEN Unstaged(processor, r)
                       ELSE processor.staged]
  BY <1>1 DEF Applied
<1>6. /\ DOMAIN processor' = Fields
      /\ processor'.versions = [processor.versions EXCEPT
                                   ![r.target_ref] = d.output_version]
      /\ processor'.nonces = processor.nonces \cup {r.nonce}
      /\ processor'.idem = With(processor.idem, r.idempotency_key, d)
      /\ processor'.staged = IF IsCooling(r) THEN Unstaged(processor, r)
                             ELSE processor.staged
  BY <1>5 DEF Fields
<1>7. /\ processor'.versions \in [Targets -> Nat]
      /\ \A t \in Targets : processor'.versions[t] =
            IF t = r.target_ref THEN processor.versions[t] + 1
            ELSE processor.versions[t]
  BY <1>2, <1>4, <1>6
<1> QED
  BY <1>1, <1>4, <1>6, <1>7

LEMMA AppliedKeepsDecisions ==
    ASSUME TypeOK, DecisionsStand, NEW r \in Requests,
           ~Known(processor, r), Acceptable(processor, r),
           processor' = Applied(processor, r),
           UNCHANGED <<clock, intents>>
    PROVE  DecisionsStand'
<1>1. PICK d :
         /\ d = Decision(processor, r) /\ d \in Result
         /\ d.request = r /\ d.decided_at = clock
         /\ DOMAIN processor' = Fields
         /\ processor'.versions \in [Targets -> Nat]
         /\ \A t \in Targets : processor'.versions[t] =
               IF t = r.target_ref THEN processor.versions[t] + 1
               ELSE processor.versions[t]
         /\ processor'.nonces = processor.nonces \cup {r.nonce}
         /\ processor'.idem = With(processor.idem, r.idempotency_key, d)
         /\ processor'.staged = IF IsCooling(r) THEN Unstaged(processor, r)
                                ELSE processor.staged
  BY AppliedIs
<1>2. PICK key : key = r.idempotency_key
  OBVIOUS
<1>3. /\ key \notin DOMAIN processor.idem
      /\ DOMAIN processor'.idem = DOMAIN processor.idem \cup {key}
      /\ processor'.idem[key] = d
      /\ \A k \in DOMAIN processor.idem :
            processor'.idem[k] = processor.idem[k]
  BY <1>1, <1>2 DEF Known, With
<1>4. r.nonce \notin processor.nonces
  BY DEF Acceptable, Replayed
<1>5. r.expected_version = processor.versions[r.target_ref]
  BY DEF Acceptable, IsCurrent
<1>6. /\ DOMAIN processor'.staged \subseteq DOMAIN processor.staged
      /\ \A c \in DOMAIN processor'.staged :
            processor'.staged[c] = processor.staged[c]
  BY <1>1 DEF Unstaged
<1>7. ProcessorIsTyped'
  <2>1. \A k \in DOMAIN processor'.idem : processor'.idem[k] \in Result
    BY <1>1, <1>3 DEF DecisionsStand, ProcessorIsTyped
  <2>2. processor'.nonces \subseteq {q.nonce : q \in Requests}
    BY <1>1 DEF DecisionsStand, ProcessorIsTyped
  <2> QED
    BY <1>1, <1>6, <2>1, <2>2 DEF DecisionsStand, ProcessorIsTyped
<1>8. ResultsAreKept'
  <2>1. IsFiniteSet(DOMAIN processor'.idem)
    BY <1>3, FS_AddElement DEF DecisionsStand, ResultsAreKept
  <2> QED
    BY <1>1, <1>3, <2>1 DEF DecisionsStand, ResultsAreKept
<1>9. NoSilentOverwrite'
  <2> SUFFICES ASSUME NEW t \in Targets
               PROVE  /\ Cardinality(OnTarget(t)') = processor'.versions[t]
                      /\ {processor'.idem[k].request.expected_version :
                             k \in OnTarget(t)'}
                            = 0 .. processor'.versions[t] - 1
    BY DEF NoSilentOverwrite
  <2>1. /\ Cardinality(OnTarget(t)) = processor.versions[t]
        /\ {processor.idem[k].request.expected_version : k \in OnTarget(t)}
              = 0 .. processor.versions[t] - 1
        /\ processor.versions[t] \in Nat
    BY DEF DecisionsStand, NoSilentOverwrite, ProcessorIsTyped
  <2>2. OnTarget(t) \subseteq DOMAIN processor.idem
    BY DEF OnTarget
  <2>3. CASE t = r.target_ref
    <3>1. OnTarget(t)' = OnTarget(t) \cup {key}
      BY <1>1, <1>3, <2>3 DEF OnTarget
    <3>2. Cardinality(OnTarget(t)') = processor.versions[t] + 1
      <4>1. IsFiniteSet(OnTarget(t)) /\ key \notin OnTarget(t)
        BY <1>3, <2>2, FS_Subset DEF DecisionsStand, ResultsAreKept
      <4> QED
        BY <2>1, <3>1, <4>1, FS_AddElement
    <3>3. {processor'.idem[k].request.expected_version : k \in OnTarget(t)'}
             = {processor.idem[k].request.expected_version : k \in OnTarget(t)}
                  \cup {processor.versions[t]}
      BY <1>1, <1>3, <1>5, <2>2, <2>3, <3>1
    <3>4. 0 .. (processor.versions[t] - 1) \cup {processor.versions[t]}
             = 0 .. (processor.versions[t] + 1) - 1
      BY <2>1
    <3>5. processor'.versions[t] = processor.versions[t] + 1
      BY <1>1, <2>3
    <3> QED
      BY <2>1, <3>2, <3>3, <3>4, <3>5
  <2>4. CASE t # r.target_ref
    <3>1. OnTarget(t)' = OnTarget(t)
      BY <1>1, <1>3, <2>4 DEF OnTarget
    <3>2. {processor'.idem[k].request.expected_version : k \in OnTarget(t)'}
             = {processor.idem[k].request.expected_version : k \in OnTarget(t)}
      BY <1>3, <2>2, <3>1
    <3>3. processor'.versions[t] = processor.versions[t]
      BY <1>1, <2>4
    <3> QED
      BY <2>1, <3>1, <3>2, <3>3
  <2> QED
    BY <2>3, <2>4
<1>10. NonceUsedOnce'
  BY <1>1, <1>3, <1>4 DEF DecisionsStand, ResultsAreKept, NonceUsedOnce
<1>11. StagingsSuffice'
  <2> SUFFICES ASSUME NEW c \in Changes, NEW diff \in Diffs,
                      NEW day \in 0..Day(MaxTime)
               PROVE  Cardinality(Confirmations(c, diff, day)')
                         + Waiting(c, diff, day)'
                            <= Cardinality(Stagings(c, diff, day)')
    BY DEF StagingsSuffice
  <2>1. PICK n, s, w : /\ n = Cardinality(Confirmations(c, diff, day))
                       /\ s = Cardinality(Stagings(c, diff, day))
                       /\ w = Waiting(c, diff, day)
                       /\ n + w <= s
    BY DEF DecisionsStand, StagingsSuffice
  <2>2. n \in Nat /\ s \in Nat /\ w \in {0, 1}
    BY <2>1, ConfirmationsAreFinite, StagingsAreFinite DEF DecisionsStand,
       Waiting
  <2>3. Stagings(c, diff, day)' = Stagings(c, diff, day)
    BY DEF Stagings
  <2>4. Waiting(c, diff, day)' \in {0, w}
    BY <1>6, <2>1 DEF Waiting
  <2>5. Day(d.decided_at) = Today
    BY <1>1 DEF Today
  <2>6. CASE Change(r) = c /\ r.fresh_diff_hash = diff /\ Today <= day
    <3>1. Confirmations(c, diff, day)' = Confirmations(c, diff, day) \cup {key}
      BY <1>1, <1>3, <2>5, <2>6 DEF Confirmations
    <3>2. Cardinality(Confirmations(c, diff, day)') = n + 1
      <4>1. key \notin Confirmations(c, diff, day)
        BY <1>3 DEF Confirmations
      <4> QED
        BY <2>1, <3>1, <4>1, ConfirmationsAreFinite, FS_AddElement
           DEF DecisionsStand
    <3>3. IsCooling(r)
      BY <2>6 DEF Change, IsCooling
    <3>4. /\ c \in DOMAIN processor.staged
          /\ processor.staged[c].date < Today
          /\ processor.staged[c].diff = diff
          /\ processor.staged[c].date \in Nat
      BY <2>6, <3>3 DEF Acceptable, Confirms, DecisionsStand,
         ProcessorIsTyped, Intent
    <3>5. w = 1
      <4>1. processor.staged[c].date < day
        BY <2>6, <3>4, TodayIsNat
      <4> QED
        BY <2>1, <3>4, <4>1 DEF Waiting
    <3>6. Waiting(c, diff, day)' = 0
      <4>1. c \notin DOMAIN processor'.staged
        BY <1>1, <2>6, <3>3 DEF Unstaged
      <4> QED
        BY <4>1 DEF Waiting
    <3> QED
      BY <2>1, <2>2, <2>3, <3>2, <3>5, <3>6
  <2>7. CASE ~(Change(r) = c /\ r.fresh_diff_hash = diff /\ Today <= day)
    <3>1. Confirmations(c, diff, day)' = Confirmations(c, diff, day)
      BY <1>1, <1>3, <2>5, <2>7 DEF Confirmations
    <3> QED
      BY <2>1, <2>2, <2>3, <2>4, <3>1
  <2> QED
    BY <2>6, <2>7
<1> QED
  BY <1>7, <1>8, <1>9, <1>10, <1>11 DEF DecisionsStand

(* No new decision. *)
LEMMA NothingDecided ==
    ASSUME NoSilentOverwrite, NonceUsedOnce,
           processor'.versions = processor.versions,
           processor'.idem = processor.idem
    PROVE  NoSilentOverwrite' /\ NonceUsedOnce'
<1>1. \A t \in Targets : OnTarget(t)' = OnTarget(t)
  BY DEF OnTarget
<1>2. ASSUME NEW t \in Targets
      PROVE  /\ Cardinality(OnTarget(t)') = processor'.versions[t]
             /\ {processor'.idem[k].request.expected_version :
                    k \in OnTarget(t)'}
                   = 0 .. processor'.versions[t] - 1
  <2>1. PICK v, f, K : /\ v = processor.versions[t] /\ f = processor.idem
                       /\ K = OnTarget(t)
    OBVIOUS
  <2>2. Cardinality(K) = v
        /\ {f[k].request.expected_version : k \in K} = 0 .. v - 1
    BY <2>1 DEF NoSilentOverwrite
  <2>3. processor'.versions[t] = v /\ processor'.idem = f /\ OnTarget(t)' = K
    BY <1>1, <2>1
  <2> QED
    BY <2>2, <2>3
<1>3. NonceUsedOnce'
  BY DEF NonceUsedOnce
<1> QED
  BY <1>2, <1>3 DEF NoSilentOverwrite

LEMMA NothingHappened ==
    ASSUME ResultsAreKept, NoSilentOverwrite, NonceUsedOnce, StagingsSuffice,
           UNCHANGED <<processor, intents>>
    PROVE  /\ ResultsAreKept' /\ NoSilentOverwrite' /\ NonceUsedOnce'
           /\ StagingsSuffice'
<1>1. ResultsAreKept'
  BY DEF ResultsAreKept
<1>2. NoSilentOverwrite' /\ NonceUsedOnce'
  BY NothingDecided
<1>3. ASSUME NEW c, NEW diff, NEW day
      PROVE  /\ Confirmations(c, diff, day)' = Confirmations(c, diff, day)
             /\ Stagings(c, diff, day)' = Stagings(c, diff, day)
             /\ Waiting(c, diff, day)' = Waiting(c, diff, day)
  BY DEF Confirmations, Stagings, Waiting
<1>4. StagingsSuffice'
  BY <1>3 DEF StagingsSuffice
<1> QED
  BY <1>1, <1>2, <1>4

(* A request that is answered, with a new decision or with an earlier one. *)
LEMMA ProcessedKeepsDecisions ==
    ASSUME TypeOK, DecisionsStand, NEW r \in Requests,
           Known(processor, r) \/ Acceptable(processor, r),
           processor' = Processed(processor, r),
           UNCHANGED <<clock, intents>>
    PROVE  DecisionsStand' /\ Answer(processor, r) \in Requests \X Result
<1>1. CASE Known(processor, r)
  <2>1. processor' = processor
    BY <1>1 DEF Processed
  <2>2. DecisionsStand'
    BY <2>1, NothingHappened DEF DecisionsStand, ProcessorIsTyped
  <2> QED
    BY <1>1, <2>1, <2>2 DEF Answer, Processed, Known, DecisionsStand,
       ProcessorIsTyped
<1>2. CASE ~Known(processor, r)
  <2>1. processor' = Applied(processor, r)
    BY <1>2 DEF Processed
  <2>2. DecisionsStand'
    BY <1>2, <2>1, AppliedKeepsDecisions
  <2>3. r.idempotency_key \in DOMAIN processor'.idem
    <3>1. PICK d : processor'.idem = With(processor.idem, r.idempotency_key, d)
      BY <2>1, AppliedIs
    <3> QED
      BY <3>1 DEF With
  <2>4. processor'.idem[r.idempotency_key] \in Result
    BY <2>2, <2>3 DEF DecisionsStand, ProcessorIsTyped
  <2> QED
    BY <2>2, <2>4 DEF Answer
<1> QED
  BY <1>1, <1>2

LEMMA ProcessKeepsIInv ==
    ASSUME IInv, NEW s \in Sessions, NEW r \in Requests, Process(s, r)
    PROVE  IInv'
<1>1. TypeOK /\ DecisionsStand
  BY DEF IInv, DecisionsStand, ProcessorIsTyped, TypeOK
<1>2. /\ Known(processor, r) \/ Acceptable(processor, r)
      /\ processor' = Processed(processor, r)
      /\ answered' = answered \cup {Answer(processor, r)}
      /\ UNCHANGED <<clock, left, pending, intents>>
  BY DEF Process, Accepts
<1>3. DecisionsStand' /\ Answer(processor, r) \in Requests \X Result
  BY <1>1, <1>2, ProcessedKeepsDecisions
<1>4. TypeOK'
  BY <1>1, <1>2, <1>3 DEF TypeOK, DecisionsStand, ProcessorIsTyped
<1> QED
  BY <1>3, <1>4 DEF IInv, DecisionsStand

LEMMA ProcessNextKeepsIInv ==
    ASSUME IInv, ProcessNext
    PROVE  IInv'
<1>1. TypeOK /\ DecisionsStand
  BY DEF IInv, DecisionsStand, ProcessorIsTyped, TypeOK
<1>2. /\ left \in Seq([session : Sessions, request : Requests])
      /\ left # <<>>
  BY <1>1 DEF ProcessNext, Idle, TypeOK
<1>3. PICK s, r : s = Head(left).session /\ r = Head(left).request
  OBVIOUS
<1>4. /\ r \in Requests
      /\ Tail(left) \in Seq([session : Sessions, request : Requests])
  <2>1. PICK S : S = [session : Sessions, request : Requests]
    OBVIOUS
  <2>2. Head(left) \in S /\ Tail(left) \in Seq(S)
    <3>1. left \in Seq(S) /\ left # <<>>
      BY <1>2, <2>1
    <3> QED
      BY <3>1
  <2>3. Head(left).request \in Requests
    BY <2>1, <2>2
  <2> QED
    BY <1>3, <2>1, <2>2, <2>3
<1>5. UNCHANGED <<clock, intents>>
  BY DEF ProcessNext
<1>6. CASE Accepts(processor, s, r)
  <2>1. /\ Known(processor, r) \/ Acceptable(processor, r)
        /\ processor' = Processed(processor, r)
        /\ left' = Tail(left)
        /\ pending' \in {{}, pending \cup {Answer(processor, r)}}
        /\ answered' \in
              {answered, answered \cup (pending \cup {Answer(processor, r)})}
    BY <1>3, <1>6 DEF ProcessNext, Accepts
  <2>2. DecisionsStand' /\ Answer(processor, r) \in Requests \X Result
    BY <1>1, <1>4, <1>5, <2>1, ProcessedKeepsDecisions
  <2>3. TypeOK'
    BY <1>1, <1>4, <1>5, <2>1, <2>2 DEF TypeOK, DecisionsStand,
       ProcessorIsTyped
  <2> QED
    BY <2>2, <2>3 DEF IInv, DecisionsStand
<1>7. CASE ~Accepts(processor, s, r)
  <2>1. left' = <<>> /\ pending' = {} /\ UNCHANGED <<processor, answered>>
    BY <1>3, <1>7 DEF ProcessNext
  <2>2. TypeOK'
    BY <1>1, <1>5, <2>1 DEF TypeOK
  <2> QED
    BY <1>5, <2>1, <2>2, NothingHappened DEF IInv
<1> QED
  BY <1>6, <1>7

(* A staging replaces the one it finds and is one more for the days after  *)
(* today; today it does not count yet.                                     *)
LEMMA StageKeepsIInv ==
    ASSUME IInv, NEW change \in Changes, NEW shown \in Diffs,
           Stage(change, shown)
    PROVE  IInv'
<1>1. PICK intent :
         /\ intent = [change |-> change, date |-> Today, diff |-> shown]
         /\ processor' = [processor EXCEPT
                             !.staged = With(processor.staged, change, intent)]
         /\ intents' = Append(intents, intent)
         /\ UNCHANGED <<clock, left, pending, answered>>
  BY DEF Stage
<1>2. TypeOK /\ ResultsAreKept /\ Today \in Nat
  BY TodayIsNat DEF IInv
<1>3. /\ intent \in Intent /\ intent.change = change
      /\ intent.date = Today /\ intent.diff = shown
  BY <1>1, <1>2 DEF Intent
<1>4. /\ DOMAIN processor' = Fields
      /\ processor'.versions = processor.versions
      /\ processor'.nonces = processor.nonces
      /\ processor'.idem = processor.idem
      /\ processor'.staged = With(processor.staged, change, intent)
  BY <1>1, <1>2 DEF ResultsAreKept, Fields
<1>5. /\ DOMAIN processor'.staged = DOMAIN processor.staged \cup {change}
      /\ processor'.staged[change] = intent
      /\ \A c \in DOMAIN processor.staged \ {change} :
            processor'.staged[c] = processor.staged[c]
  BY <1>4 DEF With
<1>6. /\ intents \in Seq(Intent)
      /\ Len(intents) \in Nat
      /\ DOMAIN intents = 1..Len(intents)
      /\ DOMAIN intents' = 1..(Len(intents) + 1)
      /\ intents' \in Seq(Intent)
      /\ intents'[Len(intents) + 1] = intent
      /\ \A i \in 1..Len(intents) : intents'[i] = intents[i]
  BY <1>1, <1>2, <1>3 DEF TypeOK
<1>7. TypeOK'
  <2>1. /\ DOMAIN processor'.staged \subseteq Changes
        /\ \A c \in DOMAIN processor'.staged : processor'.staged[c] \in Intent
    BY <1>2, <1>3, <1>5 DEF TypeOK
  <2> QED
    BY <1>1, <1>2, <1>4, <1>6, <2>1 DEF TypeOK
<1>8. ResultsAreKept' /\ NoSilentOverwrite' /\ NonceUsedOnce'
  BY <1>4, NothingDecided DEF IInv, ResultsAreKept
<1>9. StagingsSuffice'
  <2> SUFFICES ASSUME NEW c \in Changes, NEW diff \in Diffs,
                      NEW day \in 0..Day(MaxTime)
               PROVE  Cardinality(Confirmations(c, diff, day)')
                         + Waiting(c, diff, day)'
                            <= Cardinality(Stagings(c, diff, day)')
    BY DEF StagingsSuffice
  <2>1. PICK n, s, w : /\ n = Cardinality(Confirmations(c, diff, day))
                       /\ s = Cardinality(Stagings(c, diff, day))
                       /\ w = Waiting(c, diff, day)
                       /\ n + w <= s
    BY DEF IInv, StagingsSuffice
  <2>2. n \in Nat /\ s \in Nat /\ w \in {0, 1}
    BY <1>2, <2>1, ConfirmationsAreFinite, StagingsAreFinite DEF Waiting
  <2>3. Confirmations(c, diff, day)' = Confirmations(c, diff, day)
    BY <1>4 DEF Confirmations
  <2>4. CASE c = change /\ diff = shown /\ Today < day
    <3>1. Stagings(c, diff, day)' =
             Stagings(c, diff, day) \cup {Len(intents) + 1}
      BY <1>3, <1>6, <2>4 DEF Stagings
    <3>2. Len(intents) + 1 \notin Stagings(c, diff, day)
      BY <1>6 DEF Stagings
    <3>3. Cardinality(Stagings(c, diff, day)') = s + 1
      BY <1>2, <2>1, <3>1, <3>2, StagingsAreFinite, FS_AddElement
    <3>4. Waiting(c, diff, day)' \in {0, 1}
      BY DEF Waiting
    <3> QED
      BY <2>1, <2>2, <2>3, <3>3, <3>4
  <2>5. CASE ~(c = change /\ diff = shown /\ Today < day)
    <3>1. Stagings(c, diff, day)' = Stagings(c, diff, day)
      BY <1>3, <1>6, <2>5 DEF Stagings
    <3>2. Waiting(c, diff, day)' \in {0, w}
      <4>1. CASE c = change
        <5>1. Waiting(c, diff, day)' = 0
          BY <1>3, <1>5, <2>5, <4>1 DEF Waiting
        <5> QED
          BY <5>1
      <4>2. CASE c # change
        BY <1>5, <2>1, <4>2 DEF Waiting
      <4> QED
        BY <4>1, <4>2
    <3> QED
      BY <2>1, <2>2, <2>3, <3>1, <3>2
  <2> QED
    BY <2>4, <2>5
<1> QED
  BY <1>7, <1>8, <1>9 DEF IInv

LEMMA OthersKeepIInv ==
    ASSUME IInv,
           \/ \E s \in Sessions, b \in Batches : StartBulk(s, b)
           \/ Tick
           \/ UNCHANGED vars
    PROVE  IInv'
<1>1. UNCHANGED <<processor, pending, intents, answered>>
  BY DEF StartBulk, Tick, vars
<1>2. clock' \in 0..MaxTime
  BY DEF IInv, TypeOK, StartBulk, Tick, vars
<1>3. left' \in Seq([session : Sessions, request : Requests])
  <2>1. CASE \E s \in Sessions, b \in Batches : StartBulk(s, b)
    <3>1. PICK s \in Sessions, b \in Batches : StartBulk(s, b)
      BY <2>1
    <3>2. b \in Seq(Requests)
      OBVIOUS
    <3>3. left' = [i \in 1..Len(b) |-> [session |-> s, request |-> b[i]]]
      BY <3>1, <3>2 DEF StartBulk
    <3>4. /\ Len(b) \in Nat
          /\ \A i \in 1..Len(b) : [session |-> s, request |-> b[i]]
                \in [session : Sessions, request : Requests]
      BY <3>2
    <3> QED
      BY <3>3, <3>4
  <2>2. CASE left' = left
    BY <2>2 DEF IInv, TypeOK
  <2> QED
    BY <2>1, <2>2 DEF Tick, vars
<1>4. TypeOK'
  BY <1>1, <1>2, <1>3 DEF IInv, TypeOK
<1> QED
  BY <1>1, <1>4, NothingHappened DEF IInv

LEMMA InitIsIInv == Init => IInv
<1> SUFFICES ASSUME Init PROVE IInv
  OBVIOUS
<1>1. /\ DOMAIN processor = Fields
      /\ processor.versions = [t \in Targets |-> 0]
      /\ processor.nonces = {}
      /\ DOMAIN processor.idem = {}
      /\ DOMAIN processor.staged = {}
  BY DEF Init, Empty, Fields
<1>2. clock = 0 /\ left = <<>> /\ pending = {} /\ intents = <<>> /\ answered = {}
  BY DEF Init
<1>3. TypeOK
  BY <1>1, <1>2 DEF TypeOK
<1>4. ResultsAreKept /\ NonceUsedOnce
  BY <1>1, FS_EmptySet DEF ResultsAreKept, NonceUsedOnce
<1>5. NoSilentOverwrite
  <2> SUFFICES ASSUME NEW t \in Targets
               PROVE  /\ Cardinality(OnTarget(t)) = processor.versions[t]
                      /\ {processor.idem[k].request.expected_version :
                             k \in OnTarget(t)}
                            = 0 .. processor.versions[t] - 1
    BY DEF NoSilentOverwrite
  <2>1. OnTarget(t) = {} /\ processor.versions[t] = 0
    BY <1>1 DEF OnTarget
  <2>2. 0 .. 0 - 1 = {}
    OBVIOUS
  <2> QED
    BY <2>1, <2>2, FS_EmptySet
<1>6. StagingsSuffice
  <2> SUFFICES ASSUME NEW c \in Changes, NEW diff \in Diffs,
                      NEW day \in 0..Day(MaxTime)
               PROVE  Cardinality(Confirmations(c, diff, day))
                         + Waiting(c, diff, day)
                            <= Cardinality(Stagings(c, diff, day))
    BY DEF StagingsSuffice
  <2>1. Confirmations(c, diff, day) = {} /\ Stagings(c, diff, day) = {}
    BY <1>1, <1>2 DEF Confirmations, Stagings
  <2>2. Waiting(c, diff, day) = 0
    BY <1>1 DEF Waiting
  <2> QED
    BY <2>1, <2>2, FS_EmptySet
<1> QED
  BY <1>3, <1>4, <1>5, <1>6 DEF IInv

-----------------------------------------------------------------------------
(* Results, nonces, versions and stagings fit together at every moment,    *)
(* also within a batch (reviewer_actions.py:187-239).                      *)
THEOREM ReviewInductive == Spec => []IInv
<1>1. IInv /\ [Next]_vars => IInv'
  BY StageKeepsIInv, ProcessKeepsIInv, ProcessNextKeepsIInv, OthersKeepIInv
     DEF Next
<1> QED
  BY InitIsIInv, <1>1, PTL DEF Spec

(* Every version of a target was left by one decision, whose reviewer had  *)
(* seen it (reviewer_actions.py:192-201, 219-229).                         *)
THEOREM NothingIsOverwritten == Spec => []NoSilentOverwrite
<1>1. IInv => NoSilentOverwrite
  BY DEF IInv
<1> QED
  BY ReviewInductive, <1>1, PTL

(* A nonce is good for one decision (reviewer_actions.py:195-196, 226).    *)
THEOREM NoncesAreSpent == Spec => []NonceUsedOnce
<1>1. IInv => NonceUsedOnce
  BY DEF IInv
<1> QED
  BY ReviewInductive, <1>1, PTL

(* A confirmation has a staging of an earlier day with the same diff to    *)
(* itself (reviewer_actions.py:209-216, 230-231).                          *)
THEOREM ChangesCoolDown == Spec => []CoolingPeriodKept
<1>1. IInv => CoolingPeriodKept
  <2> SUFFICES ASSUME IInv, NEW c \in Changes, NEW diff \in Diffs,
                      NEW day \in 0..Day(MaxTime)
               PROVE  Cardinality(Confirmations(c, diff, day))
                         <= Cardinality(Stagings(c, diff, day))
    BY DEF CoolingPeriodKept
  <2>1. /\ Cardinality(Confirmations(c, diff, day)) \in Nat
        /\ Cardinality(Stagings(c, diff, day)) \in Nat
    BY ConfirmationsAreFinite, StagingsAreFinite DEF IInv
  <2>2. Waiting(c, diff, day) \in {0, 1}
    BY DEF Waiting
  <2>3. Cardinality(Confirmations(c, diff, day)) + Waiting(c, diff, day)
           <= Cardinality(Stagings(c, diff, day))
    BY DEF IInv, StagingsSuffice
  <2> QED
    BY <2>1, <2>2, <2>3
<1> QED
  BY ReviewInductive, <1>1, PTL

HIDE ReviewerActionsAssumption

=============================================================================
