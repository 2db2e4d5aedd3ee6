---------------------------- MODULE ToolsProofs -----------------------------
(***************************************************************************)
(* Theorems about the tools: the plan's cycle check (any finite graph) and *)
(* gates (any tasks, gates, decisions and evidence), the live probe (any   *)
(* listing, any answers, any delays) and the builder's budget (any finite  *)
(* number of runs, any costs).  Each part has its own state, invariant and *)
(* assumption.                                                             *)
(***************************************************************************)
EXTENDS PlanGraph, PlanGates, LiveProbe, BudgetLedger, SumTheorems

-----------------------------------------------------------------------------
(* The cycle check. *)

USE PlanGraphAssumption

(* What a task depends on is finite, popped or not. *)
LEMMA KnownIsFinite ==
    ASSUME NEW t
    PROVE  /\ IsFiniteSet(Known(t))
           /\ IsFiniteSet(Known(t) \ popped)
           /\ Cardinality(Known(t)) \in Nat
           /\ Cardinality(Known(t) \ popped) \in Nat
<1>1. /\ Known(t) \in SUBSET Tasks
      /\ Known(t) \ popped \in SUBSET Tasks
  BY DEF Known
<1>2. IsFiniteSet(Known(t)) /\ IsFiniteSet(Known(t) \ popped)
  BY <1>1, FS_Subset
<1> QED
  BY <1>2, FS_CardinalityType

LEMMA InitIInvGraph == InitGraph => IInvGraph
<1> SUFFICES ASSUME InitGraph PROVE IInvGraph
  OBVIOUS
<1> USE DEF InitGraph
<1>1. TypeOKGraph
  <2>1. indeg \in [Tasks -> Nat]
    BY KnownIsFinite
  <2>2. seen = Cardinality(popped)
    BY FS_EmptySet
  <2> QED
    BY <2>1, <2>2 DEF TypeOKGraph
<1>2. CountersAreExact
  <2>1. \A t \in Tasks : Known(t) \ popped = Known(t)
    OBVIOUS
  <2> QED
    BY <2>1 DEF CountersAreExact
<1>3. QueueHoldsFree
  BY DEF QueueHoldsFree
<1>4. PoppedAreClosed /\ PoppedAreGrounded
  BY DEF PoppedAreClosed, PoppedAreGrounded
<1> QED
  BY <1>1, <1>2, <1>3, <1>4 DEF IInvGraph

(* What the invariant says of the task that leaves the queue. *)
LEMMA QueuedTask ==
    ASSUME IInvGraph, NEW n \in queue
    PROVE  n \in Tasks /\ n \notin popped /\ Known(n) \subseteq popped
  BY DEF IInvGraph, QueueHoldsFree

(* Popping n removes n from what its dependents wait for, and nothing else *)
(* from what anybody waits for.                                            *)
LEMMA OneLessToWaitFor ==
    ASSUME IInvGraph, NEW n \in queue, NEW t \in Tasks
    PROVE  Cardinality(Known(t) \ (popped \cup {n})) =
               IF t \in Dependents(n) THEN indeg[t] - 1 ELSE indeg[t]
<1>1. Known(t) \ (popped \cup {n}) = (Known(t) \ popped) \ {n}
  OBVIOUS
<1>2. t \in Dependents(n) <=> n \in Known(t) \ popped
  BY QueuedTask DEF Dependents, Known
<1>3. indeg[t] = Cardinality(Known(t) \ popped)
  BY DEF IInvGraph, CountersAreExact
<1>4. Cardinality((Known(t) \ popped) \ {n}) =
          IF n \in Known(t) \ popped THEN Cardinality(Known(t) \ popped) - 1
          ELSE Cardinality(Known(t) \ popped)
  BY KnownIsFinite, FS_RemoveElement
<1> QED
  BY <1>1, <1>2, <1>3, <1>4

(* A dependent is freed when n was the last it waited for. *)
LEMMA FreedMeansLast ==
    ASSUME IInvGraph, NEW n \in queue, NEW t \in Tasks
    PROVE  t \in Freed(n) <=> Known(t) \ popped = {n}
<1>1. t \in Dependents(n) <=> n \in Known(t) \ popped
  BY QueuedTask DEF Dependents, Known
<1>2. indeg[t] = Cardinality(Known(t) \ popped)
  BY DEF IInvGraph, CountersAreExact
<1>3. Cardinality(Known(t) \ popped) = 1 <=> \E x : Known(t) \ popped = {x}
  BY KnownIsFinite, FS_Singleton
<1> QED
  BY <1>1, <1>2, <1>3 DEF Freed, Dependents

LEMMA PopKeepsIInvGraph ==
    ASSUME IInvGraph, NEW n \in queue, Pop(n)
    PROVE  IInvGraph'
<1>1. /\ n \in Tasks /\ n \notin popped /\ Known(n) \subseteq popped
      /\ popped' = popped \cup {n}
      /\ depends_on' = depends_on
      /\ \A t : Known(t)' = Known(t)
  BY QueuedTask DEF Pop, Known
<1>2. TypeOKGraph'
  <2>1. indeg' \in [Tasks -> Nat]
    <3>1. \A t \in Tasks :
            Cardinality(Known(t) \ (popped \cup {n})) \in Nat
      <4>1. ASSUME NEW t \in Tasks
            PROVE  IsFiniteSet(Known(t) \ (popped \cup {n}))
        <5>1. Known(t) \ (popped \cup {n}) \in SUBSET Tasks
          BY DEF Known
        <5> QED
          BY <5>1, FS_Subset
      <4> QED
        BY <4>1, FS_CardinalityType
    <3> QED
      BY <3>1, OneLessToWaitFor DEF Pop
  <2>2. seen' = Cardinality(popped')
    <3>1. IsFiniteSet(popped) /\ seen = Cardinality(popped)
      BY FS_Subset DEF IInvGraph, TypeOKGraph
    <3>2. Cardinality(popped \cup {n}) = Cardinality(popped) + 1
      BY <1>1, <3>1, FS_AddElement
    <3> QED
      BY <1>1, <3>1, <3>2 DEF Pop
  <2> QED
    BY <1>1, <2>1, <2>2 DEF IInvGraph, TypeOKGraph
<1>3. CountersAreExact'
  BY <1>1, OneLessToWaitFor DEF CountersAreExact, Pop
<1>4. QueueHoldsFree'
  <2> SUFFICES ASSUME NEW t \in Tasks
               PROVE  t \in queue' <=> /\ t \notin popped'
                                       /\ Known(t) \subseteq popped'
    <3>1. queue' \subseteq Tasks
      BY DEF Pop, Freed, Dependents, IInvGraph, QueueHoldsFree
    <3> QED
      BY <1>1, <3>1 DEF QueueHoldsFree
  <2>1. t \in queue' <=> (t \in queue /\ t # n) \/ Known(t) \ popped = {n}
    BY FreedMeansLast DEF Pop
  <2>2. t \in queue <=> t \notin popped /\ Known(t) \subseteq popped
    BY DEF IInvGraph, QueueHoldsFree
  <2>3. t \in popped \cup {n} => Known(t) \subseteq popped
    BY <1>1 DEF IInvGraph, PoppedAreClosed
  <2> QED
    BY <1>1, <2>1, <2>2, <2>3
<1>5. PoppedAreClosed'
  BY <1>1 DEF IInvGraph, PoppedAreClosed
<1>6. PoppedAreGrounded'
  <2> SUFFICES ASSUME NEW S \in SUBSET Tasks,
                      \A t \in S : depends_on[t] \cap S # {}
               PROVE  S \cap popped' = {}
    BY <1>1 DEF PoppedAreGrounded
  <2>1. S \cap popped = {}
    BY DEF IInvGraph, PoppedAreGrounded
  <2>2. n \notin S
    BY <1>1, <2>1 DEF Known
  <2> QED
    BY <1>1, <2>1, <2>2
<1> QED
  BY <1>2, <1>3, <1>4, <1>5, <1>6 DEF IInvGraph

LEMMA NextKeepsIInvGraph == IInvGraph /\ [NextGraph]_graphVars => IInvGraph'
<1> SUFFICES ASSUME IInvGraph, [NextGraph]_graphVars PROVE IInvGraph'
  OBVIOUS
<1>1. CASE NextGraph
  BY <1>1, PopKeepsIInvGraph DEF NextGraph
<1>2. CASE UNCHANGED graphVars
  BY <1>2 DEF graphVars, IInvGraph, TypeOKGraph, CountersAreExact,
              QueueHoldsFree, PoppedAreClosed, PoppedAreGrounded, Known
<1> QED
  BY <1>1, <1>2

(* The counters, the queue and the popped tasks stay what validate takes   *)
(* them for, through the whole walk.                                       *)
THEOREM GraphInvariant == SpecGraph => []IInvGraph
  BY InitIInvGraph, NextKeepsIInvGraph, PTL DEF SpecGraph

(* What stays when the queue is empty waits for what stays. *)
LEMMA LeftOversAreCyclic ==
    ASSUME IInvGraph, Walked
    PROVE  \A t \in Tasks \ popped : depends_on[t] \cap (Tasks \ popped) # {}
<1>1. ASSUME NEW t \in Tasks \ popped PROVE ~(Known(t) \subseteq popped)
  BY DEF IInvGraph, QueueHoldsFree, Walked
<1> QED
  BY <1>1 DEF Known

LEMMA InvariantIsSound == IInvGraph => KahnIsSound
<1> SUFFICES ASSUME IInvGraph, Walked PROVE Accepted <=> ~Cyclic
  BY DEF KahnIsSound
<1>1. Accepted <=> popped = Tasks
  BY FS_Subset DEF Accepted, IInvGraph, TypeOKGraph
<1>2. ASSUME popped = Tasks PROVE ~Cyclic
  BY <1>2 DEF Cyclic, IInvGraph, PoppedAreGrounded
<1>3. ASSUME popped # Tasks PROVE Cyclic
  <2> DEFINE S == Tasks \ popped
  <2>1. S \in SUBSET Tasks /\ S # {}
    BY <1>3 DEF IInvGraph, TypeOKGraph
  <2>2. \A t \in S : depends_on[t] \cap S # {}
    BY LeftOversAreCyclic
  <2> HIDE DEF S
  <2> QED
    BY <2>1, <2>2 DEF Cyclic
<1> QED
  BY <1>1, <1>2, <1>3

(* validate reports a cycle exactly when the plan has one, for any plan    *)
(* and whichever order the queue is emptied in (atlas_plan.py, validate).  *)
THEOREM CycleCheckIsSound == SpecGraph => []KahnIsSound
  BY GraphInvariant, InvariantIsSound, PTL

HIDE PlanGraphAssumption

-----------------------------------------------------------------------------
(* The gates. *)

USE PlanGatesAssumption

Receipt == [task : GatedTasks, criteria : CriteriaSets,
            self_asserted : BOOLEAN, result_commit : Nat]

IInvGates == /\ head \in Nat
             /\ receipts \subseteq Receipt
             /\ \A r \in receipts : r.result_commit <= head
             /\ closed \in [GatedTasks -> Nat]
             /\ gate \in [Gates -> [pass : BOOLEAN, commit : Nat]]
             /\ GatePassIsEarned

LEMMA InitIInvGates == InitGates => IInvGates
  BY DEF InitGates, IInvGates, GatePassIsEarned, NoManifest

(* What is earned stays earned: receipts and decisions are only added. *)
LEMMA EarnedIsKept ==
    ASSUME receipts \subseteq receipts', decisions \subseteq decisions',
           UNCHANGED <<closed, gate>>, GatePassIsEarned
    PROVE  GatePassIsEarned'
<1>1. \A t, commit : Earned(t, commit) => Earned(t, commit)'
  BY DEF Earned
<1> QED
  BY <1>1 DEF GatePassIsEarned

LEMMA NextKeepsIInvGates == IInvGates /\ [NextGates]_gateVars => IInvGates'
<1> SUFFICES ASSUME IInvGates, [NextGates]_gateVars PROVE IInvGates'
  OBVIOUS
<1> USE DEF IInvGates
<1>1. CASE Commit
  <2>1. GatePassIsEarned'
    BY <1>1, EarnedIsKept DEF Commit
  <2> QED
    BY <1>1, <2>1 DEF Commit, Receipt
<1>2. ASSUME NEW t \in GatedTasks, NEW criteria \in CriteriaSets,
             NEW self \in BOOLEAN, Record(t, criteria, self)
      PROVE  IInvGates'
  <2>1. GatePassIsEarned'
    BY <1>2, EarnedIsKept DEF Record
  <2> QED
    BY <1>2, <2>1 DEF Record, Receipt
<1>3. ASSUME NEW d \in Decisions, Decide(d) PROVE IInvGates'
  <2>1. GatePassIsEarned'
    BY <1>3, EarnedIsKept DEF Decide
  <2> QED
    BY <1>3, <2>1 DEF Decide
<1>4. ASSUME NEW t \in GatedTasks, CloseTask(t) PROVE IInvGates'
  <2>1. PICK r \in receipts : /\ r.task = t
                              /\ Passes(r)
                              /\ r.result_commit = head
    BY <1>4 DEF CloseTask, TaskVerified, ReceiptsOk
  <2>2. GatePassIsEarned'
    BY <1>4, <2>1 DEF CloseTask, GatePassIsEarned, Earned
  <2> QED
    BY <1>4, <2>2 DEF CloseTask
<1>5. ASSUME NEW g \in Gates, VerifyGate(g) PROVE IInvGates'
  <2>1. /\ gate' \in [Gates -> [pass : BOOLEAN, commit : Nat]]
        /\ \A h \in Gates \ {g} : gate'[h] = gate[h]
        /\ gate'[g].commit = head
        /\ gate'[g].pass =>
              /\ \A t \in GatedTasks : Gate[t] = g => EvidenceIsEnough(t)
              /\ GATE_OPERATOR_DECISIONS[g] \subseteq decisions
    BY <1>5 DEF VerifyGate
  <2>2. \A t \in GatedTasks : EvidenceIsEnough(t) => Earned(t, head)
    BY DEF EvidenceIsEnough, ReceiptsOk, Earned
  <2>3. \A t, commit : Earned(t, commit)' <=> Earned(t, commit)
    BY <1>5 DEF VerifyGate, Earned
  <2>4. GatePassIsEarned'
    BY <1>5, <2>1, <2>2, <2>3 DEF VerifyGate, GatePassIsEarned
  <2> QED
    BY <1>5, <2>1, <2>4 DEF VerifyGate
<1>6. CASE UNCHANGED gateVars
  <2>1. GatePassIsEarned'
    BY <1>6, EarnedIsKept DEF gateVars
  <2> QED
    BY <1>6, <2>1 DEF gateVars
<1> QED
  BY <1>1, <1>2, <1>3, <1>4, <1>5, <1>6 DEF NextGates

(* For any tasks, gates, decisions and evidence: a gate that passed rests, *)
(* for every task of it, on evidence its policy accepts, no later than the *)
(* commit it passed at; and a task is closed only on a passing receipt of  *)
(* the commit it was closed at (atlas_plan.py, gate_verify; completion.py, *)
(* close_task).                                                            *)
THEOREM GatesAreEarned == SpecGates => []GatePassIsEarned
<1>1. IInvGates => GatePassIsEarned
  BY DEF IInvGates
<1> QED
  BY InitIInvGates, NextKeepsIInvGates, <1>1, PTL DEF SpecGates

HIDE PlanGatesAssumption

-----------------------------------------------------------------------------
(* The live probe. *)

USE LiveProbeAssumption

ProbeType == [at : {"start", "refused", "listing", "lead", "acquire", "done"},
              source : ProbeSources, leads : Seq(Leads), next : Nat \ {0},
              attempt : Nat]

ReplyType == [odd : BOOLEAN, lead : Nat, code : Nat,
              after : Nat \cup {NoHeader}]

(* Between two leads the last reply is to an earlier one; at a lead, what  *)
(* was slept covers the pause, or what the last reply to it asked for.     *)
IInvProbe ==
    /\ probe \in ProbeType
    /\ reply \in ReplyType
    /\ probe.at \in {"start", "listing"} => reply.lead = 0
    /\ At("lead") => slept \in Nat /\ reply.lead < probe.next
    /\ At("acquire") =>
          /\ reply.lead <= probe.next
          /\ reply.lead # probe.next => slept \in Nat
          /\ reply.lead = probe.next => Requests
          /\ Polite => Spaced(probe.next)

LEMMA InitIInvProbe == InitProbe => IInvProbe
<1> SUFFICES ASSUME InitProbe PROVE IInvProbe
  OBVIOUS
<1>1. PICK source \in ProbeSources : probe = Place("start", source, <<>>, 1, 0)
  BY DEF InitProbe
<1>2. probe \in ProbeType /\ At("start")
  BY <1>1 DEF Place, ProbeType, At
<1> QED
  BY <1>2 DEF InitProbe, IInvProbe, NoReply, ReplyType, At

(* What a step of the run before and after its leads leaves behind. *)
LEMMA OutsideKeepsIInvProbe ==
    ASSUME IInvProbe,
           \/ Refuse \/ NoActiveQuery \/ Start \/ ListingFails
           \/ DiscoveryFails \/ Finish
    PROVE  IInvProbe'
<1> USE DEF IInvProbe
<1>1. UNCHANGED reply
  BY DEF Refuse, NoActiveQuery, Start, ListingFails, DiscoveryFails, Finish
<1>2. CASE Refuse \/ NoActiveQuery \/ DiscoveryFails \/ Finish
  <2>1. probe' = [probe EXCEPT !.at = "refused"] \/ probe' = [probe EXCEPT !.at = "done"]
    BY <1>2 DEF Refuse, NoActiveQuery, DiscoveryFails, Finish, Ends
  <2>2. probe' \in ProbeType /\ probe'.at \in {"refused", "done"}
    BY <2>1 DEF ProbeType
  <2> QED
    BY <1>1, <2>2 DEF At
<1>3. CASE Start
  <2>1. probe' \in ProbeType /\ probe'.at = "listing" /\ probe.at = "start"
    BY <1>3 DEF Start, ProbeType, At
  <2> QED
    BY <1>1, <2>1 DEF At
<1>4. CASE ListingFails
  <2>1. probe' \in ProbeType /\ probe'.at = "listing" /\ probe.at = "listing"
    <3>1. probe \in ProbeType /\ probe.attempt + 1 \in Nat /\ probe.at = "listing"
      BY <1>4 DEF ListingFails, ProbeType, At
    <3>2. probe' = [probe EXCEPT !.attempt = probe.attempt + 1]
      BY <1>4 DEF ListingFails
    <3> QED
      BY <3>1, <3>2 DEF ProbeType
  <2> QED
    BY <1>1, <2>1 DEF At
<1> QED
  BY <1>2, <1>3, <1>4

LEMMA DiscoverKeepsIInvProbe ==
    ASSUME IInvProbe, NEW listing \in Listings, Discover(listing)
    PROVE  IInvProbe'
<1>1. listing \in Seq(Leads)
  BY DEF Listings
<1> DEFINE taken == MinOf(Len(listing), MAX_DOCS_PER_SOURCE)
<1>2. taken \in Nat /\ taken <= Len(listing)
  BY <1>1 DEF MinOf
<1>3. SubSeq(listing, 1, taken) \in Seq(Leads)
  BY <1>1, <1>2
<1>4. /\ probe' = Place("lead", probe.source, SubSeq(listing, 1, taken), 1, 0)
      /\ slept' = 0
      /\ reply' = reply
      /\ At("listing")
  BY DEF Discover
<1>5. probe' \in ProbeType /\ probe'.at = "lead" /\ probe'.next = 1
  BY <1>3, <1>4 DEF IInvProbe, ProbeType, Place
<1> QED
  BY <1>4, <1>5 DEF IInvProbe, At

LEMMA TakeLeadKeepsIInvProbe ==
    ASSUME IInvProbe, TakeLead PROVE IInvProbe'
<1> USE DEF IInvProbe
<1>1. /\ probe' \in ProbeType
      /\ probe'.at = "acquire"
      /\ probe'.next = probe.next
      /\ probe'.source = probe.source
      /\ reply' = reply
      /\ slept' = slept + Pause
      /\ slept \in Nat /\ reply.lead < probe.next
  BY DEF TakeLead, ProbeType, At
<1>2. Pause \in Nat /\ (Polite /\ reply.lead # 0 => Pause = CL_ACQUIRE_DELAY_S)
  BY <1>1 DEF Pause, ReplyType, ProbeType
<1>3. slept' \in Nat
  BY <1>1, <1>2
<1>4. Polite' => Spaced(probe.next)'
  <2>1. Polite /\ reply.lead # 0 => slept' >= CL_ACQUIRE_DELAY_S
    BY <1>1, <1>2
  <2>2. reply'.lead # probe'.next
    BY <1>1 DEF ReplyType, ProbeType
  <2> QED
    BY <1>1, <2>1, <2>2 DEF Spaced, Polite
<1>5. reply' \in ReplyType /\ reply'.lead < probe'.next
  BY <1>1
<1>6. reply'.lead <= probe'.next /\ reply'.lead # probe'.next
  <2>1. PICK l \in Nat, n \in Nat : l = reply'.lead /\ n = probe'.next
    BY <1>1, <1>5 DEF ReplyType, ProbeType
  <2> QED
    BY <1>5, <2>1
<1> QED
  BY <1>1, <1>3, <1>4, <1>5, <1>6 DEF At

LEMMA DoneKeepsIInvProbe ==
    ASSUME IInvProbe, At("acquire"), NEW outcome, LeadIsDone(outcome),
           slept' \in Nat, reply' \in ReplyType, reply'.lead <= probe.next
    PROVE  IInvProbe'
<1>1. probe' \in ProbeType /\ probe'.at = "lead" /\ probe'.next = probe.next + 1
  <2>1. probe' = [probe EXCEPT !.at = "lead", !.next = probe.next + 1]
    BY DEF LeadIsDone
  <2>2. probe \in ProbeType /\ probe.next + 1 \in Nat \ {0}
    BY DEF IInvProbe, ProbeType
  <2> QED
    BY <2>1, <2>2 DEF ProbeType
<1>2. reply'.lead < probe'.next
  <2>1. probe.next \in Nat
    BY DEF IInvProbe, ProbeType
  <2>2. reply'.lead \in Nat
    BY DEF ReplyType
  <2> QED
    BY <1>1, <2>1, <2>2
<1>3. /\ probe' \in ProbeType /\ slept' \in Nat /\ reply' \in ReplyType
      /\ reply'.lead < probe'.next
  BY <1>1, <1>2
<1>4. probe'.at \notin {"start", "listing", "acquire"}
  BY <1>1
<1> QED
  BY <1>3, <1>4 DEF IInvProbe, At

LEMMA AcquireKeepsIInvProbe ==
    ASSUME IInvProbe,
           \/ NoClusterId
           \/ \E outcome \in Outcomes : Answered(outcome)
           \/ Raises(500, NoHeader)
           \/ \E after \in RetryAfters : Raises(429, after) \/ TooMany(after)
    PROVE  IInvProbe'
<1>1. CASE NoClusterId
  <2>1. reply.lead # probe.next /\ reply.lead <= probe.next /\ slept \in Nat
    BY <1>1 DEF NoClusterId, IInvProbe, Requests
  <2> QED
    BY <1>1, <2>1, DoneKeepsIInvProbe DEF NoClusterId, IInvProbe
<1>2. reply \in ReplyType /\ probe.next \in Nat
  BY DEF IInvProbe, ProbeType
<1>3. ASSUME NEW outcome \in Outcomes, Answered(outcome) PROVE IInvProbe'
  <2>1. reply' \in ReplyType /\ reply'.lead = probe.next
    BY <1>2, <1>3 DEF Answered, Replied, ReplyType
  <2> QED
    BY <1>3, <2>1, DoneKeepsIInvProbe
    DEF Answered, Requests, IInvProbe, ProbeType
<1>4. ASSUME NEW code \in Nat, NEW after \in Nat \cup {NoHeader},
             Raises(code, after)
      PROVE  IInvProbe'
  <2>1. reply' \in ReplyType /\ reply'.lead = probe.next
    BY <1>2, <1>4 DEF Raises, Replied, ReplyType
  <2> QED
    BY <1>4, <2>1, DoneKeepsIInvProbe
    DEF Raises, Requests, IInvProbe, ProbeType
<1>5. ASSUME NEW after \in RetryAfters, TooMany(after) PROVE IInvProbe'
  <2>1. reply' \in ReplyType /\ reply'.lead = probe.next /\ reply'.after = after
    BY <1>2, <1>5 DEF TooMany, Replied, ReplyType
  <2>2. /\ probe' \in ProbeType
        /\ probe'.at = "acquire"
        /\ probe'.next = probe.next
        /\ probe'.leads = probe.leads
        /\ probe'.source = probe.source
    <3>1. probe \in ProbeType /\ probe.at = "acquire"
      BY <1>5 DEF TooMany, Requests, At, IInvProbe
    <3>2. probe' = [probe EXCEPT !.attempt = probe.attempt + 1]
      BY <1>5 DEF TooMany, NextAttempt
    <3>3. probe' \in ProbeType
      BY <3>1, <3>2 DEF ProbeType
    <3> QED
      BY <3>1, <3>2, <3>3 DEF ProbeType
  <2>3. Requests'
    BY <1>5, <2>2 DEF TooMany, Requests, At, Polite, Lead
  <2>4. after # NoHeader => slept' >= MinOf(after, CL_MAX_BACKOFF_S)
    BY <1>5 DEF TooMany, Backoff, MinOf
  <2>5. Spaced(probe.next)'
    BY <2>1, <2>2, <2>4 DEF Spaced
  <2> QED
    BY <2>1, <2>2, <2>3, <2>5 DEF IInvProbe, At, ProbeType
<1>6. RetryAfters \subseteq Nat \cup {NoHeader}
  OBVIOUS
<1>7. Raises(500, NoHeader) => IInvProbe'
  <2>1. 500 \in Nat /\ NoHeader \in Nat \cup {NoHeader}
    OBVIOUS
  <2> QED
    BY <1>4, <2>1, Zenon
<1>8. \A after \in RetryAfters : Raises(429, after) => IInvProbe'
  <2> SUFFICES ASSUME NEW after \in RetryAfters, Raises(429, after)
               PROVE  IInvProbe'
    OBVIOUS
  <2>1. 429 \in Nat /\ after \in Nat \cup {NoHeader}
    BY <1>6
  <2> QED
    BY <1>4, <2>1, Zenon
<1> QED
  BY <1>1, <1>3, <1>5, <1>7, <1>8, Zenon

LEMMA NextKeepsIInvProbe ==
    ASSUME IInvProbe, [NextProbe]_probeVars PROVE IInvProbe'
<1>1. CASE UNCHANGED probeVars
  BY <1>1 DEF probeVars, IInvProbe, At, Requests, Polite, Lead, Spaced
<1>2. CASE NextProbe
  BY <1>2, OutsideKeepsIInvProbe, DiscoverKeepsIInvProbe,
     TakeLeadKeepsIInvProbe, AcquireKeepsIInvProbe DEF NextProbe
<1> QED
  BY <1>1, <1>2

(* For any listing, any answers of the servers and any delays: a request   *)
(* to the paced source comes after the pause if the one before it was for  *)
(* another lead, and after what the server asked for, within the cap, if   *)
(* it repeats one (run_probe.py:14-15).                                    *)
THEOREM RequestsArePaced == SpecProbe => RequestsAreSpaced
<1>1. IInvProbe /\ [NextProbe]_probeVars =>
         [reply'.odd # reply.odd /\ Polite => Spaced(probe.next)]_probeVars
  <2> SUFFICES ASSUME IInvProbe, NextProbe, reply' # reply
               PROVE  At("acquire")
    BY DEF IInvProbe
  <2> QED
    BY DEF NextProbe, Refuse, NoActiveQuery, Start, ListingFails,
       DiscoveryFails, Discover, TakeLead, NoClusterId, Answered, Raises,
       TooMany, Requests, Finish
<1>2. IInvProbe /\ [NextProbe]_probeVars => IInvProbe'
  BY NextKeepsIInvProbe
<1> QED
  BY InitIInvProbe, <1>1, <1>2, PTL DEF SpecProbe, RequestsAreSpaced

-----------------------------------------------------------------------------
(* The balance of a run. *)

Ids == {Candidate[l] : l \in Leads}

RunRecords == {NoRun} \cup
    [coverage : {"failed", "partial", "complete"}, leads_seen : Nat, new : Nat,
     updated : Nat, failures : Nat]

Summaries == [leads_discovered : Nat, new : Nat, updated : Nat,
              documents : Seq([candidate : Ids, outcome : Outcomes]),
              errors : Nat, run : RunRecords]

NamedBy(documents, c) == {i \in DOMAIN documents : documents[i].candidate = c}

(* The lead at hand has been taken in, and has no document yet. *)
InHand(c) == IF At("acquire") /\ Candidate[Lead] = c THEN 1 ELSE 0
Taken == IF At("acquire") THEN probe.next ELSE probe.next - 1

TypeOKRun == /\ probe \in ProbeType
             /\ summary \in Summaries
             /\ candidates \subseteq Ids
             /\ observations \in [Ids -> Nat]

(* At every moment the ledger agrees with the summary and the documents.   *)
LedgerBalances ==
    /\ summary.new = Cardinality(candidates)
    /\ SumFunctionOnSet(observations, Ids) = summary.new + summary.updated
    /\ \A c \in Ids : observations[c] =
          Cardinality(NamedBy(summary.documents, c)) + InHand(c)

NothingTakenIn == /\ summary.documents = <<>>
                  /\ summary.new = 0 /\ summary.updated = 0
                  /\ summary.leads_discovered = 0

LeadsBalance ==
    /\ probe.at \in {"start", "listing"} => NothingTakenIn
    /\ probe.at \in {"lead", "acquire"} =>
          /\ summary.leads_discovered = Len(probe.leads)
          /\ Len(summary.documents) = probe.next - 1
          /\ summary.new + summary.updated = Taken
          /\ Taken <= Len(probe.leads)

IInvRun == /\ TypeOKRun
           /\ LedgerBalances
           /\ LeadsBalance
           /\ RunBalances

(* Counting a candidate's documents. *)
LEMMA NamedIsFinite ==
    ASSUME NEW D, NEW documents \in Seq(D), NEW c
    PROVE  /\ IsFiniteSet(NamedBy(documents, c))
           /\ Cardinality(NamedBy(documents, c)) \in Nat
<1>1. IsFiniteSet(1..Len(documents))
  BY FS_Interval
<1>2. NamedBy(documents, c) \subseteq 1..Len(documents)
  BY DEF NamedBy
<1>3. IsFiniteSet(NamedBy(documents, c))
  BY <1>1, <1>2, FS_Subset
<1> QED
  BY <1>3, FS_CardinalityType

LEMMA NoneNamed == \A c : Cardinality(NamedBy(<<>>, c)) = 0
<1>1. \A c : NamedBy(<<>>, c) = {}
  BY DEF NamedBy
<1> QED
  BY <1>1, FS_EmptySet

LEMMA NamedGrows ==
    ASSUME NEW D, NEW documents \in Seq(D), NEW c, NEW d \in D
    PROVE  Cardinality(NamedBy(Append(documents, d), c)) =
               Cardinality(NamedBy(documents, c)) + IF d.candidate = c THEN 1 ELSE 0
<1> DEFINE n == Len(documents) + 1
           more == Append(documents, d)
<1>1. /\ n \notin 1..Len(documents)
      /\ DOMAIN more = 1..n
      /\ more[n] = d
      /\ \A i \in 1..Len(documents) : more[i] = documents[i]
      /\ DOMAIN documents = 1..Len(documents)
      /\ Len(documents) \in Nat
  OBVIOUS
<1>2. n \notin NamedBy(documents, c)
  BY <1>1 DEF NamedBy
<1>3. NamedBy(more, c) = IF d.candidate = c THEN NamedBy(documents, c) \cup {n}
                                           ELSE NamedBy(documents, c)
  <2>1. \A i \in 1..n : i = n \/ i \in 1..Len(documents)
    BY <1>1
  <2> HIDE DEF more, n
  <2>2. \A i : i \in NamedBy(more, c) <=>
               \/ i \in NamedBy(documents, c)
               \/ i = n /\ d.candidate = c
    <3>1. \A i \in 1..Len(documents) : i \in 1..n
      BY <1>1 DEF n
    <3>2. n \in 1..n
      BY <1>1 DEF n
    <3> QED
      BY <1>1, <2>1, <3>1, <3>2 DEF NamedBy
  <2> QED
    BY <2>2
<1>4. IsFiniteSet(NamedBy(documents, c)) /\ Cardinality(NamedBy(documents, c)) \in Nat
  BY NamedIsFinite
<1>5. Cardinality(NamedBy(documents, c) \cup {n}) =
          Cardinality(NamedBy(documents, c)) + 1
  BY <1>2, <1>4, FS_AddElement
<1> HIDE DEF more, n
<1>6. Cardinality(NamedBy(more, c)) =
          Cardinality(NamedBy(documents, c)) + IF d.candidate = c THEN 1 ELSE 0
  BY <1>3, <1>4, <1>5
<1> QED
  BY <1>6 DEF more

LEMMA IdsAreFinite == IsFiniteSet(Ids)
<1>1. PICK f : f = [l \in Leads |-> Candidate[l]]
  OBVIOUS
<1>2. f \in [Leads -> Ids] /\ \A c \in Ids : \E l \in Leads : f[l] = c
  BY <1>1 DEF Ids
<1>3. f \in Surjection(Leads, Ids)
  BY <1>2 DEF Surjection
<1>4. IsFiniteSet(Leads)
  OBVIOUS
<1> QED
  BY <1>3, <1>4, FS_Surjection

(* What the state says of the ledger when nothing was taken in. *)
LEMMA NothingBalances ==
    ASSUME TypeOKRun, LedgerBalances, NothingTakenIn, probe.at # "acquire"
    PROVE  /\ Cardinality(candidates) = 0
           /\ SumFunctionOnSet(observations, Ids) = 0
           /\ \A c \in Ids : observations[c] = 0
<1>1. \A c \in Ids : InHand(c) = 0
  BY DEF InHand, At
<1> QED
  BY <1>1, NoneNamed DEF LedgerBalances, NothingTakenIn

LEMMA InitIInvRun == InitProbe => IInvRun
<1> SUFFICES ASSUME InitProbe PROVE IInvRun
  OBVIOUS
<1>1. PICK source \in ProbeSources : probe = Place("start", source, <<>>, 1, 0)
  BY DEF InitProbe
<1>2. probe \in ProbeType /\ probe.at = "start"
  BY <1>1 DEF Place, ProbeType
<1>3. /\ summary = Summary(0, 0, 0, <<>>, 0, NoRun)
      /\ candidates = {}
      /\ observations = [c \in Ids |-> 0]
  BY DEF InitProbe, Ids
<1>4. TypeOKRun
  BY <1>2, <1>3 DEF TypeOKRun, Summary, Summaries, RunRecords
<1>5. NothingTakenIn
  BY <1>3 DEF NothingTakenIn, Summary
<1>6. LedgerBalances
  <2>1. SumFunctionOnSet(observations, Ids) = 0
    BY <1>3, IdsAreFinite, SumOfZeros
  <2>2. \A c \in Ids : InHand(c) = 0
    BY <1>2 DEF InHand, At
  <2>3. \A c \in Ids : Cardinality(NamedBy(summary.documents, c)) = 0
    BY <1>5, NoneNamed DEF NothingTakenIn
  <2>4. Cardinality(candidates) = 0
    BY <1>3, FS_EmptySet
  <2> QED
    BY <1>3, <1>5, <2>1, <2>2, <2>3, <2>4 DEF LedgerBalances, NothingTakenIn
<1> QED
  BY <1>2, <1>4, <1>5, <1>6 DEF IInvRun, LeadsBalance, RunBalances, At

(* Steps before the listing is there: nothing was or is taken in. *)
LEMMA BeforeLeadsKeepsIInvRun ==
    ASSUME IInvRun, Refuse \/ Start \/ ListingFails PROVE IInvRun'
<1> USE DEF IInvRun
<1>1. /\ UNCHANGED <<summary, candidates, observations>>
      /\ probe.at \in {"start", "listing"}
      /\ probe'.at \in {"refused", "listing"}
      /\ probe' \in ProbeType
  <2>1. probe \in ProbeType
    BY DEF TypeOKRun
  <2>2. CASE Refuse \/ Start
    BY <2>1, <2>2 DEF Refuse, Start, At, ProbeType
  <2>3. CASE ListingFails
    <3>1. probe.attempt + 1 \in Nat /\ probe.at = "listing"
      BY <2>1, <2>3 DEF ListingFails, ProbeType, At
    <3>2. probe' = [probe EXCEPT !.attempt = probe.attempt + 1]
      BY <2>3 DEF ListingFails
    <3> QED
      BY <2>1, <2>3, <3>1, <3>2 DEF ListingFails, ProbeType
  <2> QED
    BY <2>2, <2>3
<1>2. TypeOKRun'
  BY <1>1 DEF TypeOKRun
<1>3. NothingTakenIn'
  BY <1>1 DEF LeadsBalance, NothingTakenIn
<1>4. \A c \in Ids : InHand(c) = 0 /\ InHand(c)' = 0
  BY <1>1 DEF InHand, At
<1>5. LedgerBalances'
  BY <1>1, <1>4 DEF LedgerBalances
<1> QED
  BY <1>1, <1>2, <1>3, <1>5 DEF LeadsBalance, RunBalances, At

(* A run that ends without leads: the summary starts afresh, and so did    *)
(* the ledger.                                                             *)
LEMMA NoLeadsKeepsIInvRun ==
    ASSUME IInvRun, NoActiveQuery \/ DiscoveryFails PROVE IInvRun'
<1> USE DEF IInvRun
<1>1. PICK r \in RunRecords : summary' = Summary(0, 0, 0, <<>>, 1, r)
  <2>1. NoRun \in RunRecords /\ DiscoveryRun(0, 0, 0, 1) \in RunRecords
    BY DEF RunRecords, DiscoveryRun, Coverage
  <2> QED
    BY <2>1 DEF NoActiveQuery, DiscoveryFails, Ends
<1>2. /\ UNCHANGED <<candidates, observations>>
      /\ probe.at \in {"start", "listing"}
      /\ probe' = [probe EXCEPT !.at = "done"]
      /\ exit' = ExitCode(summary')
  BY DEF NoActiveQuery, DiscoveryFails, Ends, At
<1>3. probe' \in ProbeType /\ probe'.at = "done"
  BY <1>2 DEF TypeOKRun, ProbeType
<1>4. TypeOKRun'
  <2>1. Summary(0, 0, 0, <<>>, 1, r) \in Summaries
    BY DEF Summary, Summaries
  <2> QED
    BY <1>1, <1>2, <1>3, <2>1 DEF TypeOKRun
<1>5. NothingTakenIn' /\ summary'.errors = 1
  BY <1>1 DEF NothingTakenIn, Summary
<1>6. /\ Cardinality(candidates) = 0
      /\ SumFunctionOnSet(observations, Ids) = 0
      /\ \A c \in Ids : observations[c] = 0
  BY <1>2, NothingBalances DEF LeadsBalance
<1>7. \A c \in Ids : Cardinality(NamedBy(<<>>, c)) = 0
  BY NoneNamed
<1>8. LedgerBalances'
  <2>1. \A c \in Ids : InHand(c)' = 0
    BY <1>3 DEF InHand, At
  <2> QED
    BY <1>2, <1>5, <1>6, <1>7, <2>1 DEF LedgerBalances, NothingTakenIn
<1>9. exit' = "1"
  BY <1>2, <1>5 DEF ExitCode, NothingTakenIn
<1>10. RunBalances'
  <2>1. DOMAIN observations' = Ids
    BY <1>4 DEF TypeOKRun
  <2>2. \A c \in candidates' : c \in Ids
    BY <1>4 DEF TypeOKRun
  <2> QED
    BY <1>2, <1>5, <1>6, <1>7, <1>9, <2>1, <2>2
    DEF RunBalances, NothingTakenIn, NamedBy
<1> QED
  BY <1>3, <1>4, <1>8, <1>10 DEF LeadsBalance

LEMMA DiscoverKeepsIInvRun ==
    ASSUME IInvRun, NEW listing \in Listings, Discover(listing)
    PROVE  IInvRun'
<1> USE DEF IInvRun
<1>1. listing \in Seq(Leads)
  BY DEF Listings
<1>2. PICK taken \in Nat : /\ taken = MinOf(Len(listing), MAX_DOCS_PER_SOURCE)
                           /\ taken <= Len(listing)
  BY <1>1 DEF MinOf
<1>3. SubSeq(listing, 1, taken) \in Seq(Leads)
  BY <1>1, <1>2
<1>4. /\ probe' = Place("lead", probe.source, SubSeq(listing, 1, taken), 1, 0)
      /\ summary' = [summary EXCEPT !.leads_discovered = Len(probe'.leads)]
      /\ UNCHANGED <<candidates, observations>>
      /\ probe.at = "listing"
  BY <1>2 DEF Discover, At
<1>5. probe' \in ProbeType /\ probe'.at = "lead" /\ probe'.next = 1
  BY <1>3, <1>4 DEF TypeOKRun, ProbeType, Place
<1>6. Len(probe'.leads) \in Nat
  BY <1>5 DEF ProbeType
<1>7. /\ summary' \in Summaries
      /\ summary'.leads_discovered = Len(probe'.leads)
      /\ summary'.documents = <<>> /\ summary'.new = 0 /\ summary'.updated = 0
      /\ summary'.documents = summary.documents
      /\ summary'.new = summary.new /\ summary'.updated = summary.updated
  BY <1>4, <1>6 DEF TypeOKRun, Summaries, LeadsBalance, NothingTakenIn
<1>8. TypeOKRun'
  BY <1>4, <1>5, <1>7 DEF TypeOKRun
<1>9. \A c \in Ids : InHand(c) = 0 /\ InHand(c)' = 0
  BY <1>4, <1>5 DEF InHand, At
<1>10. LedgerBalances'
  BY <1>4, <1>7, <1>9 DEF LedgerBalances
<1>11. Taken' = 0
  BY <1>5 DEF Taken, At
<1>12. LeadsBalance'
  BY <1>5, <1>6, <1>7, <1>11 DEF LeadsBalance
<1> QED
  BY <1>5, <1>8, <1>10, <1>12 DEF RunBalances, At

LEMMA SummaryStays ==
    ASSUME NEW D, NEW R, NEW n \in Nat,
           NEW s \in [leads_discovered : Nat, new : Nat, updated : Nat,
                      documents : D, errors : Nat, run : R]
    PROVE  /\ [s EXCEPT !.new = n] \in
                 [leads_discovered : Nat, new : Nat, updated : Nat,
                  documents : D, errors : Nat, run : R]
           /\ [s EXCEPT !.updated = n] \in
                 [leads_discovered : Nat, new : Nat, updated : Nat,
                  documents : D, errors : Nat, run : R]
  OBVIOUS

LEMMA CountedSummary ==
    ASSUME NEW s \in Summaries, NEW n \in Nat
    PROVE  /\ [s EXCEPT !.new = n] \in Summaries
           /\ [s EXCEPT !.updated = n] \in Summaries
  BY SummaryStays DEF Summaries

LEMMA TakeLeadKeepsIInvRun ==
    ASSUME IInvRun, TakeLead PROVE IInvRun'
<1> USE DEF IInvRun
<1>1. /\ probe' \in ProbeType
      /\ probe'.at = "acquire" /\ probe.at = "lead"
      /\ probe'.next = probe.next
      /\ probe'.leads = probe.leads
      /\ probe.next \in Nat /\ probe.next <= Len(probe.leads)
      /\ Len(probe.leads) \in Nat
  <2>1. probe' = [probe EXCEPT !.at = "acquire", !.attempt = 0]
    BY DEF TakeLead
  <2>2. /\ probe \in ProbeType /\ probe.leads \in Seq(Leads)
        /\ probe.next \in Nat
    BY DEF TypeOKRun, ProbeType
  <2>3. probe' \in ProbeType
    BY <2>1, <2>2 DEF ProbeType
  <2>4. probe'.at = "acquire" /\ probe'.next = probe.next /\ probe'.leads = probe.leads
    BY <2>1, <2>2 DEF ProbeType
  <2> QED
    BY <2>2, <2>3, <2>4 DEF TakeLead, At
<1>2. PICK c : c = Candidate[Lead]
  OBVIOUS
<1>3. c \in Ids /\ c = Candidate[Lead]'
  BY <1>1, <1>2 DEF Lead, Ids, ProbeType, TypeOKRun
<1>4. /\ candidates' = candidates \cup {c}
      /\ observations' = [observations EXCEPT ![c] = observations[c] + 1]
      /\ summary' = IF c \notin candidates
                    THEN [summary EXCEPT !.new = summary.new + 1]
                    ELSE [summary EXCEPT !.updated = summary.updated + 1]
  BY <1>2 DEF TakeLead, IsNewCandidate
<1>5. summary \in Summaries /\ summary.new \in Nat /\ summary.updated \in Nat
  BY DEF TypeOKRun, Summaries
<1>6. /\ summary' \in Summaries
      /\ summary'.documents = summary.documents
      /\ summary'.leads_discovered = summary.leads_discovered
      /\ summary'.new = summary.new + IF c \in candidates THEN 0 ELSE 1
      /\ summary'.updated = summary.updated + IF c \in candidates THEN 1 ELSE 0
  <2>1. CASE c \in candidates
    <3>1. PICK n \in Nat : n = summary.updated + 1
      BY <1>5
    <3>2. summary' = [summary EXCEPT !.updated = n]
      BY <1>4, <2>1, <3>1
    <3>3. summary' \in Summaries
      BY <1>5, <3>2, CountedSummary
    <3>4. /\ summary'.documents = summary.documents
          /\ summary'.leads_discovered = summary.leads_discovered
      BY <1>5, <3>2 DEF Summaries
    <3>5. summary'.new = summary.new + 0 /\ summary'.updated = summary.updated + 1
      BY <1>5, <3>1, <3>2 DEF Summaries
    <3> QED
      BY <1>5, <2>1, <3>3, <3>4, <3>5
  <2>2. CASE c \notin candidates
    <3>1. PICK n \in Nat : n = summary.new + 1
      BY <1>5
    <3>2. summary' = [summary EXCEPT !.new = n]
      BY <1>4, <2>2, <3>1
    <3>3. summary' \in Summaries
      BY <1>5, <3>2, CountedSummary
    <3>4. /\ summary'.documents = summary.documents
          /\ summary'.leads_discovered = summary.leads_discovered
      BY <1>5, <3>2 DEF Summaries
    <3>5. summary'.new = summary.new + 1 /\ summary'.updated = summary.updated + 0
      BY <1>5, <3>1, <3>2 DEF Summaries
    <3> QED
      BY <1>5, <2>2, <3>3, <3>4, <3>5
  <2> QED
    BY <2>1, <2>2
<1>7. TypeOKRun'
  <2>1. candidates' \subseteq Ids
    BY <1>3, <1>4 DEF TypeOKRun
  <2>2. observations' \in [Ids -> Nat]
    BY <1>3, <1>4 DEF TypeOKRun
  <2> QED
    BY <1>1, <1>6, <2>1, <2>2 DEF TypeOKRun
<1>8. summary'.new = Cardinality(candidates')
  <2>1. IsFiniteSet(candidates)
    BY IdsAreFinite, FS_Subset DEF TypeOKRun
  <2>2. Cardinality(candidates') =
            Cardinality(candidates) + IF c \in candidates THEN 0 ELSE 1
    <3>1. Cardinality(candidates) \in Nat
      BY <2>1, FS_CardinalityType
    <3>2. CASE c \in candidates
      <4>1. candidates' = candidates
        BY <1>4, <3>2
      <4> QED
        BY <3>1, <3>2, <4>1
    <3>3. CASE c \notin candidates
      BY <1>4, <2>1, <3>3, FS_AddElement
    <3> QED
      BY <3>2, <3>3
  <2> QED
    BY <1>6, <2>2 DEF LedgerBalances
<1>9. SumFunctionOnSet(observations', Ids) = summary'.new + summary'.updated
  <2>1. NatOn(Ids, observations) /\ NatOn(Ids, observations')
    BY <1>7 DEF TypeOKRun, NatOn
  <2>2. Agree(Ids \ {c}, observations', observations)
    BY <1>4 DEF Agree, TypeOKRun
  <2>3. /\ observations'[c] = observations[c] + 1
        /\ observations[c] \in Nat
    BY <1>3, <1>4 DEF TypeOKRun
  <2>4. SumFunctionOnSet(observations', Ids) =
            SumFunctionOnSet(observations, Ids) - observations[c] + observations'[c]
    <3>1. c \in Ids /\ IsFiniteSet(Ids)
      BY <1>3, IdsAreFinite
    <3>2. PICK f, g : f = observations /\ g = observations'
      OBVIOUS
    <3>3. NatOn(Ids, f) /\ NatOn(Ids, g) /\ Agree(Ids \ {c}, g, f)
      BY <2>1, <2>2, <3>2
    <3>4. SumFunctionOnSet(g, Ids) = SumFunctionOnSet(f, Ids) - f[c] + g[c]
      BY <3>1, <3>3, SumChanged
    <3> QED
      BY <3>2, <3>4
  <2>5. SumFunctionOnSet(observations, Ids) = summary.new + summary.updated
    BY DEF LedgerBalances
  <2> QED
    BY <1>5, <1>6, <2>3, <2>4, <2>5
<1>10. \A d \in Ids : observations'[d] =
           Cardinality(NamedBy(summary'.documents, d)) + InHand(d)'
  <2> SUFFICES ASSUME NEW d \in Ids
               PROVE  observations'[d] =
                   Cardinality(NamedBy(summary'.documents, d)) + InHand(d)'
    OBVIOUS
  <2>1. InHand(d) = 0 /\ InHand(d)' = IF c = d THEN 1 ELSE 0
    BY <1>1, <1>3 DEF InHand, At
  <2>2. /\ observations'[d] = observations[d] + IF c = d THEN 1 ELSE 0
        /\ observations[d] \in Nat
    BY <1>3, <1>4 DEF TypeOKRun
  <2>3. observations[d] = Cardinality(NamedBy(summary.documents, d)) + InHand(d)
    BY DEF LedgerBalances
  <2>4. Cardinality(NamedBy(summary.documents, d)) \in Nat
    BY <1>5, NamedIsFinite DEF Summaries
  <2> QED
    BY <1>6, <2>1, <2>2, <2>3, <2>4
<1>11. LeadsBalance'
  <2>1. Taken = probe.next - 1 /\ Taken' = probe.next
    BY <1>1 DEF Taken, At
  <2>2. summary.new + summary.updated = probe.next - 1
    BY <1>1, <2>1 DEF LeadsBalance
  <2>3. summary'.new + summary'.updated = probe.next
    <3>1. summary'.new + summary'.updated = summary.new + summary.updated + 1
      BY <1>5, <1>6
    <3> QED
      BY <1>1, <1>5, <2>2, <3>1
  <2> QED
    BY <1>1, <1>6, <2>1, <2>3 DEF LeadsBalance
<1> QED
  BY <1>1, <1>7, <1>8, <1>9, <1>10, <1>11 DEF LedgerBalances, RunBalances, At

LEMMA LeadIsDoneKeepsIInvRun ==
    ASSUME IInvRun, At("acquire"), NEW outcome \in Outcomes, LeadIsDone(outcome)
    PROVE  IInvRun'
<1> USE DEF IInvRun
<1>1. /\ probe' \in ProbeType
      /\ probe'.at = "lead" /\ probe.at = "acquire"
      /\ probe'.next = probe.next + 1
      /\ probe'.leads = probe.leads
      /\ probe.next \in Nat /\ Len(probe.leads) \in Nat
  <2>1. probe' = [probe EXCEPT !.at = "lead", !.next = probe.next + 1]
    BY DEF LeadIsDone
  <2>2. /\ probe \in ProbeType /\ probe.next + 1 \in Nat \ {0}
        /\ probe.next \in Nat /\ probe.leads \in Seq(Leads)
    BY DEF TypeOKRun, ProbeType
  <2>3. probe' \in ProbeType
    BY <2>1, <2>2 DEF ProbeType
  <2>4. /\ probe'.at = "lead" /\ probe'.next = probe.next + 1
        /\ probe'.leads = probe.leads
    BY <2>1, <2>2 DEF ProbeType
  <2> QED
    BY <2>2, <2>3, <2>4 DEF At
<1>2. PICK c : c = Candidate[Lead]
  OBVIOUS
<1>3. summary \in Summaries /\ Taken = probe.next /\ Taken <= Len(probe.leads)
  BY <1>1 DEF TypeOKRun, LeadsBalance, Taken, At
<1>4. c \in Ids
  BY <1>1, <1>2, <1>3 DEF Lead, Ids, ProbeType, TypeOKRun
<1>5. PICK D : D = [candidate : Ids, outcome : Outcomes]
  OBVIOUS
<1>6. PICK d : d = [candidate |-> c, outcome |-> outcome]
  OBVIOUS
<1>7. /\ d \in D /\ d.candidate = c
      /\ summary.documents \in Seq(D)
  BY <1>3, <1>4, <1>5, <1>6 DEF Summaries
<1>8. /\ summary' = [summary EXCEPT !.documents = Append(summary.documents, d)]
      /\ UNCHANGED <<candidates, observations>>
  BY <1>2, <1>6 DEF LeadIsDone, Document
<1>9. /\ Append(summary.documents, d) \in Seq(D)
      /\ Len(Append(summary.documents, d)) = Len(summary.documents) + 1
  BY <1>7
<1>10. /\ summary' \in Summaries
       /\ summary'.documents = Append(summary.documents, d)
       /\ summary'.leads_discovered = summary.leads_discovered
       /\ summary'.new = summary.new /\ summary'.updated = summary.updated
  BY <1>3, <1>5, <1>8, <1>9 DEF Summaries
<1>11. TypeOKRun'
  BY <1>1, <1>8, <1>10 DEF TypeOKRun
<1>12. \A e \in Ids : observations'[e] =
           Cardinality(NamedBy(summary'.documents, e)) + InHand(e)'
  <2> SUFFICES ASSUME NEW e \in Ids
               PROVE  observations'[e] =
                   Cardinality(NamedBy(summary'.documents, e)) + InHand(e)'
    OBVIOUS
  <2>1. InHand(e)' = 0 /\ InHand(e) = IF c = e THEN 1 ELSE 0
    BY <1>1, <1>2 DEF InHand, At
  <2>2. Cardinality(NamedBy(summary'.documents, e)) =
            Cardinality(NamedBy(summary.documents, e)) + IF c = e THEN 1 ELSE 0
    BY <1>7, <1>10, NamedGrows
  <2>3. observations[e] = Cardinality(NamedBy(summary.documents, e)) + InHand(e)
    BY DEF LedgerBalances
  <2>4. Cardinality(NamedBy(summary.documents, e)) \in Nat
    BY <1>7, NamedIsFinite
  <2> QED
    BY <1>8, <2>1, <2>2, <2>3, <2>4
<1>13. LedgerBalances'
  BY <1>8, <1>10, <1>12 DEF LedgerBalances
<1>14. LeadsBalance'
  <2>1. Taken' = probe.next
    BY <1>1 DEF Taken, At
  <2>2. Len(summary'.documents) = probe'.next - 1
    <3>1. Len(summary.documents) = probe.next - 1
      BY <1>1 DEF LeadsBalance
    <3> QED
      BY <1>1, <1>9, <1>10, <3>1
  <2> QED
    BY <1>1, <1>3, <1>10, <2>1, <2>2 DEF LeadsBalance
<1> QED
  BY <1>1, <1>11, <1>13, <1>14 DEF RunBalances, At

LEMMA TooManyKeepsIInvRun ==
    ASSUME IInvRun, NEW after, TooMany(after) PROVE IInvRun'
<1> USE DEF IInvRun
<1>1. /\ probe' \in ProbeType
      /\ probe'.at = "acquire" /\ probe.at = "acquire"
      /\ probe'.next = probe.next
      /\ probe'.leads = probe.leads
      /\ UNCHANGED <<candidates, observations, summary>>
  <2>1. probe \in ProbeType /\ probe.at = "acquire"
    BY DEF TooMany, Requests, At, TypeOKRun
  <2>2. probe' = [probe EXCEPT !.attempt = probe.attempt + 1]
    BY DEF TooMany, NextAttempt
  <2>3. probe' \in ProbeType
    BY <2>1, <2>2 DEF ProbeType
  <2>4. probe'.at = probe.at /\ probe'.next = probe.next
        /\ probe'.leads = probe.leads
    BY <2>1, <2>2 DEF ProbeType
  <2> QED
    BY <2>1, <2>3, <2>4 DEF TooMany
<1>2. \A c : InHand(c)' = InHand(c)
  BY <1>1 DEF InHand, At, Lead
<1>3. Taken' = Taken
  BY <1>1 DEF Taken, At
<1> QED
  BY <1>1, <1>2, <1>3
  DEF TypeOKRun, LedgerBalances, LeadsBalance, RunBalances, At, NothingTakenIn

(* All leads are done: what is balanced becomes the summary. *)
LEMMA FinishKeepsIInvRun ==
    ASSUME IInvRun, Finish PROVE IInvRun'
<1> USE DEF IInvRun
<1>1. PICK r : r = DiscoveryRun(Len(probe.leads), summary.new, summary.updated, 0)
  OBVIOUS
<1>2. /\ summary \in Summaries /\ summary.new \in Nat /\ summary.updated \in Nat
      /\ Len(probe.leads) \in Nat /\ probe.next \in Nat /\ probe \in ProbeType
  BY DEF TypeOKRun, Summaries, ProbeType
<1>3. r \in RunRecords /\ r.coverage = "complete"
  BY <1>1, <1>2 DEF RunRecords, DiscoveryRun, Coverage
<1>4. /\ summary' = [summary EXCEPT !.run = r]
      /\ UNCHANGED <<candidates, observations>>
      /\ probe' = [probe EXCEPT !.at = "done"]
      /\ exit' = ExitCode(summary')
      /\ probe.at = "lead" /\ probe.next > Len(probe.leads)
  BY <1>1 DEF Finish, Ends, At
<1>5. /\ summary' \in Summaries
      /\ summary'.documents = summary.documents
      /\ summary'.leads_discovered = summary.leads_discovered
      /\ summary'.new = summary.new /\ summary'.updated = summary.updated
      /\ summary'.run = r
  BY <1>2, <1>3, <1>4 DEF Summaries
<1>6. probe' \in ProbeType /\ probe'.at = "done"
  BY <1>2, <1>4 DEF ProbeType
<1>7. TypeOKRun'
  BY <1>4, <1>5, <1>6 DEF TypeOKRun
<1>8. \A c : InHand(c)' = 0 /\ InHand(c) = 0
  BY <1>4, <1>6 DEF InHand, At
<1>9. LedgerBalances'
  BY <1>4, <1>5, <1>8 DEF LedgerBalances
<1>10. /\ Taken = probe.next - 1
       /\ Taken <= Len(probe.leads)
       /\ Len(summary.documents) = probe.next - 1
       /\ summary.new + summary.updated = Taken
       /\ summary.leads_discovered = Len(probe.leads)
  BY <1>4 DEF Taken, At, LeadsBalance
<1>11. probe.next - 1 = Len(probe.leads)
  BY <1>2, <1>4, <1>10
<1>12. RunBalances'
  <2>1. DOMAIN observations' = Ids
    BY <1>7 DEF TypeOKRun
  <2>2. \A c \in candidates' :
            observations'[c] = Cardinality({i \in DOMAIN summary'.documents :
                                   summary'.documents[i].candidate = c})
    <3> SUFFICES ASSUME NEW c \in candidates'
                 PROVE  observations'[c] =
                     Cardinality({i \in DOMAIN summary'.documents :
                                     summary'.documents[i].candidate = c})
      OBVIOUS
    <3>1. c \in Ids
      BY <1>7 DEF TypeOKRun
    <3>2. observations'[c] = Cardinality(NamedBy(summary'.documents, c)) + 0
      BY <1>8, <1>9, <3>1 DEF LedgerBalances
    <3>3. Cardinality(NamedBy(summary'.documents, c)) \in Nat
      BY <1>5, NamedIsFinite DEF Summaries
    <3> QED
      BY <3>2, <3>3 DEF NamedBy
  <2>3. exit' = "0" => /\ summary'.run.coverage = "complete"
                       /\ \E i \in DOMAIN summary'.documents :
                             summary'.documents[i].outcome = "canonical"
    BY <1>3, <1>4, <1>5 DEF ExitCode
  <2>4. /\ Len(summary'.documents) = summary'.leads_discovered
        /\ summary'.new + summary'.updated = summary'.leads_discovered
    BY <1>5, <1>10, <1>11
  <2>5. summary'.new = Cardinality(candidates')
    BY <1>9 DEF LedgerBalances
  <2>6. SumFunctionOnSet(observations', DOMAIN observations')
            = summary'.leads_discovered
    BY <1>9, <2>1, <2>4 DEF LedgerBalances
  <2> QED
    BY <2>2, <2>3, <2>4, <2>5, <2>6 DEF RunBalances
<1> QED
  BY <1>6, <1>7, <1>9, <1>12 DEF LeadsBalance

LEMMA NextKeepsIInvRun ==
    ASSUME IInvRun, [NextProbe]_probeVars PROVE IInvRun'
<1>1. CASE UNCHANGED probeVars
  BY <1>1 DEF probeVars, IInvRun, TypeOKRun, LedgerBalances, LeadsBalance,
              RunBalances, NothingTakenIn, Taken, InHand, At, Lead
<1>2. "error" \in Outcomes
  BY DEF Outcomes
<1>3. CASE NextProbe
  <2>1. CASE Refuse \/ Start \/ ListingFails
    BY <2>1, BeforeLeadsKeepsIInvRun
  <2>2. CASE NoActiveQuery \/ DiscoveryFails
    BY <2>2, NoLeadsKeepsIInvRun
  <2>3. CASE \E listing \in Listings : Discover(listing)
    BY <2>3, DiscoverKeepsIInvRun
  <2>4. CASE TakeLead
    BY <2>4, TakeLeadKeepsIInvRun
  <2>5. CASE NoClusterId
    BY <2>5, <1>2, LeadIsDoneKeepsIInvRun DEF NoClusterId
  <2>6. CASE \E outcome \in Outcomes : Answered(outcome)
    BY <2>6, LeadIsDoneKeepsIInvRun DEF Answered, Requests
  <2>7. CASE \E code, after : Raises(code, after)
    BY <2>7, <1>2, LeadIsDoneKeepsIInvRun DEF Raises, Requests
  <2>8. CASE \E after \in RetryAfters : TooMany(after)
    BY <2>8, TooManyKeepsIInvRun
  <2>9. CASE Finish
    BY <2>9, FinishKeepsIInvRun
  <2> QED
    BY <1>3, <2>1, <2>2, <2>3, <2>4, <2>5, <2>6, <2>7, <2>8, <2>9 DEF NextProbe
<1> QED
  BY <1>1, <1>3

(* For any listing and any answers of the servers, a run that ended        *)
(* accounts for every lead it discovered, once, in the candidate ledger,   *)
(* the documents and the counts of its summary (run_probe.py, probe).      *)
THEOREM LeadsAreAccountedFor == SpecProbe => []RunBalances
<1>1. InitProbe => IInvRun
  BY InitIInvRun
<1>2. IInvRun /\ [NextProbe]_probeVars => IInvRun'
  BY NextKeepsIInvRun
<1>3. IInvRun => RunBalances
  BY DEF IInvRun
<1> QED
  BY <1>1, <1>2, <1>3, PTL DEF SpecProbe

-----------------------------------------------------------------------------
(* The bound of a run. *)

(* What a lead may cost: to be taken, and CL_429_ATTEMPTS requests. *)
PerLead == CL_429_ATTEMPTS + 1

(* The most steps a run may still take: one for its end, PerLead for each  *)
(* lead that is not taken yet, the attempts left at the lead or at the     *)
(* listing.                                                                *)
MostLeads == MAX_DOCS_PER_SOURCE * PerLead + 1
StepsLeft ==
    CASE At("start")   -> MostLeads + ListingAttempts + 1
      [] At("listing") -> MostLeads + (ListingAttempts - probe.attempt)
      [] At("lead")    -> (Len(probe.leads) + 1 - probe.next) * PerLead + 1
      [] At("acquire") -> (Len(probe.leads) - probe.next) * PerLead + 1
                             + (CL_429_ATTEMPTS - probe.attempt)
      [] OTHER         -> 0

(* What bounds each step: the attempts and the lead at hand are within what *)
(* the settings allow.                                                     *)
IInvBound ==
    /\ probe \in ProbeType
    /\ Len(probe.leads) <= MAX_DOCS_PER_SOURCE
    /\ At("listing") => probe.attempt < ListingAttempts
    /\ At("start") => probe.attempt = 0
    /\ At("lead") => probe.next <= Len(probe.leads) + 1
    /\ At("acquire") => /\ probe.next <= Len(probe.leads)
                        /\ probe.attempt < CL_429_ATTEMPTS

(* run_probe.py: what a run may still do is bounded by its settings, before *)
(* any server has answered.                                                *)
RunIsBounded == StepsLeft \in 0..(MostLeads + ListingAttempts + 1)

(* Every step of a run, a retry too, leaves less to be done.               *)
EachStepCounts == [][StepsLeft' < StepsLeft]_probeVars

LEMMA BoundArithmetic ==
    ASSUME NEW k \in Nat
    PROVE  /\ \A m \in Int : (m + 1) * k = m * k + k
           /\ \A m \in Nat : m * k \in Nat
           /\ \A m, n \in Nat : m <= n => m * k <= n * k
<1>1. \A m \in Int : (m + 1) * k = m * k + k
  OBVIOUS
<1>2. \A m \in Nat : m * k \in Nat
  OBVIOUS
<1>3. ASSUME NEW m \in Nat, NEW n \in Nat, m <= n PROVE m * k <= n * k
  <2>1. PICK d \in Nat : n = m + d
    <3>1. n - m \in Nat /\ n = m + (n - m)
      BY <1>3
    <3> QED
      BY <3>1
  <2>2. n * k = m * k + d * k /\ d * k \in Nat
    BY <2>1
  <2> QED
    BY <2>2
<1> QED
  BY <1>1, <1>2, <1>3

(* What the constants are, for the provers' arithmetic. *)
LEMMA BoundConstants ==
    /\ PerLead \in Nat /\ PerLead = CL_429_ATTEMPTS + 1
    /\ CL_429_ATTEMPTS \in Nat /\ CL_429_ATTEMPTS > 0
    /\ ListingAttempts \in Nat /\ ListingAttempts > 0
    /\ MAX_DOCS_PER_SOURCE \in Nat
    /\ MostLeads \in Nat /\ MostLeads > 0
<1>1. PerLead \in Nat /\ MAX_DOCS_PER_SOURCE \in Nat
  BY DEF PerLead
<1>2. MAX_DOCS_PER_SOURCE * PerLead \in Nat
  BY <1>1, BoundArithmetic
<1> QED
  BY <1>1, <1>2 DEF PerLead, MostLeads

LEMMA PlaceOfProbe ==
    ASSUME probe \in ProbeType
    PROVE  /\ probe.at \in {"start", "refused", "listing", "lead", "acquire",
                             "done"}
           /\ Len(probe.leads) \in Nat /\ probe.next \in Nat /\ probe.next > 0
           /\ probe.attempt \in Nat
  BY DEF ProbeType

(* The measure at each place. *)
LEMMA StepsLeftIs ==
    /\ At("start") => StepsLeft = MostLeads + ListingAttempts + 1
    /\ At("listing") =>
          StepsLeft = MostLeads + (ListingAttempts - probe.attempt)
    /\ At("lead") =>
          StepsLeft = (Len(probe.leads) + 1 - probe.next) * PerLead + 1
    /\ At("acquire") =>
          StepsLeft = (Len(probe.leads) - probe.next) * PerLead + 1
                         + (CL_429_ATTEMPTS - probe.attempt)
    /\ At("done") \/ At("refused") => StepsLeft = 0
  BY DEF StepsLeft, At

LEMMA BoundHolds == IInvBound => RunIsBounded
<1> SUFFICES ASSUME IInvBound PROVE RunIsBounded
  OBVIOUS
<1> USE BoundConstants
<1> PICK p \in Nat, m \in Nat, a \in Nat, l \in Nat, most \in Nat :
       /\ p = PerLead /\ m = MAX_DOCS_PER_SOURCE /\ a = CL_429_ATTEMPTS
       /\ l = ListingAttempts /\ most = MostLeads
       /\ p = a + 1 /\ a > 0 /\ l > 0 /\ most > 0
  OBVIOUS
<1>1. most = m * p + 1 /\ m * p \in Nat
  BY BoundArithmetic DEF MostLeads
<1>2. PICK n \in Nat, x \in Nat, t \in Nat :
         n = Len(probe.leads) /\ x = probe.next /\ t = probe.attempt
         /\ x > 0 /\ n <= m
  BY PlaceOfProbe DEF IInvBound
<1>3. CASE At("start")
  BY <1>3, StepsLeftIs DEF RunIsBounded
<1>4. CASE At("listing")
  <2>1. StepsLeft = most + (l - t) /\ t < l
    BY <1>2, <1>4, StepsLeftIs DEF IInvBound
  <2> QED
    BY <2>1 DEF RunIsBounded
<1>5. CASE At("lead")
  <2>1. PICK y \in Nat : y = n + 1 - x /\ y <= m
    BY <1>2, <1>5 DEF IInvBound
  <2>2. StepsLeft = y * p + 1
    BY <1>2, <1>5, <2>1, StepsLeftIs
  <2>3. y * p <= m * p /\ y * p \in Nat
    BY <2>1, BoundArithmetic
  <2>4. PICK u \in Nat, v \in Nat : u = y * p /\ v = m * p
    BY <1>1, <2>3
  <2> QED
    BY <1>1, <2>2, <2>3, <2>4 DEF RunIsBounded
<1>6. CASE At("acquire")
  <2>1. PICK y \in Nat : y = n - x /\ y + 1 <= m
    BY <1>2, <1>6 DEF IInvBound
  <2>2. StepsLeft = y * p + 1 + (a - t) /\ t < a
    BY <1>2, <1>6, <2>1, StepsLeftIs DEF IInvBound
  <2>3. (y + 1) * p <= m * p /\ y * p \in Nat /\ (y + 1) * p = y * p + p
    BY <2>1, BoundArithmetic
  <2>4. PICK u \in Nat, v \in Nat : u = y * p /\ v = m * p
    BY <1>1, <2>3
  <2>5. u + p <= v
    BY <2>3, <2>4
  <2> QED
    BY <1>1, <2>2, <2>4, <2>5 DEF RunIsBounded
<1>7. CASE At("done") \/ At("refused")
  BY <1>7, StepsLeftIs DEF RunIsBounded
<1> QED
  BY <1>3, <1>4, <1>5, <1>6, <1>7, PlaceOfProbe DEF IInvBound, At

LEMMA StepsLeftBecomes ==
    /\ probe'.at = "listing" =>
          StepsLeft' = MostLeads + (ListingAttempts - probe'.attempt)
    /\ probe'.at = "lead" =>
          StepsLeft' = (Len(probe'.leads) + 1 - probe'.next) * PerLead + 1
    /\ probe'.at = "acquire" =>
          StepsLeft' = (Len(probe'.leads) - probe'.next) * PerLead + 1
                         + (CL_429_ATTEMPTS - probe'.attempt)
    /\ probe'.at \in {"done", "refused"} => StepsLeft' = 0
  BY DEF StepsLeft, At, PerLead, MostLeads

LEMMA EndIsAStep ==
    ASSUME IInvBound, probe.at \in {"start", "listing", "lead"},
           At("lead") => probe.next = Len(probe.leads) + 1,
           NEW place \in {"done", "refused"},
           probe' = [probe EXCEPT !.at = place]
    PROVE  IInvBound' /\ StepsLeft' < StepsLeft
<1>1. probe \in ProbeType /\ Len(probe.leads) <= MAX_DOCS_PER_SOURCE
  BY DEF IInvBound
<1>2. probe' \in ProbeType
  BY <1>1 DEF ProbeType
<1>3. probe'.at = place /\ probe'.leads = probe.leads
  BY <1>1 DEF ProbeType
<1>4. StepsLeft' = 0
  BY <1>3, StepsLeftBecomes
<1>5. StepsLeft > 0
  <2>1. PICK l \in Nat, m \in Nat, t \in Nat, n \in Nat :
           /\ l = ListingAttempts /\ m = MostLeads /\ t = probe.attempt
           /\ n = Len(probe.leads) /\ l > 0 /\ m > 0
    BY <1>1, BoundConstants, PlaceOfProbe
  <2>2. CASE At("start")
    BY <2>1, <2>2, StepsLeftIs
  <2>3. CASE At("listing")
    BY <2>1, <2>3, StepsLeftIs DEF IInvBound
  <2>4. CASE At("lead")
    <3>1. Len(probe.leads) + 1 - probe.next = 0
      BY <2>1, <2>4
    <3>2. 0 * PerLead = 0
      BY BoundConstants
    <3> QED
      BY <2>4, <3>1, <3>2, StepsLeftIs
  <2> QED
    BY <2>2, <2>3, <2>4 DEF At
<1> QED
  BY <1>1, <1>2, <1>3, <1>4, <1>5 DEF IInvBound, At

LEMMA StartIsAStep ==
    ASSUME IInvBound, Start PROVE IInvBound' /\ StepsLeft' < StepsLeft
<1>1. probe \in ProbeType /\ Len(probe.leads) <= MAX_DOCS_PER_SOURCE
      /\ probe.attempt = 0 /\ At("start")
  BY DEF IInvBound, Start
<1>2. probe' = [probe EXCEPT !.at = "listing"]
  BY DEF Start
<1>3. probe' \in ProbeType
  BY <1>1, <1>2 DEF ProbeType
<1>4. probe'.at = "listing" /\ probe'.leads = probe.leads /\ probe'.attempt = 0
  BY <1>1, <1>2 DEF ProbeType
<1>5. PICK l \in Nat, m \in Nat : l = ListingAttempts /\ m = MostLeads /\ l > 0
  BY BoundConstants
<1>6. StepsLeft' = m + (l - 0) /\ StepsLeft = m + l + 1
  BY <1>1, <1>4, <1>5, StepsLeftIs, StepsLeftBecomes
<1> QED
  BY <1>1, <1>3, <1>4, <1>5, <1>6 DEF IInvBound, At

LEMMA ListingFailsIsAStep ==
    ASSUME IInvBound, ListingFails PROVE IInvBound' /\ StepsLeft' < StepsLeft
<1>1. probe \in ProbeType /\ Len(probe.leads) <= MAX_DOCS_PER_SOURCE
      /\ At("listing") /\ probe.attempt < ListingAttempts - 1
  BY DEF IInvBound, ListingFails
<1>2. PICK l \in Nat, m \in Nat, t \in Nat :
         l = ListingAttempts /\ m = MostLeads /\ t = probe.attempt
  BY <1>1, BoundConstants, PlaceOfProbe
<1>3. PICK next \in Nat : probe' = [probe EXCEPT !.attempt = next]
                        /\ next = t + 1
  <2>1. probe' = [probe EXCEPT !.attempt = t + 1]
    BY <1>2 DEF ListingFails
  <2>2. t + 1 \in Nat
    OBVIOUS
  <2> QED
    BY <2>1, <2>2
<1>4. probe' \in ProbeType
  BY <1>1, <1>3 DEF ProbeType
<1>5. probe'.at = "listing" /\ probe'.leads = probe.leads
      /\ probe'.attempt = t + 1
  BY <1>1, <1>3 DEF ProbeType, At
<1>6. StepsLeft' = m + (l - (t + 1)) /\ StepsLeft = m + (l - t)
  BY <1>1, <1>2, <1>5, StepsLeftIs, StepsLeftBecomes
<1>7. t + 1 < l
  BY <1>1, <1>2
<1>8. StepsLeft' < StepsLeft
  BY <1>2, <1>6
<1> QED
  BY <1>1, <1>2, <1>4, <1>5, <1>7, <1>8 DEF IInvBound, At

(* The listing is cut to the leads a run may take. *)
LEMMA ListingIsCut ==
    ASSUME NEW listing \in Listings,
           NEW n, n = MinOf(Len(listing), MAX_DOCS_PER_SOURCE)
    PROVE  /\ n \in Nat /\ n <= MAX_DOCS_PER_SOURCE
           /\ SubSeq(listing, 1, n) \in Seq(Leads)
           /\ Len(SubSeq(listing, 1, n)) = n
<1>1. PICK k \in Nat : listing \in [1..k -> Leads]
  BY DEF Listings
<1>2. listing \in Seq(Leads) /\ Len(listing) = k
  BY <1>1
<1>3. n \in Nat /\ n <= MAX_DOCS_PER_SOURCE /\ n <= k
  BY <1>2, BoundConstants DEF MinOf
<1> QED
  BY <1>2, <1>3

LEMMA DiscoverIsAStep ==
    ASSUME IInvBound, NEW listing \in Listings, Discover(listing)
    PROVE  IInvBound' /\ StepsLeft' < StepsLeft
<1>1. probe \in ProbeType /\ At("listing") /\ probe.attempt < ListingAttempts
  BY DEF IInvBound, Discover
<1>2. PICK n : n = MinOf(Len(listing), MAX_DOCS_PER_SOURCE)
  OBVIOUS
<1>3. PICK s \in Seq(Leads) : s = SubSeq(listing, 1, n) /\ Len(s) = n
  BY <1>2, ListingIsCut
<1>4. n \in Nat /\ n <= MAX_DOCS_PER_SOURCE
  BY <1>2, ListingIsCut
<1>5. probe' = Place("lead", probe.source, s, 1, 0)
  BY <1>2, <1>3 DEF Discover
<1>6. probe.source \in ProbeSources
  BY <1>1 DEF ProbeType
<1>7. probe' \in ProbeType
  BY <1>3, <1>5, <1>6 DEF ProbeType, Place
<1>8. probe'.at = "lead" /\ probe'.leads = s /\ probe'.next = 1
  BY <1>5 DEF Place
<1>9. StepsLeft' < StepsLeft
  <2>1. PICK l \in Nat, m \in Nat, t \in Nat, p \in Nat :
           /\ l = ListingAttempts /\ m = MAX_DOCS_PER_SOURCE
           /\ t = probe.attempt /\ p = PerLead
    BY <1>1, BoundConstants, PlaceOfProbe
  <2>2. n + 1 - 1 = n
    BY <1>4
  <2>3. StepsLeft' = n * p + 1
    BY <1>3, <1>8, <2>1, <2>2, StepsLeftBecomes
  <2>4. StepsLeft = m * p + 1 + (l - t) /\ t < l
    BY <1>1, <2>1, StepsLeftIs DEF MostLeads
  <2>5. n * p <= m * p /\ n * p \in Nat /\ m * p \in Nat
    BY <1>4, <2>1, BoundArithmetic
  <2>6. PICK u, v : u = n * p /\ v = m * p
    OBVIOUS
  <2>7. u \in Nat /\ v \in Nat /\ u <= v
    BY <2>5, <2>6
  <2>8. StepsLeft' = u + 1 /\ StepsLeft = v + 1 + (l - t)
    BY <2>3, <2>4, <2>6
  <2>9. t < l /\ t \in Nat /\ l \in Nat
    BY <2>1, <2>4
  <2> QED
    BY <2>7, <2>8, <2>9
<1> QED
  BY <1>3, <1>4, <1>7, <1>8, <1>9 DEF IInvBound, At

LEMMA TakeLeadIsAStep ==
    ASSUME IInvBound, TakeLead PROVE IInvBound' /\ StepsLeft' < StepsLeft
<1>1. probe \in ProbeType /\ Len(probe.leads) <= MAX_DOCS_PER_SOURCE
      /\ At("lead") /\ probe.next <= Len(probe.leads)
  BY DEF IInvBound, TakeLead
<1>2. probe' = [probe EXCEPT !.at = "acquire", !.attempt = 0]
  BY DEF TakeLead
<1>3. probe' \in ProbeType
  BY <1>1, <1>2 DEF ProbeType
<1>4. probe'.at = "acquire" /\ probe'.attempt = 0
      /\ probe'.leads = probe.leads /\ probe'.next = probe.next
  BY <1>1, <1>2 DEF ProbeType
<1>5. PICK a \in Nat, p \in Nat : a = CL_429_ATTEMPTS /\ p = PerLead
                                 /\ p = a + 1 /\ a > 0
  BY BoundConstants
<1>6. PICK y \in Nat : y = Len(probe.leads) - probe.next
                     /\ y + 1 = Len(probe.leads) + 1 - probe.next
  <2>1. PICK n \in Nat, x \in Nat :
           n = Len(probe.leads) /\ x = probe.next /\ x <= n
    BY <1>1, PlaceOfProbe
  <2>2. n - x \in Nat /\ (n - x) + 1 = n + 1 - x
    BY <2>1
  <2> QED
    BY <2>1, <2>2
<1>7. StepsLeft' = y * p + 1 + (a - 0)
  BY <1>4, <1>5, <1>6, StepsLeftBecomes
<1>8. StepsLeft = (y + 1) * p + 1
  BY <1>1, <1>5, <1>6, StepsLeftIs
<1>9. PICK u \in Nat : u = y * p
  BY BoundArithmetic
<1>10. (y + 1) * p = u + p
  BY <1>9, BoundArithmetic
<1>11. StepsLeft' < StepsLeft
  <2>1. StepsLeft' = u + 1 + (a - 0) /\ StepsLeft = u + p + 1
    BY <1>7, <1>8, <1>9, <1>10
  <2> QED
    BY <1>5, <2>1
<1> QED
  BY <1>1, <1>3, <1>4, <1>5, <1>11 DEF IInvBound, At

LEMMA LeadIsDoneIsAStep ==
    ASSUME IInvBound, At("acquire"), NEW outcome, LeadIsDone(outcome)
    PROVE  IInvBound' /\ StepsLeft' < StepsLeft
<1>1. probe \in ProbeType /\ Len(probe.leads) <= MAX_DOCS_PER_SOURCE
      /\ probe.next <= Len(probe.leads) /\ probe.attempt < CL_429_ATTEMPTS
  BY DEF IInvBound
<1>2. PICK n \in Nat, x \in Nat, t \in Nat :
         n = Len(probe.leads) /\ x = probe.next /\ t = probe.attempt /\ x > 0
  BY <1>1, PlaceOfProbe
<1>3. probe' = [probe EXCEPT !.at = "lead", !.next = x + 1]
      /\ x + 1 \in Nat \ {0}
  BY <1>2 DEF LeadIsDone
<1>4. probe' \in ProbeType
  BY <1>1, <1>3 DEF ProbeType
<1>5. probe'.at = "lead" /\ probe'.leads = probe.leads /\ probe'.next = x + 1
  BY <1>1, <1>3 DEF ProbeType
<1>6. PICK a \in Nat, p \in Nat : a = CL_429_ATTEMPTS /\ p = PerLead
  BY BoundConstants
<1>7. PICK y \in Nat : y = n - x /\ y = n + 1 - (x + 1) /\ x <= n
  BY <1>1, <1>2
<1>8. StepsLeft' = y * p + 1
  BY <1>2, <1>5, <1>6, <1>7, StepsLeftBecomes
<1>9. StepsLeft = y * p + 1 + (a - t) /\ t < a
  BY <1>1, <1>2, <1>6, <1>7, StepsLeftIs
<1>10. PICK u \in Nat : u = y * p
  BY BoundArithmetic
<1>11. StepsLeft' < StepsLeft
  <2>1. StepsLeft' = u + 1 /\ StepsLeft = u + 1 + (a - t)
    BY <1>8, <1>9, <1>10
  <2>2. t < a
    BY <1>9
  <2> QED
    BY <2>1, <2>2
<1>12. probe'.next <= Len(probe'.leads) + 1
       /\ Len(probe'.leads) <= MAX_DOCS_PER_SOURCE
  <2>1. Len(probe'.leads) = n /\ probe'.next = x + 1
    BY <1>2, <1>5
  <2>2. x + 1 <= n + 1
    BY <1>7
  <2> QED
    BY <1>1, <1>2, <2>1, <2>2
<1> QED
  BY <1>4, <1>5, <1>11, <1>12 DEF IInvBound, At

LEMMA TooManyIsAStep ==
    ASSUME IInvBound, NEW after, TooMany(after)
    PROVE  IInvBound' /\ StepsLeft' < StepsLeft
<1>1. probe \in ProbeType /\ Len(probe.leads) <= MAX_DOCS_PER_SOURCE
      /\ At("acquire") /\ probe.next <= Len(probe.leads)
      /\ probe.attempt < CL_429_ATTEMPTS - 1
  BY DEF IInvBound, TooMany, Requests
<1>2. PICK t \in Nat, a \in Nat, p \in Nat :
         t = probe.attempt /\ a = CL_429_ATTEMPTS /\ p = PerLead
  BY <1>1, BoundConstants, PlaceOfProbe
<1>3. PICK next \in Nat : probe' = [probe EXCEPT !.attempt = next]
                        /\ next = t + 1
  <2>1. probe' = [probe EXCEPT !.attempt = t + 1]
    BY <1>2 DEF TooMany, NextAttempt
  <2>2. t + 1 \in Nat
    OBVIOUS
  <2> QED
    BY <2>1, <2>2
<1>4. probe' \in ProbeType
  BY <1>1, <1>3 DEF ProbeType
<1>5. probe'.at = "acquire" /\ probe'.leads = probe.leads
      /\ probe'.next = probe.next /\ probe'.attempt = t + 1
  BY <1>1, <1>3 DEF ProbeType, At
<1>6. PICK y \in Nat : y = Len(probe.leads) - probe.next
  BY <1>1, PlaceOfProbe
<1>7. PICK u \in Nat : u = y * p
  BY <1>2, <1>6, BoundArithmetic
<1>8. StepsLeft' = u + 1 + (a - (t + 1)) /\ StepsLeft = u + 1 + (a - t)
  BY <1>1, <1>2, <1>5, <1>6, <1>7, StepsLeftIs, StepsLeftBecomes
<1>9. t + 1 < a
  BY <1>1, <1>2
<1>10. StepsLeft' < StepsLeft
  BY <1>2, <1>7, <1>8
<1> QED
  BY <1>1, <1>2, <1>4, <1>5, <1>9, <1>10 DEF IInvBound, At

LEMMA EveryStepCounts ==
    ASSUME IInvBound, NextProbe PROVE IInvBound' /\ StepsLeft' < StepsLeft
<1>1. CASE Refuse
  BY <1>1, EndIsAStep DEF Refuse, At
<1>2. CASE NoActiveQuery
  BY <1>2, EndIsAStep DEF NoActiveQuery, Ends, At
<1>3. CASE Start
  BY <1>3, StartIsAStep
<1>4. CASE ListingFails
  BY <1>4, ListingFailsIsAStep
<1>5. CASE DiscoveryFails
  BY <1>5, EndIsAStep DEF DiscoveryFails, Ends, At
<1>6. CASE \E listing \in Listings : Discover(listing)
  BY <1>6, DiscoverIsAStep
<1>7. CASE TakeLead
  BY <1>7, TakeLeadIsAStep
<1>8. CASE NoClusterId
  BY <1>8, LeadIsDoneIsAStep DEF NoClusterId
<1>9. CASE \E outcome \in Outcomes : Answered(outcome)
  BY <1>9, LeadIsDoneIsAStep DEF Answered, Requests
<1>10. CASE Raises(500, NoHeader)
  BY <1>10, LeadIsDoneIsAStep DEF Raises, Requests
<1>11. CASE \E after \in RetryAfters : Raises(429, after)
  BY <1>11, LeadIsDoneIsAStep DEF Raises, Requests
<1>12. CASE \E after \in RetryAfters : TooMany(after)
  BY <1>12, TooManyIsAStep
<1>13. CASE Finish
  <2>1. probe.next = Len(probe.leads) + 1
    <3>1. probe.next > Len(probe.leads) /\ probe.next <= Len(probe.leads) + 1
          /\ probe \in ProbeType
      BY <1>13 DEF Finish, IInvBound
    <3> QED
      BY <3>1, PlaceOfProbe
  <2> QED
    BY <1>13, <2>1, EndIsAStep DEF Finish, Ends, At
<1> QED
  BY <1>1, <1>2, <1>3, <1>4, <1>5, <1>6, <1>7, <1>8, <1>9, <1>10, <1>11,
     <1>12, <1>13 DEF NextProbe

LEMMA InitIInvBound == InitProbe => IInvBound
<1> SUFFICES ASSUME InitProbe PROVE IInvBound
  OBVIOUS
<1>1. PICK source \in ProbeSources : probe = Place("start", source, <<>>, 1, 0)
  BY DEF InitProbe
<1>2. probe \in ProbeType /\ probe.at = "start" /\ probe.attempt = 0
      /\ probe.leads = <<>>
  BY <1>1 DEF Place, ProbeType
<1> QED
  BY <1>2, BoundConstants DEF IInvBound, At

(* run_probe.py: a run is over after a number of steps that its settings   *)
(* give in advance, whatever the servers answer and however often they     *)
(* fail: every attempt, every lead and the end use up one of the steps     *)
(* that are left, and none ever adds to them.                              *)
THEOREM EveryRunIsBounded == SpecProbe => []RunIsBounded /\ EachStepCounts
<1>1. IInvBound /\ [NextProbe]_probeVars => IInvBound'
  <2> SUFFICES ASSUME IInvBound, [NextProbe]_probeVars PROVE IInvBound'
    OBVIOUS
  <2>1. CASE NextProbe
    BY <2>1, EveryStepCounts
  <2>2. CASE UNCHANGED probeVars
    BY <2>2 DEF probeVars, IInvBound, At
  <2> QED
    BY <2>1, <2>2
<1>2. IInvBound /\ [NextProbe]_probeVars => [StepsLeft' < StepsLeft]_probeVars
  BY EveryStepCounts
<1> QED
  BY InitIInvBound, <1>1, <1>2, BoundHolds, PTL DEF SpecProbe, EachStepCounts

HIDE LiveProbeAssumption

-----------------------------------------------------------------------------
(* The budget. *)

(* Why it holds, when one call of the ledger ends before the next starts:  *)
(* the file covers what every run used, the commitment of the file and of  *)
(* the call that is open keep the ceiling, and a call writes on top of     *)
(* what it read.                                                           *)
Limit == IF ceiling = Unset THEN 0 ELSE ceiling

Entries == [reserved : Nat, reconciled : BOOLEAN, observed : Nat]

TypeOKBudget ==
    /\ ceiling \in Nat \cup {Unset}
    /\ entries \in [Runs -> Entries]
    /\ entered \subseteq Runs
    /\ call \in [Runs -> [op : {"none", "reserve", "reconcile"},
                           worst_case_cost : Nat, read : [Runs -> Entries]]]
    /\ used \in [Runs -> Nat]

OneCallIsOpen == \A r, s \in Runs : call[r] # NoCall /\ call[s] # NoCall => r = s

CallsAreFresh ==
    \A r \in Runs :
        /\ call[r].op = "none" => call[r] = NoCall
        /\ call[r].op # "none" => call[r].read = entries
        /\ call[r].op = "reserve" =>
               r \notin entered /\ Committed + call[r].worst_case_cost <= Limit
        /\ call[r].op = "reconcile" => r \in entered /\ ~entries[r].reconciled

EntriesCoverUse ==
    \A r \in Runs : /\ used[r] <= Cost(entries[r])
                    /\ r \notin entered => entries[r] = NoEntry

IInvBudget == /\ TypeOKBudget
              /\ OneCallIsOpen
              /\ CallsAreFresh
              /\ EntriesCoverUse
              /\ Committed <= Limit

Costs(file) == [r \in Runs |-> Cost(file[r])]

(* The commitment is the total of the costs; one entry that changes        *)
(* changes it by the difference.                                           *)
LEMMA CommittedIsTotal ==
    ASSUME BudgetAssumption, TypeOKBudget
    PROVE  /\ Committed = SumFunctionOnSet(Costs(entries), Runs)
           /\ Committed \in Nat
           /\ \A r \in Runs : Cost(entries[r]) \in Nat
           /\ Limit \in Nat
<1>1. \A r \in Runs : Cost(entries[r]) \in Nat
  BY DEF TypeOKBudget, Entries, Cost
<1>2. NatOn(Runs, Costs(entries))
  BY <1>1 DEF Costs, NatOn
<1>3. IsFiniteSet(Runs)
  BY DEF BudgetAssumption
<1>4. SumFunctionOnSet(Costs(entries), Runs) \in Nat
  BY <1>2, <1>3, SumFacts
<1>5. Committed = SumFunctionOnSet(Costs(entries), Runs)
  BY DEF Committed, Costs
<1>6. Limit \in Nat
  BY DEF TypeOKBudget, Limit, BudgetAssumption
<1> QED
  BY <1>1, <1>4, <1>5, <1>6

LEMMA CommittedChanges ==
    ASSUME BudgetAssumption, TypeOKBudget, NEW run \in Runs, NEW e \in Entries,
           entries' = [entries EXCEPT ![run] = e]
    PROVE  Committed' = Committed - Cost(entries[run]) + Cost(e)
<1>1. Committed = SumFunctionOnSet(Costs(entries), Runs)
  BY CommittedIsTotal
<1>2. Committed' = SumFunctionOnSet(Costs(entries'), Runs)
  BY DEF Committed, Costs
<1>3. NatOn(Runs, Costs(entries))
  BY CommittedIsTotal DEF Costs, NatOn
<1>4. entries'[run] = e /\ \A r \in Runs \ {run} : entries'[r] = entries[r]
  BY DEF TypeOKBudget
<1>5. Cost(e) \in Nat
  BY DEF Entries, Cost
<1>6. Agree(Runs \ {run}, Costs(entries'), Costs(entries))
  BY <1>4 DEF Costs, Agree
<1>7. Costs(entries')[run] = Cost(e) /\ Costs(entries)[run] = Cost(entries[run])
  BY <1>4 DEF Costs
<1>8. NatOn(Runs, Costs(entries'))
  BY <1>3, <1>5, <1>6, <1>7 DEF NatOn, Agree
<1>9. IsFiniteSet(Runs)
  BY DEF BudgetAssumption
<1>10. SumFunctionOnSet(Costs(entries'), Runs) =
           SumFunctionOnSet(Costs(entries), Runs)
               - Costs(entries)[run] + Costs(entries')[run]
  BY <1>3, <1>6, <1>8, <1>9, SumChanged
<1> QED
  BY <1>1, <1>2, <1>7, <1>10

LEMMA InitIInvBudget ==
    ASSUME BudgetAssumption, InitBudget PROVE IInvBudget
<1> USE DEF InitBudget
<1>1. NoEntry \in Entries
  BY DEF NoEntry, Entries
<1>2. TypeOKBudget
  BY <1>1 DEF TypeOKBudget, NoCall, BudgetAssumption
<1>3. \A r \in Runs : Cost(entries[r]) = 0
  BY DEF NoEntry, Cost
<1>4. Committed = 0
  <2>1. \A r \in Runs : Costs(entries)[r] = 0
    BY <1>3 DEF Costs
  <2>2. IsFiniteSet(Runs)
    BY DEF BudgetAssumption
  <2>3. SumFunctionOnSet(Costs(entries), Runs) = 0
    BY <2>1, <2>2, SumOfZeros
  <2> QED
    BY <1>2, <2>3, CommittedIsTotal
<1>5. Committed <= Limit
  BY <1>2, <1>4, CommittedIsTotal
<1>6. OneCallIsOpen
  BY DEF OneCallIsOpen
<1>7. CallsAreFresh
  BY DEF CallsAreFresh, NoCall
<1>8. EntriesCoverUse
  BY <1>3 DEF EntriesCoverUse
<1> QED
  BY <1>2, <1>5, <1>6, <1>7, <1>8 DEF IInvBudget

(* While the file stays, so does what it commits and covers. *)
LEMMA FileStays ==
    ASSUME UNCHANGED <<ceiling, entries>>
    PROVE  Committed' = Committed /\ Limit' = Limit
  BY DEF Committed, Limit

(* A call that opens read the file; no other is open. *)
LEMMA CallOpens ==
    ASSUME IInvBudget, NEW run \in Runs, \A r \in Runs : call[r] = NoCall,
           NEW c, call' = [call EXCEPT ![run] = c], c.read = entries,
           UNCHANGED <<ceiling, entries, entered, used>>,
           c.op \in {"reserve", "reconcile"},
           c.op = "reserve" =>
               run \notin entered /\ Committed + c.worst_case_cost <= Limit,
           c.op = "reconcile" => run \in entered /\ ~entries[run].reconciled
    PROVE  OneCallIsOpen' /\ CallsAreFresh'
<1>1. call'[run] = c /\ \A r \in Runs \ {run} : call'[r] = NoCall
  BY DEF IInvBudget, TypeOKBudget
<1>2. OneCallIsOpen'
  BY <1>1 DEF OneCallIsOpen
<1>3. Committed' = Committed /\ Limit' = Limit
  BY FileStays
<1>4. NoCall.op = "none"
  BY DEF NoCall
<1>5. CallsAreFresh'
  <2> SUFFICES ASSUME NEW r \in Runs
               PROVE  /\ call'[r].op = "none" => call'[r] = NoCall
                      /\ call'[r].op # "none" => call'[r].read = entries'
                      /\ call'[r].op = "reserve" =>
                            /\ r \notin entered'
                            /\ Committed' + call'[r].worst_case_cost <= Limit'
                      /\ call'[r].op = "reconcile" =>
                            r \in entered' /\ ~entries'[r].reconciled
    BY DEF CallsAreFresh
  <2>1. CASE r = run
    BY <2>1, <1>1, <1>3
  <2>2. CASE r # run
    BY <2>2, <1>1, <1>4
  <2> QED
    BY <2>1, <2>2
<1> QED
  BY <1>2, <1>5

(* When the only open call closes, none is open. *)
LEMMA CallCloses ==
    ASSUME IInvBudget, NEW run \in Runs, call[run].op # "none",
           call' = [call EXCEPT ![run] = NoCall]
    PROVE  OneCallIsOpen' /\ CallsAreFresh'
<1>1. call[run] # NoCall
  BY DEF NoCall
<1>2. \A r \in Runs : call'[r] = NoCall
  BY <1>1 DEF IInvBudget, TypeOKBudget, OneCallIsOpen
<1>3. NoCall.op = "none"
  BY DEF NoCall
<1> QED
  BY <1>2, <1>3 DEF OneCallIsOpen, CallsAreFresh

LEMMA StepIInvBudget ==
    ASSUME BudgetAssumption, OneProcess, IInvBudget, [NextBudget]_budgetVars
    PROVE  IInvBudget'
<1> USE DEF IInvBudget
<1>0. \A r \in Runs : Cost(entries[r]) \in Nat
  BY CommittedIsTotal
<1>1. ASSUME NEW run \in Runs, NEW cost \in 1..MaxCost, ReserveRead(run, cost)
      PROVE  IInvBudget'
  <2> USE DEF ReserveRead
  <2>1. \A r \in Runs : call[r] = NoCall
    BY <1>1 DEF Free
  <2>2. cost \in Nat
    BY DEF BudgetAssumption
  <2>3. PICK c : c = [op |-> "reserve", read |-> entries,
                      worst_case_cost |-> cost]
    OBVIOUS
  <2>4. /\ call' = [call EXCEPT ![run] = c]
        /\ UNCHANGED <<ceiling, entries, entered, used>>
    BY <1>1, <2>3
  <2>5. TypeOKBudget'
    <3>1. c \in [op : {"none", "reserve", "reconcile"},
                 worst_case_cost : Nat, read : [Runs -> Entries]]
      BY <2>2, <2>3 DEF TypeOKBudget
    <3> QED
      BY <2>4, <3>1 DEF TypeOKBudget
  <2>6. run \notin entered /\ Committed + c.worst_case_cost <= Limit
    BY <1>1, <2>3 DEF Limit
  <2>7. c.op = "reserve" /\ c.read = entries
    BY <2>3
  <2>8. OneCallIsOpen' /\ CallsAreFresh'
    BY <2>1, <2>4, <2>6, <2>7, CallOpens
  <2> QED
    BY <2>4, <2>5, <2>8, FileStays DEF EntriesCoverUse
<1>2. ASSUME NEW run \in Runs, ReserveAppend(run) PROVE IInvBudget'
  <2> USE DEF ReserveAppend
  <2>1. call[run].op # "none"
    BY <1>2
  <2>2. OneCallIsOpen' /\ CallsAreFresh'
    BY <1>2, <2>1, CallCloses
  <2>3. PICK cost \in Nat : cost = call[run].worst_case_cost
    BY DEF TypeOKBudget
  <2>4. PICK e : e = [reserved |-> cost, reconciled |-> FALSE, observed |-> 0]
    OBVIOUS
  <2>5. e \in Entries /\ Cost(e) = cost
    BY <2>4 DEF Entries, Cost
  <2>6. /\ entries' = [entries EXCEPT ![run] = e]
        /\ entered' = entered \cup {run}
        /\ UNCHANGED <<ceiling, used>>
        /\ call' = [call EXCEPT ![run] = NoCall]
    BY <1>2, <2>3, <2>4
  <2>7. run \notin entered /\ Committed + cost <= Limit
    BY <1>2, <2>3 DEF CallsAreFresh
  <2>8. entries[run] = NoEntry /\ Cost(entries[run]) = 0
    BY <2>7 DEF EntriesCoverUse, NoEntry, Cost
  <2>9. TypeOKBudget'
    <3>1. NoCall \in [op : {"none", "reserve", "reconcile"},
                      worst_case_cost : Nat, read : [Runs -> Entries]]
      BY DEF NoCall, NoEntry, Entries
    <3> QED
      BY <2>5, <2>6, <3>1 DEF TypeOKBudget
  <2>10. Committed' = Committed + cost
    <3>1. Committed' = Committed - Cost(entries[run]) + Cost(e)
      BY <2>5, <2>6, CommittedChanges
    <3>2. Committed \in Nat
      BY CommittedIsTotal
    <3> QED
      BY <2>5, <2>8, <3>1, <3>2
  <2>11. Committed' <= Limit'
    BY <2>6, <2>7, <2>10 DEF Limit
  <2>12. EntriesCoverUse'
    <3> SUFFICES ASSUME NEW r \in Runs
                 PROVE  /\ used'[r] <= Cost(entries'[r])
                        /\ r \notin entered' => entries'[r] = NoEntry
      BY DEF EntriesCoverUse
    <3>1. CASE r = run
      <4>1. used[run] <= 0 /\ used[run] \in Nat
        BY <2>8 DEF EntriesCoverUse, TypeOKBudget
      <4>2. entries'[run] = e
        BY <2>6 DEF TypeOKBudget
      <4> QED
        BY <3>1, <4>1, <4>2, <2>5, <2>6
    <3>2. CASE r # run
      BY <3>2, <2>6 DEF EntriesCoverUse, TypeOKBudget
    <3> QED
      BY <3>1, <3>2
  <2> QED
    BY <2>2, <2>9, <2>11, <2>12
<1>3. ASSUME NEW run \in Runs, Use(run) PROVE IInvBudget'
  <2> USE DEF Use
  <2>1. UNCHANGED <<ceiling, entries, entered, call>>
    BY <1>3
  <2>2. used' = [used EXCEPT ![run] = used[run] + 1]
    BY <1>3
  <2>3. TypeOKBudget'
    BY <2>1, <2>2 DEF TypeOKBudget
  <2>4. used[run] + 1 <= Cost(entries[run])
    BY <1>3 DEF Cost, TypeOKBudget, Entries
  <2>5. EntriesCoverUse'
    BY <2>1, <2>2, <2>4 DEF EntriesCoverUse, TypeOKBudget
  <2>6. OneCallIsOpen' /\ CallsAreFresh'
    BY <2>1, FileStays DEF OneCallIsOpen, CallsAreFresh
  <2> QED
    BY <2>1, <2>3, <2>5, <2>6, FileStays
<1>4. ASSUME NEW run \in Runs, ReconcileRead(run) PROVE IInvBudget'
  <2> USE DEF ReconcileRead
  <2>1. \A r \in Runs : call[r] = NoCall
    BY <1>4 DEF Free
  <2>2. PICK c : c = [op |-> "reconcile", read |-> entries,
                      worst_case_cost |-> 0]
    OBVIOUS
  <2>3. /\ call' = [call EXCEPT ![run] = c]
        /\ UNCHANGED <<ceiling, entries, entered, used>>
    BY <1>4, <2>2
  <2>4. TypeOKBudget'
    <3>1. c \in [op : {"none", "reserve", "reconcile"},
                 worst_case_cost : Nat, read : [Runs -> Entries]]
      BY <2>2 DEF TypeOKBudget
    <3> QED
      BY <2>3, <3>1 DEF TypeOKBudget
  <2>5. run \in entered /\ ~entries[run].reconciled
    BY <1>4
  <2>6. c.op = "reconcile" /\ c.read = entries
    BY <2>2
  <2>7. OneCallIsOpen' /\ CallsAreFresh'
    BY <2>1, <2>3, <2>5, <2>6, CallOpens
  <2> QED
    BY <2>3, <2>4, <2>7, FileStays DEF EntriesCoverUse
<1>5. ASSUME NEW run \in Runs, ReconcileWrite(run) PROVE IInvBudget'
  <2> USE DEF ReconcileWrite
  <2>1. call[run].op # "none" /\ call[run].read = entries
    BY <1>5 DEF CallsAreFresh
  <2>2. OneCallIsOpen' /\ CallsAreFresh'
    BY <1>5, <2>1, CallCloses
  <2>3. run \in entered /\ ~entries[run].reconciled
    BY <1>5 DEF CallsAreFresh
  <2>4. PICK e : e = [reserved |-> entries[run].reserved,
                      reconciled |-> TRUE, observed |-> used[run]]
    OBVIOUS
  <2>5. e \in Entries /\ Cost(e) = used[run]
    BY <2>4 DEF Entries, Cost, TypeOKBudget
  <2>6. /\ entries' = [entries EXCEPT ![run] = e]
        /\ entered' = {r \in entered : entries'[r] # NoEntry}
        /\ UNCHANGED <<ceiling, used>>
        /\ call' = [call EXCEPT ![run] = NoCall]
    BY <1>5, <2>1, <2>4
  <2>7. TypeOKBudget'
    <3>1. NoCall \in [op : {"none", "reserve", "reconcile"},
                      worst_case_cost : Nat, read : [Runs -> Entries]]
      BY DEF NoCall, NoEntry, Entries
    <3> QED
      BY <2>5, <2>6, <3>1 DEF TypeOKBudget
  <2>8. /\ used[run] \in Nat /\ used[run] <= Cost(entries[run])
        /\ Cost(entries[run]) \in Nat
    BY <1>0 DEF EntriesCoverUse, TypeOKBudget
  <2>9. Committed' = Committed - Cost(entries[run]) + used[run]
    BY <2>5, <2>6, CommittedChanges
  <2>10. Committed' <= Limit'
    <3>1. Committed \in Nat /\ Limit \in Nat /\ Limit' = Limit
      BY <2>6, CommittedIsTotal DEF Limit
    <3> QED
      BY <2>8, <2>9, <3>1
  <2>11. EntriesCoverUse'
    <3> SUFFICES ASSUME NEW r \in Runs
                 PROVE  /\ used'[r] <= Cost(entries'[r])
                        /\ r \notin entered' => entries'[r] = NoEntry
      BY DEF EntriesCoverUse
    <3>1. CASE r = run
      <4>1. entries'[run] = e
        BY <2>6 DEF TypeOKBudget
      <4> QED
        BY <3>1, <4>1, <2>3, <2>5, <2>6, <2>8
    <3>2. CASE r # run
      <4>1. entries'[r] = entries[r] /\ used'[r] = used[r]
        BY <3>2, <2>6 DEF TypeOKBudget
      <4> QED
        BY <4>1, <2>6 DEF EntriesCoverUse
    <3> QED
      BY <3>1, <3>2
  <2> QED
    BY <2>2, <2>7, <2>10, <2>11
<1>6. CASE UNCHANGED budgetVars
  <2>1. UNCHANGED <<ceiling, entries, entered, call, used>>
    BY <1>6 DEF budgetVars
  <2> QED
    BY <2>1, FileStays DEF TypeOKBudget, OneCallIsOpen, CallsAreFresh,
                           EntriesCoverUse
<1> QED
  BY <1>1, <1>2, <1>3, <1>4, <1>5, <1>6 DEF NextBudget

(* What was used is covered by what is committed, entry by entry. *)
LEMMA CoveredSpend ==
    ASSUME BudgetAssumption, IInvBudget PROVE SpendWithinCeiling
<1>1. /\ NatOn(Runs, used) /\ NatOn(Runs, Costs(entries))
      /\ AtMost(Runs, used, Costs(entries))
  BY CommittedIsTotal DEF IInvBudget, TypeOKBudget, EntriesCoverUse, Costs,
                          NatOn, AtMost
<1>2. IsFiniteSet(Runs)
  BY DEF BudgetAssumption
<1>3. SumFunctionOnSet(used, Runs) <= SumFunctionOnSet(Costs(entries), Runs)
  BY <1>1, <1>2, SumMonotone
<1>4. SumFunctionOnSet(used, Runs) \in Nat
  BY <1>1, <1>2, SumFacts
<1>5. /\ Committed \in Nat /\ Limit \in Nat /\ Committed <= Limit
      /\ Committed = SumFunctionOnSet(Costs(entries), Runs)
  BY CommittedIsTotal DEF IInvBudget
<1>6. SumFunctionOnSet(used, Runs) <= Limit
  BY <1>3, <1>4, <1>5
<1> QED
  BY <1>4, <1>6 DEF SpendWithinCeiling, Limit

(* budget.py: whatever the ceiling and the worst cases, for any number of  *)
(* runs that reserve, work and reconcile in any order, the money that was  *)
(* really spent never passes the session's ceiling -- as long as one call  *)
(* of the ledger ends before the next one starts.                          *)
THEOREM BudgetHolds ==
    ASSUME BudgetAssumption, OneProcess
    PROVE  SpecBudget => []SpendWithinCeiling
<1>1. InitBudget => IInvBudget
  BY InitIInvBudget
<1>2. IInvBudget /\ [NextBudget]_budgetVars => IInvBudget'
  BY StepIInvBudget
<1>3. IInvBudget => SpendWithinCeiling
  BY CoveredSpend
<1> QED
  BY <1>1, <1>2, <1>3, PTL DEF SpecBudget

=============================================================================
