------------------------- MODULE AuditLedgerProofs -------------------------
(***************************************************************************)
(* Theorems about AuditLedger for any number of writers and requests.      *)
(***************************************************************************)
EXTENDS Sequences, AuditLedger, SumTheorems

USE AuditLedgerAssumption

LEMMA InitTypeOK == Init => TypeOK
  BY DEF Init, TypeOK, Steps, Hashes

LEMMA StepTypeOK == TypeOK /\ IInv /\ [Next]_vars => TypeOK'
<1> SUFFICES ASSUME TypeOK, IInv, [Next]_vars PROVE TypeOK'
    OBVIOUS
<1> USE DEF TypeOK, tables
<1>0. ASSUME NEW w \in Writers, Rollback(w)
      PROVE  TypeOK'
  BY <1>0 DEF Rollback, Goto, Steps
<1>1. ASSUME NEW p \in Proposals, Propose(p)
      PROVE  TypeOK'
  BY <1>1 DEF Propose
<1>2. ASSUME NEW w \in Writers, NEW r \in Requests, InsertDecision(w, r)
      PROVE  TypeOK'
  BY <1>2 DEF InsertDecision, Goto, Steps
<1>3. ASSUME NEW w \in Writers, InsertAssertion(w)
      PROVE  TypeOK'
  BY <1>0, <1>3 DEF InsertAssertion, Goto, Steps
<1>4. ASSUME NEW w \in Writers, SelectLast(w)
      PROVE  TypeOK'
  BY <1>4 DEF SelectLast, Goto, Steps
<1>5. ASSUME NEW w \in Writers, InsertEvent(w)
      PROVE  TypeOK'
  BY <1>5 DEF InsertEvent, Goto, Steps, DrawnValue
<1>6. ASSUME NEW w \in Writers, SelectJob(w)
      PROVE  TypeOK'
  BY <1>6 DEF SelectJob, Goto, Steps
<1>7. ASSUME NEW w \in Writers, InsertJob(w)
      PROVE  TypeOK'
  BY <1>0, <1>7 DEF InsertJob, Goto, Steps
<1>8. ASSUME NEW w \in Writers, Commit(w)
      PROVE  TypeOK'
  <2>1. req[w] \in Requests /\ pc[w] \in Steps
    BY <1>8 DEF Commit, IInv, ReqWhenOpen, Open
  <2>2. OwnEvent(w) \in Event
    BY <2>1 DEF OwnEvent, Event, Hashes, Decisions
  <2>3. pc[w] = "commit_job" => req[w].job \in JobKeys
    BY <2>1 DEF IInv, JobAtCommit, JobKeys
  <2> QED
    BY <1>8, <2>1, <2>2, <2>3 DEF Commit, Goto, Steps
<1>9. ASSUME NEW w \in Writers, Crash(w)
      PROVE  TypeOK'
  BY <1>0, <1>9 DEF Crash
<1>10. CASE UNCHANGED vars
  BY <1>10 DEF vars
<1>11. Next => TypeOK'
  BY <1>1, <1>2, <1>3, <1>4, <1>5, <1>6, <1>7, <1>8, <1>9
  DEF Next, Statement
<1> QED
  BY <1>10, <1>11

-----------------------------------------------------------------------------
(* The inductive invariant. *)
LEMMA InitIInv == Init => IInv
  BY DEF Init, IInv, ReqWhenOpen, IdsExclusive, JobAtCommit, SeqsDrawn,
     PrevCommitted, PrevIsLast, AcceptedHasConsequences, OneAcceptancePerId,
     ChainIsRooted, SeqIsUnique, SerialChainVerifies, ChainVerifies, Open,
     Drawn, LastHash

(* What a step keeps that changes no committed row but the proposals. *)
LEMMA RowsKept ==
    ASSUME IInv, UNCHANGED <<decisions, assertions, events, jobs>>
    PROVE  /\ AcceptedHasConsequences'
           /\ OneAcceptancePerId'
           /\ ChainIsRooted'
           /\ SeqIsUnique'
           /\ SerialChainVerifies'
  BY DEF IInv, AcceptedHasConsequences, OneAcceptancePerId, ChainIsRooted,
     SeqIsUnique, SerialChainVerifies, ChainVerifies

LEMMA StepIInv == TypeOK /\ IInv /\ [Next]_vars => IInv'
<1> SUFFICES ASSUME TypeOK, IInv, [Next]_vars PROVE IInv'
    OBVIOUS
<1> USE DEF IInv, Goto, tables, TypeOK
<1>0. ASSUME NEW w \in Writers, Rollback(w)
      PROVE  IInv'
  <2>1. ReqWhenOpen'
    BY <1>0 DEF Rollback, ReqWhenOpen, Open
  <2>2. IdsExclusive'
    BY <1>0 DEF Rollback, IdsExclusive, ReqWhenOpen, Open, HoldsDecision,
       HoldsAssertion, DecisionTaken, AssertionTaken
  <2>3. JobAtCommit'
    BY <1>0 DEF Rollback, JobAtCommit
  <2>4. SeqsDrawn'
    BY <1>0 DEF Rollback, SeqsDrawn, Drawn
  <2>5. PrevCommitted'
    BY <1>0 DEF Rollback, PrevCommitted, Drawn
  <2>6. PrevIsLast'
    BY <1>0 DEF Rollback, PrevIsLast, Open, Drawn, LastHash, VisibleEvents
  <2>7. UNCHANGED <<decisions, assertions, events, jobs>>
    BY <1>0 DEF Rollback
  <2> QED
    BY <2>1, <2>2, <2>3, <2>4, <2>5, <2>6, <2>7, RowsKept
<1>1. ASSUME NEW p \in Proposals, Propose(p)
      PROVE  IInv'
  <2>1. ReqWhenOpen'
    BY <1>1 DEF Propose, ReqWhenOpen, Open
  <2>2. IdsExclusive'
    BY <1>1 DEF Propose, IdsExclusive, ReqWhenOpen, Open, HoldsDecision,
       HoldsAssertion, DecisionTaken, AssertionTaken
  <2>3. JobAtCommit'
    BY <1>1 DEF Propose, JobAtCommit
  <2>4. SeqsDrawn'
    BY <1>1 DEF Propose, SeqsDrawn, Drawn
  <2>5. PrevCommitted'
    BY <1>1 DEF Propose, PrevCommitted, Drawn
  <2>6. PrevIsLast'
    BY <1>1 DEF Propose, PrevIsLast, Open, Drawn, LastHash, VisibleEvents
  <2>7. UNCHANGED <<decisions, assertions, events, jobs>>
    BY <1>1 DEF Propose
  <2> QED
    BY <2>1, <2>2, <2>3, <2>4, <2>5, <2>6, <2>7, RowsKept
<1>2. ASSUME NEW w \in Writers, NEW r \in Requests, InsertDecision(w, r)
      PROVE  IInv'
  <2>1. ReqWhenOpen'
    BY <1>2 DEF InsertDecision, ReqWhenOpen, Open
  <2>2. IdsExclusive'
    BY <1>2 DEF InsertDecision, IdsExclusive, ReqWhenOpen, Open, HoldsDecision,
       HoldsAssertion, DecisionTaken, AssertionTaken
  <2>3. JobAtCommit'
    BY <1>2 DEF InsertDecision, JobAtCommit
  <2>4. SeqsDrawn'
    BY <1>2 DEF InsertDecision, SeqsDrawn, Drawn
  <2>5. PrevCommitted'
    BY <1>2 DEF InsertDecision, PrevCommitted, Drawn
  <2>6. PrevIsLast'
    BY <1>2 DEF InsertDecision, PrevIsLast, Open, Drawn, LastHash, VisibleEvents
  <2>7. UNCHANGED <<decisions, assertions, events, jobs>>
    BY <1>2 DEF InsertDecision
  <2> QED
    BY <2>1, <2>2, <2>3, <2>4, <2>5, <2>6, <2>7, RowsKept
<1>3. ASSUME NEW w \in Writers, InsertAssertion(w)
      PROVE  IInv'
  <2> SUFFICES ASSUME ~Rollback(w) PROVE IInv'
    BY <1>0
  <2>1. ReqWhenOpen'
    BY <1>3 DEF InsertAssertion, ReqWhenOpen, Open
  <2>2. IdsExclusive'
    BY <1>3 DEF InsertAssertion, IdsExclusive, ReqWhenOpen, Open, HoldsDecision,
       HoldsAssertion, DecisionTaken, AssertionTaken
  <2>3. JobAtCommit'
    BY <1>3 DEF InsertAssertion, JobAtCommit
  <2>4. SeqsDrawn'
    BY <1>3 DEF InsertAssertion, SeqsDrawn, Drawn
  <2>5. PrevCommitted'
    BY <1>3 DEF InsertAssertion, PrevCommitted, Drawn
  <2>6. PrevIsLast'
    BY <1>3 DEF InsertAssertion, PrevIsLast, Open, Drawn, LastHash, VisibleEvents
  <2>7. UNCHANGED <<decisions, assertions, events, jobs>>
    BY <1>3 DEF InsertAssertion
  <2> QED
    BY <2>1, <2>2, <2>3, <2>4, <2>5, <2>6, <2>7, RowsKept
<1>4. ASSUME NEW w \in Writers, SelectLast(w)
      PROVE  IInv'
  <2>1. ReqWhenOpen'
    BY <1>4 DEF SelectLast, ReqWhenOpen, Open
  <2>2. IdsExclusive'
    BY <1>4 DEF SelectLast, IdsExclusive, ReqWhenOpen, Open, HoldsDecision,
       HoldsAssertion, DecisionTaken, AssertionTaken
  <2>3. JobAtCommit'
    BY <1>4 DEF SelectLast, JobAtCommit
  <2>4. SeqsDrawn'
    BY <1>4 DEF SelectLast, SeqsDrawn, Drawn
  <2>5. PrevCommitted'
    <3>1. PICK h \in Hashes : LastHash(h) /\ prev' = [prev EXCEPT ![w] = h]
      BY <1>4 DEF SelectLast
    <3>2. h = Genesis \/ \E d \in events : d.hash = h
      BY <3>1 DEF LastHash, VisibleEvents
    <3>3. /\ pc'[w] = "insert_event" /\ prev'[w] = h
          /\ \A v \in Writers : v # w => pc'[v] = pc[v] /\ prev'[v] = prev[v]
          /\ UNCHANGED <<events, seq>>
      BY <1>4, <3>1 DEF SelectLast
    <3> QED
      BY <3>2, <3>3 DEF PrevCommitted, Drawn
  <2>6. PrevIsLast'
    BY <1>4 DEF SelectLast, PrevIsLast, Open, Drawn, LastHash, VisibleEvents
  <2>7. UNCHANGED <<decisions, assertions, events, jobs>>
    BY <1>4 DEF SelectLast
  <2> QED
    BY <2>1, <2>2, <2>3, <2>4, <2>5, <2>6, <2>7, RowsKept
<1>5. ASSUME NEW w \in Writers, InsertEvent(w)
      PROVE  IInv'
  <2>1. /\ pc[w] = "insert_event" /\ pc'[w] \in {"commit", "select_job"}
        /\ pc'[w] = "commit" <=> req[w].job = None
        /\ seq'[w] = nextSeq /\ nextSeq' = nextSeq + 1
        /\ \A v \in Writers : v # w => pc'[v] = pc[v] /\ seq'[v] = seq[v]
        /\ UNCHANGED <<tables, req, prev>>
    BY <1>5 DEF InsertEvent, DrawnValue
  <2>2. ReqWhenOpen' /\ JobAtCommit'
    BY <2>1 DEF ReqWhenOpen, JobAtCommit, Open
  <2>3. IdsExclusive'
    BY <2>1 DEF IdsExclusive, ReqWhenOpen, Open, HoldsDecision,
       HoldsAssertion, DecisionTaken, AssertionTaken
  <2>4. SeqsDrawn'
    <3>1. \A e \in events : e.seq \in Nat /\ e.seq < nextSeq
      BY DEF SeqsDrawn, Event
    <3>2. \A v \in Writers : pc[v] \in Drawn => seq[v] < nextSeq
      BY DEF SeqsDrawn
    <3> QED
      BY <2>1, <3>1, <3>2 DEF SeqsDrawn, Drawn
  <2>5. PrevCommitted'
    <3>1. \A e \in events : e.seq < seq'[w]
      BY <2>1 DEF SeqsDrawn
    <3> QED
      BY <2>1, <3>1 DEF PrevCommitted, Drawn
  <2>6. PrevIsLast'
    <3>1. \A e \in events : e.seq < seq'[w]
      BY <2>1 DEF SeqsDrawn
    <3> QED
      BY <2>1, <3>1 DEF PrevIsLast, Open, Drawn, LastHash, VisibleEvents
  <2> QED
    BY <2>1, <2>2, <2>3, <2>4, <2>5, <2>6, RowsKept
<1>6. ASSUME NEW w \in Writers, SelectJob(w)
      PROVE  IInv'
  <2>1. ReqWhenOpen'
    BY <1>6 DEF SelectJob, ReqWhenOpen, Open
  <2>2. IdsExclusive'
    BY <1>6 DEF SelectJob, IdsExclusive, ReqWhenOpen, Open, HoldsDecision,
       HoldsAssertion, DecisionTaken, AssertionTaken
  <2>3. JobAtCommit'
    BY <1>6 DEF SelectJob, JobAtCommit, VisibleJob
  <2>4. SeqsDrawn'
    BY <1>6 DEF SelectJob, SeqsDrawn, Drawn
  <2>5. PrevCommitted'
    BY <1>6 DEF SelectJob, PrevCommitted, Drawn
  <2>6. PrevIsLast'
    BY <1>6 DEF SelectJob, PrevIsLast, Open, Drawn, LastHash, VisibleEvents
  <2>7. UNCHANGED <<decisions, assertions, events, jobs>>
    BY <1>6 DEF SelectJob
  <2> QED
    BY <2>1, <2>2, <2>3, <2>4, <2>5, <2>6, <2>7, RowsKept
<1>7. ASSUME NEW w \in Writers, InsertJob(w)
      PROVE  IInv'
  <2> SUFFICES ASSUME ~Rollback(w) PROVE IInv'
    BY <1>0
  <2>1. ReqWhenOpen'
    BY <1>7 DEF InsertJob, ReqWhenOpen, Open
  <2>2. IdsExclusive'
    BY <1>7 DEF InsertJob, IdsExclusive, ReqWhenOpen, Open, HoldsDecision,
       HoldsAssertion, DecisionTaken, AssertionTaken
  <2>3. JobAtCommit'
    BY <1>7 DEF InsertJob, JobAtCommit
  <2>4. SeqsDrawn'
    BY <1>7 DEF InsertJob, SeqsDrawn, Drawn
  <2>5. PrevCommitted'
    BY <1>7 DEF InsertJob, PrevCommitted, Drawn
  <2>6. PrevIsLast'
    BY <1>7 DEF InsertJob, PrevIsLast, Open, Drawn, LastHash, VisibleEvents
  <2>7. UNCHANGED <<decisions, assertions, events, jobs>>
    BY <1>7 DEF InsertJob
  <2> QED
    BY <2>1, <2>2, <2>3, <2>4, <2>5, <2>6, <2>7, RowsKept
<1>8. ASSUME NEW w \in Writers, Commit(w)
      PROVE  IInv'
  <2> DEFINE r == req[w]
             e == OwnEvent(w)
  <2>1. /\ pc[w] \in {"commit", "commit_job"} /\ pc'[w] = "idle"
        /\ req'[w] = None
        /\ \A v \in Writers : v # w => pc'[v] = pc[v] /\ req'[v] = req[v]
        /\ UNCHANGED <<nextSeq, prev, seq>>
    BY <1>8 DEF Commit
  <2>2. /\ r \in Requests
        /\ decisions' = decisions \cup {r}
        /\ assertions' = assertions \cup {r}
        /\ events' = events \cup {e}
        /\ jobs' = IF pc[w] = "commit_job" THEN jobs \cup {r.job} ELSE jobs
    BY <1>8 DEF Commit, ReqWhenOpen, Open
  <2>3. e.seq = seq[w] /\ e.prev = prev[w] /\ e.hash = r.decision
    BY DEF OwnEvent
  <2>4. pc[w] \in Drawn
    BY <2>1 DEF Drawn
  <2> HIDE DEF e
  <2>5. ReqWhenOpen' /\ JobAtCommit'
    BY <2>1, <2>2 DEF ReqWhenOpen, JobAtCommit, Open
  <2>6. IdsExclusive'
    BY <2>1, <2>2 DEF IdsExclusive, ReqWhenOpen, Open, HoldsDecision,
       HoldsAssertion, DecisionTaken, AssertionTaken
  <2>7. SeqsDrawn'
    BY <2>1, <2>2, <2>3, <2>4 DEF SeqsDrawn, Drawn
  <2>8. PrevCommitted'
    BY <2>1, <2>2 DEF PrevCommitted, Drawn
  <2>9. PrevIsLast'
    BY <2>1 DEF PrevIsLast, Open, Drawn
  <2>10. AcceptedHasConsequences'
    <3>1. r.job # None => r.job \in jobs'
      BY <2>1, <2>2 DEF JobAtCommit
    <3>2. pc[w] = "commit_job" => r.job # None
      BY DEF JobAtCommit
    <3> HIDE DEF r
    <3>3. decisions' = assertions'
      BY <2>2 DEF AcceptedHasConsequences
    <3>4. \A q \in assertions' : /\ \E d \in events' : d.hash = q.decision
                                 /\ q.job # None => q.job \in jobs'
      BY <2>2, <2>3, <3>1 DEF AcceptedHasConsequences
    <3>5. \A d \in events' : \E q \in assertions' : q.decision = d.hash
      BY <2>2, <2>3 DEF AcceptedHasConsequences
    <3>6. \A k \in jobs' : \E q \in assertions' : q.job = k
      BY <2>2 DEF AcceptedHasConsequences
    <3> QED
      BY <3>3, <3>4, <3>5, <3>6 DEF AcceptedHasConsequences
  <2>11. OneAcceptancePerId'
    <3>1. \A q \in assertions : q.decision # r.decision /\ q.assertion # r.assertion
      BY <2>1 DEF IdsExclusive, Open, DecisionTaken, AssertionTaken,
         AcceptedHasConsequences
    <3> HIDE DEF r
    <3> QED
      BY <2>2, <3>1 DEF OneAcceptancePerId
  <2>12. ChainIsRooted'
    <3>1. \/ e.prev = Genesis
          \/ \E d \in events : d.hash = e.prev /\ d.seq < e.seq
      BY <2>3, <2>4 DEF PrevCommitted
    <3> QED
      BY <2>2, <3>1 DEF ChainIsRooted
  <2>13. SeqIsUnique'
    <3>1. \A d \in events : d.seq # e.seq
      BY <2>3, <2>4 DEF SeqsDrawn
    <3> QED
      BY <2>2, <3>1 DEF SeqIsUnique
  <2>14. SerialChainVerifies'
    <3> SUFFICES ASSUME Serialised PROVE ChainVerifies'
      BY DEF SerialChainVerifies
    <3>1. LastHash(e.prev) /\ \A d \in events : d.seq < e.seq
      BY <2>3, <2>4 DEF PrevIsLast
    <3>2. e.seq \in Nat /\ \A d \in events : d.seq \in Nat
      BY <2>3 DEF Event
    <3>3. \/ e.prev = Genesis /\ \A d \in events' : e.seq <= d.seq
          \/ \E d \in events' : /\ e.prev = d.hash /\ d.seq < e.seq
                                /\ \A c \in events' : c.seq <= d.seq \/ e.seq <= c.seq
      BY <2>2, <3>1, <3>2 DEF LastHash, VisibleEvents
    <3>4. ASSUME NEW f \in events
          PROVE  \/ f.prev = Genesis /\ \A d \in events' : f.seq <= d.seq
                 \/ \E d \in events' : /\ f.prev = d.hash /\ d.seq < f.seq
                                       /\ \A c \in events' : c.seq <= d.seq \/ f.seq <= c.seq
      BY <2>2, <3>1, <3>2 DEF SerialChainVerifies, ChainVerifies
    <3> QED
      BY <2>2, <3>3, <3>4 DEF ChainVerifies
  <2> QED
    BY <2>5, <2>6, <2>7, <2>8, <2>9, <2>10, <2>11, <2>12, <2>13, <2>14
<1>9. CASE UNCHANGED vars
  <2>1. UNCHANGED <<decisions, assertions, events, jobs, nextSeq, pc, req, prev, seq>>
    BY <1>9 DEF vars
  <2> QED
    BY <2>1, RowsKept DEF ReqWhenOpen, IdsExclusive, JobAtCommit, SeqsDrawn,
       PrevCommitted, PrevIsLast, Open, HoldsDecision, HoldsAssertion,
       DecisionTaken, AssertionTaken, LastHash, VisibleEvents
<1>10. Next => IInv'
  BY <1>0, <1>1, <1>2, <1>3, <1>4, <1>5, <1>6, <1>7, <1>8
  DEF Next, Statement, Crash
<1> QED
  BY <1>9, <1>10

(* Every reachable state satisfies the type and the inductive invariant. *)
THEOREM Inductive == Spec => [](TypeOK /\ IInv)
<1>1. Init => TypeOK /\ IInv
  BY InitTypeOK, InitIInv
<1>2. TypeOK /\ IInv /\ [Next]_vars => (TypeOK /\ IInv)'
  BY StepTypeOK, StepIInv
<1> QED
  BY <1>1, <1>2, PTL DEF Spec

(* No acceptance without its decision, audit event and follow-up job, and  *)
(* none of those without it, for any number of overlapping transactions.   *)
THEOREM AcceptanceIsAtomic == Spec => []AcceptedHasConsequences
<1>1. IInv => AcceptedHasConsequences
  BY DEF IInv
<1> QED
  BY <1>1, Inductive, PTL

(* A replayed decision or assertion id is accepted at most once.           *)
THEOREM ReplayIsHarmless == Spec => []OneAcceptancePerId
<1>1. IInv => OneAcceptancePerId
  BY DEF IInv
<1> QED
  BY <1>1, Inductive, PTL

(* Every audit event points back to an older committed event or genesis.   *)
THEOREM AuditChainIsRooted == Spec => []ChainIsRooted
<1>1. IInv => ChainIsRooted
  BY DEF IInv
<1> QED
  BY <1>1, Inductive, PTL

(* The identity column orders the events.                                  *)
THEOREM SeqOrdersEvents == Spec => []SeqIsUnique
<1>1. IInv => SeqIsUnique
  BY DEF IInv
<1> QED
  BY <1>1, Inductive, PTL

(* While acceptances do not overlap, verify_audit_chain succeeds.          *)
THEOREM SerialisedChainVerifies ==
    ASSUME Serialised PROVE Spec => []ChainVerifies
<1>1. IInv => ChainVerifies
  BY DEF IInv, SerialChainVerifies
<1> QED
  BY <1>1, Inductive, PTL

-----------------------------------------------------------------------------
(* What the database promises: the transactions, as long as they do not    *)
(* overlap, are single steps that accept.                                  *)

UpTo(S, e) == {d \in S : d.seq <= e.seq}

EventAt(S, i) == CHOOSE e \in S : Cardinality(UpTo(S, e)) = i

(* Every place in the chain has its event. *)
EventsAreRanked ==
    /\ IsFiniteSet(events)
    /\ \A i \in 1..Cardinality(events) :
          \E e \in events : Cardinality(UpTo(events, e)) = i

LEMMA RankIsUnique ==
    ASSUME NEW S \in SUBSET Event, IsFiniteSet(S),
           \A d, e \in S : d.seq = e.seq => d = e,
           NEW d \in S, NEW e \in S,
           Cardinality(UpTo(S, d)) = Cardinality(UpTo(S, e))
    PROVE  d = e
<1>1. d.seq \in Nat /\ e.seq \in Nat /\ \A c \in S : c.seq \in Nat
  BY DEF Event
<1>2. IsFiniteSet(UpTo(S, d)) /\ IsFiniteSet(UpTo(S, e))
  BY FS_Subset DEF UpTo
<1>3. CASE d.seq <= e.seq
  <2>1. UpTo(S, d) \in SUBSET UpTo(S, e)
    BY <1>1, <1>3 DEF UpTo
  <2>2. UpTo(S, e) = UpTo(S, d)
    BY <1>2, <2>1, FS_Subset
  <2>3. e \in UpTo(S, d)
    BY <1>1, <2>2 DEF UpTo
  <2> QED
    BY <1>1, <1>3, <2>3 DEF UpTo
<1>4. CASE e.seq <= d.seq
  <2>1. UpTo(S, e) \in SUBSET UpTo(S, d)
    BY <1>1, <1>4 DEF UpTo
  <2>2. UpTo(S, d) = UpTo(S, e)
    BY <1>2, <2>1, FS_Subset
  <2>3. d \in UpTo(S, e)
    BY <1>1, <2>2 DEF UpTo
  <2> QED
    BY <1>1, <1>4, <2>3 DEF UpTo
<1> QED
  BY <1>1, <1>3, <1>4

LEMMA EventAtIsRanked ==
    ASSUME EventsAreRanked, NEW i \in 1..Cardinality(events)
    PROVE  /\ EventAt(events, i) \in events
           /\ Cardinality(UpTo(events, EventAt(events, i))) = i
  BY DEF EventsAreRanked, EventAt

(* A commit ends the chain with its own event and moves no other. *)
LEMMA CommitAppends ==
    ASSUME Serialised, TypeOK, IInv, TypeOK', IInv', EventsAreRanked,
           NEW w \in Writers, Commit(w)
    PROVE  /\ EventsAreRanked'
           /\ Cardinality(events') = Cardinality(events) + 1
           /\ \A i \in 1..Cardinality(events) :
                 EventAt(events', i) = EventAt(events, i)
           /\ EventAt(events', Cardinality(events) + 1) = OwnEvent(w)
<1> DEFINE n == Cardinality(events)
           new == OwnEvent(w)
<1>1. /\ events' = events \cup {new}
      /\ events \in SUBSET Event /\ events' \in SUBSET Event
      /\ new.seq = seq[w] /\ seq[w] \in Nat
  BY DEF Commit, TypeOK, OwnEvent
<1>2. \A e \in events : e.seq < new.seq
  BY <1>1 DEF Commit, IInv, PrevIsLast, Drawn
<1>3. new \notin events /\ \A e \in events : e.seq \in Nat
  BY <1>1, <1>2 DEF Event
<1>4. IsFiniteSet(events) /\ n \in Nat
  BY FS_CardinalityType DEF EventsAreRanked
<1>5. IsFiniteSet(events') /\ Cardinality(events') = n + 1
  BY <1>1, <1>3, <1>4, FS_AddElement
<1>6. \A e \in events : UpTo(events', e) = UpTo(events, e)
  BY <1>1, <1>2, <1>3 DEF UpTo
<1>7. UpTo(events', new) = events'
  BY <1>1, <1>2, <1>3 DEF UpTo
<1>8. EventsAreRanked'
  <2>1. ASSUME NEW i \in 1..(n + 1)
        PROVE  \E e \in events' : Cardinality(UpTo(events', e)) = i
    <3>1. CASE i = n + 1
      BY <1>1, <1>5, <1>7, <3>1
    <3>2. CASE i # n + 1
      <4>1. i \in 1..n
        BY <1>4, <3>2
      <4> QED
        BY <1>1, <1>6, <4>1 DEF EventsAreRanked
    <3> QED
      BY <3>1, <3>2
  <2> QED
    BY <1>5, <2>1 DEF EventsAreRanked, UpTo
<1>9. ASSUME NEW i \in 1..(n + 1), NEW e \in events',
             Cardinality(UpTo(events', e)) = i
      PROVE  EventAt(events', i) = e
  <2>1. /\ EventAt(events', i) \in events'
        /\ Cardinality(UpTo(events', EventAt(events', i))) = i
    BY <1>9 DEF EventAt
  <2>2. \A c, d \in events' : c.seq = d.seq => c = d
    BY DEF IInv, SeqIsUnique
  <2> QED
    BY <1>1, <1>5, <1>9, <2>1, <2>2, RankIsUnique
<1>10. ASSUME NEW i \in 1..n PROVE EventAt(events', i) = EventAt(events, i)
  <2> DEFINE e == EventAt(events, i)
  <2>1. e \in events /\ Cardinality(UpTo(events, e)) = i
    BY EventAtIsRanked
  <2>2. e \in events' /\ Cardinality(UpTo(events', e)) = i
    BY <1>1, <1>6, <2>1
  <2>3. i \in 1..(n + 1)
    BY <1>4
  <2> HIDE DEF e
  <2>4. EventAt(events', i) = e
    BY <1>9, <2>2, <2>3
  <2> QED
    BY <2>4 DEF e
<1>11. EventAt(events', n + 1) = new
  <2>1. new \in events' /\ Cardinality(UpTo(events', new)) = n + 1
    BY <1>1, <1>5, <1>7
  <2>2. n + 1 \in 1..(n + 1)
    BY <1>4
  <2> HIDE DEF n, new
  <2> QED
    BY <1>9, <2>1, <2>2
<1> QED
  BY <1>5, <1>8, <1>10, <1>11

ChainIn(S) == [i \in 1..Cardinality(S) |-> EventAt(S, i).hash]

LEMMA CommitAccepts ==
    ASSUME Serialised, TypeOK, IInv, TypeOK', IInv', EventsAreRanked,
           NEW w \in Writers, Commit(w)
    PROVE  Promise!Next
<1> DEFINE r == req[w]
           n == Cardinality(events)
<1>1. r \in Requests /\ Open(w) /\ pc[w] # "insert_assertion"
  BY DEF Commit, IInv, ReqWhenOpen, Open
<1>2. \A q \in assertions : q.decision # r.decision /\ q.assertion # r.assertion
  <2>1. decisions = assertions
    BY DEF IInv, AcceptedHasConsequences
  <2>2. ~DecisionTaken(r.decision) /\ ~AssertionTaken(r.assertion)
    BY <1>1 DEF IInv, IdsExclusive
  <2> QED
    BY <2>1, <2>2 DEF DecisionTaken, AssertionTaken
<1>3. jobs' = jobs \cup ({r.job} \ {None})
  BY DEF Commit, IInv, JobAtCommit
<1>4. ChainIn(events') = Append(ChainIn(events), r.decision)
  <2>1. n \in Nat
    BY FS_CardinalityType DEF EventsAreRanked
  <2>2. /\ Cardinality(events') = n + 1
        /\ \A i \in 1..n : EventAt(events', i) = EventAt(events, i)
        /\ EventAt(events', n + 1).hash = r.decision
    <3>1. OwnEvent(w).hash = r.decision
      BY DEF OwnEvent
    <3>2. EventAt(events', n + 1) = OwnEvent(w)
      BY CommitAppends
    <3>3. /\ Cardinality(events') = n + 1
          /\ \A i \in 1..n : EventAt(events', i) = EventAt(events, i)
      BY CommitAppends
    <3> QED
      BY <3>1, <3>2, <3>3
  <2>3. \A i \in 1..n : EventAt(events, i).hash \in Decisions
    BY EventAtIsRanked DEF TypeOK, Event
  <2>4. /\ ChainIn(events) \in Seq(Decisions)
        /\ Len(ChainIn(events)) = n
        /\ \A i \in 1..n : ChainIn(events)[i] = EventAt(events, i).hash
    BY <2>1, <2>3 DEF ChainIn
  <2>5. ChainIn(events') = [i \in 1..(n + 1) |->
            IF i = n + 1 THEN r.decision ELSE EventAt(events, i).hash]
    BY <2>1, <2>2 DEF ChainIn
  <2>6. r.decision \in Decisions
    BY <1>1 DEF Decisions
  <2>7. /\ Append(ChainIn(events), r.decision) \in Seq(Decisions)
        /\ Len(Append(ChainIn(events), r.decision)) = n + 1
        /\ \A i \in 1..(n + 1) : Append(ChainIn(events), r.decision)[i] =
              IF i = n + 1 THEN r.decision ELSE EventAt(events, i).hash
    BY <2>1, <2>4, <2>6
  <2> HIDE DEF n, r
  <2> QED
    BY <2>1, <2>5, <2>7
<1>5. Promise!Accept(r)
  <2>1. [i \in 1..Cardinality(events) |-> Nth(i).hash] = ChainIn(events)
    BY DEF ChainIn, Nth, EventAt, UpTo
  <2>2. [i \in 1..Cardinality(events) |-> Nth(i).hash]' = ChainIn(events')
    BY DEF ChainIn, Nth, EventAt, UpTo
  <2>3. assertions' = assertions \cup {r}
    BY DEF Commit
  <2> HIDE DEF r
  <2> QED
    BY <1>2, <1>3, <1>4, <2>1, <2>2, <2>3 DEF Promise!Accept
<1> QED
  BY <1>1, <1>5 DEF Promise!Next

(* While acceptances do not overlap, the transactions implement the one    *)
(* atomic step that db.py:6-8 promises: an acceptance with its assertion,  *)
(* its audit event at the end of the chain and its follow-up job.          *)
THEOREM TransactionsKeepPromise ==
    ASSUME Serialised PROVE Spec => KeepsPromise
<1>1. Init => EventsAreRanked /\ Promise!Init
  <2> SUFFICES ASSUME Init PROVE EventsAreRanked /\ Promise!Init
    OBVIOUS
  <2>1. events = {} /\ Cardinality(events) = 0 /\ IsFiniteSet(events)
    BY FS_EmptySet DEF Init
  <2> QED
    BY <2>1 DEF Init, EventsAreRanked, Promise!Init
<1>2. TypeOK /\ IInv /\ TypeOK' /\ IInv' /\ EventsAreRanked /\ [Next]_vars =>
         EventsAreRanked' /\ [Promise!Next]_(Promise!vars)
  <2> SUFFICES ASSUME TypeOK, IInv, TypeOK', IInv', EventsAreRanked,
                      [Next]_vars
               PROVE  EventsAreRanked' /\ [Promise!Next]_(Promise!vars)
    OBVIOUS
  <2>1. CASE \E w \in Writers : Commit(w)
    BY <2>1, CommitAppends, CommitAccepts
  <2>2. CASE UNCHANGED <<assertions, events, jobs>>
    <3>1. events' = events
      BY <2>2
    <3>2. EventsAreRanked'
      BY <3>1 DEF EventsAreRanked
    <3>3. UNCHANGED Promise!vars
      BY <2>2 DEF Promise!vars, Nth
    <3> QED
      BY <3>2, <3>3
  <2> QED
    BY <2>1, <2>2 DEF Next, vars, tables, Propose, InsertDecision, Statement,
       InsertAssertion, SelectLast, InsertEvent, SelectJob, InsertJob, Crash,
       Rollback
<1> QED
  BY <1>1, <1>2, Inductive, PTL DEF Spec, KeepsPromise, Promise!Spec

-----------------------------------------------------------------------------
(* Waiting. *)

(* The INSERTs that another open transaction makes wait. *)
Waits(w) ==
    \/ /\ pc[w] = "insert_assertion"
       /\ \E v \in Writers \ {w} : HoldsAssertion(v, req[w].assertion)
    \/ /\ pc[w] = "insert_job"
       /\ \E v \in Writers : HoldsJob(v, req[w].job)

(* Of the open transactions one has its next statement executed: it does   *)
(* not wait, and the last event that it may have to read is there.         *)
SomeoneProceeds ==
    (\E w \in Writers : Open(w)) =>
        \E w \in Writers : /\ Open(w) /\ ~Waits(w)
                           /\ pc[w] = "select_last" =>
                                 \E h \in Hashes : LastHash(h)

(* The events have a last one, and it has a hash. *)
LEMMA ThereIsALastEvent ==
    ASSUME TypeOK, IInv PROVE \E h \in Hashes : LastHash(h)
<1>1. CASE events = {}
  BY <1>1 DEF LastHash, VisibleEvents, Hashes
<1>2. CASE events # {}
  <2> DEFINE Gaps == {nextSeq - e.seq : e \in events}
  <2>1. \A e \in events : e.seq \in Nat /\ e.hash \in Hashes /\ e.seq < nextSeq
    BY DEF TypeOK, Event, Hashes, IInv, SeqsDrawn
  <2>2. nextSeq \in Nat
    BY DEF TypeOK
  <2>3. Gaps \in SUBSET Nat /\ Gaps # {}
    BY <1>2, <2>1, <2>2
  <2>4. PICK g \in Gaps : \A x \in Gaps : g <= x
    <3> HIDE DEF Gaps
    <3> QED
      BY <2>3, NatHasMinimum
  <2>5. PICK e \in events : g = nextSeq - e.seq
    OBVIOUS
  <2>6. \A d \in events : d.seq <= e.seq
    <3> SUFFICES ASSUME NEW d \in events PROVE d.seq <= e.seq
      OBVIOUS
    <3>1. nextSeq - e.seq <= nextSeq - d.seq
      BY <2>4, <2>5
    <3> QED
      BY <2>1, <2>2, <3>1
  <2> QED
    BY <2>1, <2>6 DEF LastHash, VisibleEvents
<1> QED
  BY <1>1, <1>2

LEMMA InvariantLetsSomeoneProceed == TypeOK /\ IInv => SomeoneProceeds
<1> SUFFICES ASSUME TypeOK, IInv, NEW u \in Writers, Open(u)
             PROVE  \E w \in Writers : /\ Open(w) /\ ~Waits(w)
                                       /\ pc[w] = "select_last" =>
                                             \E h \in Hashes : LastHash(h)
  BY DEF SomeoneProceeds
<1>1. ASSUME NEW w \in Writers, Open(w), ~Waits(w)
      PROVE  \E x \in Writers : /\ Open(x) /\ ~Waits(x)
                                /\ pc[x] = "select_last" =>
                                      \E h \in Hashes : LastHash(h)
  BY <1>1, ThereIsALastEvent
<1>2. CASE \E w \in Writers : pc[w] \notin {"idle", "insert_assertion",
                                            "insert_job"}
  <2>1. PICK w \in Writers : pc[w] \notin {"idle", "insert_assertion",
                                           "insert_job"}
    BY <1>2
  <2> QED
    BY <1>1, <2>1 DEF Open, Waits
<1>3. CASE /\ \A w \in Writers : pc[w] \in {"idle", "insert_assertion",
                                            "insert_job"}
           /\ \E w \in Writers : pc[w] = "insert_job"
  <2>1. PICK w \in Writers : pc[w] = "insert_job"
    BY <1>3
  <2>2. \A v \in Writers : ~HoldsJob(v, req[w].job)
    BY <1>3 DEF HoldsJob
  <2> QED
    BY <1>1, <2>1, <2>2 DEF Open, Waits
<1>4. CASE \A w \in Writers : pc[w] \in {"idle", "insert_assertion"}
  <2>1. pc[u] = "insert_assertion"
    BY <1>4 DEF Open
  <2>2. \A v \in Writers : ~HoldsAssertion(v, req[u].assertion)
    BY <1>4 DEF HoldsAssertion
  <2> QED
    BY <1>1, <2>1, <2>2 DEF Waits
<1> QED
  BY <1>2, <1>3, <1>4

(* db.py:173-191: every transaction inserts its keys in the same order, so *)
(* however many overlap and whatever they wait for, never does each of     *)
(* them wait for another.                                                  *)
THEOREM NobodyIsDeadlocked == Spec => []SomeoneProceeds
  BY Inductive, InvariantLetsSomeoneProceed, PTL

=============================================================================
