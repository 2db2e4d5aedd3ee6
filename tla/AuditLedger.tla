---------------------------- MODULE AuditLedger ----------------------------
(***************************************************************************)
(* accept_assertion_atomic, append_audit and verify_audit_chain of db.py:  *)
(* several writers accept assertions, each in one PostgreSQL transaction   *)
(* at READ COMMITTED.                                                      *)
(*                                                                         *)
(* Every statement is a step.  A SELECT sees committed rows and those of   *)
(* its own transaction; an INSERT of a key another open transaction has    *)
(* inserted waits for that transaction, and raises, which rolls the whole  *)
(* transaction back, when the key is committed.  The identity column seq   *)
(* is drawn by the INSERT and not given back by a rollback.                *)
(*                                                                         *)
(* SHA-256 is taken to be injective: an event's hash stands for the event, *)
(* here for its decision id, which the event's detail holds and of which   *)
(* at most one event is ever committed.                                    *)
(***************************************************************************)
EXTENDS Integers, FiniteSets

CONSTANTS Writers,      \* processes that accept assertions
          Requests,     \* [decision, assertion, proposal, job] a caller passes
          None,         \* no follow-up job
          Genesis,      \* the prev_hash of the first event
          MaxSeq,       \* bound on the identity column
          Serialised    \* TRUE: no two acceptances overlap (one writer
                        \* process, as the kernel is used)

Decisions == {r.decision : r \in Requests}
Proposals == {r.proposal : r \in Requests}
JobKeys   == {r.job : r \in Requests} \ {None}

ASSUME AuditLedgerAssumption ==
    /\ Genesis \notin Decisions
    /\ None \notin Requests
    /\ MaxSeq \in Nat
    /\ Serialised \in BOOLEAN

VARIABLES proposals,    \* assertion_proposals: committed proposal ids
          decisions,    \* acceptance_decisions: the requests they came from
          assertions,   \* assertions: the requests they came from
          events,       \* audit_events: committed [seq, prev, hash]
          jobs,         \* jobs: committed idempotency keys
          nextSeq,      \* the identity sequence of audit_events.seq
          pc,           \* pc[w]: the statement writer w executes next
          req,          \* req[w]: the request of w's open transaction
          prev,         \* prev[w]: the hash append_audit read
          seq           \* seq[w]: the seq of w's uncommitted audit row

tables == <<proposals, decisions, assertions, events, jobs>>
vars == <<proposals, decisions, assertions, events, jobs,
          nextSeq, pc, req, prev, seq>>

Steps == {"idle", "insert_assertion", "select_last", "insert_event",
          "select_job", "insert_job", "commit", "commit_job"}

Hashes == Decisions \cup {Genesis}

Event == [seq : Nat, prev : Hashes, hash : Decisions]

TypeOK == /\ proposals \subseteq Proposals
          /\ decisions \subseteq Requests
          /\ assertions \subseteq Requests
          /\ events \subseteq Event
          /\ jobs \subseteq JobKeys
          /\ nextSeq \in Nat
          /\ pc \in [Writers -> Steps]
          /\ req \in [Writers -> Requests \cup {None}]
          /\ prev \in [Writers -> Hashes]
          /\ seq \in [Writers -> Nat]

Init == /\ proposals = {}
        /\ decisions = {} /\ assertions = {} /\ events = {} /\ jobs = {}
        /\ nextSeq = 1
        /\ pc = [w \in Writers |-> "idle"]
        /\ req = [w \in Writers |-> None]
        /\ prev = [w \in Writers |-> Genesis]
        /\ seq = [w \in Writers |-> 0]

-----------------------------------------------------------------------------

Open(w) == pc[w] # "idle"

Goto(w, step) == pc' = [pc EXCEPT ![w] = step]

(* The keys w's open transaction has inserted: another INSERT of one waits. *)
HoldsDecision(w, d)  == Open(w) /\ req[w].decision = d
HoldsAssertion(w, a) == /\ pc[w] \notin {"idle", "insert_assertion"}
                        /\ req[w].assertion = a
HoldsJob(w, k)       == pc[w] = "commit_job" /\ req[w].job = k

(* The committed keys: an INSERT of one raises. *)
DecisionTaken(d)  == \E r \in decisions : r.decision = d
NoPrimaryKey(a)   == FALSE                                           \* mutant
AssertionTaken(a) == \E r \in assertions : r.assertion = a

(* The audit row w has inserted and not committed. *)
SwappedEvent(w) ==                                                   \* mutant
    [seq |-> seq[w], prev |-> req[w].decision, hash |-> prev[w]]
OwnEvent(w) == [seq |-> seq[w], prev |-> prev[w], hash |-> req[w].decision]

(* What a SELECT of audit_events, or of a job's key, sees. *)
DirtyEvents == events \cup {OwnEvent(w) : w \in {v \in Writers :  \* mutant
                  pc[v] \in {"select_job", "insert_job", "commit", "commit_job"}}}
VisibleEvents == events
DirtyJob(k) == k \in jobs \/ \E w \in Writers : HoldsJob(w, k)      \* mutant
VisibleJob(k) == k \in jobs

(* append_audit: SELECT event_hash ... ORDER BY seq DESC LIMIT 1. *)
OldestHash(h) ==                                                     \* mutant
    \/ VisibleEvents = {} /\ h = Genesis
    \/ \E e \in VisibleEvents :
          e.hash = h /\ \A d \in VisibleEvents : d.seq >= e.seq
LastHash(h) ==
    \/ VisibleEvents = {} /\ h = Genesis
    \/ \E e \in VisibleEvents :
          e.hash = h /\ \A d \in VisibleEvents : d.seq <= e.seq

(* Any of: an IntegrityError, crash_before_commit, a lost connection. *)
Rollback(w) ==
    /\ Goto(w, "idle")
    /\ req' = [req EXCEPT ![w] = None]
    /\ UNCHANGED <<tables, nextSeq, prev, seq>>

-----------------------------------------------------------------------------

(* kernel.propose has persisted the proposal's row. *)
Propose(p) ==
    /\ p \notin proposals
    /\ proposals' = proposals \cup {p}
    /\ UNCHANGED <<decisions, assertions, events, jobs, nextSeq, pc, req, prev,
                   seq>>

(* The transaction starts by inserting the decision; a key that is taken   *)
(* or a proposal without a row makes the call raise with nothing done.     *)
(* (Bound: the identity column must not run past MaxSeq.)                  *)
YetToDraw == {v \in Writers : pc[v] \in
                 {"insert_assertion", "select_last", "insert_event"}}

InsertDecision(w, r) ==
    /\ ~Open(w)
    /\ Serialised => \A v \in Writers : ~Open(v)
    /\ nextSeq + Cardinality(YetToDraw) <= MaxSeq
    /\ \A v \in Writers : ~HoldsDecision(v, r.decision)
    /\ ~DecisionTaken(r.decision)
    /\ r.proposal \in proposals
    /\ Goto(w, "insert_assertion")
    /\ req' = [req EXCEPT ![w] = r]
    /\ UNCHANGED <<tables, nextSeq, prev, seq>>

InsertAssertion(w) ==
    /\ pc[w] = "insert_assertion"
    /\ \A v \in Writers \ {w} : ~HoldsAssertion(v, req[w].assertion)
    /\ IF AssertionTaken(req[w].assertion)
       THEN Rollback(w)
       ELSE Goto(w, "select_last") /\ UNCHANGED <<tables, nextSeq, req, prev, seq>>

(* append_audit, its SELECT. *)
SelectLast(w) ==
    /\ pc[w] = "select_last"
    /\ \E h \in Hashes : LastHash(h) /\ prev' = [prev EXCEPT ![w] = h]
    /\ Goto(w, "insert_event")
    /\ UNCHANGED <<tables, nextSeq, req, seq>>

(* append_audit, its INSERT; then the follow-up job if there is one. *)
(* The identity column hands out a value once, committed or not.           *)
OneAfterLast ==                                                      \* mutant
    CHOOSE n \in 1..nextSeq : /\ \A e \in VisibleEvents : e.seq < n
                              /\ \A m \in 1..(n - 1) :
                                    \E e \in VisibleEvents : m <= e.seq
DrawnValue == nextSeq

InsertEvent(w) ==
    /\ pc[w] = "insert_event"
    /\ seq' = [seq EXCEPT ![w] = DrawnValue]
    /\ nextSeq' = nextSeq + 1
    /\ Goto(w, IF req[w].job = None THEN "commit" ELSE "select_job")
    /\ UNCHANGED <<tables, req, prev>>

(* enqueue, its SELECT, inside the same transaction. *)
SelectJob(w) ==
    /\ pc[w] = "select_job"
    /\ Goto(w, IF VisibleJob(req[w].job) THEN "commit" ELSE "insert_job")
    /\ UNCHANGED <<tables, nextSeq, req, prev, seq>>

(* enqueue, its INSERT: the unique idempotency key may have come in since. *)
InsertJobUntilFree(w) ==                                             \* mutant
    /\ pc[w] = "insert_job"
    /\ \A v \in Writers : ~HoldsJob(v, req[w].job)
    /\ req[w].job \notin jobs
    /\ Goto(w, "commit_job")
    /\ UNCHANGED <<tables, nextSeq, req, prev, seq>>
InsertJob(w) ==
    /\ pc[w] = "insert_job"
    /\ \A v \in Writers : ~HoldsJob(v, req[w].job)
    /\ IF req[w].job \in jobs
       THEN Rollback(w)
       ELSE Goto(w, "commit_job") /\ UNCHANGED <<tables, nextSeq, req, prev, seq>>

Commit(w) ==
    /\ pc[w] \in {"commit", "commit_job"}
    /\ decisions' = decisions \cup {req[w]}
    /\ assertions' = assertions \cup {req[w]}
    /\ events' = events \cup {OwnEvent(w)}
    /\ jobs' = IF pc[w] = "commit_job" THEN jobs \cup {req[w].job} ELSE jobs
    /\ Goto(w, "idle")
    /\ req' = [req EXCEPT ![w] = None]
    /\ UNCHANGED <<proposals, nextSeq, prev, seq>>

Crash(w) == Open(w) /\ Rollback(w)

Statement(w) == \/ InsertAssertion(w)
                \/ SelectLast(w)
                \/ InsertEvent(w)
                \/ SelectJob(w)
                \/ InsertJob(w)
                \/ Commit(w)

Next == \/ \E p \in Proposals : Propose(p)
        \/ \E w \in Writers : \/ \E r \in Requests : InsertDecision(w, r)
                              \/ Statement(w)
                              \/ Crash(w)

Spec == Init /\ [][Next]_vars

(* The database executes the statement a client has sent, and wakes a      *)
(* waiting INSERT when the transaction it waits for ends: an insert that   *)
(* is possible again and again is not overtaken for ever by newcomers that *)
(* crash (strong fairness; PostgreSQL queues the waiters of a transaction). *)
FairSpec == Spec /\ \A w \in Writers : SF_vars(Statement(w))

-----------------------------------------------------------------------------
(* Properties that hold however acceptances overlap. *)

(* "A crash cannot create accepted state without its audit/job             *)
(* consequences" (db.py:6-8): an accepted assertion has its decision, its  *)
(* one audit event and its follow-up job, and none of these exists without *)
(* the assertion, although enqueue leaves the INSERT out when its SELECT   *)
(* finds the key.                                                          *)
AcceptedHasConsequences ==
    /\ decisions = assertions
    /\ \A r \in assertions :
          /\ \E e \in events : e.hash = r.decision
          /\ r.job # None => r.job \in jobs
    /\ \A e \in events : \E r \in assertions : r.decision = e.hash
    /\ \A k \in jobs : \E r \in assertions : r.job = k

(* A decision id and an assertion id name one acceptance, also when two    *)
(* writers replay the same request at the same time (db.py:63, 71).        *)
OneAcceptancePerId ==
    \A q, r \in assertions :
        q.decision = r.decision \/ q.assertion = r.assertion => q = r

(* Every committed event points at genesis or at a committed event with a  *)
(* smaller seq: whatever overlaps, an audit walk along prev_hash ends at   *)
(* genesis and never at a row that was rolled back (db.py:143-151).        *)
ChainIsRooted ==
    \A e \in events :
        e.prev = Genesis \/ \E d \in events : d.hash = e.prev /\ d.seq < e.seq

(* The identity column orders the events: no two share a seq. *)
SeqIsUnique == \A d, e \in events : d.seq = e.seq => d = e

(* No two transactions wait for each other for good, and none spins: each  *)
(* acceptance that started commits or raises (the inserts of every writer  *)
(* come in the same order, db.py:173-191).                                 *)
TransactionsEnd == \A w \in Writers : Open(w) ~> ~Open(w)

-----------------------------------------------------------------------------
(* Properties that hold when acceptances are Serialised and not otherwise. *)

(* verify_audit_chain returns: each event's prev_hash is the hash of the   *)
(* event before it in seq order (db.py:155-165).                           *)
ChainVerifies ==
    \A e \in events :
        \/ e.prev = Genesis /\ \A d \in events : e.seq <= d.seq
        \/ \E d \in events : /\ e.prev = d.hash /\ d.seq < e.seq
                             /\ \A c \in events : c.seq <= d.seq \/ e.seq <= c.seq

-----------------------------------------------------------------------------
(* The inductive invariant. *)

Drawn == {"select_job", "insert_job", "commit", "commit_job"}

ReqWhenOpen == \A w \in Writers : Open(w) <=> req[w] \in Requests

(* Waiting INSERTs and primary keys: an id is committed, or held by one    *)
(* open transaction, or free.                                              *)
IdsExclusive ==
    \A w \in Writers : Open(w) =>
        /\ ~DecisionTaken(req[w].decision)
        /\ \A v \in Writers \ {w} : ~HoldsDecision(v, req[w].decision)
        /\ pc[w] # "insert_assertion" =>
              /\ ~AssertionTaken(req[w].assertion)
              /\ \A v \in Writers \ {w} : ~HoldsAssertion(v, req[w].assertion)

(* The job an acceptance needs is in the table, or its own to insert. *)
JobAtCommit ==
    \A w \in Writers :
        /\ pc[w] = "commit" /\ req[w].job # None => req[w].job \in jobs
        /\ pc[w] = "commit_job" => req[w].job # None
        /\ pc[w] \in {"select_job", "insert_job"} => req[w].job # None

(* The seq values in use are below the identity counter and distinct. *)
SeqsDrawn ==
    /\ \A e \in events : e.seq < nextSeq
    /\ \A w \in Writers : pc[w] \in Drawn =>
          /\ seq[w] < nextSeq
          /\ \A e \in events : e.seq # seq[w]
          /\ \A v \in Writers \ {w} : pc[v] \in Drawn => seq[v] # seq[w]

(* The hash a transaction read belongs to a committed event that is older  *)
(* than the row it inserts.                                                *)
PrevCommitted ==
    \A w \in Writers :
        pc[w] \in Drawn \cup {"insert_event"} =>
            \/ prev[w] = Genesis
            \/ \E d \in events : /\ d.hash = prev[w]
                                 /\ pc[w] \in Drawn => d.seq < seq[w]

(* Serialised, it still belongs to the last one. *)
PrevIsLast ==
    Serialised =>
        /\ \A v, w \in Writers : Open(v) /\ Open(w) => v = w
        /\ \A w \in Writers :
              /\ pc[w] \in Drawn \cup {"insert_event"} => LastHash(prev[w])
              /\ pc[w] \in Drawn => \A e \in events : e.seq < seq[w]

SerialChainVerifies == Serialised => ChainVerifies

IInv == /\ ReqWhenOpen
        /\ IdsExclusive
        /\ JobAtCommit
        /\ SeqsDrawn
        /\ PrevCommitted
        /\ PrevIsLast
        /\ AcceptedHasConsequences
        /\ OneAcceptancePerId
        /\ ChainIsRooted
        /\ SeqIsUnique
        /\ SerialChainVerifies

-----------------------------------------------------------------------------
(* The transactions implement the one-step acceptance the database promises. *)
Nth(i) == CHOOSE e \in events : Cardinality({d \in events : d.seq <= e.seq}) = i

Promise == INSTANCE AcceptancePromise WITH
    accepted  <- assertions,
    ledger    <- [i \in 1..Cardinality(events) |-> Nth(i).hash],
    followUps <- jobs
KeepsPromise == Promise!Spec

=============================================================================
