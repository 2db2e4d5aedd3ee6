------------------------------- MODULE Kernel -------------------------------
(***************************************************************************)
(* The evidence kernel (kernel.py) with its PostgreSQL engine (db.py) and  *)
(* its audit file (audit.py): ingest, canonicalize, anchor, propose,       *)
(* verify, approve.  The kernel is one single-threaded process; its        *)
(* dictionaries live in memory, the tables and the audit file outlive it.  *)
(*                                                                         *)
(* Every handler first updates its dictionaries and then performs its      *)
(* outside effects one after the other, each of which may fail: then the   *)
(* handler raises and the caller gets nothing back, but what was done      *)
(* stays done.  A call that raises before its first assignment is not a    *)
(* step.  A crash within a handler is a failing handler and then Restart.  *)
(*                                                                         *)
(* Ids are random in the code, here the next number of their kind; callers *)
(* use only ids a call returned to them.                                   *)
(***************************************************************************)
EXTENDS Integers, Sequences, Verifier

CONSTANTS Sources,      \* the documents there are to ingest
          Drafts,       \* the proposals callers make of them
          MaxMade,      \* bound on the ids of each kind
          Faulty        \* TRUE: effects may fail, the process may crash

Kinds == {"version", "artifact", "anchor", "proposal", "report", "decision"}

ASSUME KernelAssumption ==
    /\ \A s \in Sources : s.role \in DOMAIN ROLE_MODALITIES
    /\ MaxMade \in [Kinds -> Nat]
    /\ Faulty \in BOOLEAN

VARIABLES mem,      \* the dictionaries of the Kernel object
          db,       \* the rows of the tables
          trail,    \* the events of the audit file
          made      \* the ids handed out, by kind

vars == <<mem, db, trail, made>>

(* versions: version id -> source; artifacts: in order of insertion;       *)
(* anchors: anchor id -> artifact id; reports: proposal id -> its report;  *)
(* an assertion has the id of the decision that accepted it; returned: the *)
(* ids callers hold.                                                       *)
Empty == [x \in {} |-> 0]

NoMemory == [versions |-> Empty, artifacts |-> <<>>, anchors |-> Empty,
             proposals |-> Empty, reports |-> Empty, decisions |-> Empty,
             assertions |-> {}, returned |-> {}]

Row(table, id, parent) == [table |-> table, id |-> id, parent |-> parent]
Event(action, id) == [action |-> action, id |-> id]
Events == [action : {"ingest_fixture", "canonicalize", "propose", "decision"},
           id : Nat]

Ids(kind) == 1..MaxMade[kind]

(* The edges of a proposal's support, and the anchors they name. *)
Edges == [anchor : Ids("anchor"), role : EdgeRoles]
AnchorsOf(support) == {edge.anchor : edge \in support}

TypeOK ==
    /\ made \in [Kinds -> Nat] /\ \A k \in Kinds : made[k] <= MaxMade[k]
    /\ DOMAIN mem.versions \subseteq Ids("version")
    /\ \A v \in DOMAIN mem.versions : mem.versions[v] \in Sources
    /\ mem.artifacts \in Seq([id : Ids("artifact"), version : Ids("version")])
    /\ mem.anchors \in [DOMAIN mem.anchors -> Ids("artifact")]
    /\ \A p \in DOMAIN mem.proposals :
          AnchorsOf(mem.proposals[p].support) \subseteq DOMAIN mem.anchors
    /\ DOMAIN mem.reports \subseteq DOMAIN mem.proposals
    /\ \A d \in DOMAIN mem.decisions :
          mem.decisions[d].proposal \in DOMAIN mem.reports
    /\ mem.assertions \subseteq DOMAIN mem.decisions
    /\ mem.returned \subseteq Kinds \X Nat
    /\ \A row \in db : row.id \in Nat /\ row.parent \in Nat
    /\ trail \in Seq(Events)

Init == /\ mem = NoMemory
        /\ db = {}
        /\ trail = <<>>
        /\ made = [k \in Kinds |-> 0]

-----------------------------------------------------------------------------

With(f, x, y) == [z \in DOMAIN f \cup {x} |-> IF z = x THEN y ELSE f[z]]

LastId(kind) == made[kind]                                          \* mutant
Fresh(kind) == made[kind] + 1
Make(kind)  == /\ made[kind] < MaxMade[kind]
               /\ made' = [made EXCEPT ![kind] = @ + 1]

ParentTable(table) ==
    CASE table = "source_versions"      -> "source_documents"
      [] table = "acquisition_receipts" -> "source_versions"
      [] table = "text_artifacts"       -> "source_versions"
      [] table = "assertion_proposals"  -> "source_versions"
      [] table = "acceptance_decisions" -> "assertion_proposals"
      [] table = "assertions"           -> "acceptance_decisions"
      [] OTHER                          -> "none"

References(rows, row) ==
    \/ ParentTable(row.table) = "none"
    \/ \E r \in rows : r.table = ParentTable(row.table) /\ r.id = row.parent

(* The rows that n calls of _persist leave.  It swallows the               *)
(* IntegrityError of a missing parent as well as the one of a duplicate:   *)
(* the row is just not there.                                              *)
Persisted(rows, n) ==
    {rows[i] : i \in {j \in 1..n :
        References(db \cup {rows[k] : k \in 1..(j - 1)}, rows[j])}}

Returns(m, id) == mem' = [m EXCEPT !.returned = @ \cup {id}]

(* A handler that leaves memory m, persists rows, audits event and returns *)
(* id, or fails before its event, with the first n rows persisted.         *)
Handler(m, rows, event, id) ==
    \/ \E n \in 0..Len(rows) : /\ Faulty
                               /\ db' = db \cup Persisted(rows, n)
                               /\ mem' = m
                               /\ UNCHANGED trail
    \/ /\ db' = db \cup Persisted(rows, Len(rows))
       /\ trail' = Append(trail, event)
       /\ Returns(m, id)

Holds(kind, id) == <<kind, id>> \in mem.returned

-----------------------------------------------------------------------------

(* ingest_fixture: the source document and the version share an id here,   *)
(* for the code makes a new document for every version.  The blob is in    *)
(* the evidence store before anything else happens; it stays there.        *)
IngestFixture(source) ==
    LET v == Fresh("version") IN
    /\ Make("version")
    /\ Handler([mem EXCEPT !.versions = With(@, v, source)],
               <<Row("source_documents", v, 0),
                 Row("source_versions", v, v),
                 Row("acquisition_receipts", v, v)>>,
               Event("ingest_fixture", v), <<"version", v>>)

(* canonicalize: every call makes another artifact of the same text. *)
Canonicalize(v) ==
    LET a == Fresh("artifact") IN
    /\ Holds("version", v)
    /\ Make("artifact")
    /\ Handler([mem EXCEPT !.artifacts = Append(@, [id |-> a, version |-> v])],
               <<Row("text_artifacts", a, v)>>, Event("canonicalize", a),
               <<"artifact", a>>)

(* add_anchor: memory only, no row and no audit event. *)
AddAnchor(a) ==
    LET n == Fresh("anchor") IN
    /\ Holds("artifact", a)
    /\ Make("anchor")
    /\ Returns([mem EXCEPT !.anchors = With(@, n, a)], <<"anchor", n>>)
    /\ UNCHANGED <<db, trail>>

Proposal(v, support, draft) ==
    [version |-> v, support |-> support, origin |-> draft.origin,
     modality |-> draft.modality, exact |-> draft.exact,
     transform |-> draft.transform, money |-> draft.money]

Propose(v, support, draft) ==
    LET p == Fresh("proposal") IN
    /\ Holds("version", v)
    /\ \A n \in AnchorsOf(support) : Holds("anchor", n)
    /\ Make("proposal")
    /\ Handler([mem EXCEPT !.proposals =
                   With(@, p, Proposal(v, support, draft))],
               <<Row("assertion_proposals", p, v)>>, Event("propose", p),
               <<"proposal", p>>)

(* The artifact verify takes: the first one made of the proposal's source  *)
(* version, whichever artifact the anchors were cut from.                  *)
OfVersion(v) == {i \in DOMAIN mem.artifacts : mem.artifacts[i].version = v}
LatestArtifact(v) ==                                                \* mutant
    mem.artifacts[CHOOSE i \in OfVersion(v) : \A j \in OfVersion(v) : j <= i].id
ArtifactFor(v) ==
    mem.artifacts[CHOOSE i \in OfVersion(v) : \A j \in OfVersion(v) : i <= j].id

Verdict(p) ==
    LET prop == mem.proposals[p]
        v    == prop.version
    IN  Overall(Results(prop, v, mem.versions[v], ArtifactFor(v),
                        mem.anchors))

(* verify: memory only; the new report replaces the proposal's last one. *)
Verify(p) ==
    LET r == Fresh("report") IN
    /\ Holds("proposal", p)
    /\ OfVersion(mem.proposals[p].version) # {}
    /\ Make("report")
    /\ Returns([mem EXCEPT !.reports =
                   With(@, p, [id |-> r, overall |-> Verdict(p)])],
               <<"report", r>>)
    /\ UNCHANGED <<db, trail>>

ForgetsAcceptance(p) == FALSE                                       \* mutant
AlreadyAccepted(p) ==
    \E d \in mem.assertions : mem.decisions[d].proposal = p

MayAccept(p) == mem.reports[p].overall = "pass"

(* accept_assertion_atomic: decision, assertion and the table's audit      *)
(* event in one transaction, which fails if the proposal is no row.        *)
AcceptanceRows(p, d) ==
    {Row("acceptance_decisions", d, p), Row("assertions", d, d),
     Row("audit_events", d, 0)}

(* Where approve ends: before its audit event, after it, with the          *)
(* assertion in memory alone, or with everything done.                     *)
AuditedLast(d, outcome) == trail' = IF outcome # "done" THEN trail  \* mutant
                                    ELSE Append(trail, Event("decision", d))
Audited(d, outcome) == trail' = IF outcome = "unaudited" THEN trail
                                ELSE Append(trail, Event("decision", d))

Approve(p, decision, outcome) ==
    LET d        == Fresh("decision")
        decided  == [mem EXCEPT !.decisions =
                        With(@, d, [proposal |-> p, decision |-> decision,
                                    report |-> mem.reports[p].id])]
        accepted == decision = "accept" /\ outcome # "unaudited"
    IN  /\ p \in DOMAIN mem.reports
        /\ Holds("proposal", p)
        /\ ~AlreadyAccepted(p)
        /\ decision = "accept" => MayAccept(p)
        /\ outcome = "done" \/ Faulty
        /\ outcome = "in_memory" => decision = "accept"
        /\ decision = "accept" /\ outcome = "done" =>
               References(db, Row("acceptance_decisions", d, p))
        /\ Make("decision")
        /\ mem' = IF accepted THEN [decided EXCEPT !.assertions = @ \cup {d}]
                  ELSE decided
        /\ db' = IF accepted /\ outcome = "done"
                 THEN db \cup AcceptanceRows(p, d) ELSE db
        /\ Audited(d, outcome)

(* The process dies and another one starts, with nothing in memory. *)
Restart == /\ Faulty
           /\ mem # NoMemory
           /\ mem' = NoMemory
           /\ UNCHANGED <<db, trail, made>>

Next ==
    \/ \E source \in Sources : IngestFixture(source)
    \/ \E v \in Ids("version") :
          \/ Canonicalize(v)
          \/ \E support \in SUBSET Edges, draft \in Drafts :
                Propose(v, support, draft)
    \/ \E a \in Ids("artifact") : AddAnchor(a)
    \/ \E p \in Ids("proposal") :
          \/ Verify(p)
          \/ \E decision \in {"accept", "reject"},
                outcome \in {"unaudited", "in_memory", "done"} :
                Approve(p, decision, outcome)
    \/ Restart

Spec == Init /\ [][Next]_vars

-----------------------------------------------------------------------------
Rows(table) == {row \in db : row.table = table}

DecisionRow(id) == CHOOSE row \in Rows("acceptance_decisions") : row.id = id

(* No replay: a proposal has at most one accepted assertion, in memory and *)
(* in the tables, whatever failed and was tried again and however often    *)
(* the kernel restarted (kernel.py:222-225, SEC-08).                       *)
OneAssertionPerProposal ==
    /\ \A d, e \in mem.assertions :
          mem.decisions[d].proposal = mem.decisions[e].proposal => d = e
    /\ \A r, s \in Rows("assertions") :
          DecisionRow(r.parent).parent = DecisionRow(s.parent).parent => r = s

(* What was accepted keeps verifying: no later canonicalization, anchor or *)
(* run of verify turns an accepted proposal into one that fails, which     *)
(* would deny its publication (kernel.py:204-212, 226-227, 271).           *)
AcceptedKeepsVerifying ==
    \A d \in mem.assertions :
        LET p == mem.decisions[d].proposal
        IN  mem.reports[p].overall = "pass" /\ Verdict(p) = "pass"

(* Nothing is accepted, in memory or in the tables, without its decision   *)
(* in the audit file, at whatever point approve failed                     *)
(* (kernel.py:234-264).                                                    *)
AcceptanceIsAudited ==
    \A d \in mem.assertions \cup {row.id : row \in Rows("assertions")} :
        \E i \in DOMAIN trail : trail[i] = Event("decision", d)

(* "a crash cannot create an accepted state without its audit/job          *)
(* consequences" (SPEC.md:994), "A failed transaction leaves no partial    *)
(* state" (SPEC.md:1869): what the kernel treats as accepted is accepted   *)
(* in the tables (kernel.py:258-263).                                      *)
AcceptedInTables ==
    \A d \in mem.assertions :
        \E row \in Rows("assertions") : row.id = d

(* "Verification runs and their check results are immutable [...] A retry  *)
(* is a new run" (SPEC.md:1010): the report an acceptance names is the one *)
(* the kernel has for the proposal (kernel.py:212, 232, 271).              *)
AcceptedReportIsKept ==
    \A d \in mem.assertions :
        mem.reports[mem.decisions[d].proposal].id = mem.decisions[d].report

=============================================================================
