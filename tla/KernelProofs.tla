---------------------------- MODULE KernelProofs ----------------------------
(***************************************************************************)
(* Theorems about the evidence kernel, for any documents, drafts and       *)
(* bounds, with effects that may fail and a process that may crash.        *)
(***************************************************************************)
EXTENDS Kernel, SumTheorems

USE KernelAssumption

Fields == {"versions", "artifacts", "anchors", "proposals", "reports",
           "decisions", "assertions", "returned"}

(* The ids in use have been handed out, so the next one is new. *)
IdsAreMade ==
    /\ DOMAIN mem = Fields
    /\ DOMAIN mem.versions \subseteq 1..made["version"]
    /\ DOMAIN mem.anchors \subseteq 1..made["anchor"]
    /\ DOMAIN mem.proposals \subseteq 1..made["proposal"]
    /\ DOMAIN mem.decisions \subseteq 1..made["decision"]

(* What callers hold is in the dictionaries, and so is what a proposal     *)
(* names.                                                                  *)
NothingDangles ==
    /\ \A h \in mem.returned :
          /\ h[1] = "version" => h[2] \in DOMAIN mem.versions
          /\ h[1] = "anchor" => h[2] \in DOMAIN mem.anchors
          /\ h[1] = "proposal" => h[2] \in DOMAIN mem.proposals
    /\ \A p \in DOMAIN mem.proposals :
          mem.proposals[p].version \in DOMAIN mem.versions

(* A report says what the verifier would say of its proposal today. *)
ReportsStand ==
    \A p \in DOMAIN mem.reports :
        /\ OfVersion(mem.proposals[p].version) # {}
        /\ mem.reports[p].overall = Verdict(p)

AcceptedPassed ==
    \A d \in mem.assertions :
        mem.reports[mem.decisions[d].proposal].overall = "pass"

OneInMemory ==
    \A d, e \in mem.assertions :
        mem.decisions[d].proposal = mem.decisions[e].proposal => d = e

(* A decision is a row only together with its assertion, and there is one  *)
(* for a proposal; the kernel that still knows the proposal also knows     *)
(* that it was accepted.                                                   *)
DecisionsAreRowsOnce ==
    /\ \A r \in Rows("acceptance_decisions") :
          /\ r.id \in 1..made["decision"]
          /\ r.parent \in 1..made["proposal"]
          /\ r.parent \in DOMAIN mem.proposals => AlreadyAccepted(r.parent)
    /\ \A r, s \in Rows("acceptance_decisions") :
          r.id = s.id \/ r.parent = s.parent => r = s
    /\ \A r \in Rows("assertions") :
          /\ r = Row("assertions", r.id, r.id)
          /\ \E s \in Rows("acceptance_decisions") : s.id = r.id

IInv == /\ TypeOK
        /\ IdsAreMade
        /\ NothingDangles
        /\ ReportsStand
        /\ AcceptedPassed
        /\ OneInMemory
        /\ DecisionsAreRowsOnce
        /\ AcceptanceIsAudited

-----------------------------------------------------------------------------
(* The verdict on a proposal stands while the kernel's memory only grows.  *)

Grown(f, g) == \A x \in DOMAIN f : x \in DOMAIN g /\ g[x] = f[x]

ArtifactsGrow == \/ mem'.artifacts = mem.artifacts
                 \/ \E a : mem'.artifacts = Append(mem.artifacts, a)

(* The first artifact of a version stays the first. *)
LEMMA FirstArtifactStays ==
    ASSUME TypeOK, TypeOK', ArtifactsGrow, NEW v, OfVersion(v) # {}
    PROVE  OfVersion(v)' # {} /\ ArtifactFor(v)' = ArtifactFor(v)
<1> DEFINE A == mem.artifacts
           B == mem'.artifacts
           n == Len(A)
<1>1. A \in Seq([id : Ids("artifact"), version : Ids("version")])
  BY DEF TypeOK
<1>2. /\ n \in Nat /\ DOMAIN A = 1..n
      /\ DOMAIN B = 1..n \/ DOMAIN B = 1..(n + 1)
      /\ \A i \in 1..n : B[i] = A[i]
  BY <1>1 DEF ArtifactsGrow
<1>3. /\ OfVersion(v) \in SUBSET Nat
      /\ OfVersion(v) \subseteq OfVersion(v)'
      /\ OfVersion(v)' \subseteq OfVersion(v) \cup {n + 1}
      /\ OfVersion(v) \subseteq 1..n
  BY <1>2 DEF OfVersion
<1>4. PICK i \in OfVersion(v) : \A j \in OfVersion(v) : i <= j
  BY <1>3, NatHasMinimum
<1>5. ArtifactFor(v) = A[i].id
  <2>1. \A k \in OfVersion(v) :
           (\A j \in OfVersion(v) : k <= j) => k = i
    BY <1>3, <1>4
  <2>2. (CHOOSE k \in OfVersion(v) : \A j \in OfVersion(v) : k <= j) = i
    BY <1>4, <2>1
  <2> QED
    BY <2>2 DEF ArtifactFor
<1>6. ArtifactFor(v)' = B[i].id
  <2>1. i \in OfVersion(v)' /\ \A j \in OfVersion(v)' : i <= j
    BY <1>2, <1>3, <1>4
  <2>2. \A k \in OfVersion(v)' :
           (\A j \in OfVersion(v)' : k <= j) => k = i
    BY <1>2, <1>3, <2>1
  <2>3. (CHOOSE k \in OfVersion(v)' : \A j \in OfVersion(v)' : k <= j) = i
    BY <2>1, <2>2
  <2> QED
    BY <2>3 DEF ArtifactFor
<1> QED
  BY <1>2, <1>3, <1>4, <1>5, <1>6

LEMMA VerdictStands ==
    ASSUME TypeOK, TypeOK', ArtifactsGrow,
           Grown(mem.versions, mem'.versions),
           Grown(mem.anchors, mem'.anchors),
           Grown(mem.proposals, mem'.proposals),
           NEW p \in DOMAIN mem.proposals,
           mem.proposals[p].version \in DOMAIN mem.versions,
           OfVersion(mem.proposals[p].version) # {}
    PROVE  /\ OfVersion(mem.proposals[p].version)' # {}
           /\ Verdict(p)' = Verdict(p)
<1>1. PICK prop, v, s, a : /\ prop = mem.proposals[p] /\ v = prop.version
                           /\ s = mem.versions[v] /\ a = ArtifactFor(v)
  OBVIOUS
<1>2. mem'.proposals[p] = prop /\ mem'.versions[v] = s
  BY <1>1 DEF Grown
<1>3. OfVersion(v)' # {} /\ ArtifactFor(v)' = a
  BY <1>1, FirstArtifactStays
<1>4. Results(prop, v, s, a, mem'.anchors) = Results(prop, v, s, a, mem.anchors)
  <2>1. AnchorResolution(prop, a, mem'.anchors)
           = AnchorResolution(prop, a, mem.anchors)
    <3>1. \A edge \in prop.support : edge.anchor \in DOMAIN mem.anchors
      BY <1>1 DEF TypeOK, AnchorsOf
    <3>2. \A edge \in prop.support :
             EdgeResolves(mem'.anchors, a, edge, prop.exact)
                <=> EdgeResolves(mem.anchors, a, edge, prop.exact)
      BY <3>1 DEF Grown, EdgeResolves
    <3> QED
      BY <3>2 DEF AnchorResolution
  <2> QED
    BY <2>1 DEF Results
<1>5. Verdict(p) = Overall(Results(prop, v, s, a, mem.anchors))
  BY <1>1 DEF Verdict
<1>6. Verdict(p)' = Overall(Results(prop, v, s, a, mem'.anchors))
  BY <1>1, <1>2, <1>3 DEF Verdict
<1> QED
  BY <1>1, <1>2, <1>3, <1>4, <1>5, <1>6

-----------------------------------------------------------------------------
(* What the steps that only add to the kernel's memory have in common.     *)

TrailGrows == trail' = trail \/ \E e : trail' = Append(trail, e)

LEMMA EventsStay ==
    ASSUME TypeOK, TrailGrows
    PROVE  \A i \in DOMAIN trail : i \in DOMAIN trail' /\ trail'[i] = trail[i]
<1>1. trail \in Seq(Events)
  BY DEF TypeOK
<1> QED
  BY <1>1 DEF TrailGrows

(* A step of these keeps every report, decision and assertion, adds no row *)
(* of theirs, and takes a new id for a proposal it adds.                   *)
OnlyAdds ==
    /\ ArtifactsGrow /\ TrailGrows
    /\ Grown(mem.versions, mem'.versions)
    /\ Grown(mem.anchors, mem'.anchors)
    /\ Grown(mem.proposals, mem'.proposals)
    /\ mem'.reports = mem.reports
    /\ mem'.decisions = mem.decisions
    /\ mem'.assertions = mem.assertions
    /\ \A p \in DOMAIN mem'.proposals \ DOMAIN mem.proposals :
          p \notin 1..made["proposal"]
    /\ \A row \in db' : row \in db \/
          row.table \notin {"acceptance_decisions", "assertions"}
    /\ db \subseteq db'
    /\ \A k \in Kinds : made'[k] \in Nat /\ made[k] <= made'[k]

LEMMA AddingKeepsIInv ==
    ASSUME IInv, TypeOK', IdsAreMade', NothingDangles', OnlyAdds
    PROVE  IInv'
<1>1. ReportsStand'
  <2> SUFFICES ASSUME NEW p \in DOMAIN mem.reports
               PROVE  /\ OfVersion(mem.proposals[p].version)' # {}
                      /\ mem.reports[p].overall = Verdict(p)'
    BY DEF OnlyAdds, ReportsStand
  <2>1. /\ p \in DOMAIN mem.proposals
        /\ mem.proposals[p].version \in DOMAIN mem.versions
    BY DEF IInv, TypeOK, NothingDangles
  <2>2. /\ OfVersion(mem.proposals[p].version) # {}
        /\ mem.reports[p].overall = Verdict(p)
    BY DEF IInv, ReportsStand
  <2> QED
    BY <2>1, <2>2, VerdictStands DEF IInv, OnlyAdds
<1>2. AcceptedPassed' /\ OneInMemory'
  BY DEF IInv, AcceptedPassed, OneInMemory, OnlyAdds
<1>3. /\ Rows("acceptance_decisions")' = Rows("acceptance_decisions")
      /\ Rows("assertions")' = Rows("assertions")
  BY DEF OnlyAdds, Rows
<1>4. DecisionsAreRowsOnce'
  <2>1. \A p : AlreadyAccepted(p)' <=> AlreadyAccepted(p)
    BY DEF AlreadyAccepted, OnlyAdds
  <2>2. \A r \in Rows("acceptance_decisions") :
           /\ r.id \in 1..made'["decision"]
           /\ r.parent \in 1..made'["proposal"]
           /\ r.parent \in DOMAIN mem'.proposals => AlreadyAccepted(r.parent)
    <3>1. \A r \in Rows("acceptance_decisions") :
             /\ r.id \in 1..made["decision"]
             /\ r.parent \in 1..made["proposal"]
             /\ r.parent \in DOMAIN mem.proposals => AlreadyAccepted(r.parent)
      BY DEF IInv, DecisionsAreRowsOnce
    <3>2. /\ made["decision"] \in Nat /\ made'["decision"] \in Nat
          /\ made["proposal"] \in Nat /\ made'["proposal"] \in Nat
          /\ made["decision"] <= made'["decision"]
          /\ made["proposal"] <= made'["proposal"]
      BY DEF IInv, TypeOK, OnlyAdds, Kinds
    <3>3. \A p \in DOMAIN mem'.proposals : p \in 1..made["proposal"]
             => p \in DOMAIN mem.proposals
      BY DEF OnlyAdds
    <3> QED
      BY <3>1, <3>2, <3>3
  <2> QED
    BY <1>3, <2>1, <2>2 DEF IInv, DecisionsAreRowsOnce
<1>5. AcceptanceIsAudited'
  BY <1>3, EventsStay DEF IInv, AcceptanceIsAudited, OnlyAdds
<1> QED
  BY <1>1, <1>2, <1>4, <1>5 DEF IInv

(* However a handler ends, it leaves the memory it prepared, but for the   *)
(* id it may have returned.                                                *)
Ends(m, rows, event, id) ==
    /\ DOMAIN mem' = Fields
    /\ mem'.versions = m.versions
    /\ mem'.artifacts = m.artifacts
    /\ mem'.anchors = m.anchors
    /\ mem'.proposals = m.proposals
    /\ mem'.reports = m.reports
    /\ mem'.decisions = m.decisions
    /\ mem'.assertions = m.assertions
    /\ mem'.returned = m.returned \/ mem'.returned = m.returned \cup {id}
    /\ trail' = trail \/ trail' = Append(trail, event)
    /\ db \subseteq db'
    /\ \A row \in db' : row \in db \/ \E i \in 1..Len(rows) : row = rows[i]

LEMMA HandlerEnds ==
    ASSUME NEW m, DOMAIN m = Fields, NEW rows, Len(rows) \in Nat,
           NEW event, NEW id, Handler(m, rows, event, id)
    PROVE  Ends(m, rows, event, id)
<1> USE DEF Ends
<1>1. mem' = m \/ mem' = [m EXCEPT !.returned = m.returned \cup {id}]
  BY DEF Handler, Returns
<1>2. PICK n \in 0..Len(rows) : db' = db \cup Persisted(rows, n)
  BY DEF Handler
<1>3. /\ db \subseteq db'
      /\ \A row \in db' : row \in db \/ \E i \in 1..Len(rows) : row = rows[i]
  <2>1. \A row \in Persisted(rows, n) : \E i \in 1..n : row = rows[i]
    BY DEF Persisted
  <2>2. 1..n \subseteq 1..Len(rows)
    OBVIOUS
  <2> QED
    BY <1>2, <2>1, <2>2
<1>4. trail' = trail \/ trail' = Append(trail, event)
  BY DEF Handler
<1>5. CASE mem' = m
  BY <1>3, <1>4, <1>5
<1>6. CASE mem' = [m EXCEPT !.returned = m.returned \cup {id}]
  <2>1. DOMAIN mem' = Fields
    BY <1>6
  <2>2. \A f \in Fields : mem'[f] = IF f = "returned" THEN m.returned \cup {id}
                                    ELSE m[f]
    BY <1>6
  <2>3. /\ mem'.versions = m.versions
        /\ mem'.artifacts = m.artifacts
        /\ mem'.anchors = m.anchors
        /\ mem'.proposals = m.proposals
        /\ mem'.reports = m.reports
        /\ mem'.decisions = m.decisions
        /\ mem'.assertions = m.assertions
        /\ mem'.returned = m.returned \cup {id}
    BY <2>2 DEF Fields
  <2> QED
    BY <1>3, <1>4, <2>1, <2>3
<1> QED
  BY <1>1, <1>5, <1>6

LEMMA OneIsMade ==
    ASSUME TypeOK, NEW kind \in Kinds, Make(kind)
    PROVE  /\ Fresh(kind) \in Ids(kind) /\ Fresh(kind) \in Nat
           /\ made' \in [Kinds -> Nat]
           /\ \A k \in Kinds : made'[k] = IF k = kind THEN made[k] + 1
                                          ELSE made[k]
           /\ \A k \in Kinds : made[k] <= made'[k] /\ made'[k] <= MaxMade[k]
           /\ \A k \in Kinds : 1..made[k] \subseteq 1..made'[k]
           /\ Fresh(kind) \in 1..made'[kind]
           /\ Fresh(kind) \notin 1..made[kind]
<1>1. made \in [Kinds -> Nat] /\ MaxMade \in [Kinds -> Nat]
  BY DEF TypeOK
<1>2. \A k \in Kinds : made[k] <= MaxMade[k]
  BY DEF TypeOK
<1>3. made' = [made EXCEPT ![kind] = made[kind] + 1]
      /\ made[kind] < MaxMade[kind]
  BY DEF Make
<1> QED
  BY <1>1, <1>2, <1>3 DEF Fresh, Ids

(* What the type invariant says of a memory of which only some fields      *)
(* changed is split by field.                                              *)
RowsAreTyped == \A row \in db : row.id \in Nat /\ row.parent \in Nat

LEMMA RowsStayTyped ==
    ASSUME TypeOK, NEW rows, \A i \in 1..Len(rows) :
              rows[i].id \in Nat /\ rows[i].parent \in Nat,
           \A row \in db' : row \in db \/ \E i \in 1..Len(rows) : row = rows[i]
    PROVE  RowsAreTyped'
  BY DEF TypeOK, RowsAreTyped

LEMMA TrailStaysTyped ==
    ASSUME TypeOK, NEW e \in Events,
           trail' = trail \/ trail' = Append(trail, e)
    PROVE  TrailGrows /\ trail' \in Seq(Events)
<1>1. trail \in Seq(Events)
  BY DEF TypeOK
<1>2. trail' \in Seq(Events)
  BY <1>1
<1> QED
  BY <1>2 DEF TrailGrows

LEMMA IngestKeepsIInv ==
    ASSUME IInv, NEW source \in Sources, IngestFixture(source)
    PROVE  IInv'
<1>1. PICK v, m, rows :
         /\ v = Fresh("version")
         /\ m = [mem EXCEPT !.versions = With(mem.versions, v, source)]
         /\ rows = <<Row("source_documents", v, 0),
                     Row("source_versions", v, v),
                     Row("acquisition_receipts", v, v)>>
         /\ Handler(m, rows, Event("ingest_fixture", v), <<"version", v>>)
         /\ Make("version")
  BY DEF IngestFixture
<1>2. TypeOK /\ IdsAreMade /\ NothingDangles
  BY DEF IInv
<1>3. /\ v \in Ids("version") /\ v \in Nat /\ v \in 1..made'["version"]
      /\ v \notin 1..made["version"]
      /\ made' \in [Kinds -> Nat]
      /\ \A k \in Kinds : made[k] <= made'[k] /\ made'[k] <= MaxMade[k]
      /\ \A k \in Kinds : 1..made[k] \subseteq 1..made'[k]
  BY <1>1, <1>2, OneIsMade DEF Kinds
<1>4. /\ DOMAIN m = Fields
      /\ m.versions = With(mem.versions, v, source)
      /\ m.artifacts = mem.artifacts
      /\ m.anchors = mem.anchors
      /\ m.proposals = mem.proposals
      /\ m.reports = mem.reports
      /\ m.decisions = mem.decisions
      /\ m.assertions = mem.assertions
      /\ m.returned = mem.returned
  BY <1>1, <1>2 DEF IdsAreMade, Fields
<1>5. /\ Len(rows) = 3
      /\ \A i \in 1..3 : /\ rows[i].id \in Nat /\ rows[i].parent \in Nat
                         /\ rows[i].table \notin
                               {"acceptance_decisions", "assertions"}
  BY <1>1, <1>3 DEF Row
<1>6. /\ DOMAIN mem' = Fields
      /\ mem'.versions = With(mem.versions, v, source)
      /\ mem'.artifacts = mem.artifacts
      /\ mem'.anchors = mem.anchors
      /\ mem'.proposals = mem.proposals
      /\ mem'.reports = mem.reports
      /\ mem'.decisions = mem.decisions
      /\ mem'.assertions = mem.assertions
      /\ mem'.returned = mem.returned \/
         mem'.returned = mem.returned \cup {<<"version", v>>}
      /\ trail' = trail \/ trail' = Append(trail, Event("ingest_fixture", v))
      /\ db \subseteq db'
      /\ \A row \in db' : row \in db \/ \E i \in 1..Len(rows) : row = rows[i]
  <2>1. Ends(m, rows, Event("ingest_fixture", v), <<"version", v>>)
    BY <1>1, <1>4, <1>5, HandlerEnds
  <2> QED
    BY <1>4, <2>1 DEF Ends
<1>7. RowsAreTyped'
  BY <1>2, <1>5, <1>6, RowsStayTyped
<1>8. TrailGrows /\ trail' \in Seq(Events)
  <2>1. Event("ingest_fixture", v) \in Events
    BY <1>3 DEF Event, Events
  <2> QED
    BY <1>2, <1>3, <1>6, <2>1, TrailStaysTyped
<1>9. /\ DOMAIN mem'.versions = DOMAIN mem.versions \cup {v}
      /\ mem'.versions[v] = source
      /\ Grown(mem.versions, mem'.versions)
  BY <1>2, <1>3, <1>6 DEF With, Grown, IdsAreMade
<1>10. TypeOK'
  <2>1. /\ DOMAIN mem'.versions \subseteq Ids("version")
        /\ \A w \in DOMAIN mem'.versions : mem'.versions[w] \in Sources
    BY <1>2, <1>3, <1>9 DEF TypeOK, Grown
  <2>2. mem'.returned \subseteq Kinds \X Nat
    <3>1. <<"version", v>> \in Kinds \X Nat
      BY <1>3 DEF Kinds
    <3> QED
      BY <1>2, <1>6, <3>1 DEF TypeOK
  <2> QED
    BY <1>2, <1>3, <1>6, <1>7, <1>8, <2>1, <2>2 DEF TypeOK, RowsAreTyped
<1>11. IdsAreMade'
  BY <1>2, <1>3, <1>6, <1>9 DEF IdsAreMade, Kinds
<1>12. NothingDangles'
  BY <1>2, <1>6, <1>9 DEF NothingDangles
<1>13. OnlyAdds
  <2>1. \A row \in db' : row \in db \/
           row.table \notin {"acceptance_decisions", "assertions"}
    BY <1>5, <1>6
  <2>2. \A k \in Kinds : made'[k] \in Nat /\ made[k] <= made'[k]
    BY <1>3
  <2>3. ArtifactsGrow
    BY <1>6 DEF ArtifactsGrow
  <2>4. /\ Grown(mem.anchors, mem'.anchors)
        /\ Grown(mem.proposals, mem'.proposals)
    BY <1>6 DEF Grown
  <2> QED
    BY <1>6, <1>8, <1>9, <2>1, <2>2, <2>3, <2>4 DEF OnlyAdds
<1> QED
  BY <1>10, <1>11, <1>12, <1>13, AddingKeepsIInv

LEMMA CanonicalizeKeepsIInv ==
    ASSUME IInv, NEW v \in Ids("version"), Canonicalize(v)
    PROVE  IInv'
<1>1. PICK a, m, rows :
         /\ a = Fresh("artifact")
         /\ m = [mem EXCEPT !.artifacts = Append(mem.artifacts, [id |-> a, version |-> v])]
         /\ rows = <<Row("text_artifacts", a, v)>>
         /\ Handler(m, rows, Event("canonicalize", a), <<"artifact", a>>)
         /\ Make("artifact")
  BY DEF Canonicalize
<1>2. TypeOK /\ IdsAreMade /\ NothingDangles
  BY DEF IInv
<1>3. /\ a \in Ids("artifact") /\ a \in Nat /\ a \in 1..made'["artifact"]
      /\ a \notin 1..made["artifact"]
      /\ made' \in [Kinds -> Nat]
      /\ \A k \in Kinds : made[k] <= made'[k] /\ made'[k] <= MaxMade[k]
      /\ \A k \in Kinds : 1..made[k] \subseteq 1..made'[k]
  BY <1>1, <1>2, OneIsMade DEF Kinds
<1>4. v \in DOMAIN mem.versions /\ v \in Ids("version") /\ v \in Nat
  <2>1. MaxMade["version"] \in Nat
    BY DEF Kinds
  <2> QED
    BY <1>2, <2>1 DEF NothingDangles, Canonicalize, Holds, Ids
<1>5. /\ DOMAIN m = Fields
      /\ m.versions = mem.versions
      /\ m.artifacts = Append(mem.artifacts, [id |-> a, version |-> v])
      /\ m.anchors = mem.anchors
      /\ m.proposals = mem.proposals
      /\ m.reports = mem.reports
      /\ m.decisions = mem.decisions
      /\ m.assertions = mem.assertions
      /\ m.returned = mem.returned
  BY <1>1, <1>2 DEF IdsAreMade, Fields
<1>6. /\ Len(rows) = 1
      /\ \A i \in 1..1 : /\ rows[i].id \in Nat /\ rows[i].parent \in Nat
                         /\ rows[i].table \notin
                               {"acceptance_decisions", "assertions"}
  BY <1>1, <1>3, <1>4 DEF Row
<1>7. /\ DOMAIN mem' = Fields
      /\ mem'.versions = mem.versions
      /\ mem'.artifacts = Append(mem.artifacts, [id |-> a, version |-> v])
      /\ mem'.anchors = mem.anchors
      /\ mem'.proposals = mem.proposals
      /\ mem'.reports = mem.reports
      /\ mem'.decisions = mem.decisions
      /\ mem'.assertions = mem.assertions
      /\ mem'.returned = mem.returned \/
         mem'.returned = mem.returned \cup {<<"artifact", a>>}
      /\ trail' = trail \/ trail' = Append(trail, Event("canonicalize", a))
      /\ db \subseteq db'
      /\ \A row \in db' : row \in db \/ \E i \in 1..Len(rows) : row = rows[i]
  <2>1. Ends(m, rows, Event("canonicalize", a), <<"artifact", a>>)
    BY <1>1, <1>5, <1>6, HandlerEnds
  <2> QED
    BY <1>5, <2>1 DEF Ends
<1>8. RowsAreTyped'
  BY <1>2, <1>6, <1>7, RowsStayTyped
<1>9. TrailGrows /\ trail' \in Seq(Events)
  <2>1. Event("canonicalize", a) \in Events
    BY <1>3 DEF Event, Events
  <2> QED
    BY <1>2, <1>7, <2>1, TrailStaysTyped
<1>10. mem'.returned \subseteq Kinds \X Nat
  <2>1. <<"artifact", a>> \in Kinds \X Nat
    BY <1>3 DEF Kinds
  <2> QED
    BY <1>2, <1>7, <2>1 DEF TypeOK
<1>11. \A row \in db' : row \in db \/
          row.table \notin {"acceptance_decisions", "assertions"}
  BY <1>6, <1>7
<1>12. \A k \in Kinds : made'[k] \in Nat /\ made[k] <= made'[k]
  BY <1>3
<1>13. TypeOK'
  <2>1. mem'.artifacts \in Seq([id : Ids("artifact"), version : Ids("version")])
    <3>1. [id |-> a, version |-> v]
             \in [id : Ids("artifact"), version : Ids("version")]
      BY <1>3, <1>4
    <3> QED
      BY <1>2, <1>7, <3>1 DEF TypeOK
  <2> QED
    BY <1>2, <1>3, <1>7, <1>8, <1>9, <1>10, <2>1 DEF TypeOK, RowsAreTyped
<1>14. IdsAreMade'
  BY <1>2, <1>3, <1>7 DEF IdsAreMade, Kinds
<1>15. NothingDangles'
  BY <1>2, <1>7 DEF NothingDangles
<1>16. OnlyAdds
  <2>1. ArtifactsGrow
    BY <1>7 DEF ArtifactsGrow
  <2>2. /\ Grown(mem.versions, mem'.versions)
        /\ Grown(mem.anchors, mem'.anchors)
        /\ Grown(mem.proposals, mem'.proposals)
    BY <1>7 DEF Grown
  <2> QED
    BY <1>7, <1>9, <1>11, <1>12, <2>1, <2>2 DEF OnlyAdds
<1> QED
  BY <1>13, <1>14, <1>15, <1>16, AddingKeepsIInv

LEMMA ProposeKeepsIInv ==
    ASSUME IInv, NEW v \in Ids("version"),
           NEW support \in SUBSET Edges, NEW draft \in Drafts,
           Propose(v, support, draft)
    PROVE  IInv'
<1>1. PICK p, m, rows :
         /\ p = Fresh("proposal")
         /\ m = [mem EXCEPT !.proposals = With(mem.proposals, p, Proposal(v, support, draft))]
         /\ rows = <<Row("assertion_proposals", p, v)>>
         /\ Handler(m, rows, Event("propose", p), <<"proposal", p>>)
         /\ Make("proposal")
  BY DEF Propose
<1>2. TypeOK /\ IdsAreMade /\ NothingDangles
  BY DEF IInv
<1>3. /\ p \in Ids("proposal") /\ p \in Nat /\ p \in 1..made'["proposal"]
      /\ p \notin 1..made["proposal"]
      /\ made' \in [Kinds -> Nat]
      /\ \A k \in Kinds : made[k] <= made'[k] /\ made'[k] <= MaxMade[k]
      /\ \A k \in Kinds : 1..made[k] \subseteq 1..made'[k]
  BY <1>1, <1>2, OneIsMade DEF Kinds
<1>4. /\ v \in DOMAIN mem.versions /\ v \in Nat
      /\ AnchorsOf(support) \subseteq DOMAIN mem.anchors
  <2>1. MaxMade["version"] \in Nat
    BY DEF Kinds
  <2>2. /\ <<"version", v>> \in mem.returned
        /\ \A n \in AnchorsOf(support) : <<"anchor", n>> \in mem.returned
    BY DEF Propose, Holds
  <2>3. \A n : <<"anchor", n>>[1] = "anchor" /\ <<"anchor", n>>[2] = n
    OBVIOUS
  <2>4. AnchorsOf(support) \subseteq DOMAIN mem.anchors
    BY <1>2, <2>2, <2>3 DEF NothingDangles
  <2> QED
    BY <1>2, <2>1, <2>2, <2>4 DEF NothingDangles, Ids
<1>5. /\ DOMAIN m = Fields
      /\ m.versions = mem.versions
      /\ m.artifacts = mem.artifacts
      /\ m.anchors = mem.anchors
      /\ m.proposals = With(mem.proposals, p, Proposal(v, support, draft))
      /\ m.reports = mem.reports
      /\ m.decisions = mem.decisions
      /\ m.assertions = mem.assertions
      /\ m.returned = mem.returned
  BY <1>1, <1>2 DEF IdsAreMade, Fields
<1>6. /\ Len(rows) = 1
      /\ \A i \in 1..1 : /\ rows[i].id \in Nat /\ rows[i].parent \in Nat
                         /\ rows[i].table \notin
                               {"acceptance_decisions", "assertions"}
  BY <1>1, <1>3, <1>4 DEF Row
<1>7. /\ DOMAIN mem' = Fields
      /\ mem'.versions = mem.versions
      /\ mem'.artifacts = mem.artifacts
      /\ mem'.anchors = mem.anchors
      /\ mem'.proposals = With(mem.proposals, p, Proposal(v, support, draft))
      /\ mem'.reports = mem.reports
      /\ mem'.decisions = mem.decisions
      /\ mem'.assertions = mem.assertions
      /\ mem'.returned = mem.returned \/
         mem'.returned = mem.returned \cup {<<"proposal", p>>}
      /\ trail' = trail \/ trail' = Append(trail, Event("propose", p))
      /\ db \subseteq db'
      /\ \A row \in db' : row \in db \/ \E i \in 1..Len(rows) : row = rows[i]
  <2>1. Ends(m, rows, Event("propose", p), <<"proposal", p>>)
    BY <1>1, <1>5, <1>6, HandlerEnds
  <2> QED
    BY <1>5, <2>1 DEF Ends
<1>8. RowsAreTyped'
  BY <1>2, <1>6, <1>7, RowsStayTyped
<1>9. TrailGrows /\ trail' \in Seq(Events)
  <2>1. Event("propose", p) \in Events
    BY <1>3 DEF Event, Events
  <2> QED
    BY <1>2, <1>7, <2>1, TrailStaysTyped
<1>10. mem'.returned \subseteq Kinds \X Nat
  <2>1. <<"proposal", p>> \in Kinds \X Nat
    BY <1>3 DEF Kinds
  <2> QED
    BY <1>2, <1>7, <2>1 DEF TypeOK
<1>11. \A row \in db' : row \in db \/
          row.table \notin {"acceptance_decisions", "assertions"}
  BY <1>6, <1>7
<1>12. \A k \in Kinds : made'[k] \in Nat /\ made[k] <= made'[k]
  BY <1>3
<1>13. /\ DOMAIN mem'.proposals = DOMAIN mem.proposals \cup {p}
       /\ mem'.proposals[p].version = v
       /\ mem'.proposals[p].support = support
       /\ Grown(mem.proposals, mem'.proposals)
  <2>1. p \notin DOMAIN mem.proposals
    BY <1>2, <1>3 DEF IdsAreMade
  <2> QED
    BY <1>7, <2>1 DEF With, Grown, Proposal
<1>14. TypeOK'
  <2>1. \A q \in DOMAIN mem'.proposals :
           AnchorsOf(mem'.proposals[q].support)
              \subseteq DOMAIN mem'.anchors
    BY <1>2, <1>4, <1>7, <1>13 DEF TypeOK, Grown
  <2>2. DOMAIN mem'.reports \subseteq DOMAIN mem'.proposals
    BY <1>2, <1>7, <1>13 DEF TypeOK
  <2> QED
    BY <1>2, <1>3, <1>7, <1>8, <1>9, <1>10, <2>1, <2>2
       DEF TypeOK, RowsAreTyped
<1>15. IdsAreMade'
  BY <1>2, <1>3, <1>7, <1>13 DEF IdsAreMade, Kinds
<1>16. NothingDangles'
  <2>1. \A q \in DOMAIN mem'.proposals :
           mem'.proposals[q].version \in DOMAIN mem'.versions
    BY <1>2, <1>4, <1>7, <1>13 DEF NothingDangles, Grown
  <2> QED
    BY <1>2, <1>7, <1>13, <2>1 DEF NothingDangles
<1>17. OnlyAdds
  <2>1. ArtifactsGrow
    BY <1>7 DEF ArtifactsGrow
  <2>2. /\ Grown(mem.versions, mem'.versions)
        /\ Grown(mem.anchors, mem'.anchors)
    BY <1>7 DEF Grown
  <2>3. \A q \in DOMAIN mem'.proposals \ DOMAIN mem.proposals :
           q \notin 1..made["proposal"]
    BY <1>3, <1>13
  <2> QED
    BY <1>7, <1>9, <1>11, <1>12, <1>13, <2>1, <2>2, <2>3 DEF OnlyAdds
<1> QED
  BY <1>14, <1>15, <1>16, <1>17, AddingKeepsIInv

LEMMA AddAnchorKeepsIInv ==
    ASSUME IInv, NEW a \in Ids("artifact"), AddAnchor(a)
    PROVE  IInv'
<1>1. PICK n, m :
         /\ n = Fresh("anchor")
         /\ m = [mem EXCEPT !.anchors = With(mem.anchors, n, a)]
         /\ mem' = [m EXCEPT !.returned = m.returned \cup {<<"anchor", n>>}]
         /\ Make("anchor")
         /\ UNCHANGED <<db, trail>>
  BY DEF AddAnchor, Returns
<1>2. TypeOK /\ IdsAreMade /\ NothingDangles
  BY DEF IInv
<1>3. /\ n \in Nat /\ n \in 1..made'["anchor"]
      /\ n \notin 1..made["anchor"]
      /\ made' \in [Kinds -> Nat]
      /\ \A k \in Kinds : made[k] <= made'[k] /\ made'[k] <= MaxMade[k]
      /\ \A k \in Kinds : 1..made[k] \subseteq 1..made'[k]
  BY <1>1, <1>2, OneIsMade DEF Kinds
<1>4. DOMAIN m = Fields /\ DOMAIN mem = Fields
  BY <1>1, <1>2 DEF IdsAreMade
<1>5. /\ DOMAIN mem' = Fields
      /\ mem'.versions = mem.versions
      /\ mem'.artifacts = mem.artifacts
      /\ mem'.anchors = With(mem.anchors, n, a)
      /\ mem'.proposals = mem.proposals
      /\ mem'.reports = mem.reports
      /\ mem'.decisions = mem.decisions
      /\ mem'.assertions = mem.assertions
      /\ mem'.returned = mem.returned \cup {<<"anchor", n>>}
  BY <1>1, <1>4 DEF Fields
<1>6. /\ DOMAIN mem'.anchors = DOMAIN mem.anchors \cup {n}
      /\ mem'.anchors[n] = a
      /\ Grown(mem.anchors, mem'.anchors)
  <2>1. n \notin DOMAIN mem.anchors
    BY <1>2, <1>3 DEF IdsAreMade
  <2> QED
    BY <1>5, <2>1 DEF With, Grown
<1>7. mem'.returned \subseteq Kinds \X Nat
  <2>1. <<"anchor", n>> \in Kinds \X Nat
    BY <1>3 DEF Kinds
  <2> QED
    BY <1>2, <1>5, <2>1 DEF TypeOK
<1>8. TypeOK'
  <2>1. mem'.anchors \in [DOMAIN mem'.anchors -> Ids("artifact")]
    BY <1>2, <1>5, <1>6 DEF TypeOK, With, Grown
  <2>2. \A q \in DOMAIN mem'.proposals :
           AnchorsOf(mem'.proposals[q].support)
              \subseteq DOMAIN mem'.anchors
    BY <1>2, <1>5, <1>6 DEF TypeOK
  <2> QED
    BY <1>1, <1>2, <1>3, <1>5, <1>7, <2>1, <2>2 DEF TypeOK
<1>9. IdsAreMade'
  BY <1>2, <1>3, <1>5, <1>6 DEF IdsAreMade, Kinds
<1>10. NothingDangles'
  BY <1>2, <1>5, <1>6 DEF NothingDangles
<1>11. OnlyAdds
  <2>1. ArtifactsGrow /\ TrailGrows
    BY <1>1, <1>5 DEF ArtifactsGrow, TrailGrows
  <2>2. /\ Grown(mem.versions, mem'.versions)
        /\ Grown(mem.proposals, mem'.proposals)
    BY <1>5 DEF Grown
  <2>3. \A k \in Kinds : made'[k] \in Nat /\ made[k] <= made'[k]
    BY <1>3
  <2> QED
    BY <1>1, <1>5, <1>6, <2>1, <2>2, <2>3 DEF OnlyAdds
<1> QED
  BY <1>8, <1>9, <1>10, <1>11, AddingKeepsIInv

(* verify replaces the report by one that says the same as the verifier    *)
(* does of the memory it leaves; of an accepted proposal it said "pass".   *)
LEMMA VerifyKeepsIInv ==
    ASSUME IInv, NEW p \in Ids("proposal"), Verify(p)
    PROVE  IInv'
<1>1. PICK r, m :
         /\ m = [mem EXCEPT !.reports =
                    With(mem.reports, p, [id |-> r, overall |-> Verdict(p)])]
         /\ mem' = [m EXCEPT !.returned = m.returned \cup {<<"report", r>>}]
         /\ r = Fresh("report")
         /\ Make("report")
         /\ UNCHANGED <<db, trail>>
  BY DEF Verify, Returns
<1>2. TypeOK /\ IdsAreMade /\ NothingDangles
  BY DEF IInv
<1>3. /\ r \in Nat
      /\ made' \in [Kinds -> Nat]
      /\ \A k \in Kinds : made'[k] <= MaxMade[k]
      /\ \A k \in Kinds \ {"report"} : made'[k] = made[k]
  BY <1>1, <1>2, OneIsMade DEF Kinds
<1>4. DOMAIN m = Fields /\ DOMAIN mem = Fields
  BY <1>1, <1>2 DEF IdsAreMade
<1>5. PICK report : report.overall = Verdict(p) /\
         /\ DOMAIN mem' = Fields
         /\ mem'.versions = mem.versions
         /\ mem'.artifacts = mem.artifacts
         /\ mem'.anchors = mem.anchors
         /\ mem'.proposals = mem.proposals
         /\ mem'.reports = With(mem.reports, p, report)
         /\ mem'.decisions = mem.decisions
         /\ mem'.assertions = mem.assertions
         /\ mem'.returned = mem.returned \cup {<<"report", r>>}
  <2>1. PICK report : report = [id |-> r, overall |-> Verdict(p)]
    OBVIOUS
  <2> QED
    BY <1>1, <1>4, <2>1 DEF Fields
<1>6. /\ DOMAIN mem'.reports = DOMAIN mem.reports \cup {p}
      /\ mem'.reports[p].overall = Verdict(p)
      /\ \A q \in DOMAIN mem.reports \ {p} : mem'.reports[q] = mem.reports[q]
  BY <1>5 DEF With
<1>7. /\ p \in DOMAIN mem.proposals
      /\ OfVersion(mem.proposals[p].version) # {}
  <2>1. <<"proposal", p>> \in mem.returned
    BY DEF Verify, Holds
  <2> QED
    BY <1>2, <2>1 DEF NothingDangles, Verify
<1>8. TypeOK'
  <2>1. mem'.returned \subseteq Kinds \X Nat
    <3>1. <<"report", r>> \in Kinds \X Nat
      BY <1>3 DEF Kinds
    <3> QED
      BY <1>2, <1>5, <3>1 DEF TypeOK
  <2>2. DOMAIN mem'.reports \subseteq DOMAIN mem'.proposals
    BY <1>2, <1>5, <1>6, <1>7 DEF TypeOK
  <2>3. \A d \in DOMAIN mem'.decisions :
           mem'.decisions[d].proposal \in DOMAIN mem'.reports
    BY <1>2, <1>5, <1>6 DEF TypeOK
  <2> QED
    BY <1>1, <1>2, <1>3, <1>5, <2>1, <2>2, <2>3 DEF TypeOK
<1>9. IdsAreMade'
  BY <1>2, <1>3, <1>5 DEF IdsAreMade, Kinds
<1>10. NothingDangles'
  BY <1>2, <1>5 DEF NothingDangles
<1>11. ReportsStand'
  <2>1. /\ ArtifactsGrow
        /\ Grown(mem.versions, mem'.versions)
        /\ Grown(mem.anchors, mem'.anchors)
        /\ Grown(mem.proposals, mem'.proposals)
    BY <1>5 DEF ArtifactsGrow, Grown
  <2> SUFFICES ASSUME NEW q \in DOMAIN mem.reports \cup {p}
               PROVE  /\ OfVersion(mem.proposals[q].version)' # {}
                      /\ mem'.reports[q].overall = Verdict(q)'
    BY <1>6 DEF ReportsStand
  <2>2. /\ q \in DOMAIN mem.proposals
        /\ mem.proposals[q].version \in DOMAIN mem.versions
        /\ OfVersion(mem.proposals[q].version) # {}
    BY <1>2, <1>7 DEF IInv, TypeOK, NothingDangles, ReportsStand
  <2>3. mem'.reports[q].overall = Verdict(q)
    BY <1>6 DEF IInv, ReportsStand
  <2> QED
    BY <1>2, <1>8, <2>1, <2>2, <2>3, VerdictStands
<1>12. AcceptedPassed'
  <2> SUFFICES ASSUME NEW d \in mem.assertions
               PROVE  mem'.reports[mem.decisions[d].proposal].overall = "pass"
    BY <1>5 DEF AcceptedPassed
  <2>1. /\ mem.decisions[d].proposal \in DOMAIN mem.reports
        /\ mem.reports[mem.decisions[d].proposal].overall = "pass"
    BY DEF IInv, TypeOK, AcceptedPassed
  <2>2. mem.decisions[d].proposal = p => Verdict(p) = "pass"
    BY <2>1 DEF IInv, ReportsStand
  <2> QED
    BY <1>6, <2>1, <2>2
<1>13. OneInMemory'
  BY <1>5 DEF IInv, OneInMemory
<1>14. DecisionsAreRowsOnce'
  <2>1. /\ Rows("acceptance_decisions")' = Rows("acceptance_decisions")
        /\ Rows("assertions")' = Rows("assertions")
    BY <1>1 DEF Rows
  <2>2. \A q : AlreadyAccepted(q)' <=> AlreadyAccepted(q)
    BY <1>5 DEF AlreadyAccepted
  <2> QED
    BY <1>3, <1>5, <2>1, <2>2 DEF IInv, DecisionsAreRowsOnce, Kinds
<1>15. AcceptanceIsAudited'
  BY <1>1, <1>5 DEF IInv, AcceptanceIsAudited, Rows
<1> QED
  BY <1>8, <1>9, <1>10, <1>11, <1>12, <1>13, <1>14, <1>15 DEF IInv

(* approve: the proposal is not accepted yet, so neither memory nor the    *)
(* tables have a decision that accepted it; what approve puts in memory or *)
(* in the tables comes after its event.                                    *)
LEMMA ApproveKeepsIInv ==
    ASSUME IInv, NEW p \in Ids("proposal"), NEW decision \in {"accept", "reject"},
           NEW outcome \in {"unaudited", "in_memory", "done"},
           Approve(p, decision, outcome)
    PROVE  IInv'
<1>1. PICK d, m, dec :
         /\ d = Fresh("decision")
         /\ dec = [proposal |-> p, decision |-> decision,
                   report |-> mem.reports[p].id]
         /\ m = [mem EXCEPT !.decisions = With(mem.decisions, d, dec)]
         /\ \/ /\ decision = "accept" /\ outcome # "unaudited"
               /\ mem' = [m EXCEPT !.assertions = m.assertions \cup {d}]
               /\ db' = db \/ db' = db \cup AcceptanceRows(p, d)
               /\ trail' = Append(trail, Event("decision", d))
            \/ /\ mem' = m
               /\ db' = db
               /\ trail' = trail \/ trail' = Append(trail, Event("decision", d))
         /\ Make("decision")
  BY DEF Approve, Audited
<1>2. /\ p \in DOMAIN mem.reports
      /\ ~AlreadyAccepted(p)
      /\ decision = "accept" => mem.reports[p].overall = "pass"
  BY DEF Approve, MayAccept
<1>3. TypeOK /\ IdsAreMade /\ NothingDangles
  BY DEF IInv
<1>4. /\ d \in Nat /\ d \in 1..made'["decision"]
      /\ d \notin 1..made["decision"]
      /\ made' \in [Kinds -> Nat]
      /\ \A k \in Kinds : made'[k] <= MaxMade[k]
      /\ \A k \in Kinds \ {"decision"} : made'[k] = made[k]
      /\ 1..made["decision"] \subseteq 1..made'["decision"]
  BY <1>1, <1>3, OneIsMade DEF Kinds
<1>5. DOMAIN m = Fields /\ DOMAIN mem = Fields
  BY <1>1, <1>3 DEF IdsAreMade
<1>6. /\ DOMAIN mem' = Fields
      /\ mem'.versions = mem.versions
      /\ mem'.artifacts = mem.artifacts
      /\ mem'.anchors = mem.anchors
      /\ mem'.proposals = mem.proposals
      /\ mem'.reports = mem.reports
      /\ mem'.decisions = With(mem.decisions, d, dec)
      /\ mem'.assertions = mem.assertions \/
         (decision = "accept" /\ mem'.assertions = mem.assertions \cup {d}
            /\ trail' = Append(trail, Event("decision", d)))
      /\ mem'.returned = mem.returned
      /\ db' = db \/
         (db' = db \cup AcceptanceRows(p, d)
            /\ mem'.assertions = mem.assertions \cup {d}
            /\ trail' = Append(trail, Event("decision", d)))
      /\ trail' = trail \/ trail' = Append(trail, Event("decision", d))
  <2>1. /\ m.versions = mem.versions
        /\ m.artifacts = mem.artifacts
        /\ m.anchors = mem.anchors
        /\ m.proposals = mem.proposals
        /\ m.reports = mem.reports
        /\ m.decisions = With(mem.decisions, d, dec)
        /\ m.assertions = mem.assertions
        /\ m.returned = mem.returned
    BY <1>1, <1>5 DEF Fields
  <2>2. CASE mem' = m /\ db' = db
    BY <1>1, <1>5, <2>1, <2>2
  <2>3. CASE /\ decision = "accept"
             /\ mem' = [m EXCEPT !.assertions = m.assertions \cup {d}]
             /\ db' = db \/ db' = db \cup AcceptanceRows(p, d)
             /\ trail' = Append(trail, Event("decision", d))
    <3>1. /\ DOMAIN mem' = Fields
          /\ mem'.versions = m.versions
          /\ mem'.artifacts = m.artifacts
          /\ mem'.anchors = m.anchors
          /\ mem'.proposals = m.proposals
          /\ mem'.reports = m.reports
          /\ mem'.decisions = m.decisions
          /\ mem'.assertions = m.assertions \cup {d}
          /\ mem'.returned = m.returned
      BY <1>5, <2>3 DEF Fields
    <3> QED
      BY <2>1, <2>3, <3>1
  <2> QED
    BY <1>1, <2>2, <2>3
<1>7. /\ DOMAIN mem'.decisions = DOMAIN mem.decisions \cup {d}
      /\ mem'.decisions[d].proposal = p
      /\ d \notin DOMAIN mem.decisions
      /\ \A e \in DOMAIN mem.decisions : mem'.decisions[e] = mem.decisions[e]
  <2>1. d \notin DOMAIN mem.decisions
    BY <1>3, <1>4 DEF IdsAreMade
  <2>2. dec.proposal = p
    BY <1>1
  <2> QED
    BY <1>6, <2>1, <2>2 DEF With
<1>8. /\ mem.assertions \subseteq DOMAIN mem.decisions
      /\ p \in DOMAIN mem.proposals
      /\ \A e \in mem.assertions : mem.decisions[e].proposal # p
  BY <1>2, <1>3 DEF TypeOK, AlreadyAccepted
<1>9. TypeOK'
  <2>1. /\ \A e \in DOMAIN mem'.decisions :
              mem'.decisions[e].proposal \in DOMAIN mem'.reports
        /\ mem'.assertions \subseteq DOMAIN mem'.decisions
    BY <1>2, <1>3, <1>6, <1>7 DEF TypeOK
  <2>2. \A row \in AcceptanceRows(p, d) : row.id \in Nat /\ row.parent \in Nat
    <3>1. p \in Nat
      BY DEF Ids
    <3> QED
      BY <1>4, <3>1 DEF AcceptanceRows, Row
  <2>3. \A row \in db' : row.id \in Nat /\ row.parent \in Nat
    BY <1>3, <1>6, <2>2 DEF TypeOK
  <2>4. trail' \in Seq(Events)
    <3>1. Event("decision", d) \in Events
      BY <1>4 DEF Event, Events
    <3> QED
      BY <1>3, <1>6, <3>1, TrailStaysTyped
  <2> QED
    BY <1>3, <1>4, <1>6, <2>1, <2>3, <2>4 DEF TypeOK
<1>10. IdsAreMade'
  BY <1>3, <1>4, <1>6, <1>7 DEF IdsAreMade, Kinds
<1>11. NothingDangles'
  BY <1>3, <1>6 DEF NothingDangles
<1>12. ReportsStand'
  <2>1. /\ ArtifactsGrow
        /\ Grown(mem.versions, mem'.versions)
        /\ Grown(mem.anchors, mem'.anchors)
        /\ Grown(mem.proposals, mem'.proposals)
    BY <1>6 DEF ArtifactsGrow, Grown
  <2> SUFFICES ASSUME NEW q \in DOMAIN mem.reports
               PROVE  /\ OfVersion(mem.proposals[q].version)' # {}
                      /\ mem.reports[q].overall = Verdict(q)'
    BY <1>6 DEF ReportsStand
  <2>2. /\ q \in DOMAIN mem.proposals
        /\ mem.proposals[q].version \in DOMAIN mem.versions
        /\ OfVersion(mem.proposals[q].version) # {}
        /\ mem.reports[q].overall = Verdict(q)
    BY <1>3 DEF IInv, TypeOK, NothingDangles, ReportsStand
  <2> QED
    BY <1>3, <1>9, <2>1, <2>2, VerdictStands
<1>13. AcceptedPassed'
  BY <1>2, <1>6, <1>7, <1>8 DEF IInv, AcceptedPassed
<1>14. OneInMemory'
  BY <1>6, <1>7, <1>8 DEF IInv, OneInMemory
<1>15. DecisionsAreRowsOnce'
  <2>1. \A q : AlreadyAccepted(q) => AlreadyAccepted(q)'
    BY <1>6, <1>7, <1>8 DEF AlreadyAccepted
  <2>2. \A r \in Rows("acceptance_decisions") :
           /\ r.id \in 1..made'["decision"] /\ r.id # d
           /\ r.parent \in 1..made'["proposal"] /\ r.parent # p
           /\ r.parent \in DOMAIN mem'.proposals => AlreadyAccepted(r.parent)'
    BY <1>2, <1>4, <1>6, <1>8, <2>1 DEF IInv, DecisionsAreRowsOnce, Kinds
  <2>3. CASE db' = db
    <3>1. /\ Rows("acceptance_decisions")' = Rows("acceptance_decisions")
          /\ Rows("assertions")' = Rows("assertions")
      BY <2>3 DEF Rows
    <3> QED
      BY <2>2, <3>1 DEF IInv, DecisionsAreRowsOnce
  <2>4. CASE /\ db' = db \cup AcceptanceRows(p, d)
             /\ mem'.assertions = mem.assertions \cup {d}
    <3>1. PICK x, y : /\ x = Row("acceptance_decisions", d, p)
                      /\ y = Row("assertions", d, d)
      OBVIOUS
    <3>2. /\ x.table = "acceptance_decisions" /\ x.id = d /\ x.parent = p
          /\ y.table = "assertions" /\ y.id = d /\ y.parent = d
      BY <3>1 DEF Row
    <3>3. /\ Rows("acceptance_decisions")' = Rows("acceptance_decisions") \cup {x}
          /\ Rows("assertions")' = Rows("assertions") \cup {y}
      BY <2>4, <3>1, <3>2 DEF Rows, AcceptanceRows, Row
    <3>4. p \in 1..made'["proposal"]
      BY <1>3, <1>4, <1>8 DEF IdsAreMade, Kinds
    <3>5. AlreadyAccepted(p)'
      BY <1>7, <2>4 DEF AlreadyAccepted
    <3>6. \A r \in Rows("acceptance_decisions")' :
             /\ r.id \in 1..made'["decision"]
             /\ r.parent \in 1..made'["proposal"]
             /\ r.parent \in DOMAIN mem'.proposals => AlreadyAccepted(r.parent)'
      BY <1>4, <2>2, <3>2, <3>3, <3>4, <3>5
    <3>7. \A r, s \in Rows("acceptance_decisions")' :
             r.id = s.id \/ r.parent = s.parent => r = s
      BY <2>2, <3>2, <3>3 DEF IInv, DecisionsAreRowsOnce
    <3>8. \A r \in Rows("assertions")' :
             /\ r = Row("assertions", r.id, r.id)
             /\ \E s \in Rows("acceptance_decisions")' : s.id = r.id
      BY <3>1, <3>2, <3>3 DEF IInv, DecisionsAreRowsOnce
    <3> QED
      BY <3>6, <3>7, <3>8 DEF DecisionsAreRowsOnce
  <2> QED
    BY <1>6, <2>3, <2>4
<1>16. AcceptanceIsAudited'
  <2>1. \A e \in mem'.assertions \cup {row.id : row \in Rows("assertions")'} :
           \/ e \in mem.assertions \cup {row.id : row \in Rows("assertions")}
           \/ e = d /\ trail' = Append(trail, Event("decision", d))
    BY <1>6 DEF Rows, AcceptanceRows, Row
  <2>2. TrailGrows
    BY <1>6 DEF TrailGrows
  <2>3. trail' = Append(trail, Event("decision", d)) =>
           \E i \in DOMAIN trail' : trail'[i] = Event("decision", d)
    <3>1. trail \in Seq(Events)
      BY <1>3 DEF TypeOK
    <3>2. Len(trail) + 1 \in 1..(Len(trail) + 1)
      BY <3>1
    <3> QED
      BY <3>1, <3>2
  <2>4. \A e \in mem.assertions \cup {row.id : row \in Rows("assertions")} :
           \E i \in DOMAIN trail' : trail'[i] = Event("decision", e)
    BY <1>3, <2>2, EventsStay DEF IInv, AcceptanceIsAudited
  <2> QED
    BY <2>1, <2>3, <2>4 DEF AcceptanceIsAudited
<1> QED
  BY <1>9, <1>10, <1>11, <1>12, <1>13, <1>14, <1>15, <1>16 DEF IInv

(* A new process starts with nothing in memory and does not know what the  *)
(* tables have; the ids in them are never handed out again.                *)
LEMMA RestartKeepsIInv ==
    ASSUME IInv, Restart
    PROVE  IInv'
<1>1. mem' = NoMemory /\ UNCHANGED <<db, trail, made>>
  BY DEF Restart
<1>2. /\ DOMAIN mem' = Fields
      /\ DOMAIN mem'.versions = {}
      /\ mem'.artifacts = <<>>
      /\ mem'.anchors \in [{} -> Ids("artifact")] /\ DOMAIN mem'.anchors = {}
      /\ DOMAIN mem'.proposals = {}
      /\ DOMAIN mem'.reports = {}
      /\ DOMAIN mem'.decisions = {}
      /\ mem'.assertions = {}
      /\ mem'.returned = {}
  BY <1>1 DEF NoMemory, Empty, Fields
<1>3. TypeOK'
  BY <1>1, <1>2 DEF IInv, TypeOK
<1>4. IdsAreMade' /\ NothingDangles' /\ ReportsStand' /\ AcceptedPassed'
      /\ OneInMemory'
  BY <1>1, <1>2 DEF IdsAreMade, NothingDangles, ReportsStand, AcceptedPassed,
     OneInMemory
<1>5. DecisionsAreRowsOnce' /\ AcceptanceIsAudited'
  BY <1>1, <1>2 DEF IInv, DecisionsAreRowsOnce, AcceptanceIsAudited, Rows
<1> QED
  BY <1>3, <1>4, <1>5 DEF IInv

LEMMA InitIsIInv == Init => IInv
<1> SUFFICES ASSUME Init PROVE IInv
  OBVIOUS
<1>1. /\ DOMAIN mem = Fields
      /\ DOMAIN mem.versions = {}
      /\ mem.artifacts = <<>>
      /\ mem.anchors \in [{} -> Ids("artifact")] /\ DOMAIN mem.anchors = {}
      /\ DOMAIN mem.proposals = {}
      /\ DOMAIN mem.reports = {}
      /\ DOMAIN mem.decisions = {}
      /\ mem.assertions = {}
      /\ mem.returned = {}
  BY DEF Init, NoMemory, Empty, Fields
<1>2. /\ db = {} /\ trail = <<>>
      /\ made \in [Kinds -> Nat] /\ \A k \in Kinds : made[k] = 0
  BY DEF Init
<1>3. TypeOK
  BY <1>1, <1>2 DEF TypeOK
<1>4. IdsAreMade /\ NothingDangles /\ ReportsStand /\ AcceptedPassed
      /\ OneInMemory
  BY <1>1 DEF IdsAreMade, NothingDangles, ReportsStand, AcceptedPassed,
     OneInMemory
<1>5. DecisionsAreRowsOnce /\ AcceptanceIsAudited
  BY <1>1, <1>2 DEF DecisionsAreRowsOnce, AcceptanceIsAudited, Rows
<1> QED
  BY <1>3, <1>4, <1>5 DEF IInv

LEMMA StutteringKeepsIInv ==
    ASSUME IInv, UNCHANGED vars
    PROVE  IInv'
<1> USE DEF vars
<1>1. \A v : OfVersion(v)' = OfVersion(v) /\ ArtifactFor(v)' = ArtifactFor(v)
  BY DEF OfVersion, ArtifactFor
<1>2. \A p : Verdict(p)' = Verdict(p)
  BY <1>1 DEF Verdict
<1>3. TypeOK' /\ IdsAreMade' /\ NothingDangles' /\ AcceptedPassed' /\ OneInMemory'
  BY DEF IInv, TypeOK, IdsAreMade, NothingDangles, AcceptedPassed, OneInMemory
<1>4. ReportsStand'
  BY <1>1, <1>2 DEF IInv, ReportsStand, OfVersion
<1>5. DecisionsAreRowsOnce' /\ AcceptanceIsAudited'
  BY DEF IInv, DecisionsAreRowsOnce, AcceptanceIsAudited, Rows, AlreadyAccepted
<1> QED
  BY <1>3, <1>4, <1>5 DEF IInv

-----------------------------------------------------------------------------
(* The kernel's dictionaries, rows, events and ids stay well formed.       *)
THEOREM KernelInductive == Spec => []IInv
<1>1. IInv /\ [Next]_vars => IInv'
  BY IngestKeepsIInv, CanonicalizeKeepsIInv, AddAnchorKeepsIInv,
     ProposeKeepsIInv, VerifyKeepsIInv, ApproveKeepsIInv, RestartKeepsIInv,
     StutteringKeepsIInv DEF Next
<1> QED
  BY InitIsIInv, <1>1, PTL DEF Spec

(* The dictionaries refer to what is in them, and the ids in memory, in    *)
(* the tables and in the audit file are ids that were handed out.          *)
THEOREM KernelTypes == Spec => []TypeOK
<1>1. IInv => TypeOK
  BY DEF IInv
<1> QED
  BY KernelInductive, <1>1, PTL

(* A proposal is accepted once: at most one assertion in memory and one in *)
(* the tables, whatever effects failed and however often the kernel was    *)
(* restarted (kernel.py:222-225).                                          *)
THEOREM AcceptedOnce == Spec => []OneAssertionPerProposal
<1>1. IInv => OneAssertionPerProposal
  <2> SUFFICES ASSUME IInv PROVE OneAssertionPerProposal
    OBVIOUS
  <2>1. \A r \in Rows("assertions") :
           /\ DecisionRow(r.parent) \in Rows("acceptance_decisions")
           /\ DecisionRow(r.parent).id = r.id
    <3> TAKE r \in Rows("assertions")
    <3>1. r.parent = r.id
      BY DEF IInv, DecisionsAreRowsOnce, Row
    <3>2. \E s \in Rows("acceptance_decisions") : s.id = r.parent
      BY <3>1 DEF IInv, DecisionsAreRowsOnce
    <3> QED
      BY <3>1, <3>2 DEF DecisionRow
  <2>2. ASSUME NEW r \in Rows("assertions"), NEW s \in Rows("assertions"),
               DecisionRow(r.parent).parent = DecisionRow(s.parent).parent
        PROVE  r = s
    <3>1. DecisionRow(r.parent) = DecisionRow(s.parent)
      BY <2>1, <2>2 DEF IInv, DecisionsAreRowsOnce
    <3>2. r.id = s.id
      BY <2>1, <3>1
    <3> QED
      BY <3>2 DEF IInv, DecisionsAreRowsOnce
  <2> QED
    BY <2>2 DEF IInv, OneInMemory, OneAssertionPerProposal
<1> QED
  BY KernelInductive, <1>1, PTL

(* No later artifact, anchor or run of verify changes the verdict on a     *)
(* proposal that was accepted (kernel.py:204-212, 226-227).                *)
THEOREM AcceptedStandsVerified == Spec => []AcceptedKeepsVerifying
<1>1. IInv => AcceptedKeepsVerifying
  BY DEF IInv, TypeOK, ReportsStand, AcceptedPassed, AcceptedKeepsVerifying
<1> QED
  BY KernelInductive, <1>1, PTL

(* What is accepted, in memory or in the tables, has its event in the      *)
(* audit file, at whatever point approve failed (kernel.py:234-264).       *)
THEOREM AcceptanceLeavesEvent == Spec => []AcceptanceIsAudited
<1>1. IInv => AcceptanceIsAudited
  BY DEF IInv
<1> QED
  BY KernelInductive, <1>1, PTL

=============================================================================
