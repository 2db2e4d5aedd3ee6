------------------------------ MODULE LiveProbe ------------------------------
(***************************************************************************)
(* One run of tools/run_probe.py over one source: discovery of leads,      *)
(* intake of every lead into a candidate ledger (discovery.py), paced      *)
(* acquisition with retries, the discovery-run record and the exit code.   *)
(*                                                                         *)
(* A lead stands for its url, Candidate[lead] for the fingerprint of the   *)
(* normalised url.  Time is what the run slept since its last request.     *)
(***************************************************************************)
EXTENDS Integers, Sequences, FiniteSets, Functions

CONSTANTS Leads,
          Candidate,          \* lead -> candidate id
          Unresolvable,       \* leads whose url has no cluster id
          MaxListed,          \* bound on the length of a listing
          MAX_DOCS_PER_SOURCE,
          ListingAttempts,    \* _fetch_retry: attempts
          CL_429_ATTEMPTS,
          CL_MAX_BACKOFF_S,
          CL_ACQUIRE_DELAY_S,
          RetryAfters,        \* what a server may ask for
          NoHeader            \* no Retry-After

ASSUME LiveProbeAssumption ==
    /\ IsFiniteSet(Leads)
    /\ Unresolvable \subseteq Leads
    /\ {MaxListed, MAX_DOCS_PER_SOURCE, CL_MAX_BACKOFF_S, CL_ACQUIRE_DELAY_S}
           \subseteq Nat
    /\ {ListingAttempts, CL_429_ATTEMPTS} \subseteq Nat \ {0}
    /\ RetryAfters \subseteq Nat \cup {NoHeader}
    /\ NoHeader \notin Nat

ProbeSources == {"ftc_enforcement", "courtlistener_recap"}

(* The ways an acquisition that is answered may end: the three errors and  *)
(* the quarantine note leave a document without canonical_sha256.          *)
Outcomes == {"canonical", "quarantined", "error"}

NoRun == [coverage |-> "none"]

VARIABLES probe,        \* the program's place, its leads, and its attempts
          slept,        \* seconds slept since the last request
          candidates,   \* the ledger's candidates
          observations, \* how often each candidate was observed
          summary,      \* the summary that main writes
          exit,         \* the exit code
          reply         \* history: the last acquisition request's reply

probeVars == <<probe, slept, candidates, observations, summary, exit, reply>>

Place(at, source, leads, next, attempt) ==
    [at |-> at, source |-> source, leads |-> leads, next |-> next,
     attempt |-> attempt]

Summary(leads, new, updated, documents, errors, run) ==
    [leads_discovered |-> leads, new |-> new, updated |-> updated,
     documents |-> documents, errors |-> errors, run |-> run]

NoReply == [odd |-> FALSE, lead |-> 0, code |-> 0, after |-> NoHeader]

InitProbe ==
    /\ \E source \in ProbeSources : probe = Place("start", source, <<>>, 1, 0)
    /\ slept = 0
    /\ candidates = {}
    /\ observations = [c \in {Candidate[l] : l \in Leads} |-> 0]
    /\ summary = Summary(0, 0, 0, <<>>, 0, NoRun)
    /\ exit = "none"
    /\ reply = NoReply

At(place) == probe.at = place
Polite == probe.source = "courtlistener_recap"

(* main: the exit code says whether something canonical came in. *)
ExitCode(s) ==
    IF /\ s.leads_discovered > 0
       /\ \E i \in DOMAIN s.documents : s.documents[i].outcome = "canonical"
       /\ s.errors = 0
    THEN "0" ELSE "1"

Ends(s) == /\ probe' = [probe EXCEPT !.at = "done"]
           /\ summary' = s
           /\ exit' = ExitCode(s)

(* make_discovery_run *)
Coverage(failures, leads_seen) ==
    CASE failures > 0 /\ leads_seen = 0 -> "failed"
      [] failures > 0 /\ leads_seen > 0 -> "partial"
      [] OTHER                          -> "complete"

DiscoveryRun(leads_seen, new, updated, failures) ==
    [coverage |-> Coverage(failures, leads_seen), leads_seen |-> leads_seen,
     new |-> new, updated |-> updated, failures |-> failures]

-----------------------------------------------------------------------------

(* Without the activation token main raises before a summary exists. *)
Refuse == /\ At("start")
          /\ probe' = [probe EXCEPT !.at = "refused"]
          /\ UNCHANGED <<slept, candidates, observations, summary, exit, reply>>

(* No query of the library is active: main's handler makes the summary. *)
NoActiveQuery ==
    /\ At("start")
    /\ Ends(Summary(0, 0, 0, <<>>, 1, NoRun))
    /\ UNCHANGED <<slept, candidates, observations, reply>>

Start == /\ At("start")
         /\ probe' = [probe EXCEPT !.at = "listing"]
         /\ UNCHANGED <<slept, candidates, observations, summary, exit, reply>>

(* _fetch_retry repeats what fails with an OSError, an HTTP error included.*)
ListingFails ==
    /\ At("listing")
    /\ probe.attempt < ListingAttempts - 1
    /\ probe' = [probe EXCEPT !.attempt = @ + 1]
    /\ slept' = 3 * (probe.attempt + 1)
    /\ UNCHANGED <<candidates, observations, summary, exit, reply>>

(* The last attempt failed, or a url was refused, or the answer did not    *)
(* parse.                                                                  *)
DiscoveryFails ==
    /\ At("listing")
    /\ Ends(Summary(0, 0, 0, <<>>, 1, DiscoveryRun(0, 0, 0, 1)))
    /\ UNCHANGED <<slept, candidates, observations, reply>>

MinOf(a, b) == IF a < b THEN a ELSE b

Discover(listing) ==
    /\ At("listing")
    /\ probe' = Place("lead", probe.source,
                      SubSeq(listing, 1, MinOf(Len(listing), MAX_DOCS_PER_SOURCE)),
                      1, 0)
    /\ summary' = [summary EXCEPT !.leads_discovered = Len(probe'.leads)]
    /\ slept' = 0
    /\ UNCHANGED <<candidates, observations, exit, reply>>

-----------------------------------------------------------------------------

Lead == probe.leads[probe.next]

Document(outcome) ==
    Append(summary.documents,
           [candidate |-> Candidate[Lead], outcome |-> outcome])

(* CandidateLedger.intake *)
EachLeadIsNew(candidate) == TRUE                                    \* mutant
IsNewCandidate(candidate) == candidate \notin candidates

(* The pause before every lead but the first, and the intake of the lead. *)
PauseOnceOnly ==                                                    \* mutant
    IF probe.next = 2 /\ Polite THEN CL_ACQUIRE_DELAY_S ELSE 0
Pause == IF probe.next > 1 /\ Polite THEN CL_ACQUIRE_DELAY_S ELSE 0

TakeLead ==
    /\ At("lead")
    /\ probe.next <= Len(probe.leads)
    /\ probe' = [probe EXCEPT !.at = "acquire", !.attempt = 0]
    /\ slept' = slept + Pause
    /\ candidates' = candidates \cup {Candidate[Lead]}
    /\ observations' = [observations EXCEPT ![Candidate[Lead]] = @ + 1]
    /\ summary' = IF IsNewCandidate(Candidate[Lead])
                  THEN [summary EXCEPT !.new = @ + 1]
                  ELSE [summary EXCEPT !.updated = @ + 1]
    /\ UNCHANGED <<exit, reply>>

LeadIsDone(outcome) ==
    /\ probe' = [probe EXCEPT !.at = "lead", !.next = @ + 1]
    /\ summary' = [summary EXCEPT !.documents = Document(outcome)]
    /\ UNCHANGED <<candidates, observations, exit>>

Replied(code, after) ==
    reply' = [odd |-> ~reply.odd, lead |-> probe.next, code |-> code,
              after |-> after]

Requests == At("acquire") /\ ~(Polite /\ Lead \in Unresolvable)

(* No cluster id: an error without a request. *)
NoClusterId == /\ At("acquire")
               /\ Polite
               /\ Lead \in Unresolvable
               /\ LeadIsDone("error")
               /\ UNCHANGED <<slept, reply>>

Answered(outcome) == /\ Requests
                     /\ LeadIsDone(outcome)
                     /\ Replied(200, NoHeader)
                     /\ slept' = 0

(* Any other exception, and the 429 that a source without retries gets or  *)
(* that ends the last attempt, is kept in the document.                    *)
Raises(code, after) ==
    /\ Requests
    /\ code = 429 => ~Polite \/ probe.attempt = CL_429_ATTEMPTS - 1
    /\ LeadIsDone("error")
    /\ Replied(code, after)
    /\ slept' = 0

(* _fetch_polite *)
SameAttempt(attempt) == attempt                                     \* mutant
NextAttempt(attempt) == attempt + 1

Backoff(after) ==
    MinOf(IF after = NoHeader THEN 2 * 2^probe.attempt ELSE after,
          CL_MAX_BACKOFF_S)

TooMany(after) ==
    /\ Requests
    /\ Polite
    /\ probe.attempt < CL_429_ATTEMPTS - 1
    /\ probe' = [probe EXCEPT !.attempt = NextAttempt(@)]
    /\ slept' = Backoff(after)
    /\ Replied(429, after)
    /\ UNCHANGED <<candidates, observations, summary, exit>>

Finish ==
    /\ At("lead")
    /\ probe.next > Len(probe.leads)
    /\ Ends([summary EXCEPT !.run =
                DiscoveryRun(Len(probe.leads), summary.new, summary.updated, 0)])
    /\ UNCHANGED <<slept, candidates, observations, reply>>

Listings == UNION {[1..n -> Leads] : n \in 0..MaxListed}

NextProbe ==
    \/ Refuse \/ NoActiveQuery \/ Start
    \/ ListingFails \/ DiscoveryFails
    \/ \E listing \in Listings : Discover(listing)
    \/ TakeLead
    \/ NoClusterId
    \/ \E outcome \in Outcomes : Answered(outcome)
    \/ Raises(500, NoHeader)
    \/ \E after \in RetryAfters : Raises(429, after) \/ TooMany(after)
    \/ Finish

(* Every request has a time limit and every sleep ends. *)
SpecProbe == InitProbe /\ [][NextProbe]_probeVars /\ WF_probeVars(NextProbe)

-----------------------------------------------------------------------------

(* The summary of a run that ended accounts for every lead: it was taken   *)
(* in as new or as an update, it has one document, each candidate was      *)
(* observed as often as a document names it; a run whose discovery failed  *)
(* took in nothing, and exit code 0 means something canonical came in.     *)
RunBalances ==
    At("done") =>
        /\ Len(summary.documents) = summary.leads_discovered
        /\ summary.new + summary.updated = summary.leads_discovered
        /\ summary.new = Cardinality(candidates)
        /\ SumFunctionOnSet(observations, DOMAIN observations)
               = summary.leads_discovered
        /\ \A c \in candidates :
              observations[c] = Cardinality({i \in DOMAIN summary.documents :
                                    summary.documents[i].candidate = c})
        /\ exit = "0" => /\ summary.run.coverage = "complete"
                       /\ \E i \in DOMAIN summary.documents :
                             summary.documents[i].outcome = "canonical"

(* "Acquisition calls are paced apart and honor the server's Retry-After   *)
(* on HTTP 429" (run_probe.py:14-15), within the cap: a retry waits for    *)
(* what the server asked for, the next lead's request for the pause.  The  *)
(* Retry-After of the last attempt is not honoured by the next lead.       *)
Spaced(lead) ==
    /\ reply.lead \notin {0, lead} => slept >= CL_ACQUIRE_DELAY_S
    /\ reply.lead = lead /\ reply.after # NoHeader =>
           slept >= MinOf(reply.after, CL_MAX_BACKOFF_S)

RequestsAreSpaced ==
    [][reply'.odd # reply.odd /\ Polite => Spaced(probe.next)]_probeVars

(* Whatever the servers answer, a run that starts its discovery ends with  *)
(* a summary and an exit code: every retry loop is bounded.                *)
ProbeEnds == At("listing") ~> At("done") /\ exit # "none"

=============================================================================
