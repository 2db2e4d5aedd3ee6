# Verification of exposure-atlas

TLA+ models of exposure-atlas, TLC configurations that check them on small
instances, and TLAPS proofs for every instance. Paths are relative to the
repository; `atlas/` stands for `packages/python/atlas/`.

## 1. Inventory

The program is a library of small components around two kinds of state: tables
in PostgreSQL, shared by processes, and objects in the memory of one process,
some of which also write files.

| Component | State | Operations | Makes it hard | What makes it correct |
|---|---|---|---|---|
| State machines `states.py` | none | `transition` | every caller must ask it | a listed transition or an error |
| Job queue `jobs.py`, `db.py` | table `jobs` | `enqueue lease heartbeat complete fail requeue_due` | several workers, READ COMMITTED, expiring leases, crashes | one job per key, no live lease taken over, exact attempt counts, listed transitions only |
| Acceptance and audit ledger `db.py` | tables `acceptance_decisions assertions audit_events jobs` | `accept_assertion_atomic append_audit verify_audit_chain` | overlapping transactions, replays, crashes | all or nothing, once per id, a chain that verifies |
| Reviewer actions `reviewer_actions.py` | versions, nonces, results by key, staged changes | `stage_cooling_period process process_bulk` | rival reviewers, lost answers, replays, days between two calls | no silent overwrite, one decision per nonce, the cooling period, separate decision types |
| Evidence kernel `kernel.py`, `verify.py`, `anchors.py`, `audit.py` | dictionaries; tables; audit file | `ingest_fixture canonicalize add_anchor propose verify approve policy_check` | each handler writes memory, tables and file one after the other; any may fail | accepted once, on a passing report that keeps passing, with its audit event and its rows |
| Evidence store `store.py` | a directory | `put get exists` | writers that die in a file, two that share a temporary name | what is at a digest's name is whole |
| Release, read path `release.py readpath.py archive.py` | a directory | `build_release verify_release serve_record` | a build over a build that died, a reader between two checks | serves what was verified |
| Review queue `review_queue.py` | open tasks, exits | `make_task add resolve expire_unanswered` | answers racing the timer, ids that come again | every arrival leaves once; unanswered is never acceptance |
| Decision packs, view links `decision_pack.py`, cards `review_card.py` | what waits; issued and consumed links | `build_pack issue consume` | four caps at once; a link issued again after use | caps kept, nothing displaced or lost; one opening per link |
| Policy and triage `policy.py triage.py` | none | two `evaluate`s | missing, revised and lost information | losing information never loosens a ruling |
| Identity `identity.py` | key index, aliases, documents | `resolve link_document` | order of arrivals, calls that fail half-way | one record per key, for ever |
| Migration `migration.py` | ledger, payloads, redirects | `import_record merge` | changed re-imports after a merge, shared names | idempotent, redirects end at a payload |
| Monitoring `monitoring.py` | target states | `apply_check aggregate_record_freshness` | late and failed results | failure never refreshes |
| Revisions `revisions.py` | event list | `append_lifecycle_event derive_state` | events of several revisions interleaved | published only after approval, final states final |
| Discovery, live probe `discovery.py tools/run_probe.py` | candidates, a run's summary | one run | errors, throttling, retries, leads that repeat | paced, bounded, and every lead accounted for |
| Plan tool `tools/atlas_plan.py`, `builder/core/completion.py` | receipts, decisions, gate manifests | `validate task-verify gate-verify close_task` | receipts that certify themselves, commits that move on | a gate rests on evidence; a cycle is found |
| Budget `builder/core/budget.py` | a file | `reserve reconcile` | a call between another's read and its write | the ceiling is kept |
| Calibration, projections, adapters, fetching, config, schemas, generators | labels, files, network | parsing, validation, statistics | I/O | not modelled, see section 7 |

How they interact: the kernel calls the verifier, persists to the tables of
`db.py` and accepts through `accept_assertion_atomic`, which appends to the
audit table in the same transaction. That function also enqueues a follow-up job
for callers that name one; `Kernel.approve` names none, so today only direct
callers (the tests) put work on the queue, from which workers take it. Reviewers
act through `ActionProcessor`, whose decisions
an operator's client replays into `Kernel.approve`. Releases are built from
accepted records and served by the read path. The probe feeds candidates to
triage; the plan tool and the budget stand around the builder. Most other
components meet only in the hands of their callers: they share no state.

The hazards this code is exposed to, each at its line with the properties that
would catch it, are listed in `PROJECT.json`.

## 2. Plan

Order: what several processes share first, then what one process may leave
half done, then the in-memory components, then the tools. All of it is done
but the last item.

1. `JobLifecycle` (abstract), `JobQueue` over the tables of `StateMachines`
2. `AcceptancePromise` (abstract), `AuditLedger`
3. `ReviewerActions`, `Verifier`, `Kernel`
4. `WriteOnceStore` (abstract), `EvidenceStore`, `Release`
5. `ReviewQueue`, `DecisionPack`, `ViewLinks`, `Rulings`
6. `Identity`, `Migration`, `Monitoring`, `Revisions`
7. `LiveProbe`, `PlanGraph`, `PlanGates`, `BudgetLedger`
8. theorems about every module that has state, the refinements of the
   three abstract modules, and the lemmas of `SumTheorems` for those about
   totals
9. open: a composition of `accept_assertion_atomic` with the queue, that an
   accepted assertion's follow-up job ends completed or dead-lettered. It
   needs a fairness of workers that nothing in the repository promises, and
   `Kernel.approve` would have to pass a job.

## 3. Modules

| Module | Models | Checked by | Proved in |
|---|---|---|---|
| `StateMachines` | the tables of `states.py` | (extended) | |
| `JobLifecycle` | what the queue promises about a job's state | `queue_timely` | |
| `JobQueue` | `jobs.py` over the `jobs` table | `MCJobQueue` | `JobQueueProofs` |
| `AcceptancePromise` | one-step acceptance | `ledger_serialised` | |
| `AuditLedger` | the acceptance transaction | `MCAuditLedger` | `AuditLedgerProofs` |
| `ReviewerActions` | `ActionProcessor` | `MCReviewerActions`, `MCReviewDesk` | `ReviewDeskProofs` |
| `ReviewQueue` | `review_queue.py` | `MCReviewDesk` | `ReviewDeskProofs` |
| `DecisionPack` | `build_pack` | `MCReviewDesk` | `ReviewDeskProofs` |
| `ViewLinks` | `ViewLinkStore` | `MCReviewDesk` | `ReviewDeskProofs` |
| `Rulings` | `evaluate` of `triage.py` and of `policy.py` | `MCReviewDesk` | `ReviewDeskProofs` |
| `Verifier` | `verify_proposal`, `verify_anchor` | (extended) | |
| `Kernel` | `Kernel` with its tables and audit file | `MCKernel`, `MCEvidence` | `KernelProofs` |
| `WriteOnceStore` | what the evidence store promises | `evidence` | |
| `EvidenceStore` | `store.py`, file operation by file operation | `MCEvidence` | `EvidenceProofs` |
| `Release` | `release.py`, `readpath.py` over one directory | `MCEvidence` | `EvidenceProofs` |
| `Identity` | `identity.py` | `MCRecords` | `RecordsProofs` |
| `Migration` | `migration.py` | `MCRecords` | `RecordsProofs` |
| `Monitoring` | `monitoring.py` | `MCRecords` | `RecordsProofs` |
| `Revisions` | `revisions.py` over the REVISION table | `MCRecords` | `RecordsProofs` |
| `LiveProbe` | one run of `run_probe.py` with `discovery.py` | `MCTools` | `ToolsProofs` |
| `PlanGraph` | the cycle check of `atlas_plan.py` | `MCTools` | `ToolsProofs` |
| `PlanGates` | receipts, `close_task`, `task-verify`, `gate-verify` | `MCTools` | `ToolsProofs` |
| `BudgetLedger` | `budget.py` | `MCTools` | `ToolsProofs` |
| `SumTheorems` | nothing: lemmas about sums over finite sets | | itself |

`MCReviewDesk`, `MCEvidence`, `MCRecords` and `MCTools` put components that
share no state side by side. A behaviour moves one of them, chosen in its first
state and never changed; the others keep their initial values. The reachable
states are the sum, not the product, of the components' states, so a run
answers for each component as a run of its own would. No interaction is
claimed: where components do interact (kernel, tables and audit file; queue and
job table; store, file names and writers; build and reader), one module holds
all of them.

Definitions marked `\* mutant` are what a plausible bug would make of the
definition below them. No action uses them; substituting one must break the
property it is listed with in `PROJECT.json`.

### JobQueue

`row[j]` is the committed row, `call[w]` what worker `w`'s open transaction
carries from its first statement to its second, `clock` the `now` callers pass,
`grants` a history of the leases handed out. Each call is a transaction of its
own. `enqueue`, `complete` and `fail` are two steps, because they read with a
plain SELECT and write with a second statement; `lease` is two steps too, with
the row locked in between (`Locked`), and skips locked rows; `heartbeat` and
`requeue_due` are one UPDATE each. A worker that stalls simply takes no step
while the clock runs; one that dies with a transaction open is `Crash`. A call
that raises writes nothing and is no step.

Job ids are random in the code; `EnqueueInsert` picks any unused one.
`Exists` with state `"absent"` stands for the missing row. No code cancels a
job, so the table's `cancelled` is never reached.

The constant `Timely` is an assumption on callers, not on the code: they report
only under a live lease and the report's two statements end before the lease
does. Nothing in `jobs.py` enforces it. Without it the queue keeps
`UniqueKeys`, `LeaseShape`, `RetryIsDated`, `DeadLetterAtLimit`,
`AttemptsCountGrants` and `TakeoverOnlyAfterExpiry`; with it also the job table
(`KeepsJobTable`), `CompletedIsFinal`, `LiveLeaseEndsByHolder` and
`TriesEndAtLimit`. The run `queue_overlapping` shows that `CompletedIsFinal`
needs it. `TriesEndAtLimit` needs it too: between the SELECT and the UPDATE of a
`fail` that stalls, another lease may use up the try that the job is then
rescheduled for.

### AuditLedger

Each writer executes `accept_assertion_atomic` statement by statement (`pc`).
Uncommitted rows are invisible to others, but an INSERT of a key that another
open transaction holds waits for it (`HoldsDecision`, `HoldsAssertion`,
`HoldsJob`), and one of a committed key raises and rolls back. Audit rows get
`seq` from an identity column at INSERT, not at commit; numbers drawn by a
transaction that rolls back are lost. A hash is identified with the decision
whose event it hashes: ids inside events make them distinct. `enqueue` runs
inside the transaction with its own SELECT and INSERT. `Crash` ends an open
transaction at any statement. `Serialised` is again an assumption on callers:
one acceptance at a time. `IInv`, what the proofs show to be kept, is checked
without it, with both writers in their transactions: that is where ids that
exclude each other and sequence numbers that are drawn, lost and committed out
of order matter. With it `verify_audit_chain` succeeds (`ChainVerifies`) and the
statements implement the one-step acceptance (`KeepsPromise`); without it
`ledger_forked` finds the fork.

### ReviewerActions

`processor` is the `ActionProcessor` object: `versions`, `nonces`, `idem`,
`staged`. `intents` and `answered` are histories for the properties. Any
request may arrive at any time, any number of times, through any session: that
is what lost answers, retries, replays and rivals look like from inside.
`Process` is the whole of `process`; its guards are those of the code, and
their order matters only where the known key is looked up before the rest.
`process_bulk` takes a step for each of its requests (`StartBulk`,
`ProcessNext`), with nothing in between: `left` is what it has yet to process,
`pending` what it would return. What was applied before the first refusal
stays. The version strings are numbers; texts, reasons and the schema
of the decision are left out.

### Verifier and Kernel

`mem` holds the kernel's dictionaries, `db` the rows as (table, id, parent),
`trail` the audit file. A handler updates memory and then performs its effects
in order (`Handler`); it may stop after any of them, and what was done stays
done. `Restart` empties the memory. `_persist` swallows any IntegrityError, so
a row whose parent is missing is silently left out (`Persisted`). `Approve` has its own
outcomes, since its memory changes fall between its effects. The kernel is the
version with an engine; `policy_check` reads only. `Verifier` keeps every
blocking check and abstracts texts to whether the quoted value is the anchored
quote; `ArtifactFor` keeps the choice of the first artifact of a version.

### EvidenceStore and Release

`blob` and `tmp` say which file each of a digest's two names stands for,
`content` which chunks a file has, `put[w]` how far writer `w` is. A writer
that dies leaves its `.tmp`; the next one truncates that same file. A writer
goes on writing to the file it opened, whatever name the file has by then.
`OneWriter` is an assumption on callers: a digest is put by one of them at a
time. Without it two writers share one `.tmp`; the first renames the file the
second has truncated, and a torn blob stays at the name that `put` never
rewrites. `WriteOnceStore` is what the module docstring promises, objects that
are stored whole in one step and never change; its mapping calls an object
whole when all chunks are in the file at the digest's name, and torn, which the
promise does not know, when some are missing.

`file` and `manifest` are a release directory; `build_release` truncates and
writes one file after the other and the manifest last, and may be killed
between or within writes. A later build uses the directory again, so it may
hold files of two builds. `serve_record` verifies every listed file and then
reads the record's file a second time, and a build may write at any moment of
it. `overwritten` is a history: the files written while a read runs. What is
served (`ServedIsReleased`) is always whole, scanned, listed by a finished
manifest and not denied; it is the manifest's bytes unless the very file that
is served was written over during that read.

### ReviewQueue, DecisionPack, ViewLinks, Rulings

A task's id is a hash of queue, question and creation time, so the same
question comes again under the id of a task that is open or has left, with
another priority or default; `Add` keeps the last. The histories `asked` and
`replaced` number the arrivals, so that conservation can be stated.
`build_pack` is a step per card (`Consider`): the next card is the one that
sorts first of those left, and no other action is enabled before the last one
is done, so the call is as atomic as in the code. `PackIsFair` states what the
loop must come to, at every turn of it, from sets and sums and without its
counters. A link's token is a hash of its arguments and may be
issued again. `Rulings` has the two pure `evaluate`s, and actions that find,
revise and lose a fact at a time; the policy's arguments may jump between any
two of its cases, because `LossNeverLoosens` compares the two ends of a step.
The rubric is a sequence, as in its file: of the instrument, accessibility and
investigation criteria the first of each kind decides (`IsFirst`), and the run's
rubric has a second instrument that decides nothing.

### Identity, Migration, Monitoring, Revisions

Each is the class or list of its file, with one action per call. A record id is
a hash of a key and is named by that key. `Resolve` includes the call that
raises at a malformed document hash after it registered the keys. A legacy id
and a slug may be the same name, since both share one table of redirects;
`Merge` assumes of its callers that the survivor was imported, which `merge`
does not check. `CheckEnds` of the monitoring applies results in any order, as
late as the bounds allow.

### LiveProbe, PlanGraph, PlanGates, BudgetLedger

`LiveProbe` follows a run from discovery to exit code; each request ends in one
of the outcomes its handler tells apart, and `slept` is what the run slept
since its last request. `PlanGraph` pops any queued task where the code pops
the last. In `PlanGates` agents and the clean checkout append receipts while
commits go on; an evidence line that passes its own check is a receipt.
`BudgetLedger` separates the read of a call from its write; `OneProcess`
assumes that calls do not overlap, that run ids are unique and that a run costs
no more than its worst case. Without `OneProcess`, `reconcile` rewrites the
file from what it read and drops an entry that was appended meanwhile, and two
calls of `reserve` both find the same room: `SpendWithinCeiling` fails. So the
run says that reservations, spending and reconciliations of many runs add up,
not that two processes may share a ledger. `Unset` stands for either ceiling
being None; `reserve` compares nothing with a `day_ceiling` that is set.

## 4. Runs

| Run | Expect | Shows | Bounds |
|---|---|---|---|
| `queue_stalled` | pass | what the queue keeps for any caller | 2 workers, 2 jobs, 2 keys, limits 1 and 2, clock to 4 |
| `queue_timely` | pass | the job table, finality, ownership, tries that end at the limit, under `Timely`; the inductive invariant | same |
| `queue_overlapping` | violation | a completed job goes back to retry | 2 workers, 1 job, clock to 3 |
| `ledger_overlapping` | pass | atomicity, uniqueness, rooted chain, the inductive invariant; every transaction ends | 2 writers, 3 decisions, 2 assertions, one shared job key, 4 inserts of audit rows |
| `ledger_serialised` | pass | the chain verifies; refinement of the one-step acceptance | 4 decisions, 3 assertions, 4 inserts, one at a time |
| `ledger_forked` | violation | two events with one predecessor | 3 inserts |
| `review_desk` | pass | reviewers: no overwrite, nonces, cooling period; queue: conservation, restrictive defaults; packs fair; links single-use; rulings never loosen | 9 requests, 3 batches, 3 sessions, 3 days; 3 questions, 3 arrivals, 2 hours; 6 cards against 4 caps; 3 links over 3 days; 6 criteria |
| `reviewer_key_reuse` | violation | a decision of another role answers | the reviewers' bounds of `review_desk` |
| `evidence` | pass | kernel: accepted once, keeps verifying, audited; store: implements the write-once store, blobs appear whole and for good; release: serves what was verified | 1 version, 2 artifacts, 1 anchor, 2 proposals, 2 reports, 2 decisions; 2 writers, 2 digests of 2 chunks, 3 files; 2 records, 4 builds, 1 reader, builds at any moment of a read |
| `kernel_half_accepted` | violation | accepted in memory only | the kernel's bounds of `evidence` |
| `records` | pass | identity sound and stable; redirects end at payloads, reruns idle; freshness earned; publication approved | 5 spellings of 4 keys; 2 legacy ids, 2 slugs (one of them a legacy id), 2 payloads; 2 targets, 3 results each, 3 ticks; 2 revisions, 6 events |
| `tools` | pass | probe balances, is paced and ends; cycle check sound; gates earned; spend within the ceiling | 3 leads (two of one candidate), listings up to 4; all graphs over 3 tasks and an unknown id; 3 tasks, 2 gates, 2 commits, 3 receipts; 3 runs, costs to 3 |

Why the bounds are enough: each interesting conflict is between two actors over
one row, one key, one target, one file or one proposal, and fits. In the queue
the clock reaches past a lease, a retry delay and a second lease; a second job
makes the order of ids and the skipping of locked rows matter, and the limits 1
and 2 give a first and a last attempt. In the ledger two requests share an
assertion id and two a job key, and either writer may replay any of them; the
serialised run has a fourth, so that three events follow each other. The
reviewer's requests contain each rejection once: rival version, replayed nonce,
reused key, unsupported edit, wrong diff, expired session, wrong actor. Two
artifacts are what the verifier can confuse; two decisions are what a replay
needs. Three arrivals are an id that is replaced and one that is asked again
after it left; the cards meet each cap, with two of equal keys. A store needs
two writers and one file more than the names one of them can hold; a release
two records, so that one may be new and one old. Two spellings of one key and
two kinds of keys make records overlap; a failure limit of 2 needs three
results. A listing of 4 exceeds the cap of 3 documents. Three tasks have every
shape of cycle up to three. What a bound could hide is settled by the proofs
where a module has them.

Deadlock checking is off: clocks, ids and sequence numbers are bounded, and
several components are finished at some point, so every instance ends in a
state with nothing left to do. `TransactionsEnd` and `ProbeEnds` cover the
waiting that matters.

Fairness: `FairSpec` of the ledger has strong fairness of each writer's next
statement: a client in a transaction sends its statements, and PostgreSQL
queues those who wait for a key and wakes them when its holder ends. Weak
fairness would not do, because a waiting INSERT is enabled, then disabled by
the next holder. Crashes and new transactions are not fair. `SpecTools` has
weak fairness of the probe: it is one sequential program and every sleep ends.
That every request ends is an assumption on the network, a little more than the
code secures: `timeout=` limits each operation on the socket and not the whole
answer, so a server that sends a byte now and then is not cut off, and
`gethostbyname` has no limit of its own. Nothing else assumes fairness.

### Where code and documents disagree

The four violation runs with their quoted lines are in `PROJECT.json` under
`findings`. The following were met while modelling. Those with a definition can
be seen by naming it as the INVARIANT of a run's cfg.

- `reviewer_actions.py:179`: four cooling-period classes have no role, so a
  change staged under them can never be confirmed, though
  `docs/review/reviewer-actions.md:38-41` describes how
  (`StagedChangeIsConfirmable` in `ReviewerActions`).
- `kernel.py:212`: `verify` after the acceptance replaces the report the
  acceptance names (`AcceptedReportIsKept` in `Kernel`; `SPEC.md:1010`).
- `builder/core/completion.py:29`: `close_task` asks `task-verify`, which takes
  self-asserted receipts, while `builder/contracts/HAR-000-01-supervisor.md:16-18`
  wants "done only with a clean-checkout CI receipt"
  (`DoneHasCleanEvidence` in `PlanGates`). The header of `atlas_plan.py` (line
  13) says that self-asserted receipts never satisfy `gate-verify`; the policy of
  gate G0 accepts them. An empty list of criteria passes.
- `kernel.py:6` says that every state change appends an audit event;
  `add_anchor` and `verify` append none.
- `triage.py:81`: an exclusion that is `uncertain` does not keep a case from
  `include` when all else is met; `SPEC.md:2174` sends close exclusions to
  review. `LossNeverLoosens` therefore leaves that one change out (`SaysLess`).
- `migration.py`: a changed re-import after a merge points the redirects back to
  the merged record; an unchanged one skips a slug it is given for the first
  time; the payload of an earlier import is overwritten.
- `readpath.py:3-4` promises "exactly the signed release artifact bytes"; the
  second read of the file is compared with no hash, so a build into the
  directory in between is served unverified (`ServedIsVerified` in `Release`).
- `budget.py:34`: a set `day_ceiling` is required and then never compared with
  what was committed; the builder may spend more than it in a day.
- `monitoring.py:6-7` speaks of the "earliest due time", which is not returned.
  A tie between `stale` and `monitoring_degraded` is named after the target
  that comes first, and `worst_targets` leaves the other state's targets out.
- `run_probe.py:14-15`: the Retry-After of the last attempt on a lead is not
  honoured by the request for the next lead. `discovery.py:9-10`: acquisition
  errors never reach the run's failures, so its coverage stays `complete`.
- `discovery.py:66-73`: `exclude` does not ask the transition table.
- `review_queue.py:146-147`: the docstring says that P0 and P1 are never
  paused; `backpressure_paused_queues` names whole queues.

## 5. Proofs

Everything below is for any number of workers, jobs, keys, writers, documents,
requests, tasks, questions, records, targets and readers and for any bounds,
under the modules' `ASSUME`s only (constants are of their kind, NULL is not a
value; the tasks of a plan, the leads that a source may list and the runs of a
session are finite, since what is summed over them must be). Assumptions on
callers (`Timely`, `Serialised`, `OneWriter`, `OneProcess`) are hypotheses of
the theorems that need them. In each module the argument is an inductive
invariant; what it adds to the properties is what they need to be kept by every
step.

`JobQueueProofs`: `TypeCorrect`, then `Inductive` for

    IInv = what open calls may rely on /\ the safety invariants

An open `lease` holds its row as its SELECT found it (`LeaserHoldsRow`,
`OneLeaserPerRow`); an open report can rely on no more than that the row exists
and, if it dead-letters, on the used-up attempts (`ReportHasRow`), since
attempts never go down; an id without a row was never tried
(`FreshIdIsUntried`). Without these conjuncts the invariants are not inductive:
`AttemptsCountGrants`, say, needs the count a leaser carries to be the row's
still. The safety invariants follow from `IInv`; `NoLiveLeaseIsTaken` is the
action property from the same invariant. With `Timely` a report also still
holds its lease (`TimelyReportHoldsLease`), which gives the refinement of
`JobLifecycle` and the two other action properties. For `TriesEndAtLimit` a
`fail` that reschedules must still mean a row with a try left (`RetryHasTry`):
the lease it holds keeps every other lease, and so every increment, away.

`AuditLedgerProofs`: `Inductive` for an `IInv` that says that ids are exclusive
(committed, held by one open transaction, or free), that the job an acceptance
needs is there when it commits, that drawn sequence numbers are distinct and
below the counter, and that the predecessor a transaction read is a committed
event with a smaller number. From it the four safety invariants, and, with
`Serialised`, `ChainVerifies`, where the predecessor read is still the last
event (`PrevIsLast`). `TransactionsKeepPromise` is the refinement of
`AcceptancePromise`: its mapping numbers the committed events by rank, the
ranks are exactly 1 to their number (`EventsAreRanked`), and a commit appends
the event of the highest rank; every other statement stutters.
`NobodyIsDeadlocked` is the safety half of `TransactionsEnd`: of the
transactions that are open one does not wait, because all of them insert their
keys in one order, decision, assertion, job: whoever has come farthest waits
for nobody.

`KernelProofs`: ids in use were handed out (`IdsAreMade`), so a new one collides
with nothing in memory, tables or audit file, also after a restart; a report
says what the verifier would say today (`ReportsStand`). For this the first
artifact of a version must stay the first (`FirstArtifactStays`, by the
well-ordering of the indices) and an anchor keep its artifact. A decision is a
row only together with its assertion and once per proposal, and a kernel that
still knows the proposal knows that it was accepted (`DecisionsAreRowsOnce`);
this last clause is what makes `approve`'s check of its memory enough for the
tables.

`EvidenceProofs`, the store under `OneWriter`: no file has two names
(`NamesAreApart`), the one writer of a digest fills the file at its `.tmp`
name, with as many chunks as it says (`WritersAreOnTrack`); then the rename
publishes a whole file and nobody writes to a published one. So what the
abstract store sees depends on the names only, and a rename, which gives a
digest its name once, is its one step (`StoreIsWriteOnce`). The release needs no
assumption: a build has written what it says, bytes of its own records that
passed the scan (`BuildIsOnTrack`), and a file that a reader verified is still
the same when it reads it again, unless it is in `overwritten`
(`ReadersAreOnTrack`).

`ReviewDeskProofs`, the reviewers: every result's nonce is kept
(`ResultsAreKept`), the results on a target are as many as its versions, and a change that is staged
counts as a confirmation still to come (`StagingsSuffice`): a confirmation
takes that place, and a second staging of the same change gives it up.

The pack: what the loop has come to goes before what it has not (`InOrder`), by
the order of rank, age and value, of which `AheadGoesFirst` shows that it is
the one the sort key gives; its four counters are the totals of the cards taken
(`tally = Totals(...)`), so its test says whether the caps hold with one card
more (`FitsIsKept`). A card is left over when all the cards taken go before it
(`LeftOver`), and none that is taken later does, so it never had room.

The rest of the desk: an open entry carries the task of its own arrival
(`OpenAsAsked`), which together with conservation gives that an unanswered exit
has the default its own arrival named. What opened a card is consumed
(`IInvLinks`), so issuing the same link again cannot open another. For the
rulings, `include` is characterised by what it needs (`RouteOfInclude`), and
neither less of that nor a lost fact makes either evaluation looser
(`LessNeverIncludes`, `LessNeverAllows`).

`RecordsProofs`: `_by_key` and `_aliases` partition the keys, and a record
without an alias was never announced (`IInvIdentity`); the keys of a
description belong to the record it resolves to or to none (`ResolvedRecord`).
The ledger says of an id what it was last imported with (`LedgerIsLast`), so a
rerun finds its own entry; redirects keep ending at imported records. What
is published goes nowhere but to superseded (`PublishedIsReplaced`), and a
revision with events has a last one (`HasLast`), from which its state derives.
A success on record is a result that was applied
(`SuccessWasApplied`), and no run of failures is longer than the counter says
(`FailuresAreCounted`).

`ToolsProofs`: the counters count the dependencies not yet popped, the queue is
the free tasks not yet popped, popped tasks have popped dependencies only, and
no set of tasks that wait for each other loses a member; when the queue is
empty, what was not popped is such a set or empty (`CycleCheckIsSound`).
Receipts are never taken back and name commits up to the present one, so what a
gate rested on is still there (`GatesAreEarned`). While the probe is about to
send a request it has slept what it owes for it (`RequestsArePaced`). What the
probe has taken in is balanced at every moment and not only at the end
(`LedgerBalances`): the candidates are as many as the summary calls new, the
observations add up to new and updated, and a candidate was observed once for
each of its documents and once for the lead at hand.
`EveryRunIsBounded` is the safety half of `ProbeEnds`: a measure that starts at a number the settings give and that every
step lowers, so no server can keep a run going with errors or full listings.

The budget under `OneProcess`: a call that is open writes on top of what the
file says (`CallsAreFresh`), and its reservation still fits; the file covers
what every run has used (`EntriesCoverUse`), because a run costs no more than
its worst case until it is reconciled and exactly what was observed after. Then
the commitment bounds the spending (`CoveredSpend`). Without `OneProcess`
`CallsAreFresh` is what fails first.

`SumTheorems`: the library's `SumFunctionOnSet(f, S)` is a recursive function
over the subsets of `S` that takes off an element it chooses. Its lemmas say
nothing of the program and are no results of their own; they say what such a
sum is for any finite set: that the function exists at all
(`SumExists`), that any element may be taken off (`SumFacts`), what one changed
or added entry does to it (`SumChanged`, `SumJoined`), and that it is monotone
(`SumMonotone`). The induction theorems of the library cannot be used, as
section 6 says; each induction here is instead an argument from the smallest
size of a subset at which the claim would fail (`NatHasMinimum`, from the
well-foundedness of the naturals), which needs no operator as a parameter.

## 6. Only model-checked

- liveness (`TransactionsEnd`, `ProbeEnds`), since fairness and ENABLED are out
  of the prover's reach; the theorems `NobodyIsDeadlocked` and
  `EveryRunIsBounded` are what of the two is safety;
- the four properties that a run refutes, which have no theorem to state.

Every invariant and every action property of the passing runs is a theorem.
The induction theorems of the proof library take an operator as a parameter,
which the installed provers cannot instantiate; where an induction was needed
(sums, the first artifact of a version, the key a record is named by) it is a
least-counterexample argument over one particular set.

## 7. Not modelled

- `calibration.py`, the scores of `fuzzy.py`, the metrics of the review queue,
  `evalgov.py`'s thresholds: arithmetic on reals over documents, no state.
- Adapters, `fetchguard.py`, `documents.py`, probes, configuration, schemas,
  canonical JSON, health: network and file I/O, parsing, validation, hashing.
- `projections.py`, `review_card.py`, the printing commands of the plan tool,
  the generators: reshaping and layout.
- `archive.py`'s gate, `suppression.py` and `snapshot.py`: builders and
  validators of documents; the overlay appears as the set a read is denied.
- The audit file as bytes: `Kernel` appends an event in one step. Two processes
  on one file and torn lines are outside.
