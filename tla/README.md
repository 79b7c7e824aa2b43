# Audit Core: TLA+ specifications

Audit Core keeps the audits of vehicle sales: customers and their journeys, the
evidence uploaded for them, the review of each audit, and the tasks that people
and workers do along the way. It is a Python service (FastAPI, SQLAlchemy) over
PostgreSQL at READ COMMITTED, with one transaction per request; it calls two
services of its own kind, Security and Document Intelligence (DI). What is hard
about it is what happens between transactions: workers that crash holding a
lease, commands that are repeated or race, and sagas that call another service
between two commits. That is what these modules are about.

Paths below are relative to `src/audit_core/` of the repository unless they
say otherwise.

## 1. Inventory

| Component | Code | State | Operations | Talks to | Hard part |
|---|---|---|---|---|---|
| Workflow task engine | `workflow.py`, `workflow_reliability.py`, `tasks_api.py` | `workflow_tasks`, `_attempts`, `_events`, `workflow_dead_letters` | create, claim, start, heartbeat, fail, retry, recover stale leases; claim, start, complete, cancel by people | called by every component that leaves work to do | leases against a clock, crashed workers, people and workers on one row |
| Audit review | `audit_review.py` | `journeys.audit_state`, `audit_outcome`, `review_decisions` | start, submit, decide | tasks, trail, outbox, idempotency | check-then-write under READ COMMITTED |
| Audit trail and outbox | `audit_events.py` | `audit_chain_heads`, `audit_events`, `outbox_events` | append | called inside a command's transaction | concurrent appends to a hash chain |
| Idempotent commands | `idempotency.py` | `idempotency_records` | execute, replay, refuse | review, tasks, journeys, dealers, escalations, daily operations | duplicates that run at the same time |
| Evidence ingestion | `evidence.py` | `evidence_ingestion_operations`, `evidence`, `di_subject_mappings` | upload | Security (token), DI (subject, context, document) | a saga of five commits and four calls, repeated at will |
| DI client | `di_client.py` | none | HTTP calls | DI | failed calls, lost answers |
| Escalations, CRM | `escalations*.py`, `crm*.py` | `escalations`, `crm_observations` | create once with a follow-up task, resolve | tasks | nested effect-key and idempotency locks |
| Provisioning | `project_provisioning.py`, `admin_operations.py` | `administrative_operations`, `projects` | create, resume, retry | Security, DI | a saga under a session lock, retried from a stale copy |
| Role mappings | `role_mappings.py` | `business_assignments` | put, delete | Security | two systems, different keys for one user |
| Activation, readiness | `project_activation.py`, `readiness.py` | `projects.project_status` | activate | Security, DI | facts that go stale before they are used |
| Projects, dealers, outlets | `projects.py`, `dealers.py` | rows with `version_no` | create, patch with If-Match | | lost updates |
| Versioned masters, imports | `versioned_masters.py`, `product_masters.py`, `project_master_imports.py`, `price_lists.py`, `discount_schemes.py` | versions, imports and their rows | upload, preview, confirm, delete, publish, retire | | `MAX(version_no)+1`, confirmation twice |
| Journey facts | `journeys.py`, `customers.py`, `bookings.py`, `commercials.py`, `payments_finance.py`, `insurance_tradein.py`, `vehicle_delivery.py`, `findings.py`, ... | one row per fact, lines, applications, history | put, create, patch | | upserts of several rows, records without a unique key, a status read before it is overwritten |
| Daily operations | `daily_operations*.py` | runs, items, notes | create, set status, complete | | one conditional update each |
| WhatsApp channel | `channel_whatsapp/` (repository root) | `wa.inbox`, `wa.session`, `wa.file`, `wa.outbox` | receive, debounce, flush, send | Meta's API, journeys | duplicates, timers, sends that are claimed twice |
| DI proxy, reads, telemetry, shell | `di_project_master_proxy.py`, `evidence_read.py`, `telemetry.py`, `main.py`, ... | none | forwarding, queries, metrics | | |

What makes each of the modelled components correct:

* **Tasks.** A task is taken only from the queue, goes back to it only
  with an attempt left, is never reopened, is dead-lettered exactly when its
  budget is spent; a lease is lost only by the worker's own report or after it
  expired; the ledger of attempts, the lease columns and the history agree; work
  of a crashed worker comes back.
* **Review.** The trail is one unbroken hash chain; a key takes effect once; the
  row, the trail, the outbox, the tasks and the decisions tell one story; a
  completed review stays completed.
* **Evidence.** One evidence row per key, for a document sent under that key; no
  needless second upload; nothing learned is forgotten; what was begun can be
  finished; all evidence of a customer is under the customer's subject.

* **Facts.** A column shows the last committed word about it; the rows of two
  requests do not mix; a PATCH with If-Match changes the version it named; a
  second record of a kind that should be single comes only from a race.
* **Masters.** Versions are numbered without gap or duplicate; an import is
  confirmed completely or not at all, and once; a SKU never changes its meaning;
  prices rest on published products; a confirmed import changes, and a project
  gets a second product master, only in a race of two requests.
* **Administration.** A completed provisioning is complete in all three systems,
  with one tenant; progress is never taken back; a mapping that was alone holds in
  Security and in Audit Core, and a user has two roles only after a race; a project
  is activated only when it is ready, as far as the request could see.
* **WhatsApp.** A message is handed on once; a file is left out of what its
  session submits only if it came while the session was closing; a reply goes out twice, or is queued
  twice, only where two processes raced or an answer was lost; otherwise the state
  of a row tells what became of the reply.

`PROJECT.json` lists each hazard at its line with the properties that watch it.

## 2. Modules

| Module | Models | Role |
|---|---|---|
| `TaskPromise` | what the task engine promises | abstract specification |
| `WorkflowTasks` | the task engine | detailed specification; implements `TaskPromise` |
| `WorkflowTasksProofs` | | inductive invariant and theorems |
| `AuditReview` | review commands, idempotent execution, trail | specification composing the three components inside one transaction |
| `AuditReviewProofs` | | inductive invariant and theorems |
| `EvidenceIngestion` | the upload saga and the DI calls it makes | specification |
| `EvidenceIngestionProofs` | | inductive invariant and theorems |
| `MasterImports` | imports of masters, their versions, publish and retire | specification |
| `MasterImportsProofs` | | inductive invariant and theorems |
| `BusinessRecords` | the write handlers of journey facts, findings, customers, dealers and outlets | specification |
| `BusinessRecordsProofs` | | inductive invariant and theorems |
| `AdminOperations` | the record of an administrative operation, its lock and claim | base of the next three |
| `Provisioning` | the provisioning saga, the retry route, `patch_project` | component |
| `RoleMappings` | put and delete of a user's role mapping | component |
| `ProjectAdministration` | provisioning, mappings and activation over one table of operations | composition |
| `ProjectAdministrationProofs` | | inductive invariant and theorems about the composition |
| `WhatsAppOutbox` | enqueue, claim, send, report | component |
| `WhatsAppSessions` | inbox, sessions, files, debounce and flush | component |
| `WhatsAppChannel` | both | composition |
| `WhatsAppChannelProofs` | | inductive invariant and theorems |
| `MC*` | | instances for TLC |

### WorkflowTasks

State is one function per column of `workflow_tasks` that the code decides on,
plus the attempts (`ledger`), the count of dead letters, the number of
history rows of each `to_status`, and the idempotency records of complete and cancel. Every function of
`workflow.py` changes its row by one conditional `UPDATE` or under `FOR UPDATE`
and so is one action; `cancel_workflow_task` first reads the status without a
lock and is `CancelRead` followed by `CancelWrite` or `CancelConflict`.

PostgreSQL's `now()` is the start of the transaction, so a statement may judge a
lease by a clock that trails the real one. Each action picks its own lag
`d \in 0 .. MaxLag`. Deadlines are kept as ticks left, floored at `-MaxLag`: a
deadline further back has passed for every open transaction, and the state space
stays finite without a bound on time.

A worker's success has no function of its own: `complete_workflow_task` is the
only completion in the code, it asks for no lease, and it leaves the lease and
the open attempt on the row. `Complete` does exactly that; the result
`SUCCEEDED` that the schema allows for attempts is never written. People may
likewise start and complete a task a worker holds. History rows carry
hard-coded `from_status` values, and no reliable order: `tasks_api.py:300` reads
them by `occurred_at_utc`, which is when their transaction began, and then by a
random id. So `Event` only counts the rows of each `to_status`, which is what a
reader can rely on, and `HistoryAddsUp` is about these counts.

Left out: priority, assignment, due dates, payloads, reasons, correlation ids;
authorization (reads only); `create_workflow_task_once` (planned); the statuses
`PENDING` and `FAILED`, which no code writes.

### AuditReview

A request is a transaction with a program counter over the statements that
matter: take the key's advisory lock and look for a record, read the state,
`UPDATE` the journey (row lock), read the chain head (`FOR UPDATE`), commit.
Writes become visible together at `Commit`; `Abort` loses a request at any step.
`start_audit` has no idempotency key and begins at the read. SHA-256 is the
injective pairing `Hash`. Locks are not variables but read off the program
counters (`HasKeyLock`, `HasRowLock`, `HasHeadLock`), as in the code, where they
are held until the transaction ends. `NewEvent` records whose command it came
from; the table has no such column, the properties need it.

### EvidenceIngestion

All uploads of one customer. A request runs the steps of
`upload_journey_evidence`: the first transaction (`Receive`, and `Load` for a
repeated upload, whose statements may see a later state of the operation), then
calls of DI alternating with transactions. `CallFails` is an error answer,
`AnswerLost` an effect whose answer never came, `Crash` a request lost at any
step. DI is external: it numbers the subjects and documents it was asked for.
Document Intelligence deduplicates nothing in the model, since the upload
request carries no idempotency key.

Left out: `attempt_count` and the error columns (nothing reads them), the cached
document statuses, requirement lookup and authorization (reads).

### MasterImports

The masters of one project and the administrators who work on them. A request
is one transaction; its program counter stops where the code reads something
that another request may change before it is used: the lookup of an
Idempotency-Key, the status of an import, the parent (product master or list),
`MAX(version_no) + 1`, each SKU. What a transaction has written is in `txn[r]`
and becomes visible at `Confirm`; `Abort` is every way to lose it. Unique keys
are modelled as PostgreSQL enforces them, over committed and uncommitted rows:
an `INSERT` waits for the other writer (`NumberFree`, `SkuFree`, the wait in
`Locate`) and fails if that one committed, which is again `Abort`.
`project_product_masters` has no unique key besides its id, and so `Locate` has
no wait for it.

Model, variant and colour of a workbook row are one value, its configuration;
each is compared with the catalogue in the same way. Left out: checks of single
cells, components, benefits and eligibility of list rows, the names of lists, the
warning about overlapping periods (it never blocks), the catalogue that projects
of one OEM share, and the masters made by forms, whose publish and retire are
the same conditional `UPDATE`. The variables `overtaken` and `twinned` are history:
the imports somebody changed while another request was confirming or deleting
them, and whether two requests made a parent at once.

### BusinessRecords

Some twenty handlers, each one transaction of a few statements, so the module
has one action per kind of statement and gives each handler as the script of its
statements (`UpsertBooking`, `PutCommercials`, `PatchDealer`, ...). `Write` is an
`INSERT ... ON CONFLICT DO UPDATE`, an `INSERT`, or the update of a row looked up
before; `Change` is an `UPDATE` with the columns supplied, `Miss` its 404 or 409.
A written row is locked until the end of the transaction and a `SELECT` sees what
is committed, so a `LookUp` may be stale when its result is used. Two writers that
wait for each other are both stuck until one of them aborts, which `Abort` covers.

A column holds the number of the transaction whose payload it shows, so a mixture
of two payloads can be seen; two column groups `f` and `g` stand for all, enough
for PATCHes that overlap and that do not. Transactions are numbered as they start,
and the number is also `created_at_utc`, which is `now()`. Handlers of different
groups write different tables; hence a behaviour picks one group (variable
`group`), and every interleaving across groups looks, table by table, like one of
these. What a handler reads of another group's tables (`commercials.py:96` the
journey's product, `create_outlet` the dealer) can only make it fail, which
`Abort` covers.

Left out: values, labels and provenance; authorization, references to masters and
evidence (reads that refuse a request before it writes); deletion of dealers and
outlets; `create_journey`. `finance_records` keeps no version, so its `version` in
the model only says that the row exists; the same goes for the other tables
outside `Versioned`.

### AdminOperations, Provisioning, RoleMappings, ProjectAdministration

An administrative request asks for the advisory lock of its key (`Arrive`,
`TakeLock`), claims the operation of the key (`Claim`: insert it, take the one
that is there, or refuse), and runs a saga whose every step ends with
`update_administrative_operation` in a transaction of its own. `pc[r]` stops
before each call and before each report, so a request can be lost between an
effect and its receipt (`Lost`). The lock's connection is in a transaction from its
first `SELECT` and idle from then on; `dependencies.py:143` lets the server end
such a connection after 10 s, while a saga waits for Security (5 s) and DI (15 s).
`LockLapses` is that: the lock is free and its holder does not know. `Claim` looks
for the operation and inserts it in one step. Two claims of a new key side by side
would meet at the unique index, except that it contains the tenant (`COALESCE(tenant_id,
'')`): if the first has recorded its tenant before the second inserts, there are two
rows of one key. That takes a lock that lapses before the first claim, and a second
request that pauses between its `SELECT` and its `INSERT` for as long as the first
takes to create a tenant, and is left out. The retry route reads the operation
before it asks for the lock and resumes from its copy (`seen`).

`Provisioning` is the saga over Security, the project row and DI. Security gives
one tenant for each Idempotency-Key, which is how `create_tenant` uses it; DI
becomes ready when it likes. `RoleMappings` is one user: Security's role and the
active assignments. The replacement of the assignments is modelled statement by
statement, because under READ COMMITTED its `UPDATE` sees other rows than the
`SELECT` before it; `tx[r].begun` is `now()`, which the `SELECT` compares with
`effective_from`. `ProjectAdministration` adds the activation, one transaction
with two checks, a call and an `UPDATE`, and the outlets the checks look at. The
checks on masters and on DI are one choice (`NotReady`). The history variables
`lapsed`, `shared`, `raced` and `drifted` say which requests overlapped, so that
a property can say "unless they raced".

`SecurityOpens` is whether `with SecurityAdminClient(...)` opens the client. It
does in the tests, which put a synchronous double in its place, and does not with
the class itself, which has `__aenter__` only. The main run takes the tests' word
for it, to check what the code around the call does; the run
`provisioning_shipped` takes the class as it is.

Left out: error codes, step names and correlation ids (nothing that changes state
reads them); Security's own checks; the business calendar of assignments, whose
`effective_to` is always open here; other users and other projects, which share no
row with these.

### WhatsAppOutbox, WhatsAppSessions, WhatsAppChannel

`channel_whatsapp/wa/outbox.py` and `session.py`, one action per statement. The
worker that calls them is imported (`channel_whatsapp.worker`) but not in the
repository, so who calls what and when is external: any sender may poll, die, or
learn anything from Meta at any time; a task may be lost or run again. Claims hold
nothing (the row stays `pending` and due), reports name the row and not the claim;
the age of a row (`later`, `due`, `old`) stands for `send_after` and the window of
23 hours. In the sessions, the timer and the flush run against tasks that look
for a session, register a file and restart the timer in three statements. The
flush claims a session (`ClaimForFlush`) and submits the files it then finds
(`Submit`); in between, as at any other time, whoever may close a session does.
`mark_complete` has no state in its `WHERE`, so `Advance` completes a session in any
state, one that never submitted included: what becomes of those files is the
worker's affair, and `LeftOutWasLate` speaks of sessions that have submitted.

Meta's answer to a send is as `client.py` reads it: accepted; accepted and the
answer lost; accepted, with a body that cannot be read, which the client reports as
a permanent failure; refused for now or for good. The webhook looks only at the
first message of a delivery (`webhook.py:23`), and a delivery brings one message
here.

`twice`, `lost`, `revived`, `twins` and `late` are history. The two halves share
no row, so a behaviour of `WhatsAppChannel` runs one of them.

Left out: media, routing to a contact, the deal builder (which writes `doc.deal`
and its review tasks) and its checklist, the texts of replies; `escalated` sessions
are not taken up again by any code here.

## 3. Runs

| Run | Instance | Shows |
|---|---|---|
| `workflow_safety` | 2 tasks, 2 workers, 1 cancelling person, 2 keys, 2 attempts, lease 2, lag 1, reaper limit 2, symmetry | all safety properties of the task engine, and that it implements `TaskPromise` |
| `workflow_live` | 2 tasks, 1 worker, no people, reaper limit 1, `FairSpec` | work of a crashed worker comes back |
| `workflow_exhausted` | the same | **violated**: not after the last attempt |
| `review_safety` | 3 requests, 2 keys, 2 decisions, 6 commands | hash chain, idempotency, agreement of the tables |
| `review_final` | 2 requests, 2 keys, 5 commands | **violated**: a completed review is overwritten |
| `evidence_safety` | 2 requests, 2 keys, 2 contents, 1 fault, `FairSpec` | one evidence row per key, of the right document; begun uploads get linked |
| `evidence_subject` | 2 requests, 2 keys, no fault | **violated**: evidence under another subject |
| `imports_safety` | 2 requests, 2 import ids, 2 keys, 3 workbooks, symmetry | numbers, SKUs and confirmations under concurrent administrators; what only a race can do |
| `facts_safety` | 3 transactions, 1 named id, 2 components, 4 payloads, 2 statuses | no lost or mixed writes, If-Match, delivery history, records without a unique key |
| `administration` | 2 requests, 1 provisioning and 2 mapping keys, 2 mappings, 2 outlets, crashes, 4 scenarios, symmetry | receipts tell the truth, progress is kept, a lone mapping holds, activation when ready |
| `provisioning_shipped` | the same, the Security client as it is, no crashes | **violated**: an operation stays RUNNING that nobody works on |
| `whatsapp` | 2 senders, 2 writers, 1 dedup key, 2 rows, 2 attempts; 2 handlers, 2 messages, 2 sessions, 1 task run again, symmetry | messages handed on once, replies and files lost or doubled only in a race |

Why the bounds are enough. Tasks do not interact except through the reaper's
limit and `SKIP LOCKED`, so two suffice; two workers give a holder and a
successor; two attempts give a first, a retried and a last one; a lease of two
ticks against a lag of one gives leases that are valid for one transaction and
expired for another. In the review, three requests give a writer, one waiting
for its lock and one that read before either; `MaxEvents` bounds commands, not
interleavings, and `CHECK_DEADLOCK FALSE` is there because nothing begins once
the bound is reached. In ingestion two requests give the concurrent pair of one
key and of two keys, two contents a key that is used again for another file, and
one fault strikes any step of either, the recovery included. In the imports, two ids give
two product workbooks that disagree about a SKU, or a product workbook and the
price list that rests on it; two requests give the concurrent pair, on one
import or on two. `Ids` bounds how many uploads are stored (ids of deleted ones
are not used again), not what is done with them. For the facts, three
transactions give two that overlap and one before or after them (the second
record of a race, then a PUT that must deal with it), or all three at once;
one named id lets two PATCHes meet on a row that a third created; the payloads
`<<1, 2>>` and `<<2, 1>>` are the lock orders that can deadlock. There
`CHECK_DEADLOCK FALSE` says that nothing begins after the third transaction, and
that a deadlock of two writers is for PostgreSQL to break.

In the administration two requests are the pair that races, and a third one comes
after, since a request that ended is free to arrive again. A scenario bounds what
occurs in one behaviour: one provisioning operation created and retried for as long
as one likes; two or three mapping operations with as many assignment transactions;
two mappings beside activations. A lock lapses once for each key. Provisioning is not mixed with mappings, since
it writes none of the rows they read. `Crashes` lets any request die at any step.
In the outbox, two rows let one be claimed with another, two attempts (the code has
three) give a first and a last one, two writers race for a key; two sessions give
an open one and its successor, two messages a file in time and one too late.
`MaxAgain` bounds tasks that are run twice. `CHECK_DEADLOCK FALSE` in these runs
because a bound may leave nothing to do.

Fairness. `workflow_live` assumes that time passes and that
`recover_stale_worker_tasks` is run again and again and does not leave out the
same row for ever. The function has no scheduler in this repository, only
tests call it: a deployment must provide one, or the result says nothing.
Nothing is assumed of workers. `evidence_safety` assumes, for its liveness property only, that a request which was
not lost goes on and that a client repeats an upload that was not answered; the
code has no resumer of its own, and `MaxFaults` stands for "the faults end".

### What the violated runs say

* **A crash in the last attempt is never dead-lettered.** The reaper selects
  rows with `attempt_count < max_attempts` (`workflow.py:525`), and only the
  lease owner may call `fail_worker_task`. The solution design (v2.1:297)
  promises a visible dead-letter state. A person can still close the task
  through the routes; nothing does so by itself.
* **A completed review can be overwritten.** The handlers check the state they
  read without a lock and the `UPDATE` does not repeat the check. The last writer
  wins, and the trail (which is intact) records a `REVIEW_COMPLETE` followed by
  a step no handler would accept.
* **Evidence under another subject.** Two first uploads of a customer create two
  DI subjects; the mapping keeps the first, the second request keeps its own.
* **Provisioning dies on its first call of Security.** `with` raises a `TypeError`
  for a class that only has `__aenter__`; no handler names it, so the request
  answers 500 and the operation stays `RUNNING`, neither completed nor marked for
  recovery. Role mappings, readiness and activation enter the same client in the
  same way. The documents promise the recovery state.

Two divergences that properties of a passing run fence in:

* **A confirmed import is not final.** Confirm and delete read the status
  without a lock, and neither the `UPDATE` (`project_master_imports.py:1558`) nor
  the `DELETE` (1595) names it again. A delete removes an import that was confirmed
  meanwhile, leaving its version without its source; a second confirmation makes a
  second version. The code says (1591) that a confirmed import cannot be deleted.
  `LoneConfirmationIsFinal`: only such a race does it.
* **Two product masters.** Two first confirmations both find none
  (`product_masters.py:39`) and both insert one. The code then refuses every later
  one, and no operation mends it. `SecondMasterWasRaced`: nothing else makes two.

More things met while modelling that no run states: a late
`_update_operation` can set a `LINKED` operation back to `RETRY_WAIT` (the
answer and the identifiers survive, `NothingForgotten`); a review decision
never closes the review task its submission created; a delivery status that was
left and taken again by overlapping PUTs may have no history row for the return,
although the physical data model (v2.1:79) promises every observed transition;
`patch_journey` and `patch_customer` verify no version; a repeated insurance PUT
adds its add-ons again; a request that waits longer than ten seconds for Security
and DI works on without its lock; each administrative request holds a pooled
connection for its lock and needs a second one, of ten (`dependencies.py:136`), so
ten at once all wait, until the pool's timeout; `webhook_api.py` imports
`channel_whatsapp.worker` and a `get_sync_engine` that do not exist;
`mark_failed` (`outbox.py:65`) and `mark_complete` (`session.py:93`) have no state
in their `WHERE`; the history of a task is listed by the start of the transactions
that wrote it, so that its last row need not name the task's status;
`_has_project_dependencies` (`projects.py:116`) counts
published masters of every kind except product masters.

## 4. Proofs

TLAPS checks the seven proof modules from nothing, for every number of tasks,
workers, keys, requests, attempts, faults, senders, writers, messages, imports,
workbooks, mappings, outlets and overlapping transactions. The assumptions are those
named in the modules: `AttemptsAssumption`, `TimeAssumption`, `LimitAssumption`,
`NoOneAssumption`, `DecisionsAssumption`, `BoundAssumption`, `FaultAssumption`;
`RequestsAssumption` (finitely many uploads run at once: the account of documents
counts them); `BodiesAssumption`, `BooksAssumption` (a workbook has a row, and no configuration
has the name that stands for none); `AdminAssumption` (no request is the value that
stands for none); `ProvisionKeysAssumption`, `MapKeysAssumption` (keys are keys, and
a removal is no mapping) and `OperationTypesAssumption` (provisioning and mappings
have different keys: an operation is found by its type and its key,
`admin_operations.py:77`); `NAssumption` and `KeysAssumption` of the business records
(requests name rows that a transaction may create, payloads are sequences of
components).

**Task engine.** The inductive invariant is the conjunction of the type
invariant, the safety invariants of the run and two strengthenings:
`FreshIsFree` (a row that does not exist yet has no lease and no attempt) and
`SeenCancellable` (what a running cancel request read was a cancellable status,
so its conditional write cannot reopen or re-close a closed task). One lemma per
conjunct, with one step per action. `QueuedIsClaimable` is what makes the ledger
argument work: a claim takes a fresh attempt number because a queued task has no
open attempt. The two action properties follow from the invariant, and so does
`EngineKeepsPromise`: `status` maps to `phase`, attempts to `tries`, and every
action is a step of `TaskPromise` or a stutter. Starts and heartbeats stutter;
the reaper's sweep is one `GiveBack`.

`HistoryAddsUp` compares counts of history rows with the attempts a result was
written to (`EndedWith`, a finite set whose size grows by one when an open attempt
ends, and not at all when there is none). So a requeue and its row, a dead letter
and its row, a claim and its row can only come together: a path that forgot one of
two statements, or wrote it twice, would break the sum. It needs
`LedgerMatchesLease`, since only that says that the attempt a failure report ends
is open.

**Review.** The strengthening says what a lock is for: `LocksExclusive` (no two
requests hold the same one), `KeyStillFresh` (a request past the key lock has
still no record), `LinkStillCurrent` (the head read under `FOR UPDATE` is the
head until the commit). From these a commit seals the head it read
(`EventSealsHead`) and the chain grows by one. On top of it `Told` (types, a finite
trail, `TrailTellsEverything`) is inductive: the sealed event is new, so the trail
and each of its counts (decisions, reviews, corrections) grow by exactly what the
same commit adds to the outbox, the decisions and the tasks.

**Evidence.** `TypeOK` is inductive by itself and gives `NothingForgotten`: a row of
the operation is only written through `COALESCE`. For the two other theorems the
strengthening has three parts. `Traced`: a document id that a request or an
operation has is that of a document uploaded under its key, with the body its record
was opened with. `Filed`: evidence, operations, records and answers name each other,
and ids run from 1 without gap. `Honest`: evidence keeps the document it was filed
with and shares it with no other. The row lock of `_link_evidence` makes a link one
step, so the first link of a key takes an id that nobody has and every later one finds
it; that, and not the idempotency record, is why an upload ends in one evidence row.
`NoNeedlessUpload` rests on an account per key (`Paid`): until the operation knows a
document, every document sent is held by a request that will record it or is a stray;
from then on no request becomes a sender, so what DI has plus the senders left stays
within the number of requests plus the strays.

**Master imports.** All six properties of the run are theorems. The inductive
invariant says what a confirmation can rely on between its statements although it
holds no lock. `Carries`: the rows it has added and those it has left are the rows of
its workbook, as long as the import is there. `Takes`: the versions below its number
exist, and once its row is inserted nobody else has that number; `Numbered` then
makes the number of a commit the next one, so the numbers stay dense without a
lock. `Makes`: the SKUs it has created are in nobody else's transaction and not in
the catalogue, and what it has resolved it still sees; a SKU, once made, is never
changed. `Based`: what validation saw of the product masters when the import was
uploaded stays true until it is confirmed, because a version is never unpublished
to a draft or removed. `Overtakes` and `Alone` say who else may be under way: these
hold only up to the history variables, which is where the code has no guard.

**WhatsApp.** All five properties of the run are theorems. A claim locks nothing, but
its row, unless it is in `twice`, is in the hands of one sender (`HeldOnce`), so what
this sender knows is what Meta knows (`Told`), until it reports or dies. A key without
racing writers has one pending reply, apart from those a late report revived
(`Single`). In the sessions, `LateIsKnown` follows a task from the moment it has found
its session: if the session closes before its file is registered, the message is late.
Since `get_session_files` looks at no state, this is carried from the claim on and
not from the session's state, and no later change of state matters.
`HandedOn` is the unique key on `wamid`.

**Administration.** All five properties of the composition are theorems. `Control`
ties a request's step to what it was asked for. `Locked` is what the advisory lock is
worth: a request past `TakeLock` holds the lock of its key or the key is in
`lapsed`; while the lock lasts nobody else moves the operation, and so its status
leaves `COMPLETED` only under a retry. `Truthful` and `Copied` do not need the lock.
The facts a receipt is about (a tenant of this key, a project of this tenant, DI
ready) are never undone, and receipts only grow, so a copy read before the lock, a
report of a request that lost the lock and a retry from a stale copy can all only
add what is true; Security's Idempotency-Key is why they add the same tenant.
`Alone` carries a mapping that overlaps with no other from one store to the other,
`RaceFree` the rows that a replacement found until it commits (nobody else's
transaction is open, or `raced` is set), `Checked` what an activation found until
its `UPDATE`, unless `drifted`. Each step of the composition is first shown to be one of a few
moves on the table of operations (`Moves`), so that the invariants over that table
are argued once per move and not once per action.

**Business records.** All five properties of the run are theorems, for any number of
transactions that overlap in any way. Of the scripts the proof only uses that they
are `WellFormed`, which is shown for each handler (`Scripts`), and of the steps that
each is a write, a look-up, a statement that passes, an end or a commit (`Kinds`). A
row has one open writer, so what the writer has read of a row is still there when it
commits: `WrittenTold` says that it holds, of each row it has spoken of, its own
number in the columns it named and the committed value in the others, and a commit
then makes `LastWord` true of the longer log. `Counted` is the same for versions:
the version of a dealer or an outlet is the number of commits that wrote it, and a
PATCH holding the row has found the one it named. For the look-ups without a lock,
`LookedAll`: a row that was found stays; if none was found, a row can only have come
from a transaction that committed after this one began, which is `Raced`; and if
nobody has committed since, the answer is still the latest row, which is `Answered`.
`History` shows why the unlocked read of a delivery status is harmless for the
current one: whoever it saw had committed, and had recorded the status itself or
seen somebody who had.

Every safety invariant and action property of a passing run is a theorem. Only
model-checked: liveness under fairness (out of the prover's reach), and the runs
that show a disagreement, which are counterexamples.

## 5. Not modelled

See the component list in `PROJECT.json` for each part and its reason. The DI
proxy, reads, telemetry, configuration and the application shell keep no state of
their own. Escalations and CRM observations, the masters made by forms, deletions
of dealers and outlets and `create_journey` are in the plan below. The WhatsApp
worker and the deal builder's caller are not in the repository.

## 6. Plan

1. `WorkflowTasks`, `TaskPromise` and proofs. *Done.*
2. `AuditReview` and proofs. *Done.*
3. `EvidenceIngestion` and proofs. *Done.*
4. `WhatsAppOutbox`, `WhatsAppSessions`, `WhatsAppChannel` and proofs. *Done.*
5. `AdminOperations`, `Provisioning`, `RoleMappings`, `ProjectAdministration`.
   and proofs. *Done.*
6. `MasterImports` and proofs. *Done.*
7. `EffectOnce`: `create_workflow_task_once` under escalations and CRM, inside an
   idempotent command; refinement to "one task per effect key".
8. `BusinessRecords` and proofs. *Done.*
9. `Organization`: projects with their identity check, the deletion of dealers
   and outlets against new dependents and foreign keys, `create_journey`; then a
   run for the promise about delivery transitions.
10. Proofs: the invariants and the refinement of 7.
