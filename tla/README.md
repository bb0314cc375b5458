# A verification of the ARMS AI audit backend

TLA+ models of the backend in `app/`, TLC runs that check them on small
instances, and TLAPS proofs of what matters most for instances of every size.
The backend takes orders from a browser extension, downloads and parses their
PDFs, audits them with deterministic rules and a language model, streams every
step to the user and lets people correct and confirm the results. All
coordination goes through PostgreSQL rows and Redis messages, and most of what
can go wrong is about two transactions, or a transaction and a late message.

## The system

| Component | State | Operations | Talks to |
|---|---|---|---|
| Order service (`services/order_service.py`) | `orders`, `order_files` | `ingest`, `retry_order`, `_enqueue_order` | writes `task_outbox` and events in its transaction |
| Outbox dispatcher (`services/dispatcher.py`) | `task_outbox.dispatched` | one loop: `dispatch_pending_once` every 2 s, `reconcile_stale_outbox` every 30 s | sends Celery messages, reads orders that wait |
| Broker (Redis through Celery, `workers/celery_app.py`) | queues, unacknowledged messages | late acknowledgement, requeue on a lost worker, visibility timeout | workers |
| Workers (`workers/tasks.py`) | `orders.pipeline_status`, `processing_jobs` | `process_pdf`, `run_audit_task`, `_mark_failed` | PDF service, audit service, outbox |
| State machine (`core/state_machine.py`) | none | `can_transition`, `validate_transition` | workers, order service |
| PDF service (`services/pdf_service.py`, `adapters/pdf`) | `order_files`, object storage | download, deduplicate by sha256, parse | called by `process_pdf` |
| Skills (`skills/registry.py`, `services/routing_service.py`) | manifests on disk | `match_skill` | called by the audit task and by `run_audit` |
| Audit service (`services/audit_service.py`, `skills/.../evaluator.py`) | `audit_results` | `run_audit`: rules, model, merge, validation, decision, cache by `input_hash` | LLM providers |
| LLM providers (`adapters/llm`) | none | `audit` | HTTP |
| Correction service (`services/correction_service.py`) | `human_decision`, `correction_history`, `confirmed_*` | `correct`, `batch_confirm` | events |
| Event store and stream (`repositories/event_repository.py`, `services/event_service.py`, `endpoints/events.py`) | `order_events`; a generator for each connection | `create_event`, `get_events_since`, `event_stream` | clients reconnect with `Last-Event-ID` |
| Order repository (`repositories/order_repository.py`) | none of its own | content hash, queries, statistics, `bulk_delete_by_owner` | endpoints |

What makes it hard:

* API requests read a row and write it in a later statement without a lock or
  a version column; workers claim with one compare-and-swap `UPDATE` and hold
  the row until their only commit, which may be minutes later.
* Delivery is at least once in several ways (send before commit, requeue,
  visibility timeout, reconcile) and may fail altogether, and tasks for old
  versions stay around while the order moves on.
* Event ids are drawn before their transaction commits.
* The model may answer anything, and configuration on disk changes between
  two audits of the same version.

What makes each component correct: one verdict a version and on the content it
names, status and verdict and jobs in agreement, no order forgotten
(pipeline); one row for each file of a version, a ready order with text, rows
that name stored objects and their content's status, a clear that ends and
leaves nothing behind (files); events complete, in order, own and never silent
(stream); the most specific skill or a human, rules before the model, no pass
against them, one row an input (audit); a history that tells what happened,
requests that end (adjudication).

## The modules

| Module | Models | Checked through | Proofs |
|---|---|---|---|
| `StateMachine` | the transition table and its lookups | `Pipeline` | |
| `Pipeline` | order service, outbox, dispatcher, broker, workers | `MCPipeline` | `PipelineProofs`, `VerdictProofs`, `WaitingProofs` |
| `VerdictLedger` | abstract specification: a write-once ledger of verdicts | `Pipeline!LedgerSpec` | `VerdictProofs!Refinement` |
| `EventStream` | event table, stream generator, reconnecting client | `MCEventStream` | `EventStreamProofs` |
| `OrderFiles` | order files: ingest, attempts of `_run_pdf_task`, object storage, the clear endpoint | `MCOrderFiles` | `OrderFilesProofs` |
| `FileBoard` | abstract specification: a board with one outcome for each file of an order | `OrderFiles!BoardSpec` | `OrderFilesProofs!Atomic` |
| `SkillRegistry` | manifests, scores and the tie rule, as operators, with a reference definition | `AuditDecision` | `RoutingProofs` |
| `AuditDecision` | routing and `run_audit` over one version, under changing manifests, rules and settings | `MCAuditDecision` | `AuditProofs` |
| `Adjudication` | `correct` and `batch_confirm`, with row locks | `MCAdjudication` | `AdjudicationProofs` |

Operators whose comment begins with MUTANT are deliberate mistakes. They are
used by no specification; each shows that the property it belongs to would
notice that mistake in the definition that follows it.

### Pipeline

The variables hold *committed* database state, the broker's queues and where
each process is.

* A task is one transaction. `Claim` is everything up to and including the
  successful compare-and-swap and the job check, and leaves the worker
  `"working"` with the row locked (`Locked`). The statuses it passes through
  (`PDF_DOWNLOADING`, `ROUTING`, `AI_QUEUED`, `AI_RUNNING`) and its `RUNNING`
  job are invisible until the commit and never committed, so they are not
  values of `status`; they occur as the arguments of `CanTransition`, which is
  `_transition_order`'s guard. `PdfFailed`, `PdfReady`, `PdfManual`,
  `AuditUnrouted` and `AuditDone` are the commits.
* For the same reason the check for a `RUNNING` job in `reconcile_stale_outbox`
  can never find one, and `_find_active_job` only ever finds `COMPLETED` jobs:
  `completed` counts those. A job found makes the task return without a
  commit, which undoes its claim (`ClaimRefused`).
* A request is a read (`IngestRead`, `RetryRead`) and a write (`IngestCreate`,
  `IngestUpdate`, `RetryWrite`), which blocks while a worker holds the row.
  `_enqueue_order` runs in the transaction of the write. `IngestConflict` is
  the unique constraint, `RequestRollback` any other failure.
* `_mark_failed` is a read with its checks and a write by primary key.
* A pass of the dispatcher is one action, an optional reconcile followed by
  the sending of any set of pending rows (a send may fail). Its crash after
  some sends, before the commit, is `DispatcherCrash`.
* The broker is a bag of messages: the two tasks have queues of their own and
  retries are delayed, so nothing fixes an order. `Lose`, `Redeliver` and
  `WorkerCrash` are its faults.

`VerdictLedger` says in a dozen lines what all this is for: versions and
contents come from outside, and for a version at most one verdict is entered,
on the content the order has then. `Pipeline` implements it with
`verdicts <- results`.

### EventStream

`CreateEvent` takes an id from the sequence at flush, `Commit` makes it
visible, `Rollback` wastes it. The generator is its local variables:
`since_id`, `batch` (rows read and not yet yielded) and `heartbeat_count`.
`CatchUp` is the read before the loop, `Poll` a read of the loop with its idle
counting, `Send` one yield. A dropped connection ends the generator anywhere;
`Reconnect` is `stream_events` with the last id the client received.

### OrderFiles

`Pipeline` knows three outcomes of a download task; this module is what happens
inside. `files` is the committed content of `order_files`, `stored` the objects
in MinIO, and a worker's attempt (`task[w]`) carries what its transaction has
inserted and deleted, which only `Finish`, the attempt's one commit, makes
visible. Each file of the attempt is one step with the outcomes the code tells
apart: `FileRaises` (no URL, download or upload failed: the row stays PENDING),
`NotPdf`, `Dedup` (a row with the same sha256 exists and its status is copied)
and `ParseNew` (uploaded, parsed, recorded). An upload is not taken back by a
rollback. `ToProcess` is `_get_pending_files` with its fallback, `Result` the
order of the tests on `any_failed`, `processed_count` and `skipped_or_ocr`.

The clear endpoint is a transaction of several statements, and two of them go
through rows that workers hold: `ClearBegin` selects the orders and, as the
DELETE of files starts, the file rows it sees; `ClearFile` deletes one of them,
in any order, and waits for a worker that is replacing it; `ClearLock` deletes
one row of `orders` and waits for the worker that has claimed it; `ClearCommit`
ends it. All along, rows already deleted stay locked, and a worker that comes to
one waits for the clear (`Block`). The two may wait for each other at either
statement (`Deadlocked`), and PostgreSQL then ends one of them (`ClearAborted`,
`WorkerAborted`). When the worker commits first, the row it replaced is gone and
the clear goes on without it (`Finish`); what the worker inserted instead goes
with the cascade. The DELETEs of events, verdicts, jobs and outbox rows between
the two are left out: the rows in them that a worker holds belong to an order it
has claimed, which the clear comes to and waits for in any case.

`FileBoard` is the module's abstract specification: a status and, for each
entry of the last ingest, what became of it, with no worker, lock, upload,
version or clear in progress. An attempt, and a clear, is one step of it. The
mapping reads an order's status and the rows of its current version
(`BoardOf`). That the mapping is a step or a stutter is what serialises the
workers: what an attempt read at its claim must still be there at its commit.

Requests are single steps here. What two overlapping ingests do to the version
is `Pipeline`'s subject (PipelineDrift); the rows of both are then in that one
version, so `RowsFollowIngest` is about ingests that do not overlap.

### SkillRegistry and AuditDecision

`SkillRegistry` translates `load_manifests`, `_score_match` and `match_skill`
over a *listing*, the sequence in which the file system returns the manifests:
`Matches` are the places of those that score, `First` is the head after the
stable sort (the place that no other `Precedes`), `Tied` the others with its
key. What raises before the sort is `Unsortable`: a null list of industries or
categories in the order's snapshot, which is a free dictionary; a manifest that
cannot be scored, whatever the order; a priority that is no integer, of a
manifest that matches. A missing prompt raises after it. `Unroutable` and
`Winners` are the reference definition, over the *set* of manifests and without
scores of sequences: whether the order, or a manifest it has to be compared
with, is unreadable, and the one eligible manifest that beats every other one.
`RoutesToTheBest` compares the two for every listing of every deployment, and
says of every exception that it had to be.

The audit task routes (`Route`, `RouteEnds`) and `run_audit` routes again
(`FoundAgain`); in between manifests may be deployed (`Deploy`), `rules.yaml`
edited (`EditRules`), or the process restarted with other settings, which loses
the task (`Restart`). The order is one of several (`audited`), with what routing
reads of its snapshot; what the rules read of snapshot and text is a function
from rules to what their comparison finds (`Comparison`). Both are chosen once.
A provider returns the model's answer, or a manual response without rules:
for an error, or for an answer that fails the schema, which is stored as it came
(`ManualResponses`).
`DeterministicRules`, `Merged`, `Validated`, `Degraded` and `FinalDecision` are
the code's functions of the same purpose; `NewRow` composes them as `run_audit`
does, the decision from the provider's answer and the validated rules and not
from the validated decision. Exceptions end the task's transaction
(`AuditRaises`), among them some the code does not mean to raise: an unreadable
`rules.yaml` (its handler names `hashlib.Error`, which does not exist), an
answer without choices or content, and those of routing.

A row has a decision twice, in its own column and in `normalized_output`, and
the two are computed apart. `NoPassAgainstRules` says how far a PASS can be
trusted all the same: the answer was read, every rule that is kept passed, and
`normalized_output` says PASS too wherever a rule is left. Where none is, they
may differ: under a `rules.yaml` of optional rules only (the one in the
repository always gives a result, and so does the instance that is checked), an
answer of PASS whose rules were all made up is degraded in `normalized_output`
and not in the column. An answer of PASS that comes without rules, under a skill
without usable ones, is not degraded at all, which is not what the docstring of `_validate_audit_output` says ("PASS
with no evidence -> degraded to MANUAL_REVIEW").

### Adjudication

One action a statement: `CorrectRead`, `CorrectLookup` (the verdict, a second
`SELECT`), `CorrectWrite`; and for batches `ConfirmBegin`, `ConfirmRead`,
`ConfirmWrite` for each order, `ConfirmCommit`. `UPDATE`s need the row
(`lock`), which batches keep to their commit and audit tasks hold from claim
to commit. PostgreSQL's deadlock detection is modelled as external:
`DeadlockAbort`. An `UPDATE` writes only the columns that changed against what
was read, hence the condition in `CorrectWrite`.

## The runs

Passing runs:

* **PipelineSafety** One order, two contents, two versions, two workers, two
  requests in flight, one fault. Two of each is what every race needs: two
  claims, a claim against a request, a request against a request, `_mark_failed`
  against another worker. Symmetry over workers, clients and contents is sound
  here because no property is a liveness property and no definition tells them
  apart. A second order shares nothing with the first but the bounded counters,
  and the proofs cover any number.
* **PipelineLiveness** An order never waits for ever, and never for a task
  that is completed already (`NothingStranded`): two workers, one retry
  of a task, one fault, and one request, which is a new version or a retry of
  a failed order. There is a single client: with two both properties are
  false (PipelineStuck).
* **EventStream** Two writers, four events of two users, batches of two, one
  lost connection: enough for a full batch, a gap, ids that become visible out
  of order and a drop inside a batch. `NothingSkipped` is about the behaviours
  among them in which the user's events commit in the order of their ids: there
  the client holds every one up to the stream's position, at any moment.
* **AuditDecision** A required rule, an optional one and a required_check,
  every comparison outcome, answers with no rule, one of the skill, the
  required one or a made-up one, two models, two audits. An order that can be
  routed and one with a null list. Seven deployments: a general skill, a more
  specific one beside it (with a third the order does not meet, whose priority
  is no number and does not matter), a tie, none that matches, a manifest that
  raises, a matching one whose priority is no number, and a winner without its
  prompt; each in every order of its files. Properties concern a row, two rows,
  or the manifests and a row.
  After the last audit nothing happens any more, so deadlock is not checked.
* **OrderFiles** Two orders, two workers, two files of which a request sends
  one or both, one content that parses and one that does not, two requests (a
  clear is one) and one exception. Two orders because deduplication goes across
  orders and a clear deletes several; two workers so that one commits while the
  other, or the clear, is in the middle. Only the order with one file changes
  while it exists (`Updated`); the other one is new, is retried and is cleared,
  which is where two files matter. `BoardSpec` checks the refinement,
  `BlockedHoldsOrder` that no clear commits under a worker that waits for it,
  and `ClearEnds` that a clear ends, from its first statement on. The requests
  are bounded, so deadlock is not checked.
* **Adjudication** Two clients, two orders, batches of up to two ids with
  repetitions, three requests, and an audit of each order. Three, because it
  takes three corrections to make the row's decision differ from the last one
  announced. One order is corrected (`Corrected`): a correction holds no row
  while it waits, so corrections of another order would be in no cycle with
  batches, and the other properties speak of one order at a time. Its requests are
  bounded, so the system ends and deadlock is not checked; that every request
  ends is `RequestsEnd`, and `NobodyStuck` is the state property behind it: in
  every set of requests closed under waiting, one can go on, is a victim of the
  deadlock detector, or waits for a worker.

Runs that find a disagreement between the code and what the repository says of
it:

| Run | The repository says | The code does |
|---|---|---|
| PipelineOverwrite | `_mark_failed`: "Never overwrite terminal states" | checks, then writes by primary key: a verdict committed in between is overwritten |
| PipelineDrift | order_version goes up when detail_hash changes (P1 specification) | two overlapping ingests write two contents as one version |
| PipelineStuck | `_find_active_job`: retries of a version "can create new attempts" | two overlapping retries leave an order in PDF_QUEUED that every task refuses and no retry is allowed for |
| EventSkipped | "Missed event catch-up" | an event committed after a larger id was sent is never sent |
| FileForgotten | "One required PDF failure -> not AI_COMPLETED" (acceptance test) | a retry counts only the files that are still PENDING: an order with a FAILED file becomes PDF_READY and is audited |
| CorrectionLost | "Multiple corrections accumulate in history" | the later of two overlapping corrections drops the other's entry |

The properties that hold are stated around these: `StatusAgreesWithVerdict`
allows FAILED_FINAL over a verdict, `OneVerdictPerVersion` and the ledger hold
in spite of the drift because the verdict records the content it was given on,
`EventsAheadArrive` is about events committed ahead of the stream, and
`HistoryAnnounced` says that what a history still holds really happened. A
second confirmation that overlaps a first is also accepted and announced twice,
although `batch_confirm` says that "already confirmed orders are skipped";
`LastEventInRow` says the row then agrees with the last announcement. Of
corrections it says so of the history, and less of `human_decision`: two
corrections that both read PASS, the first to write making it REJECT, leave
REJECT, since the second does not write a column it has not changed, and
announces PASS. What holds is that the column is the decision of the last
correction, but for later ones that kept what they had read.

### Bounds

| Constant | Bounds | Why it is enough |
|---|---|---|
| `MaxVersion` | versions of an order | a current one and an old one |
| `MaxRequests`, `MaxFaults` | requests and faults in a behaviour | every single fault at every point |
| `MaxRetries` | Celery's `max_retries`, 3 in the code | 0 and 1: the last attempt and one before it |
| `MaxCopies` | copies of one message in the broker | a further copy is as if lost at once; together with a held one there are two |
| `MaxId`, `MaxDrops` | events, lost connections | two batches, and a reconnect |
| `Limit`, `Interval` | 100 and 15 in the code | 2: the code compares with them only |
| `Updated` | orders whose detail changes while they exist | one: rows of an earlier version beside those of a current one; the other order's rows come from it by deduplication only |
| `Corrected` | orders that are corrected | one, with batches that confirm it and another |
| `MaxAudits`, `AiRules` | audits of a version, rule lists of an answer | properties relate two rows and one rule with its deterministic result |
| `MaxList` | ids of a batch (200) | two batches with two orders make a cycle |

The theorems hold for every value of all of them.

### Fairness

* *Pipeline.* The dispatcher is an endless loop, so a pass that reconciles and
  sends is weakly fair; an order that waits grows old; a worker goes on with
  the task it holds; a request ends. Idle workers take some message as long as
  there is one: no message in particular is promised a turn. Faults are never
  fair and are bounded: for ever failing sends or crashes would prevent any
  progress.
* *OrderFiles.* A worker goes on with its attempt (downloads time out) and the
  deadlock detector runs. The clear's next step (`ClearGoesOn`: a row of either
  DELETE, or the commit) is strongly fair: the row it waits for changes hands
  between workers, and PostgreSQL queues the waiters of a row. Nobody has to
  start a clear or claim an order.
* *EventStream.* The generator's steps and the reconnect are weakly fair: an
  `EventSource` comes back by itself.
* *Adjudication.* Workers end their tasks (the model call has a timeout). A
  request's next statement is strongly fair because rows change hands
  meanwhile and PostgreSQL serves the waiters of a row in turn; the deadlock
  detector runs.

## The proofs

All theorems hold for any sets of orders, contents, workers, clients, files,
skills, rules, and any bounds, under the modules' named assumptions
(`BoundsAssumption`, `NoneAssumption`, `StreamAssumption`, `SkillsAssumption`,
`ManifestsAssumption`, `RulesAssumption`, `AiRulesAssumption`, `FilesAssumption`, `NoTask`,
`AdjudicationAssumption`): bounds are naturals, `None` is none of the values it
stands beside, the required rules are among the matching rules, the ids of the
model are not ids of the skill, manifests name known skills, there are finitely
many clients and manifests, the priority of a manifest is an integer where
`int()` takes it, and the parser gives each content one status.

* `PipelineProofs`: `TypeOK` is inductive. It includes that a worker holds a
  message exactly while it is busy and that nothing works on an absent order.
* `VerdictProofs`: the invariant is `SafetyInv` = `TypeOK`, `ClaimsExclusive`,
  `JobsBackVerdicts`, `OneVerdictPerVersion`, `StatusAgreesWithVerdict`. None
  of the last three is inductive alone. That a second verdict is not stored
  rests on the completed job of the first (`JobsBackVerdicts`) and on nothing
  having been completed for the task a worker is in (`ClaimsExclusive`), which
  in turn rests on nobody writing the order's row while it is claimed.
  `StatusAgreesWithVerdict` needs the same for the content: an ingest of the
  same version must wait for the row, and finds it moved on. From the
  invariant follow the action property `OnlyCurrentVersionRecorded` and the
  refinement: each step is `Judge` (`AuditDone`), `Submit` (an ingest's write)
  or a stutter.
* `WaitingProofs`: `WaitingOrderHasRow` (outbox rows are never deleted, and
  whoever queues an order adds one), and `NotStranded`, that no order waits for
  a task with a COMPLETED job, as a theorem about `Spec /\ []RequestsApart`:
  requests on one order do not overlap. Without that hypothesis it is false, as
  PipelineStuck shows, and nothing in the code keeps two requests apart. Its
  invariant follows an order through its versions (`Unfinished`: no job for a
  version to come, no audit job without a download job, no download job while
  the status asks for a download) and says what a request on its way can still
  rely on (`Current`): the version it read is the order's, and a retry was
  allowed by a download that failed, which only a late `_mark_failed` changes.
* `EventStreamProofs`: what has been received is below `since_id`, rows of the
  batch are above it, committed and the user's, and a closed stream has no
  batch; the heartbeat follows from `silent` never passing `heartbeat_count`.
  `NoneSkipped` is the safety half of `EventsAheadArrive`. It is about
  behaviours with `[]CommitsInOrder` (EventSkipped shows it false without) and
  needs that a row the generator has not read has a larger id than all it has
  (`BatchFirst`), which holds because `LIMIT` cuts off the largest ids, by
  counting rows, and that the generator stands where the client does (`InStep`).
* `RoutingProofs`: `BestSkillFound`, that `match_skill` over any listing of a
  set of manifests raises before the sort exactly where the reference says that
  the order is unroutable (`UnsortableIfUnroutable`), and otherwise names the
  manifest `Winners` defines without listing, scores or sort, or raises for its
  prompt. That the head of the sorted matches exists and precedes every other is
  an induction over a finite set; it is had from the well-foundedness of strict
  inclusion (`MinimalExists`: an element with a smallest set of predecessors).
  That `Score` is the reference's `Specificity` is counted out criterion by
  criterion, and a listing shows each manifest exactly once, so two places with
  one key are two manifests (`UntiedFirstWins`, `WinnerIsFirst`).
* `AuditProofs`: `AuditInv`, the type invariant with the four properties of
  rows, is inductive; the lemmas give the rules of a new row. With
  `BestSkillFound`, `RoutingRight` and `WinnerAudited` hold for every set of
  orders and deployments, whatever changes between the two routings of an audit.
* `OrderFilesProofs`: `FilesInv` describes a worker's attempt in the middle of
  its transaction. Each row of the version is still to be processed, or is one
  that raised, or has been replaced by exactly one row that the attempt made
  for the same entry; rows still to be processed are committed rows of the
  order's version, and what the worker made carries the content's status and a
  stored object. Together with the lock (nobody else changes the rows of a
  claimed order, the clear only the orders it has locked) this gives every
  safety property of the module, and the commit is a step from one set of rows
  for the entries to another. `Atomic` is the refinement of `FileBoard`. It
  needs more of an attempt (`CoversInv`): what is tried and still to be tried is
  exactly what the order's rows ask for *now*, not only at the claim, unless a
  file raised and was left out. Then a commit is the board's `Attempt` with the
  entries the worker processed, the commit of a clear is its `Clear`, and every
  other step of a worker or of the clear is a stutter.
* `AdjudicationProofs`: `LastEventInRow` and `HistoryAnnounced` are not
  inductive, since a request writes from what it read earlier. The invariant
  says it of what each request *holds* too (`ReadInv`): the history it read was
  announced, was real, and agrees with the human decision it read, whatever was
  committed since. Its two stability lemmas carry that over more events and
  later verdicts (`StillConsistent`) and over the write of one more entry
  (`EntryAdded`). `LastEventInRow` is followed row by row (`AgreesIn`): a
  correction that does not change the column announces an entry whose two
  decisions are equal, so the correction the column comes from stays
  (`LastDecision`).
  `WritesExclusive` needs that a batch's rows are locked by it (`HoldInv`).
  `NoneStuck` needs the converse, that a lock is never left behind by a request
  that has ended (`HeldByBatch`), so that whoever waits, waits for a worker or
  for a request under way; and that a finite set of requests in which each waits
  for another contains a cycle as the detector defines it (`CycleExists`, a
  smallest subset that its waits do not leave).

Only model-checked: the four liveness properties, since liveness under fairness
is out of the prover's reach. For each of them a theorem gives the safety
argument it rests on: `QueuedOrdersSettle` needs that a waiting order has an
outbox row and a task that can be claimed (`WaitingHasRow`, `NotStranded`),
`EventsAheadArrive` that nothing is passed over (`NoneSkipped`), `RequestsEnd`
that somebody can always go on (`NoneStuck`), and `ClearEnds` that a worker held
up by the clear holds an order the clear has still to delete (`BlockedCorrect`):
the clear comes to wait for it, if not for one of its files before, and the
detector ends the wait.
The runs that end in a violation show their counterexamples and prove nothing.

## Not modelled

* URL validation, redirects, HTTP and text extraction: a download is a content,
  no PDF, or an exception.
* The canonicalisation under `detail_hash`. Two consequences are worth knowing:
  it leaves out URL signatures, so a re-ingest with fresh links is unchanged and
  the expired ones stay; and it leaves out `business_type`, which routing reads.
* `run_audit` reads `rules.yaml` for the hash, for the rules and, after the
  model has answered, for the valid ids; `AuditDecision` has one read.
* The limit of a reconcile (100 orders), and the order of a dispatcher pass.
* Batches of ingests; decisions and confirmations that stay on an order when a
  new version replaces the content they were made on.
* Migrations, listing and statistics, ownership and identity, logging and
  settings: no state of the system, or pure input and output.

## Plan

Done: the pipeline and its ledger, the event stream, files and the clear,
routing and audit, adjudication, with proofs of every safety property the
passing runs check and of both refinements.
Left, in this order:

1. A version in `Adjudication`, so that decisions left over from an older
   version can be stated.
2. `run_audit` in steps, around the model call.
3. The limit of a reconcile, over many orders reduced to their status and age.
4. A refinement between `FileBoard` and the download outcomes of `Pipeline`.
