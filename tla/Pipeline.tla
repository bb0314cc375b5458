------------------------------ MODULE Pipeline ------------------------------
(***************************************************************************)
(* The order pipeline: ingest and retry requests write the orders table    *)
(* and the transactional outbox, the dispatcher loop turns outbox rows     *)
(* into Celery messages, and worker processes execute the two task kinds   *)
(* against the same table.                                                 *)
(*                                                                         *)
(* The variables hold COMMITTED database state.  A worker task is one      *)
(* transaction from the claiming UPDATE, which locks the order's row, to   *)
(* its only commit, so the statuses it passes through (PDF_DOWNLOADING,    *)
(* ROUTING, AI_QUEUED, AI_RUNNING), its RUNNING job and the RECEIVED of    *)
(* ingest and retry are never visible to anyone else; they appear here as  *)
(* the arguments of CanTransition.  An API request reads the order without *)
(* a lock and writes it in a later statement: its read and its write are   *)
(* two actions.                                                            *)
(***************************************************************************)
EXTENDS Naturals, Sequences, FiniteSets, StateMachine

CONSTANTS
  Orders,       \* task_order_ids
  Contents,     \* values of detail_hash
  Workers,      \* Celery worker processes
  Clients,      \* concurrent API requests
  None,         \* no worker, no message, no request, no content
  MaxRetries,   \* Celery max_retries of both tasks
  MaxVersion,   \* bound: order versions
  MaxRequests,  \* bound: API requests in a behaviour
  MaxFaults,    \* bound: losses, crashes, exceptions, redeliveries
  MaxCopies     \* bound: copies of one message waiting in the broker

ASSUME BoundsAssumption ==
  /\ MaxRetries \in Nat /\ MaxVersion \in Nat \ {0} /\ MaxRequests \in Nat
  /\ MaxFaults \in Nat /\ MaxCopies \in Nat \ {0}

Version == 1 .. MaxVersion
Kind == {"process_pdf", "run_audit"}
Decision == {"PASS", "REJECT", "MANUAL_REVIEW"}

(* What a task_outbox row and a processing_jobs row refer to, and what the *)
(* two Celery tasks take as arguments.                                     *)
Task == [order : Orders, version : Version, kind : Kind]

(* A message of the broker: a task and self.request.retries.               *)
Message == [task : Task, retries : 0 .. MaxRetries]

(* An audit_results row.                                                   *)
Verdict == [order : Orders, version : Version, content : Contents \cup {None},
            decision : Decision]

(* A request between its SELECT and its writes: what it read of the order. *)
Request ==
  [op : {"create", "update"}, order : Orders, content : Contents,
   version : Version \cup {0}]
    \cup [op : {"retry"}, order : Orders]

ASSUME NoneAssumption ==
  None \notin Contents /\ None \notin Message /\ None \notin Request

(* A worker is idle, has an open transaction on the order it claimed, or   *)
(* runs _mark_failed: before its read, and between its read and its write. *)
Stage == {"idle", "working", "failing", "marking"}

VARIABLES
  status,     \* orders.pipeline_status, "ABSENT" before the first ingest
  version,    \* orders.order_version
  content,    \* orders.detail_hash
  stale,      \* orders.updated_at is OUTBOX_STALE_AFTER_SECONDS old
  completed,  \* number of COMPLETED processing_jobs rows of a task
  results,    \* audit_results
  outbox,     \* dispatched flags of a task's task_outbox rows, oldest first
  queue,      \* copies of a message waiting in the broker
  stage,      \* where each worker is in its task
  held,       \* the unacknowledged message of each worker
  request,    \* the API request each client is in the middle of
  requests,   \* requests so far (bounded by MaxRequests)
  faults      \* faults so far (bounded by MaxFaults)

orderVars  == <<status, version, content, stale>>
ledgerVars == <<completed, results>>
workerVars == <<stage, held>>
clientVars == <<request, requests>>
vars == <<status, version, content, stale, completed, results, outbox,
          queue, stage, held, request, requests, faults>>

TaskOf(o, v, kind) == [order |-> o, version |-> v, kind |-> kind]

(* The processes start on the database as it was left: some orders were    *)
(* ingested and not dispatched yet, the others are unknown.                *)
Init ==
  \E known \in SUBSET Orders :
    /\ status = [o \in Orders |-> IF o \in known THEN "PDF_QUEUED" ELSE "ABSENT"]
    /\ version = [o \in Orders |-> IF o \in known THEN 1 ELSE 0]
    /\ content \in [Orders -> Contents \cup {None}]
    /\ \A o \in Orders : (content[o] = None) <=> (o \notin known)
    /\ outbox = [k \in Task |->
         IF \E o \in known : k = TaskOf(o, 1, "process_pdf") THEN <<FALSE>> ELSE <<>>]
    /\ stale = [o \in Orders |-> FALSE]
    /\ completed = [k \in Task |-> 0]
    /\ results = {}
    /\ queue = [m \in Message |-> 0]
    /\ stage = [w \in Workers |-> "idle"]
    /\ held = [w \in Workers |-> None]
    /\ request = [c \in Clients |-> None]
    /\ requests = 0
    /\ faults = 0

-----------------------------------------------------------------------------
(* Helpers *)

(* db.add(TaskOutbox(...)): one more undispatched row of the task.         *)
AddRow(k) == outbox' = [outbox EXCEPT ![k] = Append(@, FALSE)]

(* MUTANT of Locked: the claim is committed at once, as a first step.      *)
NeverLocked(o) == FALSE

(* The row lock of the claiming UPDATE, held until the task's transaction  *)
(* ends.                                                                   *)
Locked(o) == \E w \in Workers : stage[w] = "working" /\ held[w].task.order = o

(* Another transaction can write the order's row only while no worker      *)
(* holds it; the write resets updated_at (onupdate).                       *)
WriteOrder(o, newStatus) ==
  /\ ~Locked(o)
  /\ status' = [status EXCEPT ![o] = newStatus]
  /\ stale' = [stale EXCEPT ![o] = FALSE]

(* MUTANT of Enqueue: the row is made before the new version is read back. *)
EnqueueOldVersion(o, v) ==
  /\ CanTransition("RECEIVED", "PDF_QUEUED")
  /\ WriteOrder(o, "PDF_QUEUED")
  /\ AddRow(TaskOf(o, version[o], "process_pdf"))

(* _enqueue_order: RECEIVED -> PDF_QUEUED and the process_pdf outbox row,  *)
(* in the transaction of the request.                                      *)
Enqueue(o, v) ==
  /\ CanTransition("RECEIVED", "PDF_QUEUED")
  /\ WriteOrder(o, "PDF_QUEUED")
  /\ AddRow(TaskOf(o, v, "process_pdf"))

(* The broker's copies of a message are told apart up to MaxCopies: what   *)
(* is published beyond the bound is as if lost at once.                    *)
Cap(copies) == IF copies < MaxCopies THEN copies ELSE MaxCopies

Publish(m) == queue' = [queue EXCEPT ![m] = Cap(@ + 1)]

Fault ==
  /\ faults < MaxFaults
  /\ faults' = faults + 1

-----------------------------------------------------------------------------
(* API requests (order_service.ingest, order_service.retry_order) *)

(* get_by_task_order_id finds no order, or one with another detail_hash:   *)
(* the read fixes the branch of ingest and the order_version it will       *)
(* increment.                                                              *)
IngestRead(c, o, x) ==
  /\ request[c] = None
  /\ requests < MaxRequests
  /\ content[o] # x
  /\ request' = [request EXCEPT ![c] =
       [op |-> IF status[o] = "ABSENT" THEN "create" ELSE "update",
        order |-> o, content |-> x, version |-> version[o]]]
  /\ requests' = requests + 1
  /\ UNCHANGED <<orderVars, ledgerVars, outbox, queue, workerVars, faults>>

(* The same detail_hash: only the arms_* columns are written, from the     *)
(* request alone, which moves updated_at.  (Where they do not differ       *)
(* nothing is written.)                                                    *)
IngestUnchanged(o) ==
  /\ status[o] # "ABSENT"
  /\ requests < MaxRequests
  /\ ~Locked(o)
  /\ stale' = [stale EXCEPT ![o] = FALSE]
  /\ requests' = requests + 1
  /\ UNCHANGED <<status, version, content, ledgerVars, outbox, queue, workerVars,
                 request, faults>>

(* The end of a request: the session commits or rolls back.                *)
Finish(c) ==
  /\ request' = [request EXCEPT ![c] = None]
  /\ UNCHANGED <<requests, ledgerVars, queue, workerVars, faults>>

(* An INSERT of version 1, unless another request created the order since  *)
(* the read: the unique constraint then fails this request.                *)
IngestCreate(c) ==
  LET r == request[c] IN
  /\ r # None /\ r.op = "create" /\ r.version < MaxVersion
  /\ status[r.order] = "ABSENT"
  /\ version' = [version EXCEPT ![r.order] = r.version + 1]
  /\ content' = [content EXCEPT ![r.order] = r.content]
  /\ Enqueue(r.order, r.version + 1)
  /\ Finish(c)

IngestConflict(c) ==
  LET r == request[c] IN
  /\ r # None /\ r.op = "create"
  /\ status[r.order] # "ABSENT"
  /\ UNCHANGED <<orderVars, outbox>>
  /\ Finish(c)

(* A new detail_hash: the version read, plus one, is written with the new  *)
(* content, whatever the row holds by now.                                 *)
IngestUpdate(c) ==
  LET r == request[c] IN
  /\ r # None /\ r.op = "update" /\ r.version < MaxVersion
  /\ version' = [version EXCEPT ![r.order] = r.version + 1]
  /\ content' = [content EXCEPT ![r.order] = r.content]
  /\ Enqueue(r.order, r.version + 1)
  /\ Finish(c)

RetryRead(c, o) ==
  /\ request[c] = None
  /\ requests < MaxRequests
  /\ status[o] # "ABSENT"
  /\ CanTransition(status[o], "RECEIVED")
  /\ request' = [request EXCEPT ![c] = [op |-> "retry", order |-> o]]
  /\ requests' = requests + 1
  /\ UNCHANGED <<orderVars, ledgerVars, outbox, queue, workerVars, faults>>

(* The write goes by primary key; the refresh after it reads the version   *)
(* the order has now, and that version is enqueued.                        *)
RetryWrite(c) ==
  LET r == request[c] IN
  /\ r # None /\ r.op = "retry"
  /\ Enqueue(r.order, version[r.order])
  /\ UNCHANGED <<version, content>>
  /\ Finish(c)

(* The request fails before its commit and rolls back.                     *)
RequestRollback(c) ==
  /\ request[c] # None
  /\ UNCHANGED <<orderVars, outbox>>
  /\ Finish(c)

-----------------------------------------------------------------------------
(* The dispatcher (dispatcher.dispatch_outbox_loop) *)

(* MUTANT of Stranded: orders that wait for their audit are forgotten.     *)
StrandedPdfOnly(o) ==
  /\ status[o] = "PDF_QUEUED"
  /\ stale[o]
  /\ ~Locked(o)

(* Orders reconcile_stale_outbox selects: queued, old, and not locked      *)
(* (FOR UPDATE SKIP LOCKED).  Its check for a RUNNING job never filters:   *)
(* a worker commits its job only once it is COMPLETED or FAILED.           *)
Stranded(o) ==
  /\ status[o] \in {"PDF_QUEUED", "PDF_READY"}
  /\ stale[o]
  /\ ~Locked(o)

CurrentTask(o) ==
  TaskOf(o, version[o],
         IF status[o] = "PDF_QUEUED" THEN "process_pdf" ELSE "run_audit")

(* The outbox after a reconcile: the latest row of each stranded order's   *)
(* task is undispatched again, or a row is added where there is none.      *)
Reconciled ==
  [k \in Task |->
    IF \E o \in Orders : Stranded(o) /\ k = CurrentTask(o)
    THEN IF outbox[k] = <<>> THEN <<FALSE>>
         ELSE [outbox[k] EXCEPT ![Len(outbox[k])] = FALSE]
    ELSE outbox[k]]

Pending(rows) ==
  {row \in UNION {{k} \X DOMAIN rows[k] : k \in Task} : ~rows[row[1]][row[2]]}

(* _dispatch of a set of rows: one message each, at its first attempt.     *)
Deliver(rows, sent) ==
  queue' = [m \in Message |->
    IF m.retries = 0
    THEN Cap(queue[m] + Cardinality({i \in DOMAIN rows[m.task] : <<m.task, i>> \in sent}))
    ELSE queue[m]]

(* One pass of the loop: every 15th pass reconciles first, then the        *)
(* pending rows are sent; a row whose send fails stays pending.  The       *)
(* commit makes the undispatching and the dispatched flags visible.        *)
DispatcherPass(rows, sent) ==
  /\ outbox' = [k \in Task |->
       [i \in DOMAIN rows[k] |-> rows[k][i] \/ <<k, i>> \in sent]]
  /\ Deliver(rows, sent)
  /\ UNCHANGED <<orderVars, ledgerVars, workerVars, clientVars, faults>>

(* The process stops, or the commit fails, after messages were sent.       *)
DispatcherCrash(rows, sent) ==
  /\ Fault
  /\ UNCHANGED outbox
  /\ Deliver(rows, sent)
  /\ UNCHANGED <<orderVars, ledgerVars, workerVars, clientVars>>

(* OUTBOX_STALE_AFTER_SECONDS pass without a write to the order.           *)
Age(o) ==
  /\ status[o] \in {"PDF_QUEUED", "PDF_READY"} /\ ~stale[o]
  /\ stale' = [stale EXCEPT ![o] = TRUE]
  /\ UNCHANGED <<status, version, content, ledgerVars, outbox, queue, workerVars,
                 clientVars, faults>>

-----------------------------------------------------------------------------
(* Workers (workers/tasks.py) *)

ClaimFrom(kind) == IF kind = "process_pdf" THEN "PDF_QUEUED" ELSE "PDF_READY"

(* MUTANT of Claimable: the order_version is not compared.                 *)
ClaimableAnyVersion(k) == status[k.order] = ClaimFrom(k.kind)

(* The WHERE clause of the claiming UPDATE.                                *)
Claimable(k) ==
  /\ version[k.order] = k.version
  /\ status[k.order] = ClaimFrom(k.kind)

(* MUTANT of HasActiveJob: COMPLETED jobs do not count either.             *)
HasRunningJob(k) == FALSE

(* _find_active_job: FAILED jobs do not count, RUNNING ones are invisible. *)
HasActiveJob(k) == completed[k] > 0

(* An idle worker and a message that waits for one.                        *)
Take(w, m) ==
  /\ stage[w] = "idle"
  /\ queue[m] > 0

(* rowcount = 1 and no active job: the transaction stays open.  Until the  *)
(* claiming UPDATE a delivered task touches nothing, so the delivery is    *)
(* part of it.                                                             *)
Claim(w, m) ==
  /\ Take(w, m)
  /\ Claimable(m.task) /\ ~Locked(m.task.order)
  /\ ~HasActiveJob(m.task)
  /\ queue' = [queue EXCEPT ![m] = @ - 1]
  /\ stage' = [stage EXCEPT ![w] = "working"]
  /\ held' = [held EXCEPT ![w] = m]
  /\ UNCHANGED <<orderVars, ledgerVars, outbox, clientVars, faults>>

(* The two no-ops: rowcount = 0 (stale version, or another status), or an  *)
(* active job, which returns without a commit and so undoes the claim.     *)
ClaimRefused(w, m) ==
  /\ Take(w, m)
  /\ \/ ~Claimable(m.task)
     \/ Claimable(m.task) /\ ~Locked(m.task.order) /\ HasActiveJob(m.task)
  /\ queue' = [queue EXCEPT ![m] = @ - 1]
  /\ UNCHANGED <<orderVars, ledgerVars, outbox, workerVars, clientVars, faults>>

(* MUTANT of Release: the message is never acknowledged.                   *)
ReleaseUnacknowledged(w) ==
  /\ stage' = [stage EXCEPT ![w] = "idle"]
  /\ UNCHANGED held

(* The end of a task: the transaction is over and the message acknowledged *)
(* (or already requeued).                                                  *)
Release(w) ==
  /\ stage' = [stage EXCEPT ![w] = "idle"]
  /\ held' = [held EXCEPT ![w] = None]

(* The single commit of a task: the order, the COMPLETED job unless the    *)
(* task failed, and with it the release of the row.                        *)
CommitTask(w, newStatus, jobs) ==
  LET k == held[w].task IN
  /\ status' = [status EXCEPT ![k.order] = newStatus]
  /\ stale' = [stale EXCEPT ![k.order] = FALSE]
  /\ completed' = [completed EXCEPT ![k] = @ + jobs]
  /\ Release(w)
  /\ UNCHANGED <<version, content, queue, clientVars, faults>>

(* MUTANT of PdfFailed: the job of the failed download is COMPLETED.       *)
PdfFailedCompleted(w) ==
  /\ stage[w] = "working" /\ held[w].task.kind = "process_pdf"
  /\ CommitTask(w, "PDF_FAILED", 1)
  /\ UNCHANGED <<outbox, results>>

(* _run_pdf_task with a failed file or none, with text to audit, or with   *)
(* nothing but skipped and scanned files.                                  *)
PdfFailed(w) ==
  /\ stage[w] = "working" /\ held[w].task.kind = "process_pdf"
  /\ CanTransition("PDF_DOWNLOADING", "PDF_FAILED")
  /\ CommitTask(w, "PDF_FAILED", 0)
  /\ UNCHANGED <<outbox, results>>

(* MUTANT of PdfReady: the job is left RUNNING.                            *)
PdfReadyWithoutJob(w) ==
  LET k == held[w].task IN
  /\ stage[w] = "working" /\ k.kind = "process_pdf"
  /\ CommitTask(w, "PDF_READY", 0)
  /\ AddRow(TaskOf(k.order, k.version, "run_audit"))
  /\ UNCHANGED results

PdfReady(w) ==
  LET k == held[w].task IN
  /\ stage[w] = "working" /\ k.kind = "process_pdf"
  /\ CanTransition("PDF_DOWNLOADING", "PDF_READY")
  /\ CommitTask(w, "PDF_READY", 1)
  /\ AddRow(TaskOf(k.order, k.version, "run_audit"))
  /\ UNCHANGED results

PdfManual(w) ==
  /\ stage[w] = "working" /\ held[w].task.kind = "process_pdf"
  /\ CanTransition("PDF_DOWNLOADING", "MANUAL_REQUIRED")
  /\ CommitTask(w, "MANUAL_REQUIRED", 1)
  /\ UNCHANGED <<outbox, results>>

(* _run_audit_task when no skill matches: no audit_results row.            *)
AuditUnrouted(w) ==
  /\ stage[w] = "working" /\ held[w].task.kind = "run_audit"
  /\ CanTransition("ROUTING", "MANUAL_REQUIRED")
  /\ CommitTask(w, "MANUAL_REQUIRED", 1)
  /\ UNCHANGED <<outbox, results>>

(* The row run_audit adds: the decision of this run on the snapshot it has *)
(* loaded.  (It returns the row stored under the same input_hash instead   *)
(* where there is one, for this order and version: see                     *)
(* OneVerdictPerVersion for why there is none.)                            *)
AuditOutcomes(o) ==
  {v \in Verdict :
    /\ v.order = o /\ v.version = version[o] /\ v.content = content[o]}

(* MUTANT of StatusOf: a decision that asks for a human completes.         *)
StatusOfRejection(decision) ==
  IF decision = "REJECT" THEN "MANUAL_REQUIRED" ELSE "AI_COMPLETED"

StatusOf(decision) ==
  IF decision = "MANUAL_REVIEW" THEN "MANUAL_REQUIRED" ELSE "AI_COMPLETED"

AuditDone(w) ==
  LET o == held[w].task.order IN
  /\ stage[w] = "working" /\ held[w].task.kind = "run_audit"
  /\ \E v \in AuditOutcomes(o) :
       /\ CanTransition("AI_RUNNING", StatusOf(v.decision))
       /\ CommitTask(w, StatusOf(v.decision), 1)
       /\ results' = results \cup {v}
  /\ UNCHANGED outbox

(* The task raises: its transaction is rolled back.  Below max_retries the *)
(* next attempt is published and this one ends; otherwise _mark_failed     *)
(* runs.                                                                   *)
NextAttempt(m) == [m EXCEPT !.retries = @ + 1]

TaskRetry(w) ==
  /\ stage[w] = "working"
  /\ held[w].retries < MaxRetries
  /\ Fault
  /\ Publish(NextAttempt(held[w]))
  /\ Release(w)
  /\ UNCHANGED <<orderVars, ledgerVars, outbox, clientVars>>

TaskExhausted(w) ==
  /\ stage[w] = "working"
  /\ held[w].retries = MaxRetries
  /\ Fault
  /\ stage' = [stage EXCEPT ![w] = "failing"]
  /\ UNCHANGED <<orderVars, ledgerVars, outbox, queue, held, clientVars>>

(* The same when the claiming UPDATE itself raises, for a message that     *)
(* need not be claimable.                                                  *)
ClaimErrorRetry(w, m) ==
  /\ Take(w, m)
  /\ m.retries < MaxRetries
  /\ Fault
  /\ queue' = [queue EXCEPT ![m] = @ - 1, ![NextAttempt(m)] = Cap(@ + 1)]
  /\ UNCHANGED <<orderVars, ledgerVars, outbox, workerVars, clientVars>>

ClaimErrorExhausted(w, m) ==
  /\ Take(w, m)
  /\ m.retries = MaxRetries
  /\ Fault
  /\ queue' = [queue EXCEPT ![m] = @ - 1]
  /\ stage' = [stage EXCEPT ![w] = "failing"]
  /\ held' = [held EXCEPT ![w] = m]
  /\ UNCHANGED <<orderVars, ledgerVars, outbox, clientVars>>

(* The read and the checks of _mark_failed.                                *)
MarkRead(w) ==
  LET k == held[w].task IN
  /\ stage[w] = "failing"
  /\ version[k.order] = k.version
  /\ status[k.order] \notin TerminalStatuses
  /\ CanTransition(status[k.order], "FAILED_FINAL")
  /\ stage' = [stage EXCEPT ![w] = "marking"]
  /\ UNCHANGED <<orderVars, ledgerVars, outbox, queue, held, clientVars, faults>>

MarkRefused(w) ==
  LET k == held[w].task IN
  /\ stage[w] = "failing"
  /\ \/ version[k.order] # k.version
     \/ status[k.order] \in TerminalStatuses
     \/ ~CanTransition(status[k.order], "FAILED_FINAL")
  /\ Release(w)
  /\ UNCHANGED <<orderVars, ledgerVars, outbox, queue, clientVars, faults>>

(* Its write goes by primary key, without repeating the checks.            *)
MarkWrite(w) ==
  LET k == held[w].task IN
  /\ stage[w] = "marking"
  /\ WriteOrder(k.order, "FAILED_FINAL")
  /\ Release(w)
  /\ UNCHANGED <<version, content, ledgerVars, outbox, queue, clientVars, faults>>

(* _mark_failed itself raises: the message is gone, the order untouched.   *)
(* (Not counted: it takes a counted fault to get there.)                   *)
MarkError(w) ==
  /\ stage[w] \in {"failing", "marking"}
  /\ Release(w)
  /\ UNCHANGED <<orderVars, ledgerVars, outbox, queue, clientVars, faults>>

(* task_reject_on_worker_lost: the unacknowledged message is requeued.     *)
WorkerCrash(w) ==
  /\ stage[w] # "idle"
  /\ Fault
  /\ Publish(held[w])
  /\ Release(w)
  /\ UNCHANGED <<orderVars, ledgerVars, outbox, clientVars>>

-----------------------------------------------------------------------------
(* The broker (Redis, as celery_app.py configures it) *)

(* visibility_timeout: a message still being worked on is delivered again. *)
Redeliver(w) ==
  /\ stage[w] # "idle"
  /\ Fault
  /\ Publish(held[w])
  /\ UNCHANGED <<orderVars, ledgerVars, outbox, workerVars, clientVars>>

Lose(m) ==
  /\ queue[m] > 0
  /\ Fault
  /\ queue' = [queue EXCEPT ![m] = @ - 1]
  /\ UNCHANGED <<orderVars, ledgerVars, outbox, workerVars, clientVars>>

-----------------------------------------------------------------------------
ClientWrite(c) ==
  \/ IngestCreate(c) \/ IngestConflict(c) \/ IngestUpdate(c)
  \/ RetryWrite(c) \/ RequestRollback(c)

ClientStep(c) ==
  \/ \E o \in Orders, x \in Contents : IngestRead(c, o, x)
  \/ \E o \in Orders : RetryRead(c, o)
  \/ ClientWrite(c)

DispatcherStep ==
  \E rows \in {outbox, Reconciled} :
    \E sent \in SUBSET Pending(rows) :
      DispatcherPass(rows, sent) \/ DispatcherCrash(rows, sent)

(* What a worker does with a message, and what it does next with the one   *)
(* it holds, when nothing fails.                                           *)
Handle(w, m) == Claim(w, m) \/ ClaimRefused(w, m)

WorkerAdvance(w) ==
  \/ PdfFailed(w) \/ PdfReady(w) \/ PdfManual(w)
  \/ AuditUnrouted(w) \/ AuditDone(w)
  \/ MarkRead(w) \/ MarkRefused(w) \/ MarkWrite(w)

WorkerFault(w) ==
  \/ TaskRetry(w) \/ TaskExhausted(w) \/ MarkError(w)
  \/ WorkerCrash(w) \/ Redeliver(w)
  \/ \E m \in Message : ClaimErrorRetry(w, m) \/ ClaimErrorExhausted(w, m)

WorkerStep(w) ==
  \/ \E m \in Message : Handle(w, m)
  \/ WorkerAdvance(w)
  \/ WorkerFault(w)

Next ==
  \/ \E c \in Clients : ClientStep(c)
  \/ \E o \in Orders : IngestUnchanged(o) \/ Age(o)
  \/ DispatcherStep
  \/ \E w \in Workers : WorkerStep(w)
  \/ \E m \in Message : Lose(m)

Spec == Init /\ [][Next]_vars

(* The loop passes every two seconds and reconciles every thirty; time     *)
(* passes; a worker that holds a message goes on with it, and the idle     *)
(* ones take some message as long as there is one; a request ends.         *)
Fairness ==
  /\ WF_vars(DispatcherPass(Reconciled, Pending(Reconciled)))
  /\ \A o \in Orders : WF_vars(Age(o))
  /\ \A w \in Workers : WF_vars(WorkerAdvance(w))
  /\ WF_vars(\E w \in Workers, m \in Message : Handle(w, m))
  /\ \A c \in Clients : WF_vars(ClientWrite(c))

FairSpec == Spec /\ Fairness

-----------------------------------------------------------------------------
(* Properties *)

(* Every variable keeps its type: among others the attempts of a message   *)
(* stay within max_retries, a worker holds an unacknowledged message       *)
(* exactly while it is busy, and only ingested orders are retried, worked  *)
(* on or marked.                                                           *)
TypeOK ==
  /\ status \in [Orders -> PipelineStatus \cup {"ABSENT"}]
  /\ version \in [Orders -> Version \cup {0}]
  /\ content \in [Orders -> Contents \cup {None}]
  /\ stale \in [Orders -> BOOLEAN]
  /\ completed \in [Task -> Nat]
  /\ results \subseteq Verdict
  /\ outbox \in [Task -> Seq(BOOLEAN)]
  /\ queue \in [Message -> 0 .. MaxCopies]
  /\ stage \in [Workers -> Stage]
  /\ held \in [Workers -> Message \cup {None}]
  /\ \A w \in Workers : held[w] = None <=> stage[w] = "idle"
  /\ request \in [Clients -> Request \cup {None}]
  /\ requests \in Nat
  /\ faults \in Nat
  /\ \A o \in Orders : status[o] = "ABSENT" <=> version[o] = 0
  /\ \A c \in Clients :
       request[c] # None /\ request[c].op = "retry" => status[request[c].order] # "ABSENT"
  /\ \A w \in Workers :
       stage[w] \in {"working", "marking"} => status[held[w].task.order] # "ABSENT"

(* What a claim buys: while a worker is at work the order keeps the version *)
(* and the status it was claimed in, nothing was completed for the task    *)
(* before, and no other worker is at work on the same order.               *)
ClaimsExclusive ==
  /\ \A w \in Workers :
       stage[w] = "working" =>
         /\ Claimable(held[w].task)
         /\ completed[held[w].task] = 0
  /\ \A w1, w2 \in Workers :
       stage[w1] = "working" /\ stage[w2] = "working"
         /\ held[w1].task.order = held[w2].task.order => w1 = w2

(* No verdict without its jobs: a stored result has a COMPLETED audit job  *)
(* and a COMPLETED download job of its order and version behind it, and an *)
(* order in PDF_READY has the latter.                                      *)
JobsBackVerdicts ==
  /\ \A r \in results, kind \in Kind : completed[TaskOf(r.order, r.version, kind)] > 0
  /\ \A o \in Orders :
       status[o] = "PDF_READY" => completed[TaskOf(o, version[o], "process_pdf")] > 0

(* At most one audit result is ever stored for a version of an order, so   *)
(* every reader that takes "the" result of (order_id, order_version) with  *)
(* LIMIT 1 and no ORDER BY gets the same one, whatever was redelivered,    *)
(* retried or overwritten.                                                 *)
OneVerdictPerVersion ==
  \A r, s \in results : r.order = s.order /\ r.version = s.version => r = s

(* The pipeline implements the write-once ledger of VerdictLedger.         *)
Ledger == INSTANCE VerdictLedger
  WITH Versions <- Version \cup {0}, Contents <- Contents \cup {None},
       Decisions <- Decision, verdicts <- results

LedgerSpec == Ledger!Spec

(* No order shows AI_COMPLETED without an automatic verdict on the version *)
(* and the content it has, and none waits for a human in MANUAL_REQUIRED   *)
(* while an automatic PASS or REJECT is stored for its version.            *)
StatusAgreesWithVerdict ==
  \A o \in Orders :
    LET current == {r \in results : r.order = o /\ r.version = version[o]} IN
    /\ status[o] = "AI_COMPLETED" =>
         \E r \in current : r.content = content[o] /\ r.decision # "MANUAL_REVIEW"
    /\ status[o] = "MANUAL_REQUIRED" => \A r \in current : r.decision = "MANUAL_REVIEW"

(* The outbox promise: an order that waits for a task has an outbox row    *)
(* for exactly that task and version, so a lost message can be resent.     *)
WaitingOrderHasRow ==
  \A o \in Orders :
    status[o] \in {"PDF_QUEUED", "PDF_READY"} => outbox[CurrentTask(o)] # <<>>

(* No order waits for a task that has a COMPLETED job already: every       *)
(* message of it would be refused, and the dispatcher would send another   *)
(* one every time the order is stale, for ever.  It holds as long as       *)
(* requests on one order do not overlap (RequestsApart).                   *)
NothingStranded ==
  \A o \in Orders :
    status[o] \in {"PDF_QUEUED", "PDF_READY"} => completed[CurrentTask(o)] = 0

RequestsApart ==
  \A c, d \in Clients :
    request[c] # None /\ request[d] # None /\ request[c].order = request[d].order
      => c = d

(* A task leaves a job or a result behind only for the version the order   *)
(* has at that moment, however old its message is.                         *)
OnlyCurrentVersionRecorded ==
  [][/\ \A k \in Task : completed'[k] # completed[k] => k.version = version[k.order]
     /\ \A r \in results' \ results :
          r.version = version[r.order] /\ r.content = content[r.order]]_vars

(* "Never overwrite terminal states": an order that reached AI_COMPLETED or *)
(* MANUAL_REQUIRED is never marked FAILED_FINAL (the docstring of          *)
(* _mark_failed).                                                          *)
TerminalStatusKept ==
  [][\A o \in Orders :
       status[o] \in TerminalStatuses \ {"FAILED_FINAL"} =>
         status'[o] # "FAILED_FINAL"]_vars

(* "order_version is incremented when detail_hash changes": an ingest that *)
(* changes the content of an order moves its version up, so a version      *)
(* names one content.                                                      *)
NewContentNewVersion ==
  [][\A o \in Orders : content'[o] # content[o] => version'[o] > version[o]]_vars

(* With one request at a time an order never waits forever: messages may   *)
(* be lost, doubled or retried and workers may die, and the dispatcher     *)
(* still brings every queued order to a resting status.                    *)
QueuedOrdersSettle ==
  \A o \in Orders :
    status[o] \in {"PDF_QUEUED", "PDF_READY"} ~>
      status[o] \notin {"PDF_QUEUED", "PDF_READY"}

=============================================================================
