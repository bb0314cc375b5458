--------------------------- MODULE WaitingProofs ---------------------------
(***************************************************************************)
(* What an order that waits for a worker can count on, for every instance: *)
(* an outbox row of the task it waits for, and, as long as requests on one *)
(* order do not overlap, that no worker completed that task before.        *)
(***************************************************************************)
EXTENDS VerdictProofs

USE BoundsAssumption, NoneAssumption

(* A sequence of flags is empty when its domain is.                        *)
LEMMA EmptyRows ==
  ASSUME NEW rows \in Seq(BOOLEAN)
  PROVE  rows # <<>> <=> DOMAIN rows # {}
<1>1. rows = <<>> <=> Len(rows) = 0
  BY EmptySeq
<1>2. DOMAIN rows = 1 .. Len(rows) /\ Len(rows) \in Nat
  OBVIOUS
<1> QED
  BY <1>1, <1>2

(* Outbox rows are never deleted.                                          *)
LEMMA RowsStay ==
  ASSUME TypeOK, [Next]_vars, NEW k \in Task, outbox[k] # <<>>
  PROVE  outbox'[k] # <<>>
<1>1. CASE outbox' = outbox
  BY <1>1
<1>2. ASSUME NEW t \in Task, AddRow(t)
      PROVE  outbox'[k] # <<>>
  <2>1. CASE t = k
    BY <1>2, <2>1, AddedRow
  <2>2. CASE t # k
    BY <1>2, <2>2 DEF AddRow, TypeOK
  <2> QED
    BY <2>1, <2>2
<1>3. CASE DispatcherStep
  <2>1. PICK rows \in {outbox, Reconciled} :
          \E sent \in SUBSET Pending(rows) :
            DispatcherPass(rows, sent) \/ DispatcherCrash(rows, sent)
    BY <1>3 DEF DispatcherStep
  <2>2. PICK sent \in SUBSET Pending(rows) :
          DispatcherPass(rows, sent) \/ DispatcherCrash(rows, sent)
    BY <2>1
  <2>3. CASE DispatcherPass(rows, sent)
    <3>1. rows[k] \in Seq(BOOLEAN) /\ outbox[k] \in Seq(BOOLEAN)
      BY ReconciledType DEF TypeOK
    <3>2. rows[k] # <<>>
      <4>1. CASE rows = outbox
        BY <4>1
      <4>2. CASE rows = Reconciled
        <5>1. rows[k] = [outbox[k] EXCEPT ![Len(outbox[k])] = FALSE] \/ rows[k] = outbox[k]
          BY <4>2 DEF Reconciled
        <5>2. DOMAIN outbox[k] # {}
          BY <3>1, EmptyRows
        <5>3. DOMAIN rows[k] = DOMAIN outbox[k]
          BY <5>1
        <5> QED
          BY <3>1, <5>2, <5>3, EmptyRows
      <4> QED
        BY <4>1, <4>2
    <3>3. outbox'[k] = [i \in DOMAIN rows[k] |-> rows[k][i] \/ <<k, i>> \in sent]
      BY <2>3 DEF DispatcherPass
    <3>4. DOMAIN outbox'[k] = DOMAIN rows[k]
      BY <3>3
    <3>5. DOMAIN rows[k] # {}
      BY <3>1, <3>2, EmptyRows
    <3>6. outbox'[k] \in Seq(BOOLEAN)
      BY TypeNext DEF TypeOK
    <3> QED
      BY <3>4, <3>5, <3>6, EmptyRows
  <2>4. CASE DispatcherCrash(rows, sent)
    BY <2>4 DEF DispatcherCrash
  <2> QED
    BY <2>2, <2>3, <2>4
<1>4. ASSUME NEW c \in Clients, ClientStep(c)
      PROVE  outbox' = outbox \/ \E t \in Task : AddRow(t)
  <2> DEFINE r == request[c]
  <2>0. r # None => r \in Request
    BY DEF TypeOK
  <2>1. ASSUME IngestCreate(c) \/ IngestUpdate(c)
        PROVE  \E t \in Task : AddRow(t)
    <3>1. r.order \in Orders /\ r.version + 1 \in Version
      BY <2>0, <2>1 DEF IngestCreate, IngestUpdate, Request, Version
    <3>2. TaskOf(r.order, r.version + 1, "process_pdf") \in Task
      BY <3>1, TaskOfType DEF Kind
    <3> QED
      BY <2>1, <3>2 DEF IngestCreate, IngestUpdate, Enqueue
  <2>2. ASSUME RetryWrite(c)
        PROVE  \E t \in Task : AddRow(t)
    <3>1. r.order \in Orders /\ version[r.order] \in Version
      BY <2>0, <2>2 DEF RetryWrite, Request, TypeOK
    <3>2. TaskOf(r.order, version[r.order], "process_pdf") \in Task
      BY <3>1, TaskOfType DEF Kind
    <3> QED
      BY <2>2, <3>2 DEF RetryWrite, Enqueue
  <2> QED
    BY <1>4, <2>1, <2>2
    DEF ClientStep, ClientWrite, IngestRead, RetryRead, IngestConflict, RequestRollback
<1>5. ASSUME NEW w \in Workers, WorkerStep(w)
      PROVE  outbox' = outbox \/ \E t \in Task : AddRow(t)
  <2>1. CASE PdfReady(w)
    <3>1. held[w].task.order \in Orders /\ held[w].task.version \in Version
      BY <2>1, HeldType DEF PdfReady
    <3>2. TaskOf(held[w].task.order, held[w].task.version, "run_audit") \in Task
      BY <3>1, TaskOfType DEF Kind
    <3> QED
      BY <2>1, <3>2 DEF PdfReady
  <2>2. CASE ~PdfReady(w)
    BY <1>5, <2>2
    DEF WorkerStep, Handle, Claim, ClaimRefused, WorkerAdvance, PdfFailed, PdfManual,
        AuditUnrouted, AuditDone, MarkRead, MarkRefused, MarkWrite, WorkerFault,
        TaskRetry, TaskExhausted, MarkError, WorkerCrash, Redeliver, ClaimErrorRetry,
        ClaimErrorExhausted
  <2> QED
    BY <2>1, <2>2
<1>6. \/ outbox' = outbox
      \/ DispatcherStep
      \/ \E c \in Clients : ClientStep(c)
      \/ \E w \in Workers : WorkerStep(w)
  BY DEF Next, vars, IngestUnchanged, Age, Lose
<1> QED
  BY <1>1, <1>2, <1>3, <1>4, <1>5, <1>6

Waiting(o) == status[o] \in {"PDF_QUEUED", "PDF_READY"}

LEMMA CurrentTaskType ==
  ASSUME TypeOK, NEW o \in Orders, Waiting(o)
  PROVE  CurrentTask(o) \in Task
<1>1. version[o] \in Version
  BY DEF Waiting, TypeOK
<1> QED
  BY <1>1, TaskOfType DEF CurrentTask, Kind

LEMMA WaitingNext ==
  ASSUME TypeOK, ClaimsExclusive, WaitingOrderHasRow, [Next]_vars
  PROVE  WaitingOrderHasRow'
<1> SUFFICES ASSUME NEW o \in Orders, Waiting(o)'
             PROVE  outbox'[CurrentTask(o)'] # <<>>
  BY DEF WaitingOrderHasRow, Waiting
<1>1. ASSUME status'[o] = status[o], version'[o] = version[o]
      PROVE  outbox'[CurrentTask(o)'] # <<>>
  <2>1. Waiting(o) /\ CurrentTask(o)' = CurrentTask(o)
    BY <1>1 DEF Waiting, CurrentTask
  <2>2. outbox[CurrentTask(o)] # <<>>
    BY <2>1 DEF WaitingOrderHasRow, Waiting
  <2> QED
    BY <2>1, <2>2, CurrentTaskType, RowsStay
<1>2. ASSUME NEW p \in Orders, NEW s \in {"PDF_QUEUED", "FAILED_FINAL"}, NEW v, NEW x,
             Overwrite(p, s, v, x)
      PROVE  outbox'[CurrentTask(o)'] # <<>>
  <2>1. CASE o = p
    <3>1. status'[o] = s /\ version'[o] = v
      BY <1>2, <2>1 DEF Overwrite, TypeOK
    <3>2. s = "PDF_QUEUED"
      BY <3>1 DEF Waiting
    <3> QED
      BY <1>2, <2>1, <3>1, <3>2 DEF Overwrite, CurrentTask
  <2>2. CASE o # p
    BY <1>1, <1>2, <2>2 DEF Overwrite, TypeOK
  <2> QED
    BY <2>1, <2>2
<1>3. ASSUME NEW w \in Workers, Commit(w)
      PROVE  outbox'[CurrentTask(o)'] # <<>>
  <2> DEFINE k == held[w].task
  <2>1. stage[w] = "working"
    BY <1>3, CommitEffect
  <2>2. PICK s \in PipelineStatus, jobs \in {0, 1} : CommitTask(w, s, jobs)
    BY <1>3, CommitEffect
  <2>3. /\ k \in Task /\ k.order \in Orders
        /\ \A p \in Orders : p # k.order => status'[p] = status[p]
        /\ version' = version
    BY <2>1, <2>2, CommitRows
  <2>4. CASE o # k.order
    BY <1>1, <2>3, <2>4
  <2>5. CASE o = k.order /\ PdfReady(w)
    <3>1. AddRow(TaskOf(k.order, k.version, "run_audit")) /\ CommitTask(w, "PDF_READY", 1)
      BY <2>5 DEF PdfReady
    <3>2. status'[o] = "PDF_READY"
      BY <2>1, <2>5, <3>1, CommitRows
    <3>3. version'[o] = k.version /\ k.version \in Version
      BY <2>1, <2>3, <2>5, HeldType DEF ClaimsExclusive, Claimable
    <3>4. CurrentTask(o)' = TaskOf(k.order, k.version, "run_audit")
      BY <2>5, <3>2, <3>3 DEF CurrentTask
    <3>5. TaskOf(k.order, k.version, "run_audit") \in Task
      BY <2>3, <3>3, TaskOfType DEF Kind
    <3> QED
      BY <3>1, <3>4, <3>5, AddedRow
  <2>6. CASE o = k.order /\ ~PdfReady(w)
    <3>1. \E t \in {"PDF_FAILED", "MANUAL_REQUIRED", "AI_COMPLETED"}, n \in {0, 1} :
            CommitTask(w, t, n)
      BY <1>3, <2>6
      DEF Commit, PdfFailed, PdfManual, AuditUnrouted, AuditDone, StatusOf
    <3>2. status'[o] \in {"PDF_FAILED", "MANUAL_REQUIRED", "AI_COMPLETED"}
      BY <2>1, <2>6, <3>1, CommitRows
    <3> QED
      BY <3>2 DEF Waiting
  <2> QED
    BY <2>4, <2>5, <2>6
<1>4. Quiet => status' = status /\ version' = version
  BY DEF Quiet
<1>5. ASSUME NEW w \in Workers, NEW m \in Message, Claim(w, m)
      PROVE  status' = status /\ version' = version
  BY <1>5 DEF Claim, orderVars
<1> QED
  BY <1>1, <1>2, <1>3, <1>4, <1>5, StepCases

(* A waiting order always has the outbox row of the task it waits for.     *)
THEOREM WaitingHasRow == Spec => []WaitingOrderHasRow
<1>1. Init => WaitingOrderHasRow
  <2> SUFFICES ASSUME Init, NEW o \in Orders, Waiting(o)
               PROVE  outbox[CurrentTask(o)] # <<>>
    BY DEF WaitingOrderHasRow, Waiting
  <2>1. PICK known \in SUBSET Orders :
          /\ status = [p \in Orders |-> IF p \in known THEN "PDF_QUEUED" ELSE "ABSENT"]
          /\ version = [p \in Orders |-> IF p \in known THEN 1 ELSE 0]
          /\ outbox = [k \in Task |->
               IF \E p \in known : k = TaskOf(p, 1, "process_pdf") THEN <<FALSE>> ELSE <<>>]
    BY DEF Init
  <2>2. o \in known /\ CurrentTask(o) = TaskOf(o, 1, "process_pdf")
    BY <2>1 DEF Waiting, CurrentTask
  <2>3. CurrentTask(o) \in Task
    BY TypeInit, CurrentTaskType
  <2>4. outbox[CurrentTask(o)] = <<FALSE>>
    BY <2>1, <2>2, <2>3
  <2>5. <<FALSE>> # <<>>
    OBVIOUS
  <2> QED
    BY <2>4, <2>5
<1>2. SafetyInv /\ WaitingOrderHasRow /\ [Next]_vars => WaitingOrderHasRow'
  BY WaitingNext DEF SafetyInv
<1> QED
  BY <1>1, <1>2, Safety, PTL DEF Spec

-----------------------------------------------------------------------------
(* Why no order is stranded.                                               *)

Download(o, v) == TaskOf(o, v, "process_pdf")

(* Versions to come have no jobs; an audit is completed after its          *)
(* download; a queued or failed download was never completed, and nor was  *)
(* the audit of an order that waits for it.                                *)
Unfinished(o) ==
  /\ \A k \in Task : k.order = o /\ k.version > version[o] => completed[k] = 0
  /\ \A v \in Version :
       completed[Download(o, v)] = 0 => completed[TaskOf(o, v, "run_audit")] = 0
  /\ status[o] \in {"PDF_QUEUED", "PDF_FAILED"} => completed[Download(o, version[o])] = 0
  /\ status[o] = "PDF_READY" => completed[TaskOf(o, version[o], "run_audit")] = 0
  /\ status[o] # "FAILED_RETRYABLE"

(* A request on its way knows the version the order has; a retry was       *)
(* allowed by a failed download, which only a late _mark_failed changes.   *)
Current(c) ==
  LET r == request[c] IN
  /\ r # None /\ r.op = "retry" =>
       /\ status[r.order] \in {"PDF_FAILED", "FAILED_FINAL"}
       /\ completed[Download(r.order, version[r.order])] = 0
  /\ r # None /\ r.op # "retry" => r.version = version[r.order]

WaitingInv ==
  /\ \A o \in Orders : Unfinished(o)
  /\ \A c \in Clients : Current(c)

(* An order none of whose rows change.                                     *)
LEMMA UnfinishedSame ==
  ASSUME NEW o \in Orders, Unfinished(o), status'[o] = status[o],
         version'[o] = version[o], completed' = completed
  PROVE  Unfinished(o)'
BY DEF Unfinished, Download, TaskOf

(* A request on an order whose version stays, whose download is not        *)
(* completed meanwhile, and which nobody but _mark_failed moves.           *)
LEMMA CurrentSame ==
  ASSUME TypeOK, NEW c \in Clients, Current(c), request'[c] = request[c],
         request[c] # None => LET o == request[c].order IN
           /\ version'[o] = version[o]
           /\ completed'[Download(o, version[o])] = completed[Download(o, version[o])]
           /\ status'[o] \in {status[o], "FAILED_FINAL"}
  PROVE  Current(c)'
BY DEF Current, Download, TaskOf

(* Requests: a new version has no jobs, and a retried one no COMPLETED     *)
(* download.                                                               *)
LEMMA WaitingClient ==
  ASSUME SafetyInv, WaitingInv, RequestsApart, NEW c \in Clients, ClientStep(c)
  PROVE  WaitingInv'
<1> DEFINE r == request[c]
<1>0. /\ TypeOK
      /\ r # None => r \in Request
      /\ \A o \in Orders : Unfinished(o)
      /\ \A d \in Clients : Current(d)
  BY DEF SafetyInv, TypeOK, WaitingInv
<1>1. ASSUME UNCHANGED <<status, version, completed>>,
             \A d \in Clients : d # c => request'[d] = request[d],
             Current(c)'
      PROVE  WaitingInv'
  <2>1. \A o \in Orders : Unfinished(o)'
    BY <1>0, <1>1, UnfinishedSame
  <2>2. \A d \in Clients : Current(d)'
    BY <1>0, <1>1, CurrentSame
  <2> QED
    BY <2>1, <2>2 DEF WaitingInv
<1>2. ASSUME NEW o \in Orders, NEW x \in Contents, IngestRead(c, o, x)
      PROVE  WaitingInv'
  <2>1. /\ UNCHANGED <<status, version, completed>>
        /\ \A d \in Clients : d # c => request'[d] = request[d]
        /\ request'[c].op \in {"create", "update"}
        /\ request'[c].order = o /\ request'[c].version = version[o]
    BY <1>0, <1>2 DEF IngestRead, TypeOK, orderVars, ledgerVars
  <2>2. Current(c)'
    BY <2>1 DEF Current
  <2> QED
    BY <1>1, <2>1, <2>2
<1>3. ASSUME NEW o \in Orders, RetryRead(c, o)
      PROVE  WaitingInv'
  <2>1. /\ UNCHANGED <<status, version, completed>>
        /\ \A d \in Clients : d # c => request'[d] = request[d]
        /\ request'[c] = [op |-> "retry", order |-> o]
    BY <1>0, <1>3 DEF RetryRead, TypeOK, orderVars, ledgerVars
  <2>2. status[o] = "PDF_FAILED"
    <3>1. status[o] \in PipelineStatus /\ "RECEIVED" \in ValidTransitions[status[o]]
      BY <1>0, <1>3 DEF RetryRead, TypeOK, CanTransition
    <3>2. status[o] \in {"PDF_FAILED", "FAILED_RETRYABLE"}
      BY <3>1 DEF ValidTransitions, PipelineStatus
    <3> QED
      BY <1>0, <3>2 DEF Unfinished
  <2>3. completed[Download(o, version[o])] = 0
    BY <1>0, <2>2 DEF Unfinished
  <2>4. Current(c)'
    BY <2>1, <2>2, <2>3 DEF Current, Download, TaskOf
  <2> QED
    BY <1>1, <2>1, <2>4
<1>4. ASSUME IngestConflict(c) \/ RequestRollback(c)
      PROVE  WaitingInv'
  <2>1. /\ UNCHANGED <<status, version, completed>>
        /\ request' = [request EXCEPT ![c] = None]
    BY <1>4 DEF IngestConflict, RequestRollback, Finish, orderVars, ledgerVars
  <2>2. Current(c)' /\ \A d \in Clients : d # c => request'[d] = request[d]
    BY <1>0, <2>1 DEF Current, TypeOK
  <2> QED
    BY <1>1, <2>1, <2>2
<1>5. ASSUME NEW o \in Orders, NEW v \in Version, r # None, r.order = o,
             status' = [status EXCEPT ![o] = "PDF_QUEUED"],
             version' = [version EXCEPT ![o] = v],
             completed' = completed, v >= version[o],
             completed[Download(o, v)] = 0,
             request' = [request EXCEPT ![c] = None]
      PROVE  WaitingInv'
  <2>1. \A p \in Orders : p # o => status'[p] = status[p] /\ version'[p] = version[p]
    BY <1>0, <1>5 DEF TypeOK
  <2>2. status'[o] = "PDF_QUEUED" /\ version'[o] = v /\ version[o] \in Nat
    BY <1>0, <1>5 DEF TypeOK, Version
  <2>3. Unfinished(o)'
    <3>1. \A k \in Task : k.order = o /\ k.version > v => completed[k] = 0
      BY <1>0, <1>5, <2>2 DEF Unfinished, Task, Version
    <3> QED
      BY <1>0, <1>5, <2>2, <3>1 DEF Unfinished, Download, TaskOf
  <2>4. \A p \in Orders : Unfinished(p)'
    BY <1>0, <1>5, <2>1, <2>3, UnfinishedSame
  <2>5. ASSUME NEW d \in Clients PROVE Current(d)'
    <3>1. CASE d = c
      BY <1>0, <1>5, <3>1 DEF Current, TypeOK
    <3>2. CASE d # c
      <4>1. request'[d] = request[d]
        BY <1>0, <1>5, <3>2 DEF TypeOK
      <4>2. request[d] # None => request[d].order \in Orders /\ request[d].order # o
        BY <1>0, <1>5, <3>2 DEF RequestsApart, TypeOK, Request
      <4> QED
        BY <1>0, <1>5, <2>1, <4>1, <4>2, CurrentSame
    <3> QED
      BY <3>1, <3>2
  <2> QED
    BY <2>4, <2>5 DEF WaitingInv
<1>6. ASSUME IngestCreate(c) \/ IngestUpdate(c)
      PROVE  WaitingInv'
  <2>1. /\ r # None /\ r.order \in Orders /\ r.version + 1 \in Version
        /\ r.version \in Nat /\ r.op # "retry"
    BY <1>0, <1>6 DEF IngestCreate, IngestUpdate, Request, Version
  <2>2. /\ version' = [version EXCEPT ![r.order] = r.version + 1]
        /\ status' = [status EXCEPT ![r.order] = "PDF_QUEUED"]
        /\ completed' = completed
        /\ request' = [request EXCEPT ![c] = None]
    BY <1>6 DEF IngestCreate, IngestUpdate, Enqueue, WriteOrder, Finish, ledgerVars
  <2>3. r.version = version[r.order]
    BY <1>0, <2>1 DEF Current
  <2>4. Download(r.order, r.version + 1) \in Task
    BY <2>1, TaskOfType DEF Download, Kind
  <2> HIDE DEF r
  <2>5. completed[Download(r.order, r.version + 1)] = 0
    <3>1. /\ Download(r.order, r.version + 1).order = r.order
          /\ Download(r.order, r.version + 1).version > version[r.order]
      BY <2>1, <2>3 DEF Download, TaskOf
    <3> QED
      BY <1>0, <2>1, <2>4, <3>1 DEF Unfinished
  <2>6. r.version + 1 >= version[r.order]
    BY <2>1, <2>3
  <2> QED
    BY <1>5, <2>1, <2>2, <2>5, <2>6
<1>7. ASSUME RetryWrite(c)
      PROVE  WaitingInv'
  <2>1. /\ r # None /\ r.order \in Orders /\ version[r.order] \in Version
        /\ r.op = "retry"
    BY <1>0, <1>7 DEF RetryWrite, Request, Version, TypeOK
  <2>2. /\ version' = [version EXCEPT ![r.order] = version[r.order]]
        /\ status' = [status EXCEPT ![r.order] = "PDF_QUEUED"]
        /\ completed' = completed
        /\ request' = [request EXCEPT ![c] = None]
    BY <1>0, <1>7 DEF RetryWrite, Enqueue, WriteOrder, Finish, ledgerVars, TypeOK
  <2>3. completed[Download(r.order, version[r.order])] = 0
    BY <1>0, <2>1 DEF Current
  <2>4. version[r.order] >= version[r.order]
    BY <2>1 DEF Version
  <2> HIDE DEF r
  <2> QED
    BY <1>5, <2>1, <2>2, <2>3, <2>4
<1> QED
  BY <1>2, <1>3, <1>4, <1>6, <1>7 DEF ClientStep, ClientWrite

(* Commits: what a status says of the jobs becomes true with it.           *)
LEMMA WaitingCommit ==
  ASSUME SafetyInv, WaitingInv, NEW w \in Workers, Commit(w), request' = request
  PROVE  WaitingInv'
<1> DEFINE k == held[w].task
           o == k.order
<1>0. /\ TypeOK /\ stage[w] = "working"
      /\ \A p \in Orders : Unfinished(p)
      /\ \A d \in Clients : Current(d)
  BY CommitEffect DEF SafetyInv, WaitingInv
<1>1. /\ k \in Task /\ o \in Orders /\ version[o] \in Version /\ k.kind \in Kind
      /\ k = TaskOf(o, version[o], k.kind)
      /\ completed[k] = 0 /\ status[o] = ClaimFrom(k.kind)
  BY <1>0, HeldType, TaskParts DEF SafetyInv, ClaimsExclusive, Claimable
<1>2. PICK s \in PipelineStatus, jobs \in {0, 1} : CommitTask(w, s, jobs)
  BY <1>0, CommitEffect
<1>3. /\ status'[o] = s
      /\ \A p \in Orders : p # o => status'[p] = status[p]
      /\ \A t \in Task : completed'[t] \in Nat /\ completed'[t] >= completed[t]
      /\ version' = version
  BY <1>0, <1>2, CommitRows
<1>4. \A t \in Task : t # k => completed'[t] = completed[t]
  BY <1>0, <1>1, <1>2 DEF CommitTask, TypeOK
<1>5. \/ s \in {"MANUAL_REQUIRED", "AI_COMPLETED"}
      \/ s = "PDF_READY" /\ k.kind = "process_pdf"
      \/ s = "PDF_FAILED" /\ k.kind = "process_pdf" /\ completed'[k] = 0
  <2>1. CASE PdfFailed(w)
    <3>1. CommitTask(w, "PDF_FAILED", 0) /\ k.kind = "process_pdf"
      BY <2>1 DEF PdfFailed
    <3>2. status'[o] = "PDF_FAILED" /\ completed'[k] = completed[k] + 0
      BY <1>0, <3>1, CommitRows
    <3> QED
      BY <1>1, <1>3, <3>1, <3>2
  <2>2. CASE PdfReady(w)
    <3>1. CommitTask(w, "PDF_READY", 1) /\ k.kind = "process_pdf"
      BY <2>2 DEF PdfReady
    <3>2. status'[o] = "PDF_READY"
      BY <1>0, <3>1, CommitRows
    <3> QED
      BY <1>3, <3>1, <3>2
  <2>3. CASE PdfManual(w) \/ AuditUnrouted(w) \/ AuditDone(w)
    <3>1. CommitTask(w, "MANUAL_REQUIRED", 1) \/ CommitTask(w, "AI_COMPLETED", 1)
      BY <2>3 DEF PdfManual, AuditUnrouted, AuditDone, StatusOf
    <3>2. status'[o] \in {"MANUAL_REQUIRED", "AI_COMPLETED"}
      BY <1>0, <3>1, CommitRows
    <3> QED
      BY <1>3, <3>2
  <2> QED
    BY <2>1, <2>2, <2>3 DEF Commit
<1>6. status[o] = "PDF_READY" => completed[Download(o, version[o])] > 0
  BY <1>1 DEF SafetyInv, JobsBackVerdicts, Download
<1>7. \A p \in Orders, v \in Version :
        Download(p, v) \in Task /\ TaskOf(p, v, "run_audit") \in Task
  BY TaskOfType DEF Download, Kind
<1> HIDE DEF k, o
<1>8. ASSUME NEW p \in Orders, NEW v \in Version, completed'[Download(p, v)] = 0
      PROVE  completed'[TaskOf(p, v, "run_audit")] = 0
  <2>1. completed[Download(p, v)] = 0
    BY <1>0, <1>3, <1>7, <1>8 DEF TypeOK
  <2>2. completed[TaskOf(p, v, "run_audit")] = 0
    BY <1>0, <2>1 DEF Unfinished
  <2>3. ASSUME TaskOf(p, v, "run_audit") = k PROVE FALSE
    <3>1. o = p /\ v = version[o] /\ k.kind = "run_audit"
      BY <1>1, <2>3 DEF TaskOf
    <3>2. status[o] = "PDF_READY"
      BY <1>1, <3>1 DEF ClaimFrom
    <3> QED
      BY <1>6, <2>1, <3>1, <3>2
  <2> QED
    BY <1>4, <1>7, <2>2, <2>3
<1>9. ASSUME NEW p \in Orders, NEW t \in Task, t.order = p, t.version > version[p]
      PROVE  completed'[t] = 0
  <2>1. t # k
    BY <1>1, <1>9 DEF TaskOf, Version
  <2> QED
    BY <1>0, <1>4, <1>9, <2>1 DEF Unfinished
<1>10. ASSUME NEW p \in Orders
       PROVE  /\ status'[p] \in {"PDF_QUEUED", "PDF_FAILED"} =>
                   completed'[Download(p, version[p])] = 0
              /\ status'[p] = "PDF_READY" =>
                   completed'[TaskOf(p, version[p], "run_audit")] = 0
              /\ status'[p] # "FAILED_RETRYABLE"
  <2>1. CASE p # o
    <3>1. status[p] # "ABSENT" => version[p] \in Version
      BY <1>0 DEF TypeOK
    <3>2. Download(p, version[p]) # k /\ TaskOf(p, version[p], "run_audit") # k
      BY <1>1, <2>1 DEF Download, TaskOf
    <3> QED
      BY <1>0, <1>3, <1>4, <1>7, <2>1, <3>1, <3>2 DEF Unfinished
  <2>2. CASE p = o
    <3>1. s = "PDF_FAILED" => completed'[Download(o, version[o])] = 0
      BY <1>1, <1>5 DEF Download
    <3>2. s = "PDF_READY" => completed'[TaskOf(o, version[o], "run_audit")] = 0
      <4> SUFFICES ASSUME s = "PDF_READY"
                   PROVE  completed'[TaskOf(o, version[o], "run_audit")] = 0
        OBVIOUS
      <4>1. k = Download(o, version[o]) /\ k # TaskOf(o, version[o], "run_audit")
        BY <1>1, <1>5 DEF Download, TaskOf
      <4>2. completed[TaskOf(o, version[o], "run_audit")] = 0
        BY <1>0, <1>1, <4>1 DEF Unfinished
      <4> QED
        BY <1>1, <1>4, <1>7, <4>1, <4>2
    <3> QED
      BY <1>3, <1>5, <2>2, <3>1, <3>2
  <2> QED
    BY <2>1, <2>2
<1>11. \A p \in Orders : Unfinished(p)'
  BY <1>3, <1>8, <1>9, <1>10 DEF Unfinished, Download, TaskOf
<1>12. ASSUME NEW d \in Clients PROVE Current(d)'
  <2> DEFINE q == request[d].order
  <2>1. CASE request[d] = None
    BY <2>1 DEF Current
  <2>2. CASE request[d] # None /\ request[d].op # "retry"
    BY <1>0, <1>3, <2>2 DEF Current
  <2>3. CASE request[d] # None /\ request[d].op = "retry"
    <3>1. /\ q \in Orders /\ status[q] \in {"PDF_FAILED", "FAILED_FINAL"}
          /\ completed[Download(q, version[q])] = 0
      BY <1>0, <2>3 DEF Current, TypeOK, Request
    <3>2. q # o
      BY <1>1, <3>1 DEF ClaimFrom
    <3>3. version[q] \in Version /\ Download(q, version[q]) # k
      BY <1>0, <1>1, <3>1, <3>2 DEF TypeOK, Download, TaskOf
    <3>4. status'[q] = status[q] /\ completed'[Download(q, version[q])] = 0
      BY <1>3, <1>4, <1>7, <3>1, <3>2, <3>3
    <3> QED
      BY <1>3, <2>3, <3>1, <3>4 DEF Current, Download, TaskOf
  <2> QED
    BY <2>1, <2>2, <2>3
<1> QED
  BY <1>11, <1>12 DEF WaitingInv

(* Only requests write the requests.                                       *)
LEMMA RequestsKept ==
  ASSUME [Next]_vars
  PROVE  request' = request \/ \E c \in Clients : ClientStep(c)
<1>1. ASSUME NEW w \in Workers, WorkerStep(w) PROVE request' = request
  BY <1>1
  DEF WorkerStep, Handle, Claim, ClaimRefused, WorkerAdvance, PdfFailed, PdfReady,
      PdfManual, AuditUnrouted, AuditDone, MarkRead, MarkRefused, MarkWrite, WorkerFault,
      TaskRetry, TaskExhausted, MarkError, WorkerCrash, Redeliver, ClaimErrorRetry,
      ClaimErrorExhausted, CommitTask, clientVars
<1>2. ASSUME DispatcherStep PROVE request' = request
  BY <1>2 DEF DispatcherStep, DispatcherPass, DispatcherCrash, clientVars
<1> QED
  BY <1>1, <1>2 DEF Next, vars, IngestUnchanged, Age, Lose, clientVars

LEMMA WaitingInvNext ==
  ASSUME SafetyInv, WaitingInv, RequestsApart, [Next]_vars
  PROVE  WaitingInv'
<1>0. /\ TypeOK
      /\ \A o \in Orders : Unfinished(o)
      /\ \A d \in Clients : Current(d)
  BY DEF SafetyInv, WaitingInv
<1>1. ASSUME NEW c \in Clients, ClientStep(c) PROVE WaitingInv'
  BY <1>1, WaitingClient
<1>2. ASSUME request' = request, UNCHANGED <<status, version, completed>>
      PROVE  WaitingInv'
  <2>1. \A o \in Orders : Unfinished(o)'
    BY <1>0, <1>2, UnfinishedSame
  <2>2. \A d \in Clients : Current(d)'
    BY <1>0, <1>2, CurrentSame
  <2> QED
    BY <2>1, <2>2 DEF WaitingInv
<1>3. ASSUME request' = request, NEW o \in Orders,
             Overwrite(o, "FAILED_FINAL", version[o], content[o])
      PROVE  WaitingInv'
  <2>1. /\ status'[o] = "FAILED_FINAL"
        /\ \A p \in Orders : p # o => status'[p] = status[p]
        /\ \A p \in Orders : version'[p] = version[p]
        /\ completed' = completed
    BY <1>0, <1>3 DEF Overwrite, TypeOK
  <2>2. Unfinished(o)'
    BY <1>0, <2>1 DEF Unfinished, Download, TaskOf
  <2>3. \A p \in Orders : Unfinished(p)'
    BY <1>0, <2>1, <2>2, UnfinishedSame
  <2>4. ASSUME NEW d \in Clients PROVE Current(d)'
    <3>1. request[d] # None => request[d].order \in Orders
      BY <1>0 DEF TypeOK, Request
    <3> QED
      BY <1>0, <1>3, <2>1, <3>1, CurrentSame
  <2> QED
    BY <2>3, <2>4 DEF WaitingInv
<1>4. ASSUME request' = request, NEW w \in Workers, Commit(w) PROVE WaitingInv'
  BY <1>4, WaitingCommit
<1>5. \/ \E c \in Clients : ClientStep(c)
      \/ UNCHANGED <<status, version, completed>>
      \/ \E w \in Workers : WorkerStep(w)
  BY DEF Next, vars, IngestUnchanged, Age, DispatcherStep, DispatcherPass,
         DispatcherCrash, Lose, orderVars, ledgerVars
<1>6. ASSUME request' = request, NEW w \in Workers, WorkerStep(w)
      PROVE  WaitingInv'
  <2>1. Quiet => UNCHANGED <<status, version, completed>>
    BY DEF Quiet
  <2>2. \A m \in Message : Claim(w, m) => UNCHANGED <<status, version, completed>>
    BY DEF Claim, orderVars, ledgerVars
  <2> QED
    BY <1>0, <1>2, <1>3, <1>4, <1>6, <2>1, <2>2, WorkerCases
<1>7. request' = request \/ \E c \in Clients : ClientStep(c)
  BY RequestsKept
<1> QED
  BY <1>1, <1>2, <1>5, <1>6, <1>7

LEMMA WaitingInvInit == Init => WaitingInv
<1> SUFFICES ASSUME Init PROVE WaitingInv
  OBVIOUS
<1>1. /\ completed = [k \in Task |-> 0]
      /\ \A o \in Orders : status[o] \in {"PDF_QUEUED", "ABSENT"}
      /\ \A c \in Clients : request[c] = None
  BY DEF Init
<1>2. ASSUME NEW o \in Orders PROVE Unfinished(o)
  <2>1. \A v \in Version : Download(o, v) \in Task /\ TaskOf(o, v, "run_audit") \in Task
    BY TaskOfType DEF Download, Kind
  <2>2. status[o] = "PDF_QUEUED" => version[o] \in Version
    BY TypeInit DEF TypeOK
  <2> QED
    BY <1>1, <2>1, <2>2 DEF Unfinished
<1>3. \A c \in Clients : Current(c)
  BY <1>1 DEF Current
<1> QED
  BY <1>2, <1>3 DEF WaitingInv

(* As long as requests on one order do not overlap, no order waits for a   *)
(* task that was completed before, whose messages would all be refused.    *)
THEOREM NotStranded == Spec /\ []RequestsApart => []NothingStranded
<1>1. WaitingInv => NothingStranded
  BY DEF WaitingInv, Unfinished, NothingStranded, CurrentTask, Download
<1> QED
  BY <1>1, WaitingInvInit, WaitingInvNext, Safety, PTL DEF Spec

=============================================================================
