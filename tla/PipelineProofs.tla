--------------------------- MODULE PipelineProofs ---------------------------
(***************************************************************************)
(* Theorems about the order pipeline, for every set of orders, contents,   *)
(* workers and requests and every value of the bounds.                     *)
(***************************************************************************)
EXTENDS Pipeline, FiniteSetTheorems, SequenceTheorems, TLAPS

USE BoundsAssumption, NoneAssumption

(* A capped number of copies stays within the bound.                       *)
LEMMA CapType ==
  ASSUME NEW n \in Nat
  PROVE  Cap(n) \in 0 .. MaxCopies
BY DEF Cap

(* A reconcile keeps the outbox a sequence of flags for each task.         *)
LEMMA ReconciledType ==
  ASSUME TypeOK
  PROVE  Reconciled \in [Task -> Seq(BOOLEAN)]
<1> SUFFICES ASSUME NEW k \in Task
             PROVE  Reconciled[k] \in Seq(BOOLEAN)
  BY DEF Reconciled
<1>1. outbox[k] \in Seq(BOOLEAN)
  BY DEF TypeOK
<1>2. ASSUME outbox[k] # <<>>
      PROVE  [outbox[k] EXCEPT ![Len(outbox[k])] = FALSE] \in Seq(BOOLEAN)
  BY <1>1, <1>2
<1> DEFINE stranded == \E o \in Orders : Stranded(o) /\ k = CurrentTask(o)
<1>3. Reconciled[k] = IF stranded
                      THEN IF outbox[k] = <<>> THEN <<FALSE>>
                           ELSE [outbox[k] EXCEPT ![Len(outbox[k])] = FALSE]
                      ELSE outbox[k]
  BY DEF Reconciled
<1>4. <<FALSE>> \in Seq(BOOLEAN)
  OBVIOUS
<1> HIDE DEF stranded
<1> QED
  BY <1>1, <1>2, <1>3, <1>4

(* Delivering rows of an outbox puts no message above the bound.           *)
LEMMA DeliverType ==
  ASSUME TypeOK, NEW rows \in [Task -> Seq(BOOLEAN)], NEW sent, Deliver(rows, sent)
  PROVE  queue' \in [Message -> 0 .. MaxCopies]
<1> SUFFICES ASSUME NEW m \in Message
             PROVE  queue'[m] \in 0 .. MaxCopies
  BY DEF Deliver
<1> DEFINE S == {i \in DOMAIN rows[m.task] : <<m.task, i>> \in sent}
<1>1. rows[m.task] \in Seq(BOOLEAN)
  BY DEF Message
<1>2. Cardinality(S) \in Nat
  <2>1. DOMAIN rows[m.task] = 1 .. Len(rows[m.task]) /\ Len(rows[m.task]) \in Nat
    BY <1>1
  <2>2. IsFiniteSet(1 .. Len(rows[m.task]))
    BY <2>1, FS_Interval
  <2>3. IsFiniteSet(S)
    BY <2>1, <2>2, FS_Subset
  <2> QED
    BY <2>3, FS_CardinalityType
<1>3. queue[m] \in 0 .. MaxCopies
  BY DEF TypeOK
<1>4. Cap(queue[m] + Cardinality(S)) \in 0 .. MaxCopies
  <2>1. queue[m] + Cardinality(S) \in Nat
    BY <1>2, <1>3
  <2> QED
    BY <2>1, CapType
<1>5. queue'[m] = IF m.retries = 0 THEN Cap(queue[m] + Cardinality(S)) ELSE queue[m]
  BY DEF Deliver
<1> QED
  BY <1>3, <1>4, <1>5

(* Every transition is typed.                                              *)
LEMMA TypeInit == Init => TypeOK
<1> SUFFICES ASSUME Init PROVE TypeOK
  OBVIOUS
<1> PICK known \in SUBSET Orders :
      /\ status = [o \in Orders |-> IF o \in known THEN "PDF_QUEUED" ELSE "ABSENT"]
      /\ version = [o \in Orders |-> IF o \in known THEN 1 ELSE 0]
      /\ outbox = [k \in Task |->
           IF \E o \in known : k = TaskOf(o, 1, "process_pdf") THEN <<FALSE>> ELSE <<>>]
  BY DEF Init
<1>1. outbox \in [Task -> Seq(BOOLEAN)]
  <2> SUFFICES ASSUME NEW k \in Task PROVE outbox[k] \in Seq(BOOLEAN)
    OBVIOUS
  <2>1. outbox[k] = <<FALSE>> \/ outbox[k] = <<>>
    OBVIOUS
  <2>2. <<FALSE>> \in Seq(BOOLEAN) /\ <<>> \in Seq(BOOLEAN)
    OBVIOUS
  <2> QED
    BY <2>1, <2>2
<1>2. status \in [Orders -> PipelineStatus \cup {"ABSENT"}]
  BY DEF PipelineStatus
<1>3. version \in [Orders -> Version \cup {0}]
  BY DEF Version
<1> QED
  BY <1>1, <1>2, <1>3 DEF Init, TypeOK, Stage

(* What a worker holds is a message of a task.                             *)
LEMMA HeldType ==
  ASSUME TypeOK, NEW w \in Workers, stage[w] # "idle"
  PROVE  /\ held[w] \in Message
         /\ held[w].task \in Task
         /\ held[w].task.order \in Orders
         /\ held[w].task.version \in Version
         /\ held[w].task.kind \in Kind
<1>1. held[w] \in Message
  BY DEF TypeOK
<1> QED
  BY <1>1 DEF Message, Task

(* A row added to the outbox, and an order enqueued, keep their types.     *)
LEMMA AddRowType ==
  ASSUME TypeOK, NEW k \in Task, AddRow(k)
  PROVE  outbox' \in [Task -> Seq(BOOLEAN)]
BY DEF TypeOK, AddRow

LEMMA TaskOfType ==
  ASSUME NEW o \in Orders, NEW v \in Version, NEW kind \in Kind
  PROVE  TaskOf(o, v, kind) \in Task
BY DEF TaskOf, Task

LEMMA WriteOrderType ==
  ASSUME TypeOK, NEW o \in Orders, NEW s \in PipelineStatus, WriteOrder(o, s)
  PROVE  /\ status' \in [Orders -> PipelineStatus \cup {"ABSENT"}]
         /\ stale' \in [Orders -> BOOLEAN]
BY DEF TypeOK, WriteOrder

LEMMA EnqueueType ==
  ASSUME TypeOK, NEW o \in Orders, NEW v \in Version, Enqueue(o, v)
  PROVE  /\ status' \in [Orders -> PipelineStatus \cup {"ABSENT"}]
         /\ status' = [status EXCEPT ![o] = "PDF_QUEUED"]
         /\ stale' \in [Orders -> BOOLEAN]
         /\ outbox' \in [Task -> Seq(BOOLEAN)]
<1>1. TaskOf(o, v, "process_pdf") \in Task
  BY TaskOfType DEF Kind
<1>2. "PDF_QUEUED" \in PipelineStatus
  BY DEF PipelineStatus
<1> QED
  BY <1>1, <1>2, AddRowType, WriteOrderType DEF Enqueue, WriteOrder

(* The end of a request leaves only the request's own state.               *)
LEMMA FinishType ==
  ASSUME TypeOK, NEW c \in Clients, Finish(c),
         status' \in [Orders -> PipelineStatus \cup {"ABSENT"}],
         version' \in [Orders -> Version \cup {0}],
         content' \in [Orders -> Contents \cup {None}],
         stale' \in [Orders -> BOOLEAN],
         outbox' \in [Task -> Seq(BOOLEAN)],
         \A o \in Orders : status'[o] = "ABSENT" <=> version'[o] = 0,
         \A o \in Orders : status[o] # "ABSENT" => status'[o] # "ABSENT"
  PROVE  TypeOK'
<1>1. ASSUME NEW d \in Clients, request'[d] # None, request'[d].op = "retry"
      PROVE  status'[request'[d].order] # "ABSENT"
  <2>1. request'[d] = request[d]
    BY <1>1 DEF TypeOK, Finish
  <2>2. request[d] \in Request
    BY <1>1, <2>1 DEF TypeOK
  <2>3. request[d].order \in Orders
    BY <2>2 DEF Request
  <2>4. status[request[d].order] # "ABSENT"
    BY <1>1, <2>1 DEF TypeOK
  <2> QED
    BY <2>1, <2>3, <2>4
<1>2. request' \in [Clients -> Request \cup {None}]
  BY DEF TypeOK, Finish
<1>3. ASSUME NEW w \in Workers, stage'[w] \in {"working", "marking"}
      PROVE  status'[held'[w].task.order] # "ABSENT"
  <2>1. stage' = stage /\ held' = held
    BY DEF Finish, workerVars
  <2>2. held[w].task.order \in Orders
    BY <1>3, <2>1, HeldType
  <2> QED
    BY <1>3, <2>1, <2>2 DEF TypeOK
<1> QED
  BY <1>1, <1>2, <1>3 DEF TypeOK, Finish, ledgerVars, workerVars

(* Requests keep the types.                                                *)
LEMMA TypeClient ==
  ASSUME TypeOK, NEW c \in Clients, ClientStep(c)
  PROVE  TypeOK'
<1> DEFINE r == request[c]
<1>0. r # None => r \in Request
  BY DEF TypeOK
<1>1. ASSUME NEW o \in Orders, NEW x \in Contents, IngestRead(c, o, x)
      PROVE  TypeOK'
  BY <1>1 DEF IngestRead, TypeOK, Request, orderVars, ledgerVars, workerVars
<1>2. ASSUME NEW o \in Orders, RetryRead(c, o)
      PROVE  TypeOK'
  BY <1>2 DEF RetryRead, TypeOK, Request, orderVars, ledgerVars, workerVars
<1>3. ASSUME IngestCreate(c) \/ IngestUpdate(c)
      PROVE  TypeOK'
  <2>1. r.order \in Orders /\ r.content \in Contents /\ r.version + 1 \in Version
    BY <1>0, <1>3 DEF IngestCreate, IngestUpdate, Request, Version
  <2>2. /\ version' = [version EXCEPT ![r.order] = r.version + 1]
        /\ content' = [content EXCEPT ![r.order] = r.content]
        /\ Enqueue(r.order, r.version + 1)
        /\ Finish(c)
    BY <1>3 DEF IngestCreate, IngestUpdate
  <2> HIDE DEF r
  <2>4. /\ status' \in [Orders -> PipelineStatus \cup {"ABSENT"}]
        /\ stale' \in [Orders -> BOOLEAN]
        /\ outbox' \in [Task -> Seq(BOOLEAN)]
        /\ status' = [status EXCEPT ![r.order] = "PDF_QUEUED"]
    BY <2>1, <2>2, EnqueueType
  <2>5. r.version + 1 # 0
    BY <2>1 DEF Version
  <2>6. \A o \in Orders : status'[o] = "ABSENT" <=> version'[o] = 0
    BY <2>1, <2>2, <2>4, <2>5 DEF TypeOK
  <2>7. \A o \in Orders : status[o] # "ABSENT" => status'[o] # "ABSENT"
    BY <2>1, <2>4 DEF TypeOK
  <2>3. /\ version' \in [Orders -> Version \cup {0}]
        /\ content' \in [Orders -> Contents \cup {None}]
    BY <2>1, <2>2 DEF TypeOK
  <2> QED
    BY <2>2, <2>3, <2>4, <2>6, <2>7, FinishType
<1>4. ASSUME IngestConflict(c) \/ RequestRollback(c)
      PROVE  TypeOK'
  <2>1. UNCHANGED <<status, version, content, stale, outbox>> /\ Finish(c)
    BY <1>4 DEF IngestConflict, RequestRollback, orderVars
  <2> QED
    BY <2>1, FinishType DEF TypeOK
<1>5. ASSUME RetryWrite(c)
      PROVE  TypeOK'
  <2>1. r.order \in Orders /\ version[r.order] \in Version
    BY <1>0, <1>5 DEF RetryWrite, Request, Version, TypeOK
  <2>2. /\ version' = version /\ content' = content
        /\ Enqueue(r.order, version[r.order])
        /\ Finish(c)
    BY <1>5 DEF RetryWrite
  <2> HIDE DEF r
  <2>3. /\ status' \in [Orders -> PipelineStatus \cup {"ABSENT"}]
        /\ stale' \in [Orders -> BOOLEAN]
        /\ outbox' \in [Task -> Seq(BOOLEAN)]
        /\ status' = [status EXCEPT ![r.order] = "PDF_QUEUED"]
    BY <2>1, <2>2, EnqueueType
  <2>4. /\ \A o \in Orders : status'[o] = "ABSENT" <=> version'[o] = 0
        /\ \A o \in Orders : status[o] # "ABSENT" => status'[o] # "ABSENT"
    BY <2>1, <2>2, <2>3 DEF TypeOK, Version
  <2> QED
    BY <2>2, <2>3, <2>4, FinishType DEF TypeOK
<1> QED
  BY <1>1, <1>2, <1>3, <1>4, <1>5 DEF ClientStep, ClientWrite

(* Dispatcher passes keep the types.                                       *)
LEMMA TypeDispatcher ==
  ASSUME TypeOK, DispatcherStep
  PROVE  TypeOK'
<1>1. PICK rows \in {outbox, Reconciled} :
        \E sent \in SUBSET Pending(rows) :
          DispatcherPass(rows, sent) \/ DispatcherCrash(rows, sent)
  BY DEF DispatcherStep
<1>2. PICK sent \in SUBSET Pending(rows) :
        DispatcherPass(rows, sent) \/ DispatcherCrash(rows, sent)
  BY <1>1
<1>3. rows \in [Task -> Seq(BOOLEAN)]
  BY ReconciledType DEF TypeOK
<1>4. queue' \in [Message -> 0 .. MaxCopies]
  BY <1>2, <1>3, DeliverType DEF DispatcherPass, DispatcherCrash
<1>5. CASE DispatcherPass(rows, sent)
  <2>1. outbox' = [k \in Task |->
          [i \in DOMAIN rows[k] |-> rows[k][i] \/ <<k, i>> \in sent]]
    BY <1>5 DEF DispatcherPass
  <2>2. outbox' \in [Task -> Seq(BOOLEAN)]
    <3> SUFFICES ASSUME NEW k \in Task PROVE outbox'[k] \in Seq(BOOLEAN)
      BY <2>1
    <3>1. rows[k] \in Seq(BOOLEAN)
      BY <1>3
    <3>2. Len(rows[k]) \in Nat /\ DOMAIN rows[k] = 1 .. Len(rows[k])
      BY <3>1
    <3>3. outbox'[k] \in [1 .. Len(rows[k]) -> BOOLEAN]
      BY <2>1, <3>1, <3>2
    <3> QED
      BY <3>2, <3>3, SeqDef
  <2> QED
    BY <1>4, <1>5, <2>2
    DEF DispatcherPass, TypeOK, orderVars, ledgerVars, workerVars, clientVars
<1>6. CASE DispatcherCrash(rows, sent)
  BY <1>4, <1>6
  DEF DispatcherCrash, Fault, TypeOK, orderVars, ledgerVars, workerVars, clientVars
<1> QED
  BY <1>2, <1>5, <1>6

(* A commit of a task keeps the types, whatever its status and job count,  *)
(* once the outbox and the results are known to.                           *)
LEMMA CommitType ==
  ASSUME TypeOK, NEW w \in Workers, stage[w] = "working",
         NEW s \in PipelineStatus, NEW jobs \in Nat, CommitTask(w, s, jobs),
         outbox' \in [Task -> Seq(BOOLEAN)],
         results' \subseteq Verdict
  PROVE  TypeOK'
<1>1. held[w].task \in Task /\ held[w].task.order \in Orders
  BY HeldType
<1>2. completed' \in [Task -> Nat]
  BY <1>1 DEF CommitTask, TypeOK
<1>3. /\ status' \in [Orders -> PipelineStatus \cup {"ABSENT"}]
      /\ stale' \in [Orders -> BOOLEAN]
  BY <1>1 DEF CommitTask, TypeOK
<1>4. /\ stage' \in [Workers -> Stage]
      /\ held' \in [Workers -> Message \cup {None}]
      /\ \A u \in Workers : held'[u] = None <=> stage'[u] = "idle"
  BY DEF CommitTask, Release, TypeOK, Stage
<1>5. s # "ABSENT"
  BY DEF PipelineStatus
<1>6. \A o \in Orders : status'[o] = "ABSENT" <=> version'[o] = 0
  BY <1>1, <1>5 DEF CommitTask, TypeOK
<1>7. ASSUME NEW c \in Clients, request'[c] # None, request'[c].op = "retry"
      PROVE  status'[request'[c].order] # "ABSENT"
  <2>1. request' = request /\ status' = [status EXCEPT ![held[w].task.order] = s]
    BY DEF CommitTask, clientVars
  <2>2. request[c].order \in Orders
    BY <1>7, <2>1 DEF TypeOK, Request
  <2> QED
    BY <1>5, <1>7, <2>1, <2>2 DEF TypeOK
<1>8. ASSUME NEW u \in Workers, stage'[u] \in {"working", "marking"}
      PROVE  status'[held'[u].task.order] # "ABSENT"
  <2>1. u # w /\ stage'[u] = stage[u] /\ held'[u] = held[u]
    BY <1>8 DEF CommitTask, Release, TypeOK
  <2>2. held[u].task.order \in Orders
    BY <1>8, <2>1, HeldType
  <2>3. status' = [status EXCEPT ![held[w].task.order] = s]
    BY DEF CommitTask
  <2> QED
    BY <1>5, <1>8, <2>1, <2>2, <2>3 DEF TypeOK
<1> QED
  BY <1>2, <1>3, <1>4, <1>6, <1>7, <1>8 DEF CommitTask, clientVars, TypeOK

(* A step that leaves the tables alone and moves one worker keeps the      *)
(* types.                                                                  *)
LEMMA MoveType ==
  ASSUME TypeOK, NEW w \in Workers, NEW s \in Stage, NEW m \in Message \cup {None},
         m = None <=> s = "idle",
         s \in {"working", "marking"} => status[m.task.order] # "ABSENT",
         stage' = [stage EXCEPT ![w] = s],
         held' = [held EXCEPT ![w] = m],
         queue' \in [Message -> 0 .. MaxCopies],
         faults' \in Nat,
         UNCHANGED <<orderVars, ledgerVars, outbox, clientVars>>
  PROVE  TypeOK'
<1>1. \A u \in Workers : held'[u] = None <=> stage'[u] = "idle"
  BY DEF TypeOK
<1>2. ASSUME NEW u \in Workers, stage'[u] \in {"working", "marking"}
      PROVE  status'[held'[u].task.order] # "ABSENT"
  BY <1>2 DEF TypeOK, orderVars
<1>3. stage' \in [Workers -> Stage] /\ held' \in [Workers -> Message \cup {None}]
  BY DEF TypeOK
<1> QED
  BY <1>1, <1>2, <1>3 DEF TypeOK, orderVars, ledgerVars, clientVars

(* Publishing one more copy, or taking one away, stays within the bound.   *)
LEMMA PublishType ==
  ASSUME TypeOK, NEW m \in Message, Publish(m)
  PROVE  queue' \in [Message -> 0 .. MaxCopies]
<1>1. queue[m] + 1 \in Nat
  BY DEF TypeOK
<1>2. Cap(queue[m] + 1) \in 0 .. MaxCopies
  BY <1>1, CapType
<1> QED
  BY <1>2 DEF TypeOK, Publish

LEMMA TakeType ==
  ASSUME TypeOK, NEW m \in Message, queue[m] > 0,
         queue' = [queue EXCEPT ![m] = @ - 1]
  PROVE  queue' \in [Message -> 0 .. MaxCopies]
BY DEF TypeOK

(* The steps of a worker that holds a message keep the types.              *)
LEMMA TypeAdvance ==
  ASSUME TypeOK, NEW w \in Workers, WorkerAdvance(w)
  PROVE  TypeOK'
<1> DEFINE k == held[w].task
<1>0. {"PDF_FAILED", "PDF_READY", "MANUAL_REQUIRED", "AI_COMPLETED", "FAILED_FINAL"}
         \subseteq PipelineStatus
  BY DEF PipelineStatus
<1>1. CASE PdfFailed(w) \/ PdfManual(w) \/ AuditUnrouted(w)
  <2>1. stage[w] = "working" /\ UNCHANGED <<outbox, results>>
    BY <1>1 DEF PdfFailed, PdfManual, AuditUnrouted
  <2>2. \/ CommitTask(w, "PDF_FAILED", 0)
        \/ CommitTask(w, "MANUAL_REQUIRED", 1)
    BY <1>1 DEF PdfFailed, PdfManual, AuditUnrouted
  <2>3. outbox' \in [Task -> Seq(BOOLEAN)] /\ results' \subseteq Verdict
    BY <2>1 DEF TypeOK
  <2> QED
    BY <1>0, <2>1, <2>2, <2>3, CommitType
<1>2. CASE PdfReady(w)
  <2>1. /\ stage[w] = "working" /\ results' = results
        /\ CommitTask(w, "PDF_READY", 1)
        /\ AddRow(TaskOf(k.order, k.version, "run_audit"))
    BY <1>2 DEF PdfReady
  <2>2. TaskOf(k.order, k.version, "run_audit") \in Task
    BY <2>1, HeldType, TaskOfType DEF Kind
  <2>3. outbox' \in [Task -> Seq(BOOLEAN)]
    BY <2>1, <2>2, AddRowType
  <2>4. results' \subseteq Verdict
    BY <2>1 DEF TypeOK
  <2> QED
    BY <1>0, <2>1, <2>3, <2>4, CommitType
<1>3. CASE AuditDone(w)
  <2>1. PICK v \in AuditOutcomes(k.order) :
          /\ CommitTask(w, StatusOf(v.decision), 1)
          /\ results' = results \cup {v}
    BY <1>3 DEF AuditDone
  <2>2. stage[w] = "working" /\ outbox' = outbox
    BY <1>3 DEF AuditDone
  <2>3. StatusOf(v.decision) \in PipelineStatus
    BY <1>0 DEF StatusOf
  <2>4. results' \subseteq Verdict
    BY <2>1 DEF AuditOutcomes, TypeOK
  <2>5. outbox' \in [Task -> Seq(BOOLEAN)]
    BY <2>2 DEF TypeOK
  <2> QED
    BY <2>1, <2>2, <2>3, <2>4, <2>5, CommitType
<1>4. CASE MarkRead(w)
  <2>1. held[w] \in Message /\ version[k.order] = k.version /\ k.order \in Orders
    BY <1>4, HeldType DEF MarkRead
  <2>2. status[k.order] # "ABSENT"
    <3>1. k.version # 0
      BY <1>4, HeldType DEF MarkRead, Version
    <3>2. status[k.order] = "ABSENT" <=> version[k.order] = 0
      BY <2>1 DEF TypeOK
    <3> QED
      BY <2>1, <3>1, <3>2
  <2>3. held' = [held EXCEPT ![w] = held[w]] /\ held[w] # None
    BY <1>4, <2>1 DEF MarkRead, TypeOK
  <2>4. /\ stage' = [stage EXCEPT ![w] = "marking"] /\ "marking" \in Stage
        /\ UNCHANGED <<orderVars, ledgerVars, outbox, clientVars>>
    BY <1>4 DEF MarkRead, Stage
  <2>5. queue' \in [Message -> 0 .. MaxCopies] /\ faults' \in Nat
    BY <1>4 DEF MarkRead, TypeOK
  <2> QED
    BY <2>1, <2>2, <2>3, <2>4, <2>5, MoveType
<1>5. CASE MarkRefused(w)
  BY <1>5, MoveType DEF MarkRefused, Release, Stage, TypeOK
<1>6. CASE MarkWrite(w)
  <2>1. k.order \in Orders
    BY <1>6, HeldType DEF MarkWrite
  <2>2. /\ status' = [status EXCEPT ![k.order] = "FAILED_FINAL"]
        /\ stale' = [stale EXCEPT ![k.order] = FALSE]
        /\ UNCHANGED <<version, content, completed, results, outbox, queue,
                       request, requests, faults>>
        /\ stage[w] = "marking"
        /\ stage' = [stage EXCEPT ![w] = "idle"]
        /\ held' = [held EXCEPT ![w] = None]
    BY <1>6 DEF MarkWrite, WriteOrder, Release, ledgerVars, clientVars
  <2> HIDE DEF k
  <2>3. /\ status' \in [Orders -> PipelineStatus \cup {"ABSENT"}]
        /\ stale' \in [Orders -> BOOLEAN]
    BY <1>0, <2>1, <2>2 DEF TypeOK
  <2>4. status[k.order] # "ABSENT"
    BY <2>2 DEF TypeOK, k
  <2>5. \A o \in Orders : status'[o] = "ABSENT" <=> version'[o] = 0
    BY <2>1, <2>2, <2>4 DEF TypeOK
  <2>6. ASSUME NEW c \in Clients, request'[c] # None, request'[c].op = "retry"
        PROVE  status'[request'[c].order] # "ABSENT"
    <3>1. request[c].order \in Orders
      BY <2>2, <2>6 DEF TypeOK, Request
    <3> QED
      BY <2>2, <2>6, <3>1 DEF TypeOK
  <2>7. ASSUME NEW u \in Workers, stage'[u] \in {"working", "marking"}
        PROVE  status'[held'[u].task.order] # "ABSENT"
    <3>1. u # w /\ stage'[u] = stage[u] /\ held'[u] = held[u]
      BY <2>2, <2>7 DEF TypeOK
    <3>2. held[u].task.order \in Orders
      BY <2>7, <3>1, HeldType
    <3> QED
      BY <2>2, <2>7, <3>1, <3>2 DEF TypeOK
  <2>8. /\ stage' \in [Workers -> Stage]
        /\ held' \in [Workers -> Message \cup {None}]
        /\ \A u \in Workers : held'[u] = None <=> stage'[u] = "idle"
    BY <2>2 DEF TypeOK, Stage
  <2> QED
    BY <2>2, <2>3, <2>5, <2>6, <2>7, <2>8 DEF TypeOK
<1> QED
  BY <1>1, <1>2, <1>3, <1>4, <1>5, <1>6 DEF WorkerAdvance

(* Taking a message, refusing one and every failure keep the types.        *)
LEMMA TypeHandle ==
  ASSUME TypeOK, NEW w \in Workers, NEW m \in Message, Handle(w, m)
  PROVE  TypeOK'
<1>1. queue' \in [Message -> 0 .. MaxCopies]
  BY TakeType DEF Handle, Claim, ClaimRefused, Take
<1>2. CASE Claim(w, m)
  <2>1. status[m.task.order] # "ABSENT" /\ m # None
    BY <1>2 DEF Claim, Claimable, ClaimFrom
  <2> QED
    BY <1>1, <1>2, <2>1, MoveType DEF Claim, Stage, TypeOK
<1>3. CASE ClaimRefused(w, m)
  BY <1>1, <1>3
  DEF ClaimRefused, TypeOK, orderVars, ledgerVars, workerVars, clientVars
<1> QED
  BY <1>2, <1>3 DEF Handle

LEMMA TypeFault ==
  ASSUME TypeOK, NEW w \in Workers, WorkerFault(w)
  PROVE  TypeOK'
<1>1. faults' \in Nat
  <2>1. Fault \/ faults' = faults
    BY DEF WorkerFault, TaskRetry, TaskExhausted, MarkError, WorkerCrash, Redeliver,
           ClaimErrorRetry, ClaimErrorExhausted
  <2> QED
    BY <2>1 DEF Fault, TypeOK
<1>2. CASE TaskRetry(w)
  <2>1. NextAttempt(held[w]) \in Message
    BY <1>2, HeldType DEF TaskRetry, NextAttempt, Message
  <2> QED
    BY <1>1, <1>2, <2>1, PublishType, MoveType DEF TaskRetry, Release, Stage
<1>3. CASE TaskExhausted(w)
  <2>1. held[w] \in Message /\ held[w] # None /\ held' = [held EXCEPT ![w] = held[w]]
    BY <1>3, HeldType DEF TaskExhausted, TypeOK
  <2> QED
    BY <1>1, <1>3, <2>1, MoveType DEF TaskExhausted, Stage, TypeOK
<1>4. CASE MarkError(w)
  BY <1>1, <1>4, MoveType DEF MarkError, Release, Stage, TypeOK
<1>5. CASE WorkerCrash(w)
  BY <1>1, <1>5, HeldType, PublishType, MoveType DEF WorkerCrash, Release, Stage
<1>6. CASE Redeliver(w)
  BY <1>1, <1>6, HeldType, PublishType
  DEF Redeliver, TypeOK, orderVars, ledgerVars, workerVars, clientVars
<1>7. ASSUME NEW m \in Message, ClaimErrorRetry(w, m)
      PROVE  TypeOK'
  <2>0. queue[m] > 0 /\ m.retries < MaxRetries
    BY <1>7 DEF ClaimErrorRetry, Take
  <2>6. queue[m] - 1 \in 0 .. MaxCopies
    BY <2>0 DEF TypeOK
  <2>7. NextAttempt(m) \in Message /\ NextAttempt(m) # m
    <3>1. /\ m \in [task : Task, retries : 0 .. MaxRetries]
          /\ NextAttempt(m).retries = m.retries + 1
      BY DEF Message, NextAttempt
    <3> QED
      BY <2>0, <3>1 DEF NextAttempt, Message
  <2>1. /\ queue[m] - 1 \in 0 .. MaxCopies
        /\ NextAttempt(m) \in Message /\ NextAttempt(m) # m
    BY <2>6, <2>7
  <2>2. queue[NextAttempt(m)] + 1 \in Nat
    BY <2>1 DEF TypeOK
  <2>3. Cap(queue[NextAttempt(m)] + 1) \in 0 .. MaxCopies
    BY <2>2, CapType
  <2>4. queue' = [queue EXCEPT ![m] = queue[m] - 1,
                               ![NextAttempt(m)] = Cap(queue[NextAttempt(m)] + 1)]
    BY <1>7, <2>1 DEF ClaimErrorRetry, TypeOK
  <2>5. queue' \in [Message -> 0 .. MaxCopies]
    BY <2>1, <2>3, <2>4 DEF TypeOK
  <2> QED
    BY <1>1, <1>7, <2>5
    DEF ClaimErrorRetry, TypeOK, orderVars, ledgerVars, workerVars, clientVars
<1>8. ASSUME NEW m \in Message, ClaimErrorExhausted(w, m)
      PROVE  TypeOK'
  <2>1. queue' \in [Message -> 0 .. MaxCopies] /\ m # None
    BY <1>8, TakeType DEF ClaimErrorExhausted, Take
  <2> QED
    BY <1>1, <1>8, <2>1, MoveType DEF ClaimErrorExhausted, Stage, TypeOK
<1> QED
  BY <1>2, <1>3, <1>4, <1>5, <1>6, <1>7, <1>8 DEF WorkerFault

LEMMA TypeNext ==
  ASSUME TypeOK, [Next]_vars
  PROVE  TypeOK'
<1>1. ASSUME NEW c \in Clients, ClientStep(c) PROVE TypeOK'
  BY <1>1, TypeClient
<1>2. ASSUME NEW o \in Orders, IngestUnchanged(o) \/ Age(o) PROVE TypeOK'
  <2>1. UNCHANGED <<status, version, content, completed, results, outbox, queue,
                    stage, held, request, faults>>
    BY <1>2 DEF IngestUnchanged, Age, ledgerVars, workerVars, clientVars
  <2>2. stale' \in [Orders -> BOOLEAN]
    BY <1>2 DEF IngestUnchanged, Age, TypeOK
  <2>3. requests' \in Nat
    BY <1>2 DEF IngestUnchanged, Age, TypeOK, clientVars
  <2> QED
    BY <2>1, <2>2, <2>3 DEF TypeOK
<1>3. CASE DispatcherStep
  BY <1>3, TypeDispatcher
<1>4. ASSUME NEW w \in Workers, WorkerStep(w) PROVE TypeOK'
  BY <1>4, TypeHandle, TypeAdvance, TypeFault DEF WorkerStep
<1>5. ASSUME NEW m \in Message, Lose(m) PROVE TypeOK'
  BY <1>5, TakeType
  DEF Lose, Fault, TypeOK, orderVars, ledgerVars, workerVars, clientVars
<1>6. CASE UNCHANGED vars
  BY <1>6 DEF vars, TypeOK
<1> QED
  BY <1>1, <1>2, <1>3, <1>4, <1>5, <1>6 DEF Next

(* Every reachable state is typed.                                         *)
THEOREM TypeCorrect == Spec => []TypeOK
<1>1. Init => TypeOK
  BY TypeInit
<1>2. TypeOK /\ [Next]_vars => TypeOK'
  BY TypeNext
<1> QED
  BY <1>1, <1>2, PTL DEF Spec

=============================================================================
