--------------------------- MODULE VerdictProofs ---------------------------
(***************************************************************************)
(* What the claiming UPDATE and the job check buy, for every instance: the *)
(* safety invariants of the order pipeline, and that it implements the     *)
(* write-once ledger of verdicts.                                          *)
(*                                                                         *)
(* A step of the pipeline is quiet (the tables of the invariants do not    *)
(* change and no worker starts), a claim, an overwrite of an unlocked      *)
(* order by a request or by _mark_failed, or the commit of a task.  Each   *)
(* proof below has one case for each of these.                             *)
(***************************************************************************)
EXTENDS PipelineProofs

USE BoundsAssumption, NoneAssumption

(* Whoever is at work after the step was at work on the same message.      *)
StayAtWork ==
  \A w \in Workers :
    stage'[w] = "working" => stage[w] = "working" /\ held'[w] = held[w]

Quiet ==
  /\ UNCHANGED <<status, version, content, completed, results>>
  /\ StayAtWork

Overwrite(o, s, v, x) ==
  /\ ~Locked(o)
  /\ status' = [status EXCEPT ![o] = s]
  /\ version' = [version EXCEPT ![o] = v]
  /\ content' = [content EXCEPT ![o] = x]
  /\ s = "PDF_QUEUED" => outbox'[TaskOf(o, v, "process_pdf")] # <<>>
  /\ UNCHANGED <<completed, results>>
  /\ StayAtWork

Commit(w) ==
  PdfFailed(w) \/ PdfReady(w) \/ PdfManual(w) \/ AuditUnrouted(w) \/ AuditDone(w)

(* A row that was just added is there.                                     *)
LEMMA AddedRow ==
  ASSUME TypeOK, NEW k \in Task, AddRow(k)
  PROVE  outbox'[k] # <<>>
<1>1. outbox[k] \in Seq(BOOLEAN)
  BY DEF TypeOK
<1>2. outbox'[k] = Append(outbox[k], FALSE)
  BY DEF TypeOK, AddRow
<1>3. Append(outbox[k], FALSE) # <<>>
  BY <1>1, FALSE \in BOOLEAN, AppendProperties
<1> QED
  BY <1>2, <1>3

(* Requests overwrite an unlocked order, or change nothing yet.            *)
LEMMA ClientCases ==
  ASSUME TypeOK, NEW c \in Clients, ClientStep(c)
  PROVE  \/ Quiet
         \/ \E o \in Orders, v \in Version, x \in Contents \cup {None} :
              Overwrite(o, "PDF_QUEUED", v, x)
<1> DEFINE r == request[c]
<1>0. r # None => r \in Request
  BY DEF TypeOK
<1>1. ASSUME NEW o \in Orders, NEW x \in Contents, IngestRead(c, o, x)
      PROVE  Quiet
  BY <1>1 DEF IngestRead, Quiet, StayAtWork, orderVars, ledgerVars, workerVars
<1>2. ASSUME NEW o \in Orders, RetryRead(c, o)
      PROVE  Quiet
  BY <1>2 DEF RetryRead, Quiet, StayAtWork, orderVars, ledgerVars, workerVars
<1>3. ASSUME IngestCreate(c) \/ IngestUpdate(c)
      PROVE  \E o \in Orders, v \in Version, x \in Contents \cup {None} :
               Overwrite(o, "PDF_QUEUED", v, x)
  <2>1. r.order \in Orders /\ r.content \in Contents /\ r.version + 1 \in Version
    BY <1>0, <1>3 DEF IngestCreate, IngestUpdate, Request, Version
  <2>2. /\ version' = [version EXCEPT ![r.order] = r.version + 1]
        /\ content' = [content EXCEPT ![r.order] = r.content]
        /\ Enqueue(r.order, r.version + 1)
        /\ Finish(c)
    BY <1>3 DEF IngestCreate, IngestUpdate
  <2> HIDE DEF r
  <2>3. TaskOf(r.order, r.version + 1, "process_pdf") \in Task
    BY <2>1, TaskOfType DEF Kind
  <2>4. outbox'[TaskOf(r.order, r.version + 1, "process_pdf")] # <<>>
    BY <2>2, <2>3, AddedRow DEF Enqueue
  <2>5. Overwrite(r.order, "PDF_QUEUED", r.version + 1, r.content)
    BY <2>2, <2>4
    DEF Overwrite, StayAtWork, Enqueue, WriteOrder, Finish, ledgerVars, workerVars
  <2> QED
    BY <2>1, <2>5
<1>4. ASSUME IngestConflict(c) \/ RequestRollback(c)
      PROVE  Quiet
  <2>1. UNCHANGED <<status, version, content, completed, results, stage, held>>
    BY <1>4 DEF IngestConflict, RequestRollback, Finish, orderVars, ledgerVars, workerVars
  <2> QED
    BY <2>1 DEF Quiet, StayAtWork
<1>5. ASSUME RetryWrite(c)
      PROVE  \E o \in Orders, v \in Version, x \in Contents \cup {None} :
               Overwrite(o, "PDF_QUEUED", v, x)
  <2>1. r.order \in Orders /\ version[r.order] \in Version
    BY <1>0, <1>5 DEF RetryWrite, Request, Version, TypeOK
  <2>2. /\ version' = version /\ content' = content
        /\ Enqueue(r.order, version[r.order])
        /\ Finish(c)
    BY <1>5 DEF RetryWrite
  <2> HIDE DEF r
  <2>3. TaskOf(r.order, version[r.order], "process_pdf") \in Task
    BY <2>1, TaskOfType DEF Kind
  <2>4. outbox'[TaskOf(r.order, version[r.order], "process_pdf")] # <<>>
    BY <2>2, <2>3, AddedRow DEF Enqueue
  <2>5. /\ version' = [version EXCEPT ![r.order] = version[r.order]]
        /\ content' = [content EXCEPT ![r.order] = content[r.order]]
    BY <2>2 DEF TypeOK
  <2>6. Overwrite(r.order, "PDF_QUEUED", version[r.order], content[r.order])
    BY <2>2, <2>4, <2>5
    DEF Overwrite, StayAtWork, Enqueue, WriteOrder, Finish, ledgerVars, workerVars
  <2>7. content[r.order] \in Contents \cup {None}
    BY <2>1 DEF TypeOK
  <2> QED
    BY <2>1, <2>6, <2>7
<1> QED
  BY <1>1, <1>2, <1>3, <1>4, <1>5 DEF ClientStep, ClientWrite

(* Workers claim, commit, fail without a trace or mark the order failed.   *)
LEMMA WorkerCases ==
  ASSUME TypeOK, NEW w \in Workers, WorkerStep(w)
  PROVE  \/ Quiet
         \/ \E m \in Message : Claim(w, m)
         \/ \E o \in Orders : Overwrite(o, "FAILED_FINAL", version[o], content[o])
         \/ Commit(w)
<1>1. ASSUME NEW m \in Message, ClaimRefused(w, m) PROVE Quiet
  BY <1>1 DEF ClaimRefused, Quiet, StayAtWork, orderVars, ledgerVars, workerVars
<1>2. CASE MarkRead(w)
  BY <1>2 DEF MarkRead, Quiet, StayAtWork, TypeOK, orderVars, ledgerVars
<1>3. CASE MarkRefused(w)
  BY <1>3 DEF MarkRefused, Release, Quiet, StayAtWork, TypeOK, orderVars, ledgerVars
<1>4. CASE MarkWrite(w)
  <2> DEFINE o == held[w].task.order
  <2>1. o \in Orders
    BY <1>4, HeldType DEF MarkWrite
  <2>2. StayAtWork
    BY <1>4 DEF MarkWrite, Release, StayAtWork, TypeOK
  <2>3. /\ ~Locked(o)
        /\ status' = [status EXCEPT ![o] = "FAILED_FINAL"]
        /\ UNCHANGED <<version, content, completed, results>>
    BY <1>4 DEF MarkWrite, WriteOrder, ledgerVars
  <2> HIDE DEF o
  <2>4. /\ version' = [version EXCEPT ![o] = version[o]]
        /\ content' = [content EXCEPT ![o] = content[o]]
    BY <2>3 DEF TypeOK
  <2>5. Overwrite(o, "FAILED_FINAL", version[o], content[o])
    BY <2>2, <2>3, <2>4 DEF Overwrite
  <2> QED
    BY <2>1, <2>5
<1>5. CASE TaskRetry(w) \/ TaskExhausted(w) \/ MarkError(w)
  <2>1. StayAtWork
    BY <1>5 DEF TaskRetry, TaskExhausted, MarkError, Release, StayAtWork, TypeOK
  <2> QED
    BY <1>5, <2>1 DEF TaskRetry, TaskExhausted, MarkError, Quiet, orderVars, ledgerVars
<1>6. CASE WorkerCrash(w) \/ Redeliver(w)
  <2>1. StayAtWork
    BY <1>6 DEF WorkerCrash, Redeliver, Release, StayAtWork, TypeOK, workerVars
  <2> QED
    BY <1>6, <2>1 DEF WorkerCrash, Redeliver, Quiet, orderVars, ledgerVars
<1>7. ASSUME NEW m \in Message, ClaimErrorRetry(w, m) \/ ClaimErrorExhausted(w, m)
      PROVE  Quiet
  <2>1. StayAtWork
    BY <1>7 DEF ClaimErrorRetry, ClaimErrorExhausted, StayAtWork, TypeOK, workerVars
  <2> QED
    BY <1>7, <2>1
    DEF ClaimErrorRetry, ClaimErrorExhausted, Quiet, orderVars, ledgerVars
<1> QED
  BY <1>1, <1>2, <1>3, <1>4, <1>5, <1>6, <1>7
  DEF WorkerStep, Handle, WorkerAdvance, WorkerFault, Commit

(* The steps of the pipeline, as the invariants see them.                  *)
LEMMA StepCases ==
  ASSUME TypeOK, [Next]_vars
  PROVE  \/ Quiet
         \/ \E w \in Workers, m \in Message : Claim(w, m)
         \/ \E o \in Orders, v \in Version \cup {0}, x \in Contents \cup {None} :
              \/ Overwrite(o, "PDF_QUEUED", v, x)
              \/ v = version[o] /\ x = content[o] /\ Overwrite(o, "FAILED_FINAL", v, x)
         \/ \E w \in Workers : Commit(w)
<1>1. ASSUME NEW c \in Clients, ClientStep(c)
      PROVE  \/ Quiet
             \/ \E o \in Orders, v \in Version \cup {0}, x \in Contents \cup {None} :
                  Overwrite(o, "PDF_QUEUED", v, x)
  BY <1>1, ClientCases
<1>2. ASSUME NEW o \in Orders, IngestUnchanged(o) \/ Age(o) PROVE Quiet
  BY <1>2 DEF IngestUnchanged, Age, Quiet, StayAtWork, ledgerVars, workerVars
<1>3. CASE DispatcherStep
  BY <1>3
  DEF DispatcherStep, DispatcherPass, DispatcherCrash, Quiet, StayAtWork,
      orderVars, ledgerVars, workerVars
<1>4. ASSUME NEW w \in Workers, WorkerStep(w)
      PROVE  \/ Quiet
             \/ \E m \in Message : Claim(w, m)
             \/ \E o \in Orders, v \in Version \cup {0}, x \in Contents \cup {None} :
                  v = version[o] /\ x = content[o] /\ Overwrite(o, "FAILED_FINAL", v, x)
             \/ Commit(w)
  BY <1>4, WorkerCases DEF TypeOK
<1>5. ASSUME NEW m \in Message, Lose(m) PROVE Quiet
  BY <1>5 DEF Lose, Quiet, StayAtWork, orderVars, ledgerVars, workerVars
<1>6. CASE UNCHANGED vars
  BY <1>6 DEF vars, Quiet, StayAtWork
<1> QED
  BY <1>1, <1>2, <1>3, <1>4, <1>5, <1>6 DEF Next

-----------------------------------------------------------------------------
(* A task is determined by its parts.                                      *)
LEMMA TaskParts ==
  ASSUME NEW k \in Task
  PROVE  k = TaskOf(k.order, k.version, k.kind)
BY DEF Task, TaskOf

(* Every commit is a CommitTask of a task that was claimed.                *)
LEMMA CommitEffect ==
  ASSUME TypeOK, NEW w \in Workers, Commit(w)
  PROVE  /\ stage[w] = "working"
         /\ \E s \in PipelineStatus, jobs \in {0, 1} : CommitTask(w, s, jobs)
<1>0. {"PDF_FAILED", "PDF_READY", "MANUAL_REQUIRED", "AI_COMPLETED"} \subseteq PipelineStatus
  BY DEF PipelineStatus
<1>1. CASE PdfFailed(w) \/ PdfReady(w) \/ PdfManual(w) \/ AuditUnrouted(w)
  BY <1>0, <1>1 DEF PdfFailed, PdfReady, PdfManual, AuditUnrouted
<1>2. CASE AuditDone(w)
  <2>1. PICK v \in AuditOutcomes(held[w].task.order) :
          CommitTask(w, StatusOf(v.decision), 1)
    BY <1>2 DEF AuditDone
  <2>2. StatusOf(v.decision) \in PipelineStatus
    BY <1>0 DEF StatusOf
  <2> QED
    BY <1>2, <2>1, <2>2 DEF AuditDone
<1> QED
  BY <1>1, <1>2 DEF Commit

(* Claims stay exclusive.                                                  *)
LEMMA ClaimsNext ==
  ASSUME TypeOK, ClaimsExclusive, [Next]_vars
  PROVE  ClaimsExclusive'
<1> USE DEF Claimable
<1>1. CASE Quiet
  BY <1>1 DEF Quiet, StayAtWork, ClaimsExclusive
<1>2. ASSUME NEW w \in Workers, NEW m \in Message, Claim(w, m)
      PROVE  ClaimsExclusive'
  <2>1. /\ UNCHANGED <<status, version, completed>>
        /\ stage' = [stage EXCEPT ![w] = "working"]
        /\ held' = [held EXCEPT ![w] = m]
        /\ Claimable(m.task) /\ ~Locked(m.task.order)
    BY <1>2 DEF Claim, orderVars, ledgerVars
  <2>2. completed[m.task] = 0
    BY <1>2 DEF Claim, HasActiveJob, TypeOK, Message
  <2>3. \A u \in Workers : u # w => stage'[u] = stage[u] /\ held'[u] = held[u]
    BY <2>1 DEF TypeOK
  <2>4. stage'[w] = "working" /\ held'[w] = m
    BY <2>1 DEF TypeOK
  <2>5. \A u \in Workers : stage[u] = "working" => held[u].task.order # m.task.order
    BY <2>1 DEF Locked
  <2> QED
    BY <2>1, <2>2, <2>3, <2>4, <2>5 DEF ClaimsExclusive
<1>3. ASSUME NEW o \in Orders, NEW s, NEW v, NEW x, Overwrite(o, s, v, x)
      PROVE  ClaimsExclusive'
  <2>1. \A u \in Workers : stage'[u] = "working" =>
          stage[u] = "working" /\ held'[u] = held[u] /\ held[u].task.order # o
    BY <1>3 DEF Overwrite, StayAtWork, Locked
  <2>2. \A p \in Orders : p # o => status'[p] = status[p] /\ version'[p] = version[p]
    BY <1>3 DEF Overwrite, TypeOK
  <2>3. completed' = completed
    BY <1>3 DEF Overwrite
  <2>4. \A u \in Workers : stage[u] = "working" => held[u].task.order \in Orders
    BY HeldType
  <2> QED
    BY <2>1, <2>2, <2>3, <2>4 DEF ClaimsExclusive
<1>4. ASSUME NEW w \in Workers, Commit(w)
      PROVE  ClaimsExclusive'
  <2> DEFINE k == held[w].task
  <2>1. stage[w] = "working"
    BY <1>4, CommitEffect
  <2>2. PICK s \in PipelineStatus, jobs \in {0, 1} : CommitTask(w, s, jobs)
    BY <1>4, CommitEffect
  <2>3. \A u \in Workers : stage'[u] = "working" =>
          u # w /\ stage[u] = "working" /\ held'[u] = held[u]
    BY <2>2 DEF CommitTask, Release, TypeOK
  <2>4. \A u \in Workers : stage'[u] = "working" => held[u].task.order # k.order
    BY <2>1, <2>3 DEF ClaimsExclusive
  <2>5. \A u \in Workers : stage[u] = "working" =>
          held[u].task \in Task /\ held[u].task.order \in Orders
    BY HeldType
  <2>6. \A p \in Orders : p # k.order => status'[p] = status[p] /\ version'[p] = version[p]
    BY <2>2 DEF CommitTask, TypeOK
  <2>7. \A t \in Task : t # k => completed'[t] = completed[t]
    BY <2>2 DEF CommitTask, TypeOK
  <2> HIDE DEF k
  <2>8. ASSUME NEW u \in Workers, stage'[u] = "working"
        PROVE  /\ Claimable(held[u].task)'
               /\ completed'[held'[u].task] = 0
    <3>1. held'[u] = held[u] /\ held[u].task # k
      BY <2>3, <2>4, <2>8
    <3>2. Claimable(held[u].task) /\ completed[held[u].task] = 0
      BY <2>3, <2>8 DEF ClaimsExclusive
    <3> QED
      BY <2>3, <2>4, <2>5, <2>6, <2>7, <2>8, <3>1, <3>2
  <2> QED
    BY <2>3, <2>8 DEF ClaimsExclusive
<1> QED
  BY <1>1, <1>2, <1>3, <1>4, StepCases

(* A commit moves the order out of its claimed status, adds at most one    *)
(* COMPLETED job of its own task and no other.                             *)
LEMMA CommitRows ==
  ASSUME TypeOK, NEW w \in Workers, NEW s, NEW jobs \in {0, 1}, CommitTask(w, s, jobs),
         stage[w] = "working"
  PROVE  LET k == held[w].task IN
         /\ k \in Task /\ k.order \in Orders
         /\ status'[k.order] = s
         /\ \A o \in Orders : o # k.order => status'[o] = status[o]
         /\ \A t \in Task : completed'[t] \in Nat /\ completed'[t] >= completed[t]
         /\ completed'[k] = completed[k] + jobs
         /\ version' = version /\ content' = content
<1> DEFINE k == held[w].task
<1>1. k \in Task /\ k.order \in Orders
  BY HeldType
<1>2. /\ status' = [status EXCEPT ![k.order] = s]
      /\ completed' = [completed EXCEPT ![k] = @ + jobs]
      /\ version' = version /\ content' = content
  BY DEF CommitTask
<1> HIDE DEF k
<1>3. /\ status'[k.order] = s
      /\ \A o \in Orders : o # k.order => status'[o] = status[o]
  BY <1>1, <1>2 DEF TypeOK
<1>4. /\ \A t \in Task : completed'[t] \in Nat /\ completed'[t] >= completed[t]
      /\ completed'[k] = completed[k] + jobs
  BY <1>1, <1>2 DEF TypeOK
<1> QED
  BY <1>1, <1>2, <1>3, <1>4 DEF k

(* The verdict an audit adds, and what is known of its task.               *)
LEMMA AuditRow ==
  ASSUME TypeOK, ClaimsExclusive, NEW w \in Workers, AuditDone(w)
  PROVE  LET o == held[w].task.order IN
         /\ o \in Orders
         /\ held[w].task = TaskOf(o, version[o], "run_audit")
         /\ completed[TaskOf(o, version[o], "run_audit")] = 0
         /\ status[o] = "PDF_READY"
         /\ \E v \in Verdict :
              /\ v.order = o /\ v.version = version[o] /\ v.content = content[o]
              /\ CommitTask(w, StatusOf(v.decision), 1)
              /\ results' = results \cup {v}
<1>1. stage[w] = "working" /\ held[w].task.kind = "run_audit"
  BY DEF AuditDone
<1>2. Claimable(held[w].task) /\ completed[held[w].task] = 0
  BY <1>1 DEF ClaimsExclusive
<1>3. held[w].task \in Task /\ held[w].task.order \in Orders
  BY <1>1, HeldType
<1>4. held[w].task = TaskOf(held[w].task.order, version[held[w].task.order], "run_audit")
  BY <1>1, <1>2, <1>3, TaskParts DEF Claimable
<1> QED
  BY <1>1, <1>2, <1>3, <1>4 DEF AuditDone, AuditOutcomes, Claimable, ClaimFrom

(* Verdicts keep their jobs.                                               *)
LEMMA JobsNext ==
  ASSUME TypeOK, ClaimsExclusive, JobsBackVerdicts, [Next]_vars
  PROVE  JobsBackVerdicts'
<1>0. \A r \in results, kind \in Kind : TaskOf(r.order, r.version, kind) \in Task
  BY TaskOfType DEF TypeOK, Verdict
<1>1. CASE Quiet
  BY <1>1 DEF Quiet, JobsBackVerdicts
<1>2. ASSUME NEW w \in Workers, NEW m \in Message, Claim(w, m)
      PROVE  JobsBackVerdicts'
  BY <1>2 DEF Claim, orderVars, ledgerVars, JobsBackVerdicts
<1>3. ASSUME NEW o \in Orders, NEW s \in {"PDF_QUEUED", "FAILED_FINAL"}, NEW v, NEW x,
             Overwrite(o, s, v, x)
      PROVE  JobsBackVerdicts'
  BY <1>3 DEF Overwrite, TypeOK, JobsBackVerdicts
<1>4. ASSUME NEW w \in Workers, Commit(w)
      PROVE  JobsBackVerdicts'
  <2> DEFINE k == held[w].task
  <2>1. stage[w] = "working"
    BY <1>4, CommitEffect
  <2>2. PICK s \in PipelineStatus, jobs \in {0, 1} : CommitTask(w, s, jobs)
    BY <1>4, CommitEffect
  <2>3. /\ k \in Task /\ k.order \in Orders
        /\ status'[k.order] = s
        /\ \A o \in Orders : o # k.order => status'[o] = status[o]
        /\ \A t \in Task : completed'[t] \in Nat /\ completed'[t] >= completed[t]
        /\ completed'[k] = completed[k] + jobs
        /\ version' = version
    BY <2>1, <2>2, CommitRows
  <2>4. \A r \in results, kind \in Kind : completed'[TaskOf(r.order, r.version, kind)] > 0
    BY <1>0, <2>3 DEF JobsBackVerdicts, TypeOK
  <2>5. ASSUME NEW r \in results' \ results, NEW kind \in Kind
        PROVE  completed'[TaskOf(r.order, r.version, kind)] > 0
    <3>1. AuditDone(w)
      BY <1>4, <2>5
      DEF Commit, PdfFailed, PdfReady, PdfManual, AuditUnrouted
    <3>2. /\ r.order = k.order /\ r.version = version[k.order]
          /\ status[k.order] = "PDF_READY"
          /\ k = TaskOf(k.order, version[k.order], "run_audit")
      BY <2>5, <3>1, AuditRow
    <3>3. CASE kind = "process_pdf"
      <4>1. completed[TaskOf(k.order, version[k.order], "process_pdf")] > 0
        BY <2>3, <3>2 DEF JobsBackVerdicts
      <4>2. TaskOf(k.order, version[k.order], "process_pdf") \in Task
        BY <2>1, <2>3, <3>2, HeldType, TaskOfType DEF Kind, TaskOf
      <4> QED
        BY <2>3, <3>2, <3>3, <4>1, <4>2 DEF TypeOK
    <3>4. CASE kind = "run_audit"
      <4>1. CommitTask(w, "AI_COMPLETED", 1) \/ CommitTask(w, "MANUAL_REQUIRED", 1)
        BY <3>1 DEF AuditDone, StatusOf
      <4>2. completed'[k] = completed[k] + 1
        BY <2>1, <4>1, CommitRows
      <4> QED
        BY <2>3, <3>2, <3>4, <4>2 DEF TypeOK
    <3> QED
      BY <3>3, <3>4 DEF Kind
  <2>6. ASSUME NEW o \in Orders, status'[o] = "PDF_READY"
        PROVE  completed'[TaskOf(o, version'[o], "process_pdf")] > 0
    <3>1. CASE o = k.order
      <4>1. PdfReady(w)
        <5>1. CASE PdfFailed(w) \/ PdfManual(w) \/ AuditUnrouted(w) \/ AuditDone(w)
          <6>1. \E t \in {"PDF_FAILED", "MANUAL_REQUIRED", "AI_COMPLETED"}, n \in {0, 1} :
                  CommitTask(w, t, n)
            BY <5>1 DEF PdfFailed, PdfManual, AuditUnrouted, AuditDone, StatusOf
          <6> QED
            BY <2>1, <2>6, <3>1, <6>1, CommitRows
        <5> QED
          BY <1>4, <5>1 DEF Commit
      <4>2. CommitTask(w, "PDF_READY", 1) /\ k.kind = "process_pdf"
        BY <4>1 DEF PdfReady
      <4>3. completed'[k] = completed[k] + 1
        BY <2>1, <4>2, CommitRows
      <4>4. k = TaskOf(o, version[o], "process_pdf")
        BY <2>1, <2>3, <3>1, <4>2, TaskParts DEF ClaimsExclusive, Claimable
      <4> QED
        BY <2>3, <4>3, <4>4 DEF TypeOK
    <3>2. CASE o # k.order
      <4>1. completed[TaskOf(o, version[o], "process_pdf")] > 0 /\ status[o] = "PDF_READY"
        BY <2>3, <2>6, <3>2 DEF JobsBackVerdicts
      <4>2. version[o] \in Version
        BY <4>1 DEF TypeOK, PipelineStatus
      <4>3. TaskOf(o, version[o], "process_pdf") \in Task
        BY <4>2, TaskOfType DEF Kind
      <4> QED
        BY <2>3, <4>1, <4>3 DEF TypeOK
    <3> QED
      BY <3>1, <3>2
  <2> QED
    BY <2>4, <2>5, <2>6 DEF JobsBackVerdicts
<1> QED
  BY <1>1, <1>2, <1>3, <1>4, StepCases

(* A verdict is not stored twice: the audit that would add the second one  *)
(* found no COMPLETED job of its task, the first one left one.             *)
LEMMA FirstVerdict ==
  ASSUME TypeOK, ClaimsExclusive, JobsBackVerdicts,
         NEW w \in Workers, AuditDone(w), NEW r \in results
  PROVE  ~(r.order = held[w].task.order /\ r.version = version[r.order])
<1>1. completed[TaskOf(held[w].task.order, version[held[w].task.order], "run_audit")] = 0
  BY AuditRow
<1>2. completed[TaskOf(r.order, r.version, "run_audit")] > 0
  BY DEF JobsBackVerdicts, Kind
<1> QED
  BY <1>1, <1>2

LEMMA OneVerdictNext ==
  ASSUME TypeOK, ClaimsExclusive, JobsBackVerdicts, OneVerdictPerVersion, [Next]_vars
  PROVE  OneVerdictPerVersion'
<1>1. CASE results' = results
  BY <1>1 DEF OneVerdictPerVersion
<1>2. ASSUME NEW w \in Workers, AuditDone(w)
      PROVE  OneVerdictPerVersion'
  <2>1. PICK v \in Verdict :
          /\ v.order = held[w].task.order /\ v.version = version[held[w].task.order]
          /\ results' = results \cup {v}
    BY <1>2, AuditRow
  <2>2. \A r \in results : ~(r.order = v.order /\ r.version = v.version)
    BY <1>2, <2>1, FirstVerdict
  <2> QED
    BY <2>1, <2>2 DEF OneVerdictPerVersion
<1>3. results' = results \/ \E w \in Workers : AuditDone(w)
  BY StepCases
  DEF Quiet, Claim, Overwrite, Commit, PdfFailed, PdfReady, PdfManual, AuditUnrouted,
      ledgerVars
<1> QED
  BY <1>1, <1>2, <1>3

-----------------------------------------------------------------------------
(* What a status says of the verdicts, order by order.                     *)
Agrees(o) ==
  LET current == {r \in results : r.order = o /\ r.version = version[o]} IN
  /\ status[o] = "AI_COMPLETED" =>
       \E r \in current : r.content = content[o] /\ r.decision # "MANUAL_REVIEW"
  /\ status[o] = "MANUAL_REQUIRED" => \A r \in current : r.decision = "MANUAL_REVIEW"

LEMMA StatusNext ==
  ASSUME TypeOK, ClaimsExclusive, JobsBackVerdicts, StatusAgreesWithVerdict, [Next]_vars
  PROVE  StatusAgreesWithVerdict'
<1> SUFFICES ASSUME NEW o \in Orders PROVE Agrees(o)'
  BY DEF StatusAgreesWithVerdict, Agrees
<1>0. Agrees(o)
  BY DEF StatusAgreesWithVerdict, Agrees
<1>1. CASE UNCHANGED <<status, version, content, results>>
  BY <1>0, <1>1 DEF Agrees
<1>2. ASSUME NEW p \in Orders, NEW s \in {"PDF_QUEUED", "FAILED_FINAL"}, NEW v, NEW x,
             Overwrite(p, s, v, x)
      PROVE  Agrees(o)'
  <2>1. CASE o = p
    <3>1. status'[o] = s
      BY <1>2, <2>1 DEF Overwrite, TypeOK
    <3> QED
      BY <3>1 DEF Agrees
  <2>2. CASE o # p
    <3>1. /\ status'[o] = status[o] /\ version'[o] = version[o]
          /\ content'[o] = content[o] /\ results' = results
      BY <1>2, <2>2 DEF Overwrite, TypeOK
    <3> QED
      BY <1>0, <3>1 DEF Agrees
  <2> QED
    BY <2>1, <2>2
<1>3. ASSUME NEW w \in Workers, Commit(w)
      PROVE  Agrees(o)'
  <2> DEFINE k == held[w].task
  <2>1. stage[w] = "working"
    BY <1>3, CommitEffect
  <2>2. PICK s \in PipelineStatus, jobs \in {0, 1} : CommitTask(w, s, jobs)
    BY <1>3, CommitEffect
  <2>3. /\ k \in Task /\ k.order \in Orders
        /\ status'[k.order] = s
        /\ \A p \in Orders : p # k.order => status'[p] = status[p]
        /\ version' = version /\ content' = content
    BY <2>1, <2>2, CommitRows
  <2>4. k = TaskOf(k.order, version[k.order], k.kind) /\ completed[k] = 0
    BY <2>1, <2>3, TaskParts DEF ClaimsExclusive, Claimable
  <2>5. \A r \in results : ~(r.order = k.order /\ r.version = version[k.order])
    <3>1. \A r \in results : completed[TaskOf(r.order, r.version, k.kind)] > 0
      BY <2>1, HeldType DEF JobsBackVerdicts
    <3> QED
      BY <2>4, <3>1
  <2> HIDE DEF k
  <2>6. CASE AuditDone(w)
    <3>1. PICK v \in Verdict :
            /\ v.order = k.order /\ v.version = version[k.order]
            /\ v.content = content[k.order]
            /\ CommitTask(w, StatusOf(v.decision), 1)
            /\ results' = results \cup {v}
      BY <2>6, AuditRow DEF k
    <3>2. status'[k.order] = StatusOf(v.decision)
      BY <2>1, <3>1, CommitRows DEF k
    <3>3. CASE o = k.order
      BY <2>3, <2>5, <3>1, <3>2, <3>3 DEF Agrees, StatusOf
    <3>4. CASE o # k.order
      BY <1>0, <2>3, <3>1, <3>4 DEF Agrees
    <3> QED
      BY <3>3, <3>4
  <2>7. CASE PdfFailed(w) \/ PdfReady(w) \/ PdfManual(w) \/ AuditUnrouted(w)
    <3>1. results' = results
      BY <2>7 DEF PdfFailed, PdfReady, PdfManual, AuditUnrouted
    <3>2. status'[k.order] # "AI_COMPLETED"
      <4>1. \E t \in {"PDF_FAILED", "PDF_READY", "MANUAL_REQUIRED"}, n \in {0, 1} :
              CommitTask(w, t, n)
        BY <2>7 DEF PdfFailed, PdfReady, PdfManual, AuditUnrouted
      <4> QED
        BY <2>1, <4>1, CommitRows DEF k
    <3>3. CASE o = k.order
      BY <2>3, <2>5, <3>1, <3>2, <3>3 DEF Agrees
    <3>4. CASE o # k.order
      BY <1>0, <2>3, <3>1, <3>4 DEF Agrees
    <3> QED
      BY <3>3, <3>4
  <2> QED
    BY <1>3, <2>6, <2>7 DEF Commit
<1>4. ASSUME NEW w \in Workers, NEW m \in Message, Claim(w, m)
      PROVE  UNCHANGED <<status, version, content, results>>
  BY <1>4 DEF Claim, orderVars, ledgerVars
<1>5. Quiet => UNCHANGED <<status, version, content, results>>
  BY DEF Quiet
<1> QED
  BY <1>1, <1>2, <1>3, <1>4, <1>5, StepCases

-----------------------------------------------------------------------------
(* The inductive invariant: each part is inductive relative to the ones    *)
(* before it.                                                              *)
SafetyInv ==
  /\ TypeOK
  /\ ClaimsExclusive
  /\ JobsBackVerdicts
  /\ OneVerdictPerVersion
  /\ StatusAgreesWithVerdict

LEMMA SafetyInit == Init => SafetyInv
<1> SUFFICES ASSUME Init PROVE SafetyInv
  OBVIOUS
<1>1. TypeOK
  BY TypeInit
<1>2. /\ results = {}
      /\ \A w \in Workers : stage[w] = "idle"
      /\ \A o \in Orders : status[o] \in {"PDF_QUEUED", "ABSENT"}
  BY DEF Init
<1> QED
  BY <1>1, <1>2
  DEF SafetyInv, ClaimsExclusive, JobsBackVerdicts, OneVerdictPerVersion,
      StatusAgreesWithVerdict

LEMMA SafetyNext == SafetyInv /\ [Next]_vars => SafetyInv'
BY TypeNext, ClaimsNext, JobsNext, OneVerdictNext, StatusNext DEF SafetyInv

LEMMA Safety == Spec => []SafetyInv
<1> QED
  BY SafetyInit, SafetyNext, PTL DEF Spec

(* A worker at work has its order for itself, and for the first time.      *)
THEOREM Exclusive == Spec => []ClaimsExclusive
<1>1. SafetyInv => ClaimsExclusive
  BY DEF SafetyInv
<1> QED
  BY <1>1, Safety, PTL

(* Every stored verdict has both its COMPLETED jobs.                       *)
THEOREM Backed == Spec => []JobsBackVerdicts
<1>1. SafetyInv => JobsBackVerdicts
  BY DEF SafetyInv
<1> QED
  BY <1>1, Safety, PTL

(* No version of an order ever has two audit results.                      *)
THEOREM OneVerdict == Spec => []OneVerdictPerVersion
<1>1. SafetyInv => OneVerdictPerVersion
  BY DEF SafetyInv
<1> QED
  BY <1>1, Safety, PTL

(* The status an order shows agrees with the verdict it has.               *)
THEOREM StatusAgrees == Spec => []StatusAgreesWithVerdict
<1>1. SafetyInv => StatusAgreesWithVerdict
  BY DEF SafetyInv
<1> QED
  BY <1>1, Safety, PTL

-----------------------------------------------------------------------------
(* One step of OnlyCurrentVersionRecorded.                                 *)
RecordsCurrent ==
  /\ \A k \in Task : completed'[k] # completed[k] => k.version = version[k.order]
  /\ \A r \in results' \ results :
       r.version = version[r.order] /\ r.content = content[r.order]

LEMMA RecordsStep ==
  ASSUME TypeOK, ClaimsExclusive, [Next]_vars
  PROVE  RecordsCurrent
<1>1. CASE UNCHANGED <<completed, results>>
  BY <1>1 DEF RecordsCurrent
<1>2. ASSUME NEW w \in Workers, Commit(w)
      PROVE  RecordsCurrent
  <2>1. stage[w] = "working"
    BY <1>2, CommitEffect
  <2>2. held[w].task.version = version[held[w].task.order]
    BY <2>1 DEF ClaimsExclusive, Claimable
  <2>3. \A k \in Task : k # held[w].task => completed'[k] = completed[k]
    <3>1. PICK s \in PipelineStatus, jobs \in {0, 1} : CommitTask(w, s, jobs)
      BY <1>2, CommitEffect
    <3> QED
      BY <3>1 DEF CommitTask, TypeOK
  <2>4. ASSUME NEW r \in results' \ results
        PROVE  r.version = version[r.order] /\ r.content = content[r.order]
    <3>1. AuditDone(w)
      BY <1>2, <2>4 DEF Commit, PdfFailed, PdfReady, PdfManual, AuditUnrouted
    <3> QED
      BY <2>4, <3>1, AuditRow
  <2> QED
    BY <2>2, <2>3, <2>4 DEF RecordsCurrent
<1>3. UNCHANGED <<completed, results>> \/ \E w \in Workers : Commit(w)
  BY StepCases DEF Quiet, Claim, Overwrite, ledgerVars
<1> QED
  BY <1>1, <1>2, <1>3

(* Jobs and results are only ever recorded for the current version.        *)
THEOREM OnlyCurrent == Spec => OnlyCurrentVersionRecorded
<1>1. SafetyInv /\ [Next]_vars => [RecordsCurrent]_vars
  BY RecordsStep DEF SafetyInv
<1>2. Spec => [][RecordsCurrent]_vars
  BY <1>1, Safety, PTL DEF Spec
<1> QED
  BY <1>2, PTL DEF OnlyCurrentVersionRecorded, RecordsCurrent

-----------------------------------------------------------------------------
(* Every step of the pipeline is a step of the ledger or a stutter: only   *)
(* overwrites submit, only the commit of an audit judges.                  *)
LEMMA LedgerInit == Init => Ledger!Init
<1> SUFFICES ASSUME Init PROVE Ledger!Init
  OBVIOUS
<1>1. TypeOK
  BY TypeInit
<1> QED
  BY <1>1 DEF TypeOK, Init, Ledger!Init

LEMMA LedgerStep ==
  ASSUME TypeOK, ClaimsExclusive, JobsBackVerdicts, [Next]_vars
  PROVE  [Ledger!Next]_(Ledger!vars)
<1>1. CASE UNCHANGED <<version, content, results>>
  BY <1>1 DEF Ledger!vars
<1>2. ASSUME NEW o \in Orders, NEW s, NEW v \in Version \cup {0},
             NEW x \in Contents \cup {None}, Overwrite(o, s, v, x)
      PROVE  Ledger!Next
  <2>1. Ledger!Submit(o)
    BY <1>2 DEF Overwrite, Ledger!Submit
  <2> QED
    BY <2>1 DEF Ledger!Next
<1>3. ASSUME NEW w \in Workers, AuditDone(w)
      PROVE  Ledger!Next
  <2> DEFINE o == held[w].task.order
  <2>1. PICK v \in Verdict :
          /\ v.order = o /\ v.version = version[o] /\ v.content = content[o]
          /\ CommitTask(w, StatusOf(v.decision), 1)
          /\ results' = results \cup {v}
    BY <1>3, AuditRow
  <2>2. o \in Orders
    BY <1>3, AuditRow
  <2>3. v = [order |-> o, version |-> version[o], content |-> content[o],
             decision |-> v.decision]
    BY <2>1 DEF Verdict
  <2>4. ~Ledger!Judged(o, version[o])
    BY <1>3, FirstVerdict DEF Ledger!Judged
  <2>5. version' = version /\ content' = content
    BY <2>1 DEF CommitTask
  <2>6. v.decision \in Decision
    BY DEF Verdict
  <2> HIDE DEF o
  <2>7. Ledger!Judge(o, v.decision)
    BY <2>1, <2>3, <2>4, <2>5 DEF Ledger!Judge
  <2> QED
    BY <2>2, <2>6, <2>7 DEF Ledger!Next
<1>4. ASSUME NEW w \in Workers,
             PdfFailed(w) \/ PdfReady(w) \/ PdfManual(w) \/ AuditUnrouted(w)
      PROVE  UNCHANGED <<version, content, results>>
  BY <1>4 DEF PdfFailed, PdfReady, PdfManual, AuditUnrouted, CommitTask
<1>5. \/ UNCHANGED <<version, content, results>>
      \/ \E o \in Orders, v \in Version \cup {0}, x \in Contents \cup {None},
            s \in {"PDF_QUEUED", "FAILED_FINAL"} : Overwrite(o, s, v, x)
      \/ \E w \in Workers : Commit(w)
  BY StepCases DEF Quiet, Claim, orderVars, ledgerVars
<1> QED
  BY <1>1, <1>2, <1>3, <1>4, <1>5 DEF Commit

(* The pipeline, whatever its queue, workers and requests do, implements   *)
(* the write-once ledger.                                                  *)
THEOREM Refinement == Spec => LedgerSpec
<1>1. SafetyInv /\ [Next]_vars => [Ledger!Next]_(Ledger!vars)
  BY LedgerStep DEF SafetyInv
<1>2. Spec => Ledger!Init /\ [][Ledger!Next]_(Ledger!vars)
  BY <1>1, LedgerInit, Safety, PTL DEF Spec
<1> QED
  BY <1>2 DEF LedgerSpec, Ledger!Spec

=============================================================================
