----------------------------- MODULE OrderFiles -----------------------------
(***************************************************************************)
(* The files of orders: the order_files rows an ingest makes, what         *)
(* attempts of _run_pdf_task turn them into (download, deduplication by    *)
(* sha256, upload to MinIO, parse), and the clear request, which deletes   *)
(* orders while workers are busy with them.                                *)
(*                                                                         *)
(* status, version, files and stored are COMMITTED state.  A worker that   *)
(* claimed an order holds the order's row lock and keeps its own row       *)
(* changes in task[w] until it commits; the clear runs its DELETE          *)
(* statements one at a time in a transaction of its own.  How tasks reach  *)
(* workers, and what becomes of an order that is PDF_READY or whose task   *)
(* is given up, touch no file and are Pipeline's subject: here a queued    *)
(* order can be claimed, and PDF_READY is where its files are handed over. *)
(***************************************************************************)
EXTENDS Naturals, FiniteSets, StateMachine

CONSTANTS
  Orders,       \* task_order_ids
  Workers,      \* Celery worker processes
  File,         \* entries a pdf_files list can have
  Requests,     \* the pdf_files lists an ingest of each order can have
  Pdf,          \* contents of PDF files, told apart by their sha256
  ParseStatus,  \* what _parse_status_from_result makes of each content
  None,         \* no sha256, no task
  Updated,      \* bound: orders whose detail changes while they exist
  MaxVersion,   \* bound: order versions
  MaxRequests,  \* bound: API requests in a behaviour
  MaxFaults     \* bound: files and tasks that raise

Parsed == {"READY", "OCR_REQUIRED", "FAILED"}

ASSUME FilesAssumption ==
  /\ Requests \in [Orders -> SUBSET SUBSET File]
  /\ ParseStatus \in [Pdf -> Parsed]
  /\ None \notin Pdf
  /\ MaxVersion \in Nat \ {0} /\ MaxRequests \in Nat /\ MaxFaults \in Nat

(* An order_files row.  Two rows of one entry differ in what became of it. *)
Row == [order : Orders, version : 1 .. MaxVersion, file : File,
        parse_status : Parsed \cup {"PENDING", "SKIPPED"},
        sha256 : Pdf \cup {None}]

(* A worker's attempt: the rows it still has to process, those it inserted *)
(* and deleted, whether a file raised, whether it waits for a row lock.    *)
Task == [order : Orders, todo : SUBSET Row, made : SUBSET Row,
         gone : SUBSET Row, raised : BOOLEAN, blocked : BOOLEAN]

ASSUME NoTask == None \notin Task

VARIABLES
  status,    \* orders.pipeline_status, "ABSENT" where there is no such row
  version,   \* orders.order_version
  sent,      \* pdf_files of the ingest that made this version
  files,     \* order_files
  stored,    \* contents MinIO holds
  task,      \* the attempt each worker is in the middle of
  clear,     \* the clear request: the orders in its scope, the order_files
             \* it has still to delete and those it deleted already, the
             \* orders it deleted already
  requests,  \* requests so far (bounded by MaxRequests)
  faults     \* faults so far (bounded by MaxFaults)

orderVars == <<status, version, sent>>
vars == <<status, version, sent, files, stored, task, clear, requests, faults>>

NoClear == [orders |-> {}, rows |-> {}, doomed |-> {}, locked |-> {}]

-----------------------------------------------------------------------------
(* Rows and locks *)

Present(o) == status[o] # "ABSENT"

RowsOf(o) == {r \in files : r.order = o /\ r.version = version[o]}

OldRows(o) == {r \in files : r.order = o /\ r.version < version[o]}

Working(w, o) == task[w] # None /\ task[w].order = o

(* MUTANT of Locked: the claim is committed at once, as a first step.      *)
LockedByClear(o) == o \in clear.locked

(* The row lock of the claiming UPDATE, or of the DELETE of the clear.     *)
Locked(o) == o \in clear.locked \/ \E w \in Workers : Working(w, o)

PendingRow(o, v, f) ==
  [order |-> o, version |-> v, file |-> f, parse_status |-> "PENDING", sha256 |-> None]

(* MUTANT of ToProcess: pending rows of earlier versions are read too.     *)
ToProcessAnyVersion(o) ==
  LET pending == {r \in files : r.order = o /\ r.parse_status = "PENDING"}
  IN  IF pending # {} THEN pending ELSE RowsOf(o)

(* _get_pending_files, or _get_order_pdf_files where nothing is pending.   *)
ToProcess(o) ==
  LET pending == {r \in RowsOf(o) : r.parse_status = "PENDING"}
  IN  IF pending # {} THEN pending ELSE RowsOf(o)

(* The order_files a worker's queries see: READ COMMITTED and its own.     *)
Visible(w) == (files \ task[w].gone) \cup task[w].made

(* The processes start on the database as it was left: some orders were    *)
(* ingested and wait, the others are unknown.                              *)
Init ==
  \E known \in SUBSET Orders :
    /\ status = [o \in Orders |-> IF o \in known THEN "PDF_QUEUED" ELSE "ABSENT"]
    /\ version = [o \in Orders |-> IF o \in known THEN 1 ELSE 0]
    /\ sent \in [Orders -> SUBSET File]
    /\ \A o \in Orders : IF o \in known THEN sent[o] \in Requests[o] ELSE sent[o] = {}
    /\ files = UNION {{PendingRow(o, 1, f) : f \in sent[o]} : o \in known}
    /\ stored = {}
    /\ task = [w \in Workers |-> None]
    /\ clear = NoClear
    /\ requests = 0
    /\ faults = 0

-----------------------------------------------------------------------------
Request ==
  /\ requests < MaxRequests
  /\ requests' = requests + 1

Fault ==
  /\ faults < MaxFaults
  /\ faults' = faults + 1

-----------------------------------------------------------------------------
(* API requests, each a single step: what overlapping ones do to a version *)
(* is Pipeline's subject, and two that share one also share its rows.  An  *)
(* ingest with an unchanged detail_hash writes nothing this module keeps.  *)

(* MUTANT of Ingest: the rows are made before the new version is read back. *)
IngestOldVersion(o, entries) ==
  /\ Request
  /\ ~Locked(o)
  /\ Present(o) => o \in Updated
  /\ version[o] < MaxVersion
  /\ version' = [version EXCEPT ![o] = @ + 1]
  /\ status' = [status EXCEPT ![o] = "PDF_QUEUED"]
  /\ sent' = [sent EXCEPT ![o] = entries]
  /\ files' = files \cup {PendingRow(o, version[o], f) : f \in entries}
  /\ UNCHANGED <<stored, task, clear, faults>>

(* A new order, or another detail_hash (any part of the detail can differ, *)
(* the files may be the same): the next version, with a PENDING row for    *)
(* each entry.                                                             *)
Ingest(o, entries) ==
  /\ Request
  /\ ~Locked(o)
  /\ Present(o) => o \in Updated
  /\ version[o] < MaxVersion
  /\ version' = [version EXCEPT ![o] = @ + 1]
  /\ status' = [status EXCEPT ![o] = "PDF_QUEUED"]
  /\ sent' = [sent EXCEPT ![o] = entries]
  /\ files' = files \cup {PendingRow(o, version[o] + 1, f) : f \in entries}
  /\ UNCHANGED <<stored, task, clear, faults>>

(* MUTANT of Retry: the entries are saved again, as an ingest does.        *)
RetrySavesFiles(o) ==
  /\ Request
  /\ ~Locked(o)
  /\ Present(o) /\ CanTransition(status[o], "RECEIVED")
  /\ status' = [status EXCEPT ![o] = "PDF_QUEUED"]
  /\ files' = files \cup {PendingRow(o, version[o], f) : f \in sent[o]}
  /\ UNCHANGED <<version, sent, stored, task, clear, faults>>

(* retry_order: _enqueue_order without pdf_files makes no row.             *)
Retry(o) ==
  /\ Request
  /\ ~Locked(o)
  /\ Present(o) /\ CanTransition(status[o], "RECEIVED")
  /\ status' = [status EXCEPT ![o] = "PDF_QUEUED"]
  /\ UNCHANGED <<version, sent, files, stored, task, clear, faults>>

-----------------------------------------------------------------------------
(* An attempt of _run_pdf_task *)

Claim(w, o) ==
  /\ task[w] = None
  /\ status[o] = "PDF_QUEUED"
  /\ ~Locked(o)
  /\ task' = [task EXCEPT ![w] =
       [order |-> o, todo |-> ToProcess(o), made |-> {}, gone |-> {},
        raised |-> FALSE, blocked |-> FALSE]]
  /\ UNCHANGED <<orderVars, files, stored, clear, requests, faults>>

(* The next file is one of those that are left, in no order.               *)
Processes(w, r) == ~task[w].blocked /\ r \in task[w].todo

(* No URL, or the download or the upload raises: the row stays as it is.   *)
FileRaises(w, r) ==
  /\ Fault
  /\ Processes(w, r)
  /\ task' = [task EXCEPT ![w].todo = @ \ {r}, ![w].raised = TRUE]
  /\ UNCHANGED <<orderVars, files, stored, clear, requests>>

(* The row that process_pdf_for_order makes takes the place of the row     *)
(* that was read; the delete waits where the clear deleted that row.       *)
Replace(w, r, parse_status, sha256) ==
  /\ r \notin clear.doomed
  /\ task' = [task EXCEPT
       ![w].todo = @ \ {r},
       ![w].gone = @ \cup {r},
       ![w].made = @ \cup {[order |-> r.order, version |-> version[r.order],
                            file |-> r.file, parse_status |-> parse_status,
                            sha256 |-> sha256]}]

(* What was downloaded is not a PDF.                                       *)
NotPdf(w, r) ==
  /\ Processes(w, r)
  /\ Replace(w, r, "SKIPPED", None)
  /\ UNCHANGED <<orderVars, files, stored, clear, requests, faults>>

(* MUTANT of Dedup: a content that is known counts as processed.           *)
DedupReady(w, r, known) ==
  /\ Processes(w, r)
  /\ known \in Visible(w) /\ known.sha256 # None
  /\ Replace(w, r, "READY", known.sha256)
  /\ UNCHANGED <<orderVars, files, stored, clear, requests, faults>>

(* A row with the sha256 of the download exists, whatever its order: its   *)
(* parse is taken over, its error is not.                                  *)
Dedup(w, r, known) ==
  /\ Processes(w, r)
  /\ known \in Visible(w) /\ known.sha256 # None
  /\ Replace(w, r, known.parse_status, known.sha256)
  /\ UNCHANGED <<orderVars, files, stored, clear, requests, faults>>

(* MUTANT of Upload: a failed upload is ignored.                           *)
UploadUnchecked(pdf) == stored' \in {stored, stored \cup {pdf}}

(* minio_storage.upload, which overwrites the object where it exists.      *)
Upload(pdf) == stored' = stored \cup {pdf}

(* A content no visible row has: uploaded, parsed, then recorded.  (Nobody *)
(* sees the row before the commit, so these are one step.)                 *)
ParseNew(w, r, pdf) ==
  /\ Processes(w, r)
  /\ \A known \in Visible(w) : known.sha256 # pdf
  /\ Upload(pdf)
  /\ Replace(w, r, ParseStatus[pdf], pdf)
  /\ UNCHANGED <<orderVars, files, clear, requests, faults>>

(* The delete of the row that was read waits for the clear's transaction.  *)
Block(w, r) ==
  /\ Processes(w, r)
  /\ r \in clear.doomed
  /\ task' = [task EXCEPT ![w].blocked = TRUE]
  /\ UNCHANGED <<orderVars, files, stored, clear, requests, faults>>

(* MUTANT of Result: the files that were parsed are counted first.         *)
ResultReadyFirst(t) ==
  LET parsed == {r.parse_status : r \in t.made} IN
  CASE "READY" \in parsed -> "PDF_READY"
    [] OTHER -> IF t.raised \/ parsed \subseteq {"FAILED"} THEN "PDF_FAILED"
                ELSE "MANUAL_REQUIRED"

(* any_failed first, then processed_count, then skipped_or_ocr; an order   *)
(* without files failed.                                                   *)
Result(t) ==
  LET parsed == {r.parse_status : r \in t.made} IN
  IF t.raised \/ "FAILED" \in parsed \/ parsed = {} THEN "PDF_FAILED"
  ELSE IF "READY" \in parsed THEN "PDF_READY"
  ELSE "MANUAL_REQUIRED"

(* The only commit of the attempt, whether files failed or not.  A DELETE  *)
(* of the clear that was to come to the rows this removes skips them, and  *)
(* does not see those that take their place.                               *)
Finish(w) ==
  /\ task[w] # None /\ ~task[w].blocked /\ task[w].todo = {}
  /\ status' = [status EXCEPT ![task[w].order] = Result(task[w])]
  /\ files' = Visible(w)
  /\ task' = [task EXCEPT ![w] = None]
  /\ clear' = [clear EXCEPT !.rows = @ \ task[w].gone]
  /\ UNCHANGED <<version, sent, stored, requests, faults>>

(* An exception outside the loop over the files, or the worker dies: the   *)
(* rows are rolled back, the uploads are not.                              *)
TaskRaises(w) ==
  /\ Fault
  /\ task[w] # None
  /\ task' = [task EXCEPT ![w] = None]
  /\ UNCHANGED <<orderVars, files, stored, clear, requests>>

-----------------------------------------------------------------------------
(* The clear request (orders.clear_orders, bulk_delete_by_owner), one at a *)
(* time.                                                                   *)

(* SELECT of the ids in scope, and the rows DELETE FROM order_files finds  *)
(* when it starts.  (What happens between the two might happen before, and *)
(* the rows of earlier versions, which no worker takes, be deleted first.) *)
ClearBegin(scope) ==
  /\ clear = NoClear
  /\ Request
  /\ scope # {} /\ \A o \in scope : Present(o)
  /\ clear' = [orders |-> scope, rows |-> UNION {RowsOf(o) : o \in scope},
               doomed |-> UNION {OldRows(o) : o \in scope}, locked |-> {}]
  /\ UNCHANGED <<orderVars, files, stored, task, faults>>

(* It deletes one row after the other, in any order, and keeps them locked *)
(* while it waits for a worker that is deleting the next one.              *)
ClearFile(r) ==
  /\ r \in clear.rows
  /\ \A w \in Workers : task[w] # None => r \notin task[w].gone
  /\ clear' = [clear EXCEPT !.rows = @ \ {r}, !.doomed = @ \cup {r}]
  /\ UNCHANGED <<orderVars, files, stored, task, requests, faults>>

(* MUTANT of Cascade: only the rows DELETE FROM order_files took disappear. *)
DoomedOnly(scope) == files \ clear.doomed

(* ON DELETE CASCADE: rows that were committed after the DELETE of         *)
(* order_files go with their order.                                        *)
Cascade(scope) == {r \in files : r.order \notin scope}

(* DELETE FROM orders, row by row: each waits for the lock of a worker.    *)
ClearLock(o) ==
  /\ o \in clear.orders
  /\ clear.rows = {}
  /\ ~Locked(o)
  /\ clear' = [clear EXCEPT !.locked = @ \cup {o}]
  /\ UNCHANGED <<orderVars, files, stored, task, requests, faults>>

(* The last row is deleted; commit.                                        *)
ClearCommit ==
  /\ clear # NoClear /\ clear.locked = clear.orders
  /\ status' = [o \in Orders |-> IF o \in clear.orders THEN "ABSENT" ELSE status[o]]
  /\ version' = [o \in Orders |-> IF o \in clear.orders THEN 0 ELSE version[o]]
  /\ sent' = [o \in Orders |-> IF o \in clear.orders THEN {} ELSE sent[o]]
  /\ files' = Cascade(clear.orders)
  /\ clear' = NoClear
  /\ UNCHANGED <<stored, task, requests, faults>>

(* The statement the clear is at comes to a row that the worker holds: a   *)
(* file row it is replacing, the row of its order.                         *)
ClearNeeds(w) ==
  \/ task[w].gone \cap clear.rows # {}
  \/ clear.rows = {} /\ task[w].order \in clear.orders \ clear.locked

Deadlocked(w) == task[w] # None /\ task[w].blocked /\ ClearNeeds(w)

Unblocked ==
  [w \in Workers |->
    IF task[w] = None THEN None ELSE [task[w] EXCEPT !.blocked = FALSE]]

(* MUTANT of ClearAborted: the transaction is tried again at once.         *)
ClearAgain(w) ==
  /\ Deadlocked(w)
  /\ clear' = [clear EXCEPT !.rows = {r \in files : r.order \in clear.orders},
                            !.doomed = {}, !.locked = {}]
  /\ task' = Unblocked
  /\ UNCHANGED <<orderVars, files, stored, requests, faults>>

(* A blocked worker waits for the clear, and the clear for the worker:     *)
(* PostgreSQL fails one of the two statements, and that side rolls back;   *)
(* the rows the clear had deleted are there again for every worker.        *)
ClearAborted(w) ==
  /\ Deadlocked(w)
  /\ clear' = NoClear
  /\ task' = Unblocked
  /\ UNCHANGED <<orderVars, files, stored, requests, faults>>

WorkerAborted(w) ==
  /\ Deadlocked(w)
  /\ task' = [task EXCEPT ![w] = None]
  /\ UNCHANGED <<orderVars, files, stored, clear, requests, faults>>

-----------------------------------------------------------------------------
ProcessFile(w) ==
  /\ task[w] # None
  /\ \E r \in task[w].todo :
       \/ FileRaises(w, r)
       \/ NotPdf(w, r)
       \/ \E known \in Visible(w) : Dedup(w, r, known)
       \/ \E pdf \in Pdf : ParseNew(w, r, pdf)
       \/ Block(w, r)

Work(w) == ProcessFile(w) \/ Finish(w)

(* The clear's next statement or the next row of one.                      *)
ClearGoesOn ==
  \/ \E r \in clear.rows : ClearFile(r)
  \/ \E o \in clear.orders : ClearLock(o)
  \/ ClearCommit

Next ==
  \/ \E o \in Orders : \E entries \in Requests[o] : Ingest(o, entries)
  \/ \E o \in Orders : Retry(o)
  \/ \E w \in Workers, o \in Orders : Claim(w, o)
  \/ \E w \in Workers :
       Work(w) \/ TaskRaises(w) \/ ClearAborted(w) \/ WorkerAborted(w)
  \/ \E scope \in SUBSET Orders : ClearBegin(scope)
  \/ ClearGoesOn

Spec == Init /\ [][Next]_vars

(* A worker goes on with its attempt: every download, upload and statement *)
(* ends or times out.  A DELETE of the clear queues for the row it needs   *)
(* and is granted it before the statements that come after it; a deadlock  *)
(* is found.                                                               *)
FairSpec ==
  /\ Spec
  /\ \A w \in Workers : WF_vars(Work(w))
  /\ WF_vars(\E w \in Workers : ClearAborted(w) \/ WorkerAborted(w))
  /\ SF_vars(ClearGoesOn)

-----------------------------------------------------------------------------
(* Properties *)

FilesTypeOK ==
  /\ status \in [Orders -> {"ABSENT", "PDF_QUEUED", "PDF_READY", "PDF_FAILED",
                            "MANUAL_REQUIRED"}]
  /\ version \in [Orders -> 0 .. MaxVersion]
  /\ sent \in [Orders -> SUBSET File]
  /\ files \subseteq Row
  /\ stored \subseteq Pdf
  /\ task \in [Workers -> Task \cup {None}]
  /\ clear \in [orders : SUBSET Orders, rows : SUBSET Row,
                doomed : SUBSET Row, locked : SUBSET Orders]
  /\ requests \in 0 .. MaxRequests
  /\ faults \in 0 .. MaxFaults

(* Whatever attempts, retries, crashes and deduplication did to them, the  *)
(* rows of an order's version are one for each entry of the ingest that    *)
(* made it: the retry reads its work from these rows alone.                *)
RowsFollowIngest ==
  \A o \in Orders : Present(o) =>
    /\ {r.file : r \in RowsOf(o)} = sent[o]
    /\ \A r1, r2 \in RowsOf(o) : r1.file = r2.file => r1 = r2

(* An order is audited only when some file of its version was parsed to    *)
(* text and none was left unprocessed.                                     *)
ReadyHasText ==
  \A o \in Orders : status[o] = "PDF_READY" =>
    /\ \E r \in RowsOf(o) : r.parse_status = "READY"
    /\ \A r \in RowsOf(o) : r.parse_status # "PENDING"

(* A row that names an object names one that MinIO holds, also after tasks *)
(* that died between upload and commit: rows of other orders, which never  *)
(* upload, take their storage_key from it.                                 *)
StoredBeforeReferenced ==
  \A r \in files : r.sha256 # None => r.sha256 \in stored

(* A row's parse status is that of its content, through any number of      *)
(* deduplications against each other.                                      *)
ParsedAsContent ==
  \A r \in files :
    IF r.sha256 = None THEN r.parse_status \in {"PENDING", "SKIPPED"}
    ELSE r.parse_status = ParseStatus[r.sha256]

(* When the clear is over no row and no worker is left with an order that  *)
(* is gone, although workers committed rows between its statements.        *)
NothingOutlivesClear ==
  /\ \A r \in files : Present(r.order)
  /\ \A o \in Orders : Locked(o) => Present(o)

(* The clear never commits under a worker whose row it has deleted: a      *)
(* worker waits only for a clear that has yet to get the row of the        *)
(* worker's order, although it may be at other rows still, so that the     *)
(* wait ends when one of the two is aborted and never with a commit.       *)
BlockedHoldsOrder ==
  \A w \in Workers :
    task[w] # None /\ task[w].blocked =>
      /\ task[w].order \in clear.orders \ clear.locked
      /\ task[w].todo \cap clear.doomed # {}

(* The rows of earlier versions stay as they are while their order exists. *)
OldVersionsFrozen ==
  [][\A o \in Orders : Present(o) /\ status'[o] # "ABSENT" =>
       OldRows(o) = {r \in files' : r.order = o /\ r.version < version[o]}]_vars

(* What became of an entry of an order, as the order's rows say.           *)
OutcomeOf(o, f) ==
  LET r == CHOOSE x \in RowsOf(o) : x.file = f
  IN  [parse_status |-> r.parse_status, sha256 |-> r.sha256]

BoardOf(o) == [f \in sent[o] |-> OutcomeOf(o, f)]

(* Attempts and clears are as if each were made in one step: the rows      *)
(* implement the board of FileBoard, whatever workers do between the claim *)
(* and the commit, and the clear between its statements.                   *)
Board == INSTANCE FileBoard WITH board <- [o \in Orders |-> BoardOf(o)]

BoardSpec == Board!Spec

(* A clear request ends, committed or aborted, although it waits for       *)
(* workers while it keeps rows that they may wait for: first for the files *)
(* that each is replacing, then for their orders.                          *)
ClearEnds == (clear # NoClear) ~> (clear = NoClear)

(* Not so: a retry reads the PENDING rows alone, so that a file that       *)
(* failed to parse in an earlier attempt no longer fails the order.        *)
NoneFailedWhenReady ==
  \A o \in Orders : status[o] = "PDF_READY" =>
    \A r \in RowsOf(o) : r.parse_status # "FAILED"

=============================================================================
