-------------------------- MODULE OrderFilesProofs --------------------------
(***************************************************************************)
(* Theorems about the files of orders, for every set of orders, workers,   *)
(* entries and contents and every value of the bounds.                     *)
(***************************************************************************)
EXTENDS OrderFiles, TLAPS

USE FilesAssumption, NoTask

-----------------------------------------------------------------------------
(* The inductive invariant *)

(* An attempt owns its order: the rows it has still to process and those   *)
(* it deleted are rows of the order's version, it made one row for each it *)
(* deleted, and unless a file raised it leaves no row PENDING.             *)
AttemptRight(w) ==
  LET t == task[w] IN
  /\ status[t.order] = "PDF_QUEUED"
  /\ t.order \notin clear.locked
  /\ t.todo \subseteq RowsOf(t.order)
  /\ t.gone \subseteq RowsOf(t.order)
  /\ t.todo \cap t.gone = {}
  /\ \A m \in t.made : /\ m.order = t.order /\ m.version = version[t.order]
                       /\ m.parse_status # "PENDING"
                       /\ \E g \in t.gone : g.file = m.file
  /\ \A g \in t.gone : \E m \in t.made : m.file = g.file
  /\ \A m1, m2 \in t.made : m1.file = m2.file => m1 = m2
  /\ t.raised \/ \A r \in RowsOf(t.order) :
                   r.parse_status = "PENDING" => r \in t.todo \cup t.gone

(* Rows agree with the object store and the parser.                        *)
ContentRight(rows) ==
  \A r \in rows :
    IF r.sha256 = None THEN r.parse_status \in {"PENDING", "SKIPPED"}
    ELSE r.sha256 \in stored /\ r.parse_status = ParseStatus[r.sha256]

RowsBelong ==
  \A r \in files : Present(r.order) /\ r.version =< version[r.order]

OneAttempt ==
  \A w1, w2 \in Workers :
    task[w1] # None /\ task[w2] # None /\ task[w1].order = task[w2].order => w1 = w2

ClearRight ==
  /\ clear.locked \subseteq clear.orders
  /\ \A o \in clear.orders : Present(o)

FilesInv ==
  /\ FilesTypeOK
  /\ \A o \in Orders : Present(o) => version[o] # 0
  /\ RowsBelong
  /\ RowsFollowIngest
  /\ ReadyHasText
  /\ ContentRight(files)
  /\ \A w \in Workers : task[w] # None => AttemptRight(w) /\ ContentRight(task[w].made)
  /\ OneAttempt
  /\ ClearRight

-----------------------------------------------------------------------------
(* Lemmas on rows and attempts *)

LEMMA TaskType ==
  ASSUME FilesTypeOK, NEW w \in Workers, task[w] # None
  PROVE  /\ task[w] \in Task
         /\ task[w].order \in Orders
         /\ task[w].todo \subseteq Row /\ task[w].made \subseteq Row
         /\ task[w].gone \subseteq Row
         /\ task[w].raised \in BOOLEAN /\ task[w].blocked \in BOOLEAN
<1>1. task[w] \in Task
  BY DEF FilesTypeOK
<1> QED
  BY <1>1 DEF Task

LEMMA PendingRowType ==
  ASSUME NEW o \in Orders, NEW v \in 1 .. MaxVersion, NEW f \in File
  PROVE  PendingRow(o, v, f) \in Row
BY DEF PendingRow, Row

(* The rows of an order whose version and files do not change.             *)
LEMMA RowsFrame ==
  ASSUME NEW o, version'[o] = version[o],
         \A r : r.order = o => (r \in files' <=> r \in files)
  PROVE  RowsOf(o)' = RowsOf(o)
BY DEF RowsOf

(* An attempt is as right as before when nothing of its order changes.     *)
LEMMA AttemptFrame ==
  ASSUME NEW w \in Workers, AttemptRight(w), NEW o, o = task[w].order,
         task'[w].order = o, task'[w].todo = task[w].todo, task'[w].made = task[w].made,
         task'[w].gone = task[w].gone, task'[w].raised = task[w].raised,
         RowsOf(o)' = RowsOf(o), status'[o] = status[o], version'[o] = version[o],
         o \notin clear'.locked
  PROVE  AttemptRight(w)'
BY DEF AttemptRight

(* A locked order is not the order of an attempt.                          *)
LEMMA NotLocked ==
  ASSUME NEW o \in Orders, ~Locked(o), NEW w \in Workers, task[w] # None
  PROVE  task[w].order # o
BY DEF Locked, Working

(* The facts about one attempt that its step starts from.                  *)
LEMMA AttemptFacts ==
  ASSUME FilesInv, NEW w \in Workers, task[w] # None
  PROVE  /\ AttemptRight(w)
         /\ ContentRight(task[w].made)
         /\ task[w] \in Task
         /\ task[w].order \in Orders
         /\ task[w].todo \subseteq files /\ task[w].gone \subseteq files
         /\ \A r \in task[w].todo \cup task[w].gone :
              r \in Row /\ r.order = task[w].order /\ r.version = version[r.order]
         /\ Present(task[w].order)
         /\ version[task[w].order] \in 1 .. MaxVersion
<1>1. AttemptRight(w) /\ ContentRight(task[w].made) /\ FilesTypeOK
  BY DEF FilesInv
<1>2. task[w] \in Task /\ task[w].order \in Orders
  BY <1>1, TaskType
<1>3. /\ task[w].todo \subseteq files /\ task[w].gone \subseteq files
      /\ \A r \in task[w].todo \cup task[w].gone :
           r \in Row /\ r.order = task[w].order /\ r.version = version[r.order]
  BY <1>1 DEF AttemptRight, RowsOf, FilesTypeOK
<1>4. Present(task[w].order)
  BY <1>1 DEF AttemptRight, Present
<1>5. version[task[w].order] \in 1 .. MaxVersion
  BY <1>1, <1>2, <1>4 DEF FilesInv, FilesTypeOK
<1> QED
  BY <1>1, <1>2, <1>3, <1>4, <1>5

-----------------------------------------------------------------------------
(* Every step keeps the invariant *)

LEMMA FilesInit == Init => FilesInv
<1> SUFFICES ASSUME Init PROVE FilesInv
  OBVIOUS
<1> PICK known \in SUBSET Orders :
      /\ status = [o \in Orders |-> IF o \in known THEN "PDF_QUEUED" ELSE "ABSENT"]
      /\ version = [o \in Orders |-> IF o \in known THEN 1 ELSE 0]
      /\ files = UNION {{PendingRow(o, 1, f) : f \in sent[o]} : o \in known}
  BY DEF Init
<1>1. sent \in [Orders -> SUBSET File]
  BY DEF Init
<1>2. \A r \in files : \E o \in known : \E f \in sent[o] : r = PendingRow(o, 1, f)
  OBVIOUS
<1>3. files \subseteq Row
  <2> SUFFICES ASSUME NEW r \in files PROVE r \in Row
    OBVIOUS
  <2>1. PICK o \in known : \E f \in sent[o] : r = PendingRow(o, 1, f)
    BY <1>2
  <2>2. PICK f \in sent[o] : r = PendingRow(o, 1, f)
    BY <2>1
  <2>3. o \in Orders /\ f \in File /\ 1 \in 1 .. MaxVersion
    BY <1>1
  <2>4. PendingRow(o, 1, f) \in Row
    BY <2>3, PendingRowType
  <2> QED
    BY <2>2, <2>4
<1>4. FilesTypeOK
  BY <1>1, <1>3 DEF Init, FilesTypeOK, NoClear
<1>5. RowsBelong
  BY <1>2 DEF RowsBelong, Present, PendingRow
<1>6. RowsFollowIngest
  <2> SUFFICES ASSUME NEW o \in Orders, Present(o)
               PROVE  /\ {r.file : r \in RowsOf(o)} = sent[o]
                      /\ \A r1, r2 \in RowsOf(o) : r1.file = r2.file => r1 = r2
    BY DEF RowsFollowIngest
  <2>1. o \in known
    BY DEF Present
  <2>2. RowsOf(o) = {PendingRow(o, 1, f) : f \in sent[o]}
    BY <2>1 DEF RowsOf, PendingRow
  <2>3. \A f : PendingRow(o, 1, f).file = f
    BY DEF PendingRow
  <2> QED
    BY <2>2, <2>3
<1>7. ContentRight(files)
  BY <1>2 DEF ContentRight, PendingRow
<1>8. ReadyHasText
  BY DEF ReadyHasText
<1>9. ClearRight
  BY DEF ClearRight, Init, NoClear
<1> QED
  BY <1>4, <1>5, <1>6, <1>7, <1>8, <1>9 DEF FilesInv, Init, OneAttempt, Present

(* The row of an entry gives way to the row made for it.                   *)
LEMMA ReplaceStep ==
  ASSUME FilesInv, NEW w \in Workers, task[w] # None, NEW r \in task[w].todo,
         NEW p \in Parsed \cup {"SKIPPED"}, NEW c \in Pdf \cup {None}, Replace(w, r, p, c),
         stored \subseteq stored', stored' \subseteq Pdf,
         IF c = None THEN p = "SKIPPED" ELSE c \in stored' /\ p = ParseStatus[c],
         UNCHANGED <<orderVars, files, clear, requests, faults>>
  PROVE  FilesInv'
<1> DEFINE t == task[w]
           m == [order |-> r.order, version |-> version[r.order], file |-> r.file,
                 parse_status |-> p, sha256 |-> c]
<1>1. /\ AttemptRight(w) /\ ContentRight(t.made) /\ t \in Task /\ t.order \in Orders
      /\ \A x \in t.todo \cup t.gone :
           x \in Row /\ x.order = t.order /\ x.version = version[x.order]
      /\ version[t.order] \in 1 .. MaxVersion
  BY AttemptFacts
<1>2. /\ status' = status /\ version' = version /\ sent' = sent /\ files' = files
      /\ clear' = clear /\ requests' = requests /\ faults' = faults
  BY DEF orderVars
<1>3. FilesTypeOK
  BY DEF FilesInv
<1>4. /\ task' = [task EXCEPT ![w] = task'[w]]
      /\ task'[w] = [order |-> t.order, todo |-> t.todo \ {r}, made |-> t.made \cup {m},
                     gone |-> t.gone \cup {r}, raised |-> t.raised, blocked |-> t.blocked]
  BY <1>1, <1>3 DEF Replace, FilesTypeOK, Task
<1>5. m \in Row
  BY <1>1 DEF Row
<1>6. task'[w] \in Task
  BY <1>1, <1>4, <1>5 DEF Task
<1>7. task' \in [Workers -> Task \cup {None}]
  BY <1>3, <1>4, <1>6 DEF FilesTypeOK
<1>8. FilesTypeOK'
  BY <1>2, <1>3, <1>7 DEF FilesTypeOK
<1>9. \A o : RowsOf(o)' = RowsOf(o)
  BY <1>2 DEF RowsOf
<1>10. AttemptRight(w)'
  <2>1. r \in RowsOf(t.order) /\ r \notin t.gone
    BY <1>1 DEF AttemptRight
  <2>2. ASSUME NEW n \in t.made PROVE n.file # r.file
    <3>1. PICK g \in t.gone : g.file = n.file
      BY <1>1 DEF AttemptRight
    <3>2. g \in RowsOf(t.order) /\ g # r
      BY <1>1, <2>1 DEF AttemptRight
    <3> QED
      BY <1>1, <2>1, <3>1, <3>2 DEF FilesInv, RowsFollowIngest, AttemptRight, Present
  <2>3. /\ task'[w].order = t.order /\ task'[w].todo = t.todo \ {r}
        /\ task'[w].made = t.made \cup {m} /\ task'[w].gone = t.gone \cup {r}
        /\ task'[w].raised = t.raised
    BY <1>4
  <2>4. /\ m.order = t.order /\ m.version = version[t.order] /\ m.file = r.file
        /\ m.parse_status # "PENDING"
    BY <1>1 DEF Parsed
  <2>5. \A n1, n2 \in t.made \cup {m} : n1.file = n2.file => n1 = n2
    BY <1>1, <2>2, <2>4 DEF AttemptRight
  <2> HIDE DEF m
  <2> QED
    BY <1>1, <1>2, <2>1, <2>3, <2>4, <2>5 DEF AttemptRight, RowsOf
<1>11. ContentRight(task[w].made)'
  BY <1>1, <1>4 DEF ContentRight, Parsed
<1>12. ASSUME NEW x \in Workers, task'[x] # None
       PROVE  AttemptRight(x)' /\ ContentRight(task[x].made)'
  <2>1. CASE x = w
    BY <2>1, <1>10, <1>11
  <2>2. CASE x # w
    <3>1. task'[x] = task[x]
      BY <2>2, <1>3, <1>4 DEF FilesTypeOK
    <3>2. AttemptRight(x) /\ ContentRight(task[x].made)
      BY <1>12, <3>1 DEF FilesInv
    <3>3. AttemptRight(x)'
      BY <1>2, <1>9, <3>1, <3>2, AttemptFrame DEF AttemptRight
    <3> QED
      BY <3>1, <3>2, <3>3 DEF ContentRight
  <2> QED
    BY <2>1, <2>2
<1>13. OneAttempt'
  BY <1>3, <1>4 DEF FilesInv, OneAttempt, FilesTypeOK
<1>14. ContentRight(files)'
  BY <1>2 DEF FilesInv, ContentRight
<1> QED
  BY <1>2, <1>8, <1>9, <1>12, <1>13, <1>14
     DEF FilesInv, RowsBelong, RowsFollowIngest, ReadyHasText, ClearRight, Present

(* The attempt of a worker ends without a trace in the database.           *)
LEMMA DropStep ==
  ASSUME FilesInv, NEW w \in Workers, task' = [task EXCEPT ![w] = None],
         UNCHANGED <<orderVars, files, stored, clear, requests>>,
         faults' \in 0 .. MaxFaults
  PROVE  FilesInv'
<1>1. /\ status' = status /\ version' = version /\ sent' = sent /\ files' = files
      /\ stored' = stored /\ clear' = clear /\ requests' = requests
  BY DEF orderVars
<1>2. FilesTypeOK
  BY DEF FilesInv
<1>3. FilesTypeOK'
  BY <1>1, <1>2 DEF FilesTypeOK
<1>4. \A x \in Workers : task'[x] # None => task'[x] = task[x]
  BY <1>2 DEF FilesTypeOK
<1>5. ASSUME NEW x \in Workers, task'[x] # None
      PROVE  AttemptRight(x)' /\ ContentRight(task[x].made)'
  BY <1>1, <1>4, <1>5 DEF FilesInv, AttemptRight, RowsOf, ContentRight
<1> QED
  BY <1>1, <1>3, <1>4, <1>5
     DEF FilesInv, RowsBelong, RowsFollowIngest, ReadyHasText, ClearRight, Present, RowsOf,
         ContentRight, OneAttempt

(* The flags of an attempt, or a row it gives up, change nothing else.     *)
LEMMA FlagStep ==
  ASSUME FilesInv, NEW w \in Workers, task[w] # None, task' = [task EXCEPT ![w] = task'[w]],
         task'[w] \in Task, task'[w].order = task[w].order,
         task'[w].todo \subseteq task[w].todo, task'[w].made = task[w].made,
         task'[w].gone = task[w].gone,
         (task'[w].todo = task[w].todo /\ task'[w].raised = task[w].raised) \/ task'[w].raised,
         UNCHANGED <<orderVars, files, stored, clear, requests>>,
         faults' \in 0 .. MaxFaults
  PROVE  FilesInv'
<1>1. /\ status' = status /\ version' = version /\ sent' = sent /\ files' = files
      /\ stored' = stored /\ clear' = clear /\ requests' = requests
  BY DEF orderVars
<1>2. FilesTypeOK
  BY DEF FilesInv
<1>3. FilesTypeOK'
  BY <1>1, <1>2 DEF FilesTypeOK
<1>4. \A x \in Workers : x # w => task'[x] = task[x]
  BY <1>2 DEF FilesTypeOK
<1>5. AttemptRight(w)' /\ ContentRight(task[w].made)'
  BY <1>1 DEF FilesInv, AttemptRight, RowsOf, ContentRight
<1>6. ASSUME NEW x \in Workers, task'[x] # None
      PROVE  AttemptRight(x)' /\ ContentRight(task[x].made)'
  <2>1. CASE x = w
    BY <2>1, <1>5
  <2>2. CASE x # w
    BY <1>1, <1>4, <1>6, <2>2 DEF FilesInv, AttemptRight, RowsOf, ContentRight
  <2> QED
    BY <2>1, <2>2
<1>7. OneAttempt'
  BY <1>4 DEF FilesInv, OneAttempt
<1> QED
  BY <1>1, <1>3, <1>6, <1>7
     DEF FilesInv, RowsBelong, RowsFollowIngest, ReadyHasText, ClearRight, Present, RowsOf,
         ContentRight

(* One file of an attempt.                                                 *)
LEMMA ProcessFileStep ==
  ASSUME FilesInv, NEW w \in Workers, ProcessFile(w)
  PROVE  FilesInv'
<1> PICK r \in task[w].todo :
      \/ FileRaises(w, r)
      \/ NotPdf(w, r)
      \/ \E known \in Visible(w) : Dedup(w, r, known)
      \/ \E pdf \in Pdf : ParseNew(w, r, pdf)
      \/ Block(w, r)
  BY DEF ProcessFile
<1>1. task[w] # None
  BY DEF ProcessFile
<1>2. FilesTypeOK /\ AttemptRight(w) /\ ContentRight(task[w].made) /\ task[w] \in Task
  BY <1>1, AttemptFacts DEF FilesInv
<1>3. CASE FileRaises(w, r)
  <2>1. /\ task' = [task EXCEPT ![w] = task'[w]]
        /\ task'[w] = [order |-> task[w].order, todo |-> task[w].todo \ {r},
                       made |-> task[w].made, gone |-> task[w].gone,
                       raised |-> TRUE, blocked |-> task[w].blocked]
    BY <1>2, <1>3 DEF FileRaises, FilesTypeOK, Task
  <2>2. task'[w] \in Task
    BY <1>2, <2>1 DEF Task
  <2>3. faults' \in 0 .. MaxFaults
    BY <1>2, <1>3 DEF FileRaises, Fault, FilesTypeOK
  <2>4. /\ task'[w].order = task[w].order /\ task'[w].todo \subseteq task[w].todo
        /\ task'[w].made = task[w].made /\ task'[w].gone = task[w].gone
        /\ task'[w].raised
    BY <2>1
  <2>5. UNCHANGED <<orderVars, files, stored, clear, requests>>
    BY <1>3 DEF FileRaises
  <2> QED
    BY <1>1, <2>1, <2>2, <2>3, <2>4, <2>5, FlagStep
<1>4. CASE Block(w, r)
  <2>1. /\ task' = [task EXCEPT ![w] = task'[w]]
        /\ task'[w] = [order |-> task[w].order, todo |-> task[w].todo,
                       made |-> task[w].made, gone |-> task[w].gone,
                       raised |-> task[w].raised, blocked |-> TRUE]
    BY <1>2, <1>4 DEF Block, FilesTypeOK, Task
  <2>2. task'[w] \in Task
    BY <1>2, <2>1 DEF Task
  <2>3. faults' \in 0 .. MaxFaults
    BY <1>2, <1>4 DEF Block, FilesTypeOK
  <2>4. /\ task'[w].order = task[w].order /\ task'[w].todo \subseteq task[w].todo
        /\ task'[w].made = task[w].made /\ task'[w].gone = task[w].gone
        /\ task'[w].todo = task[w].todo /\ task'[w].raised = task[w].raised
    BY <2>1
  <2>5. UNCHANGED <<orderVars, files, stored, clear, requests>>
    BY <1>4 DEF Block
  <2> QED
    BY <1>1, <2>1, <2>2, <2>3, <2>4, <2>5, FlagStep
<1>5. CASE NotPdf(w, r)
  BY <1>1, <1>2, <1>5, ReplaceStep DEF NotPdf, FilesTypeOK
<1>6. ASSUME NEW known \in Visible(w), Dedup(w, r, known)
      PROVE  FilesInv'
  <2>1. known \in Row
    BY <1>1, <1>2, TaskType DEF Visible, FilesTypeOK
  <2>2. ContentRight({known})
    BY <1>2 DEF Visible, FilesInv, ContentRight
  <2>3. /\ known.sha256 \in Pdf /\ known.sha256 \in stored
        /\ known.parse_status = ParseStatus[known.sha256]
    BY <1>6, <2>1, <2>2 DEF Dedup, ContentRight, Row
  <2>4. known.parse_status \in Parsed
    BY <2>3
  <2> QED
    BY <1>1, <1>2, <1>6, <2>3, <2>4, ReplaceStep DEF Dedup, FilesTypeOK
<1>7. ASSUME NEW pdf \in Pdf, ParseNew(w, r, pdf)
      PROVE  FilesInv'
  <2>1. ParseStatus[pdf] \in Parsed /\ pdf # None
    OBVIOUS
  <2>2. stored' = stored \cup {pdf}
    BY <1>7 DEF ParseNew, Upload
  <2> QED
    BY <1>1, <1>2, <1>7, <2>1, <2>2, ReplaceStep DEF ParseNew, FilesTypeOK
<1> QED
  BY <1>3, <1>4, <1>5, <1>6, <1>7

(* A worker begins an attempt.                                             *)
LEMMA ClaimStep ==
  ASSUME FilesInv, NEW w \in Workers, NEW o \in Orders, Claim(w, o)
  PROVE  FilesInv'
<1> DEFINE t == [order |-> o, todo |-> ToProcess(o), made |-> {}, gone |-> {},
                 raised |-> FALSE, blocked |-> FALSE]
<1>1. /\ status' = status /\ version' = version /\ sent' = sent /\ files' = files
      /\ stored' = stored /\ clear' = clear /\ requests' = requests /\ faults' = faults
  BY DEF Claim, orderVars
<1>2. FilesTypeOK
  BY DEF FilesInv
<1>3. ToProcess(o) \subseteq RowsOf(o)
  BY DEF ToProcess
<1>4. \A r \in RowsOf(o) : r.parse_status = "PENDING" => r \in ToProcess(o)
  BY DEF ToProcess
<1>5. RowsOf(o) \subseteq Row
  BY <1>2 DEF RowsOf, FilesTypeOK
<1>6. t \in Task
  BY <1>3, <1>5 DEF Task
<1>7. task'[w] = t /\ \A x \in Workers : x # w => task'[x] = task[x]
  BY <1>2 DEF Claim, FilesTypeOK
<1>8. FilesTypeOK'
  BY <1>1, <1>2, <1>6 DEF FilesTypeOK, Claim
<1>9. AttemptRight(w)' /\ ContentRight(task[w].made)'
  <2>1. /\ task'[w].order = o /\ task'[w].todo = ToProcess(o) /\ task'[w].made = {}
        /\ task'[w].gone = {}
    BY <1>7
  <2>2. status[o] = "PDF_QUEUED" /\ o \notin clear.locked
    BY DEF Claim, Locked
  <2> QED
    BY <1>1, <1>3, <1>4, <2>1, <2>2 DEF AttemptRight, RowsOf, ContentRight
<1>10. ASSUME NEW x \in Workers, task'[x] # None
       PROVE  AttemptRight(x)' /\ ContentRight(task[x].made)'
  <2>1. CASE x = w
    BY <2>1, <1>9
  <2>2. CASE x # w
    BY <1>1, <1>7, <1>10, <2>2 DEF FilesInv, AttemptRight, RowsOf, ContentRight
  <2> QED
    BY <2>1, <2>2
<1>11. OneAttempt'
  <2>1. \A x \in Workers : task[x] # None => task[x].order # o
    BY NotLocked DEF Claim
  <2> QED
    BY <1>7, <2>1 DEF FilesInv, OneAttempt
<1> QED
  BY <1>1, <1>8, <1>10, <1>11
     DEF FilesInv, RowsBelong, RowsFollowIngest, ReadyHasText, ClearRight, Present, RowsOf,
         ContentRight

(* The rows of an order after the commit of its attempt: one for each      *)
(* entry, as before.                                                       *)
LEMMA FinishRows ==
  ASSUME FilesInv, NEW w \in Workers, Finish(w)
  PROVE  /\ RowsOf(task[w].order) \subseteq files
         /\ \A o : o # task[w].order => RowsOf(o)' = RowsOf(o)
         /\ files' = (files \ task[w].gone) \cup task[w].made
         /\ \A r : r \in files' /\ r.order = task[w].order /\ r.version = version'[task[w].order]
              <=> r \in (RowsOf(task[w].order) \ task[w].gone) \cup task[w].made
<1>1. task[w] # None /\ version' = version /\ files' = (files \ task[w].gone) \cup task[w].made
  BY DEF Finish, Visible
<1>2. AttemptRight(w) /\ \A r \in task[w].gone : r.order = task[w].order
  BY <1>1, AttemptFacts
<1>3. \A m \in task[w].made : m.order = task[w].order /\ m.version = version[task[w].order]
  BY <1>2 DEF AttemptRight
<1> QED
  BY <1>1, <1>2, <1>3 DEF RowsOf

LEMMA FinishStep ==
  ASSUME FilesInv, NEW w \in Workers, Finish(w)
  PROVE  FilesInv'
<1> DEFINE t == task[w]
           o == task[w].order
           rows == (RowsOf(o) \ t.gone) \cup t.made
<1>0. /\ clear' = [orders |-> clear.orders, rows |-> clear.rows \ t.gone,
                   doomed |-> clear.doomed, locked |-> clear.locked]
      /\ clear.orders \subseteq Orders /\ clear.rows \subseteq Row
      /\ clear.doomed \subseteq Row /\ clear.locked \subseteq Orders
  BY DEF Finish, FilesInv, FilesTypeOK
<1>1. /\ task[w] # None /\ t.todo = {} /\ version' = version /\ sent' = sent
      /\ stored' = stored /\ requests' = requests /\ faults' = faults
      /\ status' = [status EXCEPT ![o] = Result(t)]
      /\ files' = (files \ t.gone) \cup t.made
      /\ task' = [task EXCEPT ![w] = None]
  BY DEF Finish, Visible
<1>2. /\ AttemptRight(w) /\ ContentRight(t.made) /\ t \in Task /\ o \in Orders
      /\ Present(o) /\ FilesTypeOK
  BY <1>1, AttemptFacts DEF FilesInv
<1>3. Result(t) \in {"PDF_READY", "PDF_FAILED", "MANUAL_REQUIRED"}
  BY DEF Result
<1>4. FilesTypeOK'
  BY <1>0, <1>1, <1>2, <1>3, TaskType DEF FilesTypeOK
<1>5. \A x : x # o => RowsOf(x)' = RowsOf(x)
  BY FinishRows
<1>6. \A r : r \in files' /\ r.order = o /\ r.version = version'[o] <=> r \in rows
  BY FinishRows
<1>7. /\ status'[o] = Result(t)
      /\ \A x \in Orders : x # o => status'[x] = status[x]
      /\ \A x \in Orders : Present(x)' <=> Present(x)
  BY <1>1, <1>2, <1>3 DEF FilesTypeOK, Present
<1>8. RowsBelong'
  BY <1>1, <1>2, <1>7 DEF FilesInv, RowsBelong, AttemptRight, FilesTypeOK, Row
<1>9. RowsFollowIngest'
  <2> SUFFICES ASSUME NEW x \in Orders, Present(x)'
               PROVE  (/\ {r.file : r \in RowsOf(x)} = sent[x]
                       /\ \A r1, r2 \in RowsOf(x) : r1.file = r2.file => r1 = r2)'
    BY DEF RowsFollowIngest
  <2>1. /\ {r.file : r \in RowsOf(x)} = sent[x]
        /\ \A r1, r2 \in RowsOf(x) : r1.file = r2.file => r1 = r2
    BY <1>7 DEF FilesInv, RowsFollowIngest
  <2>2. CASE x # o
    BY <1>1, <1>5, <2>1, <2>2
  <2>3. CASE x = o
    <3>1. RowsOf(x)' = rows
      BY <1>6, <2>3 DEF RowsOf
    <3>2. {r.file : r \in rows} = {r.file : r \in RowsOf(o)}
      BY <1>2 DEF AttemptRight
    <3>3. \A r1, r2 \in rows : r1.file = r2.file => r1 = r2
      BY <1>2, <2>1, <2>3 DEF AttemptRight
    <3> HIDE DEF rows, o
    <3> QED
      BY <1>1, <2>1, <2>3, <3>1, <3>2, <3>3
  <2> QED
    BY <2>2, <2>3
<1>10. ReadyHasText'
  <2> SUFFICES ASSUME NEW x \in Orders, status'[x] = "PDF_READY"
               PROVE  (/\ \E r \in RowsOf(x) : r.parse_status = "READY"
                       /\ \A r \in RowsOf(x) : r.parse_status # "PENDING")'
    BY DEF ReadyHasText
  <2>1. CASE x # o
    BY <1>5, <1>7, <2>1 DEF FilesInv, ReadyHasText
  <2>2. CASE x = o
    <3>1. RowsOf(x)' = rows
      BY <1>6, <2>2 DEF RowsOf
    <3>2. Result(t) = "PDF_READY"
      BY <1>7, <2>2
    <3>3. ~t.raised /\ \E m \in t.made : m.parse_status = "READY"
      BY <3>2 DEF Result
    <3>4. \A r \in rows : r.parse_status # "PENDING"
      BY <1>1, <1>2, <3>3 DEF AttemptRight
    <3> QED
      BY <3>1, <3>3, <3>4
  <2> QED
    BY <2>1, <2>2
<1>11. ContentRight(files)'
  BY <1>1, <1>2 DEF FilesInv, ContentRight
<1>12. \A x \in Workers : task'[x] # None => x # w /\ task'[x] = task[x]
  BY <1>1, <1>2 DEF FilesTypeOK
<1>13. ASSUME NEW x \in Workers, task'[x] # None
       PROVE  AttemptRight(x)' /\ ContentRight(task[x].made)'
  <2>1. task'[x] = task[x] /\ task[x] # None /\ task[x].order # o
    BY <1>1, <1>12, <1>13 DEF FilesInv, OneAttempt
  <2>2. AttemptRight(x) /\ ContentRight(task[x].made) /\ task[x].order \in Orders
    BY <2>1, AttemptFacts
  <2>3. AttemptRight(x)'
    BY <1>0, <1>1, <1>5, <1>7, <2>1, <2>2, AttemptFrame DEF AttemptRight
  <2> QED
    BY <1>1, <2>1, <2>2, <2>3 DEF ContentRight
<1>14. OneAttempt'
  BY <1>12 DEF FilesInv, OneAttempt
<1>15. ClearRight'
  BY <1>0, <1>2, <1>7 DEF FilesInv, ClearRight, FilesTypeOK
<1>16. \A x \in Orders : Present(x)' => version'[x] # 0
  BY <1>1, <1>7 DEF FilesInv
<1> QED
  BY <1>4, <1>8, <1>9, <1>10, <1>11, <1>13, <1>14, <1>15, <1>16 DEF FilesInv

(* An order that no attempt and no clear holds gets a new version, or is   *)
(* queued again.                                                           *)
LEMMA IngestStep ==
  ASSUME FilesInv, NEW o \in Orders, NEW entries \in Requests[o], Ingest(o, entries)
  PROVE  FilesInv'
<1> DEFINE made == {PendingRow(o, version[o] + 1, f) : f \in entries}
<1>1. /\ files' = files \cup made /\ stored' = stored /\ task' = task /\ clear' = clear
      /\ version' = [version EXCEPT ![o] = @ + 1]
      /\ status' = [status EXCEPT ![o] = "PDF_QUEUED"]
      /\ sent' = [sent EXCEPT ![o] = entries]
      /\ ~Locked(o) /\ version[o] < MaxVersion
  BY DEF Ingest
<1>2. FilesTypeOK /\ entries \subseteq File
  BY DEF FilesInv
<1>3. version[o] \in Nat /\ version[o] + 1 \in 1 .. MaxVersion
  BY <1>1, <1>2 DEF FilesTypeOK
<1>4. made \subseteq Row
  BY <1>2, <1>3, PendingRowType
<1>5. \A r \in made : /\ r.order = o /\ r.version = version[o] + 1 /\ r.sha256 = None
                      /\ r.parse_status = "PENDING" /\ r.file \in entries
  BY DEF PendingRow
<1>6. FilesTypeOK'
  BY <1>1, <1>2, <1>3, <1>4 DEF FilesTypeOK, Ingest, Request
<1>7. /\ \A x \in Orders : x # o => version'[x] = version[x] /\ status'[x] = status[x]
      /\ version'[o] = version[o] + 1 /\ status'[o] = "PDF_QUEUED" /\ sent'[o] = entries
      /\ \A x \in Orders : x # o => sent'[x] = sent[x]
  BY <1>1, <1>2 DEF FilesTypeOK
<1>8. \A r \in files : r.order \in Orders /\ r.version \in Nat /\ r.version =< version[r.order]
  BY <1>2 DEF FilesInv, RowsBelong, FilesTypeOK, Row
<1>9. \A x \in Orders : x # o => RowsOf(x)' = RowsOf(x)
  BY <1>1, <1>5, <1>7 DEF RowsOf
<1>10. RowsOf(o)' = made
  <2>1. \A r \in files : ~(r.order = o /\ r.version = version[o] + 1)
    BY <1>3, <1>8
  <2> QED
    BY <1>1, <1>5, <1>7, <2>1 DEF RowsOf
<1>11. RowsBelong'
  BY <1>1, <1>3, <1>5, <1>7, <1>8 DEF FilesInv, RowsBelong, Present
<1>12. RowsFollowIngest'
  <2> SUFFICES ASSUME NEW x \in Orders, Present(x)'
               PROVE  (/\ {r.file : r \in RowsOf(x)} = sent[x]
                       /\ \A r1, r2 \in RowsOf(x) : r1.file = r2.file => r1 = r2)'
    BY DEF RowsFollowIngest
  <2>1. CASE x # o
    <3>1. RowsOf(x)' = RowsOf(x) /\ sent'[x] = sent[x] /\ Present(x)
      BY <1>7, <1>9, <2>1 DEF Present
    <3> QED
      BY <3>1 DEF FilesInv, RowsFollowIngest
  <2>2. CASE x = o
    <3>3. \A r \in made : r.file \in entries
      BY <1>5
    <3>4. \A f \in entries : \E r \in made : r.file = f
      <4> SUFFICES ASSUME NEW f \in entries PROVE \E r \in made : r.file = f
        OBVIOUS
      <4>1. PendingRow(o, version[o] + 1, f).file = f
        BY DEF PendingRow
      <4> QED
        BY <4>1
    <3>1. {r.file : r \in made} = entries
      <4> HIDE DEF made
      <4> QED
        BY <3>3, <3>4
    <3>2. \A r1, r2 \in made : r1.file = r2.file => r1 = r2
      BY DEF PendingRow
    <3> HIDE DEF made
    <3> QED
      BY <1>7, <1>10, <2>2, <3>1, <3>2
  <2> QED
    BY <2>1, <2>2
<1>13. ReadyHasText'
  BY <1>7, <1>9 DEF FilesInv, ReadyHasText
<1>14. ContentRight(files)'
  BY <1>1, <1>5 DEF FilesInv, ContentRight
<1>15. ASSUME NEW x \in Workers, task'[x] # None
       PROVE  AttemptRight(x)' /\ ContentRight(task[x].made)'
  <2>1. /\ AttemptRight(x) /\ ContentRight(task[x].made)
        /\ task[x].order \in Orders /\ task[x].order # o
    BY <1>1, <1>15, AttemptFacts, NotLocked
  <2>2. AttemptRight(x)'
    BY <1>1, <1>7, <1>9, <2>1, AttemptFrame DEF AttemptRight
  <2> QED
    BY <1>1, <2>1, <2>2 DEF ContentRight
<1>16. OneAttempt' /\ ClearRight'
  BY <1>1, <1>2, <1>7 DEF FilesInv, OneAttempt, ClearRight, Present, FilesTypeOK
<1>17. \A x \in Orders : Present(x)' => version'[x] # 0
  BY <1>3, <1>7 DEF FilesInv, Present
<1> QED
  BY <1>6, <1>11, <1>12, <1>13, <1>14, <1>15, <1>16, <1>17 DEF FilesInv

LEMMA RetryStep ==
  ASSUME FilesInv, NEW o \in Orders, Retry(o)
  PROVE  FilesInv'
<1>1. /\ files' = files /\ stored' = stored /\ task' = task /\ clear' = clear
      /\ version' = version /\ sent' = sent /\ faults' = faults
      /\ status' = [status EXCEPT ![o] = "PDF_QUEUED"]
      /\ ~Locked(o) /\ Present(o)
  BY DEF Retry
<1>2. FilesTypeOK
  BY DEF FilesInv
<1>3. FilesTypeOK'
  BY <1>1, <1>2 DEF FilesTypeOK, Retry, Request
<1>4. /\ \A x \in Orders : x # o => status'[x] = status[x]
      /\ status'[o] = "PDF_QUEUED"
      /\ \A x \in Orders : Present(x)' <=> Present(x)
  BY <1>1, <1>2 DEF FilesTypeOK, Present
<1>5. \A x : RowsOf(x)' = RowsOf(x)
  BY <1>1 DEF RowsOf
<1>6. RowsBelong'
  BY <1>1, <1>2, <1>4 DEF FilesInv, RowsBelong, FilesTypeOK, Row
<1>7. RowsFollowIngest' /\ ReadyHasText'
  BY <1>1, <1>4, <1>5 DEF FilesInv, RowsFollowIngest, ReadyHasText
<1>8. ContentRight(files)'
  BY <1>1 DEF FilesInv, ContentRight
<1>9. ASSUME NEW x \in Workers, task'[x] # None
      PROVE  AttemptRight(x)' /\ ContentRight(task[x].made)'
  <2>1. /\ AttemptRight(x) /\ ContentRight(task[x].made)
        /\ task[x].order \in Orders /\ task[x].order # o
    BY <1>1, <1>9, AttemptFacts, NotLocked
  <2>2. AttemptRight(x)'
    BY <1>1, <1>4, <1>5, <2>1, AttemptFrame DEF AttemptRight
  <2> QED
    BY <1>1, <2>1, <2>2 DEF ContentRight
<1>10. OneAttempt' /\ ClearRight'
  BY <1>1, <1>2, <1>4 DEF FilesInv, OneAttempt, ClearRight, FilesTypeOK
<1>11. \A x \in Orders : Present(x)' => version'[x] # 0
  BY <1>1, <1>4 DEF FilesInv
<1> QED
  BY <1>3, <1>6, <1>7, <1>8, <1>9, <1>10, <1>11 DEF FilesInv

(* The steps of the clear before its commit change no row and no order.    *)
LEMMA ClearStep ==
  ASSUME FilesInv, clear' \in [orders : SUBSET Orders, rows : SUBSET Row,
                               doomed : SUBSET Row, locked : SUBSET Orders],
         ClearRight',
         task' \in [Workers -> Task \cup {None}],
         \A w \in Workers :
           /\ task'[w] # None => task[w] # None
           /\ task'[w] # None => /\ task'[w].order = task[w].order
                                 /\ task'[w].todo = task[w].todo
                                 /\ task'[w].made = task[w].made
                                 /\ task'[w].gone = task[w].gone
                                 /\ task'[w].raised = task[w].raised
                                 /\ task'[w].order \notin clear'.locked,
         requests' \in 0 .. MaxRequests,
         UNCHANGED <<orderVars, files, stored, faults>>
  PROVE  FilesInv'
<1>1. /\ status' = status /\ version' = version /\ sent' = sent /\ files' = files
      /\ stored' = stored /\ faults' = faults
  BY DEF orderVars
<1>2. FilesTypeOK'
  BY <1>1 DEF FilesInv, FilesTypeOK
<1>3. \A x : RowsOf(x)' = RowsOf(x)
  BY <1>1 DEF RowsOf
<1>4. ASSUME NEW x \in Workers, task'[x] # None
      PROVE  AttemptRight(x)' /\ ContentRight(task[x].made)'
  <2>1. AttemptRight(x) /\ ContentRight(task[x].made)
    BY <1>4, AttemptFacts
  <2>2. AttemptRight(x)'
    BY <1>1, <1>3, <1>4, <2>1, AttemptFrame
  <2> QED
    BY <1>1, <1>4, <2>1, <2>2 DEF ContentRight
<1>5. OneAttempt'
  BY DEF FilesInv, OneAttempt
<1> QED
  BY <1>1, <1>2, <1>3, <1>4, <1>5
     DEF FilesInv, RowsBelong, RowsFollowIngest, ReadyHasText, ContentRight, Present

(* The clear commits: orders and rows go together.                         *)
LEMMA ClearCommitStep ==
  ASSUME FilesInv, ClearCommit
  PROVE  FilesInv'
<1> DEFINE scope == clear.orders
<1>1. /\ scope = clear.locked /\ stored' = stored /\ task' = task /\ clear' = NoClear
      /\ files' = {r \in files : r.order \notin scope}
      /\ requests' = requests /\ faults' = faults
  BY DEF ClearCommit, Cascade
<1>2. FilesTypeOK
  BY DEF FilesInv
<1>3. /\ \A x \in Orders : x \in scope => status'[x] = "ABSENT"
      /\ \A x \in Orders : x \notin scope =>
           status'[x] = status[x] /\ version'[x] = version[x] /\ sent'[x] = sent[x]
  BY DEF ClearCommit
<1>4. FilesTypeOK'
  BY <1>1, <1>2 DEF FilesTypeOK, ClearCommit, NoClear
<1>5. \A x \in Orders : x \notin scope => RowsOf(x)' = RowsOf(x)
  BY <1>1, <1>3 DEF RowsOf
<1>6. \A x \in Orders : Present(x)' => x \notin scope /\ Present(x)
  BY <1>3 DEF Present
<1>7. RowsBelong'
  BY <1>1, <1>2, <1>3 DEF FilesInv, RowsBelong, Present, FilesTypeOK, Row
<1>8. RowsFollowIngest'
  BY <1>3, <1>5, <1>6 DEF FilesInv, RowsFollowIngest
<1>9. ReadyHasText'
  BY <1>3, <1>5 DEF FilesInv, ReadyHasText
<1>10. ContentRight(files)'
  BY <1>1 DEF FilesInv, ContentRight
<1>11. ASSUME NEW x \in Workers, task'[x] # None
       PROVE  AttemptRight(x)' /\ ContentRight(task[x].made)'
  <2>1. AttemptRight(x) /\ ContentRight(task[x].made) /\ task[x].order \in Orders
    BY <1>1, <1>11, AttemptFacts
  <2>2. task[x].order \notin scope
    BY <1>1, <2>1 DEF AttemptRight
  <2>3. AttemptRight(x)'
    BY <1>1, <1>3, <1>5, <2>1, <2>2, AttemptFrame DEF NoClear
  <2> QED
    BY <1>1, <2>1, <2>3 DEF ContentRight
<1>12. OneAttempt' /\ ClearRight'
  BY <1>1 DEF FilesInv, OneAttempt, ClearRight, NoClear
<1>13. \A x \in Orders : Present(x)' => version'[x] # 0
  BY <1>3, <1>6 DEF FilesInv
<1> QED
  BY <1>4, <1>7, <1>8, <1>9, <1>10, <1>11, <1>12, <1>13 DEF FilesInv

LEMMA FilesStep ==
  ASSUME FilesInv, [Next]_vars
  PROVE  FilesInv'
<1>1. FilesTypeOK
  BY DEF FilesInv
<1>2. ASSUME NEW o \in Orders, NEW entries \in Requests[o], Ingest(o, entries)
      PROVE  FilesInv'
  BY <1>2, IngestStep
<1>3. ASSUME NEW o \in Orders, Retry(o)
      PROVE  FilesInv'
  BY <1>3, RetryStep
<1>4. ASSUME NEW w \in Workers, NEW o \in Orders, Claim(w, o)
      PROVE  FilesInv'
  BY <1>4, ClaimStep
<1>5. ASSUME NEW w \in Workers, ProcessFile(w)
      PROVE  FilesInv'
  BY <1>5, ProcessFileStep
<1>6. ASSUME NEW w \in Workers, Finish(w)
      PROVE  FilesInv'
  BY <1>6, FinishStep
<1>7. ASSUME NEW w \in Workers, TaskRaises(w)
      PROVE  FilesInv'
  <2>1. faults' \in 0 .. MaxFaults
    BY <1>1, <1>7 DEF TaskRaises, Fault, FilesTypeOK
  <2> QED
    BY <1>7, <2>1, DropStep DEF TaskRaises
<1>8. ASSUME NEW w \in Workers, WorkerAborted(w)
      PROVE  FilesInv'
  <2>1. faults' \in 0 .. MaxFaults
    BY <1>1, <1>8 DEF WorkerAborted, FilesTypeOK
  <2> QED
    BY <1>8, <2>1, DropStep DEF WorkerAborted
<1>9. ASSUME NEW w \in Workers, ClearAborted(w)
      PROVE  FilesInv'
  <2>1. task' = [x \in Workers |->
          IF task[x] = None THEN None ELSE [task[x] EXCEPT !.blocked = FALSE]]
    BY <1>9 DEF ClearAborted, Unblocked
  <2>2. ASSUME NEW x \in Workers, task[x] # None
        PROVE  /\ task'[x] = [order |-> task[x].order, todo |-> task[x].todo,
                              made |-> task[x].made, gone |-> task[x].gone,
                              raised |-> task[x].raised, blocked |-> FALSE]
               /\ task'[x] \in Task
    <3>1. task[x] \in Task
      BY <1>1, <2>2, TaskType
    <3> QED
      BY <2>1, <2>2, <3>1 DEF Task
  <2>3. \A x \in Workers : task[x] = None => task'[x] = None
    BY <2>1
  <2>4. task' \in [Workers -> Task \cup {None}]
    BY <2>1, <2>2, <2>3
  <2>5. clear' = NoClear /\ UNCHANGED <<orderVars, files, stored, requests, faults>>
    BY <1>9 DEF ClearAborted
  <2>6. ClearRight' /\ requests' \in 0 .. MaxRequests
    BY <1>1, <2>5 DEF ClearRight, NoClear, FilesTypeOK
  <2> QED
    BY <2>2, <2>3, <2>4, <2>5, <2>6, ClearStep DEF NoClear
<1>10. ASSUME NEW scope \in SUBSET Orders, ClearBegin(scope)
       PROVE  FilesInv'
  <2>1. /\ clear' = [orders |-> scope, rows |-> UNION {RowsOf(o) : o \in scope},
                     doomed |-> UNION {OldRows(o) : o \in scope}, locked |-> {}]
        /\ task' = task /\ UNCHANGED <<orderVars, files, stored, faults>>
        /\ \A o \in scope : Present(o)
    BY <1>10 DEF ClearBegin
  <2>2. ClearRight'
    BY <2>1 DEF ClearRight, orderVars, Present
  <2>3. requests' \in 0 .. MaxRequests
    BY <1>1, <1>10 DEF ClearBegin, Request, FilesTypeOK
  <2>4. \A o : RowsOf(o) \subseteq Row /\ OldRows(o) \subseteq Row
    BY <1>1 DEF RowsOf, OldRows, FilesTypeOK
  <2>5. clear' \in [orders : SUBSET Orders, rows : SUBSET Row,
                    doomed : SUBSET Row, locked : SUBSET Orders]
    BY <2>1, <2>4
  <2>6. clear'.locked = {}
    BY <2>1
  <2> QED
    BY <1>1, <2>1, <2>2, <2>3, <2>5, <2>6, ClearStep DEF FilesTypeOK
<1>14. ASSUME NEW r \in clear.rows, ClearFile(r)
       PROVE  FilesInv'
  <2>1. /\ clear' = [orders |-> clear.orders, rows |-> clear.rows \ {r},
                     doomed |-> clear.doomed \cup {r}, locked |-> clear.locked]
        /\ clear.orders \subseteq Orders /\ clear.rows \subseteq Row
        /\ clear.doomed \subseteq Row /\ clear.locked \subseteq Orders
        /\ task' = task /\ UNCHANGED <<orderVars, files, stored, requests, faults>>
    BY <1>1, <1>14 DEF ClearFile, FilesTypeOK
  <2>2. ClearRight'
    BY <2>1 DEF FilesInv, ClearRight, orderVars, Present
  <2>3. \A w \in Workers : task[w] # None => task[w].order \notin clear.locked
    BY DEF FilesInv, AttemptRight
  <2>4. requests' \in 0 .. MaxRequests
    BY <1>1, <2>1 DEF FilesTypeOK
  <2> QED
    BY <1>1, <2>1, <2>2, <2>3, <2>4, ClearStep DEF FilesTypeOK
<1>11. ASSUME NEW o \in Orders, ClearLock(o)
       PROVE  FilesInv'
  <2>1. /\ clear' = [orders |-> clear.orders, rows |-> clear.rows,
                     doomed |-> clear.doomed, locked |-> clear.locked \cup {o}]
        /\ clear.orders \subseteq Orders /\ clear.rows \subseteq Row
        /\ clear.doomed \subseteq Row /\ clear.locked \subseteq Orders
        /\ task' = task /\ UNCHANGED <<orderVars, files, stored, requests, faults>>
        /\ o \in clear.orders /\ ~Locked(o)
    BY <1>1, <1>11 DEF ClearLock, FilesTypeOK
  <2>2. ClearRight'
    BY <2>1 DEF FilesInv, ClearRight, orderVars, Present
  <2>3. \A w \in Workers : task[w] # None =>
          task[w].order # o /\ task[w].order \notin clear.locked
    BY <2>1, NotLocked DEF FilesInv, AttemptRight
  <2>4. requests' \in 0 .. MaxRequests
    BY <1>1, <2>1 DEF FilesTypeOK
  <2> QED
    BY <1>1, <2>1, <2>2, <2>3, <2>4, ClearStep DEF FilesTypeOK
<1>12. ASSUME ClearCommit
       PROVE  FilesInv'
  BY <1>12, ClearCommitStep
<1>13. ASSUME UNCHANGED vars
       PROVE  FilesInv'
  BY <1>13 DEF vars, FilesInv, FilesTypeOK, RowsBelong, RowsFollowIngest, ReadyHasText,
     ContentRight, OneAttempt, ClearRight, AttemptRight, RowsOf, Present
<1> QED
  <2>1. \A o \in clear.orders : o \in Orders
    BY <1>1 DEF FilesTypeOK
  <2> QED
    BY <1>2, <1>3, <1>4, <1>5, <1>6, <1>7, <1>8, <1>9, <1>10, <1>11, <1>12, <1>13, <1>14, <2>1
    DEF Next, Work, ClearGoesOn

-----------------------------------------------------------------------------
(* The theorems *)

(* Every reachable state of the files satisfies the inductive invariant.   *)
THEOREM FilesInvariant == Spec => []FilesInv
<1>1. Init => FilesInv
  BY FilesInit
<1>2. FilesInv /\ [Next]_vars => FilesInv'
  BY FilesStep
<1> QED
  BY <1>1, <1>2, PTL DEF Spec

(* Type correctness of the files of orders, attempts and the clear.        *)
THEOREM FilesTypeCorrect == Spec => []FilesTypeOK
<1>1. FilesInv => FilesTypeOK
  BY DEF FilesInv
<1> QED
  BY <1>1, FilesInvariant, PTL

(* The rows of an order's version are one for each entry of its ingest.    *)
THEOREM RowsCorrect == Spec => []RowsFollowIngest
<1>1. FilesInv => RowsFollowIngest
  BY DEF FilesInv
<1> QED
  BY <1>1, FilesInvariant, PTL

(* An order handed to the audit has text and no unprocessed file.          *)
THEOREM ReadyCorrect == Spec => []ReadyHasText
<1>1. FilesInv => ReadyHasText
  BY DEF FilesInv
<1> QED
  BY <1>1, FilesInvariant, PTL

(* No committed row names an object that was not uploaded.                 *)
THEOREM StoredCorrect == Spec => []StoredBeforeReferenced
<1>1. FilesInv => StoredBeforeReferenced
  BY DEF FilesInv, ContentRight, StoredBeforeReferenced
<1> QED
  BY <1>1, FilesInvariant, PTL

(* Deduplication keeps the parse status a function of the content.         *)
THEOREM ParsedCorrect == Spec => []ParsedAsContent
<1>1. FilesInv => ParsedAsContent
  BY DEF FilesInv, ContentRight, ParsedAsContent
<1> QED
  BY <1>1, FilesInvariant, PTL

(* A clear leaves no row and no attempt of the orders it deleted.          *)
THEOREM ClearCorrect == Spec => []NothingOutlivesClear
<1>1. FilesInv => NothingOutlivesClear
  BY DEF FilesInv, RowsBelong, ClearRight, AttemptRight, NothingOutlivesClear, Locked,
     Working, Present
<1> QED
  BY <1>1, FilesInvariant, PTL

(* No step touches a row of an earlier version of an order that exists.    *)
LEMMA FrozenStep ==
  ASSUME FilesInv, [Next]_vars, NEW o \in Orders, Present(o), status'[o] # "ABSENT"
  PROVE  OldRows(o) = {r \in files' : r.order = o /\ r.version < version[o]}
<1>1. FilesTypeOK /\ version[o] \in Nat
  BY DEF FilesInv, FilesTypeOK
<1>2. ASSUME files' = files
      PROVE  OldRows(o) = {r \in files' : r.order = o /\ r.version < version[o]}
  BY <1>2 DEF OldRows
<1>3. ASSUME NEW x \in Orders, NEW entries \in Requests[x], Ingest(x, entries)
      PROVE  OldRows(o) = {r \in files' : r.order = o /\ r.version < version[o]}
  <2>1. files' = files \cup {PendingRow(x, version[x] + 1, f) : f \in entries}
    BY <1>3 DEF Ingest
  <2>2. \A f : /\ PendingRow(x, version[x] + 1, f).order = x
               /\ PendingRow(x, version[x] + 1, f).version = version[x] + 1
    BY DEF PendingRow
  <2>3. \A f : ~(/\ PendingRow(x, version[x] + 1, f).order = o
                 /\ PendingRow(x, version[x] + 1, f).version < version[o])
    BY <1>1, <2>2
  <2> QED
    BY <2>1, <2>3 DEF OldRows
<1>4. ASSUME NEW w \in Workers, Finish(w)
      PROVE  OldRows(o) = {r \in files' : r.order = o /\ r.version < version[o]}
  <2>1. task[w] # None /\ files' = (files \ task[w].gone) \cup task[w].made
    BY <1>4 DEF Finish, Visible
  <2>2. \A r \in task[w].gone : r.version = version[r.order]
    BY <2>1, AttemptFacts
  <2>3. \A m \in task[w].made : m.version = version[m.order]
    BY <2>1, AttemptFacts DEF AttemptRight
  <2>4. \A r \in task[w].gone \cup task[w].made : r.order = o => ~(r.version < version[o])
    BY <1>1, <2>2, <2>3
  <2> QED
    BY <2>1, <2>4 DEF OldRows
<1>5. ASSUME ClearCommit
      PROVE  OldRows(o) = {r \in files' : r.order = o /\ r.version < version[o]}
  BY <1>5 DEF ClearCommit, Cascade, OldRows
<1>6. ASSUME NEW w \in Workers, ProcessFile(w)
      PROVE  files' = files
  BY <1>6 DEF ProcessFile, FileRaises, NotPdf, Dedup, ParseNew, Block
<1>7. ASSUME NEW w \in Workers, TaskRaises(w) \/ ClearAborted(w) \/ WorkerAborted(w)
      PROVE  files' = files
  BY <1>7 DEF TaskRaises, ClearAborted, WorkerAborted
<1>8. ASSUME NEW x, Retry(x) \/ ClearLock(x) \/ \E w \in Workers : Claim(w, x)
      PROVE  files' = files
  BY <1>8 DEF Retry, ClearLock, Claim
<1>9. ASSUME NEW x, ClearBegin(x) \/ ClearFile(x)
      PROVE  files' = files
  BY <1>9 DEF ClearBegin, ClearFile
<1>10. ASSUME UNCHANGED vars PROVE files' = files
  BY <1>10 DEF vars
<1> QED
  BY <1>2, <1>3, <1>4, <1>5, <1>6, <1>7, <1>8, <1>9, <1>10 DEF Next, Work, ClearGoesOn

(* The rows of earlier versions stay as they are while their order exists. *)
THEOREM OldVersionsStay == Spec => OldVersionsFrozen
<1> DEFINE Frozen ==
      \A o \in Orders : Present(o) /\ status'[o] # "ABSENT" =>
        OldRows(o) = {r \in files' : r.order = o /\ r.version < version[o]}
<1>1. FilesInv /\ [Next]_vars => Frozen
  BY FrozenStep
<1>2. OldVersionsFrozen <=> [][Frozen]_vars
  BY DEF OldVersionsFrozen
<1> QED
  BY <1>1, <1>2, FilesInvariant, PTL DEF Spec

-----------------------------------------------------------------------------
(* A worker that waits for the clear has what the clear needs              *)

DoomedInv ==
  /\ BlockedHoldsOrder
  /\ \A r \in clear.rows \cup clear.doomed : r.order \in clear.orders

(* A worker that waits for a row of the clear keeps the order's row, which *)
(* the clear has not got.                                                  *)
LEMMA BlockStep ==
  ASSUME FilesInv, DoomedInv, NEW w \in Workers, ProcessFile(w)
  PROVE  DoomedInv'
<1>1. task[w] # None /\ task[w] \in Task /\ ~task[w].blocked /\ clear' = clear
  BY TaskType DEF ProcessFile, FileRaises, NotPdf, Dedup, ParseNew, Block, Processes, FilesInv
<1>2. \A x \in Workers \ {w} : task'[x] = task[x]
  BY DEF ProcessFile, FileRaises, NotPdf, Dedup, ParseNew, Block, Replace, FilesInv, FilesTypeOK
<1>3. CASE \E r \in task[w].todo : Block(w, r)
  <2>1. PICK r \in task[w].todo : Block(w, r)
    BY <1>3
  <2>2. r \in clear.doomed /\ task'[w] = [task[w] EXCEPT !.blocked = TRUE]
    BY <2>1 DEF Block, FilesInv, FilesTypeOK
  <2>3. r.order = task[w].order /\ task[w].order \notin clear.locked
    BY <1>1 DEF FilesInv, AttemptRight, RowsOf
  <2>4. task'[w].order \in clear.orders \ clear.locked /\ task'[w].todo \cap clear.doomed # {}
    BY <1>1, <2>2, <2>3 DEF DoomedInv, Task
  <2> QED
    BY <1>1, <1>2, <2>4 DEF DoomedInv, BlockedHoldsOrder
<1>4. CASE ~\E r \in task[w].todo : Block(w, r)
  <2>1. ~task'[w].blocked
    BY <1>1, <1>4
    DEF ProcessFile, FileRaises, NotPdf, Dedup, ParseNew, Replace, FilesInv, FilesTypeOK, Task
  <2> QED
    BY <1>1, <1>2, <2>1 DEF DoomedInv, BlockedHoldsOrder
<1> QED
  BY <1>3, <1>4

LEMMA DoomedNext ==
  ASSUME FilesInv, DoomedInv, [Next]_vars
  PROVE  DoomedInv'
<1>1. FilesTypeOK
  BY DEF FilesInv
<1>2. CASE \/ \E o \in Orders : \E entries \in Requests[o] : Ingest(o, entries)
           \/ \E o \in Orders : Retry(o)
           \/ UNCHANGED vars
  BY <1>2 DEF Ingest, Retry, vars, DoomedInv, BlockedHoldsOrder
<1>3. ASSUME NEW w \in Workers, NEW o \in Orders, Claim(w, o)
      PROVE  DoomedInv'
  <2>1. task' = [task EXCEPT ![w] =
                  [order |-> o, todo |-> ToProcess(o), made |-> {}, gone |-> {},
                   raised |-> FALSE, blocked |-> FALSE]]
        /\ clear' = clear
    BY <1>3 DEF Claim
  <2>2. ~task'[w].blocked /\ \A x \in Workers \ {w} : task'[x] = task[x]
    BY <1>1, <2>1 DEF FilesTypeOK
  <2> QED
    BY <2>1, <2>2 DEF DoomedInv, BlockedHoldsOrder
<1>4. ASSUME NEW w \in Workers, ProcessFile(w)
      PROVE  DoomedInv'
  BY <1>4, BlockStep
<1>5. ASSUME NEW w \in Workers, Finish(w) \/ TaskRaises(w) \/ WorkerAborted(w)
      PROVE  DoomedInv'
  <2>1. /\ task' = [task EXCEPT ![w] = None]
        /\ clear'.orders = clear.orders /\ clear'.rows \subseteq clear.rows
        /\ clear'.doomed = clear.doomed /\ clear'.locked = clear.locked
    BY <1>1, <1>5 DEF Finish, TaskRaises, WorkerAborted, FilesTypeOK
  <2>2. task'[w] = None /\ \A x \in Workers \ {w} : task'[x] = task[x]
    BY <1>1, <2>1 DEF FilesTypeOK
  <2> QED
    BY <2>1, <2>2 DEF DoomedInv, BlockedHoldsOrder
<1>6. ASSUME NEW w \in Workers, ClearAborted(w)
      PROVE  DoomedInv'
  <2>1. /\ clear' = NoClear
        /\ task' = [x \in Workers |->
             IF task[x] = None THEN None ELSE [task[x] EXCEPT !.blocked = FALSE]]
    BY <1>6 DEF ClearAborted, Unblocked
  <2>2. ASSUME NEW x \in Workers, task'[x] # None
        PROVE  ~task'[x].blocked
    <3>1. task[x] # None /\ task[x] \in Task
      BY <1>1, <2>1, <2>2, TaskType
    <3> QED
      BY <2>1, <3>1 DEF Task
  <2> QED
    BY <2>1, <2>2 DEF DoomedInv, BlockedHoldsOrder, NoClear
<1>7. ASSUME NEW scope \in SUBSET Orders, ClearBegin(scope)
      PROVE  DoomedInv'
  <2>1. /\ clear = NoClear /\ task' = task
        /\ clear' = [orders |-> scope, rows |-> UNION {RowsOf(o) : o \in scope},
                     doomed |-> UNION {OldRows(o) : o \in scope}, locked |-> {}]
    BY <1>7 DEF ClearBegin
  <2>2. \A x \in Workers : task[x] # None => ~task[x].blocked
    BY <2>1 DEF DoomedInv, BlockedHoldsOrder, NoClear
  <2>3. \A o, r : r \in RowsOf(o) \cup OldRows(o) => r.order = o
    BY DEF RowsOf, OldRows
  <2> QED
    BY <2>1, <2>2, <2>3 DEF DoomedInv, BlockedHoldsOrder
<1>10. ASSUME NEW r \in clear.rows, ClearFile(r)
       PROVE  DoomedInv'
  <2>1. /\ task' = task
        /\ clear'.orders = clear.orders /\ clear'.rows = clear.rows \ {r}
        /\ clear'.doomed = clear.doomed \cup {r} /\ clear'.locked = clear.locked
    BY <1>1, <1>10 DEF ClearFile, FilesTypeOK
  <2>2. \A x \in Workers : task[x].todo \cap clear.doomed \subseteq task[x].todo \cap clear'.doomed
    BY <2>1
  <2> QED
    BY <2>1, <2>2 DEF DoomedInv, BlockedHoldsOrder
<1>8. ASSUME NEW o \in Orders, ClearLock(o)
      PROVE  DoomedInv'
  <2>1. /\ task' = task /\ ~Locked(o)
        /\ clear'.orders = clear.orders /\ clear'.doomed = clear.doomed
        /\ clear'.rows = clear.rows /\ clear'.locked = clear.locked \cup {o}
    BY <1>1, <1>8 DEF ClearLock, FilesTypeOK
  <2>2. \A x \in Workers : task[x] # None => task[x].order # o
    BY <2>1 DEF Locked, Working
  <2> QED
    BY <2>1, <2>2 DEF DoomedInv, BlockedHoldsOrder
<1>9. CASE ClearCommit
  <2>1. clear' = NoClear /\ task' = task /\ clear.locked = clear.orders
    BY <1>9 DEF ClearCommit
  <2>2. \A x \in Workers : task[x] # None => ~task[x].blocked
    BY <2>1 DEF DoomedInv, BlockedHoldsOrder
  <2> QED
    BY <2>1, <2>2 DEF DoomedInv, BlockedHoldsOrder, NoClear
<1> QED
  <2>1. \A o \in clear.orders : o \in Orders
    BY <1>1 DEF FilesTypeOK
  <2> QED
    BY <1>2, <1>3, <1>4, <1>5, <1>6, <1>7, <1>8, <1>9, <1>10, <2>1
    DEF Next, Work, ClearGoesOn

(* A worker that waits for the clear holds an order the clear has yet to   *)
(* get: no clear commits under it.                                         *)
THEOREM BlockedCorrect == Spec => []BlockedHoldsOrder
<1>1. Init => DoomedInv
  BY DEF Init, DoomedInv, BlockedHoldsOrder, NoClear
<1>2. FilesInv /\ DoomedInv /\ [Next]_vars => DoomedInv'
  BY DoomedNext
<1>3. DoomedInv => BlockedHoldsOrder
  BY DEF DoomedInv
<1> QED
  BY <1>1, <1>2, <1>3, FilesInvariant, PTL DEF Spec

-----------------------------------------------------------------------------
(* Why attempts are as if each were one step: what an attempt has tried    *)
(* and has still to try is what the rows of its order ask for, from the    *)
(* claim to the commit, unless a file raised and was left out.             *)
AttemptCovers(w) ==
  LET t == task[w] IN
  /\ t.todo \cup t.gone \subseteq ToProcess(t.order)
  /\ t.raised <=> t.todo \cup t.gone # ToProcess(t.order)

CoversInv ==
  /\ \A w \in Workers : task[w] # None => AttemptCovers(w)
  /\ \A o \in Orders : ~Present(o) => sent[o] = {}

LEMMA CoversInit == Init => CoversInv
BY DEF Init, CoversInv, Present

(* The attempts that a step leaves alone.                                  *)
LEMMA CoversFrame ==
  ASSUME NEW w \in Workers, AttemptCovers(w), NEW o, o = task[w].order,
         task'[w].order = o, task'[w].todo = task[w].todo,
         task'[w].gone = task[w].gone, task'[w].raised = task[w].raised,
         RowsOf(o)' = RowsOf(o)
  PROVE  AttemptCovers(w)'
<1>1. ToProcess(o)' = ToProcess(o)
  BY DEF ToProcess
<1> QED
  BY <1>1 DEF AttemptCovers

(* A worker's own step: an entry is tried, or raises and is left out.      *)
LEMMA CoversProcess ==
  ASSUME FilesInv, NEW w \in Workers, task[w] # None, AttemptCovers(w), ProcessFile(w)
  PROVE  AttemptCovers(w)'
<1> DEFINE t == task[w]
           u == task'[w]
<1>1. /\ AttemptRight(w) /\ t \in Task /\ FilesTypeOK
      /\ \A o : RowsOf(o)' = RowsOf(o)
  <2>1. files' = files /\ version' = version
    BY DEF ProcessFile, FileRaises, NotPdf, Dedup, ParseNew, Block, orderVars
  <2>2. \A o : RowsOf(o)' = RowsOf(o)
    BY <2>1 DEF RowsOf
  <2> QED
    BY <2>2, AttemptFacts DEF FilesInv
<1>2. \A o : ToProcess(o)' = ToProcess(o)
  BY <1>1 DEF ToProcess
<1>3. PICK r \in t.todo :
        \/ FileRaises(w, r)
        \/ Block(w, r)
        \/ \E p, c : Replace(w, r, p, c)
  BY DEF ProcessFile, NotPdf, Dedup, ParseNew
<1>4. CASE FileRaises(w, r)
  <2>1. /\ u.order = t.order /\ u.todo = t.todo \ {r} /\ u.gone = t.gone
        /\ u.raised = TRUE
    BY <1>1, <1>4 DEF FileRaises, FilesTypeOK, Task
  <2>2. r \in ToProcess(t.order) /\ r \notin t.gone
    BY <1>1, <1>3 DEF AttemptCovers, AttemptRight
  <2>3. u.todo \cup u.gone # ToProcess(t.order)
    BY <2>1, <2>2
  <2> QED
    BY <1>2, <2>1, <2>3 DEF AttemptCovers
<1>5. CASE Block(w, r)
  <2>1. /\ u.order = t.order /\ u.todo = t.todo /\ u.gone = t.gone
        /\ u.raised = t.raised
    BY <1>1, <1>5 DEF Block, FilesTypeOK, Task
  <2> QED
    BY <1>2, <2>1 DEF AttemptCovers
<1>6. ASSUME NEW p, NEW c, Replace(w, r, p, c) PROVE AttemptCovers(w)'
  <2>1. /\ u.order = t.order /\ u.todo = t.todo \ {r} /\ u.gone = t.gone \cup {r}
        /\ u.raised = t.raised
    BY <1>1, <1>6 DEF Replace, FilesTypeOK, Task
  <2>2. u.todo \cup u.gone = t.todo \cup t.gone
    BY <2>1, <1>3
  <2> QED
    BY <1>2, <2>1, <2>2 DEF AttemptCovers
<1> QED
  BY <1>3, <1>4, <1>5, <1>6

(* Which rows a step leaves alone, worker by worker.                       *)
LEMMA OthersKept ==
  ASSUME FilesInv, [Next]_vars, NEW w \in Workers, task'[w] # None
  PROVE  \/ \E o \in Orders : Claim(w, o)
         \/ task[w] # None /\ ProcessFile(w)
         \/ /\ task[w] # None
            /\ task'[w].order = task[w].order /\ task'[w].todo = task[w].todo
            /\ task'[w].gone = task[w].gone /\ task'[w].raised = task[w].raised
            /\ RowsOf(task[w].order)' = RowsOf(task[w].order)
<1> DEFINE Kept ==
      /\ task[w] # None
      /\ task'[w].order = task[w].order /\ task'[w].todo = task[w].todo
      /\ task'[w].gone = task[w].gone /\ task'[w].raised = task[w].raised
      /\ RowsOf(task[w].order)' = RowsOf(task[w].order)
<1>0. FilesTypeOK
  BY DEF FilesInv
<1>1. ASSUME task'[w] = task[w], UNCHANGED <<version, files>> PROVE Kept
  BY <1>1 DEF RowsOf
<1>2. ASSUME NEW o \in Orders, NEW entries \in Requests[o], Ingest(o, entries)
      PROVE  Kept
  <2>1. /\ files' = files \cup {PendingRow(o, version[o] + 1, f) : f \in entries}
        /\ version' = [version EXCEPT ![o] = @ + 1] /\ task' = task /\ ~Locked(o)
    BY <1>2 DEF Ingest
  <2>2. task[w].order \in Orders /\ task[w].order # o
    BY <2>1, <1>0, TaskType, NotLocked
  <2>3. version'[task[w].order] = version[task[w].order]
    BY <1>0, <2>1, <2>2 DEF FilesTypeOK
  <2>4. \A f : PendingRow(o, version[o] + 1, f).order = o
    BY DEF PendingRow
  <2> QED
    BY <2>1, <2>2, <2>3, <2>4 DEF RowsOf
<1>3. ASSUME NEW x \in Workers, Finish(x) PROVE Kept
  <2>1. task[x] # None /\ task' = [task EXCEPT ![x] = None]
    BY <1>3 DEF Finish
  <2>2. x # w /\ task'[w] = task[w]
    BY <1>0, <2>1 DEF FilesTypeOK
  <2>3. task[w].order # task[x].order
    BY <2>1, <2>2 DEF FilesInv, OneAttempt
  <2> QED
    BY <1>3, <2>2, <2>3, FinishRows
<1>4. ASSUME ClearCommit PROVE Kept
  <2>1. /\ task' = task /\ files' = {r \in files : r.order \notin clear.orders}
        /\ clear.locked = clear.orders
        /\ \A x \in Orders : x \notin clear.orders => version'[x] = version[x]
    BY <1>4 DEF ClearCommit, Cascade
  <2>2. task[w].order \in Orders /\ task[w].order \notin clear.orders
    BY <2>1, AttemptFacts DEF AttemptRight
  <2> QED
    BY <2>1, <2>2 DEF RowsOf
<1>5. ASSUME NEW x \in Workers, ProcessFile(x) PROVE Kept \/ (x = w /\ task[w] # None)
  <2>1. files' = files /\ version' = version /\ task[x] # None
    BY <1>5 DEF ProcessFile, FileRaises, NotPdf, Dedup, ParseNew, Block, orderVars
  <2>2. x # w => task'[w] = task[w]
    BY <1>0, <1>5
    DEF ProcessFile, FileRaises, NotPdf, Dedup, ParseNew, Block, Replace, FilesTypeOK
  <2> QED
    BY <1>1, <2>1, <2>2
<1>6. ASSUME NEW x \in Workers, TaskRaises(x) \/ WorkerAborted(x) PROVE Kept
  <2>1. UNCHANGED <<version, files>> /\ task'[w] = task[w]
    BY <1>0, <1>6 DEF TaskRaises, WorkerAborted, FilesTypeOK, orderVars
  <2> QED
    BY <1>1, <2>1
<1>7. ASSUME NEW x \in Workers, ClearAborted(x) PROVE Kept
  <2>1. UNCHANGED <<version, files>>
    BY <1>7 DEF ClearAborted, orderVars
  <2>2. task[w] # None /\ task'[w] = [task[w] EXCEPT !.blocked = FALSE]
    BY <1>7 DEF ClearAborted, Unblocked
  <2>3. task[w] \in Task
    BY <1>0, <2>2, TaskType
  <2> QED
    BY <2>1, <2>2, <2>3 DEF RowsOf, Task
<1>8. ASSUME NEW o, Retry(o) \/ ClearLock(o) PROVE Kept
  BY <1>1, <1>8 DEF Retry, ClearLock, orderVars
<1>9. ASSUME NEW x, ClearBegin(x) \/ ClearFile(x) PROVE Kept
  BY <1>1, <1>9 DEF ClearBegin, ClearFile, orderVars
<1>10. ASSUME NEW x \in Workers, NEW o \in Orders, Claim(x, o)
       PROVE  Kept \/ x = w
  <2>1. UNCHANGED <<version, files>> /\ (x # w => task'[w] = task[w])
    BY <1>0, <1>10 DEF Claim, FilesTypeOK, orderVars
  <2> QED
    BY <1>1, <2>1
<1>11. ASSUME UNCHANGED vars PROVE Kept
  BY <1>1, <1>11 DEF vars
<1> QED
  BY <1>2, <1>3, <1>4, <1>5, <1>6, <1>7, <1>8, <1>9, <1>10, <1>11 DEF Next, Work, ClearGoesOn

(* Orders that are gone have no entries.                                   *)
LEMMA AbsentEmpty ==
  ASSUME FilesInv, [Next]_vars, \A x \in Orders : ~Present(x) => sent[x] = {},
         NEW o \in Orders, ~Present(o)'
  PROVE  sent'[o] = {}
<1>0. FilesTypeOK
  BY DEF FilesInv
<1>1. ASSUME UNCHANGED <<status, sent>> PROVE sent'[o] = {}
  BY <1>1 DEF Present
<1>2. ASSUME NEW x \in Orders, NEW entries \in Requests[x], Ingest(x, entries)
      PROVE  sent'[o] = {}
  BY <1>0, <1>2 DEF Ingest, Present, FilesTypeOK
<1>3. ASSUME NEW x \in Orders, Retry(x) PROVE sent'[o] = {}
  BY <1>0, <1>3 DEF Retry, Present, FilesTypeOK
<1>4. ASSUME NEW w \in Workers, Finish(w) PROVE sent'[o] = {}
  <2>1. /\ status' = [status EXCEPT ![task[w].order] = Result(task[w])] /\ sent' = sent
        /\ Result(task[w]) # "ABSENT"
    BY <1>4 DEF Finish, Result
  <2> QED
    BY <1>0, <2>1 DEF Present, FilesTypeOK
<1>5. ASSUME ClearCommit PROVE sent'[o] = {}
  BY <1>5 DEF ClearCommit, Present
<1>6. ASSUME NEW w \in Workers, ProcessFile(w) PROVE UNCHANGED <<status, sent>>
  BY <1>6 DEF ProcessFile, FileRaises, NotPdf, Dedup, ParseNew, Block, orderVars
<1> QED
  BY <1>1, <1>2, <1>3, <1>4, <1>5, <1>6
  DEF Next, Work, Claim, TaskRaises, WorkerAborted, ClearAborted, ClearGoesOn, ClearBegin,
      ClearFile, ClearLock, orderVars, vars

LEMMA CoversNext ==
  ASSUME FilesInv, CoversInv, [Next]_vars
  PROVE  CoversInv'
<1>1. ASSUME NEW w \in Workers, task'[w] # None PROVE AttemptCovers(w)'
  <2>1. CASE \E o \in Orders : Claim(w, o)
    <3>1. PICK o \in Orders : Claim(w, o)
      BY <2>1
    <3>2. /\ task'[w].order = o /\ task'[w].todo = ToProcess(o) /\ task'[w].gone = {}
          /\ task'[w].raised = FALSE
      BY <3>1 DEF Claim, FilesInv, FilesTypeOK
    <3>3. ToProcess(o)' = ToProcess(o)
      BY <3>1 DEF Claim, ToProcess, RowsOf, orderVars
    <3> QED
      BY <3>2, <3>3 DEF AttemptCovers
  <2>2. CASE task[w] # None /\ ProcessFile(w)
    BY <2>2, CoversProcess DEF CoversInv
  <2>3. CASE /\ task[w] # None
             /\ task'[w].order = task[w].order /\ task'[w].todo = task[w].todo
             /\ task'[w].gone = task[w].gone /\ task'[w].raised = task[w].raised
             /\ RowsOf(task[w].order)' = RowsOf(task[w].order)
    BY <2>3, CoversFrame DEF CoversInv
  <2> QED
    BY <1>1, <2>1, <2>2, <2>3, OthersKept
<1>2. \A o \in Orders : ~Present(o)' => sent'[o] = {}
  BY AbsentEmpty DEF CoversInv
<1> QED
  BY <1>1, <1>2 DEF CoversInv

-----------------------------------------------------------------------------
(* Every step of the files is a step of the board or a stutter: an attempt *)
(* happens when it commits.                                                *)

Says(r) == [parse_status |-> r.parse_status, sha256 |-> r.sha256]

(* Where entries have one row, the row chosen for one of them is its row.  *)
LEMMA TheRow ==
  ASSUME NEW rows, \A r1, r2 \in rows : r1.file = r2.file => r1 = r2, NEW r \in rows
  PROVE  (CHOOSE x \in rows : x.file = r.file) = r
OBVIOUS

LEMMA OutcomeOfRow ==
  ASSUME FilesInv, NEW o \in Orders, NEW r \in RowsOf(o)
  PROVE  OutcomeOf(o, r.file) = Says(r) /\ r.file \in sent[o]
<1>1. Present(o)
  BY DEF FilesInv, RowsBelong, RowsOf
<1>2. /\ \A r1, r2 \in RowsOf(o) : r1.file = r2.file => r1 = r2
      /\ {x.file : x \in RowsOf(o)} = sent[o]
  BY <1>1 DEF FilesInv, RowsFollowIngest
<1>3. (CHOOSE x \in RowsOf(o) : x.file = r.file) = r
  BY <1>2, TheRow
<1> QED
  BY <1>2, <1>3 DEF OutcomeOf, Says

LEMMA OutcomeOfRowNext ==
  ASSUME FilesInv', NEW o \in Orders, NEW r \in RowsOf(o)'
  PROVE  OutcomeOf(o, r.file)' = Says(r) /\ r.file \in sent'[o]
<1>1. Present(o)'
  BY DEF FilesInv, RowsBelong, RowsOf
<1>2. /\ \A r1, r2 \in RowsOf(o)' : r1.file = r2.file => r1 = r2
      /\ {x.file : x \in RowsOf(o)'} = sent'[o]
  BY <1>1 DEF FilesInv, RowsFollowIngest
<1>3. (CHOOSE x \in RowsOf(o)' : x.file = r.file) = r
  BY <1>2, TheRow
<1> QED
  BY <1>2, <1>3 DEF OutcomeOf, Says

(* The entries and the outcomes of an order, when its rows stay.           *)
LEMMA BoardFrame ==
  ASSUME NEW o, sent'[o] = sent[o], RowsOf(o)' = RowsOf(o)
  PROVE  BoardOf(o)' = BoardOf(o)
BY DEF BoardOf, OutcomeOf

(* An entry is pending on the board when its row is.                       *)
LEMMA PendingSays ==
  ASSUME FilesInv, NEW r \in files
  PROVE  Says(r) = Board!Pending <=> r.parse_status = "PENDING"
<1>1. IF r.sha256 = None THEN r.parse_status \in {"PENDING", "SKIPPED"}
      ELSE r.sha256 \in Pdf /\ r.parse_status = ParseStatus[r.sha256]
  BY DEF FilesInv, FilesTypeOK, ContentRight
<1>2. r.sha256 \in Pdf => ParseStatus[r.sha256] # "PENDING"
  BY DEF Parsed
<1> QED
  BY <1>1, <1>2 DEF Says, Board!Pending

(* What the claim reads is what the board asks to try.                     *)
LEMMA TriedEntries ==
  ASSUME FilesInv, NEW o \in Orders, Present(o)
  PROVE  Board!ToTry(o) = {r.file : r \in ToProcess(o)}
<1> DEFINE pending == {r \in RowsOf(o) : r.parse_status = "PENDING"}
           entries == {f \in sent[o] : OutcomeOf(o, f) = Board!Pending}
<1>1. {r.file : r \in RowsOf(o)} = sent[o]
  BY DEF FilesInv, RowsFollowIngest
<1>2. \A r \in RowsOf(o) :
        OutcomeOf(o, r.file) = Board!Pending <=> r.parse_status = "PENDING"
  <2> SUFFICES ASSUME NEW r \in RowsOf(o)
               PROVE  OutcomeOf(o, r.file) = Board!Pending <=> r.parse_status = "PENDING"
    OBVIOUS
  <2>1. r \in files
    BY DEF RowsOf
  <2> QED
    BY <2>1, OutcomeOfRow, PendingSays
<1>3. entries = {r.file : r \in pending}
  BY <1>1, <1>2
<1>4. Board!ToTry(o) = IF entries # {} THEN entries ELSE sent[o]
  BY DEF Board!ToTry, BoardOf
<1> QED
  BY <1>1, <1>3, <1>4 DEF ToProcess

(* The statuses and the boards of the orders other than one.               *)
LEMMA BoardExcept ==
  ASSUME NEW o \in Orders, NEW b,
         BoardOf(o)' = b, \A x \in Orders : x # o => BoardOf(x)' = BoardOf(x)
  PROVE  [x \in Orders |-> BoardOf(x)]' = [[x \in Orders |-> BoardOf(x)] EXCEPT ![o] = b]
OBVIOUS

(* An ingest submits.                                                      *)
LEMMA BoardIngest ==
  ASSUME FilesInv, FilesInv', NEW o \in Orders, NEW entries \in Requests[o],
         Ingest(o, entries)
  PROVE  Board!Submit(o, entries)
<1> DEFINE made == {PendingRow(o, version[o] + 1, f) : f \in entries}
<1>1. /\ files' = files \cup made
      /\ version' = [version EXCEPT ![o] = @ + 1]
      /\ status' = [status EXCEPT ![o] = "PDF_QUEUED"]
      /\ sent' = [sent EXCEPT ![o] = entries]
  BY DEF Ingest
<1>2. FilesTypeOK
  BY DEF FilesInv
<1>3. \A f : PendingRow(o, version[o] + 1, f).order = o
  BY DEF PendingRow
<1>4. \A x \in Orders : x # o => RowsOf(x)' = RowsOf(x) /\ sent'[x] = sent[x]
  BY <1>1, <1>2, <1>3 DEF RowsOf, FilesTypeOK
<1>5. \A x \in Orders : x # o => BoardOf(x)' = BoardOf(x)
  BY <1>4, BoardFrame
<1>6. ASSUME NEW f \in entries PROVE OutcomeOf(o, f)' = Board!Pending
  <2> DEFINE r == PendingRow(o, version[o] + 1, f)
  <2>1. /\ r.order = o /\ r.version = version[o] + 1 /\ r.file = f
        /\ Says(r) = Board!Pending
    BY DEF PendingRow, Says, Board!Pending
  <2>2. r \in made
    OBVIOUS
  <2>3. version'[o] = version[o] + 1
    BY <1>1, <1>2 DEF FilesTypeOK
  <2> HIDE DEF r, made
  <2>4. r \in RowsOf(o)'
    BY <1>1, <2>1, <2>2, <2>3 DEF RowsOf
  <2> QED
    BY <2>1, <2>4, OutcomeOfRowNext
<1>7. sent'[o] = entries
  BY <1>1, <1>2 DEF FilesTypeOK
<1>8. BoardOf(o)' = Board!Fresh(entries)
  BY <1>6, <1>7 DEF BoardOf, Board!Fresh
<1> QED
  BY <1>1, <1>5, <1>8, BoardExcept DEF Board!Submit

(* The commit of an attempt is the attempt.                                *)
LEMMA BoardFinish ==
  ASSUME FilesInv, FilesInv', CoversInv, NEW w \in Workers, Finish(w)
  PROVE  \E o \in Orders :
           /\ status'[o] # status[o]
           /\ \E tried \in SUBSET Board!ToTry(o) :
                \E got \in [tried -> Board!Outcome] : Board!Attempt(o, tried, got)
<1> SUFFICES ASSUME NEW t, t = task[w], NEW o, o = t.order
             PROVE  \E x \in Orders :
                      /\ status'[x] # status[x]
                      /\ \E tried \in SUBSET Board!ToTry(x) :
                           \E got \in [tried -> Board!Outcome] : Board!Attempt(x, tried, got)
  OBVIOUS
<1> DEFINE tried == {r.file : r \in t.gone}
           MadeFor(f) == CHOOSE m \in t.made : m.file = f
           got == [f \in tried |-> Says(MadeFor(f))]
<1>1. /\ task[w] # None /\ t.todo = {} /\ sent' = sent /\ version' = version
      /\ status' = [status EXCEPT ![o] = Result(t)]
  BY DEF Finish
<1>2. /\ AttemptRight(w) /\ ContentRight(t.made) /\ t \in Task /\ o \in Orders
      /\ Present(o) /\ FilesTypeOK /\ AttemptCovers(w) /\ t.made \subseteq Row
  BY <1>1, AttemptFacts, TaskType DEF FilesInv, CoversInv
<1>3. /\ t.gone \subseteq ToProcess(o)
      /\ t.raised <=> t.gone # ToProcess(o)
  BY <1>1, <1>2 DEF AttemptCovers
<1>4. ToProcess(o) \subseteq RowsOf(o)
  BY DEF ToProcess
<1>5. /\ {r.file : r \in RowsOf(o)} = sent[o]
      /\ \A r1, r2 \in RowsOf(o) : r1.file = r2.file => r1 = r2
  BY <1>2 DEF FilesInv, RowsFollowIngest
<1>6. Board!ToTry(o) = {r.file : r \in ToProcess(o)}
  BY <1>2, TriedEntries
<1>7. tried \subseteq Board!ToTry(o) /\ (tried # Board!ToTry(o) <=> t.raised)
  <2>1. tried \subseteq Board!ToTry(o)
    BY <1>3, <1>6
  <2>2. ASSUME tried = Board!ToTry(o), NEW r \in ToProcess(o) PROVE r \in t.gone
    <3>1. PICK g \in t.gone : g.file = r.file
      BY <1>6, <2>2
    <3> QED
      BY <1>3, <1>4, <1>5, <3>1
  <2>3. t.gone = ToProcess(o) <=> tried = Board!ToTry(o)
    BY <1>3, <1>6, <2>2
  <2> QED
    BY <1>3, <2>1, <2>3
<1>8. ASSUME NEW m \in t.made
      PROVE  /\ m.file \in tried /\ MadeFor(m.file) = m
             /\ Says(m) \in Board!Outcome
             /\ m \in RowsOf(o)'
  <2>1. m.file \in tried /\ m.parse_status # "PENDING"
    BY <1>2 DEF AttemptRight
  <2>2. MadeFor(m.file) = m
    BY <1>2, TheRow DEF AttemptRight
  <2>3. IF m.sha256 = None THEN m.parse_status = "SKIPPED"
        ELSE m.sha256 \in Pdf /\ m.parse_status = ParseStatus[m.sha256]
    BY <1>2, <2>1 DEF ContentRight, FilesTypeOK
  <2>4. Says(m) \in Board!Outcome
    BY <2>3 DEF Says, Board!Outcome
  <2>5. m.order = o /\ m.version = version[o] /\ m \in files'
    BY <1>2 DEF AttemptRight, Finish, Visible
  <2> QED
    BY <1>1, <2>1, <2>2, <2>4, <2>5 DEF RowsOf
<1>9. \A f \in tried : \E m \in t.made : m.file = f
  BY <1>2 DEF AttemptRight
<1>10. got \in [tried -> Board!Outcome]
  BY <1>8, <1>9
<1>11. \A m \in t.made : m.file \in tried /\ got[m.file] = Says(m)
  BY <1>8
<1>12. {got[f].parse_status : f \in tried} = {m.parse_status : m \in t.made}
  <2>1. \A m \in t.made : m.file \in tried /\ got[m.file].parse_status = m.parse_status
    BY <1>11 DEF Says
  <2> HIDE DEF got, tried
  <2> QED
    BY <1>9, <2>1
<1>13. tried = {} <=> {m.parse_status : m \in t.made} = {}
  <2>1. tried = {} <=> t.made = {}
    BY <1>9, <1>11
  <2>2. \A m \in t.made : m.parse_status \in {n.parse_status : n \in t.made}
    OBVIOUS
  <2>3. t.made = {} => {m.parse_status : m \in t.made} = {}
    OBVIOUS
  <2> QED
    BY <2>1, <2>2, <2>3
<1>14. Board!Concluded(o, tried, got) = Result(t)
  <2> HIDE DEF got, tried
  <2> QED
    BY <1>2, <1>7, <1>12, <1>13 DEF Board!Concluded, Result
<1>15. BoardOf(o)' = [f \in sent[o] |-> IF f \in tried THEN got[f] ELSE OutcomeOf(o, f)]
  <2>1. ASSUME NEW f \in sent[o]
        PROVE  OutcomeOf(o, f)' = IF f \in tried THEN got[f] ELSE OutcomeOf(o, f)
    <3>1. CASE f \in tried
      <4>1. PICK m \in t.made : m.file = f
        BY <1>9, <3>1
      <4>2. OutcomeOf(o, m.file)' = Says(m)
        BY <1>2, <1>8, OutcomeOfRowNext
      <4> QED
        BY <1>11, <3>1, <4>1, <4>2
    <3>2. CASE f \notin tried
      <4>1. PICK r \in RowsOf(o) : r.file = f
        BY <1>5
      <4>2. r \notin t.gone
        BY <3>2, <4>1
      <4>3. r \in files'
        BY <4>2 DEF RowsOf, Finish, Visible
      <4>4. r \in RowsOf(o)'
        BY <1>1, <4>3 DEF RowsOf
      <4> QED
        BY <1>2, <3>2, <4>1, <4>4, OutcomeOfRow, OutcomeOfRowNext
    <3> QED
      BY <3>1, <3>2
  <2> QED
    BY <1>1, <2>1 DEF BoardOf
<1>16. \A x \in Orders : x # o => BoardOf(x)' = BoardOf(x)
  BY <1>1, FinishRows, BoardFrame
<1> HIDE DEF got, tried
<1>17. [x \in Orders |-> BoardOf(x)]' =
         [[x \in Orders |-> BoardOf(x)] EXCEPT ![o] =
            [f \in DOMAIN @ |-> IF f \in tried THEN got[f] ELSE @[f]]]
  <2>1. [x \in Orders |-> BoardOf(x)][o] = BoardOf(o)
    BY <1>2
  <2>2. /\ DOMAIN BoardOf(o) = sent[o]
        /\ \A f \in sent[o] : BoardOf(o)[f] = OutcomeOf(o, f)
    BY DEF BoardOf
  <2>3. BoardOf(o)' =
          [f \in DOMAIN BoardOf(o) |-> IF f \in tried THEN got[f] ELSE BoardOf(o)[f]]
    BY <1>15, <2>2
  <2> QED
    BY <1>2, <1>16, <2>1, <2>3, BoardExcept
<1>18. status[o] = "PDF_QUEUED"
  BY <1>2 DEF AttemptRight
<1>19. Board!Attempt(o, tried, got)
  BY <1>1, <1>14, <1>17, <1>18 DEF Board!Attempt
<1>20. status'[o] # status[o]
  BY <1>1, <1>2, <1>18 DEF Result, FilesTypeOK
<1> QED
  BY <1>2, <1>7, <1>10, <1>19, <1>20

(* The commit of a clear is the clear.                                     *)
LEMMA BoardClear ==
  ASSUME FilesInv, FilesInv', ClearCommit
  PROVE  \E scope \in SUBSET Orders : Board!Clear(scope)
<1> SUFFICES ASSUME NEW scope, scope = clear.orders
             PROVE  \E x \in SUBSET Orders : Board!Clear(x)
  OBVIOUS
<1>1. /\ files' = {r \in files : r.order \notin scope}
      /\ status' = [x \in Orders |-> IF x \in scope THEN "ABSENT" ELSE status[x]]
      /\ \A x \in Orders : x \notin scope => sent'[x] = sent[x] /\ version'[x] = version[x]
      /\ \A x \in Orders : x \in scope => sent'[x] = {}
  BY DEF ClearCommit, Cascade
<1>2. scope \subseteq Orders /\ \A x \in scope : status[x] # "ABSENT"
  BY DEF FilesInv, FilesTypeOK, ClearRight, Present
<1>3. \A x \in Orders : x \notin scope => BoardOf(x)' = BoardOf(x)
  <2>1. \A x \in Orders : x \notin scope => RowsOf(x)' = RowsOf(x)
    BY <1>1 DEF RowsOf
  <2> QED
    BY <1>1, <2>1, BoardFrame
<1>4. \A x \in Orders : x \in scope => BoardOf(x)' = Board!Fresh({})
  BY <1>1 DEF BoardOf, Board!Fresh
<1>5. [x \in Orders |-> BoardOf(x)]' =
        [x \in Orders |-> IF x \in scope THEN Board!Fresh({})
                          ELSE [y \in Orders |-> BoardOf(y)][x]]
  BY <1>3, <1>4
<1>6. Board!Clear(scope)
  BY <1>1, <1>2, <1>5 DEF Board!Clear, Board!Known
<1> QED
  BY <1>2, <1>6

LEMMA BoardInit ==
  ASSUME Init
  PROVE  Board!Init
<1>1. FilesInv
  BY FilesInit
<1>2. /\ status \in [Orders -> {"ABSENT", "PDF_QUEUED"}]
      /\ sent \in [Orders -> SUBSET File]
      /\ \A o \in Orders : sent[o] \in IF Board!Known(o) THEN Requests[o] ELSE {{}}
  BY DEF Init, Board!Known
<1>3. ASSUME NEW o \in Orders PROVE BoardOf(o) = Board!Fresh(sent[o])
  <2>1. ASSUME NEW f \in sent[o] PROVE OutcomeOf(o, f) = Board!Pending
    <3>1. Present(o)
      BY <1>2, <2>1 DEF Present, Board!Known
    <3>2. PICK r \in RowsOf(o) : r.file = f
      BY <1>1, <2>1, <3>1 DEF FilesInv, RowsFollowIngest
    <3>3. r \in files
      BY DEF RowsOf
    <3>4. r.parse_status = "PENDING"
      BY <3>3 DEF Init, PendingRow
    <3> QED
      BY <1>1, <3>2, <3>3, <3>4, OutcomeOfRow, PendingSays
  <2> QED
    BY <2>1 DEF BoardOf, Board!Fresh
<1>4. [o \in Orders |-> BoardOf(o)] = [o \in Orders |-> Board!Fresh(sent[o])]
  BY <1>3
<1>5. sent \in [Orders -> SUBSET File] /\ \A o \in Orders :
        sent[o] \in IF Board!Known(o) THEN Requests[o] ELSE {{}}
  BY <1>2
<1> QED
  BY <1>2, <1>4, <1>5 DEF Board!Init

LEMMA BoardStep ==
  ASSUME FilesInv, FilesInv', CoversInv, [Next]_vars
  PROVE  [Board!Next]_(Board!vars)
<1>1. ASSUME UNCHANGED <<status, version, sent, files>>
      PROVE  UNCHANGED Board!vars
  <2>1. \A o : BoardOf(o)' = BoardOf(o)
    BY <1>1, BoardFrame DEF RowsOf
  <2> QED
    BY <1>1, <2>1 DEF Board!vars
<1>2. ASSUME NEW o \in Orders, NEW entries \in Requests[o], Ingest(o, entries)
      PROVE  Board!Next
  BY <1>2, BoardIngest DEF Board!Next
<1>3. ASSUME NEW o \in Orders, Retry(o)
      PROVE  Board!Next
  <2>1. /\ status' = [status EXCEPT ![o] = "PDF_QUEUED"]
        /\ UNCHANGED <<version, sent, files>>
        /\ status[o] # "ABSENT" /\ "RECEIVED" \in ValidTransitions[status[o]]
    BY <1>3 DEF Retry, Present, CanTransition
  <2>2. status[o] = "PDF_FAILED"
    <3>1. status[o] \in {"PDF_QUEUED", "PDF_READY", "PDF_FAILED", "MANUAL_REQUIRED"}
      BY <2>1 DEF FilesInv, FilesTypeOK
    <3> QED
      BY <2>1, <3>1 DEF ValidTransitions, PipelineStatus
  <2>3. \A x : BoardOf(x)' = BoardOf(x)
    BY <2>1, BoardFrame DEF RowsOf
  <2>4. Board!Resubmit(o)
    BY <2>1, <2>2, <2>3 DEF Board!Resubmit
  <2> QED
    BY <2>4 DEF Board!Next
<1>4. ASSUME NEW w \in Workers, Finish(w)
      PROVE  Board!Next
  BY <1>4, BoardFinish DEF Board!Next
<1>5. ASSUME ClearCommit
      PROVE  Board!Next
  BY <1>5, BoardClear DEF Board!Next
<1>6. ASSUME NEW w \in Workers, ProcessFile(w)
      PROVE  UNCHANGED <<status, version, sent, files>>
  BY <1>6 DEF ProcessFile, FileRaises, NotPdf, Dedup, ParseNew, Block, orderVars
<1>7. ASSUME NEW w \in Workers, TaskRaises(w) \/ WorkerAborted(w) \/ ClearAborted(w)
      PROVE  UNCHANGED <<status, version, sent, files>>
  BY <1>7 DEF TaskRaises, WorkerAborted, ClearAborted, orderVars
<1>8. ASSUME NEW o, ClearLock(o) \/ \E w \in Workers : Claim(w, o)
      PROVE  UNCHANGED <<status, version, sent, files>>
  BY <1>8 DEF ClearLock, Claim, orderVars
<1>9. ASSUME NEW x, ClearBegin(x) \/ ClearFile(x)
      PROVE  UNCHANGED <<status, version, sent, files>>
  BY <1>9 DEF ClearBegin, ClearFile, orderVars
<1>10. ASSUME UNCHANGED vars
       PROVE  UNCHANGED <<status, version, sent, files>>
  BY <1>10 DEF vars
<1> QED
  BY <1>1, <1>2, <1>3, <1>4, <1>5, <1>6, <1>7, <1>8, <1>9, <1>10 DEF Next, Work, ClearGoesOn

(* Attempts and clears, which take many steps and overlap, are as if each  *)
(* were one: the rows implement the board, for any number of workers.      *)
THEOREM Atomic == Spec => BoardSpec
<1>1. Init => Board!Init
  BY BoardInit
<1>2. FilesInv /\ CoversInv /\ [Next]_vars => CoversInv'
  BY CoversNext
<1>3. FilesInv /\ FilesInv' /\ CoversInv /\ [Next]_vars => [Board!Next]_(Board!vars)
  BY BoardStep
<1>4. Spec => Board!Init /\ [][Board!Next]_(Board!vars)
  BY <1>1, <1>2, <1>3, CoversInit, FilesInvariant, PTL DEF Spec
<1> QED
  BY <1>4 DEF BoardSpec, Board!Spec

=============================================================================
