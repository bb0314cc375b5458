------------------------------ MODULE FileBoard ------------------------------
(***************************************************************************)
(* What the pipeline promises about the files of orders, with no worker,   *)
(* lock, upload, version or half-deleted order in sight: a board that      *)
(* shows, for each order that exists, its status and what became of each   *)
(* entry of its last ingest.  An attempt looks at the board and writes     *)
(* its outcomes on it in one step, and so does a clear.                    *)
(***************************************************************************)
CONSTANTS Orders, File, Requests, Pdf, ParseStatus, None

VARIABLES
  status,  \* of each order
  board    \* what became of the entries of each order

vars == <<status, board>>

Pending == [parse_status |-> "PENDING", sha256 |-> None]

(* Not a PDF, or a content and what the parser makes of it.                *)
Outcome ==
  {[parse_status |-> "SKIPPED", sha256 |-> None]}
    \cup {[parse_status |-> ParseStatus[pdf], sha256 |-> pdf] : pdf \in Pdf}

Fresh(entries) == [f \in entries |-> Pending]

Known(o) == status[o] # "ABSENT"

Init ==
  /\ status \in [Orders -> {"ABSENT", "PDF_QUEUED"}]
  /\ \E entries \in [Orders -> SUBSET File] :
       /\ \A o \in Orders :
            entries[o] \in IF Known(o) THEN Requests[o] ELSE {{}}
       /\ board = [o \in Orders |-> Fresh(entries[o])]

(* An ingest, whatever the order was, replaces all there was.              *)
Submit(o, entries) ==
  /\ status' = [status EXCEPT ![o] = "PDF_QUEUED"]
  /\ board' = [board EXCEPT ![o] = Fresh(entries)]

(* A retry starts from what the last attempt left on the board.            *)
Resubmit(o) ==
  /\ status[o] = "PDF_FAILED"
  /\ status' = [status EXCEPT ![o] = "PDF_QUEUED"]
  /\ UNCHANGED board

(* What an attempt tries: the entries that are pending, or else all.       *)
ToTry(o) ==
  LET pending == {f \in DOMAIN board[o] : board[o][f] = Pending}
  IN  IF pending # {} THEN pending ELSE DOMAIN board[o]

(* An entry that was left out fails the order, and so does one that cannot *)
(* be parsed, or that there is none; text in one of them is enough.        *)
Concluded(o, tried, got) ==
  LET parsed == {got[f].parse_status : f \in tried} IN
  IF tried # ToTry(o) \/ "FAILED" \in parsed \/ tried = {} THEN "PDF_FAILED"
  ELSE IF "READY" \in parsed THEN "PDF_READY"
  ELSE "MANUAL_REQUIRED"

Attempt(o, tried, got) ==
  /\ status[o] = "PDF_QUEUED"
  /\ status' = [status EXCEPT ![o] = Concluded(o, tried, got)]
  /\ board' = [board EXCEPT ![o] =
       [f \in DOMAIN @ |-> IF f \in tried THEN got[f] ELSE @[f]]]

Clear(scope) ==
  /\ \A o \in scope : Known(o)
  /\ status' = [o \in Orders |-> IF o \in scope THEN "ABSENT" ELSE status[o]]
  /\ board' = [o \in Orders |-> IF o \in scope THEN Fresh({}) ELSE board[o]]

(* An attempt is told by the status it takes the order to, from PDF_QUEUED *)
(* always another one.                                                     *)
Next ==
  \/ \E o \in Orders : \E entries \in Requests[o] : Submit(o, entries)
  \/ \E o \in Orders : Resubmit(o)
  \/ \E o \in Orders :
       /\ status'[o] # status[o]
       /\ \E tried \in SUBSET ToTry(o) :
            \E got \in [tried -> Outcome] : Attempt(o, tried, got)
  \/ \E scope \in SUBSET Orders : Clear(scope)

Spec == Init /\ [][Next]_vars

=============================================================================
