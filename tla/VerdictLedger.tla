--------------------------- MODULE VerdictLedger ---------------------------
(***************************************************************************)
(* What the pipeline promises about audit results, with no queue, worker   *)
(* or request in sight: a write-once ledger.  The version and the content  *)
(* of an order come from outside, and at most one verdict is ever entered  *)
(* for a version, on the version and the content the order has then.       *)
(***************************************************************************)
CONSTANTS Orders, Versions, Contents, Decisions

VARIABLES
  version,   \* current version of each order
  content,   \* current content of each order
  verdicts   \* what was decided, never erased

vars == <<version, content, verdicts>>

Init ==
  /\ version \in [Orders -> Versions]
  /\ content \in [Orders -> Contents]
  /\ verdicts = {}

(* An ingest replaces the content of an order and its version.             *)
Submit(o) ==
  /\ \E v \in Versions : version' = [version EXCEPT ![o] = v]
  /\ \E x \in Contents : content' = [content EXCEPT ![o] = x]
  /\ UNCHANGED verdicts

Judged(o, v) == \E r \in verdicts : r.order = o /\ r.version = v

Judge(o, decision) ==
  /\ ~Judged(o, version[o])
  /\ verdicts' = verdicts \cup
       {[order |-> o, version |-> version[o], content |-> content[o],
         decision |-> decision]}
  /\ UNCHANGED <<version, content>>

Next ==
  \E o \in Orders :
    \/ Submit(o)
    \/ \E decision \in Decisions : Judge(o, decision)

Spec == Init /\ [][Next]_vars

=============================================================================
