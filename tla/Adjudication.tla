---------------------------- MODULE Adjudication ----------------------------
(***************************************************************************)
(* Human corrections and batch confirmations of orders                     *)
(* (app/services/correction_service.py).  A correction reads the order,    *)
(* looks up the verdict and writes the order in a later statement; a batch *)
(* confirmation does this order by order in one transaction and so holds   *)
(* the row locks of the orders it has written until it commits.  The audit *)
(* task of a worker holds the row of its order in the same way.            *)
(*                                                                         *)
(* An UPDATE names only the columns whose value differs from the one read. *)
(* Ids of orders a user may not see are skipped without a step.            *)
(***************************************************************************)
EXTENDS Naturals, Sequences, FiniteSets, SequencesExt

CONSTANTS
  Orders,      \* orders visible to the users
  Clients,     \* concurrent requests
  Decisions,   \* PASS, REJECT, MANUAL_REVIEW
  Worker,      \* holder of a row's lock that is not a request
  None,        \* nobody, no decision
  Unknown,     \* "UNKNOWN"
  Corrected,   \* bound: orders that are corrected
  MaxRequests, \* bound: requests in a behaviour
  MaxList      \* bound: ids in a batch

ASSUME AdjudicationAssumption ==
  /\ None \notin Clients \cup {Worker} \cup Decisions
  /\ Unknown \notin Decisions /\ Worker \notin Clients
  /\ IsFiniteSet(Clients) /\ Corrected \subseteq Orders
  /\ MaxRequests \in Nat /\ MaxList \in Nat

(* A correction_history entry, and the payload of an order.corrected event. *)
Entry == [by : Clients, from : Decisions \cup {Unknown}, to : Decisions]

(* Committed order_events rows: a correction, or a confirmation by a user. *)
Event ==
  [type : {"order.corrected"}, order : Orders, entry : Entry]
    \cup [type : {"order.confirmed"}, order : Orders, by : Clients]

(* The task_order_ids of a batch, in any order, with repetitions.          *)
Lists == UNION {[1 .. n -> Orders] : n \in 1 .. MaxList}

VARIABLES
  verdict,      \* audit_results.decision of each order
  human,        \* orders.human_decision
  history,      \* orders.correction_history
  confirmed_by, \* orders.confirmed_by (set together with confirmed_at)
  events,       \* committed order.corrected and order.confirmed events
  lock,         \* the transaction that holds the order's row
  request,      \* what each client is in the middle of
  requests      \* requests so far (bounded by MaxRequests)

rowVars == <<human, history, confirmed_by, events>>
vars == <<verdict, human, history, confirmed_by, events, lock, request, requests>>

Init ==
  /\ verdict = [o \in Orders |-> None]
  /\ human = [o \in Orders |-> None]
  /\ history = [o \in Orders |-> <<>>]
  /\ confirmed_by = [o \in Orders |-> None]
  /\ events = <<>>
  /\ lock = [o \in Orders |-> None]
  /\ request = [c \in Clients |-> [op |-> "none"]]
  /\ requests = 0

Free(o, c) == lock[o] \in {None, c}

Unlock(c) == lock' = [o \in Orders |-> IF lock[o] = c THEN None ELSE lock[o]]

Begin(c, r) ==
  /\ request[c].op = "none"
  /\ requests < MaxRequests
  /\ request' = [request EXCEPT ![c] = r]
  /\ requests' = requests + 1
  /\ UNCHANGED <<verdict, rowVars, lock>>

Continue(c, r) ==
  /\ request' = [request EXCEPT ![c] = r]
  /\ UNCHANGED requests

(* The session commits or rolls back.                                      *)
End(c) == Continue(c, [op |-> "none"]) /\ Unlock(c)

-----------------------------------------------------------------------------
(* correct *)

CorrectRead(c, o, to) ==
  Begin(c, [op |-> "correct", order |-> o, to |-> to, looked |-> FALSE,
            human |-> human[o], history |-> history[o], verdict |-> None])

CorrectLookup(c) ==
  LET r == request[c] IN
  /\ r.op = "correct" /\ ~r.looked
  /\ Continue(c, [r EXCEPT !.looked = TRUE, !.verdict = verdict[r.order]])
  /\ UNCHANGED <<verdict, rowVars, lock>>

(* MUTANT of FromDecision: where there is no human decision there is none. *)
FromHuman(r) == r.human

(* MUTANT of FromDecision: a verdict hides the human decision.             *)
FromVerdict(r) ==
  IF r.verdict # None THEN r.verdict ELSE IF r.human # None THEN r.human ELSE Unknown

(* from_decision: what was read as the human decision, else the verdict.   *)
FromDecision(r) ==
  CASE r.human # None -> r.human
    [] r.human = None /\ r.verdict # None -> r.verdict
    [] OTHER -> Unknown

EntryOf(c) ==
  [by |-> c, from |-> FromDecision(request[c]), to |-> request[c].to]

(* MUTANT of NewHistory: the newest entry comes first.                     *)
NewestFirst(c) == <<EntryOf(c)>> \o request[c].history

NewHistory(c) == Append(request[c].history, EntryOf(c))

(* The history is written as read, plus the entry; human_decision only if  *)
(* it is another than the one read.                                        *)
CorrectWrite(c) ==
  LET r == request[c]
      o == r.order
  IN
  /\ r.op = "correct" /\ r.looked
  /\ Free(o, c)
  /\ human' = [human EXCEPT ![o] = IF r.to # r.human THEN r.to ELSE @]
  /\ history' = [history EXCEPT ![o] = NewHistory(c)]
  /\ events' = Append(events,
       [type |-> "order.corrected", order |-> o, entry |-> EntryOf(c)])
  /\ End(c)
  /\ UNCHANGED <<verdict, confirmed_by>>

-----------------------------------------------------------------------------
(* batch_confirm *)

(* next: the position in ids; wanted: read as not confirmed, to be         *)
(* written; written: the orders this transaction has confirmed so far.     *)
ConfirmBegin(c, ids) ==
  Begin(c, [op |-> "confirm", ids |-> ids, next |-> 1, wanted |-> FALSE,
            written |-> <<>>])

Confirming(c) == request[c].op = "confirm" /\ request[c].next =< Len(request[c].ids)

Current(c) == request[c].ids[request[c].next]

(* confirmed_at as the session sees it: committed, or its own write.       *)
AlreadyConfirmed(c) ==
  confirmed_by[Current(c)] # None \/ Current(c) \in Range(request[c].written)

ConfirmRead(c) ==
  LET r == request[c] IN
  /\ Confirming(c) /\ ~r.wanted
  /\ \/ AlreadyConfirmed(c) /\ Continue(c, [r EXCEPT !.next = @ + 1])
     \/ ~AlreadyConfirmed(c) /\ Continue(c, [r EXCEPT !.wanted = TRUE])
  /\ UNCHANGED <<verdict, rowVars, lock>>

(* MUTANT of ConfirmLock: the rows are not held until the commit.          *)
ConfirmUnlocked(c) == Free(Current(c), c) /\ UNCHANGED lock

(* The row lock of the UPDATE.                                             *)
ConfirmLock(c) ==
  /\ Free(Current(c), c)
  /\ lock' = [lock EXCEPT ![Current(c)] = c]

(* The flush of one order: it waits for the row, and nobody else sees it   *)
(* before the commit.                                                      *)
ConfirmWrite(c) ==
  LET r == request[c] IN
  /\ Confirming(c) /\ r.wanted
  /\ ConfirmLock(c)
  /\ Continue(c, [r EXCEPT !.next = @ + 1, !.wanted = FALSE,
                           !.written = Append(@, Current(c))])
  /\ UNCHANGED <<verdict, rowVars>>

ConfirmedEvents(c) ==
  LET w == request[c].written IN
  [i \in DOMAIN w |-> [type |-> "order.confirmed", order |-> w[i], by |-> c]]

(* MUTANT of ConfirmedRows: a row confirmed meanwhile keeps its user.      *)
ConfirmedFirst(c) ==
  [o \in Orders |->
    IF o \in Range(request[c].written) /\ confirmed_by[o] = None
    THEN c ELSE confirmed_by[o]]

ConfirmedRows(c) ==
  [o \in Orders |-> IF o \in Range(request[c].written) THEN c ELSE confirmed_by[o]]

(* The response, and the commit of all of them.                            *)
ConfirmCommit(c) ==
  LET r == request[c] IN
  /\ r.op = "confirm" /\ r.next > Len(r.ids)
  /\ confirmed_by' = ConfirmedRows(c)
  /\ events' = events \o ConfirmedEvents(c)
  /\ End(c)
  /\ UNCHANGED <<verdict, human, history>>

-----------------------------------------------------------------------------
(* The database and the workers *)

(* The request fails: nothing of it is kept.                               *)
Rollback(c) ==
  /\ request[c].op # "none"
  /\ End(c)
  /\ UNCHANGED <<verdict, rowVars>>

(* The order a client's UPDATE waits for, and who holds it.                *)
WaitsFor(c, d) ==
  \/ request[c].op = "correct" /\ request[c].looked /\ lock[request[c].order] = d
  \/ Confirming(c) /\ request[c].wanted /\ lock[Current(c)] = d

(* MUTANT of Deadlocked: the database finds none.                          *)
NeverDeadlocked(c) == FALSE

(* A cycle of transactions that wait for each other.                       *)
Deadlocked(c) ==
  \E S \in SUBSET (Clients \ {c}) :
    \A d \in S \cup {c} :
      /\ \E e \in (S \cup {c}) \ {d} : WaitsFor(d, e)
      /\ \E e \in (S \cup {c}) \ {d} : WaitsFor(e, d)

(* PostgreSQL aborts one of them: the request ends with an error.          *)
DeadlockAbort(c) ==
  /\ Deadlocked(c)
  /\ End(c)
  /\ UNCHANGED <<verdict, rowVars>>

(* A worker's audit task, from its claim to its commit.                    *)
AuditBegin(o) ==
  /\ lock[o] = None /\ verdict[o] = None
  /\ lock' = [lock EXCEPT ![o] = Worker]
  /\ UNCHANGED <<verdict, rowVars, request, requests>>

AuditCommit(o) ==
  /\ lock[o] = Worker
  /\ lock' = [lock EXCEPT ![o] = None]
  /\ verdict' \in {[verdict EXCEPT ![o] = d] : d \in Decisions \cup {None}}
  /\ UNCHANGED <<rowVars, request, requests>>

-----------------------------------------------------------------------------
Proceed(c) ==
  \/ CorrectLookup(c) \/ CorrectWrite(c)
  \/ ConfirmRead(c) \/ ConfirmWrite(c) \/ ConfirmCommit(c)
  \/ DeadlockAbort(c)

Next ==
  \/ \E c \in Clients :
       \/ \E o \in Corrected, to \in Decisions : CorrectRead(c, o, to)
       \/ \E ids \in Lists : ConfirmBegin(c, ids)
       \/ Proceed(c)
       \/ Rollback(c)
  \/ \E o \in Orders : AuditBegin(o) \/ AuditCommit(o)

Spec == Init /\ [][Next]_vars

(* A statement that can run is run, the deadlock detector among them; a    *)
(* worker ends its task; a row that keeps becoming free is had in the end  *)
(* (its waiters are served in turn).                                       *)
FairSpec ==
  /\ Spec
  /\ \A c \in Clients : SF_vars(Proceed(c))
  /\ \A o \in Orders : WF_vars(AuditCommit(o))

-----------------------------------------------------------------------------
(* Properties *)

AdjudicationTypeOK ==
  /\ verdict \in [Orders -> Decisions \cup {None}]
  /\ human \in [Orders -> Decisions \cup {None}]
  /\ \A o \in Orders : history[o] \in Seq(Entry)
  /\ confirmed_by \in [Orders -> Clients \cup {None}]
  /\ events \in Seq(Event)
  /\ lock \in [Orders -> Clients \cup {Worker, None}]
  /\ \A c \in Clients : request[c].op \in {"none", "correct", "confirm"}
  /\ requests \in 0 .. MaxRequests

Corrections(o) == {i \in DOMAIN events :
                     events[i].type = "order.corrected" /\ events[i].order = o}
Confirmations(o) == {i \in DOMAIN events :
                       events[i].type = "order.confirmed" /\ events[i].order = o}

(* What the stream tells and what the rows hold: the last correction that  *)
(* was announced is the last entry of the history, and the last            *)
(* confirmation announced names the user in confirmed_by.                  *)
(* human_decision is not always the one announced last: it is that of the  *)
(* last correction but for later ones that meant to keep the decision they *)
(* had read, whose UPDATE leaves the column to what was written meanwhile. *)
LastEventInRow ==
  \A o \in Orders :
    /\ Corrections(o) = {} => history[o] = <<>> /\ human[o] = None
    /\ \A i \in Corrections(o) :
         (\A j \in Corrections(o) : j =< i) =>
            history[o] # <<>> /\ history[o][Len(history[o])] = events[i].entry
    /\ Corrections(o) # {} =>
         \E i \in Corrections(o) :
           /\ human[o] = events[i].entry.to
           /\ \A j \in Corrections(o) :
                j > i => events[j].entry.from = events[j].entry.to
    /\ Confirmations(o) = {} <=> confirmed_by[o] = None
    /\ \A i \in Confirmations(o) :
         (\A j \in Confirmations(o) : j =< i) => confirmed_by[o] = events[i].by

(* No decision is made up: what an entry replaces is the decision of a     *)
(* correction that was announced before the entry was, or, where the       *)
(* correction read no human decision, the order's verdict or nothing. (Not *)
(* always the decision just before it: a correction may have read an older *)
(* one.)                                                                   *)
FromIsReal ==
  \A o \in Orders : \A i \in DOMAIN history[o] :
    LET entry == history[o][i] IN
    \/ i = 1 /\ entry.from \in {Unknown, verdict[o]}
    \/ \E j, k \in Corrections(o) :
         j < k /\ events[k].entry = entry /\ events[j].entry.to = entry.from

(* Each history is a chain of real corrections: every entry was announced  *)
(* in the transaction that wrote it, in the order of the entries.          *)
HistoryAnnounced ==
  \A o \in Orders : \A i, j \in DOMAIN history[o] :
    i =< j =>
      \E k, l \in Corrections(o) :
        /\ k =< l /\ (i < j => k < l)
        /\ events[k].entry = history[o][i] /\ events[l].entry = history[o][j]

(* Only one transaction's write of a row waits for its commit.             *)
WritesExclusive ==
  \A c \in Clients :
    request[c].op = "confirm" =>
      \A i \in DOMAIN request[c].written :
        /\ lock[request[c].written[i]] = c
        /\ \A j \in DOMAIN request[c].written :
             request[c].written[i] = request[c].written[j] => i = j

(* The requests under way, and what keeps none of them from its next       *)
(* statement: it needs no row, the row is to be had, or the detector       *)
(* aborts it.                                                              *)
Open == {c \in Clients : request[c].op # "none"}

CanProceed(c) ==
  \/ request[c].op = "correct" /\ (request[c].looked => Free(request[c].order, c))
  \/ request[c].op = "confirm"
       /\ (Confirming(c) /\ request[c].wanted => Free(Current(c), c))
  \/ Deadlocked(c)

(* Requests do not wait for each other, or for a transaction that has      *)
(* ended, for good: of the requests one is held up by, directly or through *)
(* others, one can take its next step or waits for a worker.               *)
NobodyStuck ==
  \A S \in SUBSET Open :
    S # {} /\ (\A c \in S, d \in Open : WaitsFor(c, d) => d \in S) =>
      \E c \in S : CanProceed(c) \/ WaitsFor(c, Worker)

(* Every request is answered: overlapping batches and the workers' long    *)
(* transactions do not block each other for good.                          *)
RequestsEnd == \A c \in Clients : request[c].op # "none" ~> request[c].op = "none"

(* "Multiple corrections accumulate in history": an entry that was written *)
(* stays (tests/acceptance/test_human_correction.py).                      *)
CorrectionsAccumulate ==
  [][\A o \in Orders : IsPrefix(history[o], history'[o])]_vars

=============================================================================
