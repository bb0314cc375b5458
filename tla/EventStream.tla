---------------------------- MODULE EventStream ----------------------------
(***************************************************************************)
(* The event table and the SSE stream over it: transactions append events  *)
(* (event_repository.create_event), a generator polls for those above the  *)
(* largest id it has sent (event_service.event_stream), and a client that  *)
(* loses its connection comes back with the last id it received.           *)
(*                                                                         *)
(* An id is taken from the sequence when the row is flushed and the row is *)
(* visible when its transaction commits, so ids can appear out of order.   *)
(***************************************************************************)
EXTENDS Naturals, Sequences, FiniteSets

CONSTANTS
  Writers,     \* transactions that create events
  Users,       \* owners of the events
  User,        \* the user whose stream this is (scope "own")
  Limit,       \* rows of one get_events_since
  Interval,    \* heartbeat_interval
  MaxId,       \* bound: events
  MaxDrops     \* bound: lost connections

ASSUME StreamAssumption ==
  /\ User \in Users
  /\ Limit \in Nat \ {0} /\ Interval \in Nat \ {0}
  /\ MaxId \in Nat /\ MaxDrops \in Nat

Event == [id : 1 .. MaxId, owner : Users]

VARIABLES
  nextId,          \* the sequence behind order_events.id
  open,            \* rows each writer has flushed and not committed
  committed,       \* visible rows
  phase,           \* the generator: closed, before its catch-up, in its loop
  since_id,        \* its local variable
  batch,           \* rows of the current read, not yet yielded
  received,        \* ids the client received, in order
  heartbeat_count, \* its local variable
  silent,          \* polls of the loop in a row without a byte to the client
  drops

rowVars == <<nextId, open, committed>>
streamVars == <<phase, since_id, batch, received, heartbeat_count, silent, drops>>
vars == <<nextId, open, committed, phase, since_id, batch, received,
          heartbeat_count, silent, drops>>

Init ==
  /\ nextId = 1
  /\ open = [w \in Writers |-> {}]
  /\ committed = {}
  /\ phase = "catch_up"
  /\ since_id = 0
  /\ batch = {}
  /\ received = <<>>
  /\ heartbeat_count = 0
  /\ silent = 0
  /\ drops = 0

-----------------------------------------------------------------------------
(* Writers *)

CreateEvent(w, owner) ==
  /\ nextId =< MaxId
  /\ open' = [open EXCEPT ![w] = @ \cup {[id |-> nextId, owner |-> owner]}]
  /\ nextId' = nextId + 1
  /\ UNCHANGED <<committed, streamVars>>

Commit(w) ==
  /\ open[w] # {}
  /\ committed' = committed \cup open[w]
  /\ open' = [open EXCEPT ![w] = {}]
  /\ UNCHANGED <<nextId, streamVars>>

(* The ids of a transaction that fails are never used again.               *)
Rollback(w) ==
  /\ open[w] # {}
  /\ open' = [open EXCEPT ![w] = {}]
  /\ UNCHANGED <<nextId, committed, streamVars>>

-----------------------------------------------------------------------------
(* The stream *)

(* MUTANT of Selected: id >= since_id.                                     *)
SelectedAgain == {e \in committed : e.id >= since_id /\ e.owner = User}

(* MUTANT of Selected: every owner's events.                               *)
SelectedAll == {e \in committed : e.id > since_id}

Selected == {e \in committed : e.id > since_id /\ e.owner = User}

(* MUTANT of EventsSince: ORDER BY id DESC.                                *)
EventsLatest ==
  {e \in Selected : Cardinality({f \in Selected : f.id >= e.id}) =< Limit}

(* get_events_since: ORDER BY id ASC LIMIT.                                *)
EventsSince ==
  {e \in Selected : Cardinality({f \in Selected : f.id =< e.id}) =< Limit}

(* MUTANT of CountIdle: heartbeat_count is set to 0 inside the loop.       *)
CountIdleFromZero ==
  IF 1 >= Interval
  THEN heartbeat_count' = 0 /\ silent' = 0
  ELSE heartbeat_count' = 1 /\ silent' = silent + 1

(* MUTANT of CountIdle: the heartbeat is one poll late.                    *)
CountIdleLate ==
  IF heartbeat_count >= Interval
  THEN heartbeat_count' = 0 /\ silent' = 0
  ELSE heartbeat_count' = heartbeat_count + 1 /\ silent' = silent + 1

(* A poll without events: every Interval-th of them sends a heartbeat.     *)
CountIdle ==
  IF heartbeat_count + 1 >= Interval
  THEN heartbeat_count' = 0 /\ silent' = 0
  ELSE heartbeat_count' = heartbeat_count + 1 /\ silent' = silent + 1

(* The read before the loop: nothing is counted.                           *)
CatchUp ==
  /\ phase = "catch_up"
  /\ batch' = EventsSince
  /\ phase' = "loop"
  /\ UNCHANGED <<rowVars, since_id, received, heartbeat_count, silent, drops>>

(* One read of the loop, once the rows of the last one are sent.           *)
Poll ==
  /\ phase = "loop" /\ batch = {}
  /\ batch' = EventsSince
  /\ \/ EventsSince = {} /\ CountIdle
     \/ EventsSince # {} /\ UNCHANGED <<heartbeat_count, silent>>
  /\ UNCHANGED <<rowVars, phase, since_id, received, drops>>

(* One yield of the loop over the rows read.                               *)
Send ==
  \E e \in batch :
    /\ \A f \in batch : e.id =< f.id
    /\ batch' = batch \ {e}
    /\ since_id' = IF e.id > since_id THEN e.id ELSE since_id
    /\ received' = Append(received, e.id)
    /\ heartbeat_count' = 0
    /\ silent' = 0
    /\ UNCHANGED <<rowVars, phase, drops>>

(* The connection breaks and the generator ends where it is.               *)
Drop ==
  /\ phase # "closed"
  /\ drops < MaxDrops
  /\ drops' = drops + 1
  /\ phase' = "closed"
  /\ batch' = {}
  /\ UNCHANGED <<rowVars, since_id, received, heartbeat_count, silent>>

(* stream_events with the Last-Event-ID header, 0 without one.             *)
LastEventId == IF received = <<>> THEN 0 ELSE received[Len(received)]

Reconnect ==
  /\ phase = "closed"
  /\ phase' = "catch_up"
  /\ since_id' = LastEventId
  /\ heartbeat_count' = 0
  /\ silent' = 0
  /\ UNCHANGED <<rowVars, batch, received, drops>>

-----------------------------------------------------------------------------
Next ==
  \/ \E w \in Writers :
       (\E owner \in Users : CreateEvent(w, owner)) \/ Commit(w) \/ Rollback(w)
  \/ CatchUp \/ Poll \/ Send \/ Drop \/ Reconnect

Spec == Init /\ [][Next]_vars

(* The generator runs while it is connected and a client comes back.       *)
FairSpec ==
  Spec /\ WF_vars(CatchUp) /\ WF_vars(Poll) /\ WF_vars(Send) /\ WF_vars(Reconnect)

-----------------------------------------------------------------------------
(* Properties *)

StreamTypeOK ==
  /\ nextId \in 1 .. MaxId + 1
  /\ open \in [Writers -> SUBSET Event]
  /\ committed \subseteq Event
  /\ phase \in {"closed", "catch_up", "loop"}
  /\ since_id \in 0 .. MaxId
  /\ batch \subseteq Event
  /\ received \in Seq(1 .. MaxId)
  /\ heartbeat_count \in 0 .. Interval - 1
  /\ silent \in Nat
  /\ drops \in 0 .. MaxDrops

(* Across reconnects the client sees its events in id order and none of    *)
(* them twice, so a replay cannot take a status back.                      *)
ReceivedInOrder ==
  \A i, j \in DOMAIN received : i < j => received[i] < received[j]

(* What the client sees is committed, and its own.                         *)
ReceivedOwn ==
  \A i \in DOMAIN received : [id |-> received[i], owner |-> User] \in committed

(* The user's transactions become visible in the order of their ids.       *)
CommitsInOrder ==
  \A w \in Writers : \A e \in open[w], f \in committed :
    e.owner = User /\ f.owner = User => f.id < e.id

(* The position of the stream hides no event: what it has passed it sent.  *)
CaughtUp ==
  \A e \in committed :
    e.owner = User /\ e.id =< since_id => \E i \in DOMAIN received : received[i] = e.id

(* Where no event of the user commits after one with a larger id, nothing  *)
(* is ever skipped, whatever LIMIT cuts off, whenever rows appear between  *)
(* a read and its yields, and through disconnects.                         *)
NothingSkipped == []CommitsInOrder => []CaughtUp

(* The connection never stays silent for heartbeat_interval polls.         *)
NeverSilent == silent < Interval

(* An event that is committed before the stream has passed its id, between *)
(* two reads, reaches the client, through disconnects and short batches.   *)
EventsAheadArrive ==
  \A id \in 1 .. MaxId :
    (batch = {} /\ since_id < id /\ [id |-> id, owner |-> User] \in committed)
      ~> \E i \in DOMAIN received : received[i] = id

(* "Missed event catch-up": every committed event reaches the client.      *)
CommittedArrive ==
  \A id \in 1 .. MaxId :
    [id |-> id, owner |-> User] \in committed
      ~> \E i \in DOMAIN received : received[i] = id

=============================================================================
