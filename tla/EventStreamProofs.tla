------------------------- MODULE EventStreamProofs -------------------------
(***************************************************************************)
(* Theorems about the SSE stream, for any number of writers, users, events *)
(* and lost connections, any batch size and any heartbeat interval.        *)
(***************************************************************************)
EXTENDS EventStream, SequenceTheorems, FiniteSetTheorems, TLAPS

USE StreamAssumption

(* The rows read and not yet sent are committed rows of the user above     *)
(* since_id.                                                               *)
BatchAhead == \A e \in batch : e \in committed /\ e.owner = User /\ e.id > since_id

(* A generator that ended has no rows left to yield.                       *)
ClosedEmpty == phase = "closed" => batch = {}

(* since_id has passed everything the client received, and the client's    *)
(* last id is the largest one.                                             *)
SinceAhead == \A i \in DOMAIN received : received[i] =< since_id

(* silent counts exactly what heartbeat_count counts.                      *)
SilenceCounted == silent = heartbeat_count

StreamInv ==
  /\ StreamTypeOK
  /\ BatchAhead
  /\ ClosedEmpty
  /\ SinceAhead
  /\ ReceivedInOrder
  /\ ReceivedOwn
  /\ SilenceCounted

LEMMA StreamInit == Init => StreamInv
<1> SUFFICES ASSUME Init PROVE StreamInv
  OBVIOUS
<1>1. received = <<>> /\ received \in Seq(1 .. MaxId) /\ DOMAIN received = {}
  BY DEF Init
<1> QED
  BY <1>1
  DEF Init, StreamInv, StreamTypeOK, BatchAhead, ClosedEmpty, SinceAhead, ReceivedInOrder,
      ReceivedOwn, SilenceCounted

(* A read returns committed rows of the user above since_id.               *)
LEMMA EventsSinceAhead ==
  \A e \in EventsSince : e \in committed /\ e.owner = User /\ e.id > since_id
BY DEF EventsSince, Selected

(* Counting an idle poll keeps the counter below the interval.             *)
LEMMA CountIdleBound ==
  ASSUME StreamTypeOK, SilenceCounted, CountIdle
  PROVE  heartbeat_count' \in 0 .. Interval - 1 /\ SilenceCounted' /\ silent' \in Nat
BY DEF StreamTypeOK, SilenceCounted, CountIdle

(* Sending the smallest row of the batch extends the order received.       *)
LEMMA SendStep ==
  ASSUME StreamInv, Send
  PROVE  StreamInv'
<1> USE DEF StreamInv
<1>1. PICK e \in batch :
        /\ \A f \in batch : e.id =< f.id
        /\ batch' = batch \ {e}
        /\ since_id' = IF e.id > since_id THEN e.id ELSE since_id
        /\ received' = Append(received, e.id)
        /\ heartbeat_count' = 0 /\ silent' = 0
        /\ UNCHANGED <<rowVars, phase, drops>>
  BY DEF Send
<1>2. e \in Event /\ e \in committed /\ e.owner = User /\ e.id > since_id
  BY DEF BatchAhead, StreamTypeOK
<1>3. e.id \in 1 .. MaxId /\ since_id \in 0 .. MaxId /\ received \in Seq(1 .. MaxId)
  BY <1>2 DEF Event, StreamTypeOK
<1>4. since_id' = e.id
  BY <1>1, <1>2
<1>5. /\ received' \in Seq(1 .. MaxId)
      /\ DOMAIN received = 1 .. Len(received) /\ Len(received) \in Nat
      /\ DOMAIN received' = 1 .. Len(received) + 1
      /\ \A i \in 1 .. Len(received) : received'[i] = received[i]
      /\ received'[Len(received) + 1] = e.id
  BY <1>1, <1>3, AppendProperties
<1>6. SinceAhead'
  <2> SUFFICES ASSUME NEW i \in DOMAIN received' PROVE received'[i] =< e.id
    BY <1>4 DEF SinceAhead
  <2>1. CASE i = Len(received) + 1
    BY <1>3, <1>5, <2>1
  <2>2. CASE i # Len(received) + 1
    <3>1. i \in DOMAIN received /\ received'[i] = received[i]
      BY <1>5, <2>2
    <3>2. received[i] =< since_id /\ received[i] \in 1 .. MaxId
      BY <1>3, <3>1 DEF SinceAhead
    <3> QED
      BY <1>2, <1>3, <3>1, <3>2
  <2> QED
    BY <2>1, <2>2
<1>7. ReceivedInOrder'
  <2> SUFFICES ASSUME NEW i \in DOMAIN received', NEW j \in DOMAIN received', i < j
               PROVE  received'[i] < received'[j]
    BY DEF ReceivedInOrder
  <2>1. i \in DOMAIN received /\ received'[i] = received[i]
    BY <1>5
  <2>2. CASE j = Len(received) + 1
    <3>1. received[i] =< since_id /\ received[i] \in 1 .. MaxId
      BY <1>3, <2>1 DEF SinceAhead
    <3> QED
      BY <1>2, <1>3, <1>5, <2>1, <2>2, <3>1
  <2>3. CASE j # Len(received) + 1
    <3>1. j \in DOMAIN received /\ received'[j] = received[j]
      BY <1>5, <2>3
    <3> QED
      BY <2>1, <3>1 DEF ReceivedInOrder
  <2> QED
    BY <2>2, <2>3
<1>8. ReceivedOwn'
  <2> SUFFICES ASSUME NEW i \in DOMAIN received'
               PROVE  [id |-> received'[i], owner |-> User] \in committed
    BY <1>1 DEF ReceivedOwn, rowVars
  <2>1. CASE i = Len(received) + 1
    <3>1. e = [id |-> e.id, owner |-> User]
      BY <1>2 DEF Event
    <3> QED
      BY <1>2, <1>5, <2>1, <3>1
  <2>2. CASE i # Len(received) + 1
    BY <1>5, <2>2 DEF ReceivedOwn
  <2> QED
    BY <2>1, <2>2
<1>9. BatchAhead'
  <2> SUFFICES ASSUME NEW f \in batch' PROVE f \in committed /\ f.owner = User /\ f.id > e.id
    BY <1>1, <1>4 DEF BatchAhead, rowVars
  <2>1. f \in batch /\ f # e
    BY <1>1
  <2>2. f \in Event /\ f \in committed /\ f.owner = User
    BY <2>1 DEF BatchAhead, StreamTypeOK
  <2>3. f.id # e.id
    BY <1>2, <2>1, <2>2 DEF Event
  <2>4. e.id =< f.id /\ f.id \in Nat /\ e.id \in Nat
    BY <1>1, <1>3, <2>1, <2>2 DEF Event
  <2> QED
    BY <2>2, <2>3, <2>4
<1>10. StreamTypeOK'
  BY <1>1, <1>3, <1>4, <1>5 DEF StreamTypeOK, rowVars
<1>11. SilenceCounted'
  BY <1>1 DEF SilenceCounted
<1>12. ClosedEmpty'
  BY <1>1 DEF ClosedEmpty
<1> QED
  BY <1>6, <1>7, <1>8, <1>9, <1>10, <1>11, <1>12

(* The last id of the client is the largest one it received.               *)
LEMMA LastIdLargest ==
  ASSUME StreamInv
  PROVE  /\ LastEventId \in 0 .. MaxId
         /\ \A i \in DOMAIN received : received[i] =< LastEventId
<1> USE DEF StreamInv
<1>1. received \in Seq(1 .. MaxId)
  BY DEF StreamTypeOK
<1>2. CASE received = <<>>
  <2>1. DOMAIN received = {}
    BY <1>2
  <2> QED
    BY <1>2, <2>1 DEF LastEventId
<1>3. CASE received # <<>>
  <2>1. Len(received) \in Nat \ {0} /\ DOMAIN received = 1 .. Len(received)
    BY <1>1, <1>3, EmptySeq
  <2>2. received[Len(received)] \in 1 .. MaxId
    BY <1>1, <2>1
  <2>3. LastEventId = received[Len(received)]
    BY <1>3 DEF LastEventId
  <2>4. ASSUME NEW i \in DOMAIN received
        PROVE  received[i] =< received[Len(received)]
    <3>1. received[i] \in 1 .. MaxId
      BY <1>1
    <3>2. CASE i = Len(received)
      BY <2>2, <3>2
    <3>3. CASE i < Len(received)
      BY <2>1, <2>2, <3>1, <3>3 DEF ReceivedInOrder
    <3> QED
      BY <2>1, <3>2, <3>3
  <2> QED
    BY <2>2, <2>3, <2>4
<1> QED
  BY <1>2, <1>3

LEMMA StreamNext ==
  ASSUME StreamInv, [Next]_vars
  PROVE  StreamInv'
<1> USE DEF StreamInv
<1>1. ASSUME NEW w \in Writers, NEW owner \in Users, CreateEvent(w, owner)
      PROVE  StreamInv'
  <2>1. /\ UNCHANGED <<committed, phase, since_id, batch, received, heartbeat_count,
                       silent, drops>>
        /\ nextId =< MaxId /\ nextId' = nextId + 1
        /\ open' = [open EXCEPT ![w] = @ \cup {[id |-> nextId, owner |-> owner]}]
    BY <1>1 DEF CreateEvent, streamVars
  <2>2. [id |-> nextId, owner |-> owner] \in Event
    BY <2>1 DEF StreamTypeOK, Event
  <2>3. open' \in [Writers -> SUBSET Event] /\ nextId' \in 1 .. MaxId + 1
    BY <2>1, <2>2 DEF StreamTypeOK
  <2>4. StreamTypeOK'
    BY <2>1, <2>3 DEF StreamTypeOK
  <2> QED
    BY <2>1, <2>4
    DEF BatchAhead, ClosedEmpty, SinceAhead, ReceivedInOrder, ReceivedOwn, SilenceCounted
<1>2. ASSUME NEW w \in Writers, Commit(w) \/ Rollback(w)
      PROVE  StreamInv'
  <2>1. /\ UNCHANGED <<nextId, phase, since_id, batch, received, heartbeat_count,
                       silent, drops>>
        /\ open' = [open EXCEPT ![w] = {}]
        /\ committed \subseteq committed'
        /\ committed' \subseteq committed \cup open[w]
    BY <1>2 DEF Commit, Rollback, streamVars
  <2>2. StreamTypeOK'
    BY <2>1 DEF StreamTypeOK
  <2> QED
    BY <2>1, <2>2
    DEF BatchAhead, ClosedEmpty, SinceAhead, ReceivedInOrder, ReceivedOwn, SilenceCounted
<1>3. CASE CatchUp \/ Poll
  <2>1. /\ UNCHANGED <<nextId, open, committed, since_id, received, drops>>
        /\ batch' = EventsSince
        /\ phase' = "loop"
    BY <1>3 DEF CatchUp, Poll, rowVars
  <2>2. BatchAhead'
    BY <2>1, EventsSinceAhead DEF BatchAhead
  <2>3. heartbeat_count' \in 0 .. Interval - 1 /\ SilenceCounted' /\ silent' \in Nat
    BY <1>3, CountIdleBound DEF CatchUp, Poll, StreamTypeOK, SilenceCounted
  <2>4. batch' \subseteq Event
    BY <2>1 DEF EventsSince, Selected, StreamTypeOK
  <2>5. StreamTypeOK'
    BY <2>1, <2>3, <2>4 DEF StreamTypeOK
  <2> QED
    BY <2>1, <2>2, <2>3, <2>5 DEF ClosedEmpty, SinceAhead, ReceivedInOrder, ReceivedOwn
<1>4. CASE Send
  BY <1>4, SendStep
<1>5. CASE Drop
  BY <1>5
  DEF Drop, rowVars, StreamTypeOK, BatchAhead, ClosedEmpty, SinceAhead, ReceivedInOrder,
      ReceivedOwn, SilenceCounted
<1>6. CASE Reconnect
  <2>1. /\ UNCHANGED <<nextId, open, committed, batch, received, drops>>
        /\ phase' = "catch_up" /\ heartbeat_count' = 0 /\ silent' = 0
        /\ since_id' = LastEventId
    BY <1>6 DEF Reconnect, rowVars
  <2>2. StreamTypeOK'
    BY <2>1, LastIdLargest DEF StreamTypeOK
  <2>3. SinceAhead'
    BY <2>1, LastIdLargest DEF SinceAhead
  <2>4. batch = {}
    BY <1>6 DEF Reconnect, ClosedEmpty
  <2> QED
    BY <2>1, <2>2, <2>3, <2>4 DEF BatchAhead, ClosedEmpty, ReceivedInOrder, ReceivedOwn, SilenceCounted
<1>7. CASE UNCHANGED vars
  BY <1>7
  DEF vars, StreamTypeOK, BatchAhead, ClosedEmpty, SinceAhead, ReceivedInOrder, ReceivedOwn,
      SilenceCounted
<1> QED
  BY <1>1, <1>2, <1>3, <1>4, <1>5, <1>6, <1>7 DEF Next

LEMMA StreamSafety == Spec => []StreamInv
<1> QED
  BY StreamInit, StreamNext, PTL DEF Spec

(* The generator's batch, position and idle counter keep their types, and  *)
(* no more polls pass without a byte than the heartbeat allows.            *)
THEOREM StreamTypeCorrect == Spec => []StreamTypeOK
<1>1. StreamInv => StreamTypeOK
  BY DEF StreamInv
<1> QED
  BY <1>1, StreamSafety, PTL

(* Whatever the writers do, the client receives its own committed events   *)
(* in id order, none of them twice, across lost connections.               *)
THEOREM InOrder == Spec => []ReceivedInOrder
<1>1. StreamInv => ReceivedInOrder
  BY DEF StreamInv
<1> QED
  BY <1>1, StreamSafety, PTL

(* Every id the client received is the id of a committed event of its user. *)
THEOREM Own == Spec => []ReceivedOwn
<1>1. StreamInv => ReceivedOwn
  BY DEF StreamInv
<1> QED
  BY <1>1, StreamSafety, PTL

(* The stream never stays silent for heartbeat_interval polls.             *)
THEOREM Heartbeat == Spec => []NeverSilent
<1>1. StreamInv => NeverSilent
  BY DEF StreamInv, StreamTypeOK, SilenceCounted, NeverSilent
<1> QED
  BY <1>1, StreamSafety, PTL

-----------------------------------------------------------------------------
(* Nothing is skipped                                                      *)

(* What a read leaves behind comes after everything it returns.            *)
BatchFirst ==
  \A e \in committed, b \in batch :
    e.owner = User /\ e.id > since_id /\ e \notin batch => b.id < e.id

(* The generator stands where the client does.                             *)
InStep == since_id = LastEventId

SkipInv == StreamInv /\ CaughtUp /\ BatchFirst /\ InStep

(* An id is one row's, so a read selects from finitely many.               *)
LEMMA SelectedFinite ==
  ASSUME StreamTypeOK
  PROVE  \A T \in SUBSET Selected : IsFiniteSet(T) /\ Cardinality(T) \in Nat
<1> DEFINE f == [e \in Selected |-> e.id]
<1>1. \A e \in Selected : e.id \in 1 .. MaxId /\ e = [id |-> e.id, owner |-> User]
  BY DEF Selected, StreamTypeOK, Event
<1>2. f \in Injection(Selected, 1 .. MaxId)
  <2>1. f \in [Selected -> 1 .. MaxId]
    BY <1>1
  <2>2. \A d, e \in Selected : f[d] = f[e] => d = e
    BY <1>1
  <2> QED
    BY <2>1, <2>2 DEF Injection, IsInjective
<1>3. IsFiniteSet(1 .. MaxId)
  BY FS_Interval
<1>4. IsFiniteSet(Selected)
  BY <1>2, <1>3, FS_Injection
<1> QED
  BY <1>4, FS_Subset, FS_CardinalityType

(* A read takes the smallest ids: LIMIT cuts off only larger ones.         *)
LEMMA ReadFirst ==
  ASSUME StreamTypeOK
  PROVE  \A e \in Selected \ EventsSince, b \in EventsSince : b.id < e.id
<1> SUFFICES ASSUME NEW e \in Selected \ EventsSince, NEW b \in EventsSince, ~(b.id < e.id)
             PROVE  FALSE
  OBVIOUS
<1> DEFINE UpTo(x) == {f \in Selected : f.id =< x.id}
<1>1. b \in Selected /\ Cardinality(UpTo(b)) =< Limit /\ ~(Cardinality(UpTo(e)) =< Limit)
  BY DEF EventsSince
<1>2. \A f \in Selected : f.id \in Nat
  BY DEF Selected, StreamTypeOK, Event
<1>3. UpTo(e) \subseteq UpTo(b)
  BY <1>1, <1>2
<1>4. /\ IsFiniteSet(UpTo(b))
      /\ Cardinality(UpTo(b)) \in Nat /\ Cardinality(UpTo(e)) \in Nat
  BY SelectedFinite
<1> HIDE DEF UpTo
<1>5. Cardinality(UpTo(e)) =< Cardinality(UpTo(b))
  BY <1>3, <1>4, FS_Subset
<1> QED
  BY <1>1, <1>4, <1>5

LEMMA SkipInit == Init => SkipInv
<1> SUFFICES ASSUME Init PROVE SkipInv
  OBVIOUS
<1>1. StreamInv
  BY StreamInit
<1> QED
  BY <1>1 DEF Init, SkipInv, CaughtUp, BatchFirst, InStep, LastEventId

(* What commits in order is ahead of the position and of the batch.        *)
LEMMA SkipCommit ==
  ASSUME SkipInv, CommitsInOrder, NEW w \in Writers, Commit(w)
  PROVE  CaughtUp' /\ BatchFirst' /\ InStep'
<1> USE DEF SkipInv, StreamInv
<1>1. /\ committed' = committed \cup open[w] /\ open[w] \subseteq Event
      /\ UNCHANGED <<batch, since_id, received>>
  BY DEF Commit, streamVars, StreamTypeOK
<1>2. \A e \in open[w] : e.owner = User => since_id < e.id
  <2> SUFFICES ASSUME NEW e \in open[w], e.owner = User PROVE since_id < e.id
    OBVIOUS
  <2>1. e.id \in 1 .. MaxId
    BY <1>1 DEF Event
  <2>2. CASE received = <<>>
    BY <2>1, <2>2 DEF InStep, LastEventId
  <2>3. CASE received # <<>>
    <3>1. received \in Seq(1 .. MaxId) /\ Len(received) \in DOMAIN received
      BY <2>3, EmptySeq DEF StreamTypeOK
    <3>2. [id |-> since_id, owner |-> User] \in committed
      BY <2>3, <3>1 DEF InStep, LastEventId, ReceivedOwn
    <3> QED
      BY <3>2 DEF CommitsInOrder
  <2> QED
    BY <2>2, <2>3
<1>3. CaughtUp'
  <2> SUFFICES ASSUME NEW e \in committed', e.owner = User, e.id =< since_id
               PROVE  \E i \in DOMAIN received : received[i] = e.id
    BY <1>1 DEF CaughtUp
  <2>1. e.id \in Nat /\ since_id \in Nat
    BY <1>1 DEF StreamTypeOK, Event
  <2>2. e \in committed
    BY <1>1, <1>2, <2>1
  <2> QED
    BY <2>2 DEF CaughtUp
<1>4. BatchFirst'
  BY <1>1 DEF BatchFirst, BatchAhead, CommitsInOrder
<1>5. InStep'
  BY <1>1 DEF InStep, LastEventId
<1> QED
  BY <1>3, <1>4, <1>5

(* The smallest row of the batch is the next one for the client.           *)
LEMMA SkipSend ==
  ASSUME SkipInv, Send
  PROVE  CaughtUp' /\ BatchFirst' /\ InStep'
<1> USE DEF SkipInv, StreamInv
<1>1. PICK e \in batch :
        /\ \A f \in batch : e.id =< f.id
        /\ batch' = batch \ {e}
        /\ since_id' = IF e.id > since_id THEN e.id ELSE since_id
        /\ received' = Append(received, e.id)
        /\ UNCHANGED <<rowVars, phase, drops>>
  BY DEF Send
<1>2. /\ e.id \in 1 .. MaxId /\ e.id > since_id /\ since_id' = e.id
      /\ received \in Seq(1 .. MaxId) /\ committed' = committed
      /\ since_id \in Nat /\ \A f \in committed : f.id \in Nat
  BY <1>1 DEF BatchAhead, StreamTypeOK, Event, rowVars
<1>3. /\ DOMAIN received = 1 .. Len(received) /\ Len(received) \in Nat
      /\ Len(received') = Len(received) + 1 /\ received' # <<>>
      /\ DOMAIN received' = 1 .. Len(received) + 1
      /\ \A i \in 1 .. Len(received) : received'[i] = received[i]
      /\ received'[Len(received) + 1] = e.id
  BY <1>1, <1>2, AppendProperties
<1>4. CaughtUp'
  <2> SUFFICES ASSUME NEW f \in committed, f.owner = User, f.id =< e.id
               PROVE  \E i \in DOMAIN received' : received'[i] = f.id
    BY <1>2 DEF CaughtUp
  <2>1. CASE f.id =< since_id
    BY <1>3, <2>1 DEF CaughtUp
  <2>2. CASE f.id > since_id
    <3>1. f \in batch
      BY <1>2, <2>2 DEF BatchFirst
    <3>2. f.id = e.id
      BY <1>1, <1>2, <3>1
    <3> QED
      BY <1>3, <3>2
  <2> QED
    BY <1>2, <2>1, <2>2
<1>5. BatchFirst'
  <2> SUFFICES ASSUME NEW f \in committed, NEW b \in batch', f.owner = User, f.id > e.id,
                      f \notin batch'
               PROVE  b.id < f.id
    BY <1>2 DEF BatchFirst
  <2>1. b \in batch /\ f \notin batch /\ f.id > since_id
    BY <1>1, <1>2
  <2> QED
    BY <2>1 DEF BatchFirst
<1>6. InStep'
  BY <1>2, <1>3 DEF InStep, LastEventId
<1> QED
  BY <1>4, <1>5, <1>6

LEMMA SkipNext ==
  ASSUME SkipInv, [Next]_vars, CommitsInOrder
  PROVE  SkipInv'
<1>1. StreamInv'
  BY StreamNext DEF SkipInv
<1> SUFFICES CaughtUp' /\ BatchFirst' /\ InStep'
  BY <1>1 DEF SkipInv
<1>2. ASSUME NEW w \in Writers, Commit(w)
      PROVE  CaughtUp' /\ BatchFirst' /\ InStep'
  BY <1>2, SkipCommit
<1>3. CASE \E w \in Writers : (\E owner \in Users : CreateEvent(w, owner)) \/ Rollback(w)
  BY <1>3
  DEF CreateEvent, Rollback, streamVars, SkipInv, CaughtUp, BatchFirst, InStep, LastEventId
<1>4. CASE CatchUp \/ Poll
  <2>1. UNCHANGED <<committed, since_id, received>> /\ batch' = EventsSince
    BY <1>4 DEF CatchUp, Poll, rowVars
  <2>2. \A e \in Selected \ EventsSince, b \in EventsSince : b.id < e.id
    BY ReadFirst DEF SkipInv, StreamInv
  <2>3. BatchFirst'
    BY <2>1, <2>2 DEF BatchFirst, Selected
  <2> QED
    BY <2>1, <2>3 DEF SkipInv, CaughtUp, InStep, LastEventId
<1>5. CASE Send
  BY <1>5, SkipSend
<1>6. CASE Drop
  BY <1>6 DEF Drop, rowVars, SkipInv, CaughtUp, BatchFirst, InStep, LastEventId
<1>7. CASE Reconnect
  <2>1. UNCHANGED <<committed, batch, received>> /\ since_id' = since_id
    BY <1>7 DEF Reconnect, rowVars, SkipInv, InStep
  <2> QED
    BY <2>1 DEF SkipInv, CaughtUp, BatchFirst, InStep, LastEventId
<1>8. CASE UNCHANGED vars
  BY <1>8 DEF vars, SkipInv, CaughtUp, BatchFirst, InStep, LastEventId
<1> QED
  BY <1>2, <1>3, <1>4, <1>5, <1>6, <1>7, <1>8 DEF Next

(* As long as the user's transactions become visible in the order of their *)
(* ids, the client holds every committed event up to its position: neither *)
(* LIMIT, nor rows that commit between a read and its yields, nor a lost   *)
(* connection makes the stream pass one over.                              *)
THEOREM NoneSkipped == Spec => NothingSkipped
<1> QED
  BY SkipInit, SkipNext, PTL DEF Spec, NothingSkipped, SkipInv

=============================================================================
