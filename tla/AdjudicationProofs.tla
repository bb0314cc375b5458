------------------------- MODULE AdjudicationProofs -------------------------
(***************************************************************************)
(* Theorems about corrections and batch confirmations, for any numbers of  *)
(* orders, clients and requests and batches of any length.                 *)
(***************************************************************************)
EXTENDS Adjudication, SequenceTheorems, FiniteSetTheorems, WellFoundedInduction, TLAPS

USE AdjudicationAssumption

(* What a client is in the middle of.                                      *)
Request ==
  [op : {"none"}]
    \cup [op : {"correct"}, order : Orders, to : Decisions, looked : BOOLEAN,
          human : Decisions \cup {None}, history : Seq(Entry),
          verdict : Decisions \cup {None}]
    \cup [op : {"confirm"}, ids : Seq(Orders), next : Nat \ {0}, wanted : BOOLEAN,
          written : Seq(Orders)]

-----------------------------------------------------------------------------
(* Histories and what is announced, for a given list of events             *)

CorrectionsIn(es, o) ==
  {i \in DOMAIN es : es[i].type = "order.corrected" /\ es[i].order = o}

ConfirmationsIn(es, o) ==
  {i \in DOMAIN es : es[i].type = "order.confirmed" /\ es[i].order = o}

(* HistoryAnnounced of one history.                                        *)
AnnouncedIn(es, h, o) ==
  \A i, j \in DOMAIN h :
    i =< j =>
      \E k, l \in CorrectionsIn(es, o) :
        /\ k =< l /\ (i < j => k < l)
        /\ es[k].entry = h[i] /\ es[l].entry = h[j]

(* A decision that an announced correction made.                           *)
Backed(es, d, o) == \E j \in CorrectionsIn(es, o) : es[j].entry.to = d

(* An announced entry that replaced a decision announced before it.        *)
Replaced(es, n, o) ==
  \E j, k \in CorrectionsIn(es, o) :
    j < k /\ es[k].entry = n /\ es[j].entry.to = n.from

(* FromIsReal of one history.                                              *)
RealIn(es, v, h, o) ==
  \A i \in DOMAIN h :
    (i = 1 /\ h[i].from \in {Unknown, v}) \/ Replaced(es, h[i], o)

(* LastEventInRow of one row.                                              *)
LastDecision(es, d, o) ==
  \E i \in CorrectionsIn(es, o) :
    /\ d = es[i].entry.to
    /\ \A j \in CorrectionsIn(es, o) : j > i => es[j].entry.from = es[j].entry.to

TellsCorrections(es, d, h, o) ==
  /\ CorrectionsIn(es, o) = {} => h = <<>> /\ d = None
  /\ \A i \in CorrectionsIn(es, o) :
       (\A j \in CorrectionsIn(es, o) : j =< i) => h # <<>> /\ h[Len(h)] = es[i].entry
  /\ CorrectionsIn(es, o) # {} => LastDecision(es, d, o)

AgreesIn(es, d, h, by, o) ==
  /\ TellsCorrections(es, d, h, o)
  /\ ConfirmationsIn(es, o) = {} <=> by = None
  /\ \A i \in ConfirmationsIn(es, o) :
       (\A j \in ConfirmationsIn(es, o) : j =< i) => by = es[i].by

(* A human decision and a history, read together.                          *)
Consistent(es, v, d, h, o) ==
  /\ AnnouncedIn(es, h, o)
  /\ RealIn(es, v, h, o)
  /\ d # None => Backed(es, d, o)
  /\ d = None => h = <<>>

-----------------------------------------------------------------------------
RowInv(o) ==
  /\ Consistent(events, verdict[o], human[o], history[o], o)
  /\ lock[o] = Worker => verdict[o] = None

(* What a correction has read may be stale, but it was so once.            *)
ReadInv(c) ==
  LET r == request[c] IN
  r.op = "correct" =>
    /\ Consistent(events, verdict[r.order], r.human, r.history, r.order)
    /\ r.human # None => human[r.order] # None
    /\ r.verdict # None => r.verdict = verdict[r.order]

(* A batch holds the rows it has written, and has not written the one it   *)
(* is about to write.                                                      *)
HoldInv(c) ==
  LET r == request[c] IN
  r.op = "confirm" =>
    /\ \A i \in DOMAIN r.written :
         /\ lock[r.written[i]] = c
         /\ \A j \in DOMAIN r.written : r.written[i] = r.written[j] => i = j
    /\ r.wanted => r.next =< Len(r.ids) /\ \A i \in DOMAIN r.written : r.written[i] # r.ids[r.next]

RequestsTyped == request \in [Clients -> Request]

AdjudicationInv ==
  /\ AdjudicationTypeOK
  /\ history \in [Orders -> Seq(Entry)]
  /\ RequestsTyped
  /\ LastEventInRow
  /\ \A o \in Orders : RowInv(o)
  /\ \A c \in Clients : ReadInv(c) /\ HoldInv(c)

-----------------------------------------------------------------------------
(* What more events and later verdicts leave true                          *)

LEMMA RowsAgree ==
  LastEventInRow <=>
    \A o \in Orders : AgreesIn(events, human[o], history[o], confirmed_by[o], o)
BY DEF LastEventInRow, Corrections, Confirmations, AgreesIn, TellsCorrections, LastDecision,
       CorrectionsIn, ConfirmationsIn

LEMMA RowsAgreeNext ==
  LastEventInRow' <=>
    \A o \in Orders : AgreesIn(events', human'[o], history'[o], confirmed_by'[o], o)
BY DEF LastEventInRow, Corrections, Confirmations, AgreesIn, TellsCorrections, LastDecision,
       CorrectionsIn, ConfirmationsIn

(* Events that do not correct an order leave what is said of its           *)
(* corrections true.                                                       *)
LEMMA CorrectionsAgree ==
  ASSUME NEW es, NEW fs, NEW d, NEW h, NEW o, TellsCorrections(es, d, h, o),
         CorrectionsIn(fs, o) = CorrectionsIn(es, o),
         \A i \in CorrectionsIn(es, o) : fs[i] = es[i]
  PROVE  TellsCorrections(fs, d, h, o)
<1>1. ASSUME LastDecision(es, d, o) PROVE LastDecision(fs, d, o)
  <2>1. PICK i \in CorrectionsIn(es, o) :
          /\ d = es[i].entry.to
          /\ \A j \in CorrectionsIn(es, o) : j > i => es[j].entry.from = es[j].entry.to
    BY <1>1 DEF LastDecision
  <2> QED
    BY <2>1 DEF LastDecision
<1> QED
  BY <1>1 DEF TellsCorrections

LEMMA StillAgrees ==
  ASSUME NEW es, NEW fs, NEW d, NEW h, NEW by, NEW o, AgreesIn(es, d, h, by, o),
         CorrectionsIn(fs, o) = CorrectionsIn(es, o),
         \A i \in CorrectionsIn(es, o) : fs[i] = es[i],
         ConfirmationsIn(fs, o) = ConfirmationsIn(es, o),
         \A i \in ConfirmationsIn(es, o) : fs[i] = es[i]
  PROVE  AgreesIn(fs, d, h, by, o)
<1>1. TellsCorrections(fs, d, h, o)
  BY CorrectionsAgree DEF AgreesIn
<1> QED
  BY <1>1 DEF AgreesIn

LEMMA StillConsistent ==
  ASSUME NEW es, NEW fs, DOMAIN es \subseteq DOMAIN fs, \A i \in DOMAIN es : fs[i] = es[i],
         NEW v, NEW w, v # None => w = v, NEW d, NEW h \in Seq(Entry), NEW o,
         Consistent(es, v, d, h, o)
  PROVE  Consistent(fs, w, d, h, o)
<1>1. CorrectionsIn(es, o) \subseteq CorrectionsIn(fs, o)
  BY DEF CorrectionsIn
<1>2. \A k \in CorrectionsIn(es, o) : fs[k] = es[k]
  BY DEF CorrectionsIn
<1>3. AnnouncedIn(fs, h, o)
  BY <1>1, <1>2 DEF Consistent, AnnouncedIn
<1>4. \A x : Backed(es, x, o) => Backed(fs, x, o)
  BY <1>1, <1>2 DEF Backed
<1>5. \A n : Replaced(es, n, o) => Replaced(fs, n, o)
  BY <1>1, <1>2 DEF Replaced
<1>6. RealIn(fs, w, h, o)
  <2> SUFFICES ASSUME NEW i \in DOMAIN h, ~Replaced(fs, h[i], o)
               PROVE  i = 1 /\ h[i].from \in {Unknown, w}
    BY DEF RealIn
  <2>1. i = 1 /\ h[i].from \in {Unknown, v}
    BY <1>5 DEF Consistent, RealIn
  <2>2. h[i] \in Entry
    OBVIOUS
  <2>3. h[i].from \in Decisions \cup {Unknown}
    BY <2>2 DEF Entry
  <2> QED
    BY <2>1, <2>3
<1> QED
  BY <1>3, <1>4, <1>6 DEF Consistent

(* A correction adds an entry to the history it read, and announces it.    *)
LEMMA EntryAdded ==
  ASSUME NEW es \in Seq(Event), NEW o \in Orders, NEW n \in Entry, NEW h \in Seq(Entry),
         NEW v, NEW d, NEW rv, rv # None => rv = v,
         Consistent(es, v, d, h, o),
         n.from = IF d # None THEN d ELSE IF rv # None THEN rv ELSE Unknown,
         NEW fs, fs = Append(es, [type |-> "order.corrected", order |-> o, entry |-> n]),
         NEW d2, d2 # None, d2 = n.to \/ Backed(es, d2, o)
  PROVE  Consistent(fs, v, d2, Append(h, n), o)
<1> DEFINE e == [type |-> "order.corrected", order |-> o, entry |-> n]
           g == Append(h, n)
<1>1. e \in Event
  BY DEF Event
<1>2. /\ Len(es) \in Nat /\ DOMAIN es = 1 .. Len(es)
      /\ DOMAIN fs = 1 .. Len(es) + 1
      /\ \A i \in 1 .. Len(es) : fs[i] = es[i]
      /\ fs[Len(es) + 1] = e
  BY <1>1, AppendProperties
<1>3. /\ Len(h) \in Nat /\ DOMAIN h = 1 .. Len(h)
      /\ DOMAIN g = 1 .. Len(h) + 1
      /\ \A i \in 1 .. Len(h) : g[i] = h[i]
      /\ g[Len(h) + 1] = n
  BY AppendProperties
<1> HIDE DEF g
<1>4. /\ Len(es) + 1 \in CorrectionsIn(fs, o) /\ fs[Len(es) + 1].entry = n
      /\ \A k \in CorrectionsIn(fs, o) : k \in Nat
  BY <1>2 DEF CorrectionsIn
<1>5. /\ AnnouncedIn(es, h, o)
      /\ \A k \in CorrectionsIn(es, o) :
           k \in CorrectionsIn(fs, o) /\ k < Len(es) + 1 /\ fs[k] = es[k]
  BY <1>2 DEF CorrectionsIn, Consistent
<1>6. AnnouncedIn(fs, g, o)
  <2> SUFFICES ASSUME NEW i \in DOMAIN g, NEW j \in DOMAIN g, i =< j
               PROVE  \E k, l \in CorrectionsIn(fs, o) :
                        /\ k =< l /\ (i < j => k < l)
                        /\ fs[k].entry = g[i] /\ fs[l].entry = g[j]
    BY DEF AnnouncedIn
  <2>1. CASE i \in DOMAIN h /\ j \in DOMAIN h
    <3>1. PICK k \in CorrectionsIn(es, o), l \in CorrectionsIn(es, o) :
            k =< l /\ (i < j => k < l) /\ es[k].entry = h[i] /\ es[l].entry = h[j]
      BY <1>5, <2>1 DEF AnnouncedIn
    <3>2. g[i] = h[i] /\ g[j] = h[j]
      BY <1>3, <2>1
    <3>3. /\ k \in CorrectionsIn(fs, o) /\ fs[k] = es[k]
          /\ l \in CorrectionsIn(fs, o) /\ fs[l] = es[l]
      BY <1>5
    <3> QED
      BY <3>1, <3>2, <3>3
  <2>2. CASE i \in DOMAIN h /\ j = Len(h) + 1
    <3>1. PICK k \in CorrectionsIn(es, o) : es[k].entry = h[i]
      BY <1>3, <1>5, <2>2 DEF AnnouncedIn
    <3>2. k \in CorrectionsIn(fs, o) /\ k < Len(es) + 1 /\ fs[k].entry = g[i] /\ k \in Nat
      BY <1>3, <1>4, <1>5, <2>2, <3>1
    <3>3. k =< Len(es) + 1 /\ fs[Len(es) + 1].entry = g[j]
      BY <1>2, <1>3, <1>4, <2>2, <3>2
    <3> QED
      BY <1>4, <3>2, <3>3
  <2>3. CASE i = Len(h) + 1 /\ j = Len(h) + 1
    BY <1>3, <1>4, <2>3
  <2>4. (i \in DOMAIN h /\ (j \in DOMAIN h \/ j = Len(h) + 1)) \/ (i = Len(h) + 1 /\ j = Len(h) + 1)
    BY <1>3
  <2> QED
    BY <2>1, <2>2, <2>3, <2>4
<1>7. \A x : Backed(es, x, o) => Backed(fs, x, o)
  BY <1>5 DEF Backed
<1>8. Backed(fs, d2, o)
  <2>1. CASE d2 = n.to
    BY <1>4, <2>1 DEF Backed
  <2> QED
    BY <1>7, <2>1
<1>9. RealIn(fs, v, g, o)
  <2> SUFFICES ASSUME NEW i \in DOMAIN g
               PROVE  (i = 1 /\ g[i].from \in {Unknown, v}) \/ Replaced(fs, g[i], o)
    BY DEF RealIn
  <2>1. CASE i \in DOMAIN h
    <3>1. g[i] = h[i] /\ (Replaced(es, h[i], o) => Replaced(fs, h[i], o))
      BY <1>3, <1>5, <2>1 DEF Replaced
    <3> QED
      BY <2>1, <3>1 DEF Consistent, RealIn
  <2>2. CASE i = Len(h) + 1 /\ d # None
    <3>1. Backed(es, d, o) /\ n.from = d /\ g[i] = n
      BY <1>3, <2>2 DEF Consistent
    <3>2. PICK j \in CorrectionsIn(es, o) : es[j].entry.to = n.from
      BY <3>1 DEF Backed
    <3>3. j \in CorrectionsIn(fs, o) /\ j < Len(es) + 1 /\ fs[j].entry.to = n.from
      BY <1>5, <3>2
    <3>4. Replaced(fs, n, o)
      BY <1>4, <3>3 DEF Replaced
    <3> QED
      BY <3>1, <3>4
  <2>3. CASE i = Len(h) + 1 /\ d = None
    <3>1. Len(h) = 0
      BY <2>3 DEF Consistent
    <3> QED
      BY <1>3, <2>3, <3>1
  <2> QED
    BY <1>3, <2>1, <2>2, <2>3
<1> QED
  BY <1>6, <1>8, <1>9 DEF Consistent, g

-----------------------------------------------------------------------------
(* The steps                                                               *)

LEMMA AdjudicationInit == Init => AdjudicationInv
<1> SUFFICES ASSUME Init PROVE AdjudicationInv
  OBVIOUS
<1>1. /\ DOMAIN events = {} /\ events \in Seq(Event)
      /\ \A o \in Orders : history[o] = <<>> /\ DOMAIN history[o] = {} /\ history[o] \in Seq(Entry)
  BY DEF Init
<1>2. AdjudicationTypeOK /\ history \in [Orders -> Seq(Entry)]
  BY <1>1 DEF Init, AdjudicationTypeOK
<1>3. RequestsTyped
  BY DEF Init, RequestsTyped, Request
<1>4. LastEventInRow
  BY <1>1 DEF Init, LastEventInRow, Corrections, Confirmations
<1>5. \A o \in Orders : RowInv(o)
  BY <1>1 DEF Init, RowInv, Consistent, AnnouncedIn, RealIn
<1>6. \A c \in Clients : ReadInv(c) /\ HoldInv(c)
  BY DEF Init, ReadInv, HoldInv
<1> QED
  BY <1>2, <1>3, <1>4, <1>5, <1>6 DEF AdjudicationInv

(* A step of one request that writes no row.                               *)
LEMMA RequestStep ==
  ASSUME AdjudicationInv, UNCHANGED <<verdict, rowVars>>,
         NEW c \in Clients, NEW r \in Request, request' = [request EXCEPT ![c] = r],
         requests' \in 0 .. MaxRequests,
         lock' \in [Orders -> Clients \cup {Worker, None}],
         \A o \in Orders : lock'[o] = Worker => lock[o] = Worker,
         \A o \in Orders, d \in Clients \ {c} : lock[o] = d => lock'[o] = d,
         ReadInv(c)', HoldInv(c)'
  PROVE  AdjudicationInv'
<1> USE DEF AdjudicationInv, rowVars
<1>1. request \in [Clients -> Request]
  BY DEF RequestsTyped
<1>2. RequestsTyped'
  BY <1>1 DEF RequestsTyped
<1>3. \A x \in Request : x.op \in {"none", "correct", "confirm"}
  BY DEF Request
<1>4. AdjudicationTypeOK' /\ (history \in [Orders -> Seq(Entry)])'
  BY <1>2, <1>3 DEF AdjudicationTypeOK, RequestsTyped
<1>5. LastEventInRow'
  BY RowsAgree, RowsAgreeNext
<1>6. ASSUME NEW o \in Orders PROVE RowInv(o)'
  BY DEF RowInv
<1>7. ASSUME NEW d \in Clients PROVE ReadInv(d)' /\ HoldInv(d)'
  <2>1. CASE d = c
    BY <2>1
  <2>2. CASE d # c
    <3>1. request'[d] = request[d]
      BY <1>1, <2>2
    <3>2. ReadInv(d)'
      BY <3>1 DEF ReadInv
    <3>3. ASSUME request[d].op = "confirm"
          PROVE  request[d].written \in Seq(Orders)
      <4>1. request[d] \in Request
        BY <1>1
      <4> QED
        BY <3>3, <4>1 DEF Request
    <3>4. ASSUME request[d].op = "confirm", NEW i \in DOMAIN request[d].written
          PROVE  lock'[request[d].written[i]] = d
      <4>1. request[d].written[i] \in Orders
        BY <3>3, <3>4
      <4>2. lock[request[d].written[i]] = d
        BY <3>4 DEF HoldInv
      <4> QED
        BY <2>2, <4>1, <4>2
    <3>5. HoldInv(d)'
      BY <3>1, <3>4 DEF HoldInv
    <3> QED
      BY <3>2, <3>5
  <2> QED
    BY <2>1, <2>2
<1> QED
  BY <1>2, <1>4, <1>5, <1>6, <1>7

(* What a request holds.                                                   *)
LEMMA RequestFields ==
  ASSUME AdjudicationInv, NEW c \in Clients
  PROVE  /\ request[c] \in Request
         /\ request \in [Clients -> Request]
         /\ request[c].op = "correct" =>
              request[c] \in [op : {"correct"}, order : Orders, to : Decisions,
                looked : BOOLEAN, human : Decisions \cup {None}, history : Seq(Entry),
                verdict : Decisions \cup {None}]
         /\ request[c].op = "confirm" =>
              request[c] \in [op : {"confirm"}, ids : Seq(Orders), next : Nat \ {0},
                wanted : BOOLEAN, written : Seq(Orders)]
<1>1. request \in [Clients -> Request]
  BY DEF AdjudicationInv, RequestsTyped
<1>2. request[c] \in Request
  BY <1>1
<1> QED
  BY <1>1, <1>2 DEF Request

LEMMA EndStep ==
  ASSUME AdjudicationInv, NEW c \in Clients, End(c), UNCHANGED <<verdict, rowVars>>
  PROVE  AdjudicationInv'
<1>1. request \in [Clients -> Request] /\ lock \in [Orders -> Clients \cup {Worker, None}]
      /\ requests \in 0 .. MaxRequests
  BY DEF AdjudicationInv, RequestsTyped, AdjudicationTypeOK
<1>2. /\ request' = [request EXCEPT ![c] = [op |-> "none"]] /\ requests' = requests
      /\ lock' = [o \in Orders |-> IF lock[o] = c THEN None ELSE lock[o]]
  BY DEF End, Continue, Unlock
<1>3. [op |-> "none"] \in Request
  BY DEF Request
<1>4. request'[c].op = "none"
  BY <1>1, <1>2
<1>5. ReadInv(c)' /\ HoldInv(c)'
  BY <1>4 DEF ReadInv, HoldInv
<1>6. /\ lock' \in [Orders -> Clients \cup {Worker, None}]
      /\ \A o \in Orders : lock'[o] = Worker => lock[o] = Worker
      /\ \A o \in Orders, d \in Clients \ {c} : lock[o] = d => lock'[o] = d
  BY <1>1, <1>2
<1> QED
  BY <1>1, <1>2, <1>3, <1>5, <1>6, RequestStep

LEMMA CorrectReadStep ==
  ASSUME AdjudicationInv, NEW c \in Clients, NEW o \in Orders, NEW to \in Decisions,
         CorrectRead(c, o, to)
  PROVE  AdjudicationInv'
<1> DEFINE r == [op |-> "correct", order |-> o, to |-> to, looked |-> FALSE,
                 human |-> human[o], history |-> history[o], verdict |-> None]
<1>1. /\ request' = [request EXCEPT ![c] = r] /\ requests' = requests + 1
      /\ requests < MaxRequests /\ UNCHANGED <<verdict, rowVars, lock>>
  BY DEF CorrectRead, Begin
<1>2. /\ lock \in [Orders -> Clients \cup {Worker, None}] /\ requests \in 0 .. MaxRequests
      /\ human[o] \in Decisions \cup {None} /\ history[o] \in Seq(Entry)
      /\ request \in [Clients -> Request]
  BY DEF AdjudicationInv, RequestsTyped, AdjudicationTypeOK
<1>3. r \in Request
  BY <1>2 DEF Request
<1>4. request'[c] = r
  BY <1>1, <1>2
<1> HIDE DEF r
<1>5. HoldInv(c)'
  BY <1>4 DEF HoldInv, r
<1>6. Consistent(events, verdict[o], human[o], history[o], o)
  BY DEF AdjudicationInv, RowInv
<1>7. ReadInv(c)'
  BY <1>1, <1>4, <1>6 DEF ReadInv, r, rowVars
<1>8. requests' \in 0 .. MaxRequests
  BY <1>1, <1>2
<1>9. /\ lock' \in [Orders -> Clients \cup {Worker, None}]
      /\ \A x \in Orders : lock'[x] = lock[x]
  BY <1>1, <1>2
<1> QED
  BY <1>1, <1>3, <1>5, <1>7, <1>8, <1>9, RequestStep

LEMMA CorrectLookupStep ==
  ASSUME AdjudicationInv, NEW c \in Clients, CorrectLookup(c)
  PROVE  AdjudicationInv'
<1> DEFINE q == request[c]
           r == [q EXCEPT !.looked = TRUE, !.verdict = verdict[q.order]]
<1>1. /\ q.op = "correct" /\ request' = [request EXCEPT ![c] = r] /\ requests' = requests
      /\ UNCHANGED <<verdict, rowVars, lock>>
  BY DEF CorrectLookup, Continue
<1>2. /\ lock \in [Orders -> Clients \cup {Worker, None}] /\ requests \in 0 .. MaxRequests
      /\ verdict \in [Orders -> Decisions \cup {None}]
  BY DEF AdjudicationInv, AdjudicationTypeOK
<1>3. /\ request \in [Clients -> Request]
      /\ q \in [op : {"correct"}, order : Orders, to : Decisions,
                looked : BOOLEAN, human : Decisions \cup {None}, history : Seq(Entry),
                verdict : Decisions \cup {None}]
  BY <1>1, RequestFields
<1>4. /\ r \in [op : {"correct"}, order : Orders, to : Decisions,
                looked : BOOLEAN, human : Decisions \cup {None}, history : Seq(Entry),
                verdict : Decisions \cup {None}]
      /\ r.op = "correct" /\ r.order = q.order /\ r.human = q.human /\ r.history = q.history
      /\ r.verdict = verdict[q.order]
  BY <1>2, <1>3
<1>5. r \in Request
  BY <1>4 DEF Request
<1>6. request'[c] = r
  BY <1>1, <1>3
<1>7. /\ Consistent(events, verdict[q.order], q.human, q.history, q.order)
      /\ q.human # None => human[q.order] # None
  BY <1>1 DEF AdjudicationInv, ReadInv
<1> HIDE DEF r, q
<1>8. ReadInv(c)'
  BY <1>1, <1>4, <1>6, <1>7 DEF ReadInv, rowVars
<1>9. HoldInv(c)'
  BY <1>4, <1>6 DEF HoldInv
<1> QED
  BY <1>1, <1>2, <1>5, <1>8, <1>9, RequestStep

(* A batch has at least one id.                                            *)
LEMMA ListsAreSequences ==
  ASSUME NEW ids \in Lists
  PROVE  ids \in Seq(Orders) /\ Len(ids) \in Nat \ {0}
<1>1. PICK n \in 1 .. MaxList : ids \in [1 .. n -> Orders]
  BY DEF Lists
<1>2. n \in Nat
  BY <1>1
<1>3. ids \in Seq(Orders) /\ Len(ids) = n
  BY <1>1, <1>2
<1> QED
  BY <1>1, <1>3

LEMMA ConfirmBeginStep ==
  ASSUME AdjudicationInv, NEW c \in Clients, NEW ids \in Lists, ConfirmBegin(c, ids)
  PROVE  AdjudicationInv'
<1> DEFINE r == [op |-> "confirm", ids |-> ids, next |-> 1, wanted |-> FALSE, written |-> <<>>]
<1>1. /\ request' = [request EXCEPT ![c] = r] /\ requests' = requests + 1
      /\ requests < MaxRequests /\ UNCHANGED <<verdict, rowVars, lock>>
  BY DEF ConfirmBegin, Begin
<1>2. /\ lock \in [Orders -> Clients \cup {Worker, None}] /\ requests \in 0 .. MaxRequests
      /\ request \in [Clients -> Request]
  BY DEF AdjudicationInv, RequestsTyped, AdjudicationTypeOK
<1>3. r \in Request
  BY ListsAreSequences DEF Request
<1>4. request'[c] = r
  BY <1>1, <1>2
<1>5. r.op = "confirm" /\ ~r.wanted /\ DOMAIN r.written = {}
  OBVIOUS
<1> HIDE DEF r
<1>6. HoldInv(c)' /\ ReadInv(c)'
  BY <1>4, <1>5 DEF HoldInv, ReadInv
<1>7. requests' \in 0 .. MaxRequests
  BY <1>1, <1>2
<1>8. /\ lock' \in [Orders -> Clients \cup {Worker, None}]
      /\ \A x \in Orders : lock'[x] = lock[x]
  BY <1>1, <1>2
<1> QED
  BY <1>1, <1>3, <1>6, <1>7, <1>8, RequestStep

LEMMA ConfirmReadStep ==
  ASSUME AdjudicationInv, NEW c \in Clients, ConfirmRead(c)
  PROVE  AdjudicationInv'
<1> DEFINE q == request[c]
<1>1. /\ Confirming(c) /\ ~q.wanted /\ UNCHANGED <<verdict, rowVars, lock>>
      /\ requests' = requests
      /\ \/ request' = [request EXCEPT ![c] = [q EXCEPT !.next = @ + 1]]
         \/ /\ request' = [request EXCEPT ![c] = [q EXCEPT !.wanted = TRUE]]
            /\ ~AlreadyConfirmed(c)
  BY DEF ConfirmRead, Continue
<1>2. /\ lock \in [Orders -> Clients \cup {Worker, None}] /\ requests \in 0 .. MaxRequests
  BY DEF AdjudicationInv, AdjudicationTypeOK
<1>3. /\ request \in [Clients -> Request]
      /\ q \in [op : {"confirm"}, ids : Seq(Orders), next : Nat \ {0},
                wanted : BOOLEAN, written : Seq(Orders)]
      /\ q.op = "confirm" /\ q.next =< Len(q.ids)
  BY <1>1, RequestFields DEF Confirming
<1>4. \A i \in DOMAIN q.written :
        /\ lock[q.written[i]] = c
        /\ \A j \in DOMAIN q.written : q.written[i] = q.written[j] => i = j
  BY <1>3 DEF AdjudicationInv, HoldInv
<1>5. CASE request' = [request EXCEPT ![c] = [q EXCEPT !.next = @ + 1]]
  <2> DEFINE r == [q EXCEPT !.next = @ + 1]
  <2>0. q.next + 1 \in Nat \ {0}
    BY <1>3
  <2>1. /\ r \in [op : {"confirm"}, ids : Seq(Orders), next : Nat \ {0},
                wanted : BOOLEAN, written : Seq(Orders)]
        /\ r.op = "confirm" /\ ~r.wanted /\ r.written = q.written
    BY <1>1, <1>3, <2>0
  <2>2. request'[c] = r
    BY <1>3, <1>5
  <2> HIDE DEF r
  <2>3. HoldInv(c)' /\ ReadInv(c)'
    BY <1>1, <1>4, <2>1, <2>2 DEF HoldInv, ReadInv
  <2> USE DEF r
  <2> QED
    BY <1>1, <1>2, <1>5, <2>1, <2>3, RequestStep DEF Request
<1>6. CASE /\ request' = [request EXCEPT ![c] = [q EXCEPT !.wanted = TRUE]]
           /\ ~AlreadyConfirmed(c)
  <2> DEFINE r == [q EXCEPT !.wanted = TRUE]
  <2>1. /\ r \in Request /\ r.op = "confirm" /\ r.written = q.written /\ r.next = q.next
        /\ r.ids = q.ids
    BY <1>3 DEF Request
  <2>2. request'[c] = r
    BY <1>3, <1>6
  <2>3. \A i \in DOMAIN q.written : q.written[i] # q.ids[q.next]
    BY <1>3, <1>6 DEF AlreadyConfirmed, Current, Range
  <2> HIDE DEF r
  <2>4. HoldInv(c)' /\ ReadInv(c)'
    BY <1>1, <1>3, <1>4, <2>1, <2>2, <2>3 DEF HoldInv, ReadInv
  <2> USE DEF r
  <2> QED
    BY <1>1, <1>2, <1>6, <2>1, <2>4, RequestStep
<1> QED
  BY <1>1, <1>5, <1>6

LEMMA ConfirmWriteStep ==
  ASSUME AdjudicationInv, NEW c \in Clients, ConfirmWrite(c)
  PROVE  AdjudicationInv'
<1> DEFINE q == request[c]
           o == q.ids[q.next]
           r == [q EXCEPT !.next = @ + 1, !.wanted = FALSE, !.written = Append(@, o)]
<1>1. /\ Confirming(c) /\ q.wanted /\ UNCHANGED <<verdict, rowVars>>
      /\ requests' = requests /\ request' = [request EXCEPT ![c] = r]
      /\ lock[o] \in {None, c} /\ lock' = [lock EXCEPT ![o] = c]
  BY DEF ConfirmWrite, ConfirmLock, Free, Continue, Current
<1>2. /\ lock \in [Orders -> Clients \cup {Worker, None}] /\ requests \in 0 .. MaxRequests
  BY DEF AdjudicationInv, AdjudicationTypeOK
<1>3. /\ request \in [Clients -> Request]
      /\ q \in [op : {"confirm"}, ids : Seq(Orders), next : Nat \ {0},
                wanted : BOOLEAN, written : Seq(Orders)]
      /\ q.op = "confirm" /\ q.next =< Len(q.ids)
  BY <1>1, RequestFields DEF Confirming
<1>4. /\ \A i \in DOMAIN q.written :
           /\ lock[q.written[i]] = c
           /\ \A j \in DOMAIN q.written : q.written[i] = q.written[j] => i = j
      /\ \A i \in DOMAIN q.written : q.written[i] # o
  BY <1>1, <1>3 DEF AdjudicationInv, HoldInv
<1>5. o \in Orders
  BY <1>3
<1>6. /\ Append(q.written, o) \in Seq(Orders)
      /\ Len(q.written) \in Nat /\ DOMAIN q.written = 1 .. Len(q.written)
      /\ DOMAIN Append(q.written, o) = 1 .. Len(q.written) + 1
      /\ \A i \in 1 .. Len(q.written) : Append(q.written, o)[i] = q.written[i]
      /\ Append(q.written, o)[Len(q.written) + 1] = o
  BY <1>3, <1>5, AppendProperties
<1>7. /\ r \in Request /\ r.op = "confirm" /\ ~r.wanted
      /\ r.written = Append(q.written, o)
  <2>1. q.next + 1 \in Nat \ {0}
    BY <1>3
  <2>2. /\ r \in [op : {"confirm"}, ids : Seq(Orders), next : Nat \ {0},
                wanted : BOOLEAN, written : Seq(Orders)]
        /\ r.op = "confirm" /\ ~r.wanted /\ r.written = Append(q.written, o)
    BY <1>3, <1>6, <2>1
  <2> QED
    BY <2>2 DEF Request
<1>8. request'[c] = r
  BY <1>1, <1>3
<1>9. /\ lock'[o] = c
      /\ \A i \in DOMAIN q.written : lock'[q.written[i]] = c
  <2>1. \A i \in DOMAIN q.written : q.written[i] \in Orders
    BY <1>3
  <2> QED
    BY <1>1, <1>2, <1>4, <1>5, <2>1
<1>10. \A i \in DOMAIN r.written :
         /\ lock'[r.written[i]] = c
         /\ \A j \in DOMAIN r.written : r.written[i] = r.written[j] => i = j
  <2> HIDE DEF r, q, o
  <2> QED
    BY <1>4, <1>6, <1>7, <1>9
<1>11. HoldInv(c)' /\ ReadInv(c)'
  <2> HIDE DEF r, q, o
  <2> QED
    BY <1>7, <1>8, <1>10 DEF HoldInv, ReadInv
<1>12. /\ lock' \in [Orders -> Clients \cup {Worker, None}]
       /\ \A x \in Orders : lock'[x] = Worker => lock[x] = Worker
       /\ \A x \in Orders, d \in Clients \ {c} : lock[x] = d => lock'[x] = d
  BY <1>1, <1>2, <1>5
<1> HIDE DEF r, q, o
<1> QED
  BY <1>1, <1>2, <1>7, <1>11, <1>12, RequestStep

(* The order's row changes with an announcement of it.                     *)
LEMMA CorrectWriteStep ==
  ASSUME AdjudicationInv, NEW c \in Clients, CorrectWrite(c)
  PROVE  AdjudicationInv'
<1> DEFINE q == request[c]
           o == q.order
           n == EntryOf(c)
           e == [type |-> "order.corrected", order |-> o, entry |-> n]
<1>1. /\ q.op = "correct" /\ lock[o] \in {None, c}
      /\ human' = [human EXCEPT ![o] = IF q.to # q.human THEN q.to ELSE @]
      /\ history' = [history EXCEPT ![o] = Append(q.history, n)]
      /\ events' = Append(events, e)
      /\ request' = [request EXCEPT ![c] = [op |-> "none"]] /\ requests' = requests
      /\ lock' = [x \in Orders |-> IF lock[x] = c THEN None ELSE lock[x]]
      /\ UNCHANGED <<verdict, confirmed_by>>
  BY DEF CorrectWrite, Free, NewHistory, End, Continue, Unlock
<1>2. /\ request \in [Clients -> Request]
      /\ q \in [op : {"correct"}, order : Orders, to : Decisions,
                looked : BOOLEAN, human : Decisions \cup {None}, history : Seq(Entry),
                verdict : Decisions \cup {None}]
  BY <1>1, RequestFields
<1>3. /\ lock \in [Orders -> Clients \cup {Worker, None}]
      /\ human \in [Orders -> Decisions \cup {None}]
      /\ verdict \in [Orders -> Decisions \cup {None}]
      /\ history \in [Orders -> Seq(Entry)]
      /\ events \in Seq(Event)
      /\ AdjudicationTypeOK /\ LastEventInRow
      /\ \A x \in Orders : RowInv(x)
      /\ \A d \in Clients : ReadInv(d) /\ HoldInv(d)
  BY DEF AdjudicationInv, AdjudicationTypeOK
<1>4. /\ o \in Orders /\ q.to \in Decisions /\ q.history \in Seq(Entry)
      /\ q.human \in Decisions \cup {None} /\ q.verdict \in Decisions \cup {None}
  BY <1>2
<1>5. /\ n.from = (IF q.human # None THEN q.human ELSE IF q.verdict # None THEN q.verdict ELSE Unknown)
      /\ n.to = q.to /\ n.by = c
  BY DEF EntryOf, FromDecision
<1>6. n \in Entry
  <2>1. n = [by |-> c, from |-> n.from, to |-> q.to]
    BY DEF EntryOf
  <2>2. n.from \in Decisions \cup {Unknown}
    BY <1>4, <1>5
  <2> HIDE DEF n
  <2> QED
    BY <1>4, <2>1, <2>2 DEF Entry
<1>7. e \in Event
  BY <1>4, <1>6 DEF Event
<1> HIDE DEF q, o, n
<1>8. /\ events' \in Seq(Event) /\ Len(events) \in Nat /\ DOMAIN events = 1 .. Len(events)
      /\ DOMAIN events' = 1 .. Len(events) + 1
      /\ \A i \in 1 .. Len(events) : events'[i] = events[i]
      /\ events'[Len(events) + 1] = e
  BY <1>1, <1>3, <1>7, AppendProperties
<1>8a. DOMAIN events \subseteq DOMAIN events' /\ \A i \in DOMAIN events : events'[i] = events[i]
  BY <1>8
<1>9. /\ Append(q.history, n) \in Seq(Entry)
      /\ Append(q.history, n) # <<>>
      /\ Append(q.history, n)[Len(Append(q.history, n))] = n
  BY <1>4, <1>6, AppendProperties
<1>10. /\ human'[o] \in Decisions /\ \A x \in Orders \ {o} : human'[x] = human[x]
       /\ human'[o] = n.to \/ Backed(events, human'[o], o)
  <2>1. Consistent(events, verdict[o], human[o], history[o], o)
    BY <1>3, <1>4 DEF RowInv
  <2>2. q.human # None => human[o] # None
    BY <1>1, <1>3 DEF ReadInv, q, o
  <2>3. \A x \in Orders \ {o} : human'[x] = human[x]
    BY <1>1, <1>3
  <2>4. CASE q.to # q.human
    BY <1>1, <1>3, <1>4, <1>5, <2>3, <2>4
  <2>5. CASE q.to = q.human
    <3>1. human'[o] = human[o] /\ human[o] # None /\ human[o] \in Decisions \cup {None}
      BY <1>1, <1>3, <1>4, <2>2, <2>5
    <3> QED
      BY <2>1, <2>3, <3>1 DEF Consistent
  <2> QED
    BY <2>4, <2>5
<1>11. /\ history'[o] = Append(q.history, n)
       /\ \A x \in Orders \ {o} : history'[x] = history[x]
  BY <1>1, <1>3, <1>4
<1>12. /\ Consistent(events, verdict[o], q.human, q.history, o)
       /\ q.verdict # None => q.verdict = verdict[o]
  BY <1>1, <1>3 DEF ReadInv, q, o
<1>13. Consistent(events', verdict[o], human'[o], Append(q.history, n), o)
  <2>1. human'[o] # None
    BY <1>10
  <2> QED
    BY <1>1, <1>3, <1>4, <1>5, <1>6, <1>10, <1>12, <2>1, EntryAdded DEF e
<1>14. ASSUME NEW x \in Orders PROVE RowInv(x)'
  <2>1. lock'[x] = Worker => verdict'[x] = None
    BY <1>1, <1>3 DEF RowInv
  <2>2. CASE x = o
    BY <1>1, <1>11, <1>13, <2>1, <2>2 DEF RowInv
  <2>3. CASE x # o
    <3>1. Consistent(events, verdict[x], human[x], history[x], x) /\ history[x] \in Seq(Entry)
      BY <1>3 DEF RowInv
    <3>2. Consistent(events', verdict[x], human[x], history[x], x)
      BY <1>8a, <3>1, StillConsistent
    <3> QED
      BY <1>1, <1>10, <1>11, <2>1, <2>3, <3>2 DEF RowInv
  <2> QED
    BY <2>2, <2>3
<1>15. ASSUME NEW d \in Clients PROVE ReadInv(d)' /\ HoldInv(d)'
  <2>1. CASE d = c
    <3>1. request'[c].op = "none"
      BY <1>1, <1>2
    <3> QED
      BY <2>1, <3>1 DEF ReadInv, HoldInv
  <2>2. CASE d # c
    <3> DEFINE p == request[d]
    <3>1. request'[d] = p
      BY <1>1, <1>2, <2>2
    <3>2. ASSUME p.op = "correct"
          PROVE  /\ Consistent(events', verdict'[p.order], p.human, p.history, p.order)
                 /\ p.human # None => human'[p.order] # None
                 /\ p.verdict # None => p.verdict = verdict'[p.order]
      <4>1. p.order \in Orders /\ p.history \in Seq(Entry)
        BY <3>2, RequestFields
      <4>2. /\ Consistent(events, verdict[p.order], p.human, p.history, p.order)
            /\ p.human # None => human[p.order] # None
            /\ p.verdict # None => p.verdict = verdict[p.order]
        BY <1>3, <3>2 DEF ReadInv
      <4>3. Consistent(events', verdict[p.order], p.human, p.history, p.order)
        BY <1>8a, <4>1, <4>2, StillConsistent
      <4>4. p.human # None => human'[p.order] # None
        BY <1>10, <4>1, <4>2
      <4> QED
        BY <1>1, <4>2, <4>3, <4>4
    <3>3. ReadInv(d)'
      BY <3>1, <3>2 DEF ReadInv
    <3>4. ASSUME p.op = "confirm", NEW i \in DOMAIN p.written
          PROVE  lock'[p.written[i]] = d
      <4>1. p.written[i] \in Orders
        BY <3>4, RequestFields
      <4>2. lock[p.written[i]] = d
        BY <1>3, <3>4 DEF HoldInv
      <4> QED
        BY <1>1, <2>2, <4>1, <4>2
    <3>5. HoldInv(d)'
      BY <1>3, <3>1, <3>4 DEF HoldInv
    <3> QED
      BY <3>3, <3>5
  <2> QED
    BY <2>1, <2>2
<1>16. RequestsTyped'
  BY <1>1, <1>2 DEF RequestsTyped, Request
<1>17. AdjudicationTypeOK' /\ (history \in [Orders -> Seq(Entry)])'
  <2>1. history' \in [Orders -> Seq(Entry)]
    BY <1>1, <1>3, <1>9
  <2>2. human' \in [Orders -> Decisions \cup {None}]
    BY <1>1, <1>3, <1>4
  <2>3. lock' \in [Orders -> Clients \cup {Worker, None}]
    BY <1>1, <1>3
  <2>4. \A d \in Clients : request'[d].op \in {"none", "correct", "confirm"}
    BY <1>16 DEF RequestsTyped, Request
  <2> QED
    BY <1>1, <1>3, <1>8, <2>1, <2>2, <2>3, <2>4 DEF AdjudicationTypeOK
<1>18. LastEventInRow'
  <2> SUFFICES ASSUME NEW x \in Orders
               PROVE  AgreesIn(events', human'[x], history'[x], confirmed_by'[x], x)
    BY RowsAgreeNext
  <2>1. AgreesIn(events, human[x], history[x], confirmed_by[x], x)
    BY <1>3, RowsAgree
  <2>2. e.type = "order.corrected" /\ e.order = o /\ e.entry = n
    OBVIOUS
  <2> HIDE DEF e
  <2>3. /\ ConfirmationsIn(events', x) = ConfirmationsIn(events, x)
        /\ \A i \in ConfirmationsIn(events, x) : events'[i] = events[i]
    BY <1>8, <2>2 DEF ConfirmationsIn
  <2>4. CASE x = o
    <3>1. Len(events) + 1 \in CorrectionsIn(events', x)
      BY <1>8, <2>2, <2>4 DEF CorrectionsIn
    <3>2. ASSUME NEW i \in CorrectionsIn(events', x),
                 \A j \in CorrectionsIn(events', x) : j =< i
          PROVE  events'[i].entry = n
      <4>1. i \in 1 .. Len(events) + 1 /\ Len(events) + 1 =< i
        BY <1>8, <3>1, <3>2 DEF CorrectionsIn
      <4>2. i = Len(events) + 1
        BY <1>8, <4>1
      <4> QED
        BY <1>8, <2>2, <4>2
    <3>3. history'[x] # <<>> /\ history'[x][Len(history'[x])] = n
      BY <1>9, <1>11, <2>4
    <3>4. /\ ConfirmationsIn(events', x) = {} <=> confirmed_by'[x] = None
          /\ \A i \in ConfirmationsIn(events', x) :
               (\A j \in ConfirmationsIn(events', x) : j =< i) =>
                  confirmed_by'[x] = events'[i].by
      BY <1>1, <2>1, <2>3 DEF AgreesIn
    <3>5. /\ CorrectionsIn(events', x) = CorrectionsIn(events, x) \cup {Len(events) + 1}
          /\ \A k \in CorrectionsIn(events, x) : k \in 1 .. Len(events) /\ events'[k] = events[k]
      BY <1>8, <2>2, <2>4 DEF CorrectionsIn
    <3>6. events'[Len(events) + 1].entry = n
      BY <1>8, <2>2
    <3>7. LastDecision(events', human'[x], x)
      <4>1. CASE q.to # q.human
        <5>1. human'[x] = n.to
          BY <1>1, <1>3, <1>4, <1>5, <2>4, <4>1
        <5>2. \A k \in CorrectionsIn(events', x) : ~(k > Len(events) + 1)
          BY <1>8, <3>5
        <5> QED
          BY <3>1, <3>6, <5>1, <5>2 DEF LastDecision
      <4>2. CASE q.to = q.human
        <5>1. human'[x] = human[x] /\ n.from = n.to
          BY <1>1, <1>3, <1>4, <1>5, <2>4, <4>2
        <5>2. q.human # None
          BY <1>4, <4>2
        <5>3. CorrectionsIn(events, x) # {}
          BY <1>12, <2>4, <5>2 DEF Consistent, Backed
        <5>4. PICK k \in CorrectionsIn(events, x) :
                /\ human[x] = events[k].entry.to
                /\ \A l \in CorrectionsIn(events, x) :
                     l > k => events[l].entry.from = events[l].entry.to
          BY <2>1, <5>3 DEF AgreesIn, TellsCorrections, LastDecision
        <5>5. k \in CorrectionsIn(events', x) /\ human'[x] = events'[k].entry.to
          BY <3>5, <5>1, <5>4
        <5>6. ASSUME NEW l \in CorrectionsIn(events', x), l > k
              PROVE  events'[l].entry.from = events'[l].entry.to
          BY <3>5, <3>6, <5>1, <5>4, <5>6
        <5> QED
          BY <5>5, <5>6 DEF LastDecision
      <4> QED
        BY <4>1, <4>2
    <3> QED
      BY <3>1, <3>2, <3>3, <3>4, <3>7 DEF AgreesIn, TellsCorrections
  <2>5. CASE x # o
    <3>1. /\ CorrectionsIn(events', x) = CorrectionsIn(events, x)
          /\ \A i \in CorrectionsIn(events, x) : events'[i] = events[i]
      BY <1>8, <2>2, <2>5 DEF CorrectionsIn
    <3>2. history'[x] = history[x] /\ human'[x] = human[x]
      BY <1>10, <1>11, <2>5
    <3> QED
      BY <1>1, <2>1, <2>3, <3>1, <3>2, StillAgrees
  <2> QED
    BY <2>4, <2>5
<1> QED
  BY <1>14, <1>15, <1>16, <1>17, <1>18 DEF AdjudicationInv

(* The rows of a batch change with the announcements of them, together.    *)
LEMMA ConfirmCommitStep ==
  ASSUME AdjudicationInv, NEW c \in Clients, ConfirmCommit(c)
  PROVE  AdjudicationInv'
<1> DEFINE w == request[c].written
           new == ConfirmedEvents(c)
<1>1. /\ request[c].op = "confirm"
      /\ confirmed_by' = ConfirmedRows(c)
      /\ events' = events \o new
      /\ request' = [request EXCEPT ![c] = [op |-> "none"]] /\ requests' = requests
      /\ lock' = [x \in Orders |-> IF lock[x] = c THEN None ELSE lock[x]]
      /\ UNCHANGED <<verdict, human, history>>
  BY DEF ConfirmCommit, End, Continue, Unlock
<1>2. request \in [Clients -> Request] /\ w \in Seq(Orders)
  BY <1>1, RequestFields
<1>3. /\ lock \in [Orders -> Clients \cup {Worker, None}]
      /\ confirmed_by \in [Orders -> Clients \cup {None}]
      /\ history \in [Orders -> Seq(Entry)]
      /\ events \in Seq(Event)
      /\ AdjudicationTypeOK /\ LastEventInRow
      /\ \A x \in Orders : RowInv(x)
      /\ \A d \in Clients : ReadInv(d) /\ HoldInv(d)
  BY DEF AdjudicationInv, AdjudicationTypeOK
<1>4. /\ Len(w) \in Nat /\ DOMAIN w = 1 .. Len(w) /\ \A i \in 1 .. Len(w) : w[i] \in Orders
  BY <1>2
<1>5. /\ new \in Seq(Event) /\ Len(new) = Len(w)
      /\ \A i \in 1 .. Len(w) :
           new[i].type = "order.confirmed" /\ new[i].order = w[i] /\ new[i].by = c
  <2>1. new = [i \in 1 .. Len(w) |-> [type |-> "order.confirmed", order |-> w[i], by |-> c]]
    BY <1>4 DEF ConfirmedEvents
  <2>2. \A i \in 1 .. Len(w) : [type |-> "order.confirmed", order |-> w[i], by |-> c] \in Event
    BY <1>4 DEF Event
  <2> HIDE DEF new
  <2> QED
    BY <1>4, <2>1, <2>2
<1>6. /\ confirmed_by' \in [Orders -> Clients \cup {None}]
      /\ \A x \in Orders :
           /\ (\E i \in 1 .. Len(w) : w[i] = x) => confirmed_by'[x] = c
           /\ (\A i \in 1 .. Len(w) : w[i] # x) => confirmed_by'[x] = confirmed_by[x]
  BY <1>1, <1>3, <1>4 DEF ConfirmedRows, Range
<1> HIDE DEF w, new
<1>7. /\ events' \in Seq(Event) /\ Len(events) \in Nat /\ DOMAIN events = 1 .. Len(events)
      /\ DOMAIN events' = 1 .. Len(events) + Len(w)
      /\ \A i \in 1 .. Len(events) : events'[i] = events[i]
      /\ \A i \in 1 .. Len(w) : events'[Len(events) + i] = new[i]
  <2>1. events \in Seq(Event) /\ new \in Seq(Event) /\ events' = events \o new
    BY <1>1, <1>3, <1>5
  <2>2. Len(events) \in Nat /\ DOMAIN events = 1 .. Len(events) /\ Len(new) = Len(w)
    BY <1>5, <2>1
  <2>3. /\ events \o new \in Seq(Event)
        /\ Len(events \o new) = Len(events) + Len(w)
        /\ \A i \in 1 .. Len(events) + Len(w) :
             (events \o new)[i] = IF i =< Len(events) THEN events[i] ELSE new[i - Len(events)]
    <3>1. /\ events \o new \in Seq(Event)
          /\ Len(events \o new) = Len(events) + Len(new)
          /\ \A i \in 1 .. Len(events) + Len(new) :
               (events \o new)[i] = IF i =< Len(events) THEN events[i] ELSE new[i - Len(events)]
      BY <2>1, ConcatProperties, Zenon
    <3> QED
      BY <2>2, <3>1, Zenon
  <2>4. DOMAIN (events \o new) = 1 .. Len(events) + Len(w)
    BY <2>3
  <2>5. ASSUME NEW i \in 1 .. Len(events) PROVE (events \o new)[i] = events[i]
    BY <1>4, <2>2, <2>3
  <2>6. ASSUME NEW i \in 1 .. Len(w) PROVE (events \o new)[Len(events) + i] = new[i]
    <3>1. /\ Len(events) + i \in 1 .. Len(events) + Len(w)
          /\ ~(Len(events) + i =< Len(events))
          /\ (Len(events) + i) - Len(events) = i
      BY <1>4, <2>2
    <3> QED
      BY <2>3, <3>1
  <2> QED
    BY <2>1, <2>2, <2>3, <2>4, <2>5, <2>6
<1>8. \A i \in DOMAIN events' : i \notin DOMAIN events =>
        \E j \in 1 .. Len(w) :
          i = Len(events) + j /\ events'[i].type = "order.confirmed"
          /\ events'[i].order = w[j] /\ events'[i].by = c
  <2> SUFFICES ASSUME NEW i \in DOMAIN events', i \notin DOMAIN events
               PROVE  \E j \in 1 .. Len(w) :
                        i = Len(events) + j /\ events'[i].type = "order.confirmed"
                        /\ events'[i].order = w[j] /\ events'[i].by = c
    OBVIOUS
  <2>1. i - Len(events) \in 1 .. Len(w) /\ i = Len(events) + (i - Len(events))
    BY <1>4, <1>7
  <2>2. events'[i] = new[i - Len(events)]
    BY <1>7, <2>1
  <2> QED
    BY <1>5, <2>1, <2>2
<1>9. DOMAIN events \subseteq DOMAIN events' /\ \A i \in DOMAIN events : events'[i] = events[i]
  BY <1>4, <1>7
<1>10. \A v, d, h, o :
         h \in Seq(Entry) /\ Consistent(events, v, d, h, o) => Consistent(events', v, d, h, o)
  <2> SUFFICES ASSUME NEW v, NEW d, NEW h \in Seq(Entry), NEW o, Consistent(events, v, d, h, o)
               PROVE  Consistent(events', v, d, h, o)
    OBVIOUS
  <2> QED
    BY <1>9, StillConsistent
<1>11. ASSUME NEW x \in Orders PROVE RowInv(x)'
  <2>1. /\ Consistent(events, verdict[x], human[x], history[x], x) /\ history[x] \in Seq(Entry)
        /\ lock'[x] = Worker => verdict[x] = None
    BY <1>1, <1>3 DEF RowInv
  <2>2. Consistent(events', verdict[x], human[x], history[x], x)
    BY <1>10, <2>1
  <2> QED
    BY <1>1, <2>1, <2>2 DEF RowInv
<1>12. ASSUME NEW d \in Clients PROVE ReadInv(d)' /\ HoldInv(d)'
  <2>1. CASE d = c
    <3>1. request'[c].op = "none"
      BY <1>1, <1>2
    <3> QED
      BY <2>1, <3>1 DEF ReadInv, HoldInv
  <2>2. CASE d # c
    <3> DEFINE p == request[d]
    <3>1. request'[d] = p
      BY <1>1, <1>2, <2>2
    <3>2. ASSUME p.op = "correct"
          PROVE  Consistent(events', verdict[p.order], p.human, p.history, p.order)
      <4>1. p.order \in Orders /\ p.history \in Seq(Entry)
        BY <3>2, RequestFields
      <4>2. Consistent(events, verdict[p.order], p.human, p.history, p.order)
        BY <1>3, <3>2 DEF ReadInv
      <4> QED
        BY <1>10, <4>1, <4>2
    <3>3. ReadInv(d)'
      BY <1>1, <1>3, <3>1, <3>2 DEF ReadInv
    <3>4. ASSUME p.op = "confirm", NEW i \in DOMAIN p.written
          PROVE  lock'[p.written[i]] = d
      <4>1. p.written[i] \in Orders
        BY <3>4, RequestFields
      <4>2. lock[p.written[i]] = d
        BY <1>3, <3>4 DEF HoldInv
      <4> QED
        BY <1>1, <2>2, <4>1, <4>2
    <3>5. HoldInv(d)'
      BY <1>3, <3>1, <3>4 DEF HoldInv
    <3> QED
      BY <3>3, <3>5
  <2> QED
    BY <2>1, <2>2
<1>13. RequestsTyped'
  BY <1>1, <1>2 DEF RequestsTyped, Request
<1>14. AdjudicationTypeOK' /\ (history \in [Orders -> Seq(Entry)])'
  <2>1. lock' \in [Orders -> Clients \cup {Worker, None}]
    BY <1>1, <1>3
  <2>2. \A d \in Clients : request'[d].op \in {"none", "correct", "confirm"}
    BY <1>13 DEF RequestsTyped, Request
  <2> QED
    BY <1>1, <1>3, <1>6, <1>7, <2>1, <2>2 DEF AdjudicationTypeOK
<1>15. LastEventInRow'
  <2> SUFFICES ASSUME NEW x \in Orders
               PROVE  AgreesIn(events', human'[x], history'[x], confirmed_by'[x], x)
    BY RowsAgreeNext
  <2>1. AgreesIn(events, human[x], history[x], confirmed_by[x], x)
    BY <1>3, RowsAgree
  <2>2. /\ CorrectionsIn(events', x) = CorrectionsIn(events, x)
        /\ \A i \in CorrectionsIn(events, x) : events'[i] = events[i]
    BY <1>8, <1>9 DEF CorrectionsIn
  <2>3. CASE \A i \in 1 .. Len(w) : w[i] # x
    <3>1. /\ ConfirmationsIn(events', x) = ConfirmationsIn(events, x)
          /\ \A i \in ConfirmationsIn(events, x) : events'[i] = events[i]
      BY <1>8, <1>9, <2>3 DEF ConfirmationsIn
    <3>2. confirmed_by'[x] = confirmed_by[x]
      BY <1>6, <2>3
    <3> QED
      BY <1>1, <2>1, <2>2, <3>1, <3>2, StillAgrees
  <2>4. CASE \E i \in 1 .. Len(w) : w[i] = x
    <3>1. PICK k \in 1 .. Len(w) : w[k] = x
      BY <2>4
    <3>2. /\ Len(events) + k \in ConfirmationsIn(events', x)
          /\ confirmed_by'[x] = c /\ c # None
      BY <1>4, <1>5, <1>6, <1>7, <3>1 DEF ConfirmationsIn
    <3>3. ASSUME NEW i \in ConfirmationsIn(events', x),
                 \A j \in ConfirmationsIn(events', x) : j =< i
          PROVE  events'[i].by = c
      <4>1. i \in DOMAIN events' /\ Len(events) + k =< i
        BY <3>2, <3>3 DEF ConfirmationsIn
      <4>2. i \notin DOMAIN events
        BY <1>4, <1>7, <3>1, <4>1
      <4> QED
        BY <1>8, <4>1, <4>2
    <3>4. TellsCorrections(events', human'[x], history'[x], x)
      <4>1. TellsCorrections(events, human'[x], history'[x], x)
        BY <1>1, <2>1 DEF AgreesIn
      <4> QED
        BY <2>2, <4>1, CorrectionsAgree
    <3>5. ConfirmationsIn(events', x) = {} <=> confirmed_by'[x] = None
      BY <3>2
    <3> QED
      BY <3>2, <3>3, <3>4, <3>5 DEF AgreesIn
  <2> QED
    BY <2>3, <2>4
<1> QED
  BY <1>11, <1>12, <1>13, <1>14, <1>15 DEF AdjudicationInv

(* A worker's audit task takes the row, and gives it back with a verdict.  *)
LEMMA AuditStep ==
  ASSUME AdjudicationInv, NEW o \in Orders, AuditBegin(o) \/ AuditCommit(o)
  PROVE  AdjudicationInv'
<1>1. /\ lock \in [Orders -> Clients \cup {Worker, None}]
      /\ verdict \in [Orders -> Decisions \cup {None}]
      /\ history \in [Orders -> Seq(Entry)]
      /\ AdjudicationTypeOK /\ LastEventInRow /\ RequestsTyped
      /\ \A x \in Orders : RowInv(x)
      /\ \A d \in Clients : ReadInv(d) /\ HoldInv(d)
  BY DEF AdjudicationInv, AdjudicationTypeOK
<1>2. /\ UNCHANGED <<human, history, confirmed_by, events, request, requests>>
      /\ lock' \in [Orders -> Clients \cup {Worker, None}]
      /\ verdict' \in [Orders -> Decisions \cup {None}]
      /\ \A x \in Orders : verdict[x] # None => verdict'[x] = verdict[x]
      /\ \A x \in Orders : lock'[x] = Worker => verdict'[x] = None
      /\ \A x \in Orders, d \in Clients : lock[x] = d => lock'[x] = d
  <2>1. \A x \in Orders : lock[x] = Worker => verdict[x] = None
    BY <1>1 DEF RowInv
  <2>2. CASE AuditBegin(o)
    BY <1>1, <2>1, <2>2 DEF AuditBegin, rowVars
  <2>3. CASE AuditCommit(o)
    <3>1. PICK d \in Decisions \cup {None} : verdict' = [verdict EXCEPT ![o] = d]
      BY <2>3 DEF AuditCommit
    <3>2. lock[o] = Worker /\ lock' = [lock EXCEPT ![o] = None]
          /\ UNCHANGED <<rowVars, request, requests>>
      BY <2>3 DEF AuditCommit
    <3> QED
      BY <1>1, <2>1, <3>1, <3>2 DEF rowVars
  <2> QED
    BY <2>2, <2>3
<1>3. ASSUME NEW x \in Orders PROVE RowInv(x)'
  <2>1. Consistent(events, verdict[x], human[x], history[x], x) /\ history[x] \in Seq(Entry)
    BY <1>1 DEF RowInv
  <2>2. Consistent(events, verdict'[x], human[x], history[x], x)
    BY <1>2, <2>1, StillConsistent
  <2> QED
    BY <1>2, <2>2 DEF RowInv
<1>4. ASSUME NEW d \in Clients PROVE ReadInv(d)'
  <2> DEFINE p == request[d]
  <2>1. ASSUME p.op = "correct"
        PROVE  /\ Consistent(events, verdict'[p.order], p.human, p.history, p.order)
               /\ p.human # None => human[p.order] # None
               /\ p.verdict # None => p.verdict = verdict'[p.order]
    <3>1. p.order \in Orders /\ p.history \in Seq(Entry)
      BY <2>1, RequestFields
    <3>2. /\ Consistent(events, verdict[p.order], p.human, p.history, p.order)
          /\ p.human # None => human[p.order] # None
          /\ p.verdict # None => p.verdict = verdict[p.order]
      BY <1>1, <2>1 DEF ReadInv
    <3>3. Consistent(events, verdict'[p.order], p.human, p.history, p.order)
      <4> HIDE DEF p
      <4>1. verdict[p.order] # None => verdict'[p.order] = verdict[p.order]
        BY <1>2, <3>1
      <4> QED
        BY <3>1, <3>2, <4>1, StillConsistent
    <3> QED
      BY <1>2, <3>1, <3>2, <3>3
  <2> QED
    BY <1>2, <2>1 DEF ReadInv
<1>5. ASSUME NEW d \in Clients PROVE HoldInv(d)'
  <2> DEFINE p == request[d]
  <2>1. ASSUME p.op = "confirm", NEW i \in DOMAIN p.written
        PROVE  lock'[p.written[i]] = d
    <3>1. p.written[i] \in Orders
      BY <2>1, RequestFields
    <3>2. lock[p.written[i]] = d
      BY <1>1, <2>1 DEF HoldInv
    <3> QED
      BY <1>2, <3>1, <3>2
  <2> QED
    BY <1>1, <1>2, <2>1 DEF HoldInv
<1>6. AdjudicationTypeOK' /\ RequestsTyped' /\ (history \in [Orders -> Seq(Entry)])'
  BY <1>1, <1>2 DEF AdjudicationTypeOK, RequestsTyped
<1>7. LastEventInRow'
  BY <1>1, <1>2, RowsAgree, RowsAgreeNext
<1> QED
  BY <1>3, <1>4, <1>5, <1>6, <1>7 DEF AdjudicationInv

LEMMA AdjudicationNext ==
  ASSUME AdjudicationInv, [Next]_vars
  PROVE  AdjudicationInv'
<1>1. ASSUME NEW c \in Clients, NEW o \in Orders, NEW to \in Decisions, CorrectRead(c, o, to)
      PROVE  AdjudicationInv'
  BY <1>1, CorrectReadStep
<1>2. ASSUME NEW c \in Clients, NEW ids \in Lists, ConfirmBegin(c, ids)
      PROVE  AdjudicationInv'
  BY <1>2, ConfirmBeginStep
<1>3. ASSUME NEW c \in Clients, Proceed(c)
      PROVE  AdjudicationInv'
  <2>1. CASE DeadlockAbort(c)
    BY <2>1, EndStep DEF DeadlockAbort
  <2> QED
    BY <1>3, <2>1, CorrectLookupStep, CorrectWriteStep, ConfirmReadStep, ConfirmWriteStep,
       ConfirmCommitStep
    DEF Proceed
<1>4. ASSUME NEW c \in Clients, Rollback(c)
      PROVE  AdjudicationInv'
  BY <1>4, EndStep DEF Rollback
<1>5. ASSUME NEW o \in Orders, AuditBegin(o) \/ AuditCommit(o)
      PROVE  AdjudicationInv'
  BY <1>5, AuditStep
<1>6. CASE UNCHANGED vars
  <2>1. /\ AdjudicationTypeOK' /\ RequestsTyped' /\ LastEventInRow'
        /\ (history \in [Orders -> Seq(Entry)])'
    <3>1. LastEventInRow'
      BY <1>6, RowsAgree, RowsAgreeNext DEF AdjudicationInv, vars
    <3> QED
      BY <1>6, <3>1 DEF AdjudicationInv, AdjudicationTypeOK, RequestsTyped, vars
  <2>2. \A o \in Orders : RowInv(o)'
    BY <1>6 DEF AdjudicationInv, RowInv, vars
  <2>3. \A c \in Clients : ReadInv(c)' /\ HoldInv(c)'
    BY <1>6 DEF AdjudicationInv, ReadInv, HoldInv, vars
  <2> QED
    BY <2>1, <2>2, <2>3 DEF AdjudicationInv
<1> QED
  BY <1>1, <1>2, <1>3, <1>4, <1>5, <1>6 DEF Next

LEMMA AdjudicationSafety == Spec => []AdjudicationInv
<1> QED
  BY AdjudicationInit, AdjudicationNext, PTL DEF Spec

(* Rows, requests and events have their types.                             *)
THEOREM AdjudicationTypeCorrect == Spec => []AdjudicationTypeOK
<1>1. AdjudicationInv => AdjudicationTypeOK
  BY DEF AdjudicationInv
<1> QED
  BY <1>1, AdjudicationSafety, PTL

(* However corrections and batches overlap, the last entry of the history  *)
(* and confirmed_by are those announced last, and human_decision is that   *)
(* of the last correction but for later ones that meant to keep the        *)
(* decision they had read.                                                 *)
THEOREM LastAnnounced == Spec => []LastEventInRow
<1>1. AdjudicationInv => LastEventInRow
  BY DEF AdjudicationInv
<1> QED
  BY <1>1, AdjudicationSafety, PTL

(* Every history is a chain of announced corrections, although corrections *)
(* overwrite each other's entries.                                         *)
THEOREM HistoryReal == Spec => []HistoryAnnounced
<1>1. AdjudicationInv => HistoryAnnounced
  BY DEF AdjudicationInv, RowInv, Consistent, AnnouncedIn, HistoryAnnounced, Corrections,
         CorrectionsIn
<1> QED
  BY <1>1, AdjudicationSafety, PTL

(* What a history entry says it replaced was the verdict, or nothing, or   *)
(* the decision of a correction that was announced before the entry.       *)
THEOREM FromCorrect == Spec => []FromIsReal
<1>1. AdjudicationInv => FromIsReal
  BY DEF AdjudicationInv, RowInv, Consistent, RealIn, Replaced, FromIsReal, Corrections,
         CorrectionsIn
<1> QED
  BY <1>1, AdjudicationSafety, PTL

(* The rows a batch has written are its own until it commits, and it has   *)
(* written none of them twice.                                             *)
THEOREM BatchesExclusive == Spec => []WritesExclusive
<1>1. AdjudicationInv => WritesExclusive
  BY DEF AdjudicationInv, HoldInv, WritesExclusive
<1> QED
  BY <1>1, AdjudicationSafety, PTL

-----------------------------------------------------------------------------
(* Nobody is stuck                                                         *)

(* A row is held by a worker or by a batch under way.                      *)
HeldByBatch == \A o \in Orders : lock[o] \in Clients => request[lock[o]].op = "confirm"

LEMMA HeldNext ==
  ASSUME AdjudicationInv, HeldByBatch, [Next]_vars
  PROVE  HeldByBatch'
<1>1. /\ request \in [Clients -> Request]
      /\ lock \in [Orders -> Clients \cup {Worker, None}]
  BY DEF AdjudicationInv, RequestsTyped, AdjudicationTypeOK
<1>2. ASSUME NEW c \in Clients, NEW r, request[c].op = "none" \/ r.op = request[c].op,
             request' = [request EXCEPT ![c] = r], UNCHANGED lock
      PROVE  HeldByBatch'
  BY <1>1, <1>2 DEF HeldByBatch
<1>3. ASSUME NEW c \in Clients, End(c)
      PROVE  HeldByBatch'
  <2>1. /\ request' = [request EXCEPT ![c] = [op |-> "none"]]
        /\ lock' = [o \in Orders |-> IF lock[o] = c THEN None ELSE lock[o]]
    BY <1>3 DEF End, Continue, Unlock
  <2>2. ASSUME NEW o \in Orders, lock'[o] \in Clients
        PROVE  lock'[o] = lock[o] /\ lock[o] # c
    BY <2>1, <2>2
  <2> QED
    BY <1>1, <2>1, <2>2 DEF HeldByBatch
<1>4. ASSUME NEW c \in Clients, NEW o \in Orders, NEW to \in Decisions, CorrectRead(c, o, to)
      PROVE  HeldByBatch'
  BY <1>2, <1>4 DEF CorrectRead, Begin
<1>5. ASSUME NEW c \in Clients, NEW ids \in Lists, ConfirmBegin(c, ids)
      PROVE  HeldByBatch'
  BY <1>2, <1>5 DEF ConfirmBegin, Begin
<1>6. ASSUME NEW c \in Clients, CorrectLookup(c)
      PROVE  HeldByBatch'
  <2> DEFINE r == [request[c] EXCEPT !.looked = TRUE, !.verdict = verdict[request[c].order]]
  <2>1. request' = [request EXCEPT ![c] = r] /\ UNCHANGED lock /\ request[c].op = "correct"
    BY <1>6 DEF CorrectLookup, Continue
  <2>2. r.op = request[c].op
    BY <2>1, RequestFields
  <2> HIDE DEF r
  <2> QED
    BY <1>2, <2>1, <2>2
<1>7. ASSUME NEW c \in Clients, ConfirmRead(c)
      PROVE  HeldByBatch'
  <2> DEFINE r == [request[c] EXCEPT !.next = @ + 1]
             q == [request[c] EXCEPT !.wanted = TRUE]
  <2>1. /\ request' = [request EXCEPT ![c] = r] \/ request' = [request EXCEPT ![c] = q]
        /\ UNCHANGED lock
        /\ request[c].op = "confirm"
    BY <1>7 DEF ConfirmRead, Continue, Confirming
  <2>2. r.op = request[c].op /\ q.op = request[c].op
    BY <2>1, RequestFields
  <2> HIDE DEF r, q
  <2> QED
    BY <1>2, <2>1, <2>2
<1>8. ASSUME NEW c \in Clients, ConfirmWrite(c)
      PROVE  HeldByBatch'
  <2> DEFINE r == [request[c] EXCEPT !.next = @ + 1, !.wanted = FALSE,
                                     !.written = Append(@, Current(c))]
  <2>1. /\ request' = [request EXCEPT ![c] = r] /\ request[c].op = "confirm"
        /\ lock' = [lock EXCEPT ![Current(c)] = c]
    BY <1>8 DEF ConfirmWrite, ConfirmLock, Continue, Confirming
  <2>2. r.op = "confirm"
    BY <2>1, RequestFields
  <2> HIDE DEF r
  <2>3. \A d \in Clients : request'[d].op = request[d].op
    BY <1>1, <2>1, <2>2
  <2>4. \A o \in Orders : lock'[o] = lock[o] \/ lock'[o] = c
    BY <1>1, <2>1
  <2> QED
    BY <2>1, <2>3, <2>4 DEF HeldByBatch
<1>9. ASSUME NEW o \in Orders, AuditBegin(o) \/ AuditCommit(o)
      PROVE  HeldByBatch'
  <2>1. request' = request /\ (lock' = [lock EXCEPT ![o] = Worker] \/ lock' = [lock EXCEPT ![o] = None])
    BY <1>9 DEF AuditBegin, AuditCommit
  <2>2. Worker \notin Clients /\ None \notin Clients
    OBVIOUS
  <2> QED
    BY <1>1, <2>1, <2>2 DEF HeldByBatch
<1>10. CASE UNCHANGED vars
  BY <1>10 DEF vars, HeldByBatch
<1>11. ASSUME NEW c \in Clients, Proceed(c) \/ Rollback(c)
       PROVE  HeldByBatch'
  BY <1>3, <1>6, <1>7, <1>8, <1>11
  DEF Proceed, Rollback, CorrectWrite, ConfirmCommit, DeadlockAbort
<1> QED
  BY <1>4, <1>5, <1>9, <1>10, <1>11 DEF Next

(* In a finite set in which each element points at another one, some are   *)
(* pointed at by and point at others of a part of it: a smallest part that *)
(* its pointers do not leave.                                              *)
LEMMA CycleExists ==
  ASSUME NEW S, IsFiniteSet(S), S # {}, NEW R,
         \A x \in S : \E y \in S \ {x} : <<x, y>> \in R
  PROVE  \E T \in SUBSET S :
           /\ T # {}
           /\ \A x \in T : /\ \E y \in T \ {x} : <<x, y>> \in R
                           /\ \E y \in T \ {x} : <<y, x>> \in R
<1> DEFINE Kept(T) == \A x \in T : \E y \in T \ {x} : <<x, y>> \in R
           Family == {T \in SUBSET S : T # {} /\ Kept(T)}
<1>1. IsWellFoundedOn(StrictSubsetOrdering(S), FiniteSubsetsOf(S))
  BY FS_StrictSubsetOrderingWellFounded
<1>2. FiniteSubsetsOf(S) = SUBSET S
  BY FS_FiniteSubsetsOfFinite
<1>3. S \in Family
  OBVIOUS
<1>4. PICK T \in Family : \A V \in Family : <<V, T>> \notin StrictSubsetOrdering(S)
  <2>1. Family \subseteq FiniteSubsetsOf(S) /\ Family # {}
    BY <1>2, <1>3
  <2> HIDE DEF Family
  <2> QED
    BY <1>1, <2>1, WFMin
<1> DEFINE V == {x \in T : \E y \in T \ {x} : <<y, x>> \in R}
<1>5. V \in Family
  <2>1. \A x \in T : \E y \in V \ {x} : <<x, y>> \in R
    OBVIOUS
  <2>2. V # {} /\ V \in SUBSET S
    BY <2>1
  <2> QED
    BY <2>1, <2>2
<1>6. V = T
  BY <1>4, <1>5 DEF StrictSubsetOrdering
<1>7. ASSUME NEW x \in T
      PROVE  /\ \E y \in T \ {x} : <<x, y>> \in R
             /\ \E y \in T \ {x} : <<y, x>> \in R
  <2>1. x \in V
    BY <1>6
  <2> QED
    BY <2>1
<1>8. T \in SUBSET S /\ T # {}
  OBVIOUS
<1> HIDE DEF V, Family
<1> QED
  BY <1>7, <1>8

(* A request that cannot take its next step waits for a row of another     *)
(* request under way, or of a worker.                                      *)
LEMMA WaitsForSomeone ==
  ASSUME AdjudicationInv, HeldByBatch, NEW c \in Open, ~CanProceed(c), ~WaitsFor(c, Worker)
  PROVE  \E d \in Open \ {c} : WaitsFor(c, d)
<1>1. c \in Clients /\ request[c].op \in {"correct", "confirm"}
  BY DEF Open, AdjudicationInv, AdjudicationTypeOK
<1>2. /\ lock \in [Orders -> Clients \cup {Worker, None}]
      /\ None \notin Clients \cup {Worker}
  BY DEF AdjudicationInv, AdjudicationTypeOK
<1>3. ASSUME NEW o \in Orders, ~Free(o, c), lock[o] # Worker
      PROVE  lock[o] \in Open \ {c}
  BY <1>2, <1>3 DEF Free, HeldByBatch, Open
<1>4. CASE request[c].op = "correct"
  <2>1. request[c].looked /\ request[c].order \in Orders /\ ~Free(request[c].order, c)
    BY <1>1, <1>4, RequestFields DEF CanProceed
  <2>2. lock[request[c].order] # Worker
    BY <1>4, <2>1 DEF WaitsFor
  <2> QED
    BY <1>3, <1>4, <2>1, <2>2 DEF WaitsFor
<1>5. CASE request[c].op = "confirm"
  <2>1. Confirming(c) /\ request[c].wanted /\ ~Free(Current(c), c)
    BY <1>5 DEF CanProceed
  <2>2. Current(c) \in Orders
    BY <1>1, <1>5, <2>1, RequestFields DEF Confirming, Current
  <2>3. lock[Current(c)] # Worker
    BY <2>1 DEF WaitsFor
  <2> QED
    BY <1>3, <2>1, <2>2, <2>3 DEF WaitsFor
<1> QED
  BY <1>1, <1>4, <1>5

LEMMA SomeoneProceeds ==
  ASSUME AdjudicationInv, HeldByBatch
  PROVE  NobodyStuck
<1> SUFFICES ASSUME NEW S \in SUBSET Open, S # {},
                    \A c \in S, d \in Open : WaitsFor(c, d) => d \in S,
                    \A c \in S : ~CanProceed(c) /\ ~WaitsFor(c, Worker)
             PROVE  FALSE
  BY DEF NobodyStuck
<1> DEFINE R == {p \in S \X S : WaitsFor(p[1], p[2])}
<1>1. IsFiniteSet(S) /\ S \subseteq Clients
  BY FS_Subset DEF Open
<1>2. \A x \in S : \E y \in S \ {x} : <<x, y>> \in R
  <2> SUFFICES ASSUME NEW x \in S PROVE \E y \in S \ {x} : WaitsFor(x, y)
    OBVIOUS
  <2>1. PICK y \in Open \ {x} : WaitsFor(x, y)
    BY WaitsForSomeone
  <2> QED
    BY <2>1
<1>3. PICK T \in SUBSET S :
        /\ T # {}
        /\ \A x \in T : /\ \E y \in T \ {x} : <<x, y>> \in R
                        /\ \E y \in T \ {x} : <<y, x>> \in R
  <2> HIDE DEF R
  <2> QED
    BY <1>1, <1>2, CycleExists
<1>4. \A x \in T : /\ \E y \in T \ {x} : WaitsFor(x, y)
                   /\ \E y \in T \ {x} : WaitsFor(y, x)
  BY <1>3
<1>5. PICK c \in T : TRUE
  BY <1>3
<1>6. T \ {c} \in SUBSET (Clients \ {c}) /\ (T \ {c}) \cup {c} = T
  BY <1>1, <1>5
<1>7. Deadlocked(c)
  BY <1>4, <1>6 DEF Deadlocked
<1> QED
  BY <1>5, <1>7 DEF CanProceed

(* Requests never wait for each other for good, nor for a row that nobody  *)
(* has any more: in every chain of waiting requests there is one that can  *)
(* take its next step, that the detector aborts or that waits for a worker. *)
THEOREM NoneStuck == Spec => []NobodyStuck
<1>1. Init => HeldByBatch
  BY DEF Init, HeldByBatch
<1>2. AdjudicationInv /\ HeldByBatch /\ [Next]_vars => HeldByBatch'
  BY HeldNext
<1>3. AdjudicationInv /\ HeldByBatch => NobodyStuck
  BY SomeoneProceeds
<1> QED
  BY <1>1, <1>2, <1>3, AdjudicationSafety, PTL DEF Spec

=============================================================================
