------------------------- MODULE GameSessionProofs -------------------------
(* Clients and server over a network that loses, repeats and reorders: for   *)
(* any number of clients, packets and restarts, what a client takes for      *)
(* delivered was processed by the server, while the ids do not wrap.         *)
EXTENDS GameSession, FiniteSetTheorems, TLAPS

\* The server's own proofs, read in the session.
Table == INSTANCE GameServerProofs WITH sequence_id <- server_sequence_id

\* The server of the session is the one GameServerProofs is about.
LEMMA TableConstants ==
    /\ Table!SlotsAssumption /\ Table!TimeoutAssumption /\ Table!AddrAssumption
    /\ Table!SeqModAssumption /\ Table!AckBitsAssumption /\ Table!CounterModAssumption
  BY ServerAssumption, SeqModAssumption, AckBitsAssumption, CounterModAssumption
     DEF Table!SlotsAssumption, Table!TimeoutAssumption, Table!AddrAssumption,
         Table!SeqModAssumption, Table!AckBitsAssumption, Table!CounterModAssumption

\* A client keeps its window of the server as the server keeps its of the client.
LEMMA WindowIsTable ==
    /\ seq_id_t = Table!seq_id_t /\ WindowType = Table!WindowType
    /\ \A id : FreshWindow(id) = Table!FreshWindow(id)
    /\ \A w, id : accept_packet(w, id) = Table!accept_packet(w, id)
  BY Zenon DEF seq_id_t, Table!seq_id_t, WindowType, Table!WindowType,
               BitIndex, Table!BitIndex, PacketCounter, Table!PacketCounter,
               FreshWindow, Table!FreshWindow, accept_packet, Table!accept_packet,
               AcceptNewer, Table!AcceptNewer, AcceptOlder, Table!AcceptOlder,
               Advanced, Table!Advanced, ShiftLeft, Table!ShiftLeft,
               lost_packets, Table!lost_packets, Cardinality, Table!Cardinality,
               sequence_id__delta, Table!sequence_id__delta,
               sequence_id__is_more_recent, Table!sequence_id__is_more_recent,
               HalfRange, Table!HalfRange

\* So it stays a window whatever id arrives.
LEMMA WindowStaysWindow ==
    /\ \A id \in seq_id_t : FreshWindow(id) \in WindowType
    /\ \A w \in WindowType : \A id \in seq_id_t : accept_packet(w, id) \subseteq WindowType
  <1>1. ASSUME NEW id \in seq_id_t PROVE FreshWindow(id) \in WindowType
    BY <1>1, TableConstants, WindowIsTable, Table!FreshWindowType
  <1>2. ASSUME NEW w \in WindowType, NEW id \in seq_id_t, NEW new \in accept_packet(w, id)
        PROVE  new \in WindowType
    BY <1>2, TableConstants, WindowIsTable, Table!AcceptPacketType
  <1>. QED
    BY <1>1, <1>2

LEMMA QueueConstants ==
    /\ QueueSize \in Nat /\ QueueSize >= 2 /\ QueueSize <= HalfRange + 1
    /\ MaxSent \in Nat /\ MaxSent <= HalfRange
    /\ SeqMod \in Nat /\ SeqMod >= 2 /\ HalfRange \in Nat /\ HalfRange < SeqMod - HalfRange
  BY SeqModAssumption, QueueSizeAssumption, BoundAssumption DEF HalfRange

\* The index d places before h in a client's ring.
Before(h, d) == (h + QueueSize - d) % QueueSize

LEMMA BeforeValue ==
    ASSUME NEW h \in QueueIndex, NEW d \in 0 .. QueueSize
    PROVE  /\ Before(h, d) = IF h < d THEN h + QueueSize - d ELSE h - d
           /\ Before(h, d) \in QueueIndex
  <1> DEFINE x == h + QueueSize - d
             y == h - d
  <1>1. x \in Nat /\ x <= 2 * QueueSize - 1 /\ y \in Int /\ x = y + QueueSize
    BY QueueConstants DEF QueueIndex
  <1>2. Before(h, d) = x % QueueSize
    BY DEF Before
  <1>3. CASE h < d
    <2>1. x < QueueSize
      BY <1>3, QueueConstants DEF QueueIndex
    <2> HIDE DEF x
    <2>2. x % QueueSize = x
      BY <1>1, <2>1, QueueConstants
    <2>. QED
      BY <1>1, <1>2, <1>3, <2>1, <2>2, QueueConstants DEF QueueIndex, x
  <1>4. CASE ~(h < d)
    <2>1. y \in Nat /\ y < QueueSize
      BY <1>4, QueueConstants DEF QueueIndex
    <2> HIDE DEF x, y
    <2>2. y % QueueSize = y
      BY <2>1, QueueConstants
    <2>3. (y + QueueSize) % QueueSize = y % QueueSize
      BY <2>1, QueueConstants
    <2>. QED
      BY <1>1, <1>2, <1>4, <2>1, <2>2, <2>3, QueueConstants DEF QueueIndex, y
  <1>. QED
    BY <1>3, <1>4

LEMMA NextIndexType == ASSUME NEW h \in QueueIndex PROVE NextIndex(h) \in QueueIndex
  BY QueueConstants DEF NextIndex, QueueIndex

\* How far apart two indices are after one of them, or both, moved on.
LEMMA StepDistance ==
    ASSUME NEW h \in QueueIndex, NEW t \in QueueIndex
    PROVE  /\ NextIndex(h) = t <=> Before(h, t) = QueueSize - 1
           /\ NextIndex(h) # t => Before(NextIndex(h), t) = Before(h, t) + 1
           /\ NextIndex(h) = t => Before(NextIndex(h), NextIndex(t)) = QueueSize - 1
  <1> DEFINE n == NextIndex(h)
             u == NextIndex(t)
  <1>1. /\ n \in QueueIndex /\ n = IF h + 1 = QueueSize THEN 0 ELSE h + 1
        /\ u \in QueueIndex /\ u = IF t + 1 = QueueSize THEN 0 ELSE t + 1
    BY NextIndexType DEF NextIndex
  <1> HIDE DEF n, u
  <1>2. t \in 0 .. QueueSize /\ u \in 0 .. QueueSize
    BY <1>1, QueueConstants DEF QueueIndex
  <1>3. /\ Before(h, t) = IF h < t THEN h + QueueSize - t ELSE h - t
        /\ Before(n, t) = IF n < t THEN n + QueueSize - t ELSE n - t
        /\ Before(n, u) = IF n < u THEN n + QueueSize - u ELSE n - u
    BY <1>1, <1>2, BeforeValue
  <1>4. /\ n = t <=> Before(h, t) = QueueSize - 1
        /\ n # t => Before(n, t) = Before(h, t) + 1
        /\ n = t => Before(n, u) = QueueSize - 1
    BY <1>1, <1>3, QueueConstants DEF QueueIndex
  <1>. QED
    BY <1>4 DEF n, u

\* What lies d places before the next index lies one place less before this one.
LEMMA StepBack ==
    ASSUME NEW h \in QueueIndex, NEW e \in 0 .. QueueSize - 1
    PROVE  /\ Before(NextIndex(h), e + 1) = Before(h, e)
           /\ Before(h, e) \in QueueIndex
           /\ Before(h, e) = h <=> e = 0
  <1> DEFINE n == NextIndex(h)
             d == e + 1
  <1>1. n \in QueueIndex /\ n = IF h + 1 = QueueSize THEN 0 ELSE h + 1
    BY NextIndexType DEF NextIndex
  <1>2. d \in 0 .. QueueSize /\ e \in 0 .. QueueSize /\ d = e + 1
    BY QueueConstants
  <1> HIDE DEF n, d
  <1>3. /\ Before(h, e) = IF h < e THEN h + QueueSize - e ELSE h - e
        /\ Before(h, e) \in QueueIndex
        /\ Before(n, d) = IF n < d THEN n + QueueSize - d ELSE n - d
    BY <1>1, <1>2, BeforeValue
  <1>4. Before(n, d) = Before(h, e)
    BY <1>1, <1>2, <1>3, QueueConstants DEF QueueIndex
  <1>5. Before(h, e) = h <=> e = 0
    BY <1>2, <1>3, QueueConstants DEF QueueIndex
  <1>. QED
    BY <1>3, <1>4, <1>5 DEF n, d

\* Different distances up to the size of the ring are different slots.
LEMMA BeforeInjective ==
    ASSUME NEW h \in QueueIndex, NEW d \in 1 .. QueueSize, NEW e \in 1 .. QueueSize,
           Before(h, d) = Before(h, e)
    PROVE  d = e
  <1>1. /\ Before(h, d) = IF h < d THEN h + QueueSize - d ELSE h - d
        /\ Before(h, e) = IF h < e THEN h + QueueSize - e ELSE h - e
    BY BeforeValue, QueueConstants
  <1>2. (IF h < d THEN h + QueueSize - d ELSE h - d) =
          (IF h < e THEN h + QueueSize - e ELSE h - e)
    BY <1>1
  <1>3. h \in 0 .. QueueSize - 1 /\ QueueSize \in Nat
    BY QueueConstants DEF QueueIndex
  <1>. QED
    BY <1>2, <1>3
----------------------------------------------------------------------------
\* What the properties say of one client s; R are the ids that reached the server.
RingOf(s) ==
    /\ \A d \in 1 .. Least(s.sequence_id, QueueSize) :
          s.queue[Before(s.head, d)].sequence_id = s.sequence_id - d
    /\ Before(s.head, s.tail) = Least(s.sequence_id, QueueSize - 1)

AckedOf(s, R) ==
    \A d \in 1 .. Least(s.sequence_id, QueueSize) :
        s.queue[Before(s.head, d)].outstanding \/ s.sequence_id - d \in R

LEMMA RingsOfClients == RingHoldsLatest <=> \A c \in Clients : RingOf(client[c])
  BY DEF RingHoldsLatest, RingOf, SlotOf, Before

LEMMA AckedOfClients ==
    AckedReachedServer <=> \A c \in Clients : run[c] = 0 => AckedOf(client[c], reached[c])
  BY DEF AckedReachedServer, AckedOf, SlotOf, Before

LEMMA ClientTypes ==
    ASSUME NEW s \in ClientState
    PROVE  /\ s.sequence_id \in seq_id_t /\ s.sequence_id \in Nat
           /\ s.head \in QueueIndex /\ s.tail \in QueueIndex
           /\ s.queue \in [QueueIndex -> SentPacket]
           /\ s.window \in WindowType
           /\ s.connected \in BOOLEAN /\ s.status \in Status
  BY DEF ClientState, seq_id_t

LEMMA NewClientRing ==
    /\ NewClient \in ClientState
    /\ NewClient.sequence_id = 0 /\ NewClient.status = "running"
    /\ RingOf(NewClient) /\ \A R : AckedOf(NewClient, R)
  <1>1. NewClient \in ClientState
    <2>1. [sequence_id |-> 0, ack_bitfield |-> {}, packets_dropped |-> 0] \in WindowType
      BY SeqModAssumption, CounterModAssumption DEF WindowType, seq_id_t, PacketCounter
    <2>2. 0 \in QueueIndex /\ 0 \in seq_id_t
      BY QueueConstants DEF QueueIndex, seq_id_t
    <2>3. [i \in QueueIndex |-> [sequence_id |-> 0, outstanding |-> FALSE]]
             \in [QueueIndex -> SentPacket]
      BY <2>2 DEF SentPacket
    <2>. QED
      BY <2>1, <2>2, <2>3 DEF NewClient, ClientState, Status
  <1>2. Least(0, QueueSize) = 0 /\ Least(0, QueueSize - 1) = 0
    BY QueueConstants DEF Least
  <1>3. Before(0, 0) = 0
    BY BeforeValue, QueueConstants DEF QueueIndex
  <1>. QED
    BY <1>1, <1>2, <1>3 DEF NewClient, RingOf, AckedOf

\* A packet sent takes the slot at the head, the one the ring gives up; no
\* other slot changes its place among the latest.
LEMMA SendRing ==
    ASSUME NEW s \in ClientState, s.sequence_id < MaxSent, RingOf(s)
    PROVE  /\ send_packet(s) \in ClientState
           /\ send_packet(s).sequence_id = s.sequence_id + 1
           /\ send_packet(s).status = s.status
           /\ RingOf(send_packet(s))
           /\ \A R : AckedOf(s, R) => AckedOf(send_packet(s), R)
  <1> DEFINE v == send_packet(s)
             n == s.sequence_id
             new == [sequence_id |-> n, outstanding |-> TRUE]
  <1>1. /\ n \in Nat /\ n < MaxSent /\ n \in seq_id_t
        /\ s.head \in QueueIndex /\ s.tail \in QueueIndex
        /\ s.queue \in [QueueIndex -> SentPacket]
        /\ NextIndex(s.head) \in QueueIndex /\ NextIndex(s.tail) \in QueueIndex
    BY ClientTypes, NextIndexType
  <1>2. /\ v.head = NextIndex(s.head)
        /\ v.tail = IF NextIndex(s.head) = s.tail THEN NextIndex(s.tail) ELSE s.tail
        /\ v.sequence_id = sequence_id__next(n)
        /\ v.queue = [s.queue EXCEPT ![s.head] = new]
        /\ v.status = s.status
    BY DEF send_packet, ClientState
  <1>3. v.sequence_id = n + 1 /\ v.sequence_id \in seq_id_t
    BY <1>1, <1>2, QueueConstants DEF sequence_id__next, seq_id_t
  <1>4. v \in ClientState
    <2>1. new \in SentPacket
      BY <1>1 DEF SentPacket
    <2>2. v.queue \in [QueueIndex -> SentPacket] /\ v.tail \in QueueIndex
      BY <1>1, <1>2, <2>1
    <2>3. sequence_id__next(n) \in seq_id_t
      BY <1>2, <1>3
    <2>4. [s.queue EXCEPT ![s.head] = new] \in [QueueIndex -> SentPacket]
      BY <1>2, <2>2
    <2>. QED
      BY <1>1, <2>2, <2>3, <2>4 DEF send_packet, ClientState
  <1> HIDE DEF v, n, new
  <1>5. /\ Least(n, QueueSize) \in Nat /\ Least(n + 1, QueueSize) \in Nat
        /\ Least(n + 1, QueueSize) <= QueueSize
        /\ Least(n + 1, QueueSize) <= Least(n, QueueSize) + 1
        /\ Least(n + 1, QueueSize - 1) =
             IF Least(n, QueueSize - 1) = QueueSize - 1 THEN QueueSize - 1
             ELSE Least(n, QueueSize - 1) + 1
    BY <1>1, QueueConstants DEF Least
  <1>6. ASSUME NEW d \in 1 .. Least(n + 1, QueueSize)
        PROVE  \/ d = 1 /\ v.queue[Before(v.head, d)] = new
               \/ /\ d - 1 \in 1 .. Least(n, QueueSize)
                  /\ v.queue[Before(v.head, d)] = s.queue[Before(s.head, d - 1)]
    <2> DEFINE e == d - 1
    <2>1. e \in 0 .. QueueSize - 1 /\ d = e + 1 /\ e \in Nat /\ e <= Least(n, QueueSize)
      BY <1>5, QueueConstants
    <2> HIDE DEF e
    <2>2. /\ Before(v.head, d) = Before(s.head, e)
          /\ Before(s.head, e) \in QueueIndex
          /\ Before(s.head, e) = s.head <=> e = 0
      BY <1>1, <1>2, <2>1, StepBack
    <2>3. CASE e = 0
      <3>1. v.queue[s.head] = new
        BY <1>1, <1>2
      <3>. QED
        BY <2>1, <2>2, <2>3, <3>1
    <2>4. CASE e # 0
      <3>1. v.queue[Before(v.head, d)] = s.queue[Before(s.head, e)]
        BY <1>1, <1>2, <2>2, <2>4
      <3>2. e \in 1 .. Least(n, QueueSize)
        BY <1>5, <2>1, <2>4
      <3>. QED
        BY <3>1, <3>2 DEF e
    <2>. QED
      BY <2>3, <2>4
  <1>7. RingOf(v)
    <2>1. ASSUME NEW d \in 1 .. Least(n + 1, QueueSize)
          PROVE  v.queue[Before(v.head, d)].sequence_id = (n + 1) - d
      <3>1. d \in Int
        BY <1>5
      <3>2. CASE d = 1 /\ v.queue[Before(v.head, d)] = new
        BY <1>1, <3>2 DEF new
      <3>3. CASE /\ d - 1 \in 1 .. Least(n, QueueSize)
                 /\ v.queue[Before(v.head, d)] = s.queue[Before(s.head, d - 1)]
        <4>1. s.queue[Before(s.head, d - 1)].sequence_id = n - (d - 1)
          BY <3>3 DEF RingOf, n
        <4>. QED
          BY <1>1, <3>1, <3>3, <4>1
      <3>. QED
        BY <1>6, <3>2, <3>3
    <2>2. Before(s.head, s.tail) = Least(n, QueueSize - 1)
      BY DEF RingOf, n
    <2>3. Before(v.head, v.tail) = Least(n + 1, QueueSize - 1)
      BY <1>1, <1>2, <1>5, <2>2, StepDistance
    <2>. QED
      BY <1>3, <2>1, <2>3 DEF RingOf
  <1>8. ASSUME NEW R, AckedOf(s, R) PROVE AckedOf(v, R)
    <2>1. ASSUME NEW d \in 1 .. Least(n + 1, QueueSize)
          PROVE  v.queue[Before(v.head, d)].outstanding \/ (n + 1) - d \in R
      <3>1. d \in Int
        BY <1>5
      <3>2. CASE d = 1 /\ v.queue[Before(v.head, d)] = new
        BY <3>2 DEF new
      <3>3. CASE /\ d - 1 \in 1 .. Least(n, QueueSize)
                 /\ v.queue[Before(v.head, d)] = s.queue[Before(s.head, d - 1)]
        <4>1. s.queue[Before(s.head, d - 1)].outstanding \/ n - (d - 1) \in R
          BY <1>8, <3>3 DEF AckedOf, n
        <4>2. n - (d - 1) = (n + 1) - d
          BY <1>1, <3>1
        <4>. QED
          BY <3>3, <4>1, <4>2
      <3>. QED
        BY <1>6, <3>2, <3>3
    <2>. QED
      BY <1>3, <2>1 DEF AckedOf
  <1>. QED
    BY <1>2, <1>3, <1>4, <1>7, <1>8 DEF v, n

\* An acknowledgement marks a slot or ends the program; it moves nothing.
LEMMA AckKeepsRing ==
    ASSUME NEW u \in ClientState, NEW ack \in seq_id_t, RingOf(u)
    PROVE  /\ ack_packet(u, ack) \in ClientState
           /\ ack_packet(u, ack).sequence_id = u.sequence_id
           /\ RingOf(ack_packet(u, ack))
  <1> DEFINE v == ack_packet(u, ack)
             x == SlotOf(u, sequence_id__delta(u.sequence_id, ack))
  <1>1. \/ v = u
        \/ v = [u EXCEPT !.status = "aborted"]
        \/ v = [u EXCEPT !.queue[x].outstanding = FALSE]
    BY DEF ack_packet
  <1> HIDE DEF v, x
  <1>2. /\ v \in ClientState /\ v.sequence_id = u.sequence_id
        /\ v.head = u.head /\ v.tail = u.tail
        /\ \A i \in QueueIndex : v.queue[i].sequence_id = u.queue[i].sequence_id
    <2>1. CASE v = u
      BY <2>1
    <2>2. CASE v = [u EXCEPT !.status = "aborted"]
      BY <2>2 DEF ClientState, Status
    <2>3. CASE v = [u EXCEPT !.queue[x].outstanding = FALSE]
      <3> DEFINE queue == [u.queue EXCEPT ![x].outstanding = FALSE]
      <3>1. u.queue \in [QueueIndex -> SentPacket]
        BY ClientTypes
      <3>2. queue \in [QueueIndex -> SentPacket]
            /\ \A i \in QueueIndex : queue[i].sequence_id = u.queue[i].sequence_id
        BY <3>1 DEF SentPacket
      <3>3. v = [u EXCEPT !.queue = queue]
        BY <2>3
      <3> HIDE DEF queue
      <3>. QED
        BY <3>2, <3>3 DEF ClientState
    <2>. QED
      BY <1>1, <2>1, <2>2, <2>3
  <1>3. RingOf(v)
    <2>1. ASSUME NEW d \in 1 .. Least(u.sequence_id, QueueSize)
          PROVE  v.queue[Before(v.head, d)].sequence_id = u.sequence_id - d
      <3>1. d \in 0 .. QueueSize /\ u.head \in QueueIndex
        BY ClientTypes, QueueConstants DEF Least
      <3>2. Before(u.head, d) \in QueueIndex
        BY <3>1, BeforeValue
      <3>3. u.queue[Before(u.head, d)].sequence_id = u.sequence_id - d
        BY DEF RingOf
      <3>. QED
        BY <1>2, <3>2, <3>3
    <2>. QED
      BY <1>2, <2>1 DEF RingOf
  <1>. QED
    BY <1>2, <1>3 DEF v

\* An acknowledged id that was really sent is in its slot, or too old for the
\* ring: the assertion holds, and the slot marked is that of the id.
LEMMA AckMarksItsPacket ==
    ASSUME NEW u \in ClientState, NEW ack \in Nat, RingOf(u),
           u.sequence_id <= MaxSent, ack < u.sequence_id
    PROVE  /\ ack_packet(u, ack).status = u.status
           /\ \A R : AckedOf(u, R) /\ ack \in R => AckedOf(ack_packet(u, ack), R)
  <1> DEFINE v == ack_packet(u, ack)
             n == u.sequence_id
             e == n - ack
             x == Before(u.head, e)
  <1>1. /\ n \in Nat /\ n <= MaxSent /\ ack < n /\ u.head \in QueueIndex
        /\ u.queue \in [QueueIndex -> SentPacket]
    BY ClientTypes
  <1>2. sequence_id__delta(n, ack) = e /\ e \in Nat /\ e >= 1 /\ e <= n /\ ack = n - e
    BY <1>1, QueueConstants DEF sequence_id__delta
  <1>3. CASE e >= QueueSize
    BY <1>2, <1>3 DEF ack_packet
  <1>4. CASE ~(e >= QueueSize)
    <2>1. e \in 1 .. Least(n, QueueSize) /\ e \in 0 .. QueueSize /\ e \in 1 .. QueueSize
      BY <1>1, <1>2, <1>4, QueueConstants DEF Least
    <2>2. u.queue[x].sequence_id = ack /\ x \in QueueIndex
      BY <1>1, <1>2, <2>1, BeforeValue DEF RingOf
    <2>3. v = [u EXCEPT !.queue[x].outstanding = FALSE]
      BY <1>2, <1>4, <2>2 DEF ack_packet, SlotOf, Before
    <2> DEFINE queue == [u.queue EXCEPT ![x].outstanding = FALSE]
    <2>4. v = [u EXCEPT !.queue = queue]
      BY <2>3
    <2>5. \A i \in QueueIndex : i # x => queue[i] = u.queue[i]
      BY <1>1, <2>2
    <2> HIDE DEF v, n, e, x, queue
    <2>6. /\ v.status = u.status /\ v.sequence_id = n /\ v.head = u.head
          /\ v.queue = queue
      BY <2>4 DEF ClientState, n
    <2>7. ASSUME NEW R, AckedOf(u, R), ack \in R PROVE AckedOf(v, R)
      <3>1. ASSUME NEW d \in 1 .. Least(n, QueueSize)
            PROVE  v.queue[Before(u.head, d)].outstanding \/ n - d \in R
        <4>1. d \in 1 .. QueueSize /\ d \in 0 .. QueueSize
          BY <1>1, QueueConstants DEF Least
        <4>2. CASE d = e
          BY <1>2, <2>7, <4>2
        <4>3. CASE d # e
          <5>1. Before(u.head, d) # x /\ Before(u.head, d) \in QueueIndex
            BY <1>1, <2>1, <4>1, <4>3, BeforeInjective, BeforeValue DEF x
          <5>2. u.queue[Before(u.head, d)].outstanding \/ n - d \in R
            BY <2>7 DEF AckedOf, n
          <5>3. v.queue[Before(u.head, d)] = u.queue[Before(u.head, d)]
            BY <2>5, <2>6, <5>1
          <5>. QED
            BY <5>2, <5>3
        <4>. QED
          BY <4>2, <4>3
      <3>. QED
        BY <2>6, <3>1 DEF AckedOf
    <2>. QED
      BY <2>6, <2>7 DEF v
  <1>. QED
    BY <1>3, <1>4

\* A packet of the server is taken into the window, which the ring knows
\* nothing of, and then acknowledges.
LEMMA ReceiveRing ==
    ASSUME NEW s \in ClientState, RingOf(s),
           NEW p, p.sequence_id \in seq_id_t, p.ack \in seq_id_t,
           NEW v \in receive_packet(s, p)
    PROVE  /\ v \in ClientState /\ v.sequence_id = s.sequence_id /\ RingOf(v)
           /\ s.sequence_id <= MaxSent /\ p.ack < s.sequence_id =>
                /\ v.status = s.status
                /\ \A R : AckedOf(s, R) /\ p.ack \in R => AckedOf(v, R)
  <1> DEFINE a == connection_accept(s, p.sequence_id)
  <1>1. /\ a \in ClientState /\ a.sequence_id = s.sequence_id /\ a.status = s.status
        /\ a.queue = s.queue /\ a.head = s.head /\ a.tail = s.tail
    BY WindowStaysWindow DEF connection_accept, ClientState
  <1>2. PICK w \in accept_packet(a.window, p.sequence_id) :
           v = ack_packet([a EXCEPT !.window = w], p.ack)
    BY DEF receive_packet
  <1> HIDE DEF a
  <1>3. w \in WindowType
    BY <1>1, <1>2, ClientTypes, WindowStaysWindow
  <1> DEFINE u == [a EXCEPT !.window = w]
  <1>4. /\ u \in ClientState /\ u.sequence_id = s.sequence_id /\ u.status = s.status
        /\ u.queue = s.queue /\ u.head = s.head /\ u.tail = s.tail
    BY <1>1, <1>3 DEF ClientState
  <1>5. v = ack_packet(u, p.ack)
    BY <1>2
  <1> HIDE DEF u
  <1>6. RingOf(u) /\ \A R : AckedOf(s, R) => AckedOf(u, R)
    BY <1>4 DEF RingOf, AckedOf
  <1>7. v \in ClientState /\ v.sequence_id = s.sequence_id /\ RingOf(v)
    BY <1>4, <1>5, <1>6, AckKeepsRing
  <1>8. ASSUME s.sequence_id <= MaxSent, p.ack < s.sequence_id
        PROVE  /\ v.status = s.status
               /\ \A R : AckedOf(s, R) /\ p.ack \in R => AckedOf(v, R)
    <2>1. p.ack \in Nat
      BY DEF seq_id_t
    <2>. QED
      BY <1>4, <1>5, <1>6, <1>8, <2>1, AckMarksItsPacket
  <1>. QED
    BY <1>7, <1>8
----------------------------------------------------------------------------
\* Its actions are those of the table.
LEMMA ServerIsTable ==
    /\ Server!Init <=> Table!Init
    /\ Server!FrameTicks = Table!FrameTicks
    /\ \A dt : Server!StartFrame(dt) <=> Table!StartFrame(dt)
    /\ \A a, id : Server!ReceivePacket(a, id) <=> Table!ReceivePacket(a, id)
    /\ Server!DropStale <=> Table!DropStale
    /\ Server!SendPackets <=> Table!SendPackets
  <1>1. Server!Init <=> Table!Init
    BY Zenon DEF Server!Init, Table!Init, Server!NewConnection, Table!NewConnection,
                 Server!SlotIndex, Table!SlotIndex
  <1>2. Server!FrameTicks = Table!FrameTicks
    BY DEF Server!FrameTicks, Table!FrameTicks
  <1>3. ASSUME NEW dt PROVE Server!StartFrame(dt) <=> Table!StartFrame(dt)
    BY Zenon DEF Server!StartFrame, Table!StartFrame, Server!SlotIndex, Table!SlotIndex,
                 Server!Saturated, Table!Saturated
  <1>4. ASSUME NEW a, NEW id PROVE Server!ReceivePacket(a, id) <=> Table!ReceivePacket(a, id)
    BY Zenon DEF Server!ReceivePacket, Table!ReceivePacket,
                 Server!SlotsOf, Table!SlotsOf, Server!Connected, Table!Connected,
                 Server!SlotIndex, Table!SlotIndex, Server!FreeSlots, Table!FreeSlots,
                 Server!IsFreeConnection, Table!IsFreeConnection,
                 Server!AcceptPacket, Table!AcceptPacket,
                 Server!AcceptConnection, Table!AcceptConnection,
                 Server!FreshWindow, Table!FreshWindow, Server!BitIndex, Table!BitIndex,
                 Server!accept_packet, Table!accept_packet,
                 Server!AcceptNewer, Table!AcceptNewer, Server!AcceptOlder, Table!AcceptOlder,
                 Server!Advanced, Table!Advanced, Server!ShiftLeft, Table!ShiftLeft,
                 Server!lost_packets, Table!lost_packets,
                 Server!Cardinality, Table!Cardinality,
                 Server!sequence_id__delta, Table!sequence_id__delta,
                 Server!sequence_id__is_more_recent, Table!sequence_id__is_more_recent,
                 Server!HalfRange, Table!HalfRange
  <1>5. Server!DropStale <=> Table!DropStale
    BY Zenon DEF Server!DropStale, Table!DropStale, Server!Stale, Table!Stale,
                 Server!Drop, Table!Drop, Server!Connected, Table!Connected,
                 Server!SlotIndex, Table!SlotIndex, Server!Cardinality, Table!Cardinality
  <1>6. Server!SendPackets <=> Table!SendPackets
    BY Zenon DEF Server!SendPackets, Table!SendPackets,
                 Server!sequence_id__next, Table!sequence_id__next
  <1>. QED
    BY <1>1, <1>2, <1>3, <1>4, <1>5, <1>6

LEMMA TableInit == Server!Init => Table!TableInv
  BY TableConstants, ServerIsTable, Table!InitTable

\* Every step of the server in the session keeps the invariant of its table.
LEMMA TableStep ==
    ASSUME Table!TableInv,
           \/ \E dt \in Server!FrameTicks : Server!StartFrame(dt)
           \/ \E a \in Clients, id \in seq_id_t : Server!ReceivePacket(a, id)
           \/ Server!DropStale
           \/ Server!SendPackets
    PROVE  Table!TableInv'
  <1>1. ASSUME NEW dt \in Server!FrameTicks, Server!StartFrame(dt) PROVE Table!TableInv'
    BY <1>1, TableConstants, ServerIsTable, Table!StartFrameTable
  <1>2. ASSUME NEW a \in Clients, NEW id \in seq_id_t, Server!ReceivePacket(a, id)
        PROVE  Table!TableInv'
    <2>1. id \in Table!seq_id_t
      BY DEF seq_id_t, Table!seq_id_t
    <2>. QED
      BY <1>2, <2>1, TableConstants, ServerIsTable, Table!ReceivePacketTable
  <1>3. CASE Server!DropStale
    BY <1>3, TableConstants, ServerIsTable, Table!DropStaleTable
  <1>4. CASE Server!SendPackets
    BY <1>4, TableConstants, ServerIsTable, Table!SendPacketsTable
  <1>. QED
    BY <1>1, <1>2, <1>3, <1>4

LEMMA TableRestart == ASSUME ServerRestart PROVE Table!TableInv'
  <1>1. Server!Init'
    BY DEF ServerRestart, Server!Init
  <1>2. (Server!Init => Table!TableInv)'
    BY TableInit, PTL
  <1>. QED
    BY <1>1, <1>2

LEMMA TableUnchanged ==
    ASSUME Table!TableInv,
           UNCHANGED <<connections, connections_fill, server_sequence_id, stage>>
    PROVE  Table!TableInv'
  BY TableConstants, Table!TableStep DEF Table!vars
----------------------------------------------------------------------------
\* What the server acknowledges to an address is what it acknowledged to it
\* before, or, with a packet id of a, that id to a alone.
Acknowledges(s) == [addr |-> connections[s].addr, ack |-> connections[s].window.sequence_id]

KeepsAcks == \A s \in Server!Connected' : s \in Server!Connected /\ Acknowledges(s)' = Acknowledges(s)

LEMMA TableTypes ==
    ASSUME Table!TableInv
    PROVE  /\ connections \in [Server!SlotIndex -> Server!Connection]
           /\ Server!Connected \subseteq Server!SlotIndex
           /\ \A s \in Server!Connected : connections[s].addr \in Clients
           /\ server_sequence_id \in seq_id_t
  BY Zenon DEF Table!TableInv, Table!SlotIndex, Table!Connection, Table!Idle, Table!WindowType,
         Table!seq_id_t, Table!BitIndex, Table!PacketCounter, Table!Connected,
         Table!ConnectedHaveAddress,
         Server!SlotIndex, Server!Connection, Server!Idle, Server!WindowType,
         Server!seq_id_t, Server!BitIndex, Server!PacketCounter, Server!Connected, seq_id_t

LEMMA SlotTypes ==
    ASSUME Table!TableInv, NEW s \in Server!SlotIndex
    PROVE  /\ connections[s] \in Server!Connection
           /\ connections[s].window \in Server!WindowType
           /\ connections[s].window.sequence_id \in seq_id_t
           /\ connections[s].window.ack_bitfield \in SUBSET BitIndex
  <1>1. connections[s] \in Server!Connection
    BY TableTypes
  <1>2. connections[s].window \in Server!WindowType
    BY <1>1 DEF Server!Connection
  <1>. QED
    BY <1>1, <1>2 DEF Server!WindowType, Server!seq_id_t, Server!BitIndex, seq_id_t, BitIndex

LEMMA StartFrameAcks ==
    ASSUME Table!TableInv, NEW dt, Server!StartFrame(dt)
    PROVE  KeepsAcks
  <1>1. \A s \in Server!SlotIndex :
           /\ connections'[s].connected = connections[s].connected
           /\ connections'[s].addr = connections[s].addr
           /\ connections'[s].window = connections[s].window
    BY TableTypes DEF Server!StartFrame, Server!Connection
  <1>. QED
    BY <1>1 DEF KeepsAcks, Acknowledges, Server!Connected

LEMMA DropStaleAcks ==
    ASSUME Table!TableInv, Server!DropStale
    PROVE  KeepsAcks
  <1>1. ASSUME NEW s \in Server!SlotIndex, connections'[s].connected
        PROVE  connections'[s] = connections[s]
    <2>1. connections'[s] = IF s \in Server!Stale
                            THEN [connections[s] EXCEPT !.connected = FALSE] ELSE connections[s]
      BY DEF Server!DropStale, Server!Drop
    <2>2. connections[s] \in Server!Connection
      BY SlotTypes
    <2>3. ~[connections[s] EXCEPT !.connected = FALSE].connected
      BY <2>2 DEF Server!Connection
    <2>. QED
      BY <1>1, <2>1, <2>3
  <1>. QED
    BY <1>1 DEF KeepsAcks, Acknowledges, Server!Connected

LEMMA ReceivePacketAcks ==
    ASSUME Table!TableInv, NEW a \in Clients, NEW id, Server!ReceivePacket(a, id)
    PROVE  \A s \in Server!Connected' :
              \/ s \in Server!Connected /\ Acknowledges(s)' = Acknowledges(s)
              \/ Acknowledges(s)' = [addr |-> a, ack |-> id]
  <1>1. ASSUME NEW t \in Server!SlotsOf(a), Server!AcceptPacket(t, id),
               NEW s \in Server!Connected'
        PROVE  \/ s \in Server!Connected /\ Acknowledges(s)' = Acknowledges(s)
               \/ Acknowledges(s)' = [addr |-> a, ack |-> id]
    <2>1. t \in Server!Connected /\ t \in Server!SlotIndex /\ connections[t].addr = a
      BY DEF Server!SlotsOf, Server!Connected
    <2>2. connections[t] \in Server!Connection /\ connections[t].window \in Server!WindowType
      BY <2>1, SlotTypes
    <2>3. PICK w \in Server!accept_packet(connections[t].window, id) :
             connections' = [connections EXCEPT ![t] = [@ EXCEPT !.idle = 0, !.window = w]]
      BY <1>1 DEF Server!AcceptPacket
    <2>4. w.sequence_id = connections[t].window.sequence_id \/ w.sequence_id = id
      BY <2>2 DEF Server!accept_packet, Server!AcceptNewer, Server!AcceptOlder, Server!WindowType
    <2>5. CASE s = t
      <3>1. connections'[t].addr = a /\ connections'[t].window = w
        BY <2>1, <2>2, <2>3, TableTypes DEF Server!Connection
      <3>. QED
        BY <2>1, <2>4, <2>5, <3>1 DEF Acknowledges
    <2>6. CASE s # t
      <3>1. s \in Server!SlotIndex /\ connections'[s] = connections[s]
        BY <2>3, <2>6, TableTypes DEF Server!Connected
      <3>. QED
        BY <3>1 DEF Acknowledges, Server!Connected
    <2>. QED
      BY <2>5, <2>6
  <1>2. ASSUME NEW t \in Server!SlotIndex, Server!AcceptConnection(t, a, id),
               NEW s \in Server!Connected'
        PROVE  \/ s \in Server!Connected /\ Acknowledges(s)' = Acknowledges(s)
               \/ Acknowledges(s)' = [addr |-> a, ack |-> id]
    <2>1. s \in Server!SlotIndex /\ connections'[s].connected
      BY DEF Server!Connected
    <2>2. CASE s = t
      BY <1>2, <2>2, TableTypes DEF Server!AcceptConnection, Server!FreshWindow, Acknowledges
    <2>3. CASE s # t
      <3>1. connections'[s] = connections[s]
        BY <1>2, <2>1, <2>3, TableTypes DEF Server!AcceptConnection
      <3>. QED
        BY <2>1, <3>1 DEF Acknowledges, Server!Connected
    <2>. QED
      BY <2>2, <2>3
  <1>3. ASSUME connections' = connections, NEW s \in Server!Connected'
        PROVE  s \in Server!Connected /\ Acknowledges(s)' = Acknowledges(s)
    BY <1>3 DEF Acknowledges, Server!Connected
  <1>. QED
    BY <1>1, <1>2, <1>3 DEF Server!ReceivePacket
----------------------------------------------------------------------------
SessionType ==
    /\ client \in [Clients -> ClientState]
    /\ run \in [Clients -> Nat]
    /\ reached \in [Clients -> SUBSET Nat]
    /\ to_server \subseteq [src : Clients, run : Nat, sequence_id : seq_id_t]
    /\ to_client \subseteq [dst : Clients, sequence_id : seq_id_t, ack : seq_id_t,
                            ack_bitfield : SUBSET BitIndex]

ClientsInv == \A c \in Clients : client[c].sequence_id <= MaxSent /\ RingOf(client[c])

\* Datagrams under way were sent, by this run of the client or an earlier one.
FirstRun(c) == run[c] = 0

SentBefore ==
    /\ \A p \in to_server :
          /\ p.run <= run[p.src]
          /\ FirstRun(p.src) => p.sequence_id < client[p.src].sequence_id
    /\ \A c \in Clients : FirstRun(c) => \A i \in reached[c] : i < client[c].sequence_id

\* What the server acknowledges, or has acknowledged in a datagram under way,
\* it has processed.
AcksReached ==
    /\ \A s \in Server!Connected :
          FirstRun(Acknowledges(s).addr) => Acknowledges(s).ack \in reached[Acknowledges(s).addr]
    /\ \A p \in to_client : FirstRun(p.dst) => p.ack \in reached[p.dst]

\* What a client has concluded from it.
ClientsConclude ==
    \A c \in Clients : FirstRun(c) => /\ client[c].status # "aborted"
                                      /\ AckedOf(client[c], reached[c])

\* Inductive: an acknowledgement is followed from the packet on its way to the
\* server, through the server's table and the packet on its way back, into the
\* client's ring, each stage knowing what the one before guarantees.
SessionInv ==
    /\ SessionType
    /\ Table!TableInv
    /\ ClientsInv
    /\ SentBefore
    /\ AcksReached
    /\ ClientsConclude

LEMMA InitSession == Init => SessionInv
  <1>. SUFFICES ASSUME Init PROVE SessionInv
    OBVIOUS
  <1>1. client = [c \in Clients |-> NewClient] /\ to_server = {} /\ to_client = {}
        /\ run = [c \in Clients |-> 0] /\ reached = [c \in Clients |-> {}]
    BY DEF Init, ClientInit
  <1>2. SessionType
    BY <1>1, NewClientRing DEF SessionType
  <1>3. Table!TableInv
    BY TableInit DEF Init
  <1>4. Server!Connected = {}
    BY DEF Init, Server!Init, Server!NewConnection, Server!Connected
  <1>5. ClientsInv
    BY <1>1, NewClientRing, QueueConstants DEF ClientsInv
  <1>6. SentBefore /\ AcksReached
    BY <1>1, <1>4 DEF SentBefore, AcksReached
  <1>7. ClientsConclude
    BY <1>1, NewClientRing DEF ClientsConclude
  <1>. QED
    BY <1>2, <1>3, <1>5, <1>6, <1>7 DEF SessionInv

\* The client's steps leave the server alone.
LEMMA SendSession ==
    ASSUME SessionInv, NEW c \in Clients, Send(c)
    PROVE  SessionInv'
  <1> DEFINE s == client[c]
             v == send_packet(s)
             p == [src |-> c, run |-> run[c], sequence_id |-> s.sequence_id]
  <1>1. /\ s \in ClientState /\ RingOf(s) /\ s.sequence_id < MaxSent
        /\ s.sequence_id \in seq_id_t /\ s.sequence_id \in Nat
    BY ClientTypes DEF SessionInv, SessionType, ClientsInv, Send
  <1>2. /\ v \in ClientState /\ v.sequence_id = s.sequence_id + 1 /\ v.status = s.status
        /\ RingOf(v) /\ \A R : AckedOf(s, R) => AckedOf(v, R)
    BY <1>1, SendRing
  <1>3. /\ client' = [client EXCEPT ![c] = v] /\ to_server' = to_server \cup {p}
        /\ UNCHANGED <<connections, connections_fill, server_sequence_id, stage>>
        /\ UNCHANGED <<to_client, run, reached>>
    BY DEF Send, ClientSend, serverVars
  <1> HIDE DEF v
  <1>4. client \in [Clients -> ClientState]
    BY DEF SessionInv, SessionType
  <1>5. \A k \in Clients : client'[k] = IF k = c THEN v ELSE client[k]
    BY <1>3, <1>4
  <1>6. SessionType'
    <2>1. p \in [src : Clients, run : Nat, sequence_id : seq_id_t]
      BY <1>1 DEF SessionInv, SessionType
    <2>. HIDE DEF p
    <2>. QED
      BY <1>2, <1>3, <1>4, <2>1 DEF SessionInv, SessionType
  <1>7. Table!TableInv'
    BY <1>3, TableUnchanged DEF SessionInv
  <1>8. ClientsInv'
    BY <1>1, <1>2, <1>5, QueueConstants DEF SessionInv, ClientsInv
  <1>9. \A k \in Clients : client[k].sequence_id <= client'[k].sequence_id
    <2>1. \A k \in Clients : client[k].sequence_id \in Nat
      BY <1>4, ClientTypes
    <2>. QED
      BY <1>1, <1>2, <1>5, <2>1
  <1>10. SentBefore'
    <2>1. \A k \in Clients : client[k].sequence_id \in Nat /\ client'[k].sequence_id \in Nat
      BY <1>2, <1>4, <1>5, ClientTypes
    <2>2. ASSUME NEW q \in to_server'
          PROVE  /\ q.run <= run[q.src]
                 /\ FirstRun(q.src) => q.sequence_id < client'[q.src].sequence_id
      <3>1. CASE q = p
        BY <1>1, <1>2, <1>5, <3>1 DEF SessionInv, SessionType
      <3>2. CASE q \in to_server
        <4>1. q.src \in Clients /\ q.sequence_id \in Nat
          BY <3>2 DEF SessionInv, SessionType, seq_id_t
        <4>2. /\ q.run <= run[q.src]
              /\ FirstRun(q.src) => q.sequence_id < client[q.src].sequence_id
          BY <3>2 DEF SessionInv, SentBefore
        <4>. QED
          BY <1>9, <2>1, <4>1, <4>2
      <3>. QED
        BY <1>3, <3>1, <3>2
    <2>3. ASSUME NEW k \in Clients, FirstRun(k), NEW i \in reached[k]
          PROVE  i < client'[k].sequence_id
      <3>1. i < client[k].sequence_id /\ i \in Nat
        BY <2>3 DEF SessionInv, SentBefore, SessionType
      <3>. QED
        BY <1>9, <2>1, <3>1
    <2>. QED
      BY <1>3, <2>2, <2>3 DEF SentBefore, FirstRun
  <1>11. AcksReached'
    BY <1>3 DEF SessionInv, AcksReached, FirstRun, Acknowledges, Server!Connected
  <1>12. ClientsConclude'
    BY <1>2, <1>3, <1>5 DEF SessionInv, ClientsConclude, FirstRun
  <1>. QED
    BY <1>6, <1>7, <1>8, <1>10, <1>11, <1>12 DEF SessionInv

\* A client that keeps its ids and its ring, and has concluded nothing false,
\* disturbs nothing else.
LEMMA ClientStepSession ==
    ASSUME SessionInv, NEW c \in Clients, NEW v \in ClientState,
           client' = [client EXCEPT ![c] = v],
           v.sequence_id = client[c].sequence_id, RingOf(v),
           FirstRun(c) => v.status # "aborted" /\ AckedOf(v, reached[c]),
           UNCHANGED <<serverVars, to_server, to_client, run, reached>>
    PROVE  SessionInv'
  <1>1. client \in [Clients -> ClientState]
    BY DEF SessionInv, SessionType
  <1>2. \A k \in Clients : client'[k] = IF k = c THEN v ELSE client[k]
    BY <1>1
  <1>3. SessionType'
    BY <1>1 DEF SessionInv, SessionType
  <1>4. Table!TableInv'
    BY TableUnchanged DEF SessionInv, serverVars
  <1>5. ClientsInv'
    BY <1>2 DEF SessionInv, ClientsInv
  <1>6. SentBefore'
    <2>1. \A k \in Clients : client'[k].sequence_id = client[k].sequence_id
      BY <1>2
    <2>2. \A p \in to_server : p.src \in Clients
      BY DEF SessionInv, SessionType
    <2>. QED
      BY <2>1, <2>2 DEF SessionInv, SentBefore, FirstRun
  <1>7. AcksReached'
    BY DEF SessionInv, AcksReached, FirstRun, Acknowledges, Server!Connected, serverVars
  <1>8. ClientsConclude'
    BY <1>2 DEF SessionInv, ClientsConclude, FirstRun
  <1>. QED
    BY <1>3, <1>4, <1>5, <1>6, <1>7, <1>8 DEF SessionInv

LEMMA ReceiveSession ==
    ASSUME SessionInv, NEW c \in Clients, NEW p \in to_client, Receive(c, p)
    PROVE  SessionInv'
  <1>1. /\ client[c] \in ClientState /\ RingOf(client[c]) /\ client[c].sequence_id <= MaxSent
        /\ p.sequence_id \in seq_id_t /\ p.ack \in seq_id_t /\ p.dst = c
    BY DEF SessionInv, SessionType, ClientsInv, Receive
  <1>2. PICK v \in receive_packet(client[c], p) : client' = [client EXCEPT ![c] = v]
    BY DEF Receive, ClientReceive
  <1>3. /\ v \in ClientState /\ v.sequence_id = client[c].sequence_id /\ RingOf(v)
        /\ p.ack < client[c].sequence_id =>
              /\ v.status = client[c].status
              /\ \A R : AckedOf(client[c], R) /\ p.ack \in R => AckedOf(v, R)
    BY <1>1, <1>2, ReceiveRing
  <1>4. ASSUME FirstRun(c) PROVE v.status # "aborted" /\ AckedOf(v, reached[c])
    <2>1. p.ack \in reached[c] /\ p.ack < client[c].sequence_id
      BY <1>1, <1>4 DEF SessionInv, AcksReached, SentBefore
    <2>2. client[c].status # "aborted" /\ AckedOf(client[c], reached[c])
      BY <1>4 DEF SessionInv, ClientsConclude
    <2>. QED
      BY <1>3, <2>1, <2>2
  <1>. QED
    BY <1>2, <1>3, <1>4, ClientStepSession DEF Receive

LEMMA StopSession ==
    ASSUME SessionInv, NEW c \in Clients, Stop(c)
    PROVE  SessionInv'
  <1> DEFINE v == [client[c] EXCEPT !.status = "stopped"]
  <1>1. client \in [Clients -> ClientState] /\ client[c] \in ClientState /\ RingOf(client[c])
    BY DEF SessionInv, SessionType, ClientsInv
  <1>2. client' = [client EXCEPT ![c] = v]
    BY DEF Stop, ClientStop
  <1>3. /\ v \in ClientState /\ v.status = "stopped"
        /\ v.sequence_id = client[c].sequence_id /\ v.queue = client[c].queue
        /\ v.head = client[c].head /\ v.tail = client[c].tail
    BY <1>1 DEF ClientState, Status
  <1> HIDE DEF v
  <1>4. RingOf(v) /\ \A R : AckedOf(client[c], R) => AckedOf(v, R)
    BY <1>1, <1>3 DEF RingOf, AckedOf
  <1>5. FirstRun(c) => AckedOf(v, reached[c])
    BY <1>4 DEF SessionInv, ClientsConclude
  <1>. QED
    BY <1>2, <1>3, <1>4, <1>5, ClientStepSession DEF Stop

\* A restarted client is in its first run no more.
LEMMA RestartSession ==
    ASSUME SessionInv, NEW c \in Clients, Restart(c)
    PROVE  SessionInv'
  <1>1. /\ client' = [client EXCEPT ![c] = NewClient]
        /\ run' = [run EXCEPT ![c] = @ + 1]
        /\ reached' = [reached EXCEPT ![c] = {}]
        /\ UNCHANGED <<connections, connections_fill, server_sequence_id, stage>>
        /\ UNCHANGED <<to_server, to_client>>
    BY DEF Restart, ClientRestart, serverVars
  <1>2. /\ client \in [Clients -> ClientState] /\ run \in [Clients -> Nat]
        /\ reached \in [Clients -> SUBSET Nat]
    BY DEF SessionInv, SessionType
  <1>3. /\ run'[c] = run[c] + 1 /\ run[c] \in Nat /\ client'[c] = NewClient
        /\ \A k \in Clients \ {c} : /\ client'[k] = client[k] /\ run'[k] = run[k]
                                    /\ reached'[k] = reached[k]
    BY <1>1, <1>2
  <1>4. \A k \in Clients : run'[k] = 0 => k # c
    BY <1>3
  <1>5. SessionType'
    <2>1. client' \in [Clients -> ClientState]
      BY <1>1, <1>2, NewClientRing
    <2>2. run' \in [Clients -> Nat] /\ reached' \in [Clients -> SUBSET Nat]
      BY <1>1, <1>2
    <2>. QED
      BY <1>1, <2>1, <2>2 DEF SessionInv, SessionType
  <1>6. Table!TableInv'
    BY <1>1, TableUnchanged DEF SessionInv
  <1>7. ClientsInv'
    <2>1. ASSUME NEW k \in Clients
          PROVE  client'[k].sequence_id <= MaxSent /\ RingOf(client'[k])
      <3>1. CASE k = c
        BY <1>3, <3>1, NewClientRing, QueueConstants
      <3>2. CASE k # c
        BY <1>3, <3>2 DEF SessionInv, ClientsInv
      <3>. QED
        BY <3>1, <3>2
    <2>. QED
      BY <2>1 DEF ClientsInv
  <1>8. SentBefore'
    <2>1. ASSUME NEW p \in to_server
          PROVE  /\ p.run <= run'[p.src]
                 /\ run'[p.src] = 0 => p.sequence_id < client'[p.src].sequence_id
      <3>1. /\ p.src \in Clients /\ p.run \in Nat /\ p.run <= run[p.src]
            /\ run[p.src] = 0 => p.sequence_id < client[p.src].sequence_id
        BY DEF SessionInv, SessionType, SentBefore, FirstRun
      <3>. QED
        BY <1>3, <1>4, <3>1
    <2>2. ASSUME NEW k \in Clients, run'[k] = 0, NEW i \in reached'[k]
          PROVE  i < client'[k].sequence_id
      BY <1>3, <1>4, <2>2 DEF SessionInv, SentBefore, FirstRun
    <2>. QED
      BY <1>1, <2>1, <2>2 DEF SentBefore, FirstRun
  <1>9. AcksReached'
    <2>1. ASSUME NEW t \in Server!Connected', run'[Acknowledges(t).addr'] = 0
          PROVE  Acknowledges(t).ack' \in reached'[Acknowledges(t).addr']
      <3>1. t \in Server!Connected /\ Acknowledges(t)' = Acknowledges(t)
        BY <1>1 DEF Acknowledges, Server!Connected
      <3>2. Acknowledges(t).addr \in Clients
        BY <3>1, TableTypes DEF SessionInv, Acknowledges
      <3>. QED
        BY <1>3, <1>4, <2>1, <3>1, <3>2 DEF SessionInv, AcksReached, FirstRun
    <2>2. ASSUME NEW p \in to_client, run'[p.dst] = 0
          PROVE  p.ack \in reached'[p.dst]
      <3>1. p.dst \in Clients
        BY DEF SessionInv, SessionType
      <3>. QED
        BY <1>3, <1>4, <2>2, <3>1 DEF SessionInv, AcksReached, FirstRun
    <2>. QED
      BY <1>1, <2>1, <2>2 DEF AcksReached, FirstRun
  <1>10. ClientsConclude'
    BY <1>3, <1>4 DEF SessionInv, ClientsConclude, FirstRun
  <1>. QED
    BY <1>5, <1>6, <1>7, <1>8, <1>9, <1>10 DEF SessionInv

\* A step of the server that sends and hears nothing.
LEMMA ServerStepSession ==
    ASSUME SessionInv, Table!TableInv', KeepsAcks,
           UNCHANGED <<client, to_server, to_client, run, reached>>
    PROVE  SessionInv'
  <1>1. SessionType' /\ ClientsInv' /\ SentBefore' /\ ClientsConclude'
    BY DEF SessionInv, SessionType, ClientsInv, SentBefore, ClientsConclude, FirstRun
  <1>2. AcksReached'
    BY DEF SessionInv, AcksReached, KeepsAcks, FirstRun
  <1>. QED
    BY <1>1, <1>2 DEF SessionInv

\* Whatever the server has of a client in its first run came from that run.
LEMMA ServerReceiveSession ==
    ASSUME SessionInv, NEW p \in to_server, ServerReceive(p)
    PROVE  SessionInv'
  <1> DEFINE a == p.src
             id == p.sequence_id
             counts == p.run = run[a] /\ a \in Server!Members'
  <1>1. /\ a \in Clients /\ id \in seq_id_t /\ id \in Nat /\ p.run \in Nat
        /\ run[a] \in Nat /\ p.run <= run[a]
        /\ FirstRun(a) => id < client[a].sequence_id
        /\ reached \in [Clients -> SUBSET Nat]
    BY DEF SessionInv, SessionType, SentBefore, seq_id_t
  <1>2. /\ Server!ReceivePacket(a, id)
        /\ reached' = IF counts THEN [reached EXCEPT ![a] = @ \cup {id}] ELSE reached
        /\ UNCHANGED <<client, to_server, to_client, run>>
    BY DEF ServerReceive
  <1> HIDE DEF a, id, counts
  <1>3. Table!TableInv'
    BY <1>1, <1>2, TableStep DEF SessionInv
  <1>4. reached' \in [Clients -> SUBSET Nat]
        /\ \A c \in Clients : /\ reached[c] \subseteq reached'[c]
                              /\ reached'[c] \subseteq reached[c] \cup {id}
                              /\ c # a => reached'[c] = reached[c]
    BY <1>1, <1>2
  <1>5. SessionType' /\ ClientsInv'
    BY <1>2, <1>4 DEF SessionInv, SessionType, ClientsInv
  <1>6. SentBefore'
    <2>1. ASSUME NEW c \in Clients, FirstRun(c), NEW i \in reached'[c]
          PROVE  i < client[c].sequence_id
      BY <1>1, <1>4, <2>1 DEF SessionInv, SentBefore
    <2>. QED
      BY <1>2, <2>1 DEF SessionInv, SentBefore, FirstRun
  <1>7. ASSUME NEW s \in Server!Connected', FirstRun(Acknowledges(s).addr')
        PROVE  Acknowledges(s).ack' \in reached'[Acknowledges(s).addr']
    <2>1. CASE s \in Server!Connected /\ Acknowledges(s)' = Acknowledges(s)
      <3>1. Acknowledges(s).addr \in Clients
        BY <2>1, TableTypes DEF SessionInv, Acknowledges
      <3>. QED
        BY <1>4, <1>7, <2>1, <3>1 DEF SessionInv, AcksReached, FirstRun
    <2>2. CASE Acknowledges(s)' = [addr |-> a, ack |-> id]
      <3>1. Acknowledges(s).addr' = a /\ Acknowledges(s).ack' = id
        BY <2>2
      <3>2. connections'[s].addr = a
        BY <3>1 DEF Acknowledges
      <3>3. a \in Server!Members'
        BY <3>2 DEF Server!Members
      <3>4. p.run = run[a]
        BY <1>1, <1>7, <3>1 DEF FirstRun
      <3>5. reached' = [reached EXCEPT ![a] = @ \cup {id}]
        BY <1>2, <3>3, <3>4 DEF counts
      <3>. QED
        BY <1>1, <3>1, <3>5
    <2>. QED
      BY <1>1, <1>2, <2>1, <2>2, ReceivePacketAcks DEF SessionInv
  <1>8. AcksReached'
    <2>1. ASSUME NEW q \in to_client, FirstRun(q.dst) PROVE q.ack \in reached'[q.dst]
      <3>1. q.dst \in Clients
        BY DEF SessionInv, SessionType
      <3>. QED
        BY <1>4, <2>1, <3>1 DEF SessionInv, AcksReached
    <2>. QED
      BY <1>2, <1>7, <2>1 DEF AcksReached, FirstRun
  <1>9. ClientsConclude'
    <2>1. ASSUME NEW c \in Clients, FirstRun(c)
          PROVE  client[c].status # "aborted" /\ AckedOf(client[c], reached'[c])
      BY <1>4, <2>1 DEF SessionInv, ClientsConclude, AckedOf
    <2>. QED
      BY <1>2, <2>1 DEF ClientsConclude, FirstRun
  <1>. QED
    BY <1>3, <1>5, <1>6, <1>8, <1>9 DEF SessionInv

\* What is sent is what the table holds.
LEMMA ServerSendSession ==
    ASSUME SessionInv, ServerSend
    PROVE  SessionInv'
  <1>1. /\ Server!SendPackets /\ to_client' = to_client \cup Server!PacketsToSend
        /\ UNCHANGED <<client, to_server, run, reached, connections>>
    BY DEF ServerSend, Server!SendPackets
  <1>2. Table!TableInv'
    BY <1>1, TableStep DEF SessionInv
  <1>3. ASSUME NEW p \in Server!PacketsToSend
        PROVE  /\ p \in [dst : Clients, sequence_id : seq_id_t, ack : seq_id_t,
                         ack_bitfield : SUBSET BitIndex]
               /\ FirstRun(p.dst) => p.ack \in reached[p.dst]
    <2>1. PICK s \in Server!Connected :
             p = [dst |-> connections[s].addr, sequence_id |-> server_sequence_id,
                  ack |-> connections[s].window.sequence_id,
                  ack_bitfield |-> connections[s].window.ack_bitfield]
      BY DEF Server!PacketsToSend
    <2>2. s \in Server!SlotIndex /\ connections[s].addr \in Clients
          /\ server_sequence_id \in seq_id_t
      BY TableTypes DEF SessionInv
    <2>3. connections[s].window.sequence_id \in seq_id_t
          /\ connections[s].window.ack_bitfield \in SUBSET BitIndex
      BY <2>2, SlotTypes DEF SessionInv
    <2>4. FirstRun(connections[s].addr) =>
             connections[s].window.sequence_id \in reached[connections[s].addr]
      BY DEF SessionInv, AcksReached, Acknowledges
    <2>. QED
      BY <2>1, <2>2, <2>3, <2>4
  <1>4. SessionType' /\ ClientsInv' /\ SentBefore' /\ ClientsConclude'
    BY <1>1, <1>3 DEF SessionInv, SessionType, ClientsInv, SentBefore, ClientsConclude, FirstRun
  <1>5. AcksReached'
    BY <1>1, <1>3 DEF SessionInv, AcksReached, FirstRun, Acknowledges, Server!Connected
  <1>. QED
    BY <1>2, <1>4, <1>5 DEF SessionInv

\* A server that starts again knows nothing, and so acknowledges nothing.
LEMMA ServerRestartSession ==
    ASSUME SessionInv, ServerRestart
    PROVE  SessionInv'
  <1>1. Server!Connected' = {}
    BY DEF ServerRestart, Server!Connected, Server!NewConnection
  <1>2. KeepsAcks
    BY <1>1 DEF KeepsAcks
  <1>. QED
    BY <1>2, TableRestart, ServerStepSession DEF ServerRestart

LEMMA SessionStep == SessionInv /\ [Next]_vars => SessionInv'
  <1>. SUFFICES ASSUME SessionInv, [Next]_vars PROVE SessionInv'
    OBVIOUS
  <1>1. ASSUME NEW c \in Clients, Send(c) \/ Stop(c) \/ Restart(c) PROVE SessionInv'
    BY <1>1, SendSession, StopSession, RestartSession
  <1>2. ASSUME NEW c \in Clients, NEW p \in to_client, Receive(c, p) PROVE SessionInv'
    BY <1>2, ReceiveSession
  <1>3. ASSUME NEW dt \in Server!FrameTicks, ServerStartFrame(dt) PROVE SessionInv'
    <2>1. Server!StartFrame(dt) /\ UNCHANGED <<client, to_server, to_client, run, reached>>
      BY <1>3 DEF ServerStartFrame
    <2>. QED
      BY <2>1, TableStep, StartFrameAcks, ServerStepSession DEF SessionInv
  <1>4. ASSUME NEW p \in to_server, ServerReceive(p) PROVE SessionInv'
    BY <1>4, ServerReceiveSession
  <1>5. CASE ServerDropStale
    <2>1. Server!DropStale /\ UNCHANGED <<client, to_server, to_client, run, reached>>
      BY <1>5 DEF ServerDropStale
    <2>. QED
      BY <2>1, TableStep, DropStaleAcks, ServerStepSession DEF SessionInv
  <1>6. CASE ServerSend
    BY <1>6, ServerSendSession
  <1>7. CASE ServerRestart
    BY <1>7, ServerRestartSession
  <1>8. CASE BoundsReached \/ UNCHANGED vars
    <2>1. UNCHANGED vars
      BY <1>8 DEF BoundsReached
    <2>2. KeepsAcks /\ UNCHANGED <<client, to_server, to_client, run, reached>>
      BY <2>1 DEF vars, serverVars, KeepsAcks, Acknowledges, Server!Connected
    <2>3. Table!TableInv'
      BY <2>1, TableUnchanged DEF vars, serverVars, SessionInv
    <2>. QED
      BY <2>2, <2>3, ServerStepSession
  <1>. QED
    BY <1>1, <1>2, <1>3, <1>4, <1>5, <1>6, <1>7, <1>8 DEF Next

THEOREM SessionIsInvariant == Spec => []SessionInv
  BY InitSession, SessionStep, PTL DEF Spec

\* Every client's ring holds its latest packets, in whichever run.
THEOREM RingsHoldLatest == Spec => []RingHoldsLatest
  <1>1. SessionInv => RingHoldsLatest
    BY RingsOfClients DEF SessionInv, ClientsInv
  <1>. QED
    BY <1>1, SessionIsInvariant, PTL

\* End to end: what a client in its first run takes for delivered, the server
\* has processed, for any number of clients and whatever the network does.
THEOREM AckedArrived == Spec => []AckedReachedServer
  <1>1. SessionInv => AckedReachedServer
    BY AckedOfClients DEF SessionInv, ClientsConclude, FirstRun
  <1>. QED
    BY <1>1, SessionIsInvariant, PTL

\* The assertion of game_client__ack_packet fails in no first run of a client.
THEOREM AssertionHoldsInFirstRun == Spec => []AbortOnlyAfterRestart
  <1>1. SessionInv => AbortOnlyAfterRestart
    BY DEF SessionInv, SessionType, ClientsConclude, FirstRun, AbortOnlyAfterRestart
  <1>. QED
    BY <1>1, SessionIsInvariant, PTL

\* The server's table keeps its count and has one connection per client in
\* the session too, across the restarts of the server.
THEOREM TableInSession ==
    Spec => [](Server!FillIsConnected /\ Server!OneConnectionPerClient)
  <1>1. SessionInv => Server!FillIsConnected /\ Server!OneConnectionPerClient
    BY Zenon DEF SessionInv, Table!TableInv,
           Table!FillIsConnected, Server!FillIsConnected, Table!Cardinality, Server!Cardinality,
           Table!OneConnectionPerClient, Server!OneConnectionPerClient,
           Table!Connected, Server!Connected, Table!SlotIndex, Server!SlotIndex
  <1>. QED
    BY <1>1, SessionIsInvariant, PTL
=============================================================================
