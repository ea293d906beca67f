-------------------------- MODULE GameServerProofs -------------------------
(* The connection table, for every number of clients and connections, every  *)
(* timeout and every width of the ids: its type, the count of connections in *)
(* use and the uniqueness of a client's connection, and from these that the  *)
(* table implements the lobby.                                               *)
EXTENDS GameServer, FiniteSetTheorems, TLAPS

\* Ids stay in their range, and the distance of a younger id is at least 1
\* and at most half the range: the assertion delta > 0 in accept_packet.
LEMMA DeltaType ==
    ASSUME NEW a \in seq_id_t, NEW b \in seq_id_t
    PROVE  /\ sequence_id__delta(a, b) \in seq_id_t
           /\ a # b => sequence_id__delta(a, b) > 0
           /\ sequence_id__next(a) \in seq_id_t
  BY SeqModAssumption DEF seq_id_t, sequence_id__delta, sequence_id__next

LEMMA DeltaPositive ==
    ASSUME NEW a \in seq_id_t, NEW b \in seq_id_t, a # b
    PROVE  sequence_id__delta(a, b) \in Nat \ {0}
  BY SeqModAssumption DEF seq_id_t, sequence_id__delta

LEMMA BitIndexFinite == IsFiniteSet(BitIndex) /\ Cardinality(BitIndex) = AckBits
  BY AckBitsAssumption, FS_Interval DEF BitIndex

LEMMA LostType ==
    ASSUME NEW bits \in SUBSET BitIndex, NEW n \in Nat
    PROVE  lost_packets(bits, n) \in Nat
  <1> DEFINE out == IF n > AckBits THEN AckBits ELSE n
             left == {b \in BitIndex \ bits : b >= AckBits - out}
  <1>1. IsFiniteSet(left)
    BY BitIndexFinite, FS_Subset
  <1>2. Cardinality(left) \in Nat
    BY <1>1, FS_CardinalityType
  <1>. HIDE DEF left
  <1>3. lost_packets(bits, n) = IF bits = {} THEN 0
                                ELSE Cardinality(left) + IF n > AckBits THEN 1 ELSE 0
    BY DEF lost_packets, left
  <1>. QED
    BY <1>2, <1>3

\* The counter wraps into its range.
LEMMA CounterType == ASSUME NEW n \in Nat PROVE n % CounterMod \in PacketCounter
  BY CounterModAssumption DEF PacketCounter

LEMMA AdvancedType ==
    ASSUME NEW bits \in SUBSET BitIndex, NEW delta \in Nat \ {0},
           NEW new \in Advanced(bits, delta)
    PROVE  new \in SUBSET BitIndex
  <1>1. CASE delta > AckBits
    BY <1>1 DEF Advanced
  <1>2. CASE delta <= AckBits
    <2>1. PICK s \in ShiftLeft(bits, delta) : new = s \cup {delta - 1}
      BY <1>2, AckBitsAssumption DEF Advanced
    <2>2. s \in SUBSET BitIndex
      BY <2>1 DEF ShiftLeft
    <2>3. delta - 1 \in BitIndex
      BY <1>2, AckBitsAssumption DEF BitIndex
    <2>. QED
      BY <2>1, <2>2, <2>3
  <1>. QED
    BY <1>1, <1>2, AckBitsAssumption

\* Whatever id arrives, the window stays a window: the counter wraps, and no
\* bit outside the field is ever set.
THEOREM AcceptPacketType ==
    ASSUME NEW w \in WindowType, NEW id \in seq_id_t, NEW new \in accept_packet(w, id)
    PROVE  new \in WindowType
  <1>1. CASE sequence_id__is_more_recent(id, w.sequence_id)
    <2> DEFINE delta == sequence_id__delta(id, w.sequence_id)
    <2>1. new \in AcceptNewer(w, id)
      BY <1>1 DEF accept_packet
    <2>2. w.sequence_id \in seq_id_t /\ w.ack_bitfield \in SUBSET BitIndex
          /\ w.packets_dropped \in PacketCounter
      BY DEF WindowType
    <2>3. id # w.sequence_id
      BY <1>1, <2>2, SeqModAssumption DEF sequence_id__is_more_recent, seq_id_t
    <2>4. delta \in Nat \ {0}
      BY <2>2, <2>3, DeltaPositive
    <2>. HIDE DEF delta
    <2>5. PICK bits \in Advanced(w.ack_bitfield, delta) :
             new = [sequence_id |-> id, ack_bitfield |-> bits,
                    packets_dropped |->
                      (w.packets_dropped + lost_packets(w.ack_bitfield, delta)) % CounterMod]
      BY <2>1 DEF AcceptNewer, delta
    <2>6. bits \in SUBSET BitIndex
      BY <2>2, <2>4, AdvancedType
    <2>7. (w.packets_dropped + lost_packets(w.ack_bitfield, delta)) % CounterMod
            \in PacketCounter
      <3>1. lost_packets(w.ack_bitfield, delta) \in Nat
        BY <2>2, <2>4, LostType
      <3>2. w.packets_dropped \in Nat
        BY <2>2, CounterModAssumption DEF PacketCounter
      <3>. QED
        BY <3>1, <3>2, CounterType
    <2>. QED
      BY <2>5, <2>6, <2>7 DEF WindowType
  <1>2. CASE ~sequence_id__is_more_recent(id, w.sequence_id) /\ id # w.sequence_id
    <2>1. new = AcceptOlder(w, id)
      BY <1>2 DEF accept_packet
    <2>2. w.sequence_id \in seq_id_t
      BY DEF WindowType
    <2>3. sequence_id__delta(w.sequence_id, id) \in Nat \ {0}
      BY <1>2, <2>2, DeltaPositive
    <2>. QED
      BY <2>1, <2>3, AckBitsAssumption DEF AcceptOlder, WindowType, BitIndex
  <1>3. CASE ~sequence_id__is_more_recent(id, w.sequence_id) /\ id = w.sequence_id
    BY <1>3 DEF accept_packet
  <1>. QED
    BY <1>1, <1>2, <1>3

LEMMA FreshWindowType ==
    ASSUME NEW id \in seq_id_t PROVE FreshWindow(id) \in WindowType
  BY CounterModAssumption DEF FreshWindow, WindowType, PacketCounter
-----------------------------------------------------------------------------
\* Inductive: connections_fill stays below Slots while a connection is free
\* because it counts the connections in use, and the address of a connection
\* in use is a client's because only a sender's address is ever stored.
TableInv ==
    /\ connections \in [SlotIndex -> Connection]
    /\ sequence_id \in seq_id_t
    /\ stage \in Stage
    /\ FillIsConnected
    /\ OneConnectionPerClient
    /\ ConnectedHaveAddress

\* Sets of connections are finite and no larger than the table.
LEMMA SlotSets ==
    ASSUME NEW S \in SUBSET SlotIndex
    PROVE  IsFiniteSet(S) /\ Cardinality(S) \in Nat /\ Cardinality(S) <= Slots
  <1>1. IsFiniteSet(SlotIndex) /\ Cardinality(SlotIndex) = Slots
    BY SlotsAssumption, FS_Interval DEF SlotIndex
  <1>. QED
    BY <1>1, FS_Subset, FS_CardinalityType

LEMMA SaturatedType == ASSUME NEW t \in Nat PROVE Saturated(t) \in Idle
  BY TimeoutAssumption DEF Saturated, Idle

LEMMA InitTable == Init => TableInv
  <1>. SUFFICES ASSUME Init PROVE TableInv
    OBVIOUS
  <1>1. connections \in [SlotIndex -> Connection]
    BY SeqModAssumption, CounterModAssumption, TimeoutAssumption
       DEF Init, NewConnection, Connection, Idle, WindowType, seq_id_t, PacketCounter
  <1>2. Connected = {}
    BY DEF Init, NewConnection, Connected
  <1>3. connections_fill = Cardinality(Connected)
    BY <1>2, FS_EmptySet DEF Init
  <1>4. OneConnectionPerClient /\ ConnectedHaveAddress
    BY <1>2 DEF OneConnectionPerClient, ConnectedHaveAddress
  <1>5. sequence_id \in seq_id_t /\ stage \in Stage
    BY SeqModAssumption DEF Init, Stage, seq_id_t
  <1>. QED
    BY <1>1, <1>3, <1>4, <1>5 DEF TableInv, FillIsConnected

\* Time passing changes no membership.
LEMMA StartFrameTable ==
    ASSUME TableInv, NEW dt \in FrameTicks, StartFrame(dt)
    PROVE  TableInv'
  <1>1. \A s \in SlotIndex : Saturated(connections[s].idle + dt) \in Idle
    BY SaturatedType, TimeoutAssumption DEF TableInv, Connection, Idle, FrameTicks
  <1>2. connections' \in [SlotIndex -> Connection]
    BY <1>1 DEF TableInv, StartFrame, Connection
  <1>3. \A s \in SlotIndex : /\ connections'[s].connected = connections[s].connected
                             /\ connections'[s].addr = connections[s].addr
    BY DEF TableInv, StartFrame, Connection
  <1>4. Connected' = Connected
    BY <1>3 DEF Connected
  <1>5. FillIsConnected'
    BY <1>4 DEF TableInv, StartFrame, FillIsConnected
  <1>6. OneConnectionPerClient' /\ ConnectedHaveAddress'
    BY <1>3, <1>4 DEF TableInv, OneConnectionPerClient, ConnectedHaveAddress, Connected
  <1>7. sequence_id' \in seq_id_t /\ stage' \in Stage
    BY DEF TableInv, StartFrame, Stage
  <1>. QED
    BY <1>2, <1>5, <1>6, <1>7 DEF TableInv

\* A packet of a client in the table changes neither its connection's address
\* nor any other connection.
LEMMA AcceptPacketTable ==
    ASSUME TableInv, NEW a \in Clients, NEW id \in seq_id_t, NEW s \in SlotsOf(a),
           AcceptPacket(s, id), UNCHANGED <<sequence_id, stage>>
    PROVE  TableInv'
  <1>1. s \in SlotIndex /\ connections[s].window \in WindowType
    BY DEF SlotsOf, Connected, TableInv, Connection
  <1>2. PICK w \in accept_packet(connections[s].window, id) :
           connections' = [connections EXCEPT ![s] = [@ EXCEPT !.idle = 0, !.window = w]]
    BY DEF AcceptPacket
  <1>3. w \in WindowType
    BY <1>1, <1>2, AcceptPacketType
  <1>4. connections' \in [SlotIndex -> Connection]
    <2>1. [connections[s] EXCEPT !.idle = 0, !.window = w] \in Connection
      <3>1. connections[s] \in Connection /\ 0 \in Idle
        BY <1>1, TimeoutAssumption DEF TableInv, Idle
      <3>. QED
        BY <1>3, <3>1 DEF Connection
    <2>. QED
      BY <1>1, <1>2, <2>1 DEF TableInv
  <1>5. \A t \in SlotIndex : /\ connections'[t].connected = connections[t].connected
                             /\ connections'[t].addr = connections[t].addr
    BY <1>1, <1>2 DEF TableInv, Connection
  <1>6. Connected' = Connected
    BY <1>5 DEF Connected
  <1>. QED
    BY <1>4, <1>5, <1>6 DEF TableInv, AcceptPacket, FillIsConnected, OneConnectionPerClient,
                            ConnectedHaveAddress, Connected

\* A newcomer takes a connection that was free, and no other has its address.
LEMMA AcceptConnectionTable ==
    ASSUME TableInv, NEW a \in Clients, NEW id \in seq_id_t, NEW s \in FreeSlots,
           SlotsOf(a) = {}, AcceptConnection(s, a, id), UNCHANGED <<sequence_id, stage>>
    PROVE  TableInv'
  <1>1. s \in SlotIndex /\ s \notin Connected /\ Connected \in SUBSET SlotIndex
    BY DEF FreeSlots, Connected
  <1> DEFINE new == [connected |-> TRUE, addr |-> a, idle |-> 0, window |-> FreshWindow(id)]
  <1>2. new \in Connection
    BY FreshWindowType, TimeoutAssumption DEF Connection, Idle
  <1>3. connections' = [connections EXCEPT ![s] = new]
    BY DEF AcceptConnection
  <1>4. connections' \in [SlotIndex -> Connection]
    BY <1>1, <1>2, <1>3 DEF TableInv
  <1>5. \A t \in SlotIndex : connections'[t] = IF t = s THEN new ELSE connections[t]
    BY <1>3 DEF TableInv
  <1>6. Connected' = Connected \cup {s}
    BY <1>1, <1>5 DEF Connected
  <1>7. connections_fill' = Cardinality(Connected')
    BY <1>1, <1>6, SlotSets, FS_AddElement DEF AcceptConnection, TableInv, FillIsConnected
  <1>8. \A t \in Connected : connections[t].addr # a
    BY DEF SlotsOf
  <1>9. OneConnectionPerClient' /\ ConnectedHaveAddress'
    BY <1>1, <1>5, <1>6, <1>8 DEF TableInv, OneConnectionPerClient, ConnectedHaveAddress, Connected
  <1>. QED
    BY <1>4, <1>7, <1>9 DEF TableInv, FillIsConnected

LEMMA ReceivePacketTable ==
    ASSUME TableInv, NEW a \in Clients, NEW id \in seq_id_t, ReceivePacket(a, id)
    PROVE  TableInv'
  <1>1. ASSUME NEW s \in SlotsOf(a), AcceptPacket(s, id) PROVE TableInv'
    BY <1>1, AcceptPacketTable DEF ReceivePacket
  <1>2. ASSUME SlotsOf(a) = {}, NEW s \in SlotIndex, IsFreeConnection(s),
               AcceptConnection(s, a, id)
        PROVE  TableInv'
    BY <1>2, AcceptConnectionTable DEF ReceivePacket, IsFreeConnection
  <1>3. CASE UNCHANGED <<connections, connections_fill>>
    BY <1>3 DEF ReceivePacket, TableInv, FillIsConnected, OneConnectionPerClient,
                ConnectedHaveAddress, Connected
  <1>. QED
    BY <1>1, <1>2, <1>3 DEF ReceivePacket

\* The stale connections are some of those in use, so the count stays exact.
LEMMA DropStaleTable ==
    ASSUME TableInv, DropStale
    PROVE  TableInv'
  <1>1. Stale \in SUBSET Connected /\ Connected \in SUBSET SlotIndex
    BY DEF Stale, Connected
  <1>2. \A s \in SlotIndex :
           /\ connections'[s].connected = (connections[s].connected /\ s \notin Stale)
           /\ connections'[s].addr = connections[s].addr
    BY <1>1 DEF DropStale, Drop, TableInv, Connection
  <1>3. connections' \in [SlotIndex -> Connection]
    BY DEF DropStale, Drop, TableInv, Connection
  <1>4. Connected' = Connected \ Stale
    BY <1>2 DEF Connected
  <1>5. Cardinality(Connected \ Stale) = Cardinality(Connected) - Cardinality(Stale)
    <2>1. Connected \cap Stale = Stale
      BY <1>1
    <2>. QED
      BY <1>1, <2>1, SlotSets, FS_Difference
  <1>. QED
    BY <1>1, <1>2, <1>3, <1>4, <1>5
       DEF DropStale, TableInv, FillIsConnected, OneConnectionPerClient, ConnectedHaveAddress,
           Connected, Stage

LEMMA SendPacketsTable ==
    ASSUME TableInv, SendPackets
    PROVE  TableInv'
  BY DeltaType DEF SendPackets, TableInv, FillIsConnected, OneConnectionPerClient,
                   ConnectedHaveAddress, Connected, Stage

LEMMA TableStep == TableInv /\ [Next]_vars => TableInv'
  <1>. SUFFICES ASSUME TableInv, [Next]_vars PROVE TableInv'
    OBVIOUS
  <1>1. ASSUME NEW dt \in FrameTicks, StartFrame(dt) PROVE TableInv'
    BY <1>1, StartFrameTable
  <1>2. ASSUME NEW a \in Clients, NEW id \in seq_id_t, ReceivePacket(a, id) PROVE TableInv'
    BY <1>2, ReceivePacketTable
  <1>3. CASE DropStale
    BY <1>3, DropStaleTable
  <1>4. CASE SendPackets
    BY <1>4, SendPacketsTable
  <1>5. CASE UNCHANGED vars
    BY <1>5 DEF vars, TableInv, FillIsConnected, OneConnectionPerClient, ConnectedHaveAddress,
                Connected
  <1>. QED
    BY <1>1, <1>2, <1>3, <1>4, <1>5 DEF Next

THEOREM TableIsInvariant == Spec => []TableInv
  BY InitTable, TableStep, PTL DEF Spec

\* Type correctness: in particular connections_fill never leaves 0 .. Slots.
THEOREM TypeCorrect == Spec => []TypeOK
  <1>1. TableInv => TypeOK
    <2>1. Connected \in SUBSET SlotIndex
      BY DEF Connected
    <2>. QED
      BY <2>1, SlotSets, SlotsAssumption DEF TableInv, TypeOK, FillIsConnected
  <1>. QED
    BY <1>1, TableIsInvariant, PTL

\* connections_fill is exact, so neither of its assertions can fail.
THEOREM FillIsExact == Spec => []FillIsConnected
  <1>1. TableInv => FillIsConnected
    BY DEF TableInv
  <1>. QED
    BY <1>1, TableIsInvariant, PTL

\* No client ever has two connections.
THEOREM ConnectionIsUnique == Spec => []OneConnectionPerClient
  <1>1. TableInv => OneConnectionPerClient
    BY DEF TableInv
  <1>. QED
    BY <1>1, TableIsInvariant, PTL
-----------------------------------------------------------------------------
(* The connection table implements the lobby *)

\* A member's silence is the idle time of its only connection.
IdleIsSilence ==
    \A s \in Connected : /\ connections[s].addr \in Clients \cap Members
                         /\ Silence[connections[s].addr] = connections[s].idle

\* Members are clients, each with a connection, and only they are timed.
MembersAreConnected ==
    /\ \A c \in Members : \E s \in Connected : connections[s].addr = c
    /\ \A c \in Clients \ Members : Silence[c] = 0
    /\ Silence = [c \in Clients |-> Silence[c]]

LEMMA SilenceIsIdle == TableInv => IdleIsSilence
  <1>. SUFFICES ASSUME TableInv, NEW s \in Connected
                PROVE  /\ connections[s].addr \in Clients \cap Members
                       /\ Silence[connections[s].addr] = connections[s].idle
    BY DEF IdleIsSilence
  <1> DEFINE c == connections[s].addr
  <1>1. c \in Clients /\ c \in Members
    BY DEF TableInv, ConnectedHaveAddress, Members
  <1>2. SlotsOf(c) = {s}
    BY DEF TableInv, OneConnectionPerClient, SlotsOf
  <1>3. (CHOOSE t \in SlotsOf(c) : TRUE) = s
    BY <1>2
  <1>. QED
    BY <1>1, <1>3 DEF Silence

LEMMA MembersConnected == MembersAreConnected
  BY DEF MembersAreConnected, Members, Silence

\* The same of the state after a step.
LEMMA SilenceIsIdleNext == (TableInv' => IdleIsSilence') /\ MembersAreConnected'
  BY SilenceIsIdle, MembersConnected, PTL

\* The members are as many as the connections in use.
LEMMA MembersCounted ==
    ASSUME TableInv
    PROVE  Cardinality(Members) = Cardinality(Connected)
  <1> DEFINE addr == [s \in Connected |-> connections[s].addr]
  <1>1. addr \in Surjection(Connected, Members)
    BY DEF Surjection, Members
  <1>2. addr \in Injection(Connected, Members)
    BY <1>1 DEF Injection, IsInjective, Surjection, TableInv, OneConnectionPerClient
  <1>3. IsFiniteSet(Connected)
    BY SlotSets DEF Connected
  <1>. QED
    BY <1>1, <1>2, <1>3, FS_Surjection

LEMMA LobbyCardinality == \A S : LobbyView!Cardinality(S) = Cardinality(S)
  BY DEF LobbyView!Cardinality, Cardinality

LEMMA InitLobby == Init => LobbyView!Init
  <1>. SUFFICES ASSUME Init PROVE LobbyView!Init
    OBVIOUS
  <1>1. Members = {}
    BY DEF Init, NewConnection, Members, Connected
  <1>. QED
    BY <1>1 DEF LobbyView!Init, Silence

\* A step that keeps connected and addr of every connection and whose other
\* changes are known: the members stay, and the silence of each follows the
\* idle time of its connection.
LEMMA SameMembers ==
    ASSUME TableInv, TableInv',
           \A s \in SlotIndex : /\ connections'[s].connected = connections[s].connected
                                /\ connections'[s].addr = connections[s].addr
    PROVE  /\ Connected' = Connected
           /\ Members' = Members
           /\ \A s \in Connected : Silence'[connections[s].addr] = connections'[s].idle
  <1>1. Connected' = Connected
    BY DEF Connected
  <1>2. Members' = Members
    BY <1>1 DEF Members, Connected
  <1>3. \A s \in Connected : Silence'[connections'[s].addr] = connections'[s].idle
    BY <1>1, SilenceIsIdleNext DEF IdleIsSilence
  <1>. QED
    BY <1>1, <1>2, <1>3 DEF Connected

LEMMA StartFrameLobby ==
    ASSUME TableInv, TableInv', NEW dt \in FrameTicks, StartFrame(dt)
    PROVE  LobbyView!Pass(dt)
  <1>1. \A s \in SlotIndex : /\ connections'[s].connected = connections[s].connected
                             /\ connections'[s].addr = connections[s].addr
                             /\ connections'[s].idle = Saturated(connections[s].idle + dt)
    BY DEF TableInv, StartFrame, Connection
  <1>2. /\ Members' = Members
        /\ \A s \in Connected : Silence'[connections[s].addr] = connections'[s].idle
    BY <1>1, SameMembers
  <1>3. Connected \in SUBSET SlotIndex
    BY DEF Connected
  <1> DEFINE later == [c \in Clients |->
                         IF c \in Members THEN LobbyView!AtMost(Silence[c] + dt) ELSE 0]
  <1>4. ASSUME NEW c \in Clients
        PROVE  Silence'[c] = later[c]
    <2>1. CASE c \in Members
      <3>1. PICK s \in Connected : connections[s].addr = c
        BY <2>1, MembersConnected DEF MembersAreConnected
      <3>2. Silence[c] = connections[s].idle /\ Silence'[c] = connections'[s].idle
        BY <1>2, <3>1, SilenceIsIdle DEF IdleIsSilence
      <3>. QED
        BY <1>1, <1>3, <2>1, <3>2 DEF Saturated, LobbyView!AtMost
    <2>2. CASE c \notin Members
      BY <1>2, <2>2, SilenceIsIdleNext DEF MembersAreConnected
    <2>. QED
      BY <2>1, <2>2
  <1>5. Silence' = later
    <2> HIDE DEF later
    <2>1. later = [c \in Clients |-> later[c]]
      BY DEF later
    <2>. QED
      BY <1>4, <2>1, SilenceIsIdleNext DEF MembersAreConnected
  <1>. QED
    BY <1>2, <1>5 DEF LobbyView!Pass

\* A packet of a member.
LEMMA AcceptPacketLobby ==
    ASSUME TableInv, TableInv', NEW a \in Clients, NEW id \in seq_id_t,
           NEW s \in SlotsOf(a), AcceptPacket(s, id)
    PROVE  LobbyView!Hear(a)
  <1>1. s \in SlotIndex /\ s \in Connected /\ connections[s].addr = a /\ a \in Members
    BY DEF SlotsOf, Connected, Members
  <1>2. PICK w \in accept_packet(connections[s].window, id) :
           connections' = [connections EXCEPT ![s] = [@ EXCEPT !.idle = 0, !.window = w]]
    BY DEF AcceptPacket
  <1>3. \A t \in SlotIndex :
           /\ connections'[t].connected = connections[t].connected
           /\ connections'[t].addr = connections[t].addr
           /\ connections'[t].idle = IF t = s THEN 0 ELSE connections[t].idle
    BY <1>1, <1>2 DEF TableInv, Connection
  <1>4. /\ Members' = Members
        /\ \A t \in Connected : Silence'[connections[t].addr] = connections'[t].idle
    BY <1>3, SameMembers
  <1>5. ASSUME NEW c \in Clients
        PROVE  Silence'[c] = IF c = a THEN 0 ELSE Silence[c]
    <2>1. CASE c \in Members
      <3>1. PICK t \in Connected : connections[t].addr = c
        BY <2>1, MembersConnected DEF MembersAreConnected
      <3>2. Silence[c] = connections[t].idle /\ Silence'[c] = connections'[t].idle
        BY <1>4, <3>1, SilenceIsIdle DEF IdleIsSilence
      <3>3. t \in SlotIndex /\ (t = s <=> c = a)
        BY <1>1, <3>1 DEF TableInv, OneConnectionPerClient, Connected
      <3>. QED
        BY <1>3, <3>2, <3>3
    <2>2. CASE c \notin Members
      BY <1>1, <1>4, <2>2, MembersConnected, SilenceIsIdleNext DEF MembersAreConnected
    <2>. QED
      BY <2>1, <2>2
  <1>6. Silence' = [Silence EXCEPT ![a] = 0]
    BY <1>5, MembersConnected, SilenceIsIdleNext DEF MembersAreConnected
  <1>. QED
    BY <1>1, <1>4, <1>6 DEF LobbyView!Hear

\* A newcomer while a connection is free: there are fewer members than places.
LEMMA AcceptConnectionLobby ==
    ASSUME TableInv, TableInv', NEW a \in Clients, NEW id \in seq_id_t,
           NEW s \in FreeSlots, SlotsOf(a) = {}, AcceptConnection(s, a, id)
    PROVE  LobbyView!Hear(a)
  <1>1. s \in SlotIndex /\ s \notin Connected /\ Connected \cup {s} \in SUBSET SlotIndex
    BY DEF FreeSlots, Connected
  <1>2. a \notin Members
    BY DEF SlotsOf, Members
  <1>3. Cardinality(Members) < Slots
    <2>1. Cardinality(Connected \cup {s}) = Cardinality(Connected) + 1
      BY <1>1, SlotSets, FS_AddElement
    <2>. QED
      BY <1>1, <2>1, MembersCounted, SlotSets, SlotsAssumption
  <1>4. \A t \in SlotIndex :
           /\ t # s => connections'[t] = connections[t]
           /\ connections'[s].connected /\ connections'[s].addr = a /\ connections'[s].idle = 0
    BY <1>1 DEF AcceptConnection, TableInv
  <1>5. Connected' = Connected \cup {s}
    BY <1>1, <1>4 DEF Connected
  <1>6. Members' = Members \cup {a}
    BY <1>1, <1>4, <1>5 DEF Members
  <1>7. ASSUME NEW c \in Clients
        PROVE  Silence'[c] = IF c = a THEN 0 ELSE Silence[c]
    <2>1. CASE c = a
      BY <1>1, <1>4, <1>5, <2>1, SilenceIsIdleNext DEF IdleIsSilence
    <2>2. CASE c \in Members
      <3>1. PICK t \in Connected : connections[t].addr = c
        BY <2>2, MembersConnected DEF MembersAreConnected
      <3>2. connections'[t] = connections[t] /\ t \in Connected'
        BY <1>1, <1>4, <1>5, <3>1
      <3>. QED
        BY <1>2, <2>2, <3>1, <3>2, SilenceIsIdle, SilenceIsIdleNext DEF IdleIsSilence
    <2>3. CASE c # a /\ c \notin Members
      BY <1>6, <2>3, MembersConnected, SilenceIsIdleNext DEF MembersAreConnected
    <2>. QED
      BY <2>1, <2>2, <2>3
  <1>8. Silence' = [Silence EXCEPT ![a] = 0]
    BY <1>7, MembersConnected, SilenceIsIdleNext DEF MembersAreConnected
  <1>. QED
    BY <1>3, <1>6, <1>8, LobbyCardinality DEF LobbyView!Hear

\* A stranger while no connection is free.
LEMMA IgnoredLobby ==
    ASSUME TableInv, NEW a \in Clients, SlotsOf(a) = {}, FreeSlots = {},
           UNCHANGED connections
    PROVE  LobbyView!Hear(a)
  <1>1. Connected = SlotIndex
    BY DEF FreeSlots, Connected
  <1>2. Cardinality(SlotIndex) = Slots
    BY SlotsAssumption, FS_Interval DEF SlotIndex
  <1>3. ~(Cardinality(Members) < Slots)
    BY <1>1, <1>2, MembersCounted, SlotsAssumption
  <1>4. a \notin Members
    BY DEF SlotsOf, Members
  <1>5. Members' = Members /\ Silence' = Silence
    BY DEF Members, Silence, Connected, SlotsOf
  <1>6. Silence[a] = 0
    BY <1>4, MembersConnected DEF MembersAreConnected
  <1>7. Silence' = [Silence EXCEPT ![a] = 0]
    BY <1>5, <1>6 DEF Silence
  <1>. QED
    BY <1>3, <1>5, <1>7, LobbyCardinality DEF LobbyView!Hear

LEMMA ReceivePacketLobby ==
    ASSUME TableInv, TableInv', NEW a \in Clients, NEW id \in seq_id_t, ReceivePacket(a, id)
    PROVE  LobbyView!Hear(a)
  <1>1. ASSUME NEW s \in SlotsOf(a), AcceptPacket(s, id) PROVE LobbyView!Hear(a)
    BY <1>1, AcceptPacketLobby
  <1>2. ASSUME SlotsOf(a) = {}, NEW s \in SlotIndex, IsFreeConnection(s),
               AcceptConnection(s, a, id)
        PROVE  LobbyView!Hear(a)
    BY <1>2, AcceptConnectionLobby DEF IsFreeConnection
  <1>3. CASE SlotsOf(a) = {} /\ FreeSlots = {} /\ UNCHANGED <<connections, connections_fill>>
    BY <1>3, IgnoredLobby
  <1>. QED
    BY <1>1, <1>2, <1>3 DEF ReceivePacket

\* The members that leave are those whose connection is stale.
LEMMA DropStaleLobby ==
    ASSUME TableInv, TableInv', DropStale
    PROVE  LobbyView!Expire
  <1>1. Stale \in SUBSET Connected /\ Connected \in SUBSET SlotIndex
    BY DEF Stale, Connected
  <1>2. \A s \in SlotIndex :
           /\ connections'[s].connected = (connections[s].connected /\ s \notin Stale)
           /\ connections'[s].addr = connections[s].addr
           /\ connections'[s].idle = connections[s].idle
    BY <1>1 DEF DropStale, Drop, TableInv, Connection
  <1>3. Connected' = Connected \ Stale
    BY <1>2 DEF Connected
  <1>4. \A s \in Connected : connections[s].idle \in Nat
    BY <1>1, TimeoutAssumption DEF TableInv, Connection, Idle
  <1>5. Members' = {c \in Members : Silence[c] <= Timeout}
    <2>1. ASSUME NEW c \in Members' PROVE c \in Members /\ Silence[c] <= Timeout
      <3>1. PICK s \in Connected \ Stale : connections[s].addr = c
        BY <1>1, <1>2, <1>3 DEF Members
      <3>. QED
        BY <1>4, <3>1, SilenceIsIdle, TimeoutAssumption DEF IdleIsSilence, Stale
    <2>2. ASSUME NEW c \in Members, Silence[c] <= Timeout PROVE c \in Members'
      <3>1. PICK s \in Connected : connections[s].addr = c
        BY MembersConnected DEF MembersAreConnected
      <3>2. s \notin Stale
        BY <1>4, <2>2, <3>1, SilenceIsIdle, TimeoutAssumption DEF IdleIsSilence, Stale
      <3>. QED
        BY <1>1, <1>2, <1>3, <3>1, <3>2 DEF Members
    <2>. QED
      BY <2>1, <2>2
  <1>6. ASSUME NEW c \in Clients
        PROVE  Silence'[c] = IF c \in Members' THEN Silence[c] ELSE 0
    <2>1. CASE c \in Members'
      <3>1. PICK s \in Connected \ Stale : connections[s].addr = c
        BY <1>1, <1>2, <1>3, <2>1 DEF Members
      <3>2. s \in Connected' /\ connections'[s].addr = c /\ connections'[s].idle = connections[s].idle
        BY <1>1, <1>2, <1>3, <3>1
      <3>. QED
        BY <2>1, <3>1, <3>2, SilenceIsIdle, SilenceIsIdleNext DEF IdleIsSilence
    <2>2. CASE c \notin Members'
      BY <2>2, SilenceIsIdleNext DEF MembersAreConnected
    <2>. QED
      BY <2>1, <2>2
  <1>7. Silence' = [c \in Clients |-> IF c \in Members' THEN Silence[c] ELSE 0]
    BY <1>6 DEF Silence
  <1>. QED
    BY <1>5, <1>7 DEF LobbyView!Expire

\* Every step of the table is a step of the lobby or leaves it alone.
LEMMA LobbyStep ==
    TableInv /\ TableInv' /\ [Next]_vars => [LobbyView!Next]_LobbyView!vars
  <1>. SUFFICES ASSUME TableInv, TableInv', [Next]_vars
                PROVE  [LobbyView!Next]_LobbyView!vars
    OBVIOUS
  <1>1. ASSUME NEW dt \in FrameTicks, StartFrame(dt) PROVE LobbyView!Next
    BY <1>1, StartFrameLobby DEF FrameTicks, LobbyView!Next
  <1>2. ASSUME NEW a \in Clients, NEW id \in seq_id_t, ReceivePacket(a, id)
        PROVE  LobbyView!Next
    BY <1>2, ReceivePacketLobby DEF LobbyView!Next
  <1>3. CASE DropStale
    BY <1>3, DropStaleLobby DEF LobbyView!Next
  <1>4. CASE UNCHANGED connections
    BY <1>4 DEF LobbyView!vars, Members, Silence, Connected, SlotsOf
  <1>. QED
    BY <1>1, <1>2, <1>3, <1>4 DEF Next, SendPackets, vars

\* The server keeps the lobby's promises: who is a member, who is admitted and
\* refused, and who leaves and when.
THEOREM ServerImplementsLobby == Spec => ImplementsLobby
  <1>. QED
    BY InitLobby, LobbyStep, TableIsInvariant, PTL DEF Spec, ImplementsLobby, LobbyView!Spec
=============================================================================
