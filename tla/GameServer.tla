----------------------------- MODULE GameServer ----------------------------
(* The game server's connection table.  Each frame it takes the time, drains *)
(* the socket, drops the connections that have been silent for too long and  *)
(* sends one packet to every remaining connection.  Datagrams come from any  *)
(* address with any sequence id, in any number and order: the network and    *)
(* the clients are free here, and GameSession puts them in.                  *)
EXTENDS AckWindow

CONSTANTS Clients,   \* addresses packets can come from
          NoAddr,    \* the zeroed address of a connection never used
          Slots,     \* connections_size, 4 in the program
          Timeout    \* config.max_time_for_disconnect, in ticks of the clock

ASSUME SlotsAssumption == Slots \in Nat \ {0}
ASSUME TimeoutAssumption == Timeout \in Nat
ASSUME AddrAssumption == NoAddr \notin Clients

VARIABLES connections,       \* connection_t[connections_size]
          connections_fill,  \* the number of connections in use
          sequence_id,       \* the id of the next packet to send
          stage              \* where in the frame the loop is

vars == <<connections, connections_fill, sequence_id, stage>>

SlotIndex == 1 .. Slots
Stage == {"receive", "send", "rest"}

\* The code compares time - time_last_seen with Timeout and nothing else, so
\* a connection keeps that difference, saturated where the comparison settles.
Idle == 0 .. Timeout + 1
Saturated(t) == IF t > Timeout THEN Timeout + 1 ELSE t

Connection == [connected : BOOLEAN, addr : Clients \cup {NoAddr}, idle : Idle,
               window : WindowType]

Connected == {s \in SlotIndex : connections[s].connected}
SlotsOf(a) == {s \in Connected : connections[s].addr = a}
FreeSlots == SlotIndex \ Connected
----------------------------------------------------------------------------
\* game_server__create: calloc leaves every connection free.
NewConnection ==
    [connected |-> FALSE, addr |-> NoAddr, idle |-> 0,
     window |-> [sequence_id |-> 0, ack_bitfield |-> {}, packets_dropped |-> 0]]

Init ==
    /\ connections = [s \in SlotIndex |-> NewConnection]
    /\ connections_fill = 0
    /\ sequence_id = 0
    /\ stage = "rest"

\* The previous frame is over: dt has passed when poll_inputs starts.  Frames
\* are paced, so the clock has moved.
StartFrame(dt) ==
    /\ stage = "rest"
    /\ stage' = "receive"
    /\ connections' = [s \in SlotIndex |-> [connections[s] EXCEPT !.idle = Saturated(@ + dt)]]
    /\ UNCHANGED <<connections_fill, sequence_id>>

\* The loop over the connections keeps the last free one it passes; when the
\* sender has no connection the loop passes them all.
IsFreeConnection(s) == s \in FreeSlots /\ \A t \in FreeSlots : t <= s

\* game_server__accept_packet on the connection of the sender.
AcceptPacket(s, id) ==
    /\ \E w \in accept_packet(connections[s].window, id) :
          connections' = [connections EXCEPT ![s] = [@ EXCEPT !.idle = 0, !.window = w]]
    /\ UNCHANGED connections_fill

\* game_server__connection__accept in a free connection.
AcceptConnection(s, a, id) ==
    /\ connections' = [connections EXCEPT ![s] =
          [connected |-> TRUE, addr |-> a, idle |-> 0, window |-> FreshWindow(id)]]
    /\ connections_fill' = connections_fill + 1

\* Takes any free connection for a sender that comes after one in the table.
ReceiveFirstFit(a, id) ==
    /\ stage = "receive"
    /\ \/ \E s \in SlotsOf(a) : FreeSlots \cap 1 .. s = {} /\ AcceptPacket(s, id)
       \/ \E s \in FreeSlots : IsFreeConnection(s) /\ AcceptConnection(s, a, id)
       \/ SlotsOf(a) = {} /\ FreeSlots = {} /\ UNCHANGED <<connections, connections_fill>>
    /\ UNCHANGED <<sequence_id, stage>>

\* Gives the last connection to a newcomer when the table is full.
ReceiveEvicting(a, id) ==
    /\ stage = "receive"
    /\ \/ \E s \in SlotsOf(a) : AcceptPacket(s, id)
       \/ /\ SlotsOf(a) = {}
          /\ \E s \in SlotIndex : IsFreeConnection(s) /\ AcceptConnection(s, a, id)
       \/ /\ SlotsOf(a) = {} /\ FreeSlots = {}
          /\ connections' = [connections EXCEPT ![Slots] =
                [connected |-> TRUE, addr |-> a, idle |-> 0, window |-> FreshWindow(id)]]
          /\ UNCHANGED connections_fill
    /\ UNCHANGED <<sequence_id, stage>>

\* One turn of the drain loop of game_server__receive_packets, for a datagram
\* of the right size (any other is thrown away).
ReceivePacket(a, id) ==
    /\ stage = "receive"
    /\ \/ \E s \in SlotsOf(a) : AcceptPacket(s, id)
       \/ /\ SlotsOf(a) = {}
          /\ \E s \in SlotIndex : IsFreeConnection(s) /\ AcceptConnection(s, a, id)
       \/ /\ SlotsOf(a) = {} /\ FreeSlots = {}
          /\ UNCHANGED <<connections, connections_fill>>
    /\ UNCHANGED <<sequence_id, stage>>

\* The connections the loop after the drain disconnects.
Stale == {s \in Connected : connections[s].idle > Timeout}

Drop(gone) ==
    connections' = [s \in SlotIndex |->
        IF s \in gone THEN [connections[s] EXCEPT !.connected = FALSE] ELSE connections[s]]

\* Stops looking at the first free connection.
DropBeforeFirstFree ==
    /\ stage = "receive"
    /\ stage' = "send"
    /\ LET gone == {s \in Stale : 1 .. s \subseteq Connected}
       IN  Drop(gone) /\ connections_fill' = connections_fill - Cardinality(gone)
    /\ UNCHANGED sequence_id

\* Counts one disconnect however many there are.
DropCountingOne ==
    /\ stage = "receive"
    /\ stage' = "send"
    /\ Drop(Stale)
    /\ connections_fill' = connections_fill - IF Stale = {} THEN 0 ELSE 1
    /\ UNCHANGED sequence_id

\* The socket is empty: the rest of game_server__receive_packets, each stale
\* connection through game_server__disconnect_connection.
DropStale ==
    /\ stage = "receive"
    /\ stage' = "send"
    /\ Drop(Stale)
    /\ connections_fill' = connections_fill - Cardinality(Stale)
    /\ UNCHANGED sequence_id

\* The packets game_server__send_packets hands to the socket: one per
\* connection, all with the same id.
PacketsToSend ==
    {[dst |-> connections[s].addr, sequence_id |-> sequence_id,
      ack |-> connections[s].window.sequence_id,
      ack_bitfield |-> connections[s].window.ack_bitfield] : s \in Connected}

\* game_server__send_packets; one id per frame, however many are sent.
SendPackets ==
    /\ stage = "send"
    /\ stage' = "rest"
    /\ sequence_id' = sequence_id__next(sequence_id)
    /\ UNCHANGED <<connections, connections_fill>>

\* A frame takes between one tick and enough of them to expire everybody.
FrameTicks == 1 .. Timeout + 1

Next ==
    \/ \E dt \in FrameTicks : StartFrame(dt)
    \/ \E a \in Clients, id \in seq_id_t : ReceivePacket(a, id)
    \/ DropStale
    \/ SendPackets

Spec == Init /\ [][Next]_vars

\* game_server__run never leaves its loop, so every stage is reached.  That the
\* drain ends is an assumption about the network, packets are read faster than
\* they come: the loop itself has no limit (the todo at game_server_impl.c:279).
Fairness ==
    /\ WF_vars(\E dt \in FrameTicks : StartFrame(dt))
    /\ WF_vars(DropStale)
    /\ WF_vars(SendPackets)

LiveSpec == Spec /\ Fairness
----------------------------------------------------------------------------
TypeOK ==
    /\ connections \in [SlotIndex -> Connection]
    /\ connections_fill \in 0 .. Slots
    /\ sequence_id \in seq_id_t
    /\ stage \in Stage

\* connections_fill is the number of connections in use, so the assertions of
\* accept (fill < size) and disconnect (fill > 0) hold at each of their calls.
FillIsConnected == connections_fill = Cardinality(Connected)

\* No address has two connections: the free connection is only used when the
\* whole table has been searched for the sender.
OneConnectionPerClient ==
    \A s, t \in Connected : connections[s].addr = connections[t].addr => s = t

\* Every connection in use belongs to a client.
ConnectedHaveAddress == \A s \in Connected : connections[s].addr \in Clients

\* The table implements the lobby: the members are the addresses of the
\* connections in use, timed by their idle time.
Members == {connections[s].addr : s \in Connected}
Silence == [c \in Clients |->
    IF c \in Members THEN connections[CHOOSE s \in SlotsOf(c) : TRUE].idle ELSE 0]

LobbyView == INSTANCE Lobby WITH members <- Members, silence <- Silence, Capacity <- Slots
ImplementsLobby == LobbyView!Spec

\* A connection that falls silent is dropped or heard again: no place in the
\* table is held for ever by a client that is gone.
SilentIsDroppedOrHeard ==
    \A s \in SlotIndex :
        (s \in Connected /\ connections[s].idle > 0)
            ~> (s \notin Connected \/ connections[s].idle = 0)
=============================================================================
