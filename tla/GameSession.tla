---------------------------- MODULE GameSession ----------------------------
(* Clients and the server over UDP.  A datagram that was sent stays in the   *)
(* network and may be delivered at any time, any number of times and in any  *)
(* order, or never: loss, delay, duplication and reordering.                 *)
EXTENDS GameClient

CONSTANTS NoAddr, Slots, Timeout,  \* of the server
          MaxSent,      \* bound: packets a client sends per run of the program
          MaxFrames,    \* bound: frames of the server, in all its runs
          MaxRestarts,  \* bound: restarts of each client
          MaxCrashes    \* bound: restarts of the server

\* The ids do not wrap within the bounds; AckReceiver goes through the wrap.
ASSUME BoundAssumption ==
    /\ MaxSent \in Nat /\ MaxSent < SeqMod \div 2
    /\ MaxFrames \in Nat /\ MaxFrames < SeqMod \div 2
    /\ MaxRestarts \in Nat /\ MaxCrashes \in Nat

\* What the server assumes of its constants.
ASSUME ServerAssumption == Slots \in Nat \ {0} /\ Timeout \in Nat /\ NoAddr \notin Clients

VARIABLES connections, connections_fill, server_sequence_id, stage,
          to_server,   \* datagrams of clients: the sender, its run and the id
          to_client,   \* datagrams of the server
          run,         \* history: how often each client was restarted
          crashes,     \* how often the server was
          frames,      \* how many frames it has begun
          reached      \* history: ids of a client's present run the server processed

Server == INSTANCE GameServer WITH sequence_id <- server_sequence_id

serverVars == <<connections, connections_fill, server_sequence_id, stage, crashes, frames>>
vars == <<client, serverVars, to_server, to_client, run, reached>>

Init ==
    /\ ClientInit
    /\ Server!Init
    /\ to_server = {}
    /\ to_client = {}
    /\ run = [c \in Clients |-> 0]
    /\ crashes = 0 /\ frames = 0
    /\ reached = [c \in Clients |-> {}]

\* tp_socket__send_data of game_client__send_packet.  The server reads nothing
\* of a client's packet but the id.
Send(c) ==
    /\ client[c].sequence_id < MaxSent
    /\ ClientSend(c)
    /\ to_server' = to_server \cup
          {[src |-> c, run |-> run[c], sequence_id |-> client[c].sequence_id]}
    /\ UNCHANGED <<serverVars, to_client, run, reached>>

\* tp_socket__get_data of the client returns a datagram.
Receive(c, p) ==
    /\ p.dst = c
    /\ ClientReceive(c, p)
    /\ UNCHANGED <<serverVars, to_server, to_client, run, reached>>

Stop(c) ==
    /\ ClientStop(c)
    /\ UNCHANGED <<serverVars, to_server, to_client, run, reached>>

Restart(c) ==
    /\ run[c] < MaxRestarts
    /\ ClientRestart(c)
    /\ run' = [run EXCEPT ![c] = @ + 1]
    /\ reached' = [reached EXCEPT ![c] = {}]
    /\ UNCHANGED <<serverVars, to_server, to_client>>

ServerStartFrame(dt) ==
    /\ frames < MaxFrames /\ frames' = frames + 1
    /\ Server!StartFrame(dt)
    /\ UNCHANGED <<client, to_server, to_client, run, reached, crashes>>

\* tp_socket__get_data of the server returns a datagram.  The history notes
\* the id when the server has the sender in its table afterwards.
ServerReceive(p) ==
    /\ Server!ReceivePacket(p.src, p.sequence_id)
    /\ reached' = IF p.run = run[p.src] /\ p.src \in Server!Members'
                  THEN [reached EXCEPT ![p.src] = @ \cup {p.sequence_id}]
                  ELSE reached
    /\ UNCHANGED <<client, to_server, to_client, run, crashes, frames>>

\* tp_socket__get_data of the server returns nothing.
ServerDropStale ==
    /\ Server!DropStale
    /\ UNCHANGED <<client, to_server, to_client, run, reached, crashes, frames>>

ServerSend ==
    /\ Server!SendPackets
    /\ to_client' = to_client \cup Server!PacketsToSend
    /\ UNCHANGED <<client, to_server, run, reached, crashes, frames>>

\* The server's process ends at any time, between any two of its steps, and is
\* started again: its table is empty and its ids begin at 0, while the clients
\* stay connected to it and the network still holds what was sent before.
ServerRestart ==
    /\ crashes < MaxCrashes /\ crashes' = crashes + 1
    /\ connections' = [s \in Server!SlotIndex |-> Server!NewConnection]
    /\ connections_fill' = 0
    /\ server_sequence_id' = 0
    /\ stage' = "rest"
    /\ UNCHANGED <<client, to_server, to_client, run, reached, frames>>

\* The bounds are used up: no client is left that may send, the server has made
\* its last frame.  Any other state without a step is a deadlock.
BoundsReached ==
    /\ \A c \in Clients : ~Running(c) /\ run[c] = MaxRestarts
    /\ stage = "rest" /\ frames = MaxFrames /\ crashes = MaxCrashes
    /\ UNCHANGED vars

Next ==
    \/ \E c \in Clients : Send(c) \/ Stop(c) \/ Restart(c)
    \/ \E c \in Clients, p \in to_client : Receive(c, p)
    \/ \E dt \in Server!FrameTicks : ServerStartFrame(dt)
    \/ \E p \in to_server : ServerReceive(p)
    \/ ServerDropStale
    \/ ServerSend
    \/ ServerRestart
    \/ BoundsReached

Spec == Init /\ [][Next]_vars
----------------------------------------------------------------------------
Least(i, j) == IF i <= j THEN i ELSE j

\* The ring holds exactly the packets sent last, each in the slot ack_packet
\* computes for it, and spans as many as were sent or as it can.
RingHoldsLatest ==
    \A c \in Clients :
        LET s == client[c]
        IN  /\ \A d \in 1 .. Least(s.sequence_id, QueueSize) :
                  s.queue[SlotOf(s, d)].sequence_id = s.sequence_id - d
            /\ (s.head + QueueSize - s.tail) % QueueSize = Least(s.sequence_id, QueueSize - 1)

\* A packet the client takes for delivered has been processed by the server,
\* however packets and acknowledgements were lost, repeated and reordered, and
\* also after the server was restarted with ids older than the client has seen.
\* After a restart of the client it may not: the server still acknowledges the old run's id.
AckedReachedServer ==
    \A c \in Clients :
        LET s == client[c]
        IN  run[c] = 0 => \A d \in 1 .. Least(s.sequence_id, QueueSize) :
                s.queue[SlotOf(s, d)].outstanding \/ s.sequence_id - d \in reached[c]

\* In the first run of a client the assertion of ack_packet holds: the id the
\* server acknowledges is the one in the slot, or too old for the ring, whether
\* or not the server was restarted.
AbortOnlyAfterRestart == \A c \in Clients : client[c].status = "aborted" => run[c] > 0

\* ASSERT(packet_to_ack->sequence_id == packet->ack), game_client_impl.c:244.
AckedPacketIsInItsSlot == \A c \in Clients : client[c].status # "aborted"
=============================================================================
