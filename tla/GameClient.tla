----------------------------- MODULE GameClient ----------------------------
(* The clients of the game server.  A client sends one packet per frame and  *)
(* keeps the last ones in a ring; a packet from the server tells it which of *)
(* them arrived.  Every client's state is one record, the handlers are       *)
(* operators on it.                                                          *)
EXTENDS AckWindow

CONSTANTS Clients,    \* the clients' addresses
          QueueSize   \* sent_packets_queue_size

ASSUME QueueSizeAssumption == QueueSize \in Nat /\ QueueSize >= 2 /\ QueueSize < SeqMod \div 2

VARIABLE client       \* the state of each client's process

QueueIndex == 0 .. QueueSize - 1

\* sent_packet_t: the code marks an acknowledged packet by time = 0.0, the
\* value calloc leaves, and reads the time otherwise only for statistics.
SentPacket == [sequence_id : seq_id_t, outstanding : BOOLEAN]

\* "stopped": the window was closed; "aborted": an ASSERT failed.
Status == {"running", "stopped", "aborted"}

ClientState == [status : Status, connected : BOOLEAN, window : WindowType,
                sequence_id : seq_id_t, queue : [QueueIndex -> SentPacket],
                head : QueueIndex, tail : QueueIndex]

\* game_client__create
NewClient ==
    [status |-> "running", connected |-> FALSE,
     window |-> [sequence_id |-> 0, ack_bitfield |-> {}, packets_dropped |-> 0],
     sequence_id |-> 0,
     queue |-> [i \in QueueIndex |-> [sequence_id |-> 0, outstanding |-> FALSE]],
     head |-> 0, tail |-> 0]

ClientInit == client = [c \in Clients |-> NewClient]

NextIndex(i) == IF i + 1 = QueueSize THEN 0 ELSE i + 1
----------------------------------------------------------------------------
\* The packet before the acknowledged one.
SlotBefore(s, delta) == (s.head + QueueSize - delta - 1) % QueueSize

\* The newest packet, whatever was acknowledged.
AckNewest(s, ack) ==
    [s EXCEPT !.queue[(s.head + QueueSize - 1) % QueueSize].outstanding = FALSE]

\* The ring slot that holds the packet delta ids ago.
SlotOf(s, delta) == (s.head + QueueSize - delta) % QueueSize

\* game_client__ack_packet: an id too old for the ring is skipped; a slot that
\* holds another id fails the assertion.
ack_packet(s, ack) ==
    LET delta == sequence_id__delta(s.sequence_id, ack)
    IN  IF delta >= QueueSize THEN s
        ELSE IF s.queue[SlotOf(s, delta)].sequence_id # ack
             THEN [s EXCEPT !.status = "aborted"]
             ELSE [s EXCEPT !.queue[SlotOf(s, delta)].outstanding = FALSE]

\* game_client__connection_accept, for the first packet only.
connection_accept(s, id) ==
    IF s.connected THEN s
    ELSE [s EXCEPT !.connected = TRUE, !.window = FreshWindow(id)]

\* One turn of game_client__receive_packets for a packet of the server: the
\* socket is connected, so the kernel discards every other sender's.
receive_packet(s, p) ==
    LET accepted == connection_accept(s, p.sequence_id)
    IN  {ack_packet([accepted EXCEPT !.window = w], p.ack) :
            w \in accept_packet(accepted.window, p.sequence_id)}

\* The tail stays where it is.
SendKeepingTail(s) ==
    [s EXCEPT !.queue[s.head] = [sequence_id |-> s.sequence_id, outstanding |-> TRUE],
              !.head = NextIndex(s.head),
              !.sequence_id = sequence_id__next(@)]

\* game_client__send_packet: the packet takes the slot at the head; when the
\* head has caught up with the tail, the oldest packet is forgotten.
send_packet(s) ==
    LET head == NextIndex(s.head)
    IN  [s EXCEPT !.queue[s.head] = [sequence_id |-> s.sequence_id, outstanding |-> TRUE],
                  !.head = head,
                  !.tail = IF head = @ THEN NextIndex(@) ELSE @,
                  !.sequence_id = sequence_id__next(@)]
----------------------------------------------------------------------------
Running(c) == client[c].status = "running"

ClientReceive(c, p) ==
    /\ Running(c)
    /\ \E s \in receive_packet(client[c], p) : client' = [client EXCEPT ![c] = s]

ClientSend(c) ==
    /\ Running(c)
    /\ client' = [client EXCEPT ![c] = send_packet(@)]

\* window__get_should_close ends the loop at the start of poll_inputs.
ClientStop(c) ==
    /\ Running(c)
    /\ client' = [client EXCEPT ![c].status = "stopped"]

\* The program is started again, on the same port; whatever it knew is gone.
ClientRestart(c) ==
    /\ ~Running(c)
    /\ client' = [client EXCEPT ![c] = NewClient]
=============================================================================
