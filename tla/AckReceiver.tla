---------------------------- MODULE AckReceiver ----------------------------
(* One peer receiving the numbered packets of another over a network that    *)
(* loses, duplicates, delays and reorders them.  The sender counts without   *)
(* bound, the packets carry the count modulo SeqMod; the properties compare  *)
(* what the receiver concludes from the ids with the numbers really sent.    *)
EXTENDS AckWindow

CONSTANTS FirstNumber,  \* the sender's count when the receiver starts to listen
          LastNumber    \* bound: the sender stops here

ASSUME NumberAssumption ==
    FirstNumber \in Nat /\ LastNumber \in Nat /\ FirstNumber <= LastNumber

VARIABLES connected,    \* connection_t.connected
          window,       \* the acknowledgement fields of connection_t
          sent,         \* history: the sender's count
          opened,       \* history: the number of the packet that opened the connection
          received,     \* history: the numbers received since connecting
          missed,       \* history: numbers that left the field unreceived
          jumps         \* history: the jumps of the youngest id past the field

vars == <<connected, window, sent, opened, received, missed, jumps>>

Id(n) == n % SeqMod
Newest == CHOOSE n \in received : \A m \in received : m <= n

Init ==
    /\ connected = FALSE
    /\ window = [sequence_id |-> 0, ack_bitfield |-> {}, packets_dropped |-> 0]
    /\ sent = FirstNumber
    /\ opened = FirstNumber
    /\ received = {}
    /\ missed = {}
    /\ jumps = {}

\* sequence_id is advanced with every packet sent.
Send ==
    /\ sent < LastNumber
    /\ sent' = sent + 1
    /\ UNCHANGED <<connected, window, opened, received, missed, jumps>>

\* A packet of a peer without a connection opens one.  Nothing before that
\* packet counts as sent to this receiver.
Connect(n) ==
    /\ ~connected
    /\ connected' = TRUE
    /\ window' = FreshWindow(Id(n))
    /\ opened' = n
    /\ received' = {n}
    /\ UNCHANGED <<sent, missed, jumps>>

\* The program orders ids by the shorter way round, so it relies on a packet
\* never being 2^15 or more packets away from the youngest one received.
InComparableRange(n) == n - Newest \in -HalfRange .. HalfRange

Receive(n) ==
    /\ connected
    /\ InComparableRange(n)
    /\ window' \in accept_packet(window, Id(n))
    /\ received' = received \cup {n}
    /\ missed' = missed \cup {m \in 0 .. n - AckBits - 1 :
                                m > Newest - AckBits - 1 /\ m > opened /\ m \notin received}
    /\ jumps' = jumps \cup (IF n - Newest = AckBits THEN {"width"} ELSE {})
                        \cup (IF n - Newest > AckBits THEN {"beyond"} ELSE {})
    /\ UNCHANGED <<connected, sent, opened>>

Next ==
    \/ Send
    \/ \E n \in FirstNumber .. sent - 1 : Connect(n) \/ Receive(n)

Spec == Init /\ [][Next]_vars
----------------------------------------------------------------------------
TypeOK ==
    /\ connected \in BOOLEAN
    /\ window \in WindowType
    /\ sent \in FirstNumber .. LastNumber
    /\ opened \in FirstNumber .. LastNumber
    /\ received \subseteq FirstNumber .. sent - 1
    /\ missed \subseteq FirstNumber .. sent - 1
    /\ jumps \subseteq {"width", "beyond"}
    /\ connected <=> received # {}

\* The id the peer acknowledges is the id of the youngest packet that reached
\* it, whatever the order of arrival and across the wrap of the ids.
YoungestIsAcked == connected => window.sequence_id = Id(Newest)

\* No packet that reached the peer and is still covered by the bit field is
\* reported missing.
ReceivedIsAcked ==
    connected => \A n \in received :
        Newest - n \in 1 .. AckBits => Newest - n - 1 \in window.ack_bitfield

\* A set bit for an id sent since the connection was opened is the id of a
\* packet that arrived, as long as the youngest id never jumped by exactly the
\* width of the field, where the shift is undefined.
AckedWasReceived ==
    connected /\ "width" \notin jumps => \A b \in window.ack_bitfield :
        Newest - b - 1 > opened => Newest - b - 1 \in received

\* packets_dropped is exactly the number of packets of this connection that
\* left the bit field before they arrived, while the youngest id has not jumped
\* by the width of the field or more: then ids are counted that arrived, and
\* those a field left empty would count are not.
DroppedIsMissed ==
    connected /\ jumps = {} => window.packets_dropped = Cardinality(missed) % CounterMod
=============================================================================
