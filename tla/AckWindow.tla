----------------------------- MODULE AckWindow -----------------------------
(* What a peer remembers of the packets of the other side: the youngest      *)
(* sequence id, a bit field over the ids just below it, and a counter of the *)
(* ids that left the bit field unreceived.  game_server_impl.c and           *)
(* game_client_impl.c hold the same code for it; the server's is mapped.     *)
(*                                                                           *)
(* The bit field is the set of its 1 bits: bit b stands for the id b + 1     *)
(* below the youngest one.                                                   *)
EXTENDS SeqId, FiniteSets

CONSTANTS AckBits,    \* bits of ack_bitfield, 32 in the program
          CounterMod  \* number of values of packets_dropped, 2^32 in the program

ASSUME AckBitsAssumption == AckBits \in Nat \ {0} /\ AckBits < SeqMod \div 2
ASSUME CounterModAssumption == CounterMod \in Nat \ {0}

BitIndex == 0 .. AckBits - 1
PacketCounter == 0 .. CounterMod - 1

WindowType == [sequence_id : seq_id_t, ack_bitfield : SUBSET BitIndex,
               packets_dropped : PacketCounter]

\* The state set up for a new peer: ack_bitfield = -1, all bits set.
FreshWindow(id) ==
    [sequence_id |-> id, ack_bitfield |-> BitIndex, packets_dropped |-> 0]

----------------------------------------------------------------------------
\* bits << n.  Shifting by the full width is undefined: the compiled shift
\* leaves the value as it is or clears it.
ShiftLeft(bits, n) ==
    IF n < AckBits THEN {{b \in BitIndex : b - n \in bits}} ELSE {bits, {}}

\* The bit of the previous youngest id is one too high.
MarkAtDelta(bits, delta) ==
    IF delta > AckBits THEN {{}} ELSE {{b \in BitIndex : b - delta \in bits \cup {0}}}

\* The new bit field when the youngest id advances by delta > 0: the previous
\* youngest id gets its bit, unless it is out of the field already.
Advanced(bits, delta) ==
    IF delta > AckBits THEN {{}}
    ELSE {s \cup {delta - 1} : s \in ShiftLeft(bits, delta)}

\* Counts at the wrong end of the field.
CountLowBits(bits, left_shift) ==
    IF bits = {} THEN 0
    ELSE Cardinality({b \in BitIndex \ bits : b < left_shift})

\* connection__check_for_lost_packets: the zero bits among those the shift
\* pushes out, and one more when the shift is wider than the field.  An empty
\* field counts nothing.
lost_packets(bits, left_shift) ==
    IF bits = {} THEN 0
    ELSE LET out == IF left_shift > AckBits THEN AckBits ELSE left_shift
         IN  Cardinality({b \in BitIndex \ bits : b >= AckBits - out})
             + IF left_shift > AckBits THEN 1 ELSE 0

\* A younger id than any before.
AcceptNewer(w, id) ==
    LET delta == sequence_id__delta(id, w.sequence_id)
    IN  {[sequence_id     |-> id,
          ack_bitfield    |-> bits,
          packets_dropped |-> (w.packets_dropped + lost_packets(w.ack_bitfield, delta))
                                 % CounterMod] :
            bits \in Advanced(w.ack_bitfield, delta)}

\* A late id is ignored.
IgnoreOlder(w, id) == w

\* A late id: its bit is set if it is still in the field.
AcceptOlder(w, id) ==
    LET delta == sequence_id__delta(w.sequence_id, id)
    IN  IF delta <= AckBits THEN [w EXCEPT !.ack_bitfield = @ \cup {delta - 1}] ELSE w

\* The windows game_server__accept_packet may leave behind.
accept_packet(w, id) ==
    IF sequence_id__is_more_recent(id, w.sequence_id) THEN AcceptNewer(w, id)
    ELSE IF id # w.sequence_id THEN {AcceptOlder(w, id)}
    ELSE {w}
=============================================================================
