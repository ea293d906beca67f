------------------------- MODULE AckReceiverProofs -------------------------
(* What the receiver of a stream of numbered packets concludes from their    *)
(* wrapping ids, for every width of the ids, the bit field and the counter   *)
(* and every number of packets: no run of it has to be short enough to check.*)
EXTENDS AckReceiver, FiniteSetTheorems, TLAPS

\* Of two different ids exactly one is the more recent: whichever order two
\* packets arrive in, the peers agree on which one is the younger.
THEOREM RecencyIsTotal ==
    ASSUME NEW a \in seq_id_t, NEW b \in seq_id_t, a # b
    PROVE  sequence_id__is_more_recent(a, b) <=> ~sequence_id__is_more_recent(b, a)
  BY SeqModAssumption DEF seq_id_t, sequence_id__is_more_recent, HalfRange

\* An id advanced by up to half the range is more recent than the one it was
\* advanced from, also across the wrap, and delta is the number of steps.
THEOREM RecencyFollowsSending ==
    ASSUME NEW a \in seq_id_t, NEW k \in 1 .. HalfRange,
           NEW b \in seq_id_t, b = IF a + k < SeqMod THEN a + k ELSE a + k - SeqMod
    PROVE  sequence_id__is_more_recent(b, a) /\ sequence_id__delta(b, a) = k
  BY SeqModAssumption DEF seq_id_t, sequence_id__is_more_recent, sequence_id__delta, HalfRange

LEMMA BitIndexFinite == IsFiniteSet(BitIndex) /\ Cardinality(BitIndex) = AckBits
  BY AckBitsAssumption, FS_Interval DEF BitIndex

LEMMA LostType ==
    ASSUME NEW bits \in SUBSET BitIndex, NEW n \in Nat
    PROVE  lost_packets(bits, n) \in Nat
  <1> DEFINE out == IF n > AckBits THEN AckBits ELSE n
             left == {b \in BitIndex \ bits : b >= AckBits - out}
  <1>1. IsFiniteSet(left)
    BY BitIndexFinite, FS_Subset
  <1>2. Cardinality(left) \in Nat
    BY <1>1, FS_CardinalityType
  <1>. HIDE DEF left
  <1>3. lost_packets(bits, n) = IF bits = {} THEN 0
                                ELSE Cardinality(left) + IF n > AckBits THEN 1 ELSE 0
    BY DEF lost_packets, left
  <1>. QED
    BY <1>2, <1>3
-----------------------------------------------------------------------------
\* An integer is the multiple of the modulus it says it is and a rest in range
\* in one way only.
LEMMA RemainderIsUnique ==
    ASSUME NEW m \in Nat \ {0}, NEW x \in Nat, NEW q \in Int, NEW r \in 0 .. m - 1,
           x = q * m + r
    PROVE  x % m = r
  <1> DEFINE p == x \div m
             s == x % m
  <1>1. p \in Int /\ s \in 0 .. m - 1 /\ x = p * m + s
    OBVIOUS
  <1> HIDE DEF p, s
  <1>2. p = q
    <2>1. ASSUME NEW a \in Int, NEW b \in Int, a < b PROVE a * m + m <= b * m
      <3>1. b - a - 1 \in Nat
        BY <2>1
      <3>2. (b - a - 1) * m >= 0
        BY <3>1
      <3>3. (b - a - 1) * m = b * m - a * m - m
        BY <3>1
      <3>. QED
        BY <3>2, <3>3
    <2>2. p * m \in Int /\ q * m \in Int
      BY <1>1
    <2>3. CASE p < q
      BY <1>1, <2>1, <2>2, <2>3
    <2>4. CASE q < p
      BY <1>1, <2>1, <2>2, <2>4
    <2>. QED
      BY <1>1, <2>3, <2>4
  <1>3. s = r
    <2>1. q * m \in Int
      OBVIOUS
    <2>. QED
      BY <1>1, <1>2, <2>1
  <1>. QED
    BY <1>3 DEF s

\* Adding to the remainder and taking it again is adding to the number: the
\* wrap of a counter loses nothing but its multiples.
LEMMA RemainderOfSum ==
    ASSUME NEW m \in Nat \ {0}, NEW a \in Nat, NEW b \in Nat
    PROVE  ((a % m) + b) % m = (a + b) % m
  <1> DEFINE q == a \div m
             s == a % m
             t == s + b
             p == t \div m
             r == t % m
             u == q + p
             c == a + b
  <1>1. q \in Int /\ s \in 0 .. m - 1 /\ a = q * m + s
    OBVIOUS
  <1> HIDE DEF q, s
  <1>2. t \in Nat
    BY <1>1
  <1> HIDE DEF t
  <1>3. p \in Int /\ r \in 0 .. m - 1 /\ t = p * m + r
    BY <1>2
  <1> HIDE DEF p, r
  <1>4. c = u * m + r
    <2>1. u * m = q * m + p * m
      BY <1>1, <1>3
    <2>2. q * m \in Int /\ p * m \in Int
      BY <1>1, <1>3
    <2>. QED
      BY <1>1, <1>3, <2>1, <2>2 DEF t
  <1>5. u \in Int /\ c \in Nat
    BY <1>1, <1>3
  <1> HIDE DEF u, c
  <1>6. c % m = r
    BY <1>3, <1>4, <1>5, RemainderIsUnique
  <1>. QED
    BY <1>6 DEF c, r, s, t

\* The id of a number k later, for k below the number of ids.
LEMMA IdOfLater ==
    ASSUME NEW n \in Nat, NEW k \in 0 .. SeqMod - 1
    PROVE  /\ Id(n) \in seq_id_t
           /\ Id(n + k) \in seq_id_t
           /\ Id(n + k) = IF Id(n) + k < SeqMod THEN Id(n) + k ELSE Id(n) + k - SeqMod
  <1> DEFINE q == n \div SeqMod
             s == n % SeqMod
  <1>1. SeqMod \in Nat \ {0}
    BY SeqModAssumption
  <1>2. q \in Int /\ s \in 0 .. SeqMod - 1 /\ n = q * SeqMod + s
    BY <1>1
  <1> HIDE DEF q, s
  <1>3. Id(n) = s
    BY DEF Id, s
  <1>4. CASE s + k < SeqMod
    <2>1. n + k = q * SeqMod + (s + k) /\ s + k \in 0 .. SeqMod - 1
      <3>1. q * SeqMod \in Int
        BY <1>1, <1>2
      <3>. QED
        BY <1>1, <1>2, <1>4, <3>1
    <2>2. (n + k) % SeqMod = s + k
      BY <1>1, <1>2, <2>1, RemainderIsUnique
    <2>. QED
      BY <1>1, <1>2, <1>3, <1>4, <2>1, <2>2 DEF Id, seq_id_t
  <1>5. CASE s + k >= SeqMod
    <2> DEFINE r == s + k - SeqMod
    <2>1. r \in 0 .. SeqMod - 1 /\ s + k = SeqMod + r
      BY <1>1, <1>2, <1>5
    <2> HIDE DEF r
    <2>2. n + k = (q + 1) * SeqMod + r
      <3>1. q * SeqMod \in Int /\ (q + 1) * SeqMod = q * SeqMod + SeqMod
        BY <1>1, <1>2
      <3>. QED
        BY <1>1, <1>2, <2>1, <3>1
    <2>3. (n + k) % SeqMod = r
      <3> DEFINE p == q + 1
      <3>1. p \in Int /\ n + k \in Nat
        BY <1>1, <1>2
      <3>2. n + k = p * SeqMod + r
        BY <2>2
      <3> HIDE DEF p
      <3>. QED
        BY <1>1, <2>1, <3>1, <3>2, RemainderIsUnique
    <2>. QED
      BY <1>1, <1>2, <1>3, <1>5, <2>1, <2>3 DEF Id, seq_id_t, r
  <1>. QED
    BY <1>1, <1>2, <1>4, <1>5
----------------------------------------------------------------------------
\* The youngest id of a window whose youngest number is n0, and that of a
\* number within half the range after it.
LEMMA RangeConstants ==
    /\ SeqMod \in Nat /\ HalfRange \in Nat /\ HalfRange < SeqMod
    /\ AckBits \in Nat \ {0} /\ AckBits <= HalfRange
  BY SeqModAssumption, AckBitsAssumption DEF HalfRange

\* The receiver takes a packet sent later for younger, and knows by how much,
\* though it sees their wrapped ids only.
LEMMA LaterIsYounger ==
    ASSUME NEW n \in Nat, NEW k \in 1 .. HalfRange
    PROVE  /\ sequence_id__is_more_recent(Id(n + k), Id(n))
           /\ ~sequence_id__is_more_recent(Id(n), Id(n + k))
           /\ Id(n + k) # Id(n)
           /\ sequence_id__delta(Id(n + k), Id(n)) = k
  <1> DEFINE a == Id(n)
             b == Id(n + k)
  <1>1. k \in 0 .. SeqMod - 1
    BY RangeConstants
  <1>2. /\ a \in seq_id_t /\ b \in seq_id_t
        /\ b = IF a + k < SeqMod THEN a + k ELSE a + k - SeqMod
    BY <1>1, IdOfLater
  <1> HIDE DEF a, b
  <1>3. sequence_id__is_more_recent(b, a) /\ sequence_id__delta(b, a) = k
    BY <1>2, RecencyFollowsSending
  <1>4. b # a
    BY <1>1, <1>2, RangeConstants DEF seq_id_t
  <1>5. ~sequence_id__is_more_recent(a, b)
    BY <1>2, <1>3, <1>4, RecencyIsTotal
  <1>. QED
    BY <1>3, <1>4, <1>5 DEF a, b

\* The bit field after the youngest id moved on by k: shifted by k with the bit
\* of the former youngest id, or empty when that id is out of the field too.
LEMMA AdvancedBits ==
    ASSUME NEW bits \in SUBSET BitIndex, NEW k \in Nat \ {0},
           NEW new \in Advanced(bits, k)
    PROVE  /\ new \in SUBSET BitIndex
           /\ k <= AckBits => k - 1 \in new
           /\ k < AckBits => new = {b \in BitIndex : b - k \in bits} \cup {k - 1}
           /\ k > AckBits => new = {}
  <1>1. CASE k > AckBits
    BY <1>1, RangeConstants DEF Advanced
  <1>2. CASE k <= AckBits
    <2>1. PICK s \in ShiftLeft(bits, k) : new = s \cup {k - 1}
      BY <1>2, RangeConstants DEF Advanced
    <2>2. k < AckBits => s = {b \in BitIndex : b - k \in bits}
      BY <2>1 DEF ShiftLeft
    <2>3. s \in SUBSET BitIndex /\ k - 1 \in BitIndex
      BY <1>2, <2>1, RangeConstants DEF ShiftLeft, BitIndex
    <2>. QED
      BY <1>2, <2>1, <2>2, <2>3, RangeConstants
  <1>. QED
    BY <1>1, <1>2, RangeConstants

\* What the three branches of accept_packet do, in numbers instead of ids.
LEMMA AcceptYounger ==
    ASSUME NEW w \in WindowType, NEW n \in Nat, w.sequence_id = Id(n),
           NEW k \in 1 .. HalfRange, NEW v \in accept_packet(w, Id(n + k))
    PROVE  /\ v \in WindowType
           /\ v.sequence_id = Id(n + k)
           /\ v.ack_bitfield \in Advanced(w.ack_bitfield, k)
           /\ v.packets_dropped =
                (w.packets_dropped + lost_packets(w.ack_bitfield, k)) % CounterMod
  <1>1. /\ sequence_id__is_more_recent(Id(n + k), w.sequence_id)
        /\ sequence_id__delta(Id(n + k), w.sequence_id) = k
    BY LaterIsYounger
  <1>2. v \in AcceptNewer(w, Id(n + k))
    BY <1>1 DEF accept_packet
  <1>3. PICK bits \in Advanced(w.ack_bitfield, k) :
           v = [sequence_id |-> Id(n + k), ack_bitfield |-> bits,
                packets_dropped |->
                   (w.packets_dropped + lost_packets(w.ack_bitfield, k)) % CounterMod]
    BY <1>1, <1>2 DEF AcceptNewer
  <1>4. /\ w.ack_bitfield \in SUBSET BitIndex /\ w.packets_dropped \in Nat
        /\ k \in Nat \ {0} /\ k \in 0 .. SeqMod - 1
    BY RangeConstants, CounterModAssumption DEF WindowType, PacketCounter
  <1>5. bits \in SUBSET BitIndex /\ Id(n + k) \in seq_id_t
    BY <1>4, AdvancedBits, IdOfLater
  <1>6. (w.packets_dropped + lost_packets(w.ack_bitfield, k)) % CounterMod \in PacketCounter
    <2>1. lost_packets(w.ack_bitfield, k) \in Nat
      BY <1>4, LostType
    <2>. QED
      BY <1>4, <2>1, CounterModAssumption DEF PacketCounter
  <1>. QED
    BY <1>3, <1>5, <1>6 DEF WindowType

LEMMA AcceptLate ==
    ASSUME NEW w \in WindowType, NEW n \in Nat, NEW k \in 1 .. HalfRange,
           w.sequence_id = Id(n + k), NEW v \in accept_packet(w, Id(n))
    PROVE  /\ v \in WindowType
           /\ v.sequence_id = w.sequence_id
           /\ v.packets_dropped = w.packets_dropped
           /\ v.ack_bitfield = IF k <= AckBits THEN w.ack_bitfield \cup {k - 1}
                               ELSE w.ack_bitfield
  <1>1. /\ ~sequence_id__is_more_recent(Id(n), w.sequence_id)
        /\ Id(n) # w.sequence_id
        /\ sequence_id__delta(w.sequence_id, Id(n)) = k
    BY LaterIsYounger
  <1>2. v = AcceptOlder(w, Id(n))
    BY <1>1 DEF accept_packet
  <1>. QED
    BY <1>1, <1>2, RangeConstants DEF AcceptOlder, WindowType, BitIndex

LEMMA AcceptRepeated ==
    ASSUME NEW w \in WindowType, NEW v \in accept_packet(w, w.sequence_id)
    PROVE  v = w
  <1>1. ~sequence_id__is_more_recent(w.sequence_id, w.sequence_id)
    BY SeqModAssumption DEF sequence_id__is_more_recent, WindowType, seq_id_t
  <1>. QED
    BY <1>1 DEF accept_packet
----------------------------------------------------------------------------
\* The window w says of the numbers S received since the connection opened with
\* number o, the youngest of them being t, what the properties demand.
Faithful(t, o, S, w, jump) ==
    /\ w.sequence_id = Id(t)
    /\ \A n \in S : t - n \in 1 .. AckBits => t - n - 1 \in w.ack_bitfield
    /\ "width" \notin jump =>
          \A b \in w.ack_bitfield : t - b - 1 > o => t - b - 1 \in S

\* Before any jump past the field, the bits below the first packet are still
\* set, so a zero bit is a number missed; and the count is that of the numbers
\* missed that left the field, M.
Counting(t, o, w, jump, M) ==
    jump = {} =>
        /\ w.ack_bitfield # {}
        /\ \A b \in BitIndex : t - b - 1 < o => b \in w.ack_bitfield
        /\ \A m \in M : m <= t - AckBits - 1
        /\ w.packets_dropped = Cardinality(M) % CounterMod

\* The jumps a packet n adds, and the numbers that leave the field with it.
Jumped(t, n) == (IF n - t = AckBits THEN {"width"} ELSE {})
                \cup (IF n - t > AckBits THEN {"beyond"} ELSE {})
Leaving(t, o, S, n) ==
    {m \in 0 .. n - AckBits - 1 : m > t - AckBits - 1 /\ m > o /\ m \notin S}

LEMMA FaithfulYounger ==
    ASSUME NEW t \in Nat, NEW o \in Nat, NEW S \in SUBSET Nat, NEW w \in WindowType,
           NEW jump, NEW k \in 1 .. HalfRange, NEW v \in accept_packet(w, Id(t + k)),
           t \in S, \A m \in S : m <= t, Faithful(t, o, S, w, jump)
    PROVE  Faithful(t + k, o, S \cup {t + k}, v, jump \cup Jumped(t, t + k))
  <1> DEFINE n == t + k
             bits == w.ack_bitfield
             new == v.ack_bitfield
  <1>1. /\ w.sequence_id = Id(t) /\ bits \in SUBSET BitIndex
        /\ k \in Nat \ {0} /\ n \in Nat /\ t = n - k
    BY DEF Faithful, WindowType
  <1>2. v.sequence_id = Id(n) /\ new \in Advanced(bits, k)
    BY <1>1, AcceptYounger
  <1> HIDE DEF n, bits, new
  <1>3. /\ k <= AckBits => k - 1 \in new
        /\ k < AckBits => new = {b \in BitIndex : b - k \in bits} \cup {k - 1}
        /\ k > AckBits => new = {}
    BY <1>1, <1>2, AdvancedBits
  <1>4. ASSUME NEW m \in S \cup {n}, n - m \in 1 .. AckBits
        PROVE  n - m - 1 \in new
    <2>1. m \in S /\ m \in Nat /\ m <= t
      BY <1>1, <1>4
    <2>2. k <= AckBits
      BY <1>1, <1>4, <2>1, RangeConstants
    <2>3. CASE m = t
      BY <1>1, <1>3, <2>2, <2>3
    <2>4. CASE m # t
      <3>1. t - m \in 1 .. AckBits /\ k < AckBits
        BY <1>1, <1>4, <2>1, <2>4, RangeConstants
      <3>2. t - m - 1 \in bits
        BY <2>1, <3>1 DEF Faithful, bits
      <3>3. n - m - 1 \in BitIndex /\ (n - m - 1) - k = t - m - 1
        BY <1>1, <1>4, <2>1, RangeConstants DEF BitIndex
      <3>. QED
        BY <1>3, <3>1, <3>2, <3>3
    <2>. QED
      BY <2>3, <2>4
  <1>5. ASSUME "width" \notin jump \cup Jumped(t, n), NEW b \in new, n - b - 1 > o
        PROVE  n - b - 1 \in S \cup {n}
    <2>1. "width" \notin jump /\ k # AckBits
      <3>1. n - t = k
        BY <1>1
      <3>. QED
        BY <1>5, <3>1 DEF Jumped
    <2>2. k < AckBits
      BY <1>1, <1>3, <1>5, <2>1, RangeConstants
    <2>3. CASE b = k - 1
      BY <1>1, <2>3
    <2>4. CASE b # k - 1
      <3>1. b \in BitIndex /\ b - k \in bits /\ b \in Int
        BY <1>3, <1>5, <2>2, <2>4 DEF BitIndex
      <3>2. t - (b - k) - 1 = n - b - 1
        BY <1>1, <3>1
      <3>3. t - (b - k) - 1 \in S
        BY <1>5, <2>1, <3>1, <3>2 DEF Faithful, bits
      <3>. QED
        BY <3>2, <3>3
    <2>. QED
      BY <2>3, <2>4
  <1>. QED
    BY <1>2, <1>4, <1>5 DEF Faithful, n, new

LEMMA FaithfulLate ==
    ASSUME NEW n \in Nat, NEW o \in Nat, NEW S \in SUBSET Nat, NEW w \in WindowType,
           NEW jump, NEW k \in 1 .. HalfRange, NEW v \in accept_packet(w, Id(n)),
           Faithful(n + k, o, S, w, jump)
    PROVE  Faithful(n + k, o, S \cup {n}, v, jump)
  <1> DEFINE t == n + k
             bits == w.ack_bitfield
  <1>1. /\ w.sequence_id = Id(t) /\ t \in Nat /\ n = t - k /\ k \in Nat
        /\ bits \in SUBSET BitIndex
    BY DEF Faithful, WindowType
  <1>2. /\ v.sequence_id = w.sequence_id
        /\ v.ack_bitfield = IF k <= AckBits THEN bits \cup {k - 1} ELSE bits
    BY <1>1, AcceptLate
  <1> HIDE DEF t, bits
  <1>3. ASSUME NEW m \in S \cup {n}, t - m \in 1 .. AckBits
        PROVE  t - m - 1 \in v.ack_bitfield
    <2>1. CASE m = n
      BY <1>1, <1>2, <1>3, <2>1
    <2>2. CASE m # n
      BY <1>2, <1>3, <2>2 DEF Faithful, bits, t
    <2>. QED
      BY <2>1, <2>2
  <1>4. ASSUME "width" \notin jump, NEW b \in v.ack_bitfield, t - b - 1 > o
        PROVE  t - b - 1 \in S \cup {n}
    <2>1. CASE b \in bits
      BY <1>4, <2>1 DEF Faithful, bits, t
    <2>2. CASE b \notin bits
      <3>1. b = k - 1
        BY <1>2, <2>2
      <3>. QED
        BY <1>1, <3>1
    <2>. QED
      BY <2>1, <2>2
  <1>. QED
    BY <1>1, <1>2, <1>3, <1>4 DEF Faithful, t

\* The zero bits a shift by k pushes out stand for the numbers that leave the
\* field unreceived: connection__check_for_lost_packets counts exactly those.
LEMMA LostIsLeaving ==
    ASSUME NEW t \in Nat, NEW o \in Nat, NEW S \in SUBSET Nat, NEW w \in WindowType,
           NEW jump, NEW M, NEW k \in Nat \ {0}, k < AckBits, jump = {}, o \in S,
           Faithful(t, o, S, w, jump), Counting(t, o, w, jump, M)
    PROVE  /\ IsFiniteSet(Leaving(t, o, S, t + k))
           /\ lost_packets(w.ack_bitfield, k) = Cardinality(Leaving(t, o, S, t + k))
  <1> DEFINE n == t + k
             bits == w.ack_bitfield
             out == {b \in BitIndex \ bits : b >= AckBits - k}
             leaving == Leaving(t, o, S, n)
             f == [m \in leaving |-> t - m - 1]
  <1>1. /\ bits \in SUBSET BitIndex /\ bits # {}
        /\ n \in Nat /\ t = n - k /\ AckBits \in Nat
    BY RangeConstants DEF WindowType, Counting
  <1>2. \A m \in S : t - m \in 1 .. AckBits => t - m - 1 \in bits
    BY DEF Faithful
  <1>3. \A b \in bits : t - b - 1 > o => t - b - 1 \in S
    BY DEF Faithful
  <1>4. \A b \in BitIndex : t - b - 1 < o => b \in bits
    BY DEF Counting
  <1> HIDE DEF n, bits
  <1>5. lost_packets(bits, k) = Cardinality(out)
    <2>1. IsFiniteSet(out)
      BY BitIndexFinite, FS_Subset
    <2>2. Cardinality(out) \in Nat
      BY <2>1, FS_CardinalityType
    <2>3. lost_packets(bits, k) = Cardinality(out) + 0
      BY <1>1 DEF lost_packets
    <2> HIDE DEF out
    <2>. QED
      BY <2>2, <2>3
  <1>6. ASSUME NEW m \in leaving PROVE t - m - 1 \in out
    <2>1. /\ m \in Nat /\ m <= n - AckBits - 1 /\ m > t - AckBits - 1
          /\ m > o /\ m \notin S
      BY <1>1 DEF Leaving
    <2> DEFINE b == t - m - 1
    <2>2. b \in BitIndex /\ b >= AckBits - k /\ t - b - 1 = m
      BY <1>1, <2>1 DEF BitIndex
    <2> HIDE DEF b
    <2>3. b \notin bits
      BY <1>3, <2>1, <2>2
    <2>. QED
      BY <2>2, <2>3 DEF b
  <1>7. ASSUME NEW b \in out PROVE t - b - 1 \in leaving /\ t - (t - b - 1) - 1 = b
    <2>1. b \in BitIndex /\ b \notin bits /\ b >= AckBits - k /\ b \in Nat
      BY DEF BitIndex
    <2> DEFINE m == t - b - 1
    <2>2. m \in Int /\ t - m - 1 = b /\ m <= n - AckBits - 1 /\ m > t - AckBits - 1
      BY <1>1, <2>1 DEF BitIndex
    <2>3. ~(m < o)
      BY <1>4, <2>1
    <2>4. m \in Nat
      BY <2>2, <2>3
    <2>5. m \notin S
      <3>1. t - m = b + 1
        BY <2>1
      <3>2. t - m \in 1 .. AckBits
        BY <2>1, <3>1, <1>1 DEF BitIndex
      <3>. HIDE DEF m
      <3>. QED
        BY <1>2, <2>1, <2>2, <3>2
    <2> HIDE DEF m
    <2>6. m # o
      BY <2>5
    <2>7. m \in leaving
      BY <1>1, <2>2, <2>3, <2>4, <2>5, <2>6 DEF Leaving
    <2>. QED
      BY <2>2, <2>7 DEF m
  <1>8. \A m \in leaving : m \in Nat
    BY DEF Leaving
  <1>9. f \in Bijection(leaving, out)
    <2>1. f \in [leaving -> out]
      BY <1>6
    <2>2. \A a, b \in leaving : f[a] = f[b] => a = b
      BY <1>8
    <2>3. \A b \in out : \E m \in leaving : f[m] = b
      BY <1>7
    <2> HIDE DEF f, leaving, out
    <2>. QED
      BY <2>1, <2>2, <2>3 DEF Bijection, Injection, Surjection, IsInjective
  <1>10. IsFiniteSet(leaving)
    <2>1. IsFiniteSet(0 .. n - AckBits - 1)
      BY <1>1, FS_Interval
    <2>. QED
      BY <2>1, FS_Subset DEF Leaving
  <1>11. Cardinality(out) = Cardinality(leaving)
    BY <1>9, <1>10, FS_Bijection DEF ExistsBijection
  <1>. QED
    BY <1>5, <1>10, <1>11 DEF n, bits

LEMMA CountingYounger ==
    ASSUME NEW t \in Nat, NEW o \in Nat, NEW S \in SUBSET Nat, NEW w \in WindowType,
           NEW jump, NEW M, NEW k \in 1 .. HalfRange, NEW v \in accept_packet(w, Id(t + k)),
           o \in S, o <= t, M \subseteq Nat, IsFiniteSet(M),
           Faithful(t, o, S, w, jump), Counting(t, o, w, jump, M)
    PROVE  Counting(t + k, o, v, jump \cup Jumped(t, t + k), M \cup Leaving(t, o, S, t + k))
  <1> DEFINE n == t + k
             bits == w.ack_bitfield
             new == v.ack_bitfield
             leaving == Leaving(t, o, S, n)
  <1>. SUFFICES ASSUME jump \cup Jumped(t, n) = {}
                PROVE  /\ new # {}
                       /\ \A b \in BitIndex : n - b - 1 < o => b \in new
                       /\ \A m \in M \cup leaving : m <= n - AckBits - 1
                       /\ v.packets_dropped = Cardinality(M \cup leaving) % CounterMod
    BY DEF Counting
  <1>1. /\ w.sequence_id = Id(t) /\ bits \in SUBSET BitIndex /\ w.packets_dropped \in PacketCounter
        /\ k \in Nat \ {0} /\ n \in Nat /\ t = n - k
    BY DEF Faithful, WindowType
  <1>2. jump = {} /\ k < AckBits
    <2>1. n - t = k
      BY <1>1
    <2>2. ~(k = AckBits) /\ ~(k > AckBits)
      BY <2>1 DEF Jumped
    <2>. QED
      BY <1>1, <2>2, RangeConstants
  <1>3. /\ \A b \in BitIndex : t - b - 1 < o => b \in bits
        /\ \A m \in M : m <= t - AckBits - 1
        /\ w.packets_dropped = Cardinality(M) % CounterMod
    BY <1>2 DEF Counting
  <1>4. IsFiniteSet(leaving) /\ lost_packets(bits, k) = Cardinality(leaving)
    BY <1>1, <1>2, LostIsLeaving
  <1>5. /\ new \in Advanced(bits, k)
        /\ v.packets_dropped = (w.packets_dropped + lost_packets(bits, k)) % CounterMod
    BY <1>1, AcceptYounger
  <1> HIDE DEF n, bits, new
  <1>6. new = {b \in BitIndex : b - k \in bits} \cup {k - 1}
    BY <1>1, <1>2, <1>5, AdvancedBits
  <1>7. ASSUME NEW b \in BitIndex, n - b - 1 < o PROVE b \in new
    <2>1. b - k \in BitIndex /\ t - (b - k) - 1 < o
      BY <1>1, <1>2, <1>7, RangeConstants DEF BitIndex
    <2>. QED
      BY <1>3, <1>6, <2>1
  <1>8. ASSUME NEW m \in leaving
        PROVE  /\ m \in Nat /\ m <= n - AckBits - 1 /\ ~(m <= t - AckBits - 1)
    BY <1>1, RangeConstants DEF Leaving
  <1> HIDE DEF leaving
  <1>9. ASSUME NEW m \in M PROVE m <= n - AckBits - 1
    BY <1>1, <1>3, RangeConstants
  <1>10. Cardinality(M \cup leaving) = Cardinality(M) + Cardinality(leaving)
    <2>1. M \cap leaving = {}
      BY <1>3, <1>8
    <2>2. Cardinality(M) \in Nat /\ Cardinality(leaving) \in Nat
      BY <1>4, FS_CardinalityType
    <2>3. Cardinality(M \cup leaving) = Cardinality(M) + Cardinality(leaving) - Cardinality({})
      BY <1>4, <2>1, FS_Union
    <2>. QED
      BY <2>2, <2>3, FS_EmptySet
  <1>11. v.packets_dropped = (Cardinality(M) + Cardinality(leaving)) % CounterMod
    <2> DEFINE a == Cardinality(M)
               b == Cardinality(leaving)
    <2>1. a \in Nat /\ b \in Nat
      BY <1>4, FS_CardinalityType
    <2>2. v.packets_dropped = ((a % CounterMod) + b) % CounterMod
      BY <1>3, <1>4, <1>5
    <2> HIDE DEF a, b
    <2>3. v.packets_dropped = (a + b) % CounterMod
      BY <2>1, <2>2, RemainderOfSum, CounterModAssumption
    <2>. QED
      BY <2>3 DEF a, b
  <1>. QED
    BY <1>6, <1>7, <1>8, <1>9, <1>10, <1>11

LEMMA CountingLate ==
    ASSUME NEW n \in Nat, NEW o \in Nat, NEW S, NEW w \in WindowType,
           NEW jump, NEW M, NEW k \in 1 .. HalfRange, NEW v \in accept_packet(w, Id(n)),
           w.sequence_id = Id(n + k), Counting(n + k, o, w, jump, M)
    PROVE  Counting(n + k, o, v, jump, M)
  <1> DEFINE t == n + k
  <1>1. /\ v.packets_dropped = w.packets_dropped
        /\ w.ack_bitfield \subseteq v.ack_bitfield
    <2>1. /\ v.packets_dropped = w.packets_dropped
          /\ v.ack_bitfield = IF k <= AckBits THEN w.ack_bitfield \cup {k - 1}
                              ELSE w.ack_bitfield
      BY AcceptLate
    <2>. QED
      BY <2>1
  <1>2. Counting(t, o, w, jump, M)
    OBVIOUS
  <1> HIDE DEF t
  <1>3. Counting(t, o, v, jump, M)
    BY <1>1, <1>2 DEF Counting
  <1>. QED
    BY <1>3 DEF t
----------------------------------------------------------------------------
LEMMA TopIsNewest ==
    ASSUME NEW S \in SUBSET Nat, NEW t \in S, \A m \in S : m <= t
    PROVE  (CHOOSE n \in S : \A m \in S : m <= n) = t
  <1> DEFINE c == CHOOSE n \in S : \A m \in S : m <= n
  <1>1. c \in S /\ \A m \in S : m <= c
    OBVIOUS
  <1> HIDE DEF c
  <1>2. c = t
    BY <1>1
  <1>. QED
    BY <1>2 DEF c

\* The youngest number received, t, and what the window says of the rest.
Concluded(t) ==
    /\ t \in received /\ \A m \in received : m <= t
    /\ opened \in received
    /\ Faithful(t, opened, received, window, jumps)
    /\ Counting(t, opened, window, jumps, missed)

\* Inductive: there is a youngest number as soon as there is a connection.
ReceiverInv ==
    /\ TypeOK
    /\ connected => \E t \in received : Concluded(t)
    /\ ~connected => missed = {} /\ jumps = {}

LEMMA ConcludedNewest == ASSUME TypeOK, NEW t, Concluded(t) PROVE Newest = t
  <1>1. received \in SUBSET Nat
    BY NumberAssumption DEF TypeOK
  <1>. QED
    BY <1>1, TopIsNewest DEF Concluded, Newest

LEMMA InitReceiver == Init => ReceiverInv
  <1>. SUFFICES ASSUME Init PROVE ReceiverInv
    OBVIOUS
  <1>1. window \in WindowType
    BY SeqModAssumption, CounterModAssumption
       DEF Init, WindowType, seq_id_t, PacketCounter
  <1>2. connected = FALSE /\ received = {} /\ missed = {} /\ jumps = {}
    BY DEF Init
  <1>3. sent \in FirstNumber .. LastNumber /\ opened \in FirstNumber .. LastNumber
    BY NumberAssumption DEF Init
  <1>4. TypeOK
    BY <1>1, <1>2, <1>3 DEF TypeOK
  <1>. QED
    BY <1>2, <1>4 DEF ReceiverInv

LEMMA SendReceiver == ASSUME ReceiverInv, Send PROVE ReceiverInv'
  <1>1. TypeOK'
    BY NumberAssumption DEF ReceiverInv, TypeOK, Send
  <1>2. \A t : Concluded(t) => Concluded(t)'
    BY DEF Send, Concluded
  <1>. QED
    BY <1>1, <1>2 DEF ReceiverInv, Send

LEMMA ConnectReceiver ==
    ASSUME ReceiverInv, NEW n \in FirstNumber .. sent - 1, Connect(n)
    PROVE  ReceiverInv'
  <1>1. n \in Nat /\ sent \in FirstNumber .. LastNumber /\ missed = {} /\ jumps = {}
    BY NumberAssumption DEF ReceiverInv, TypeOK, Connect
  <1>2. Id(n) \in seq_id_t
    BY <1>1, IdOfLater, SeqModAssumption
  <1>3. TypeOK'
    <2>1. FreshWindow(Id(n)) \in WindowType
      BY <1>2, CounterModAssumption DEF FreshWindow, WindowType, PacketCounter
    <2>. QED
      BY <1>1, <2>1, NumberAssumption DEF ReceiverInv, TypeOK, Connect
  <1>4. Faithful(n, n, {n}, FreshWindow(Id(n)), {})
    BY <1>1 DEF Faithful, FreshWindow, BitIndex
  <1>5. Counting(n, n, FreshWindow(Id(n)), {}, {})
    <2>1. 0 \in BitIndex
      BY AckBitsAssumption DEF BitIndex
    <2>2. 0 % CounterMod = 0
      BY CounterModAssumption
    <2>. QED
      BY <2>1, <2>2, FS_EmptySet DEF Counting, FreshWindow
  <1>6. Concluded(n)'
    BY <1>1, <1>4, <1>5 DEF Concluded, Connect
  <1>. QED
    BY <1>3, <1>6 DEF ReceiverInv, Connect, Concluded

LEMMA ReceiveReceiver ==
    ASSUME ReceiverInv, NEW n \in FirstNumber .. sent - 1, Receive(n)
    PROVE  ReceiverInv'
  <1>1. PICK t \in received : Concluded(t)
    BY DEF ReceiverInv, Receive
  <1>2. Newest = t
    BY <1>1, ConcludedNewest DEF ReceiverInv
  <1>3. /\ n \in Nat /\ t \in Nat /\ received \in SUBSET Nat /\ opened \in Nat
        /\ missed \subseteq Nat /\ IsFiniteSet(missed)
        /\ window \in WindowType /\ window.sequence_id = Id(t)
        /\ opened \in received /\ opened <= t
        /\ \A m \in received : m <= t
    <2>1. received \in SUBSET Nat /\ opened \in Nat /\ missed \subseteq Nat /\ sent \in Nat
      BY NumberAssumption DEF ReceiverInv, TypeOK
    <2>2. IsFiniteSet(FirstNumber .. sent - 1)
      BY <2>1, FS_Interval, NumberAssumption
    <2>3. IsFiniteSet(missed)
      BY <2>2, FS_Subset DEF ReceiverInv, TypeOK
    <2>. QED
      BY <1>1, <2>1, <2>3, NumberAssumption DEF ReceiverInv, TypeOK, Concluded, Faithful
  <1>4. /\ window' \in accept_packet(window, Id(n))
        /\ received' = received \cup {n}
        /\ missed' = missed \cup Leaving(t, opened, received, n)
        /\ jumps' = jumps \cup Jumped(t, n)
        /\ connected' = connected /\ sent' = sent /\ opened' = opened /\ connected
        /\ n - t \in -HalfRange .. HalfRange
    BY <1>2 DEF Receive, Leaving, Jumped, InComparableRange
  <1>5. TypeOK'
    <2>1. window' \in WindowType
      <3>1. CASE n > t
        <4>1. n - t \in 1 .. HalfRange /\ n = t + (n - t)
          BY <1>3, <1>4, <3>1, RangeConstants
        <4>. QED
          BY <1>3, <1>4, <4>1, AcceptYounger
      <3>2. CASE n < t
        <4>1. t - n \in 1 .. HalfRange /\ t = n + (t - n)
          BY <1>3, <1>4, <3>2, RangeConstants
        <4>. QED
          BY <1>3, <1>4, <4>1, AcceptLate
      <3>3. CASE n = t
        BY <1>3, <1>4, <3>3, AcceptRepeated
      <3>. QED
        BY <1>3, <3>1, <3>2, <3>3
    <2>2. Leaving(t, opened, received, n) \subseteq FirstNumber .. sent - 1
      BY <1>3, NumberAssumption, RangeConstants DEF Leaving, ReceiverInv, TypeOK
    <2>3. Jumped(t, n) \subseteq {"width", "beyond"}
      BY DEF Jumped
    <2>. QED
      BY <1>4, <2>1, <2>2, <2>3 DEF ReceiverInv, TypeOK
  <1>6. CASE n > t
    <2> DEFINE k == n - t
    <2>1. k \in 1 .. HalfRange /\ n = t + k
      BY <1>3, <1>4, <1>6, RangeConstants
    <2> HIDE DEF k
    <2>2. Faithful(n, opened, received', window', jumps')
      BY <1>1, <1>3, <1>4, <2>1, FaithfulYounger DEF Concluded
    <2>3. Counting(n, opened, window', jumps', missed')
      BY <1>1, <1>3, <1>4, <2>1, CountingYounger DEF Concluded
    <2>4. n \in received' /\ \A m \in received' : m <= n
      BY <1>3, <1>4, <1>6
    <2>5. Concluded(n)'
      BY <1>3, <1>4, <2>2, <2>3, <2>4 DEF Concluded
    <2>. QED
      BY <1>4, <1>5, <2>4, <2>5 DEF ReceiverInv
  <1>7. CASE n <= t
    <2>1. jumps' = jumps
      <3>1. ~(n - t = AckBits) /\ ~(n - t > AckBits)
        BY <1>3, <1>7, RangeConstants
      <3>. QED
        BY <1>4, <3>1 DEF Jumped
    <2>2. missed' = missed
      <3>1. \A m \in 0 .. n - AckBits - 1 : ~(m > t - AckBits - 1)
        BY <1>3, <1>7, RangeConstants
      <3>. QED
        BY <1>4, <3>1 DEF Leaving
    <2>3. Faithful(t, opened, received', window', jumps)
          /\ Counting(t, opened, window', jumps, missed)
      <3>1. CASE n = t
        <4>1. window' = window
          BY <1>3, <1>4, <3>1, AcceptRepeated
        <4>2. received' = received
          BY <1>1, <1>4, <3>1
        <4>. QED
          BY <1>1, <4>1, <4>2 DEF Concluded
      <3>2. CASE n < t
        <4> DEFINE k == t - n
        <4>1. k \in 1 .. HalfRange /\ t = n + k
          BY <1>3, <1>4, <3>2, RangeConstants
        <4> HIDE DEF k
        <4>2. Faithful(t, opened, received', window', jumps)
          BY <1>1, <1>3, <1>4, <4>1, FaithfulLate DEF Concluded
        <4>3. Counting(t, opened, window', jumps, missed)
          BY <1>1, <1>3, <1>4, <4>1, CountingLate DEF Concluded
        <4>. QED
          BY <4>2, <4>3
      <3>. QED
        BY <1>3, <1>7, <3>1, <3>2
    <2>4. t \in received' /\ \A m \in received' : m <= t
      BY <1>1, <1>3, <1>4, <1>7
    <2>5. Concluded(t)'
      BY <1>3, <1>4, <2>1, <2>2, <2>3, <2>4 DEF Concluded
    <2>. QED
      BY <1>4, <1>5, <2>4, <2>5 DEF ReceiverInv
  <1>. QED
    BY <1>3, <1>6, <1>7

LEMMA ReceiverStep == ReceiverInv /\ [Next]_vars => ReceiverInv'
  <1>. SUFFICES ASSUME ReceiverInv, [Next]_vars PROVE ReceiverInv'
    OBVIOUS
  <1>1. CASE Send
    BY <1>1, SendReceiver
  <1>2. ASSUME NEW n \in FirstNumber .. sent - 1, Connect(n) PROVE ReceiverInv'
    BY <1>2, ConnectReceiver
  <1>3. ASSUME NEW n \in FirstNumber .. sent - 1, Receive(n) PROVE ReceiverInv'
    BY <1>3, ReceiveReceiver
  <1>4. CASE UNCHANGED vars
    BY <1>4 DEF vars, ReceiverInv, TypeOK, Concluded
  <1>. QED
    BY <1>1, <1>2, <1>3, <1>4 DEF Next

THEOREM ReceiverIsInvariant == Spec => []ReceiverInv
  BY InitReceiver, ReceiverStep, PTL DEF Spec

\* No packet in any order takes the receiver out of its types.
THEOREM ReceiverTypeCorrect == Spec => []TypeOK
  <1>1. ReceiverInv => TypeOK
    BY DEF ReceiverInv
  <1>. QED
    BY <1>1, ReceiverIsInvariant, PTL

\* The acknowledged id is that of the youngest packet received, however often
\* the ids have wrapped since the connection was opened.
THEOREM YoungestAcked == Spec => []YoungestIsAcked
  <1>1. ReceiverInv => YoungestIsAcked
    BY ConcludedNewest DEF ReceiverInv, Concluded, Faithful, YoungestIsAcked
  <1>. QED
    BY <1>1, ReceiverIsInvariant, PTL

\* A packet that arrived is never reported missing while the field covers it.
THEOREM ReceivedAcked == Spec => []ReceivedIsAcked
  <1>1. ReceiverInv => ReceivedIsAcked
    BY ConcludedNewest DEF ReceiverInv, Concluded, Faithful, ReceivedIsAcked
  <1>. QED
    BY <1>1, ReceiverIsInvariant, PTL

\* A packet sent since the connection was opened is acknowledged only if it
\* arrived, unless a shift by the full width came out as the undefined one can.
THEOREM AckedReceived == Spec => []AckedWasReceived
  <1>1. ReceiverInv => AckedWasReceived
    BY ConcludedNewest DEF ReceiverInv, Concluded, Faithful, AckedWasReceived
  <1>. QED
    BY <1>1, ReceiverIsInvariant, PTL

\* packets_dropped counts the packets that left the field before they arrived,
\* each once, up to the first jump past the field.
THEOREM DroppedMissed == Spec => []DroppedIsMissed
  <1>1. ReceiverInv => DroppedIsMissed
    BY DEF ReceiverInv, Concluded, Counting, DroppedIsMissed
  <1>. QED
    BY <1>1, ReceiverIsInvariant, PTL
=============================================================================
