--------------------------- MODULE DebugLogProofs ---------------------------
(***************************************************************************)
(* Proofs about the log: whatever the number of threads, messages and      *)
(* lines, the string builder keeps its text within its memory, messages    *)
(* are printed whole and once, and only a closed switch loses one.         *)
(*                                                                         *)
(* First the doubling of the memory.  Its recursive function is unfolded   *)
(* by showing that a function with that equation exists: the one that      *)
(* finds the least element beyond what is needed in the orbit of doubling. *)
(* What it returns follows from a least counterexample.  Then the          *)
(* operations of the string builder, the layout of a message line by line, *)
(* the streams, and the inductive invariant, one lemma for each action.    *)
(***************************************************************************)
EXTENDS DebugLog, SequenceTheorems, WellFoundedInduction, TLAPS

\* The order of the natural numbers.
Less == {ss \in Nat \X Nat : ss[1] < ss[2]}

\* It is well-founded.
LEMMA LessIsWellFounded == IsWellFoundedOn(Less, Nat)
  BY NatLessThanWellFounded DEF OpToRel, Less

\* A set of natural numbers that is not empty has a least one: induction without an
\* operator for the formula.
LEMMA LeastExists ==
  ASSUME NEW T, T \subseteq Nat, T # {}
  PROVE  \E x \in T : \A y \in T : x <= y
  <1>1. PICK x \in T : \A y \in T : ~(<<y, x>> \in Less)
    BY LessIsWellFounded, WFMin, Zenon
  <1>2. ASSUME NEW y \in T PROVE x <= y
    <2>1. ~(<<y, x>> \in Less)
      BY <1>1
    <2>2. <<y, x>> \in Nat \X Nat
      OBVIOUS
    <2>3. y \in Nat /\ x \in Nat
      OBVIOUS
    <2>4. ~(y < x)
      BY <2>1, <2>2 DEF Less
    <2>5. QED BY <2>3, <2>4
  <1>3. QED BY <1>2

\* What doubling makes of s: the least set with s that is closed under it.
Orbit(s) == {x \in Nat : \A C \in SUBSET Nat : s \in C /\ (\A y \in C : 2 * y \in C) => x \in C}

\* The orbit has s and is closed under doubling.
LEMMA OrbitBegins ==
  ASSUME NEW s \in Nat
  PROVE  /\ s \in Orbit(s)
         /\ \A x \in Orbit(s) : 2 * x \in Orbit(s)
         /\ Orbit(s) \subseteq Nat
  <1>1. s \in Orbit(s)
    BY DEF Orbit
  <1>2. ASSUME NEW x \in Orbit(s) PROVE 2 * x \in Orbit(s)
    <2>1. x \in Nat /\ 2 * x \in Nat
      BY DEF Orbit
    <2>2. ASSUME NEW C \in SUBSET Nat, s \in C, \A y \in C : 2 * y \in C PROVE 2 * x \in C
      <3>1. x \in C
        BY <2>2, <1>2 DEF Orbit
      <3>2. QED BY <3>1, <2>2
    <2>3. QED BY <2>1, <2>2 DEF Orbit
  <1>3. QED BY <1>1, <1>2 DEF Orbit

\* Doubling a number that is not zero never falls below it and exceeds any bound.
LEMMA OrbitGrows ==
  ASSUME NEW s \in Nat, s > 0
  PROVE  /\ \A x \in Orbit(s) : x >= s
         /\ \A n \in Nat : \E x \in Orbit(s) : x > n
  <1>1. ASSUME NEW x \in Orbit(s) PROVE x >= s
    <2> DEFINE C == {y \in Nat : y >= s}
    <2>1. s \in C /\ C \in SUBSET Nat
      OBVIOUS
    <2>2. \A y \in C : 2 * y \in C
      OBVIOUS
    <2>3. x \in C
      BY <2>1, <2>2 DEF Orbit
    <2>4. QED BY <2>3
  <1>2. ASSUME NEW n \in Nat, ~ \E x \in Orbit(s) : x > n PROVE FALSE
    <2> DEFINE T == {m \in Nat : \A x \in Orbit(s) : x <= m}
    <2>1. n \in T
      BY <1>2, OrbitBegins
    <2>2. PICK m \in T : \A k \in T : m <= k
      <3>1. T \subseteq Nat /\ T # {}
        BY <2>1
      <3>2. QED BY <3>1, LeastExists
    <2>3. m \in Nat /\ m > 0
      BY OrbitBegins
    <2>4. \A x \in Orbit(s) : x <= m - 1
      <3>1. TAKE x \in Orbit(s)
      <3>2. 2 * x \in Orbit(s) /\ x \in Nat
        BY OrbitBegins
      <3>3. 2 * x <= m
        BY <3>2
      <3>4. QED BY <3>2, <3>3, <2>3
    <2>5. m - 1 \in T
      BY <2>3, <2>4
    <2>6. m <= m - 1
      BY <2>2, <2>5
    <2>7. QED BY <2>3, <2>6
  <1>3. QED BY <1>1, <1>2

\* The orbit of s is s and the orbit of its double.
LEMMA OrbitUnfolds ==
  ASSUME NEW s \in Nat
  PROVE  Orbit(s) = {s} \cup Orbit(2 * s)
  <1> DEFINE U == {s} \cup Orbit(2 * s)
  <1>1. 2 * s \in Nat
    OBVIOUS
  <1>2. U \in SUBSET Nat /\ s \in U
    BY <1>1, OrbitBegins
  <1>3. \A y \in U : 2 * y \in U
    BY <1>1, OrbitBegins
  <1>4. Orbit(s) \subseteq U
    BY <1>2, <1>3 DEF Orbit
  <1>5. Orbit(s) \in SUBSET Nat /\ 2 * s \in Orbit(s) /\ \A y \in Orbit(s) : 2 * y \in Orbit(s)
    BY OrbitBegins
  <1>6. Orbit(2 * s) \subseteq Orbit(s)
    BY <1>5 DEF Orbit
  <1>7. QED BY <1>4, <1>6, OrbitBegins

\* The elements of the orbit beyond n, and the least of them.
Enough(s, n) == {x \in Orbit(s) : x > n}
LeastEnough(s, n) == CHOOSE x \in Enough(s, n) : \A y \in Enough(s, n) : x <= y

\* The least element beyond n satisfies the equation the code computes by.
LEMMA LeastEnoughRecurs ==
  ASSUME NEW s \in Nat, NEW n \in Nat
  PROVE  LeastEnough(s, n) = IF s <= n THEN LeastEnough(2 * s, n) ELSE s
  <1>1. CASE s <= n
    <2>1. Enough(s, n) = Enough(2 * s, n)
      <3>1. Orbit(s) = {s} \cup Orbit(2 * s)
        BY OrbitUnfolds
      <3>2. s \in Nat /\ ~(s > n)
        BY <1>1
      <3>3. QED BY <3>1, <3>2 DEF Enough
    <2>2. QED BY <1>1, <2>1 DEF LeastEnough
  <1>2. CASE ~(s <= n)
    <2>1. s > 0 /\ s > n
      BY <1>2
    <2>2. s \in Enough(s, n) /\ \A y \in Enough(s, n) : s <= y
      BY <2>1, OrbitBegins, OrbitGrows DEF Enough
    <2>3. \A x \in Enough(s, n) : x \in Nat
      BY OrbitBegins DEF Enough
    <2>4. LeastEnough(s, n) \in Enough(s, n) /\ LeastEnough(s, n) <= s /\ s <= LeastEnough(s, n)
      BY <2>2 DEF LeastEnough
    <2>5. LeastEnough(s, n) \in Nat
      BY <2>3, <2>4
    <2>6. LeastEnough(s, n) = s
      BY <2>4, <2>5
    <2>7. QED BY <2>6, <1>2
  <1>3. QED BY <1>1, <1>2

\* The body of the recursive function of Doubled.
DoubledBody(f, n) == [s \in Nat |-> IF s <= n THEN f[2 * s] ELSE s]

\* So there is such a function, and Doubled is one.
LEMMA DoubledRecurs ==
  ASSUME NEW n \in Nat
  PROVE  \A s \in Nat : Doubled(s, n) = IF s <= n THEN Doubled(2 * s, n) ELSE s
  <1> DEFINE g == [s \in Nat |-> LeastEnough(s, n)]
             f == CHOOSE h : h = DoubledBody(h, n)
  <1>1. ASSUME NEW s \in Nat
        PROVE  (IF s <= n THEN g[2 * s] ELSE s) = LeastEnough(s, n)
    <2>1. 2 * s \in Nat
      OBVIOUS
    <2>2. g[2 * s] = LeastEnough(2 * s, n)
      BY <2>1
    <2>3. QED BY <2>2, LeastEnoughRecurs
  <1>2. g = DoubledBody(g, n)
    BY <1>1 DEF DoubledBody
  <1>3. f = DoubledBody(f, n)
    <2> HIDE DEF g
    <2>1. QED BY <1>2
  <1>4. ASSUME NEW s \in Nat PROVE Doubled(s, n) = f[s]
    BY DEF Doubled, DoubledBody
  <1>5. ASSUME NEW s \in Nat PROVE f[s] = IF s <= n THEN f[2 * s] ELSE s
    <2> HIDE DEF f
    <2>1. QED BY <1>3 DEF DoubledBody
  <1>6. ASSUME NEW s \in Nat PROVE 2 * s \in Nat
    OBVIOUS
  <1> HIDE DEF f
  <1>7. QED BY <1>4, <1>5, <1>6

\* Memory is doubled until there is room for what is needed and the terminator.
LEMMA DoubledIsEnough ==
  ASSUME NEW s \in Nat, s > 0, NEW n \in Nat
  PROVE  Doubled(s, n) \in Nat /\ Doubled(s, n) > n /\ Doubled(s, n) >= s
  <1> DEFINE Good(z) == Doubled(z, n) \in Nat /\ Doubled(z, n) > n /\ Doubled(z, n) >= z
             T == {d \in Nat : \E z \in Nat : z > 0 /\ ~Good(z) /\ z <= n /\ d = n - z}
  <1>1. ASSUME NEW z \in Nat, z > 0, ~Good(z) PROVE z <= n /\ 2 * z <= n /\ ~Good(2 * z)
    <2>1. z <= n
      BY <1>1, DoubledRecurs
    <2>2. Doubled(z, n) = Doubled(2 * z, n)
      BY <2>1, DoubledRecurs
    <2>3. ~Good(2 * z)
      BY <1>1, <2>2
    <2>4. 2 * z <= n
      <3>1. 2 * z \in Nat
        OBVIOUS
      <3>2. Doubled(2 * z, n) = IF 2 * z <= n THEN Doubled(2 * (2 * z), n) ELSE 2 * z
        BY <3>1, DoubledRecurs
      <3>3. QED BY <3>1, <3>2, <2>3
    <2>5. QED BY <2>1, <2>3, <2>4
  <1>2. T = {}
    <2>1. SUFFICES ASSUME T # {} PROVE FALSE
      OBVIOUS
    <2>2. PICK d \in T : \A e \in T : d <= e
      <3>1. T \subseteq Nat
        OBVIOUS
      <3> HIDE DEF T
      <3>2. QED BY <3>1, <2>1, LeastExists
    <2>3. PICK z \in Nat : z > 0 /\ ~Good(z) /\ z <= n /\ d = n - z
      OBVIOUS
    <2>4. 2 * z <= n /\ ~Good(2 * z)
      BY <1>1, <2>3
    <2> HIDE DEF Good
    <2>5. n - 2 * z \in T
      <3>1. 2 * z \in Nat /\ 2 * z > 0 /\ n - 2 * z \in Nat
        BY <2>3, <2>4
      <3>2. QED BY <3>1, <2>4
    <2>6. d <= n - 2 * z
      BY <2>2, <2>5
    <2>7. QED BY <2>3, <2>6
  <1>3. SUFFICES ASSUME ~Good(s) PROVE FALSE
    OBVIOUS
  <1>4. s <= n
    BY <1>1, <1>3
  <1>5. n - s \in T
    <2>1. n - s \in Nat
      BY <1>4
    <2> HIDE DEF Good
    <2>2. QED BY <2>1, <1>3, <1>4
  <1>6. QED BY <1>2, <1>5

-----------------------------------------------------------------------------
\* What the memory of a string builder holds.
Memory == Piece \cup {Nul, Junk}

\* Overwriting within the memory changes the places written and no others.
LEMMA OverwrittenMemory ==
  ASSUME NEW memory \in Seq(Memory), NEW in \in Seq(Memory), NEW at \in Nat,
         at + Len(in) <= Len(memory)
  PROVE  /\ Overwritten(memory, at, in) \in Seq(Memory)
         /\ Len(Overwritten(memory, at, in)) = Len(memory)
         /\ \A i \in 1 .. Len(memory) : Overwritten(memory, at, in)[i] =
              IF i <= at THEN memory[i] ELSE IF i <= at + Len(in) THEN in[i - at] ELSE memory[i]
  <1> DEFINE n == Len(memory)
             k == Len(in)
             a == SubSeq(memory, 1, at)
             b == SubSeq(memory, at + k + 1, n)
  <1>1. n \in Nat /\ k \in Nat /\ at + k <= n
    BY LenProperties
  <1>2. \A i \in 1 .. n : memory[i] \in Memory
    BY ElementOfSeq
  <1>3. a \in Seq(Memory) /\ Len(a) = at /\ \A i \in 1 .. at : a[i] = memory[i]
    <2>1. \A i \in 1 .. at : memory[i] \in Memory
      BY <1>1, <1>2
    <2> HIDE DEF Memory
    <2>2. /\ a \in Seq(Memory)
          /\ Len(a) = IF 1 <= at THEN (at - 1) + 1 ELSE 0
          /\ \A i \in 1 .. (at - 1) + 1 : a[i] = memory[(1 + i) - 1]
      BY <2>1, SubSeqProperties
    <2>3. QED BY <2>2
  <1>4. /\ b \in Seq(Memory) /\ Len(b) = n - (at + k)
        /\ \A i \in 1 .. n - (at + k) : b[i] = memory[(at + k) + i]
    <2> DEFINE m == at + k + 1
    <2>0. m \in Int /\ n \in Int /\ m >= 1
      BY <1>1
    <2>1. \A i \in m .. n : memory[i] \in Memory
      BY <1>1, <1>2
    <2> HIDE DEF m, n
    <2>2. /\ SubSeq(memory, m, n) \in Seq(Memory)
          /\ Len(SubSeq(memory, m, n)) = IF m <= n THEN (n - m) + 1 ELSE 0
          /\ \A i \in 1 .. (n - m) + 1 : SubSeq(memory, m, n)[i] = memory[(m + i) - 1]
      BY <2>0, <2>1, SubSeqProperties
    <2>3. m = (at + k) + 1
      BY DEF m
    <2>4. b = SubSeq(memory, m, n)
      BY DEF m
    <2> HIDE DEF b, k
    <2>6. \A i \in Int : (m + i) - 1 = (at + k) + i
      BY <1>1, <2>0, <2>3
    <2> DEFINE r == n - (at + k)
    <2>7. r \in Int /\ (n - m) + 1 = r /\ (m <= n <=> r > 0) /\ r >= 0
      BY <1>1, <2>0, <2>3
    <2> HIDE DEF r
    <2>8. Len(b) = r
      BY <2>2, <2>4, <2>7
    <2>9. ASSUME NEW i \in 1 .. r PROVE b[i] = memory[(at + k) + i]
      <3>1. b[i] = memory[(m + i) - 1]
        <4>1. i \in 1 .. (n - m) + 1
          BY <2>7
        <4>2. QED BY <4>1, <2>2, <2>4
      <3>2. i \in Int
        BY <2>7
      <3>3. (m + i) - 1 = (at + k) + i
        BY <3>2, <2>6
      <3>4. QED BY <3>1, <3>3
    <2>10. QED BY <2>2, <2>4, <2>8, <2>9 DEF r
  <1> HIDE DEF a, b
  <1>5. /\ a \o in \in Seq(Memory) /\ Len(a \o in) = at + k
        /\ \A i \in 1 .. at + k : (a \o in)[i] = IF i <= at THEN a[i] ELSE in[i - at]
    BY <1>3, ConcatProperties
  <1> DEFINE c == a \o in
  <1>c. c \in Seq(Memory)
    BY <1>5
  <1>b. b \in Seq(Memory)
    BY <1>4
  <1> HIDE DEF c
  <1>6. /\ c \o b \in Seq(Memory) /\ Len(c \o b) = Len(c) + Len(b)
        /\ \A i \in 1 .. Len(c) + Len(b) : (c \o b)[i] = IF i <= Len(c) THEN c[i] ELSE b[i - Len(c)]
    BY <1>b, <1>c, ConcatProperties, Zenon
  <1>7. Len(c) = at + k /\ Len(c) + Len(b) = n
    <2>1. Len(c) = at + k
      BY <1>5 DEF c
    <2> HIDE DEF n, k
    <2>2. QED BY <2>1, <1>1, <1>4
  <1>8. Overwritten(memory, at, in) = c \o b
    BY DEF Overwritten, c, a, b
  <1> HIDE DEF n, k
  <1>9. ASSUME NEW i \in 1 .. n
        PROVE  (c \o b)[i] = IF i <= at THEN memory[i] ELSE IF i <= at + k THEN in[i - at] ELSE memory[i]
    <2>1. CASE i <= at + k
      <3>1. i \in 1 .. at + k
        BY <1>1, <2>1
      <3>2. (c \o b)[i] = IF i <= at THEN a[i] ELSE in[i - at]
        BY <2>1, <3>1, <1>5, <1>6, <1>7 DEF c
      <3>3. QED BY <2>1, <3>2, <1>3
    <2>2. CASE ~(i <= at + k)
      <3>1. i - (at + k) \in 1 .. n - (at + k) /\ ~(i <= at) /\ (at + k) + (i - (at + k)) = i
        BY <1>1, <2>2
      <3>2. (c \o b)[i] = b[i - (at + k)]
        BY <2>2, <1>6, <1>7
      <3>3. QED BY <2>2, <3>1, <3>2, <1>4
    <2>3. QED BY <2>1, <2>2
  <1>10. QED BY <1>6, <1>7, <1>8, <1>9 DEF n, k

\* Growing the memory keeps what it holds.
LEMMA GrownMemory ==
  ASSUME NEW sb \in Builder, WellFormed(sb), NEW size \in Nat, size >= sb.size
  PROVE  /\ Grown(sb, size) \in Builder
         /\ Len(Grown(sb, size).memory) = size /\ Grown(sb, size).size = size
         /\ Grown(sb, size).cur = sb.cur
         /\ \A i \in 1 .. sb.size : Grown(sb, size).memory[i] = sb.memory[i]
  <1> DEFINE junk == [i \in 1 .. size - sb.size |-> Junk]
             s == sb.memory
  <1>1. sb.size \in Nat /\ size - sb.size \in Nat /\ s \in Seq(Memory) /\ Len(s) = sb.size
    BY DEF Builder, WellFormed, Memory
  <1>2. junk \in Seq(Memory) /\ Len(junk) = size - sb.size
    BY <1>1 DEF Memory
  <1> HIDE DEF junk, s
  <1>3. /\ s \o junk \in Seq(Memory)
        /\ Len(s \o junk) = Len(s) + Len(junk)
        /\ \A i \in 1 .. Len(s) + Len(junk) : (s \o junk)[i] = IF i <= Len(s) THEN s[i] ELSE junk[i - Len(s)]
    BY <1>1, <1>2, ConcatProperties
  <1>4. Len(s \o junk) = size
    BY <1>1, <1>2, <1>3
  <1>5. Grown(sb, size) = [memory |-> s \o junk, cur |-> sb.cur, size |-> size]
    <2>1. Grown(sb, size) = [sb EXCEPT !.memory = @ \o junk, !.size = size]
      BY DEF Grown, junk
    <2>2. QED BY <2>1 DEF Builder, s
  <1>6. Grown(sb, size) \in Builder
    BY <1>3, <1>5 DEF Builder, Memory
  <1>7. \A i \in 1 .. sb.size : (s \o junk)[i] = s[i]
    BY <1>1, <1>2, <1>3
  <1>8. QED BY <1>1, <1>4, <1>5, <1>6, <1>7 DEF s

\* The parts of a well-formed string builder.
LEMMA BuilderParts ==
  ASSUME NEW sb \in Builder, WellFormed(sb)
  PROVE  /\ sb.memory \in Seq(Memory) /\ Len(sb.memory) = sb.size
         /\ sb.cur \in Nat /\ sb.size \in Nat /\ sb.cur < sb.size
         /\ sb.memory[sb.cur + 1] = Nul
         /\ str(sb) \in Seq(Piece) /\ Len(str(sb)) = sb.cur
         /\ \A i \in 1 .. sb.cur : str(sb)[i] = sb.memory[i] /\ sb.memory[i] \in Piece
  <1>1. /\ sb.memory \in Seq(Memory) /\ Len(sb.memory) = sb.size
        /\ sb.cur \in Nat /\ sb.size \in Nat /\ sb.cur < sb.size
        /\ sb.memory[sb.cur + 1] = Nul
        /\ str(sb) \in Seq(Piece)
    BY DEF Builder, WellFormed, Memory
  <1>2. \A i \in 1 .. sb.cur : sb.memory[i] \in Memory
    BY <1>1, ElementOfSeq
  <1>3. Len(str(sb)) = sb.cur /\ \A i \in 1 .. sb.cur : str(sb)[i] = sb.memory[i]
    <2> DEFINE t == SubSeq(sb.memory, 1, sb.cur)
    <2>1. /\ Len(t) = IF 1 <= sb.cur THEN (sb.cur - 1) + 1 ELSE 0
          /\ \A i \in 1 .. (sb.cur - 1) + 1 : t[i] = sb.memory[(1 + i) - 1]
      BY <1>1, <1>2, SubSeqProperties
    <2>2. t = str(sb)
      BY DEF str
    <2> HIDE DEF t
    <2>3. QED BY <1>1, <2>1, <2>2
  <1>4. ASSUME NEW i \in 1 .. sb.cur PROVE sb.memory[i] \in Piece
    BY <1>1, <1>3, ElementOfSeq
  <1>5. QED BY <1>1, <1>3, <1>4

\* Memory that begins with a text and its terminator is well-formed and holds that text.
LEMMA BuiltFrom ==
  ASSUME NEW sb \in Builder, NEW text \in Seq(Piece),
         Len(sb.memory) = sb.size, sb.cur = Len(text), sb.cur < sb.size,
         sb.memory[sb.cur + 1] = Nul,
         \A i \in 1 .. Len(text) : sb.memory[i] = text[i]
  PROVE  WellFormed(sb) /\ str(sb) = text
  <1> DEFINE t == SubSeq(sb.memory, 1, sb.cur)
  <1>1. sb.cur \in Nat /\ \A i \in 1 .. sb.cur : sb.memory[i] \in Piece
    BY ElementOfSeq DEF Builder
  <1>2. /\ t \in Seq(Piece)
        /\ Len(t) = IF 1 <= sb.cur THEN (sb.cur - 1) + 1 ELSE 0
        /\ \A i \in 1 .. (sb.cur - 1) + 1 : t[i] = sb.memory[(1 + i) - 1]
    BY <1>1, SubSeqProperties
  <1>3. t = str(sb)
    BY DEF str
  <1> HIDE DEF t
  <1>4. Len(t) = Len(text) /\ \A i \in 1 .. Len(t) : t[i] = text[i]
    BY <1>1, <1>2
  <1>5. t = text
    BY <1>2, <1>4, SeqEqual
  <1>6. QED BY <1>3, <1>5 DEF WellFormed

\* Appending keeps the text within its memory, terminated, and adds to its end.
LEMMA AppendAdds ==
  ASSUME NEW sb \in Builder, WellFormed(sb), NEW in \in Seq(Piece)
  PROVE  /\ append(sb, in) \in Builder /\ WellFormed(append(sb, in))
         /\ str(append(sb, in)) = str(sb) \o in
  <1> DEFINE k == Len(in)
             size == Doubled(sb.size, sb.cur + k)
             g == Grown(sb, size)
             ended == Append(in, Nul)
             m == Overwritten(g.memory, sb.cur, ended)
             r == append(sb, in)
             text == str(sb) \o in
  <1>1. /\ sb.memory \in Seq(Memory) /\ Len(sb.memory) = sb.size
        /\ sb.cur \in Nat /\ sb.size \in Nat /\ sb.cur < sb.size
        /\ str(sb) \in Seq(Piece) /\ Len(str(sb)) = sb.cur
        /\ \A i \in 1 .. sb.cur : str(sb)[i] = sb.memory[i]
    BY BuilderParts
  <1>2. k \in Nat
    BY LenProperties
  <1>3. size \in Nat /\ size > sb.cur + k /\ size >= sb.size
    <2>1. sb.cur + k \in Nat /\ sb.size > 0
      BY <1>1, <1>2
    <2>2. QED BY <2>1, <1>1, DoubledIsEnough
  <1>4. in \in Seq(Memory) /\ Nul \in Memory
    BY SeqMonotonic DEF Memory
  <1>5. /\ ended \in Seq(Memory) /\ Len(ended) = k + 1
        /\ \A i \in 1 .. k : ended[i] = in[i]
        /\ ended[k + 1] = Nul
    BY <1>4, AppendProperties
  <1> HIDE DEF size, ended
  <1>6. /\ g \in Builder /\ Len(g.memory) = size /\ g.size = size /\ g.cur = sb.cur
        /\ \A i \in 1 .. sb.size : g.memory[i] = sb.memory[i]
    BY <1>3, GrownMemory
  <1>7. g.memory \in Seq(Memory)
    BY <1>6 DEF Builder, Memory
  <1>8. r = [memory |-> m, cur |-> sb.cur + k, size |-> size]
    <2>1. r = [g EXCEPT !.memory = Overwritten(@, sb.cur, ended), !.cur = @ + k]
      BY DEF append, ensure_size_left, ended, size
    <2> HIDE DEF g, k, r
    <2>2. QED BY <2>1, <1>6 DEF Builder
  <1> HIDE DEF k, g
  <1>9. /\ m \in Seq(Memory) /\ Len(m) = size
        /\ \A i \in 1 .. size : m[i] = IF i <= sb.cur THEN g.memory[i]
                                       ELSE IF i <= sb.cur + (k + 1) THEN ended[i - sb.cur] ELSE g.memory[i]
    <2>1. sb.cur + Len(ended) <= Len(g.memory)
      BY <1>1, <1>2, <1>3, <1>5, <1>6
    <2>2. /\ m \in Seq(Memory) /\ Len(m) = Len(g.memory)
          /\ \A i \in 1 .. Len(g.memory) : m[i] = IF i <= sb.cur THEN g.memory[i]
                 ELSE IF i <= sb.cur + Len(ended) THEN ended[i - sb.cur] ELSE g.memory[i]
      <3> DEFINE at == sb.cur
                 old == g.memory
      <3>1. at \in Nat /\ ended \in Seq(Memory) /\ old \in Seq(Memory) /\ at + Len(ended) <= Len(old)
        BY <2>1, <1>1, <1>5, <1>7
      <3> HIDE DEF at, old
      <3>2. /\ Overwritten(old, at, ended) \in Seq(Memory)
            /\ Len(Overwritten(old, at, ended)) = Len(old)
            /\ \A i \in 1 .. Len(old) : Overwritten(old, at, ended)[i] =
                 IF i <= at THEN old[i] ELSE IF i <= at + Len(ended) THEN ended[i - at] ELSE old[i]
        BY <3>1, OverwrittenMemory
      <3>3. QED BY <3>2 DEF at, old
    <2> HIDE DEF m
    <2>3. QED BY <2>2, <1>5, <1>6
  <1> HIDE DEF m, r
  <1>10. text \in Seq(Piece) /\ Len(text) = sb.cur + k
         /\ \A i \in 1 .. sb.cur + k : text[i] = IF i <= sb.cur THEN str(sb)[i] ELSE in[i - sb.cur]
    <2>1. str(sb) \in Seq(Piece)
      BY <1>1
    <2>2. /\ text \in Seq(Piece) /\ Len(text) = Len(str(sb)) + Len(in)
          /\ \A i \in 1 .. Len(str(sb)) + Len(in) :
               text[i] = IF i <= Len(str(sb)) THEN str(sb)[i] ELSE in[i - Len(str(sb))]
      BY <2>1, ConcatProperties, Zenon
    <2> HIDE DEF text
    <2>3. QED BY <2>2, <1>1 DEF k
  <1> HIDE DEF text
  <1>11. r \in Builder
    BY <1>1, <1>2, <1>3, <1>8, <1>9 DEF Builder, Memory
  <1>12. m[(sb.cur + k) + 1] = Nul
    <2>1. (sb.cur + k) + 1 \in 1 .. size /\ ~((sb.cur + k) + 1 <= sb.cur) /\ (sb.cur + k) + 1 <= sb.cur + (k + 1)
          /\ ((sb.cur + k) + 1) - sb.cur = k + 1
      BY <1>1, <1>2, <1>3
    <2>2. QED BY <2>1, <1>5, <1>9
  <1>13. ASSUME NEW i \in 1 .. sb.cur + k PROVE m[i] = text[i]
    <2>1. i \in 1 .. size /\ i <= sb.cur + (k + 1) /\ i \in Int
      BY <1>1, <1>2, <1>3
    <2>2. CASE i <= sb.cur
      <3>1. i \in 1 .. sb.cur /\ i \in 1 .. sb.size
        BY <1>1, <2>1, <2>2
      <3>2. m[i] = g.memory[i]
        BY <2>1, <2>2, <1>9
      <3>3. g.memory[i] = sb.memory[i]
        BY <3>1, <1>6
      <3>4. text[i] = str(sb)[i]
        BY <2>2, <1>10
      <3>5. QED BY <3>1, <3>2, <3>3, <3>4, <1>1
    <2>3. CASE ~(i <= sb.cur)
      <3>1. i - sb.cur \in 1 .. k
        BY <1>1, <1>2, <2>3
      <3>2. m[i] = ended[i - sb.cur] /\ text[i] = in[i - sb.cur]
        BY <2>1, <2>3, <1>9, <1>10
      <3>3. QED BY <3>1, <3>2, <1>5
    <2>4. QED BY <2>2, <2>3
  <1>14. WellFormed(r) /\ str(r) = text
    <2>1. r.memory = m /\ r.cur = sb.cur + k /\ r.size = size
      BY <1>8
    <2>2. QED BY <2>1, <1>3, <1>9, <1>10, <1>11, <1>12, <1>13, BuiltFrom
  <1>15. QED BY <1>11, <1>14 DEF r, text

\* Prepending keeps the text within its memory, terminated, and puts before it.
LEMMA PrependPuts ==
  ASSUME NEW sb \in Builder, WellFormed(sb), NEW in \in Seq(Piece)
  PROVE  /\ prepend(sb, in) \in Builder /\ WellFormed(prepend(sb, in))
         /\ str(prepend(sb, in)) = in \o str(sb)
  <1> DEFINE k == Len(in)
             size == Doubled(sb.size, sb.cur + k)
             g == Grown(sb, size)
             moved == SubSeq(sb.memory, 1, sb.cur + 1)
             new == in \o moved
             m == Overwritten(g.memory, 0, new)
             r == prepend(sb, in)
             text == in \o str(sb)
  <1>1. /\ sb.memory \in Seq(Memory) /\ Len(sb.memory) = sb.size
        /\ sb.cur \in Nat /\ sb.size \in Nat /\ sb.cur < sb.size
        /\ sb.memory[sb.cur + 1] = Nul
        /\ str(sb) \in Seq(Piece) /\ Len(str(sb)) = sb.cur
        /\ \A i \in 1 .. sb.cur : str(sb)[i] = sb.memory[i]
    BY BuilderParts
  <1>2. k \in Nat
    BY LenProperties
  <1>3. size \in Nat /\ size > sb.cur + k /\ size >= sb.size
    <2>1. sb.cur + k \in Nat /\ sb.size > 0
      BY <1>1, <1>2
    <2>2. QED BY <2>1, <1>1, DoubledIsEnough
  <1>4. in \in Seq(Memory)
    BY SeqMonotonic DEF Memory
  <1>5. /\ moved \in Seq(Memory) /\ Len(moved) = sb.cur + 1
        /\ \A i \in 1 .. sb.cur + 1 : moved[i] = sb.memory[i]
    <2> DEFINE e == sb.cur + 1
    <2>1. e \in Int /\ 1 <= e /\ (e - 1) + 1 = e /\ e <= sb.size
      BY <1>1
    <2>2. \A i \in 1 .. e : sb.memory[i] \in Memory
      BY <2>1, <1>1, ElementOfSeq
    <2> HIDE DEF e
    <2>3. /\ SubSeq(sb.memory, 1, e) \in Seq(Memory)
          /\ Len(SubSeq(sb.memory, 1, e)) = IF 1 <= e THEN (e - 1) + 1 ELSE 0
          /\ \A i \in 1 .. (e - 1) + 1 : SubSeq(sb.memory, 1, e)[i] = sb.memory[(1 + i) - 1]
      BY <2>1, <2>2, SubSeqProperties
    <2>4. moved = SubSeq(sb.memory, 1, e)
      BY DEF e
    <2> HIDE DEF moved
    <2>5. Len(moved) = e /\ \A i \in 1 .. e : moved[i] = sb.memory[i]
      BY <2>1, <2>3, <2>4
    <2>6. QED BY <2>3, <2>4, <2>5 DEF e
  <1> HIDE DEF size, moved
  <1>6. /\ new \in Seq(Memory) /\ Len(new) = k + (sb.cur + 1)
        /\ \A i \in 1 .. k + (sb.cur + 1) : new[i] = IF i <= k THEN in[i] ELSE moved[i - k]
    BY <1>4, <1>5, ConcatProperties
  <1> HIDE DEF new
  <1>7. /\ g \in Builder /\ Len(g.memory) = size /\ g.size = size /\ g.cur = sb.cur
    BY <1>3, GrownMemory
  <1>8. g.memory \in Seq(Memory)
    BY <1>7 DEF Builder, Memory
  <1>9. r = [memory |-> m, cur |-> sb.cur + k, size |-> size]
    <2>1. r = [g EXCEPT !.memory = Overwritten(@, 0, new), !.cur = @ + k]
      BY DEF prepend, ensure_size_left, new, size, moved
    <2> HIDE DEF g, k, r
    <2>2. QED BY <2>1, <1>7 DEF Builder
  <1> HIDE DEF k, g
  <1>10. /\ m \in Seq(Memory) /\ Len(m) = size
         /\ \A i \in 1 .. k + (sb.cur + 1) : m[i] = new[i]
    <2>1. 0 + Len(new) <= Len(g.memory) /\ 0 \in Nat
      BY <1>1, <1>2, <1>3, <1>6, <1>7
    <2>2. /\ m \in Seq(Memory) /\ Len(m) = Len(g.memory)
          /\ \A i \in 1 .. Len(g.memory) : m[i] = IF i <= 0 THEN g.memory[i]
                 ELSE IF i <= 0 + Len(new) THEN new[i - 0] ELSE g.memory[i]
      BY <2>1, <1>6, <1>8, OverwrittenMemory
    <2> HIDE DEF m
    <2>3. ASSUME NEW i \in 1 .. k + (sb.cur + 1) PROVE m[i] = new[i]
      <3>1. i \in 1 .. size /\ ~(i <= 0) /\ i <= 0 + (k + (sb.cur + 1)) /\ i - 0 = i
        BY <1>1, <1>2, <1>3
      <3>2. QED BY <3>1, <2>2, <1>6, <1>7
    <2>4. QED BY <2>2, <2>3, <1>7
  <1> HIDE DEF m, r
  <1>11. text \in Seq(Piece) /\ Len(text) = k + sb.cur
         /\ \A i \in 1 .. k + sb.cur : text[i] = IF i <= k THEN in[i] ELSE str(sb)[i - k]
    <2>1. str(sb) \in Seq(Piece)
      BY <1>1
    <2>2. /\ text \in Seq(Piece) /\ Len(text) = Len(in) + Len(str(sb))
          /\ \A i \in 1 .. Len(in) + Len(str(sb)) :
               text[i] = IF i <= Len(in) THEN in[i] ELSE str(sb)[i - Len(in)]
      BY <2>1, ConcatProperties, Zenon
    <2> HIDE DEF text
    <2>3. QED BY <2>2, <1>1 DEF k
  <1> HIDE DEF text
  <1>12. r \in Builder
    BY <1>1, <1>2, <1>3, <1>9, <1>10 DEF Builder, Memory
  <1>13. m[(sb.cur + k) + 1] = Nul
    <2>1. (sb.cur + k) + 1 \in 1 .. k + (sb.cur + 1) /\ ~((sb.cur + k) + 1 <= k)
          /\ ((sb.cur + k) + 1) - k = sb.cur + 1 /\ sb.cur + 1 \in 1 .. sb.cur + 1
      BY <1>1, <1>2
    <2>2. m[(sb.cur + k) + 1] = moved[sb.cur + 1]
      BY <2>1, <1>6, <1>10
    <2>3. QED BY <2>1, <2>2, <1>1, <1>5
  <1>14. ASSUME NEW i \in 1 .. k + sb.cur PROVE m[i] = text[i]
    <2>1. i \in 1 .. k + (sb.cur + 1) /\ i \in Int
      BY <1>1, <1>2
    <2>2. CASE i <= k
      BY <2>1, <2>2, <1>6, <1>10, <1>11
    <2>3. CASE ~(i <= k)
      <3>1. i - k \in 1 .. sb.cur /\ i - k \in 1 .. sb.cur + 1
        BY <1>1, <1>2, <2>3
      <3>2. m[i] = moved[i - k] /\ text[i] = str(sb)[i - k]
        BY <2>1, <2>3, <1>6, <1>10, <1>11
      <3>3. QED BY <3>1, <3>2, <1>1, <1>5
    <2>4. QED BY <2>2, <2>3
  <1>15. WellFormed(r) /\ str(r) = text
    <2>1. r.memory = m /\ r.cur = sb.cur + k /\ r.size = size
      BY <1>9
    <2>2. r.cur = Len(text) /\ sb.cur + k = k + sb.cur
      BY <2>1, <1>1, <1>2, <1>11
    <2>3. QED BY <2>1, <2>2, <1>3, <1>10, <1>11, <1>12, <1>13, <1>14, BuiltFrom
  <1>16. QED BY <1>12, <1>15 DEF r, text

\* Clearing leaves an empty text in the memory there is.
LEMMA ClearEmpties ==
  ASSUME NEW sb \in Builder, WellFormed(sb)
  PROVE  clear(sb) \in Builder /\ WellFormed(clear(sb)) /\ str(clear(sb)) = <<>>
  <1> DEFINE m == [sb.memory EXCEPT ![1] = Nul]
             r == clear(sb)
  <1>1. sb.memory \in Seq(Memory) /\ Len(sb.memory) = sb.size /\ sb.size \in Nat /\ sb.size > 0
    BY BuilderParts
  <1>2. m \in Seq(Memory) /\ Len(m) = sb.size /\ m[1] = Nul
    <2>1. 1 \in 1 .. Len(sb.memory) /\ Nul \in Memory
      BY <1>1 DEF Memory
    <2>2. QED BY <2>1, <1>1, ExceptSeq
  <1>3. r = [memory |-> m, cur |-> 0, size |-> sb.size]
    <2>1. r = [sb EXCEPT !.memory = [@ EXCEPT ![1] = Nul], !.cur = 0]
      BY DEF clear
    <2>2. r = [sb EXCEPT !.memory = m, !.cur = 0]
      BY <2>1
    <2> HIDE DEF m, r
    <2>3. QED BY <2>2 DEF Builder
  <1> HIDE DEF m, r
  <1>4. r \in Builder
    BY <1>1, <1>2, <1>3 DEF Builder, Memory
  <1>5. <<>> \in Seq(Piece) /\ Len(<<>>) = 0
    BY EmptySeq
  <1>6. r.memory = m /\ r.cur = 0 /\ r.size = sb.size /\ r.cur < r.size /\ r.memory[r.cur + 1] = Nul
    BY <1>1, <1>2, <1>3
  <1>7. WellFormed(r) /\ str(r) = <<>>
    <2> DEFINE empty == <<>>
    <2>1. empty \in Seq(Piece) /\ Len(empty) = 0
      BY <1>5
    <2>2. \A i \in 1 .. Len(empty) : r.memory[i] = empty[i]
      BY <2>1
    <2> HIDE DEF empty
    <2>3. Len(r.memory) = r.size /\ r.cur = Len(empty)
      BY <2>1, <1>2, <1>6
    <2>4. WellFormed(r) /\ str(r) = empty
      BY <2>1, <2>2, <2>3, <1>4, <1>6, BuiltFrom
    <2>5. QED BY <2>4 DEF empty
  <1>8. QED BY <1>4, <1>7 DEF r

-----------------------------------------------------------------------------
\* A message with the lines it has so far.
Message == [by : Thread, message : 1 .. MaxMessages, lines : 0 .. MaxLines]
\* A line of it, and what the layout of several lines has at a place.
LineOf(m, i) == [by |-> m.by, message |-> m.message, line |-> i]
Cell(m, j) == IF j % 3 = 1 THEN Prefix ELSE IF j % 3 = 2 THEN LineOf(m, (j + 1) \div 3) ELSE Newline

\* The two forms of the layout.
LEMMA LayoutForm ==
  ASSUME NEW m \in Message
  PROVE  /\ m.lines = 1 => Layout(m) = <<LineOf(m, 1), Newline>>
         /\ m.lines # 1 => Layout(m) = [j \in 1 .. 3 * m.lines |-> Cell(m, j)]
  BY DEF Layout, Cell, LineOf

\* The layout consists of lines, prefixes and newlines.
LEMMA CellIsPiece ==
  ASSUME NEW m \in Message, NEW j \in 1 .. 3 * m.lines
  PROVE  Cell(m, j) \in Piece
  <1>1. m.by \in Thread /\ m.message \in 1 .. MaxMessages /\ m.lines \in Nat /\ m.lines <= MaxLines
    BY LogAssumption DEF Message
  <1>2. CASE j % 3 = 2
    <2>1. (j + 1) \div 3 \in 1 .. MaxLines
      BY <1>1, <1>2, LogAssumption
    <2>2. LineOf(m, (j + 1) \div 3) \in Line
      BY <1>1, <2>1 DEF LineOf, Line
    <2>3. QED BY <1>2, <2>2 DEF Cell, Piece
  <1>3. CASE j % 3 # 2
    BY <1>3 DEF Cell, Piece
  <1>4. QED BY <1>2, <1>3

\* The length of the layout and what it has at every place.
LEMMA LayoutProperties ==
  ASSUME NEW m \in Message
  PROVE  /\ Layout(m) \in Seq(Piece)
         /\ m.lines = 1 => Len(Layout(m)) = 2 /\ Layout(m)[1] = LineOf(m, 1) /\ Layout(m)[2] = Newline
         /\ m.lines # 1 => /\ Len(Layout(m)) = 3 * m.lines
                           /\ \A j \in 1 .. 3 * m.lines : Layout(m)[j] = Cell(m, j)
  <1>1. m.by \in Thread /\ m.message \in 1 .. MaxMessages /\ m.lines \in Nat /\ m.lines <= MaxLines
    BY LogAssumption DEF Message
  <1>2. CASE m.lines = 1
    <2>1. LineOf(m, 1) \in Piece /\ Newline \in Piece
      BY <1>1, <1>2, LogAssumption DEF LineOf, Line, Piece
    <2>2. Layout(m) = <<LineOf(m, 1), Newline>>
      BY <1>2, LayoutForm
    <2>3. QED BY <1>2, <2>1, <2>2
  <1>3. CASE m.lines # 1
    <2> DEFINE n == 3 * m.lines
               f == [j \in 1 .. n |-> Cell(m, j)]
    <2>1. n \in Nat
      BY <1>1
    <2>2. \A j \in 1 .. n : Cell(m, j) \in Piece
      BY CellIsPiece
    <2> HIDE DEF n
    <2>3. f \in [1 .. n -> Piece]
      BY <2>2
    <2>4. f \in Seq(Piece) /\ Len(f) = n
      BY <2>1, <2>3
    <2>5. \A j \in 1 .. n : f[j] = Cell(m, j)
      OBVIOUS
    <2>6. Layout(m) = f
      BY <1>3, LayoutForm DEF n
    <2> HIDE DEF f
    <2>7. QED BY <1>3, <2>4, <2>5, <2>6 DEF n
  <1>4. QED BY <1>2, <1>3

\* Only a message without lines has an empty layout.
LEMMA LayoutIsEmpty ==
  ASSUME NEW m \in Message
  PROVE  (Len(Layout(m)) = 0 <=> m.lines = 0) /\ (m.lines = 0 => Layout(m) = <<>>)
  <1>1. m.lines \in Nat
    BY LogAssumption DEF Message
  <1>2. Len(Layout(m)) = 0 <=> m.lines = 0
    BY <1>1, LayoutProperties
  <1>3. QED BY <1>2, LayoutProperties, EmptySeq

\* No two messages look the same.
LEMMA LayoutTellsApart ==
  ASSUME NEW m \in Message, NEW o \in Message, m.lines > 0, o.lines > 0, Layout(m) = Layout(o)
  PROVE  m.by = o.by /\ m.message = o.message
  <1>1. m.lines \in Nat /\ o.lines \in Nat
    BY LogAssumption DEF Message
  <1>2. ASSUME NEW x \in Message, x.lines > 0, x.lines # 1, x.lines \in Nat
        PROVE  Layout(x)[1] = Prefix /\ Layout(x)[2] = LineOf(x, 1)
    <2>1. 1 \in 1 .. 3 * x.lines /\ 2 \in 1 .. 3 * x.lines
      BY <1>2
    <2>2. Layout(x)[1] = Cell(x, 1) /\ Layout(x)[2] = Cell(x, 2)
      BY <2>1, <1>2, LayoutProperties
    <2>3. 1 % 3 = 1 /\ 2 % 3 = 2 /\ (2 + 1) \div 3 = 1
      OBVIOUS
    <2>4. QED BY <2>2, <2>3 DEF Cell
  <1>3. ASSUME NEW x \in Message, x.lines = 1
        PROVE  Layout(x)[1] = LineOf(x, 1) /\ LineOf(x, 1) # Prefix
    <2>1. LineOf(x, 1) \in Line
      BY <1>3, LogAssumption DEF LineOf, Line, Message
    <2>2. QED BY <2>1, <1>3, LayoutProperties, LogAssumption
  <1>4. LineOf(m, 1) = LineOf(o, 1)
    <2>1. m.lines = 1 <=> o.lines = 1
      BY <1>1, <1>2, <1>3
    <2>2. QED BY <1>1, <1>2, <1>3, <2>1
  <1>5. QED BY <1>4 DEF LineOf

\* The message with one line more.
More(m) == [m EXCEPT !.lines = @ + 1]

\* debug__vwriteln takes the layout of some lines to that of one line more.
LEMMA WriteExtends ==
  ASSUME NEW m \in Message, m.lines < MaxLines,
         NEW sb \in Builder, WellFormed(sb), str(sb) = Layout(m)
  PROVE  LET written_on == vwriteln(sb, m.lines, LineOf(m, m.lines + 1))
         IN  written_on \in Builder /\ WellFormed(written_on) /\ str(written_on) = Layout(More(m))
  <1> DEFINE n == m.lines
             o == More(m)
             line == LineOf(m, n + 1)
             r == vwriteln(sb, n, line)
             three == <<Prefix, line, Newline>>
  <1>1. n \in Nat /\ m.by \in Thread /\ m.message \in 1 .. MaxMessages
    BY LogAssumption DEF Message
  <1>2. o \in Message /\ o.lines = n + 1 /\ o.by = m.by /\ o.message = m.message
    BY LogAssumption DEF Message, More
  <1>3. \A i : LineOf(o, i) = LineOf(m, i)
    BY <1>2 DEF LineOf
  <1>4. \A j : Cell(o, j) = Cell(m, j)
    BY <1>3 DEF Cell
  <1>5. line \in Line /\ line \in Piece /\ Prefix \in Piece /\ Newline \in Piece
    BY <1>1, LogAssumption DEF Line, LineOf, Piece
  <1> HIDE DEF line, o
  <1>6. three \in Seq(Piece) /\ Len(three) = 3 /\ three[1] = Prefix /\ three[2] = line /\ three[3] = Newline
    BY <1>5
  <1>7. CASE n = 0
    <2> DEFINE in == <<line, Newline>>
    <2>1. in \in Seq(Piece)
      BY <1>5
    <2>2. str(sb) = <<>>
      BY <1>7, LayoutIsEmpty
    <2>3. r = append(sb, in)
      BY <1>7 DEF vwriteln
    <2>4. Layout(o) = in
      BY <1>2, <1>3, <1>7, LayoutForm DEF line
    <2> HIDE DEF in, r
    <2>5. r \in Builder /\ WellFormed(r) /\ str(r) = str(sb) \o in
      BY <2>1, <2>3, AppendAdds
    <2>6. str(r) = in
      BY <2>1, <2>2, <2>5, ConcatEmptySeq
    <2>7. QED BY <2>4, <2>5, <2>6 DEF r, line, o
  <1>8. CASE n = 1
    <2> DEFINE q == prepend(sb, <<Prefix>>)
               first == LineOf(m, 1)
    <2>1. <<Prefix>> \in Seq(Piece)
      BY <1>5
    <2>2. str(sb) = <<first, Newline>> /\ first \in Piece
      BY <1>1, <1>8, LayoutForm, LogAssumption DEF Line, LineOf, Piece
    <2>3. q \in Builder /\ WellFormed(q) /\ str(q) = <<Prefix>> \o <<first, Newline>>
      BY <2>1, <2>2, PrependPuts
    <2>4. r = append(q, three)
      BY <1>8 DEF vwriteln
    <2> HIDE DEF q, r, first, three
    <2>5. r \in Builder /\ WellFormed(r) /\ str(r) = (<<Prefix>> \o <<first, Newline>>) \o three
      BY <1>6, <2>3, <2>4, AppendAdds
    <2> DEFINE head == <<Prefix>>
               body == <<first, Newline>>
               both == head \o body
               all == both \o three
    <2>6. /\ head \in Seq(Piece) /\ Len(head) = 1 /\ head[1] = Prefix
          /\ body \in Seq(Piece) /\ Len(body) = 2 /\ body[1] = first /\ body[2] = Newline
      BY <1>5, <2>2
    <2> HIDE DEF head, body
    <2>7. /\ both \in Seq(Piece) /\ Len(both) = 3
          /\ both[1] = Prefix /\ both[2] = first /\ both[3] = Newline
      <3>1. /\ both \in Seq(Piece) /\ Len(both) = Len(head) + Len(body)
            /\ \A i \in 1 .. Len(head) + Len(body) :
                 both[i] = IF i <= Len(head) THEN head[i] ELSE body[i - Len(head)]
        BY <2>6, ConcatProperties
      <3> HIDE DEF both
      <3>2. QED BY <3>1, <2>6
    <2> HIDE DEF both
    <2>8. /\ all \in Seq(Piece) /\ Len(all) = 6
          /\ all[1] = Prefix /\ all[2] = first /\ all[3] = Newline
          /\ all[4] = Prefix /\ all[5] = line /\ all[6] = Newline
      <3>1. /\ all \in Seq(Piece) /\ Len(all) = Len(both) + Len(three)
            /\ \A i \in 1 .. Len(both) + Len(three) :
                 all[i] = IF i <= Len(both) THEN both[i] ELSE three[i - Len(both)]
        BY <1>6, <2>7, ConcatProperties
      <3> HIDE DEF all
      <3>2. QED BY <3>1, <1>6, <2>7
    <2> HIDE DEF all
    <2>9. Layout(o) = all
      <3>1. o.lines # 1 /\ 3 * o.lines = 6
        BY <1>2, <1>8
      <3>2. Layout(o) \in Seq(Piece) /\ Len(Layout(o)) = 6 /\ \A j \in 1 .. 6 : Layout(o)[j] = Cell(m, j)
        BY <3>1, <1>2, <1>4, LayoutProperties
      <3>3. /\ Cell(m, 1) = Prefix /\ Cell(m, 2) = first /\ Cell(m, 3) = Newline
            /\ Cell(m, 4) = Prefix /\ Cell(m, 5) = line /\ Cell(m, 6) = Newline
        BY <1>8 DEF Cell, first, line
      <3>4. \A j \in 1 .. 6 : all[j] = Cell(m, j)
        BY <3>3, <2>8
      <3>5. QED BY <3>2, <3>4, <2>8, SeqEqual
    <2>10. str(r) = all
      BY <2>5 DEF all, both, head, body
    <2>11. QED BY <2>5, <2>9, <2>10 DEF r, line, o
  <1>9. CASE n > 1
    <2>1. r = append(sb, three)
      BY <1>1, <1>9 DEF vwriteln
    <2> DEFINE old == Layout(m)
               new == Layout(o)
    <2>2. old \in Seq(Piece) /\ Len(old) = 3 * n /\ \A j \in 1 .. 3 * n : old[j] = Cell(m, j)
      BY <1>9, LayoutProperties
    <2>3. new \in Seq(Piece) /\ Len(new) = 3 * n + 3 /\ \A j \in 1 .. 3 * n + 3 : new[j] = Cell(m, j)
      <3>1. o.lines # 1 /\ 3 * o.lines = 3 * n + 3
        BY <1>1, <1>2, <1>9
      <3>2. QED BY <3>1, <1>2, <1>4, LayoutProperties
    <2> HIDE DEF r, three, old, new, n
    <2>4. /\ old \o three \in Seq(Piece) /\ Len(old \o three) = 3 * n + 3
          /\ \A j \in 1 .. 3 * n + 3 : (old \o three)[j] = IF j <= 3 * n THEN old[j] ELSE three[j - 3 * n]
      <3>1. /\ old \o three \in Seq(Piece) /\ Len(old \o three) = Len(old) + Len(three)
            /\ \A j \in 1 .. Len(old) + Len(three) :
                 (old \o three)[j] = IF j <= Len(old) THEN old[j] ELSE three[j - Len(old)]
        BY <2>2, <1>6, ConcatProperties
      <3>2. QED BY <3>1, <2>2, <1>6
    <2>5. ASSUME NEW j \in 1 .. 3 * n + 3 PROVE (old \o three)[j] = Cell(m, j)
      <3>1. CASE j <= 3 * n
        <4>1. j \in 1 .. 3 * n
          BY <3>1, <1>1
        <4>2. QED BY <4>1, <3>1, <2>2, <2>4
      <3>2. CASE ~(j <= 3 * n)
        <4>1. (old \o three)[j] = three[j - 3 * n]
          BY <3>2, <2>4
        <4>2. j = 3 * n + 1 \/ j = 3 * n + 2 \/ j = 3 * n + 3
          BY <3>2, <1>1
        <4>3. CASE j = 3 * n + 1
          <5>1. j % 3 = 1 /\ j - 3 * n = 1
            BY <4>3, <1>1
          <5>2. QED BY <5>1, <4>1, <1>6 DEF Cell
        <4>4. CASE j = 3 * n + 2
          <5>1. j % 3 = 2 /\ j - 3 * n = 2 /\ (j + 1) \div 3 = n + 1
            BY <4>4, <1>1
          <5>2. QED BY <5>1, <4>1, <1>6 DEF Cell, line
        <4>5. CASE j = 3 * n + 3
          <5>1. j % 3 = 0 /\ j - 3 * n = 3
            BY <4>5, <1>1
          <5>2. QED BY <5>1, <4>1, <1>6 DEF Cell
        <4>6. QED BY <4>2, <4>3, <4>4, <4>5
      <3>3. QED BY <3>1, <3>2
    <2>6. old \o three = new
      <3>1. \A j \in 1 .. Len(new) : (old \o three)[j] = new[j]
        BY <2>3, <2>5
      <3>2. QED BY <3>1, <2>3, <2>4, SeqEqual
    <2>7. r \in Builder /\ WellFormed(r) /\ str(r) = old \o three
      BY <1>6, <2>1, AppendAdds DEF old
    <2>8. QED BY <2>6, <2>7 DEF r, line, new, o, n
  <1>10. QED BY <1>1, <1>7, <1>8, <1>9

-----------------------------------------------------------------------------
\* The message a thread is at, as far as it is written when n lines of it are.
Upto(t, n) == [by |-> t, message |-> message[t], lines |-> n]

\* Only the owner is past the lock, and it is not done: the lock is not recursive.
Exclusive ==
  \A t \in Thread : /\ pc[t] \notin {"idle", "lock"} => owner = t
                    /\ pc[t] = "idle" => owner # t

\* The text is what its owner has written so far, and nobody's when the lock is free.
Fresh == number_of_lines = 0 /\ str(str_builder) = <<>>

TextIsOwners ==
  /\ owner = NoThread => Fresh
  /\ \A t \in Thread :
       /\ owner = t /\ pc[t] = "unlock" => Fresh
       /\ owner = t /\ pc[t] # "unlock" =>
            number_of_lines = written[t] /\ str(str_builder) = Layout(Upto(t, written[t]))

\* Where a thread is in its message.
Progress ==
  \A t \in Thread :
    /\ pc[t] # "idle" => message[t] > 0
    /\ message[t] > 0 => Upto(t, lines[t]) \in begun
    /\ pc[t] = "lock" /\ owner # t => written[t] = 0
    /\ pc[t] = "check" => written[t] = 0
    /\ pc[t] = "write" => written[t] <= lines[t]
    /\ pc[t] \in {"file", "terminal"} => written[t] = lines[t]

\* What a stream holds is of messages begun, each whole, and of a thread's
\* current message only if the thread is past that stream.
Past(stream, bg, msg, p, before) ==
  \A i \in DOMAIN stream : \E m \in bg :
    /\ stream[i] = Layout(m) /\ m.lines > 0
    /\ msg[m.by] > m.message \/ (msg[m.by] = m.message /\ p[m.by] \notin before)

\* No text twice.
Once(stream) == \A i, j \in DOMAIN stream : stream[i] = stream[j] => i = j

BeforeFile == {"lock", "check", "write", "file"}
BeforeTerminal == BeforeFile \cup {"terminal"}

\* Both streams.
Streams ==
  /\ Past(error_file, begun, message, pc, BeforeFile) /\ Once(error_file)
  /\ Past(terminal, begun, message, pc, BeforeTerminal) /\ Once(terminal)

\* The message is in the stream.
Holds(stream, m) == \E i \in DOMAIN stream : stream[i] = Layout(m)

\* What was printed of a message, by where its thread is.
Delivered ==
  \A t \in Thread : message[t] > 0 /\ lines[t] > 0 =>
    /\ pc[t] = "terminal" => Holds(error_file, Upto(t, lines[t]))
    /\ pc[t] \in {"clear", "unlock", "idle"} /\ ~missed[t] =>
         Holds(error_file, Upto(t, lines[t])) /\ Holds(terminal, Upto(t, lines[t]))

\* The inductive invariant.
LogInv ==
  /\ TypeOK /\ begun \subseteq Message
  /\ Exclusive /\ TextIsOwners /\ Progress /\ Streams /\ Delivered

\* What is said of a stream survives if no thread gets before it without a new message.
LEMMA PastKept ==
  ASSUME NEW stream, NEW bg, NEW bg2, NEW msg \in [Thread -> Nat], NEW msg2 \in [Thread -> Nat],
         NEW p, NEW p2, NEW before,
         bg \subseteq bg2, bg \subseteq Message,
         Past(stream, bg, msg, p, before),
         \A b \in Thread : \/ msg2[b] > msg[b]
                           \/ msg2[b] = msg[b] /\ (p[b] \notin before => p2[b] \notin before)
  PROVE  Past(stream, bg2, msg2, p2, before)
  <1> SUFFICES ASSUME NEW i \in DOMAIN stream
               PROVE  \E m \in bg2 : /\ stream[i] = Layout(m) /\ m.lines > 0
                                     /\ msg2[m.by] > m.message \/ (msg2[m.by] = m.message /\ p2[m.by] \notin before)
    BY DEF Past
  <1>1. PICK m \in bg : /\ stream[i] = Layout(m) /\ m.lines > 0
                        /\ msg[m.by] > m.message \/ (msg[m.by] = m.message /\ p[m.by] \notin before)
    BY DEF Past
  <1>2. m \in bg2 /\ m.by \in Thread /\ m.message \in Nat
    BY LogAssumption DEF Message
  <1>3. msg[m.by] \in Nat /\ msg2[m.by] \in Nat
    BY <1>2
  <1>4. msg2[m.by] > m.message \/ (msg2[m.by] = m.message /\ p2[m.by] \notin before)
    BY <1>1, <1>2, <1>3
  <1>5. QED BY <1>1, <1>2, <1>4

\* Printing a thread's current message adds a text the stream does not hold yet.
LEMMA PastPrinted ==
  ASSUME NEW stream \in Seq(Seq(Piece)), NEW bg, NEW msg, NEW p, NEW p2, NEW before,
         bg \subseteq Message, Past(stream, bg, msg, p, before), Once(stream),
         NEW m \in bg, m.lines > 0, msg[m.by] = m.message,
         p[m.by] \in before, p2[m.by] \notin before,
         \A b \in Thread : b # m.by => p2[b] = p[b]
  PROVE  LET printed == Append(stream, Layout(m))
         IN  /\ printed \in Seq(Seq(Piece))
             /\ Past(printed, bg, msg, p2, before) /\ Once(printed)
             /\ Holds(printed, m) /\ \A o : Holds(stream, o) => Holds(printed, o)
  <1> DEFINE n == Len(stream)
             printed == Append(stream, Layout(m))
  <1>1. m \in Message /\ Layout(m) \in Seq(Piece)
    BY LayoutProperties
  <1>2. n \in Nat /\ DOMAIN stream = 1 .. n
    BY LenProperties
  <1>3. /\ printed \in Seq(Seq(Piece)) /\ Len(printed) = n + 1
        /\ \A i \in 1 .. n : printed[i] = stream[i]
        /\ printed[n + 1] = Layout(m)
    BY <1>1, AppendProperties
  <1> HIDE DEF n, printed
  <1>4. DOMAIN printed = 1 .. n + 1
    BY <1>3, LenProperties
  <1>5. DOMAIN printed = DOMAIN stream \cup {n + 1} /\ n + 1 \notin DOMAIN stream
    BY <1>2, <1>4
  <1>6. ASSUME NEW i \in DOMAIN stream
        PROVE  \E o \in bg : /\ stream[i] = Layout(o) /\ o.lines > 0
                             /\ msg[o.by] > o.message \/ (msg[o.by] = o.message /\ p2[o.by] \notin before)
                             /\ Layout(o) # Layout(m)
    <2>1. PICK o \in bg : /\ stream[i] = Layout(o) /\ o.lines > 0
                          /\ msg[o.by] > o.message \/ (msg[o.by] = o.message /\ p[o.by] \notin before)
      BY DEF Past
    <2>2. o \in Message /\ o.by \in Thread /\ o.message \in Nat
      BY LogAssumption DEF Message
    <2>3. CASE o.by = m.by
      <3>1. msg[o.by] = m.message /\ msg[o.by] > o.message
        BY <2>1, <2>3
      <3>2. o.message # m.message
        BY <2>2, <3>1
      <3>3. Layout(o) # Layout(m)
        BY <1>1, <2>1, <2>2, <3>2, LayoutTellsApart
      <3>4. QED BY <2>1, <3>1, <3>3
    <2>4. CASE o.by # m.by
      <3>1. Layout(o) # Layout(m)
        BY <1>1, <2>1, <2>2, <2>4, LayoutTellsApart
      <3>2. p2[o.by] = p[o.by]
        BY <2>2, <2>4
      <3>3. QED BY <2>1, <3>1, <3>2
    <2>5. QED BY <2>3, <2>4
  <1>7. Past(printed, bg, msg, p2, before)
    <2> SUFFICES ASSUME NEW i \in DOMAIN printed
                 PROVE  \E o \in bg : /\ printed[i] = Layout(o) /\ o.lines > 0
                                      /\ msg[o.by] > o.message \/ (msg[o.by] = o.message /\ p2[o.by] \notin before)
      BY DEF Past
    <2>1. CASE i \in DOMAIN stream
      <3>1. printed[i] = stream[i]
        BY <2>1, <1>2, <1>3
      <3>2. QED BY <2>1, <3>1, <1>6
    <2>2. CASE i = n + 1
      BY <2>2, <1>3
    <2>3. QED BY <2>1, <2>2, <1>5
  <1>8. Once(printed)
    <2> SUFFICES ASSUME NEW i \in DOMAIN printed, NEW j \in DOMAIN printed, printed[i] = printed[j]
                 PROVE  i = j
      BY DEF Once
    <2>1. \A k \in DOMAIN stream : printed[k] = stream[k] /\ printed[k] # printed[n + 1]
      BY <1>2, <1>3, <1>6
    <2>2. CASE i \in DOMAIN stream /\ j \in DOMAIN stream
      BY <2>1, <2>2 DEF Once
    <2>3. CASE i = n + 1 \/ j = n + 1
      BY <2>1, <2>3, <1>5
    <2>4. QED BY <2>2, <2>3, <1>5
  <1>9. Holds(printed, m) /\ \A o : Holds(stream, o) => Holds(printed, o)
    BY <1>2, <1>3, <1>5 DEF Holds
  <1>10. QED BY <1>3, <1>7, <1>8, <1>9 DEF printed

-----------------------------------------------------------------------------
\* Types of a thread's variables.
LEMMA InvTypes ==
  ASSUME LogInv, NEW t \in Thread
  PROVE  /\ message[t] \in Nat /\ lines[t] \in Nat /\ written[t] \in Nat
         /\ number_of_lines \in Nat /\ message \in [Thread -> Nat]
         /\ message[t] > 0 => Upto(t, written[t]) \in Message /\ Upto(t, lines[t]) \in Message
  <1>1. /\ MaxMessages \in Nat /\ MaxLines \in Nat
        /\ number_of_lines \in 0 .. MaxLines /\ message \in [Thread -> 0 .. MaxMessages]
        /\ lines \in [Thread -> 0 .. MaxLines] /\ written \in [Thread -> 0 .. MaxLines]
    BY LogAssumption DEF LogInv, TypeOK
  <1>2. message[t] \in 0 .. MaxMessages /\ lines[t] \in 0 .. MaxLines /\ written[t] \in 0 .. MaxLines
    BY <1>1
  <1>3. \A b \in Thread : message[b] \in Nat
    BY <1>1
  <1>4. message \in [Thread -> Nat]
    BY <1>1, <1>3
  <1>5. ASSUME message[t] > 0, NEW n \in 0 .. MaxLines PROVE Upto(t, n) \in Message
    <2>1. message[t] \in 1 .. MaxMessages
      BY <1>1, <1>2, <1>5
    <2>2. QED BY <2>1, <1>5 DEF Upto, Message
  <1>6. QED BY <1>1, <1>2, <1>4, <1>5

\* The invariant holds before anybody has logged.
LEMMA LogInit == Init => LogInv
  <1> SUFFICES ASSUME Init PROVE LogInv
    OBVIOUS
  <1>1. create \in Builder /\ WellFormed(create) /\ str(create) = <<>>
    <2> DEFINE empty == <<>>
    <2>1. empty \in Seq(Piece) /\ Len(empty) = 0
      BY EmptySeq
    <2>2. create \in Builder
      BY DEF create, Builder
    <2>3. /\ Len(create.memory) = create.size /\ create.cur = 0 /\ create.cur < create.size
          /\ create.memory[create.cur + 1] = Nul
      BY DEF create
    <2>4. \A i \in 1 .. Len(empty) : create.memory[i] = empty[i]
      BY <2>1
    <2> HIDE DEF empty
    <2>5. WellFormed(create) /\ str(create) = empty
      BY <2>1, <2>2, <2>3, <2>4, BuiltFrom
    <2>6. QED BY <2>2, <2>5 DEF empty
  <1>2. TypeOK
    <2>1. error_file \in Seq(Seq(Piece)) /\ terminal \in Seq(Seq(Piece))
      BY EmptySeq DEF Init
    <2>2. /\ owner \in Thread \cup {NoThread}
          /\ str_builder \in Builder /\ WellFormed(str_builder)
          /\ available \in BOOLEAN /\ glfw_failed \in BOOLEAN
      BY <1>1 DEF Init
    <2>3. 0 \in 0 .. MaxLines /\ 0 \in 0 .. MaxMessages /\ 0 \in 0 .. MaxToggles
      BY LogAssumption
    <2>4. /\ number_of_lines \in 0 .. MaxLines /\ toggles \in 0 .. MaxToggles
          /\ message \in [Thread -> 0 .. MaxMessages]
          /\ lines \in [Thread -> 0 .. MaxLines] /\ written \in [Thread -> 0 .. MaxLines]
      BY <2>3 DEF Init
    <2>5. /\ pc \in [Thread -> {"idle", "lock", "check", "write", "file", "terminal", "clear", "unlock"}]
          /\ kind \in [Thread -> {"block", "at once"}]
          /\ missed \in [Thread -> BOOLEAN]
      BY DEF Init
    <2>6. QED BY <2>1, <2>2, <2>4, <2>5 DEF TypeOK
  <1>3. begun \subseteq Message /\ Exclusive /\ Progress /\ Delivered
    BY LogAssumption DEF Init, Exclusive, Progress, Delivered
  <1>4. TextIsOwners
    BY <1>1, LogAssumption DEF Init, TextIsOwners, Fresh
  <1>5. Streams
    BY DEF Init, Streams, Past, Once
  <1>6. QED BY <1>2, <1>3, <1>4, <1>5 DEF LogInv
\* A step that prints nothing keeps what is said of the streams, unless it takes
\* a thread back before them.
LEMMA StreamsKept ==
  ASSUME LogInv, UNCHANGED <<error_file, terminal>>, begun \subseteq begun',
         message' \in [Thread -> Nat],
         \A b \in Thread :
           \/ message'[b] > message[b]
           \/ /\ message'[b] = message[b]
              /\ pc[b] \notin BeforeFile => pc'[b] \notin BeforeFile
              /\ pc[b] \notin BeforeTerminal => pc'[b] \notin BeforeTerminal
  PROVE  Streams'
  <1>1. message \in [Thread -> Nat]
    <2>1. MaxMessages \in Nat /\ message \in [Thread -> 0 .. MaxMessages]
      BY LogAssumption DEF LogInv, TypeOK
    <2>2. \A b \in Thread : message[b] \in Nat
      BY <2>1
    <2>3. QED BY <2>1, <2>2
  <1>2. begun \subseteq Message
    BY DEF LogInv
  <1>3. /\ Past(error_file, begun, message, pc, BeforeFile) /\ Once(error_file)
        /\ Past(terminal, begun, message, pc, BeforeTerminal) /\ Once(terminal)
    BY DEF LogInv, Streams
  <1>4. Past(error_file, begun', message', pc', BeforeFile)
    BY <1>1, <1>2, <1>3, PastKept
  <1>5. Past(terminal, begun', message', pc', BeforeTerminal)
    BY <1>1, <1>2, <1>3, PastKept
  <1>6. Past(error_file, begun, message, pc, BeforeFile)' /\ Past(terminal, begun, message, pc, BeforeTerminal)'
    BY <1>4, <1>5 DEF Past, BeforeFile, BeforeTerminal
  <1>7. Once(error_file)' /\ Once(terminal)'
    BY <1>3 DEF Once
  <1>8. QED BY <1>6, <1>7 DEF Streams

\* A new message makes all that was printed of the thread past.
LEMMA BeginStep ==
  ASSUME LogInv, NEW t \in Thread, Begin(t), UNCHANGED glfw_failed
  PROVE  LogInv'
  <1>2. /\ pc[t] = "idle" /\ message[t] < MaxMessages
        /\ message' = [message EXCEPT ![t] = @ + 1]
        /\ written' = [written EXCEPT ![t] = 0]
        /\ missed' = [missed EXCEPT ![t] = FALSE]
        /\ pc' = [pc EXCEPT ![t] = "lock"]
        /\ UNCHANGED <<owner, str_builder, number_of_lines, available, error_file, terminal, toggles, glfw_failed>>
    BY DEF Begin, At, Goto, shared
  <1>3. MaxLines \in Nat /\ MaxMessages \in Nat
    BY LogAssumption
  <1>c. /\ message[t] + 1 \in 1 .. MaxMessages /\ message[t] + 1 > message[t]
        /\ message[t] + 1 \in Nat /\ message[t] + 1 > 0 /\ message[t] + 1 \in 0 .. MaxMessages
    <2> DEFINE k == message[t]
    <2>1. k \in Nat /\ k < MaxMessages
      BY <1>2, InvTypes
    <2> HIDE DEF k
    <2>2. k + 1 \in 1 .. MaxMessages /\ k + 1 > k /\ k + 1 \in Nat /\ k + 1 > 0 /\ k + 1 \in 0 .. MaxMessages
      BY <2>1, <1>3
    <2>3. QED BY <2>2 DEF k
  <1>z. 0 \in 0 .. MaxLines
    BY <1>3
  <1>m. message \in [Thread -> 0 .. MaxMessages] /\ DOMAIN message = Thread
    BY DEF LogInv, TypeOK
  <1>n. message'[t] = message[t] + 1
    BY <1>2, <1>m
  <1>1. PICK k \in {"block", "at once"}, n \in 0 .. MaxLines :
          /\ kind' = [kind EXCEPT ![t] = k]
          /\ lines' = [lines EXCEPT ![t] = n]
          /\ begun' = begun \cup {[by |-> t, message |-> message[t] + 1, lines |-> n]}
    BY DEF Begin
  <1>4. TypeOK'
    <2>1. message' \in [Thread -> 0 .. MaxMessages]
      BY <1>c, <1>2, <1>m
    <2>2. /\ lines' \in [Thread -> 0 .. MaxLines]
          /\ kind' \in [Thread -> {"block", "at once"}]
          /\ missed' \in [Thread -> BOOLEAN]
          /\ pc' \in [Thread -> {"idle", "lock", "check", "write", "file", "terminal", "clear", "unlock"}]
      BY <1>1, <1>2 DEF LogInv, TypeOK
    <2>z. written' \in [Thread -> 0 .. MaxLines]
      BY <1>z, <1>2 DEF LogInv, TypeOK
    <2>3. QED BY <2>1, <2>2, <2>z, <1>2 DEF LogInv, TypeOK
  <1>5. begun' \subseteq Message
    <2>1. [by |-> t, message |-> message[t] + 1, lines |-> n] \in Message
      BY <1>c DEF Message
    <2>2. QED BY <2>1, <1>1 DEF LogInv
  <1>6. Exclusive'
    BY <1>2 DEF LogInv, TypeOK, Exclusive
  <1>7. owner # t
    BY <1>2 DEF LogInv, Exclusive
  <1>8. TextIsOwners'
    BY <1>2, <1>7 DEF LogInv, TypeOK, TextIsOwners, Fresh, Upto
  <1>9. Progress'
    <2> SUFFICES ASSUME NEW b \in Thread
                 PROVE  /\ pc'[b] # "idle" => message'[b] > 0
                        /\ message'[b] > 0 => [by |-> b, message |-> message'[b], lines |-> lines'[b]] \in begun'
                        /\ pc'[b] = "lock" /\ owner' # b => written'[b] = 0
                        /\ pc'[b] = "check" => written'[b] = 0
                        /\ pc'[b] = "write" => written'[b] <= lines'[b]
                        /\ pc'[b] \in {"file", "terminal"} => written'[b] = lines'[b]
      BY DEF Progress, Upto
    <2>1. CASE b = t
      <3>1. /\ pc'[t] = "lock" /\ written'[t] = 0 /\ lines'[t] = n /\ message'[t] = message[t] + 1
        BY <1>1, <1>2, <1>n DEF LogInv, TypeOK
      <3>2. message[t] + 1 > 0
        BY <1>c
      <3>3. QED BY <2>1, <3>1, <3>2, <1>1
    <2>2. CASE b # t
      <3>1. pc'[b] = pc[b] /\ written'[b] = written[b] /\ lines'[b] = lines[b] /\ message'[b] = message[b]
        BY <2>2, <1>1, <1>2, <1>m DEF LogInv, TypeOK
      <3>2. /\ pc[b] # "idle" => message[b] > 0
            /\ message[b] > 0 => [by |-> b, message |-> message[b], lines |-> lines[b]] \in begun
            /\ pc[b] = "lock" /\ owner # b => written[b] = 0
            /\ pc[b] = "check" => written[b] = 0
            /\ pc[b] = "write" => written[b] <= lines[b]
            /\ pc[b] \in {"file", "terminal"} => written[b] = lines[b]
        BY DEF LogInv, Progress, Upto
      <3>3. owner' = owner /\ begun \subseteq begun'
        BY <1>1, <1>2
      <3>4. QED BY <3>1, <3>2, <3>3
    <2>3. QED BY <2>1, <2>2
  <1>10. Streams'
    <2>1. message' \in [Thread -> Nat]
      <3>1. message[t] + 1 \in Nat
        BY <1>c
      <3>m. message \in [Thread -> Nat]
        BY InvTypes
      <3>2. QED BY <3>1, <3>m, <1>2
    <2>2. message'[t] > message[t] /\ \A b \in Thread : b # t => message'[b] = message[b] /\ pc'[b] = pc[b]
      BY <1>2, <1>c, <1>m, <1>n DEF LogInv, TypeOK
    <2>3. QED BY <2>1, <2>2, <1>1, <1>2, StreamsKept
  <1>11. Delivered'
    BY <1>1, <1>2 DEF LogInv, TypeOK, Delivered, Upto
  <1>12. QED BY <1>4, <1>5, <1>6, <1>8, <1>9, <1>10, <1>11 DEF LogInv

\* The lock is taken with nothing left in the string builder.
LEMMA LockStep ==
  ASSUME LogInv, NEW t \in Thread, Lock(t), UNCHANGED glfw_failed
  PROVE  LogInv'
  <1>1. TypeOK'
    BY LogAssumption DEF LogInv, TypeOK, Lock, Goto, At, shared, local
  <1>2. begun' \subseteq Message
    BY LogAssumption DEF LogInv, TypeOK, Message, Lock, Goto, At, shared, local
  <1>3. Exclusive'
    BY LogAssumption DEF LogInv, TypeOK, Exclusive, Lock, Goto, At, shared, local
  <1>4. TextIsOwners'
    <2>1. owner = NoThread /\ message[t] > 0 /\ written[t] = 0 /\ Fresh
      BY LogAssumption DEF LogInv, TextIsOwners, Progress, Lock, At
    <2>2. Layout(Upto(t, written[t])) = <<>>
      <3>1. Upto(t, written[t]) \in Message /\ Upto(t, written[t]).lines = 0
        BY <2>1, InvTypes DEF Upto
      <3>2. QED BY <3>1, LayoutIsEmpty
    <2>3. /\ owner' = t /\ pc'[t] # "unlock" /\ number_of_lines' = written'[t]
          /\ str(str_builder)' = <<>> /\ Layout(Upto(t, written[t]))' = <<>>
      BY <2>1, <2>2 DEF LogInv, TypeOK, Fresh, Upto, Lock, Goto, str
    <2>4. t # NoThread
      BY LogAssumption
    <2>5. QED BY <2>3, <2>4 DEF TextIsOwners, Upto
  <1>5. Progress'
    <2>1. lines[t] \in Nat /\ \A w : w = 0 => w <= lines[t]
      BY InvTypes
    <2>2. QED BY <2>1, LogAssumption DEF LogInv, TypeOK, Exclusive, Progress, Upto, Lock, Goto, At, shared, local
  <1>6. Streams'
    <2>1. message' \in [Thread -> Nat]
      BY InvTypes DEF LogInv, TypeOK, Lock, Goto, At, shared, local
    <2>2. QED BY <2>1, InvTypes, StreamsKept DEF LogInv, TypeOK, BeforeFile, BeforeTerminal, Lock, Goto, At, shared, local
  <1>7. Delivered'
    BY LogAssumption DEF LogInv, TypeOK, Progress, Delivered, Upto, Lock, Goto, At, shared, local
  <1>8. QED BY <1>1, <1>2, <1>3, <1>4, <1>5, <1>6, <1>7 DEF LogInv

\* A closed switch counts as missed.
LEMMA CheckStep ==
  ASSUME LogInv, NEW t \in Thread, Check(t), UNCHANGED glfw_failed
  PROVE  LogInv'
  <1>1. TypeOK'
    BY LogAssumption DEF LogInv, TypeOK, Check, Goto, At, shared, local
  <1>2. begun' \subseteq Message
    BY LogAssumption DEF LogInv, TypeOK, Message, Check, Goto, At, shared, local
  <1>3. Exclusive'
    BY LogAssumption DEF LogInv, TypeOK, Exclusive, Check, Goto, At, shared, local
  <1>4. TextIsOwners'
    BY LogAssumption DEF LogInv, TypeOK, Exclusive, TextIsOwners, Fresh, Progress, Upto, Check, Goto, At, shared, local
  <1>5. Progress'
    <2>1. lines[t] \in Nat /\ \A w : w = 0 => w <= lines[t]
      BY InvTypes
    <2>2. QED BY <2>1, LogAssumption DEF LogInv, TypeOK, Exclusive, Progress, Upto, Check, Goto, At, shared, local
  <1>6. Streams'
    <2>1. message' \in [Thread -> Nat]
      BY InvTypes DEF LogInv, TypeOK, Check, Goto, At, shared, local
    <2>2. QED BY <2>1, InvTypes, StreamsKept DEF LogInv, TypeOK, BeforeFile, BeforeTerminal, Check, Goto, At, shared, local
  <1>7. Delivered'
    BY LogAssumption DEF LogInv, TypeOK, Progress, Delivered, Upto, Check, Goto, At, shared, local
  <1>8. QED BY <1>1, <1>2, <1>3, <1>4, <1>5, <1>6, <1>7 DEF LogInv

\* So it does in flush.
LEMMA FlushCheckStep ==
  ASSUME LogInv, NEW t \in Thread, FlushCheck(t), UNCHANGED glfw_failed
  PROVE  LogInv'
  <1>1. TypeOK'
    BY LogAssumption DEF LogInv, TypeOK, FlushCheck, Goto, At, shared, local
  <1>2. begun' \subseteq Message
    BY LogAssumption DEF LogInv, TypeOK, Message, FlushCheck, Goto, At, shared, local
  <1>3. Exclusive'
    BY LogAssumption DEF LogInv, TypeOK, Exclusive, FlushCheck, Goto, At, shared, local
  <1>4. TextIsOwners'
    BY LogAssumption DEF LogInv, TypeOK, Exclusive, TextIsOwners, Fresh, Progress, Upto, FlushCheck, Goto, At, shared, local
  <1>5. Progress'
    BY LogAssumption DEF LogInv, TypeOK, Exclusive, Progress, Upto, FlushCheck, Goto, At, shared, local
  <1>6. Streams'
    <2>1. message' \in [Thread -> Nat]
      BY InvTypes DEF LogInv, TypeOK, FlushCheck, Goto, At, shared, local
    <2>2. QED BY <2>1, InvTypes, StreamsKept DEF LogInv, TypeOK, BeforeFile, BeforeTerminal, FlushCheck, Goto, At, shared, local
  <1>7. Delivered'
    BY LogAssumption DEF LogInv, TypeOK, Progress, Delivered, Upto, FlushCheck, Goto, At, shared, local
  <1>8. QED BY <1>1, <1>2, <1>3, <1>4, <1>5, <1>6, <1>7 DEF LogInv

\* Clearing leaves the string builder fresh for the next owner.
LEMMA ClearStep ==
  ASSUME LogInv, NEW t \in Thread, Clear(t), UNCHANGED glfw_failed
  PROVE  LogInv'
  <1>1. TypeOK'
    <2>1. str_builder \in Builder /\ WellFormed(str_builder)
      BY DEF LogInv, TypeOK
    <2>2. str_builder' \in Builder /\ WellFormed(str_builder)'
      <3>1. clear(str_builder) \in Builder /\ WellFormed(clear(str_builder))
        BY <2>1, ClearEmpties
      <3>2. QED BY <3>1 DEF Clear, WellFormed, str
    <2>3. number_of_lines' \in 0 .. MaxLines
      BY LogAssumption DEF Clear
    <2>4. QED BY <2>2, <2>3 DEF LogInv, TypeOK, Clear, Goto, At, shared, local
  <1>2. begun' \subseteq Message
    BY LogAssumption DEF LogInv, TypeOK, Message, Clear, Goto, At, shared, local
  <1>3. Exclusive'
    BY LogAssumption DEF LogInv, TypeOK, Exclusive, Clear, Goto, At, shared, local
  <1>4. TextIsOwners'
    BY ClearEmpties, LogAssumption DEF LogInv, TypeOK, Exclusive, TextIsOwners, Fresh, Progress, Upto, Clear, Goto, At, shared, local
  <1>5. Progress'
    BY LogAssumption DEF LogInv, TypeOK, Exclusive, Progress, Upto, Clear, Goto, At, shared, local
  <1>6. Streams'
    <2>1. message' \in [Thread -> Nat]
      BY InvTypes DEF LogInv, TypeOK, Clear, Goto, At, shared, local
    <2>2. QED BY <2>1, InvTypes, StreamsKept DEF LogInv, TypeOK, BeforeFile, BeforeTerminal, Clear, Goto, At, shared, local
  <1>7. Delivered'
    BY LogAssumption DEF LogInv, TypeOK, Progress, Delivered, Upto, Clear, Goto, At, shared, local
  <1>8. QED BY <1>1, <1>2, <1>3, <1>4, <1>5, <1>6, <1>7 DEF LogInv

\* The lock is given back with nothing left to print.
LEMMA UnlockStep ==
  ASSUME LogInv, NEW t \in Thread, Unlock(t), UNCHANGED glfw_failed
  PROVE  LogInv'
  <1>1. TypeOK'
    BY LogAssumption DEF LogInv, TypeOK, Unlock, Goto, At, shared, local
  <1>2. begun' \subseteq Message
    BY LogAssumption DEF LogInv, TypeOK, Message, Unlock, Goto, At, shared, local
  <1>3. Exclusive'
    BY LogAssumption DEF LogInv, TypeOK, Exclusive, Unlock, Goto, At, shared, local
  <1>4. TextIsOwners'
    BY LogAssumption DEF LogInv, TypeOK, Exclusive, TextIsOwners, Fresh, Progress, Upto, Unlock, Goto, At, shared, local
  <1>5. Progress'
    BY LogAssumption DEF LogInv, TypeOK, Exclusive, Progress, Upto, Unlock, Goto, At, shared, local
  <1>6. Streams'
    <2>1. message' \in [Thread -> Nat]
      BY InvTypes DEF LogInv, TypeOK, Unlock, Goto, At, shared, local
    <2>2. QED BY <2>1, InvTypes, StreamsKept DEF LogInv, TypeOK, BeforeFile, BeforeTerminal, Unlock, Goto, At, shared, local
  <1>7. Delivered'
    BY LogAssumption DEF LogInv, TypeOK, Progress, Delivered, Upto, Unlock, Goto, At, shared, local
  <1>8. QED BY <1>1, <1>2, <1>3, <1>4, <1>5, <1>6, <1>7 DEF LogInv

\* The switch is nobody's text.
LEMMA SetAvailabilityStep ==
  ASSUME LogInv, NEW t \in Thread, SetAvailability(t), UNCHANGED glfw_failed
  PROVE  LogInv'
  <1>1. TypeOK'
    <2>1. toggles' \in 0 .. MaxToggles
      <3>1. toggles \in 0 .. MaxToggles /\ MaxToggles \in Nat /\ toggles < MaxToggles /\ toggles' = toggles + 1
        BY LogAssumption DEF LogInv, TypeOK, SetAvailability
      <3>2. QED BY <3>1
    <2>a. available' \in BOOLEAN
      BY DEF SetAvailability
    <2>2. QED BY <2>1, <2>a DEF LogInv, TypeOK, SetAvailability, local
  <1>2. begun' \subseteq Message
    BY LogAssumption DEF LogInv, TypeOK, Message, SetAvailability, Goto, At, shared, local
  <1>3. Exclusive'
    BY LogAssumption DEF LogInv, TypeOK, Exclusive, SetAvailability, Goto, At, shared, local
  <1>4. TextIsOwners'
    BY LogAssumption DEF LogInv, TypeOK, Exclusive, TextIsOwners, Fresh, Progress, Upto, SetAvailability, Goto, At, shared, local
  <1>5. Progress'
    BY LogAssumption DEF LogInv, TypeOK, Exclusive, Progress, Upto, SetAvailability, Goto, At, shared, local
  <1>6. Streams'
    <2>1. message' \in [Thread -> Nat]
      BY InvTypes DEF LogInv, TypeOK, SetAvailability, Goto, At, shared, local
    <2>2. QED BY <2>1, InvTypes, StreamsKept DEF LogInv, TypeOK, BeforeFile, BeforeTerminal, SetAvailability, Goto, At, shared, local
  <1>7. Delivered'
    BY LogAssumption DEF LogInv, TypeOK, Progress, Delivered, Upto, SetAvailability, Goto, At, shared, local
  <1>8. QED BY <1>1, <1>2, <1>3, <1>4, <1>5, <1>6, <1>7 DEF LogInv

\* The callback leaves the text to the owner, who is then stuck.
LEMMA ErrorCallbackStep ==
  ASSUME LogInv, NEW t \in Thread, ErrorCallback(t)
  PROVE  LogInv'
  <1>1. TypeOK'
    BY LogAssumption DEF LogInv, TypeOK, ErrorCallback, Goto, At, shared, local
  <1>2. begun' \subseteq Message
    BY LogAssumption DEF LogInv, TypeOK, Message, ErrorCallback, Goto, At, shared, local
  <1>3. Exclusive'
    BY LogAssumption DEF LogInv, TypeOK, Exclusive, ErrorCallback, Goto, At, shared, local
  <1>4. TextIsOwners'
    BY LogAssumption DEF LogInv, TypeOK, Exclusive, TextIsOwners, Fresh, Progress, Upto, ErrorCallback, Goto, At, shared, local
  <1>5. Progress'
    BY LogAssumption DEF LogInv, TypeOK, Exclusive, Progress, Upto, ErrorCallback, Goto, At, shared, local
  <1>6. Streams'
    <2>1. message' \in [Thread -> Nat]
      BY InvTypes DEF LogInv, TypeOK, ErrorCallback, Goto, At, shared, local
    <2>2. QED BY <2>1, InvTypes, StreamsKept DEF LogInv, TypeOK, BeforeFile, BeforeTerminal, ErrorCallback, Goto, At, shared, local
  <1>7. Delivered'
    BY LogAssumption DEF LogInv, TypeOK, Progress, Delivered, Upto, ErrorCallback, Goto, At, shared, local
  <1>8. QED BY <1>1, <1>2, <1>3, <1>4, <1>5, <1>6, <1>7 DEF LogInv

\* A line more of the owner's message.
LEMMA WriteStep ==
  ASSUME LogInv, NEW t \in Thread, Write(t), UNCHANGED glfw_failed
  PROVE  LogInv'
  <1> DEFINE m == Upto(t, written[t])
             line == LineOf(m, m.lines + 1)
  <1>1. /\ pc[t] = "write" /\ written[t] < lines[t]
        /\ str_builder' = vwriteln(str_builder, number_of_lines, line)
        /\ number_of_lines' = number_of_lines + 1
        /\ written' = [written EXCEPT ![t] = @ + 1]
        /\ UNCHANGED <<owner, available, error_file, terminal, pc, kind, message, lines, missed, begun,
                       toggles, glfw_failed>>
    BY DEF Write, At, Upto, LineOf
  <1>2. /\ owner = t /\ number_of_lines = written[t] /\ str(str_builder) = Layout(m)
        /\ message[t] > 0
    BY <1>1 DEF LogInv, Exclusive, TextIsOwners, Progress
  <1>3. m \in Message /\ m.lines = written[t]
    BY <1>2, InvTypes DEF Upto
  <1>4. str_builder \in Builder /\ WellFormed(str_builder)
    BY DEF LogInv, TypeOK
  <1>5. written[t] \in Nat /\ lines[t] \in 0 .. MaxLines /\ MaxLines \in Nat
    BY LogAssumption, InvTypes DEF LogInv, TypeOK
  <1>6. written[t] < MaxLines /\ written[t] + 1 \in 0 .. MaxLines /\ written[t] + 1 <= lines[t]
    <2> DEFINE w == written[t]
               l == lines[t]
    <2>1. w \in Nat /\ l \in 0 .. MaxLines /\ MaxLines \in Nat /\ w < l
      BY <1>1, <1>5
    <2> HIDE DEF w, l
    <2>2. w < MaxLines /\ w + 1 \in 0 .. MaxLines /\ w + 1 <= l
      BY <2>1
    <2>3. QED BY <2>2 DEF w, l
  <1>7. /\ str_builder' \in Builder /\ WellFormed(str_builder)'
        /\ str(str_builder)' = Layout(Upto(t, written[t] + 1))
    <2> DEFINE new == vwriteln(str_builder, number_of_lines, line)
    <2>1. new = vwriteln(str_builder, m.lines, line)
      BY <1>2, <1>3
    <2>2. new \in Builder /\ WellFormed(new) /\ str(new) = Layout(More(m))
      <3> DEFINE sb == str_builder
      <3>1. sb \in Builder /\ WellFormed(sb) /\ str(sb) = Layout(m) /\ m.lines < MaxLines
        BY <1>2, <1>3, <1>4, <1>6
      <3> HIDE DEF m, sb
      <3>2. QED BY <2>1, <3>1, <1>3, WriteExtends DEF sb
    <2>3. More(m) = Upto(t, written[t] + 1)
      BY DEF More, Upto
    <2> HIDE DEF new, m
    <2>4. str_builder' = new
      BY <1>1 DEF new, m
    <2>5. QED BY <2>2, <2>3, <2>4 DEF WellFormed, str
  <1> HIDE DEF m
  <1>8. written'[t] = written[t] + 1 /\ \A b \in Thread : b # t => written'[b] = written[b]
    BY <1>1 DEF LogInv, TypeOK
  <1>9. TypeOK'
    <2>1. number_of_lines' \in 0 .. MaxLines
      BY <1>1, <1>2, <1>6
    <2>2. written' \in [Thread -> 0 .. MaxLines]
      BY <1>1, <1>6 DEF LogInv, TypeOK
    <2>3. QED BY <2>1, <2>2, <1>1, <1>7 DEF LogInv, TypeOK
  <1>10. begun' \subseteq Message /\ Exclusive'
    BY <1>1 DEF LogInv, Exclusive
  <1>11. TextIsOwners'
    <2>1. number_of_lines' = written'[t] /\ owner' = t /\ pc'[t] = "write"
      BY <1>1, <1>2, <1>8
    <2>2. str(str_builder)' = Layout(Upto(t, written[t]))'
      BY <1>1, <1>7, <1>8 DEF Upto
    <2>3. t # NoThread
      BY LogAssumption
    <2>4. QED BY <2>1, <2>2, <2>3 DEF TextIsOwners
  <1>12. Progress'
    <2>1. written'[t] <= lines'[t] /\ pc'[t] = "write"
      BY <1>1, <1>6, <1>8
    <2>2. QED BY <2>1, <1>1, <1>8 DEF LogInv, Progress, Upto
  <1>13. Streams'
    BY <1>1, InvTypes, StreamsKept
  <1>14. Delivered'
    BY <1>1 DEF LogInv, Delivered, Upto
  <1>15. QED BY <1>9, <1>10, <1>11, <1>12, <1>13, <1>14 DEF LogInv

\* What a thread about to print finds in the string builder is its message.
LEMMA TextToPrint ==
  ASSUME LogInv, NEW t \in Thread, pc[t] \in {"file", "terminal"}
  PROVE  /\ Upto(t, lines[t]) \in begun /\ Upto(t, lines[t]) \in Message
         /\ str(str_builder) = Layout(Upto(t, lines[t]))
         /\ len(str_builder) = 0 <=> lines[t] = 0
         /\ owner = t /\ message[t] > 0 /\ lines[t] \in Nat
  <1> DEFINE m == Upto(t, lines[t])
  <1>1. /\ owner = t /\ message[t] > 0 /\ written[t] = lines[t]
        /\ m \in begun /\ str(str_builder) = Layout(m)
    BY DEF LogInv, Exclusive, TextIsOwners, Progress
  <1>2. m \in Message /\ m.lines = lines[t] /\ lines[t] \in Nat
    BY <1>1, InvTypes DEF Upto
  <1>3. Len(str(str_builder)) = str_builder.cur
    BY BuilderParts DEF LogInv, TypeOK
  <1> HIDE DEF m
  <1>4. len(str_builder) = 0 <=> lines[t] = 0
    BY <1>1, <1>2, <1>3, LayoutIsEmpty DEF len
  <1>5. QED BY <1>1, <1>2, <1>4 DEF m

\* The file gets the whole message, which it does not hold yet.
LEMMA FlushFileStep ==
  ASSUME LogInv, NEW t \in Thread, FlushFile(t), UNCHANGED glfw_failed
  PROVE  LogInv'
  <1> DEFINE m == Upto(t, lines[t])
  <1>1. /\ pc[t] = "file" /\ pc' = [pc EXCEPT ![t] = "terminal"]
        /\ error_file' = Printed(error_file)
        /\ UNCHANGED <<owner, str_builder, number_of_lines, available, terminal,
                       kind, message, lines, written, missed, begun, toggles, glfw_failed>>
    BY DEF FlushFile, At, Goto
  <1>2. /\ m \in begun /\ m \in Message /\ str(str_builder) = Layout(m)
        /\ len(str_builder) = 0 <=> lines[t] = 0
        /\ owner = t /\ message[t] > 0 /\ lines[t] \in Nat
    BY <1>1, TextToPrint
  <1>3. m.by = t /\ m.message = message[t] /\ m.lines = lines[t]
    BY DEF Upto
  <1>4. pc'[t] = "terminal" /\ \A b \in Thread : b # t => pc'[b] = pc[b]
    BY <1>1 DEF LogInv, TypeOK
  <1>5. /\ error_file \in Seq(Seq(Piece)) /\ begun \subseteq Message
        /\ Past(error_file, begun, message, pc, BeforeFile) /\ Once(error_file)
        /\ Past(terminal, begun, message, pc, BeforeTerminal) /\ Once(terminal)
    BY DEF LogInv, TypeOK, Streams
  <1> HIDE DEF m
  <1>6. /\ error_file' \in Seq(Seq(Piece))
        /\ Past(error_file', begun, message, pc', BeforeFile) /\ Once(error_file')
        /\ lines[t] > 0 => Holds(error_file', m)
        /\ \A o : Holds(error_file, o) => Holds(error_file', o)
    <2>1. CASE lines[t] = 0
      <3>1. error_file' = error_file
        BY <2>1, <1>1, <1>2 DEF Printed
      <3>2. message \in [Thread -> Nat]
        BY InvTypes
      <3>3. Past(error_file, begun, message, pc', BeforeFile)
        BY <3>2, <1>4, <1>5, PastKept DEF BeforeFile
      <3>4. QED BY <2>1, <3>1, <3>3, <1>5
    <2>2. CASE lines[t] # 0
      <3>1. error_file' = Append(error_file, Layout(m))
        BY <2>2, <1>1, <1>2 DEF Printed
      <3>2. m.lines > 0 /\ message[m.by] = m.message /\ pc[m.by] \in BeforeFile /\ pc'[m.by] \notin BeforeFile
        BY <2>2, <1>1, <1>2, <1>3, <1>4 DEF BeforeFile
      <3>3. \A b \in Thread : b # m.by => pc'[b] = pc[b]
        BY <1>3, <1>4
      <3>4. QED BY <3>1, <3>2, <3>3, <1>2, <1>5, PastPrinted
    <2>3. QED BY <2>1, <2>2
  <1>7. Past(terminal, begun, message, pc', BeforeTerminal)
    <2>1. message \in [Thread -> Nat]
      BY InvTypes
    <2>2. pc[t] \in BeforeTerminal
      BY <1>1 DEF BeforeTerminal, BeforeFile
    <2>3. QED BY <2>1, <2>2, <1>4, <1>5, PastKept
  <1>8. TypeOK'
    BY <1>1, <1>6 DEF LogInv, TypeOK, WellFormed, str
  <1>9. begun' \subseteq Message /\ Exclusive'
    BY <1>1, <1>2, <1>4 DEF LogInv, Exclusive
  <1>10. TextIsOwners'
    BY <1>1, <1>4 DEF LogInv, TextIsOwners, Fresh, Upto, str
  <1>11. Progress'
    BY <1>1, <1>4 DEF LogInv, Progress, Upto
  <1>12. Streams'
    <2>1. Past(error_file, begun, message, pc, BeforeFile)' /\ Past(terminal, begun, message, pc, BeforeTerminal)'
      BY <1>1, <1>6, <1>7 DEF Past, BeforeFile, BeforeTerminal
    <2>2. Once(error_file)' /\ Once(terminal)'
      BY <1>1, <1>5, <1>6 DEF Once
    <2>3. QED BY <2>1, <2>2 DEF Streams
  <1>13. Delivered'
    <2> SUFFICES ASSUME NEW b \in Thread, message[b] > 0, lines[b] > 0
                 PROVE  /\ pc'[b] = "terminal" => Holds(error_file', Upto(b, lines[b]))
                        /\ pc'[b] \in {"clear", "unlock", "idle"} /\ ~missed[b] =>
                             Holds(error_file', Upto(b, lines[b])) /\ Holds(terminal, Upto(b, lines[b]))
      BY <1>1 DEF Delivered, Upto, Holds
    <2>1. CASE b = t
      BY <2>1, <1>4, <1>6 DEF m
    <2>2. CASE b # t
      BY <2>2, <1>4, <1>6 DEF LogInv, Delivered
    <2>3. QED BY <2>1, <2>2
  <1>14. QED BY <1>8, <1>9, <1>10, <1>11, <1>12, <1>13 DEF LogInv

\* The terminal gets the same text.
LEMMA FlushTerminalStep ==
  ASSUME LogInv, NEW t \in Thread, FlushTerminal(t), UNCHANGED glfw_failed
  PROVE  LogInv'
  <1> DEFINE m == Upto(t, lines[t])
  <1>1. /\ pc[t] = "terminal" /\ pc' = [pc EXCEPT ![t] = "clear"]
        /\ terminal' = Printed(terminal)
        /\ UNCHANGED <<owner, str_builder, number_of_lines, available, error_file,
                       kind, message, lines, written, missed, begun, toggles, glfw_failed>>
    BY DEF FlushTerminal, At, Goto
  <1>2. /\ m \in begun /\ m \in Message /\ str(str_builder) = Layout(m)
        /\ len(str_builder) = 0 <=> lines[t] = 0
        /\ owner = t /\ message[t] > 0 /\ lines[t] \in Nat
    BY <1>1, TextToPrint
  <1>3. m.by = t /\ m.message = message[t] /\ m.lines = lines[t]
    BY DEF Upto
  <1>4. pc'[t] = "clear" /\ \A b \in Thread : b # t => pc'[b] = pc[b]
    BY <1>1 DEF LogInv, TypeOK
  <1>5. /\ terminal \in Seq(Seq(Piece)) /\ begun \subseteq Message
        /\ Past(error_file, begun, message, pc, BeforeFile) /\ Once(error_file)
        /\ Past(terminal, begun, message, pc, BeforeTerminal) /\ Once(terminal)
    BY DEF LogInv, TypeOK, Streams
  <1> HIDE DEF m
  <1>6. /\ terminal' \in Seq(Seq(Piece))
        /\ Past(terminal', begun, message, pc', BeforeTerminal) /\ Once(terminal')
        /\ lines[t] > 0 => Holds(terminal', m)
        /\ \A o : Holds(terminal, o) => Holds(terminal', o)
    <2>1. CASE lines[t] = 0
      <3>1. terminal' = terminal
        BY <2>1, <1>1, <1>2 DEF Printed
      <3>2. message \in [Thread -> Nat]
        BY InvTypes
      <3>3. Past(terminal, begun, message, pc', BeforeTerminal)
        BY <3>2, <1>4, <1>5, PastKept DEF BeforeTerminal, BeforeFile
      <3>4. QED BY <2>1, <3>1, <3>3, <1>5
    <2>2. CASE lines[t] # 0
      <3>1. terminal' = Append(terminal, Layout(m))
        BY <2>2, <1>1, <1>2 DEF Printed
      <3>2. m.lines > 0 /\ message[m.by] = m.message /\ pc[m.by] \in BeforeTerminal /\ pc'[m.by] \notin BeforeTerminal
        BY <2>2, <1>1, <1>2, <1>3, <1>4 DEF BeforeTerminal, BeforeFile
      <3>3. \A b \in Thread : b # m.by => pc'[b] = pc[b]
        BY <1>3, <1>4
      <3>4. QED BY <3>1, <3>2, <3>3, <1>2, <1>5, PastPrinted
    <2>3. QED BY <2>1, <2>2
  <1>7. Past(error_file, begun, message, pc', BeforeFile)
    <2>1. message \in [Thread -> Nat]
      BY InvTypes
    <2>2. QED BY <2>1, <1>4, <1>5, PastKept DEF BeforeFile
  <1>8. TypeOK'
    BY <1>1, <1>6 DEF LogInv, TypeOK, WellFormed, str
  <1>9. begun' \subseteq Message /\ Exclusive'
    BY <1>1, <1>2, <1>4 DEF LogInv, Exclusive
  <1>10. TextIsOwners'
    BY <1>1, <1>4 DEF LogInv, TextIsOwners, Fresh, Upto, str
  <1>11. Progress'
    BY <1>1, <1>4 DEF LogInv, Progress, Upto
  <1>12. Streams'
    <2>1. Past(error_file, begun, message, pc, BeforeFile)' /\ Past(terminal, begun, message, pc, BeforeTerminal)'
      BY <1>1, <1>6, <1>7 DEF Past, BeforeFile, BeforeTerminal
    <2>2. Once(error_file)' /\ Once(terminal)'
      BY <1>1, <1>5, <1>6 DEF Once
    <2>3. QED BY <2>1, <2>2 DEF Streams
  <1>13. Delivered'
    <2> SUFFICES ASSUME NEW b \in Thread, message[b] > 0, lines[b] > 0
                 PROVE  /\ pc'[b] = "terminal" => Holds(error_file, Upto(b, lines[b]))
                        /\ pc'[b] \in {"clear", "unlock", "idle"} /\ ~missed[b] =>
                             Holds(error_file, Upto(b, lines[b])) /\ Holds(terminal', Upto(b, lines[b]))
      BY <1>1 DEF Delivered, Upto, Holds
    <2>1. CASE b = t
      BY <2>1, <1>1, <1>4, <1>6 DEF m, LogInv, Delivered
    <2>2. CASE b # t
      BY <2>2, <1>4, <1>6 DEF LogInv, Delivered
    <2>3. QED BY <2>1, <2>2
  <1>14. QED BY <1>8, <1>9, <1>10, <1>11, <1>12, <1>13 DEF LogInv

-----------------------------------------------------------------------------
\* The inductive invariant of the log: the lock's owner alone writes, the text is
\* what the owner has written so far, and a stream holds whole messages only, each
\* of them once, and of a thread's current message nothing before its turn.
THEOREM LogIsInvariant == Spec => []LogInv
  <1>1. LogInv /\ [Next]_vars => LogInv'
    <2> SUFFICES ASSUME LogInv, [Next]_vars PROVE LogInv'
      OBVIOUS
    <2>1. ASSUME NEW t \in Thread,
                 \/ (Begin(t) \/ Logging(t) \/ SetAvailability(t)) /\ UNCHANGED glfw_failed
                 \/ ErrorCallback(t)
          PROVE  LogInv'
      BY <2>1, BeginStep, LockStep, CheckStep, WriteStep, FlushCheckStep, FlushFileStep,
         FlushTerminalStep, ClearStep, UnlockStep, SetAvailabilityStep, ErrorCallbackStep
         DEF Logging
    <2>2. CASE UNCHANGED vars
      BY <2>2 DEF LogInv, TypeOK, Exclusive, TextIsOwners, Fresh, Progress, Streams, Past, Once,
                  Delivered, Holds, Upto, WellFormed, str, vars, shared, local, BeforeFile, BeforeTerminal
    <2>3. QED BY <2>1, <2>2 DEF Next
  <1>2. QED BY <1>1, LogInit, PTL DEF Spec

\* The string builder stays terminated within its memory after any mix of appends,
\* prepends and clears, so the assertions of str_builder.c hold, whatever the number
\* of threads, messages and lines.
THEOREM LogTypeCorrect == Spec => []TypeOK
  <1>1. LogInv => TypeOK
    BY DEF LogInv
  <1>2. QED BY <1>1, LogIsInvariant, PTL

\* What debug__flush prints is one message of one thread, whole, laid out as
\* debug__vwriteln means it, and no message is printed twice.
THEOREM PrintedWhole == Spec => []MessagesAreWhole
  <1>1. LogInv => MessagesAreWhole
    BY DEF LogInv, Streams, Past, Once, MessagesAreWhole
  <1>2. QED BY <1>1, LogIsInvariant, PTL

\* A message that is over is in the file and on the terminal, unless it met its type
\* switched off between the availability checks of write_and_flush and flush.
THEOREM NothingElseIsLost == Spec => []LostOnlyWhileDisabled
  <1>1. LogInv => LostOnlyWhileDisabled
    BY DEF LogInv, Delivered, Holds, Upto, LostOnlyWhileDisabled, At
  <1>2. QED BY <1>1, LogIsInvariant, PTL
=============================================================================
