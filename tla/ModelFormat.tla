---------------------------- MODULE ModelFormat ----------------------------
(***************************************************************************)
(* The compiler of src/g_modelformat_compiler and its inverse, as          *)
(* operators on the tokens of a source and on the 32-bit words of a chunk. *)
(* The tokens are those the scanner makes, without the comments.  A real   *)
(* number has one decimal more than are printed and stands for the whole   *)
(* number of units of the last one.                                        *)
(***************************************************************************)
EXTENDS Integers, Sequences, FiniteSetsExt

CONSTANTS ListCapacity,  \* elements for which compiler__emit_chunk_list has memory
          Decimals       \* of a real number printed with %f

ASSUME ModelFormatAssumption == ListCapacity \in Nat \ {0} /\ Decimals \in Nat

AnyNumber == -1          \* of elements: UINT32_MAX

Token(type) == [type |-> type, value |-> 0]
Number(type, value) == [type |-> type, value |-> value]
EOF == Token("EOF")

\* chunk_header_type and the words of the headers
TypeOf == [version |-> 0, list |-> 1, positions |-> 2, normals |-> 3, textures_2d |-> 4,
           materials |-> 5, indices |-> 6, geometry |-> 7]
HeaderSize == 3
ListHeaderSize == 5
Header(type, subchunks, size) == <<TypeOf[type], subchunks, size>>

S32 == 0                 \* chunk_list_type
R32 == 1

-----------------------------------------------------------------------------
(* Real numbers *)

One == 10 ^ (Decimals + 1)
Magnitude(v) == IF v < 0 THEN -v ELSE v
Signed(v, magnitude) == IF v < 0 THEN -magnitude ELSE magnitude
Decimal(v, i) == (Magnitude(v) \div 10 ^ (Decimals + 1 - i)) % 10

\* The loop over the decimals ends at the first that is zero.
token__to_r32(v) ==
  LET read == Max({n \in 0 .. Decimals + 1 : \A i \in 1 .. n : Decimal(v, i) # 0})
  IN Signed(v, Magnitude(v) - (Magnitude(v) % 10 ^ (Decimals + 1 - read)))

\* Printing rounds the last decimal away.
Printed(v) == Signed(v, 10 * ((Magnitude(v) + 5) \div 10))

-----------------------------------------------------------------------------
(* The compiler: the tokens before it, the token it ate, the chunk so far. *)

compiler__create(source) == [rest |-> source, ate |-> EOF, chunk |-> <<>>, status |-> "going"]

Going(c) == c.status = "going"
Panic(c) == IF Going(c) THEN [c EXCEPT !.status = "panic"] ELSE c
\* An assertion of the code fails, or it reads behind its input: nothing is said of what follows.
Abort(c) == IF Going(c) THEN [c EXCEPT !.status = "abort"] ELSE c

is_at_end(c) == c.rest = <<>>
eat(c) == IF is_at_end(c) THEN [c EXCEPT !.ate = EOF]
          ELSE [c EXCEPT !.ate = Head(c.rest), !.rest = Tail(c.rest)]
Ate(c, type) == c.ate.type = type
eat_err(c, type) == IF Ate(eat(c), type) THEN eat(c) ELSE Panic(eat(c))

\* Does not look for the end.
EndChunkUnchecked(c) == c

EndChunk(c) == IF Ate(c, ")") THEN c ELSE Panic(c)

emit(c, words) == [c EXCEPT !.chunk = @ \o words]
\* Puts the finished header over the one emitted at the start.
patch(c, at, words) ==
  [c EXCEPT !.chunk = SubSeq(@, 1, at) \o words \o SubSeq(@, at + Len(words) + 1, Len(@))]


PatchHeader(c, type, at, subchunks) ==
  patch(c, at, Header(type, subchunks, Len(c.chunk) - at))

\* An element of a list is converted to the type of the list, a real number by truncation.
Converted(token, list_type) ==
  CASE token.type = "S32" /\ list_type = R32 -> One * token.value
    [] token.type = "R32" /\ list_type = S32 ->
         Signed(token.value, Magnitude(token__to_r32(token.value)) \div One)
    [] token.type = "R32" /\ list_type = R32 -> token__to_r32(token.value)
    [] OTHER -> token.value

\* The elements of a list are put in memory on the stack, whose builder keeps a
\* place for a terminator: an element too many is dropped and counted.
Stored(elements, value) == IF Len(elements) + 1 < ListCapacity THEN Append(elements, value) ELSE elements

\* l is a compiler within a list: c, the elements stored, how many were counted.
RECURSIVE Elements(_, _, _)
Elements(l, expected, list_type) ==
  IF is_at_end(l.c) \/ Ate(l.c, ")") THEN l
  ELSE IF l.n = expected \/ l.c.ate.type \notin {"S32", "R32"} THEN [l EXCEPT !.c = Panic(@)]
  ELSE Elements([c |-> eat(l.c), stored |-> Stored(l.stored, Converted(l.c.ate, list_type)), n |-> l.n + 1],
                expected, list_type)

emit_chunk_list(c, expected, list_type) ==
  LET at == Len(c.chunk)
      opened == emit(c, Header("list", 0, 0) \o <<list_type, 0>>)
      l == Elements([c |-> eat(opened), stored |-> <<>>, n |-> 0], expected, list_type)
      counted == IF expected # AnyNumber /\ l.n # expected THEN Panic(l.c) ELSE l.c
      closed == emit(counted, l.stored)
  IN IF ~Ate(c, "(") THEN Abort(c)
     ELSE IF ~Going(l.c) THEN l.c
     ELSE EndChunk(patch(closed, at, Header("list", 0, Len(closed.chunk) - at) \o <<list_type, l.n>>))

\* s is a compiler within a chunk: c, and how many subchunks it has emitted.
RECURSIVE Lists(_, _, _)
Lists(s, expected, list_type) ==
  IF is_at_end(s.c) \/ ~Going(s.c) \/ Ate(s.c, ")") THEN s
  ELSE Lists([c |-> eat(emit_chunk_list(s.c, expected, list_type)), n |-> s.n + 1], expected, list_type)

\* The chunks of lists: positions and indices.
emit_chunk_of_lists(c, type, expected, list_type) ==
  LET at == Len(c.chunk)
      s == Lists([c |-> eat(emit(c, Header(type, 0, 0))), n |-> 0], expected, list_type)
  IN EndChunk(PatchHeader(s.c, type, at, s.n))

\* The chunks of chunks: geometry and, behind its list, version.
RECURSIVE emit_chunk(_)
RECURSIVE Chunks(_)
Chunks(s) ==
  IF is_at_end(s.c) \/ ~Going(s.c) \/ Head(s.c.rest).type = ")" THEN s
  ELSE Chunks([c |-> emit_chunk(s.c), n |-> s.n + 1])

emit_chunk_geometry(c) ==
  LET at == Len(c.chunk)
      s == Chunks([c |-> emit(c, Header("geometry", 0, 0)), n |-> 0])
  IN eat_err(PatchHeader(s.c, "geometry", at, s.n), ")")

emit_chunk_version(c) ==
  LET at == Len(c.chunk)
      opened == eat_err(emit(c, Header("version", 0, 0)), "(")
      s == Chunks([c |-> emit_chunk_list(opened, 2, S32), n |-> 1])
  IN IF ~Going(opened) THEN opened ELSE eat_err(PatchHeader(s.c, "version", at, s.n), ")")

\* Three types of chunk are not implemented, and a list begins with its second token.
emit_chunk(c) ==
  LET opened == eat_err(c, "(")
      named == eat(opened)
      emitted ==
        CASE Ate(named, "version") -> emit_chunk_version(named)
          [] named.ate.type \in {"S32", "R32"} -> emit_chunk_list(named, AnyNumber, S32)
          [] Ate(named, "positions") -> emit_chunk_of_lists(named, "positions", 3, R32)
          [] Ate(named, "indices") -> emit_chunk_of_lists(named, "indices", AnyNumber, S32)
          [] Ate(named, "geometry") -> emit_chunk_geometry(named)
          [] named.ate.type \in {"normals", "textures_2d", "materials"} -> Abort(named)
          [] OTHER -> Panic(named)
  IN IF ~Going(opened) THEN opened ELSE EndChunk(emitted)

RECURSIVE Compiled(_)
Compiled(c) == IF is_at_end(c) \/ ~Going(c) THEN c ELSE Compiled(emit_chunk(c))

compile(source) == Compiled(compiler__create(source))

-----------------------------------------------------------------------------
(* The decompiler: the place in the words, the tokens printed. *)

decompiler__create(words) == [words |-> words, cur |-> 0, out |-> <<>>, status |-> "going"]

print(d, tokens) == [d EXCEPT !.out = @ \o tokens]
\* How many words are left.
Left(d) == Len(d.words) - d.cur
\* Eating past the end gives nothing and stays at the end.
eat_words(d, n) == IF n <= Left(d) THEN [d EXCEPT !.cur = @ + n] ELSE Panic([d EXCEPT !.cur = Len(d.words)])
Word(d, n) == d.words[d.cur + n]

RECURSIVE Values(_, _, _, _)
Values(d, left, expected, list_type) ==
  IF ~Going(d) \/ left = 0 THEN d
  ELSE IF expected = 0 \/ Left(d) = 0 THEN Panic(d)
  ELSE Values(print(eat_words(d, 1), <<IF list_type = S32 THEN Number("S32", Word(d, 1))
                                       ELSE Number("R32", Printed(Word(d, 1)))>>),
              left - 1, IF expected = AnyNumber THEN expected ELSE expected - 1, list_type)

decompile_list(d, expected, list_type) ==
  LET opened == eat_words(print(d, <<Token("(")>>), ListHeaderSize)
  IN IF ~Going(opened) THEN opened
     ELSE IF Word(d, 4) # list_type THEN Panic(opened)
     ELSE LET filled == Values(opened, Word(d, 5), expected, list_type)
          IN IF Going(filled) THEN print(filled, <<Token(")")>>) ELSE filled

RECURSIVE decompile_lists(_, _, _, _)
decompile_lists(d, left, expected, list_type) ==
  IF ~Going(d) \/ left <= 0 THEN d
  ELSE decompile_lists(decompile_list(d, expected, list_type), left - 1, expected, list_type)

\* Closes a chunk whose header was there, also after an error in its content.
Closed(opened, d) ==
  IF ~Going(opened) \/ d.status = "abort" THEN d ELSE print(d, <<Token(")")>>)

\* At the end of the words decompiler__peak lets the type be read behind them.
RECURSIVE decompile_chunk(_)
RECURSIVE decompile_chunks(_, _)
decompile_chunks(d, left) ==
  IF ~Going(d) \/ left <= 0 THEN d ELSE decompile_chunks(decompile_chunk(d), left - 1)

decompile_chunk(d) ==
  IF Left(d) = 0 THEN Abort(d)
  ELSE LET Is(type) == Word(d, 1) = TypeOf[type]
           Subchunks == Word(d, 2)
           Opened == eat_words(print(d, <<Token("("), Token(CHOOSE type \in DOMAIN TypeOf : Is(type))>>), HeaderSize)
       IN CASE Is("version") ->
                 Closed(Opened, IF Going(Opened)
                                THEN decompile_chunks(decompile_list(Opened, 2, S32), Subchunks - 1) ELSE Opened)
            [] Is("list") -> decompile_list(d, AnyNumber, R32)
            [] Is("positions") \/ Is("normals") -> Closed(Opened, decompile_lists(Opened, Subchunks, 3, R32))
            [] Is("indices") -> Closed(Opened, decompile_lists(Opened, Subchunks, AnyNumber, S32))
            [] Is("geometry") -> Closed(Opened, decompile_chunks(Opened, Subchunks))
            [] Is("textures_2d") \/ Is("materials") -> Abort(d)
            [] OTHER -> Panic(d)

RECURSIVE Decompiled(_)
Decompiled(d) == IF Left(d) = 0 \/ ~Going(d) THEN d ELSE Decompiled(decompile_chunk(d))

decompile(words) == Decompiled(decompiler__create(words))
=============================================================================
