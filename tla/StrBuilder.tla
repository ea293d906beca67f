----------------------------- MODULE StrBuilder -----------------------------
(***************************************************************************)
(* The string builder of src/common/str_builder.c as operators on its      *)
(* record: memory of a size that doubles, and how much of it is text.  A   *)
(* character of the model stands for any piece of text; memory[cur + 1] is *)
(* the terminator the code keeps behind the text.                          *)
(***************************************************************************)
EXTENDS Integers, Sequences

CONSTANTS Piece,   \* what is written
          Nul,     \* the terminator
          Junk     \* memory nobody has written yet

Builder == [memory : Seq(Piece \cup {Nul, Junk}), cur : Nat, size : Nat]

len(sb) == sb.cur
str(sb) == SubSeq(sb.memory, 1, sb.cur)

\* What every operation keeps: nothing is written behind the memory, and the
\* text is written, terminated, and fits.
WellFormed(sb) ==
  /\ Len(sb.memory) = sb.size
  /\ sb.cur < Len(sb.memory)
  /\ sb.memory[sb.cur + 1] = Nul
  /\ str(sb) \in Seq(Piece)

create == [memory |-> <<Nul>>, cur |-> 0, size |-> 1]

clear(sb) == [sb EXCEPT !.memory[1] = Nul, !.cur = 0]

\* Doubled until it is greater than needed: one place is left for the terminator.
Doubled(size, needed) ==
  LET double[s \in Nat] == IF s <= needed THEN double[2 * s] ELSE s
  IN double[size]

\* Leaves no place for the terminator.
DoubledTight(size, needed) ==
  LET double[s \in Nat] == IF s < needed THEN double[2 * s] ELSE s
  IN double[size]

Grown(sb, size) == [sb EXCEPT !.memory = @ \o [i \in 1 .. size - sb.size |-> Junk], !.size = size]

EnsureTight(sb, n) == Grown(sb, DoubledTight(sb.size, sb.cur + n))

ensure_size_left(sb, n) == Grown(sb, Doubled(sb.size, sb.cur + n))

\* The memory from place at (counted from 0) on is overwritten.
Overwritten(memory, at, in) ==
  SubSeq(memory, 1, at) \o in \o SubSeq(memory, at + Len(in) + 1, Len(memory))

\* Writes in and the terminator at the end of the text.
append(sb, in) ==
  LET grown == ensure_size_left(sb, Len(in))
  IN [grown EXCEPT !.memory = Overwritten(@, sb.cur, Append(in, Nul)), !.cur = @ + Len(in)]

\* Moves the text and its terminator up and writes in before it; the character
\* vsnprintf's own terminator fell on is put back.
prepend(sb, in) ==
  LET grown == ensure_size_left(sb, Len(in))
  IN [grown EXCEPT !.memory = Overwritten(@, 0, in \o SubSeq(sb.memory, 1, sb.cur + 1)),
                   !.cur = @ + Len(in)]
=============================================================================
