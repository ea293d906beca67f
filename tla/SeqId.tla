------------------------------- MODULE SeqId -------------------------------
(* Packet sequence ids of the transport protocol: an unsigned integer type   *)
(* that wraps (seq_id_t, uint16_t in the program) and the comparison both    *)
(* peers use to decide which of two ids is the younger one.                  *)
EXTENDS Integers

CONSTANT SeqMod      \* number of values of seq_id_t, 2^16 in the program

ASSUME SeqModAssumption == SeqMod \in Nat /\ SeqMod >= 2 /\ SeqMod % 2 = 0

seq_id_t == 0 .. SeqMod - 1

\* ((seq_id_t) -1) >> 1
HalfRange == (SeqMod - 1) \div 2

(* Faulty variants, put in to see which property notices: ids compared as    *)
(* numbers, and a difference that is not brought back into their type.       *)
MoreRecentIsGreater(seq_id_1, seq_id_2) == seq_id_1 > seq_id_2
DeltaUntruncated(newer, older) == newer - older

\* The id is to the left of the other one on the circle of ids.
sequence_id__is_more_recent(seq_id_1, seq_id_2) ==
    \/ seq_id_1 > seq_id_2 /\ seq_id_1 - seq_id_2 <= HalfRange
    \/ seq_id_2 > seq_id_1 /\ seq_id_2 - seq_id_1 > HalfRange

\* The difference, truncated to seq_id_t.
sequence_id__delta(newer, older) ==
    IF newer >= older THEN newer - older ELSE newer - older + SeqMod

\* ++sequence_id
sequence_id__next(seq_id) == IF seq_id = SeqMod - 1 THEN 0 ELSE seq_id + 1
=============================================================================
