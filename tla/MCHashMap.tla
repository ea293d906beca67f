----------------------------- MODULE MCHashMap -----------------------------
(* Four keys for three entries.  Two collide at the last entry, so that the  *)
(* search wraps, one at the first, one in between.                           *)
EXTENDS HashMap, TLC

CONSTANTS k1, k2, k3, k4, u, v

MCKeys == {k1, k2, k3, k4}
MCHash == [k \in MCKeys |-> IF k \in {k1, k2} THEN 2 ELSE IF k = k3 THEN 0 ELSE 1]

MCValues == {u, v}

\* k1 and k2 have one hash; values are only copied.
MCSymmetry == Permutations({k1, k2}) \cup Permutations(MCValues)
=============================================================================
