----------------------------- MODULE KeyedStore ----------------------------
(* What the hash map promises: a finite map from keys to values.  An insert  *)
(* of a new key may be refused, an insert of a stored key never is; nothing  *)
(* else changes what is stored, and every answer is the truth.               *)
EXTENDS Integers

CONSTANTS Keys, Values,
          NoValue    \* the answer of a find that finds nothing

VARIABLES store,     \* the value of each stored key
          reply      \* the answer to the last call

vars == <<store, reply>>

Init == store = <<>> /\ reply = [op |-> "create"]

Insert(k, v) ==
    \/ /\ store' = [x \in DOMAIN store \cup {k} |-> IF x = k THEN v ELSE store[x]]
       /\ reply' = [op |-> "insert", ok |-> TRUE]
    \/ /\ k \notin DOMAIN store
       /\ reply' = [op |-> "insert", ok |-> FALSE]
       /\ UNCHANGED store

Remove(k) ==
    /\ store' = [x \in DOMAIN store \ {k} |-> store[x]]
    /\ reply' = [op |-> "remove", ok |-> k \in DOMAIN store]

Find(k) ==
    /\ reply' = [op |-> "find", value |-> IF k \in DOMAIN store THEN store[k] ELSE NoValue]
    /\ UNCHANGED store

Clear == store' = <<>> /\ reply' = [op |-> "clear"]

Next ==
    \/ \E k \in Keys, v \in Values : Insert(k, v)
    \/ \E k \in Keys : Remove(k) \/ Find(k)
    \/ Clear

Spec == Init /\ [][Next]_vars
=============================================================================
