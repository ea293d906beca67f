------------------------------ MODULE HashMap ------------------------------
(* The hash map: open addressing with linear probing in memory of a fixed    *)
(* size.  A removed entry becomes a tombstone, which a search passes and an  *)
(* insert may use again.  hash_set.c is the same code without the values.    *)
(* An iteration may be under way while the map is changed.                   *)
EXTENDS Integers, FiniteSets

CONSTANTS Keys, Values,
          NoKey, NoValue,  \* what memory holds before an entry is written
          Capacity,        \* hash_map__capacity()
          Hash             \* hash_fn, modulo the capacity, as a function

ASSUME CapacityAssumption == Capacity \in Nat \ {0}
ASSUME HashAssumption == Hash \in [Keys -> 0 .. Capacity - 1]
ASSUME NoKeyAssumption == NoKey \notin Keys

VARIABLES entries,  \* the entries in memory
          fill,     \* number of entries in use
          reply,    \* what the last call returned
          cursor,   \* the entry the iteration stands at; Capacity is the end
          owed      \* history: keys stored since the iteration began that it
                    \* has not returned yet

vars == <<entries, fill, reply, cursor, owed>>
iteration == <<cursor, owed>>

Index == 0 .. Capacity - 1
EntryType == {"empty", "tombstone", "non_empty"}
Entry == [type : EntryType, key : Keys \cup {NoKey}, value : Values \cup {NoValue}]

\* Key and value of an entry that is not in use stay in memory, but nothing
\* reads them.
Unused(type) == [type |-> type, key |-> NoKey, value |-> NoValue]
InUse(k, v) == [type |-> "non_empty", key |-> k, value |-> v]

Stored == {i \in Index : entries[i].type = "non_empty"}
Holds(i, k) == entries[i].type = "non_empty" /\ entries[i].key = k
----------------------------------------------------------------------------
\* hash_map__create, through hash_map__clear.
Init ==
    /\ entries = [i \in Index |-> Unused("empty")]
    /\ fill = 0
    /\ reply = [op |-> "create"]
    /\ cursor = Capacity /\ owed = {}

\* The entry the search for k looks at after n others.
Probe(k, n) == (Hash[k] + n) % Capacity

\* The search ends at the first entry that is empty or holds the key.
EndsAt(k, n) == entries[Probe(k, n)].type = "empty" \/ Holds(Probe(k, n), k)
IsEnd(k, n) == EndsAt(k, n) /\ \A m \in 0 .. n - 1 : ~EndsAt(k, m)

\* The first tombstone among the n entries looked at so far.
IsFirstTombstone(k, n, t) ==
    /\ t \in 0 .. n - 1
    /\ entries[Probe(k, t)].type = "tombstone"
    /\ \A m \in 0 .. t - 1 : entries[Probe(k, m)].type # "tombstone"

\* Gives a tombstone on the way even when the key is stored behind it.
FoundFirstReusable(k) ==
    {Probe(k, n) : n \in {m \in Index :
        \/ IsEnd(k, m) /\ \A t \in 0 .. m - 1 : entries[Probe(k, t)].type # "tombstone"
        \/ \E e \in Index : IsEnd(k, e) /\ IsFirstTombstone(k, e, m)}}

\* _hash_map__find: the entry that holds the key or that an insert should use,
\* as a set that is empty when the search comes round to where it began.
Found(k) ==
    {Probe(k, n) : n \in {m \in Index :
        \/ IsEnd(k, m) /\ Holds(Probe(k, m), k)
        \/ /\ IsEnd(k, m) /\ ~Holds(Probe(k, m), k)
           /\ \A t \in 0 .. m - 1 : entries[Probe(k, t)].type # "tombstone"
        \/ \E e \in Index : IsEnd(k, e) /\ ~Holds(Probe(k, e), k) /\ IsFirstTombstone(k, e, m)}}

\* The entry hash_map__find answers with, if there is one.
FoundStored(k) == {i \in Found(k) : fill > 0 /\ Holds(i, k)}

\* Counts an overwritten key once more.
InsertRecounting(k, v) ==
    /\ IF Found(k) = {}
       THEN reply' = [op |-> "insert", ok |-> FALSE] /\ UNCHANGED <<entries, fill>>
       ELSE \E i \in Found(k) :
               /\ entries' = [entries EXCEPT ![i] = InUse(k, v)]
               /\ fill' = fill + 1
               /\ reply' = [op |-> "insert", ok |-> TRUE]
    /\ UNCHANGED iteration

\* Moves a stored key forward to the first tombstone of its search.
InsertRelocating(k, v) ==
    /\ IF Found(k) = {}
       THEN reply' = [op |-> "insert", ok |-> FALSE] /\ UNCHANGED <<entries, fill>>
       ELSE \E i \in FoundFirstReusable(k) :
               /\ entries' = [j \in Index |->
                     IF j = i THEN InUse(k, v) ELSE IF Holds(j, k) THEN Unused("tombstone")
                     ELSE entries[j]]
               /\ fill' = IF \E j \in Index : Holds(j, k) THEN fill ELSE fill + 1
               /\ reply' = [op |-> "insert", ok |-> TRUE]
    /\ UNCHANGED iteration

\* hash_map__insert
Insert(k, v) ==
    /\ IF Found(k) = {}
       THEN reply' = [op |-> "insert", ok |-> FALSE] /\ UNCHANGED <<entries, fill>>
       ELSE \E i \in Found(k) :
               /\ entries' = [entries EXCEPT ![i] = InUse(k, v)]
               /\ fill' = IF entries[i].type = "non_empty" THEN fill ELSE fill + 1
               /\ reply' = [op |-> "insert", ok |-> TRUE]
    /\ UNCHANGED iteration

\* Frees the entry altogether.
RemoveToEmpty(k) ==
    /\ IF FoundStored(k) = {}
       THEN reply' = [op |-> "remove", ok |-> FALSE] /\ UNCHANGED <<entries, fill>>
       ELSE \E i \in FoundStored(k) :
               /\ entries' = [entries EXCEPT ![i] = Unused("empty")]
               /\ fill' = fill - 1
               /\ reply' = [op |-> "remove", ok |-> TRUE]
    /\ owed' = owed \ {k}
    /\ UNCHANGED cursor

\* hash_map__remove
Remove(k) ==
    /\ IF FoundStored(k) = {}
       THEN reply' = [op |-> "remove", ok |-> FALSE] /\ UNCHANGED <<entries, fill>>
       ELSE \E i \in FoundStored(k) :
               /\ entries' = [entries EXCEPT ![i] = Unused("tombstone")]
               /\ fill' = fill - 1
               /\ reply' = [op |-> "remove", ok |-> TRUE]
    /\ owed' = owed \ {k}
    /\ UNCHANGED cursor

\* hash_map__find
Find(k) ==
    /\ IF FoundStored(k) = {}
       THEN reply' = [op |-> "find", value |-> NoValue]
       ELSE \E i \in FoundStored(k) : reply' = [op |-> "find", value |-> entries[i].value]
    /\ UNCHANGED <<entries, fill, iteration>>

\* hash_map__clear
Clear ==
    /\ entries' = [i \in Index |-> Unused("empty")]
    /\ fill' = 0
    /\ reply' = [op |-> "clear"]
    /\ owed' = {}
    /\ UNCHANGED cursor

\* The iteration goes to the first entry in use from the given one on.
IsNextStored(from, i) ==
    \/ i \in Stored /\ i >= from /\ \A j \in Stored : j >= from => i <= j
    \/ i = Capacity /\ \A j \in Stored : j < from

KeysAt(i) == IF i = Capacity THEN {} ELSE {entries[i].key}

\* hash_map__begin
Begin ==
    /\ \E i \in 0 .. Capacity :
          /\ IsNextStored(0, i)
          /\ cursor' = i
          /\ owed' = {entries[j].key : j \in Stored} \ KeysAt(i)
    /\ UNCHANGED <<entries, fill, reply>>

\* hash_map__next; the entry the iteration stands at may be removed by now.
Advance ==
    /\ cursor < Capacity
    /\ \E i \in 0 .. Capacity :
          IsNextStored(cursor + 1, i) /\ cursor' = i /\ owed' = owed \ KeysAt(i)
    /\ UNCHANGED <<entries, fill, reply>>

Next ==
    \/ \E k \in Keys, v \in Values : Insert(k, v)
    \/ \E k \in Keys : Remove(k) \/ Find(k)
    \/ Clear
    \/ Begin
    \/ Advance

Spec == Init /\ [][Next]_vars
----------------------------------------------------------------------------
TypeOK ==
    /\ entries \in [Index -> Entry]
    /\ fill \in 0 .. Capacity
    /\ cursor \in 0 .. Capacity
    /\ owed \subseteq Keys

\* hash_map__size is the number of keys stored.
FillIsStored == fill = Cardinality(Stored)

\* The search finds every stored key in the one entry that holds it, whatever
\* was inserted and removed on the way to it.
StoredIsFound == \A i \in Stored : Found(entries[i].key) = {i}

\* The memory implements a map: the value of a stored key is the one in its entry.
StoredKeys == {entries[i].key : i \in Stored}
StoreView == [k \in StoredKeys |-> entries[CHOOSE i \in Stored : entries[i].key = k].value]
MapView == INSTANCE KeyedStore WITH store <- StoreView
ImplementsMap == MapView!Spec

\* An iteration returns every key that stays stored while it lasts, although
\* other keys, and the one it stands at, come and go.
IterationIsComplete == cursor = Capacity => owed = {}
=============================================================================
