--------------------------- MODULE HashMapProofs ---------------------------
(* The hash map for every capacity, every hash function and all keys: a      *)
(* stored key is found, the map implements KeyedStore, and an iteration      *)
(* misses no key that stays.                                                 *)
EXTENDS HashMap, FiniteSetTheorems, TLAPS

\* Every stored key lies at the end of a walk from its hash over entries that
\* were never freed: no search for it ends early.
Reached ==
    \A i \in Stored : \E n \in Index :
        /\ Probe(entries[i].key, n) = i
        /\ \A m \in 0 .. n - 1 : entries[Probe(entries[i].key, m)].type # "empty"

KeysUnique == \A i, j \in Stored : entries[i].key = entries[j].key => i = j

\* What an iteration still has to return lies behind the entry it stands at.
OwedAhead == \A k \in owed : \E i \in Stored : entries[i].key = k /\ cursor < i

TypeInv ==
    /\ entries \in [Index -> Entry]
    /\ \A i \in Stored : entries[i].key \in Keys
    /\ cursor \in 0 .. Capacity
    /\ owed \subseteq Keys

\* Inductive.  That a search meets every stored key needs both Reached, which a
\* removal keeps because it leaves a tombstone, and KeysUnique, which an insert
\* keeps because the search was complete.
MapInv == TypeInv /\ FillIsStored /\ Reached /\ KeysUnique /\ OwedAhead
----------------------------------------------------------------------------
\* The walk from a hash visits an index once in each turn.
LEMMA ProbeIs ==
    ASSUME NEW k \in Keys, NEW n \in Index
    PROVE  Probe(k, n) = IF Hash[k] + n < Capacity THEN Hash[k] + n ELSE Hash[k] + n - Capacity
  <1>1. Hash[k] \in 0 .. Capacity - 1 /\ Capacity \in Nat \ {0}
    BY HashAssumption, CapacityAssumption
  <1>. QED
    BY <1>1 DEF Probe, Index

LEMMA ProbeInjective ==
    ASSUME NEW k \in Keys, NEW n \in Index, NEW m \in Index, Probe(k, n) = Probe(k, m)
    PROVE  n = m
  <1>1. Hash[k] \in 0 .. Capacity - 1 /\ Capacity \in Nat \ {0}
    BY HashAssumption, CapacityAssumption
  <1>. QED
    BY <1>1, ProbeIs DEF Index

LEMMA ProbeType == ASSUME NEW k \in Keys, NEW n \in Index PROVE Probe(k, n) \in Index
  <1>1. Hash[k] \in 0 .. Capacity - 1 /\ Capacity \in Nat \ {0}
    BY HashAssumption, CapacityAssumption
  <1>. QED
    BY <1>1, ProbeIs DEF Index

LEMMA FoundType == ASSUME NEW k \in Keys PROVE Found(k) \subseteq Index
  BY ProbeType DEF Found

\* A search ends once.
LEMMA EndIsUnique ==
    ASSUME NEW k \in Keys, NEW n \in Index, NEW m \in Index, IsEnd(k, n), IsEnd(k, m)
    PROVE  n = m
  BY DEF IsEnd, Index

\* The search for a stored key ends at its entry and nowhere else.
LEMMA SearchFinds ==
    ASSUME TypeInv, Reached, KeysUnique, NEW i \in Stored
    PROVE  Found(entries[i].key) = {i}
  <1> DEFINE k == entries[i].key
  <1>1. k \in Keys /\ i \in Index
    BY DEF TypeInv, Stored
  <1>2. PICK n \in Index : /\ Probe(k, n) = i
                           /\ \A m \in 0 .. n - 1 : entries[Probe(k, m)].type # "empty"
    BY DEF Reached
  <1>3. Holds(Probe(k, n), k)
    BY <1>2 DEF Holds, Stored
  <1>4. ASSUME NEW m \in 0 .. n - 1 PROVE ~EndsAt(k, m)
    <2>1. m \in Index /\ m # n
      BY CapacityAssumption DEF Index
    <2>2. Probe(k, m) # i
      BY <1>1, <1>2, <2>1, ProbeInjective
    <2>3. ~Holds(Probe(k, m), k)
      BY <1>1, <2>1, <2>2, ProbeType DEF Holds, KeysUnique, Stored
    <2>. QED
      BY <1>2, <2>3 DEF EndsAt
  <1>5. IsEnd(k, n)
    BY <1>3, <1>4 DEF IsEnd, EndsAt
  <1>6. \A m \in Index : IsEnd(k, m) => m = n
    BY <1>1, <1>5, EndIsUnique
  <1>. HIDE DEF k
  <1>7. i \in Found(k)
    BY <1>2, <1>3, <1>5 DEF Found
  <1>8. ASSUME NEW j \in Found(k) PROVE j = i
    BY <1>2, <1>3, <1>6 DEF Found
  <1>. QED
    BY <1>7, <1>8 DEF k

\* The entry an insert is given holds the key, or the key is stored nowhere and
\* the entry is one that a search for it comes to.
LEMMA FoundIsRoom ==
    ASSUME TypeInv, Reached, KeysUnique, NEW k \in Keys, NEW i \in Found(k)
    PROVE  \/ Holds(i, k)
           \/ /\ i \in Index \ Stored
              /\ \A j \in Stored : entries[j].key # k
              /\ \E n \in Index :
                    /\ Probe(k, n) = i
                    /\ \A m \in 0 .. n - 1 : entries[Probe(k, m)].type # "empty"
  <1>. SUFFICES ASSUME ~Holds(i, k)
                PROVE  /\ i \in Index \ Stored
                       /\ \A j \in Stored : entries[j].key # k
                       /\ \E n \in Index :
                             /\ Probe(k, n) = i
                             /\ \A m \in 0 .. n - 1 : entries[Probe(k, m)].type # "empty"
    OBVIOUS
  <1>1. i \in Index
    BY FoundType
  <1>2. ASSUME NEW j \in Stored, entries[j].key = k PROVE FALSE
    <2>1. i = j
      BY <1>2, SearchFinds
    <2>. QED
      BY <1>2, <2>1 DEF Holds, Stored
  <1>3. PICK n \in Index :
          /\ Probe(k, n) = i
          /\ \/ IsEnd(k, n)
             \/ \E e \in Index : IsEnd(k, e) /\ IsFirstTombstone(k, e, n)
    BY DEF Found
  <1>4. \A m \in 0 .. n - 1 : ~EndsAt(k, m)
    BY <1>3 DEF IsEnd, IsFirstTombstone, Index
  <1>5. entries[i].type \in {"empty", "tombstone"}
    BY <1>3 DEF IsEnd, EndsAt, IsFirstTombstone
  <1>. QED
    BY <1>1, <1>2, <1>3, <1>4, <1>5 DEF EndsAt, Stored
----------------------------------------------------------------------------
LEMMA StoredSets ==
    ASSUME NEW S \in SUBSET Index
    PROVE  IsFiniteSet(S) /\ Cardinality(S) \in Nat /\ Cardinality(S) <= Capacity
  <1>1. IsFiniteSet(Index) /\ Cardinality(Index) = Capacity
    BY CapacityAssumption, FS_Interval DEF Index
  <1>. QED
    BY <1>1, FS_Subset, FS_CardinalityType

LEMMA InitMap == Init => MapInv
  <1>. SUFFICES ASSUME Init PROVE MapInv
    OBVIOUS
  <1>1. Stored = {}
    BY DEF Init, Stored, Unused
  <1>2. entries \in [Index -> Entry]
    BY DEF Init, Unused, Entry, EntryType
  <1>3. cursor \in 0 .. Capacity /\ owed = {}
    BY CapacityAssumption DEF Init
  <1>4. FillIsStored
    BY <1>1, FS_EmptySet DEF Init, FillIsStored
  <1>. QED
    BY <1>1, <1>2, <1>3, <1>4 DEF MapInv, TypeInv, Reached, KeysUnique, OwedAhead

\* What an insert does to the entries, whatever it answers.
LEMMA InsertStep ==
    ASSUME MapInv, NEW k \in Keys, NEW v \in Values, NEW i \in Found(k),
           entries' = [entries EXCEPT ![i] = InUse(k, v)]
    PROVE  /\ i \in Index
           /\ Stored' = Stored \cup {i}
           /\ entries'[i] = InUse(k, v)
           /\ \A j \in Index \ {i} : entries'[j] = entries[j]
           /\ entries' \in [Index -> Entry]
           /\ \A j \in Stored \ {i} : entries[j].key # k
  <1>1. i \in Index
    BY FoundType
  <1>2. entries \in [Index -> Entry] /\ InUse(k, v) \in Entry
    BY DEF MapInv, TypeInv, InUse, Entry, EntryType
  <1>3. entries'[i] = InUse(k, v) /\ \A j \in Index \ {i} : entries'[j] = entries[j]
    BY <1>1, <1>2
  <1>4. entries' \in [Index -> Entry]
    BY <1>1, <1>2
  <1>5. Stored' = Stored \cup {i}
    BY <1>1, <1>3 DEF Stored, InUse
  <1>6. \A j \in Stored \ {i} : entries[j].key # k
    BY SearchFinds DEF MapInv
  <1>. QED
    BY <1>1, <1>3, <1>4, <1>5, <1>6

LEMMA InsertMap ==
    ASSUME MapInv, NEW k \in Keys, NEW v \in Values, Insert(k, v)
    PROVE  MapInv'
  <1>1. CASE Found(k) = {}
    BY <1>1 DEF Insert, iteration, MapInv, TypeInv, FillIsStored, Reached, KeysUnique,
                OwedAhead, Stored, Probe
  <1>2. CASE Found(k) # {}
    <2>1. PICK i \in Found(k) :
            /\ entries' = [entries EXCEPT ![i] = InUse(k, v)]
            /\ fill' = IF entries[i].type = "non_empty" THEN fill ELSE fill + 1
      BY <1>2 DEF Insert
    <2>2. cursor' = cursor /\ owed' = owed
      BY DEF Insert, iteration
    <2>3. /\ i \in Index
          /\ Stored' = Stored \cup {i}
          /\ entries'[i].type = "non_empty" /\ entries'[i].key = k
          /\ \A j \in Index \ {i} : entries'[j] = entries[j]
          /\ entries' \in [Index -> Entry]
          /\ \A j \in Stored \ {i} : entries[j].key # k
      BY <2>1, InsertStep DEF InUse
    <2>4. Stored \subseteq Index
      BY DEF Stored
    <2>5. TypeInv'
      BY <2>2, <2>3, <2>4 DEF MapInv, TypeInv
    <2>6. FillIsStored'
      <3>1. IsFiniteSet(Stored)
        BY <2>4, StoredSets
      <3>2. Cardinality(Stored \cup {i}) =
              IF i \in Stored THEN Cardinality(Stored) ELSE Cardinality(Stored) + 1
        BY <3>1, FS_AddElement
      <3>3. i \in Stored <=> entries[i].type = "non_empty"
        BY <2>3 DEF Stored
      <3>. QED
        BY <2>1, <2>3, <3>2, <3>3 DEF MapInv, FillIsStored
    <2>7. KeysUnique'
      BY <2>3, <2>4 DEF MapInv, KeysUnique
    <2>8. \A x \in Keys, m \in Index : Probe(x, m)' = Probe(x, m) /\ Probe(x, m) \in Index
      BY ProbeType DEF Probe
    <2>9. \A j \in Index : entries[j].type # "empty" => entries'[j].type # "empty"
      BY <2>3
    <2>10. Reached'
      <3>. SUFFICES ASSUME NEW j \in Stored'
                    PROVE  \E n \in Index :
                             /\ Probe(entries'[j].key, n) = j
                             /\ \A m \in 0 .. n - 1 :
                                   entries'[Probe(entries'[j].key, m)].type # "empty"
        BY DEF Reached, Probe
      <3>1. entries'[j].key \in Keys
        BY <2>5 DEF TypeInv
      <3>2. \E n \in Index :
              /\ Probe(entries'[j].key, n) = j
              /\ \A m \in 0 .. n - 1 : entries[Probe(entries'[j].key, m)].type # "empty"
        <4>1. CASE j \in Stored
          <5>1. entries'[j].key = entries[j].key
            <6>1. CASE j = i
              BY <2>1, <2>3, <4>1, <6>1, FoundIsRoom DEF Holds, MapInv
            <6>2. CASE j # i
              BY <2>3, <2>4, <4>1, <6>2
            <6>. QED
              BY <6>1, <6>2
          <5>. QED
            BY <4>1, <5>1 DEF MapInv, Reached
        <4>2. CASE j \notin Stored
          BY <2>1, <2>3, <4>2, FoundIsRoom DEF MapInv, Holds, Stored
        <4>. QED
          BY <4>1, <4>2
      <3>3. \A n \in Index : \A m \in 0 .. n - 1 : m \in Index
        BY CapacityAssumption DEF Index
      <3>. QED
        BY <2>8, <2>9, <3>1, <3>2, <3>3
    <2>11. OwedAhead'
      <3>. SUFFICES ASSUME NEW x \in owed
                    PROVE  \E j \in Stored' : entries'[j].key = x /\ cursor < j
        BY <2>2 DEF OwedAhead
      <3>1. PICK j \in Stored : entries[j].key = x /\ cursor < j
        BY DEF MapInv, OwedAhead
      <3>2. entries'[j].key = x
        <4>1. CASE j = i
          BY <2>1, <2>3, <3>1, <4>1, FoundIsRoom DEF Holds, MapInv
        <4>2. CASE j # i
          BY <2>3, <2>4, <3>1, <4>2
        <4>. QED
          BY <4>1, <4>2
      <3>. QED
        BY <2>3, <3>1, <3>2
    <2>. QED
      BY <2>5, <2>6, <2>7, <2>10, <2>11 DEF MapInv
  <1>. QED
    BY <1>1, <1>2

\* The entry a removal frees is the only one that holds the key.
LEMMA FoundHolds ==
    ASSUME MapInv, NEW k \in Keys
    PROVE  FoundStored(k) = {i \in Stored : entries[i].key = k}
  <1>1. ASSUME NEW i \in FoundStored(k) PROVE i \in Stored /\ entries[i].key = k
    BY FoundType DEF FoundStored, Holds, Stored
  <1>2. ASSUME NEW i \in Stored, entries[i].key = k PROVE i \in FoundStored(k)
    <2>1. Found(k) = {i}
      BY <1>2, SearchFinds DEF MapInv
    <2>2. fill > 0
      <3>1. IsFiniteSet(Stored) /\ Cardinality(Stored) \in Nat
        BY StoredSets DEF Stored
      <3>2. Cardinality(Stored) # 0
        BY <3>1, FS_EmptySet
      <3>. QED
        BY <3>1, <3>2 DEF MapInv, FillIsStored
    <2>. QED
      BY <1>2, <2>1, <2>2 DEF FoundStored, Holds, Stored
  <1>. QED
    BY <1>1, <1>2

LEMMA RemoveMap ==
    ASSUME MapInv, NEW k \in Keys, Remove(k)
    PROVE  MapInv'
  <1>1. CASE FoundStored(k) = {}
    <2>1. entries' = entries /\ fill' = fill /\ cursor' = cursor /\ owed' = owed \ {k}
      BY <1>1 DEF Remove
    <2>. QED
      BY <2>1 DEF MapInv, TypeInv, FillIsStored, Reached, KeysUnique, OwedAhead, Stored, Probe
  <1>2. CASE FoundStored(k) # {}
    <2>1. PICK i \in FoundStored(k) :
            /\ entries' = [entries EXCEPT ![i] = Unused("tombstone")]
            /\ fill' = fill - 1
      BY <1>2 DEF Remove
    <2>2. cursor' = cursor /\ owed' = owed \ {k}
      BY DEF Remove
    <2>3. i \in Stored /\ entries[i].key = k /\ Stored \subseteq Index
      BY FoundHolds DEF Stored
    <2>4. /\ entries'[i].type = "tombstone"
          /\ \A j \in Index \ {i} : entries'[j] = entries[j]
          /\ entries' \in [Index -> Entry]
      BY <2>1, <2>3 DEF MapInv, TypeInv, Unused, Entry, EntryType
    <2>5. Stored' = Stored \ {i}
      BY <2>3, <2>4 DEF Stored
    <2>6. TypeInv'
      BY <2>2, <2>3, <2>4, <2>5 DEF MapInv, TypeInv
    <2>7. FillIsStored'
      <3>1. IsFiniteSet(Stored)
        BY <2>3, StoredSets
      <3>2. Cardinality(Stored \ {i}) = Cardinality(Stored) - 1
        BY <2>3, <3>1, FS_RemoveElement
      <3>. QED
        BY <2>1, <2>5, <3>2 DEF MapInv, FillIsStored
    <2>8. KeysUnique'
      BY <2>3, <2>4, <2>5 DEF MapInv, KeysUnique
    <2>9. \A j \in Index : entries[j].type # "empty" => entries'[j].type # "empty"
      BY <2>4
    <2>10. Reached'
      <3>. SUFFICES ASSUME NEW j \in Stored'
                    PROVE  \E n \in Index :
                             /\ Probe(entries'[j].key, n) = j
                             /\ \A m \in 0 .. n - 1 :
                                   entries'[Probe(entries'[j].key, m)].type # "empty"
        BY DEF Reached, Probe
      <3>1. j \in Stored /\ entries'[j].key = entries[j].key /\ entries[j].key \in Keys
        BY <2>3, <2>4, <2>5 DEF MapInv, TypeInv
      <3>2. \A n \in Index : \A m \in 0 .. n - 1 : Probe(entries[j].key, m) \in Index
        BY <3>1, ProbeType, CapacityAssumption DEF Index
      <3>. QED
        BY <2>9, <3>1, <3>2 DEF MapInv, Reached
    <2>11. OwedAhead'
      BY <2>2, <2>3, <2>4, <2>5 DEF MapInv, OwedAhead
    <2>. QED
      BY <2>6, <2>7, <2>8, <2>10, <2>11 DEF MapInv
  <1>. QED
    BY <1>1, <1>2

LEMMA ClearMap == ASSUME MapInv, Clear PROVE MapInv'
  <1>1. Stored' = {}
    BY DEF Clear, Stored, Unused
  <1>2. entries' \in [Index -> Entry]
    BY DEF Clear, Unused, Entry, EntryType
  <1>3. FillIsStored'
    BY <1>1, FS_EmptySet DEF Clear, FillIsStored
  <1>4. cursor' = cursor /\ owed' = {}
    BY DEF Clear
  <1>. QED
    BY <1>1, <1>2, <1>3, <1>4 DEF MapInv, TypeInv, Reached, KeysUnique, OwedAhead

\* Steps that leave the memory alone have only the iteration to preserve.
LEMMA MemoryKept ==
    ASSUME MapInv, UNCHANGED <<entries, fill>>, cursor' \in 0 .. Capacity,
           owed' \subseteq Keys, OwedAhead'
    PROVE  MapInv'
  BY DEF MapInv, TypeInv, FillIsStored, Reached, KeysUnique, Stored, Probe

LEMMA FindMap == ASSUME MapInv, NEW k \in Keys, Find(k) PROVE MapInv'
  <1>1. UNCHANGED <<entries, fill, cursor, owed>>
    BY DEF Find, iteration
  <1>. QED
    BY <1>1, MemoryKept DEF MapInv, TypeInv, OwedAhead, Stored

LEMMA BeginMap == ASSUME MapInv, Begin PROVE MapInv'
  <1>1. PICK i \in 0 .. Capacity :
          /\ IsNextStored(0, i)
          /\ cursor' = i
          /\ owed' = {entries[j].key : j \in Stored} \ KeysAt(i)
    BY DEF Begin
  <1>2. UNCHANGED <<entries, fill>>
    BY DEF Begin
  <1>3. owed' \subseteq Keys
    BY <1>1 DEF MapInv, TypeInv
  <1>4. ASSUME NEW k \in owed' PROVE \E j \in Stored : entries[j].key = k /\ i < j
    <2>1. PICK j \in Stored : entries[j].key = k
      BY <1>1, <1>4
    <2>2. j \in Index /\ j >= 0 /\ j < Capacity
      BY CapacityAssumption DEF Stored, Index
    <2>3. i <= j
      BY <1>1, <2>1, <2>2 DEF IsNextStored, Index
    <2>4. i # j
      BY <1>1, <1>4, <2>1, <2>2, CapacityAssumption DEF KeysAt
    <2>. QED
      BY <2>1, <2>2, <2>3, <2>4 DEF Index
  <1>5. OwedAhead'
    BY <1>1, <1>2, <1>4 DEF OwedAhead, Stored
  <1>. QED
    BY <1>1, <1>2, <1>3, <1>5, MemoryKept

LEMMA AdvanceMap == ASSUME MapInv, Advance PROVE MapInv'
  <1>1. PICK i \in 0 .. Capacity :
          IsNextStored(cursor + 1, i) /\ cursor' = i /\ owed' = owed \ KeysAt(i)
    BY DEF Advance
  <1>2. UNCHANGED <<entries, fill>>
    BY DEF Advance
  <1>3. owed' \subseteq Keys /\ cursor \in 0 .. Capacity
    BY <1>1 DEF MapInv, TypeInv
  <1>4. ASSUME NEW k \in owed' PROVE \E j \in Stored : entries[j].key = k /\ i < j
    <2>1. PICK j \in Stored : entries[j].key = k /\ cursor < j
      BY <1>1, <1>4 DEF MapInv, OwedAhead
    <2>2. j \in Index /\ j >= cursor + 1 /\ j < Capacity
      BY <1>3, <2>1, CapacityAssumption DEF Stored, Index
    <2>3. i <= j
      BY <1>1, <1>3, <2>1, <2>2 DEF IsNextStored, Index
    <2>4. i # j
      BY <1>1, <1>4, <2>1, <2>2, CapacityAssumption DEF KeysAt
    <2>. QED
      BY <2>1, <2>2, <2>3, <2>4 DEF Index
  <1>5. OwedAhead'
    BY <1>1, <1>2, <1>4 DEF OwedAhead, Stored
  <1>. QED
    BY <1>1, <1>2, <1>3, <1>5, MemoryKept

LEMMA NextMap == ASSUME MapInv, [Next]_vars PROVE MapInv'
  <1>1. CASE UNCHANGED vars
    BY <1>1, MemoryKept DEF vars, MapInv, TypeInv, OwedAhead, Stored
  <1>2. CASE Next
    BY <1>2, InsertMap, RemoveMap, FindMap, ClearMap, BeginMap, AdvanceMap DEF Next
  <1>. QED
    BY <1>1, <1>2

\* The inductive invariant.
THEOREM MapIsInvariant == Spec => []MapInv
  BY InitMap, NextMap, PTL DEF Spec

\* hash_map__size is the number of keys stored.
THEOREM SizeIsExact == Spec => []FillIsStored
  <1>1. MapInv => FillIsStored
    BY DEF MapInv
  <1>. QED
    BY <1>1, MapIsInvariant, PTL

\* The memory keeps its type, and the size is never more than the capacity.
THEOREM TypeCorrect == Spec => []TypeOK
  <1>1. MapInv => TypeOK
    BY StoredSets, CapacityAssumption DEF MapInv, TypeInv, FillIsStored, TypeOK, Stored
  <1>. QED
    BY <1>1, MapIsInvariant, PTL

\* _hash_map__find reaches every stored key, whatever tombstones the removals
\* have left and wherever the walk wraps.
THEOREM StoredKeysAreFound == Spec => []StoredIsFound
  <1>1. MapInv => StoredIsFound
    BY SearchFinds DEF MapInv, StoredIsFound
  <1>. QED
    BY <1>1, MapIsInvariant, PTL

\* An iteration that has come to its end has returned every key that was stored
\* all the while, whatever was inserted and removed meanwhile.
THEOREM IterationMissesNothing == Spec => []IterationIsComplete
  <1>1. MapInv => IterationIsComplete
    <2>1. ASSUME MapInv, cursor = Capacity, NEW k \in owed PROVE FALSE
      BY <2>1, CapacityAssumption DEF MapInv, OwedAhead, Stored, Index
    <2>. QED
      BY <2>1 DEF IterationIsComplete
  <1>. QED
    BY <1>1, MapIsInvariant, PTL
----------------------------------------------------------------------------
\* Under KeysUnique the choice in StoreView is none.
ViewIsValue ==
    /\ StoreView = [x \in StoredKeys |-> StoreView[x]]
    /\ DOMAIN StoreView = StoredKeys
    /\ \A i \in Stored : /\ entries[i].key \in StoredKeys
                         /\ StoreView[entries[i].key] = entries[i].value

LEMMA ViewIs == MapInv => ViewIsValue
  <1>. SUFFICES ASSUME MapInv PROVE ViewIsValue
    OBVIOUS
  <1>1. StoreView = [x \in StoredKeys |-> StoreView[x]] /\ DOMAIN StoreView = StoredKeys
    BY DEF StoreView
  <1>2. ASSUME NEW i \in Stored
        PROVE  entries[i].key \in StoredKeys /\ StoreView[entries[i].key] = entries[i].value
    <2>1. entries[i].key \in StoredKeys
      BY DEF StoredKeys
    <2>2. (CHOOSE j \in Stored : entries[j].key = entries[i].key) = i
      BY DEF MapInv, KeysUnique
    <2>. QED
      BY <2>1, <2>2 DEF StoreView
  <1>. QED
    BY <1>1, <1>2 DEF ViewIsValue

LEMMA ViewOfNothing == ASSUME Stored = {} PROVE StoredKeys = {} /\ StoreView = <<>>
  <1>1. StoredKeys = {}
    BY DEF StoredKeys
  <1>2. StoreView = [x \in {} |-> x]
    BY <1>1 DEF StoreView
  <1>. QED
    BY <1>1, <1>2

\* The memory unchanged, the map is.
LEMMA ViewKept == ASSUME entries' = entries PROVE StoreView' = StoreView
  BY DEF StoreView, StoredKeys, Stored

LEMMA InitView == Init => MapView!Init
  <1>. SUFFICES ASSUME Init PROVE MapView!Init
    OBVIOUS
  <1>1. Stored = {}
    BY DEF Init, Stored, Unused
  <1>. QED
    BY <1>1, ViewOfNothing DEF Init, MapView!Init

LEMMA InsertView ==
    ASSUME MapInv, MapInv', NEW k \in Keys, NEW v \in Values, Insert(k, v)
    PROVE  MapView!Insert(k, v)
  <1>1. ViewIsValue /\ ViewIsValue'
    BY ViewIs, PTL
  <1>2. CASE Found(k) = {}
    <2>1. reply' = [op |-> "insert", ok |-> FALSE] /\ entries' = entries
      BY <1>2 DEF Insert
    <2>2. k \notin StoredKeys
      BY <1>2, SearchFinds DEF MapInv, StoredKeys
    <2>. QED
      BY <1>1, <2>1, <2>2, ViewKept DEF MapView!Insert, ViewIsValue
  <1>3. CASE Found(k) # {}
    <2>1. PICK i \in Found(k) :
            /\ entries' = [entries EXCEPT ![i] = InUse(k, v)]
            /\ reply' = [op |-> "insert", ok |-> TRUE]
      BY <1>3 DEF Insert
    <2>2. /\ Stored' = Stored \cup {i} /\ i \in Index /\ Stored \subseteq Index
          /\ entries'[i].key = k /\ entries'[i].value = v
          /\ \A j \in Stored \ {i} : entries'[j] = entries[j] /\ entries[j].key # k
      BY <2>1, InsertStep DEF InUse, Stored
    <2>3. StoredKeys' = StoredKeys \cup {k}
      <3>1. i \in Stored => entries[i].key = k
        BY <2>1, FoundIsRoom DEF MapInv, Holds
      <3>2. StoredKeys' = {entries'[j].key : j \in Stored'}
        BY DEF StoredKeys
      <3>. QED
        BY <2>2, <3>1, <3>2 DEF StoredKeys
    <2>4. ASSUME NEW x \in StoredKeys'
          PROVE  StoreView'[x] = IF x = k THEN v ELSE StoreView[x]
      <3>1. PICK j \in Stored' : entries'[j].key = x
        BY DEF StoredKeys
      <3>2. StoreView'[x] = entries'[j].value
        BY <1>1, <3>1 DEF ViewIsValue
      <3>. QED
        BY <1>1, <2>2, <3>1, <3>2 DEF ViewIsValue
    <2>5. StoreView' = [x \in StoredKeys' |-> StoreView'[x]]
      BY <1>1 DEF ViewIsValue
    <2>6. StoreView' = [x \in DOMAIN StoreView \cup {k} |-> IF x = k THEN v ELSE StoreView[x]]
      BY <1>1, <2>3, <2>4, <2>5 DEF ViewIsValue
    <2>. QED
      BY <2>1, <2>6 DEF MapView!Insert
  <1>. QED
    BY <1>2, <1>3

LEMMA RemoveView ==
    ASSUME MapInv, MapInv', NEW k \in Keys, Remove(k)
    PROVE  MapView!Remove(k)
  <1>1. ViewIsValue /\ ViewIsValue'
    BY ViewIs, PTL
  <1>2. CASE FoundStored(k) = {}
    <2>1. reply' = [op |-> "remove", ok |-> FALSE] /\ entries' = entries
      BY <1>2 DEF Remove
    <2>2. k \notin StoredKeys
      BY <1>2, FoundHolds DEF StoredKeys
    <2>3. StoreView' = [x \in StoredKeys \ {k} |-> StoreView[x]]
      BY <1>1, <2>1, <2>2, ViewKept DEF ViewIsValue
    <2>4. StoreView' = [x \in DOMAIN StoreView \ {k} |-> StoreView[x]]
      BY <1>1, <2>3 DEF ViewIsValue
    <2>5. (k \in DOMAIN StoreView) = FALSE
      BY <1>1, <2>2 DEF ViewIsValue
    <2>6. reply' = [op |-> "remove", ok |-> k \in DOMAIN StoreView]
      BY <2>1, <2>5
    <2>. QED
      BY <2>4, <2>6 DEF MapView!Remove
  <1>3. CASE FoundStored(k) # {}
    <2>1. PICK i \in FoundStored(k) :
            /\ entries' = [entries EXCEPT ![i] = Unused("tombstone")]
            /\ reply' = [op |-> "remove", ok |-> TRUE]
      BY <1>3 DEF Remove
    <2>2. i \in Stored /\ entries[i].key = k /\ Stored \subseteq Index
      BY FoundHolds DEF Stored
    <2>3. entries'[i].type = "tombstone" /\ \A j \in Index \ {i} : entries'[j] = entries[j]
      BY <2>1, <2>2 DEF MapInv, TypeInv, Unused
    <2>4. Stored' = Stored \ {i}
      BY <2>2, <2>3 DEF Stored
    <2>5. \A j \in Stored \ {i} : entries'[j] = entries[j] /\ entries[j].key # k
      BY <2>2, <2>3 DEF MapInv, KeysUnique, Stored
    <2>6. StoredKeys' = StoredKeys \ {k}
      <3>1. StoredKeys' = {entries'[j].key : j \in Stored'}
        BY DEF StoredKeys
      <3>. QED
        BY <2>2, <2>4, <2>5, <3>1 DEF StoredKeys
    <2>7. ASSUME NEW x \in StoredKeys' PROVE StoreView'[x] = StoreView[x]
      <3>1. PICK j \in Stored' : entries'[j].key = x
        BY DEF StoredKeys
      <3>2. StoreView'[x] = entries'[j].value
        BY <1>1, <3>1 DEF ViewIsValue
      <3>. QED
        BY <1>1, <2>4, <2>5, <3>1, <3>2 DEF ViewIsValue
    <2>8. StoreView' = [x \in StoredKeys' |-> StoreView'[x]]
      BY <1>1 DEF ViewIsValue
    <2>9. StoreView' = [x \in DOMAIN StoreView \ {k} |-> StoreView[x]]
      BY <1>1, <2>6, <2>7, <2>8 DEF ViewIsValue
    <2>10. k \in DOMAIN StoreView
      BY <1>1, <2>2 DEF ViewIsValue
    <2>11. reply' = [op |-> "remove", ok |-> k \in DOMAIN StoreView]
      BY <2>1, <2>10
    <2>. QED
      BY <2>9, <2>11 DEF MapView!Remove
  <1>. QED
    BY <1>2, <1>3

LEMMA FindView ==
    ASSUME MapInv, NEW k \in Keys, Find(k)
    PROVE  MapView!Find(k)
  <1>1. ViewIsValue
    BY ViewIs
  <1>2. StoreView' = StoreView
    BY ViewKept DEF Find
  <1>3. CASE FoundStored(k) = {}
    <2>1. k \notin StoredKeys
      BY <1>3, FoundHolds DEF StoredKeys
    <2>. QED
      BY <1>1, <1>2, <1>3, <2>1 DEF Find, MapView!Find, ViewIsValue
  <1>4. CASE FoundStored(k) # {}
    <2>1. PICK i \in FoundStored(k) : reply' = [op |-> "find", value |-> entries[i].value]
      BY <1>4 DEF Find
    <2>2. i \in Stored /\ entries[i].key = k
      BY FoundHolds
    <2>3. k \in DOMAIN StoreView /\ StoreView[k] = entries[i].value
      BY <1>1, <2>2 DEF ViewIsValue
    <2>. QED
      BY <1>2, <2>1, <2>3 DEF MapView!Find
  <1>. QED
    BY <1>3, <1>4

LEMMA ClearView == ASSUME Clear PROVE MapView!Clear
  <1>1. Stored' = {}
    BY DEF Clear, Stored, Unused
  <1>2. StoredKeys' = {}
    BY <1>1 DEF StoredKeys
  <1>3. StoreView' = [x \in {} |-> x]
    BY <1>2 DEF StoreView
  <1>. QED
    BY <1>3 DEF Clear, MapView!Clear

LEMMA NextView == ASSUME MapInv, MapInv', [Next]_vars PROVE [MapView!Next]_MapView!vars
  <1>1. CASE UNCHANGED vars
    BY <1>1, ViewKept DEF vars, MapView!vars
  <1>2. ASSUME NEW k \in Keys, NEW v \in Values, Insert(k, v) PROVE MapView!Next
    BY <1>2, InsertView DEF MapView!Next
  <1>3. ASSUME NEW k \in Keys, Remove(k) \/ Find(k) PROVE MapView!Next
    BY <1>3, RemoveView, FindView DEF MapView!Next
  <1>4. CASE Clear
    BY <1>4, ClearView DEF MapView!Next
  <1>5. CASE Begin \/ Advance
    BY <1>5, ViewKept DEF Begin, Advance, MapView!vars
  <1>. QED
    BY <1>1, <1>2, <1>3, <1>4, <1>5 DEF Next

\* The memory implements a map: no answer of insert, remove and find differs
\* from the map's, only inserts of new keys are refused, and an iteration
\* changes nothing.
THEOREM MemoryImplementsMap == Spec => ImplementsMap
  <1>1. MapInv /\ MapInv' /\ [Next]_vars => [MapView!Next]_MapView!vars
    BY NextView
  <1>. QED
    BY <1>1, InitView, MapIsInvariant, PTL DEF Spec, ImplementsMap, MapView!Spec
=============================================================================
