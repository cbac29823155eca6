------------------------------ MODULE TableProofs ------------------------------
(***************************************************************************)
(* Proofs about Table and its use as StringPool.                           *)
(*                                                                         *)
(* Whatever the strings, their hashes and the history of the table, every  *)
(* probe ends, every entry is found, and the table is a map, before,       *)
(* during and after a rehash.  The invariant that carries them says of the *)
(* slots what table.c's author has to believe: nothing unused and no       *)
(* second copy of a key lies between a key's home and its slot             *)
(* (Reachable), the slots ever used are at most three quarters of the      *)
(* array and no more than count (Load), and the new array of a rehash      *)
(* holds exactly what has been moved so far (Moving).                      *)
(*                                                                         *)
(* No two strings with the same characters exist, whatever is allocated,   *)
(* found again and collected in whatever order; and the pool holds the     *)
(* strings that exist and, besides, only those that a collection within a  *)
(* free has taken from under it.  The invariant adds to that of the table  *)
(* what the strings have to do with it.  Present are the keys of the table *)
(* and, while the table grows for it, the string to be added: they are the *)
(* strings that exist and those left behind, and have different            *)
(* characters.  That table_find_string then overlooks none is a fact about *)
(* probing (FindStringFinds).                                              *)
(***************************************************************************)
EXTENDS StringPool, Minimum

USE TableAssumption

-----------------------------------------------------------------------------
(* Probing.                                                                  *)

Slots(cap) == 0..cap - 1

LEMMA HomeIsSlot ==
  ASSUME NEW k \in Keys, NEW cap \in Nat, cap > 0
  PROVE  Home(k, cap) \in Slots(cap)
<1>1. Hash[k] \in Nat
  OBVIOUS
<1>2. QED
  BY <1>1 DEF Home, Slots

LEMMA DistanceIsNatural ==
  ASSUME NEW cap \in Nat, NEW h \in Slots(cap), NEW j \in Slots(cap)
  PROVE  Distance(h, j, cap) \in Nat
BY DEF Slots, Distance

\* A probe meets a slot once before it is back at its start.
LEMMA DistanceInjective ==
  ASSUME NEW cap \in Nat, NEW h \in Slots(cap), NEW i \in Slots(cap), NEW j \in Slots(cap),
         Distance(h, i, cap) = Distance(h, j, cap)
  PROVE  i = j
BY DEF Slots, Distance

\* A probe meets the slots of a set in some order, and one of them first.
LEMMA FirstIsFirst ==
  ASSUME NEW cap \in Nat, NEW h \in Slots(cap), NEW S \in SUBSET Slots(cap), S # {}
  PROVE  /\ First(S, h, cap) \in S
         /\ \A i \in S : Distance(h, First(S, h, cap), cap) <= Distance(h, i, cap)
<1> DEFINE D == {Distance(h, j, cap) : j \in S}
<1>1. D \in SUBSET Nat /\ D # {}
  BY DistanceIsNatural
<1>2. PICK m \in D : \A n \in D : m <= n
  <2> HIDE DEF D
  <2> QED
    BY <1>1, LeastNatural
<1>3. \E j \in S : \A i \in S : Distance(h, j, cap) <= Distance(h, i, cap)
  BY <1>2
<1>4. QED
  BY <1>3 DEF First

LEMMA FirstIsOnly ==
  ASSUME NEW cap \in Nat, NEW h \in Slots(cap), NEW S \in SUBSET Slots(cap), NEW j \in S,
         \A i \in S : i # j => ~(Distance(h, i, cap) < Distance(h, j, cap))
  PROVE  First(S, h, cap) = j
<1> DEFINE f == First(S, h, cap)
<1>1. f \in S /\ Distance(h, f, cap) <= Distance(h, j, cap)
  BY FirstIsFirst
<1> HIDE DEF f
<1>2. Distance(h, f, cap) \in Nat /\ Distance(h, j, cap) \in Nat /\ f \in Slots(cap) /\ j \in Slots(cap)
  BY <1>1, DistanceIsNatural
<1>3. f = j
  BY <1>1, <1>2, DistanceInjective
<1>4. QED
  BY <1>3 DEF f

-----------------------------------------------------------------------------
(* Finding an entry.                                                         *)

\* A probe for k meets slot i before slot j.
Before(i, j, k, cap) == Distance(Home(k, cap), i, cap) < Distance(Home(k, cap), j, cap)

\* What a probe for the key of slot j meets on its way to j is used and is another key.
Reachable(es, cap) ==
  \A i, j \in Slots(cap) :
    es[j].key # NULL /\ Before(i, j, es[j].key, cap) => es[i].key # es[j].key /\ ~Unused(es[i])

Roomy(es, cap) == \E j \in Slots(cap) : Unused(es[j])

\* No two slots have one key.
LEMMA KeysDistinct ==
  ASSUME NEW cap \in Nat, NEW es \in Array(cap), Reachable(es, cap),
         NEW i \in Slots(cap), NEW j \in Slots(cap), es[i].key = es[j].key, es[i].key # NULL
  PROVE  i = j
<1>1. cap > 0 /\ es[i].key \in Keys
  BY DEF Slots, Array, Entry
<1>2. Home(es[i].key, cap) \in Slots(cap)
  BY <1>1, HomeIsSlot
<1>3. ~Before(i, j, es[j].key, cap) /\ ~Before(j, i, es[i].key, cap)
  BY DEF Reachable
<1> DEFINE h == Home(es[i].key, cap)
<1>4. Distance(h, i, cap) \in Nat /\ Distance(h, j, cap) \in Nat
  BY <1>2, DistanceIsNatural
<1>5. ~(Distance(h, i, cap) < Distance(h, j, cap)) /\ ~(Distance(h, j, cap) < Distance(h, i, cap))
  BY <1>3 DEF Before
<1>6. Distance(h, i, cap) = Distance(h, j, cap)
  <2> HIDE DEF h
  <2> QED
    BY <1>4, <1>5
<1>7. QED
  BY <1>2, <1>6, DistanceInjective

\* A probe for a key that has a slot stops there first.
LEMMA StopsAtKey ==
  ASSUME NEW cap \in Nat, NEW es \in Array(cap), Reachable(es, cap),
         NEW j \in Slots(cap), es[j].key # NULL
  PROVE  /\ First(Stops(es, cap, es[j].key), Home(es[j].key, cap), cap) = j
         /\ FindEntry(es, cap, es[j].key) = j
<1> DEFINE k == es[j].key
           S == Stops(es, cap, k)
           h == Home(k, cap)
<1>1. cap > 0 /\ k \in Keys
  BY DEF Slots, Array, Entry
<1>2. h \in Slots(cap)
  BY <1>1, HomeIsSlot
<1>3. S \in SUBSET Slots(cap) /\ j \in S
  BY DEF Stops, Slots
<1>4. \A i \in S : ~(Distance(h, i, cap) < Distance(h, j, cap))
  BY DEF Reachable, Before, Stops, Slots
<1>5. First(S, h, cap) = j
  <2> HIDE DEF S, h
  <2> QED
    BY <1>2, <1>3, <1>4, FirstIsOnly
<1>6. QED
  BY <1>5 DEF FindEntry

\* Where a probe for k ends: at its slot if it has one, or else at one without a key that
\* every probe for k reaches.
Ends(es, cap, k, f) ==
  /\ f \in Slots(cap) /\ es[f].key \in {k, NULL}
  /\ \A i \in Slots(cap) : Before(i, f, k, cap) => es[i].key # k /\ ~Unused(es[i])
  /\ es[f].key = NULL => \A i \in Slots(cap) : es[i].key # k

LEMMA FindEntryEnds ==
  ASSUME NEW cap \in Nat, NEW es \in Array(cap), Reachable(es, cap), Roomy(es, cap), NEW k \in Keys
  PROVE  Ends(es, cap, k, FindEntry(es, cap, k))
<1> DEFINE S == Stops(es, cap, k)
           h == Home(k, cap)
           stop == First(S, h, cap)
           G == {j \in 0..cap - 1 : Deleted(es[j]) /\ Distance(h, j, cap) < Distance(h, stop, cap)}
           f == FindEntry(es, cap, k)
<1> SUFFICES Ends(es, cap, k, f)
  OBVIOUS
<1>1. cap > 0
  BY DEF Roomy, Slots
<1>2. h \in Slots(cap)
  BY <1>1, HomeIsSlot
<1>3. S \in SUBSET Slots(cap) /\ S # {}
  BY DEF Stops, Slots, Roomy
<1>4. stop \in S /\ \A i \in S : Distance(h, stop, cap) <= Distance(h, i, cap)
  <2> HIDE DEF S, h
  <2> QED
    BY <1>2, <1>3, FirstIsFirst
<1>5. stop \in Slots(cap) /\ (es[stop].key = k \/ Unused(es[stop]))
  BY <1>4 DEF Stops, Slots
<1>6. \A i \in Slots(cap) : Distance(h, i, cap) \in Nat
  BY <1>2, DistanceIsNatural
<1>7. \A i \in Slots(cap) : Distance(h, i, cap) < Distance(h, stop, cap) => es[i].key # k /\ ~Unused(es[i])
  <2> SUFFICES ASSUME NEW i \in Slots(cap), es[i].key = k \/ Unused(es[i])
               PROVE  ~(Distance(h, i, cap) < Distance(h, stop, cap))
    OBVIOUS
  <2>1. i \in S
    BY DEF Stops, Slots
  <2>2. Distance(h, stop, cap) <= Distance(h, i, cap)
    BY <1>4, <2>1
  <2> HIDE DEF h, stop
  <2>3. QED
    BY <1>5, <1>6, <2>2
<1>8. es[stop].key # k => \A i \in Slots(cap) : es[i].key # k
  <2> SUFFICES ASSUME es[stop].key # k, NEW i \in Slots(cap), es[i].key = k PROVE FALSE
    OBVIOUS
  <2>1. es[i].key # NULL /\ First(Stops(es, cap, es[i].key), Home(es[i].key, cap), cap) = i
    BY StopsAtKey
  <2>2. QED
    BY <2>1
<1>9. f = IF es[stop].key = k \/ G = {} THEN stop ELSE First(G, h, cap)
  BY DEF FindEntry
<1>10. CASE es[stop].key = k \/ G = {}
  <2>1. f = stop
    BY <1>9, <1>10
  <2>2. es[stop].key \in {k, NULL}
    BY <1>5 DEF Unused
  <2> HIDE DEF f, stop
  <2>3. QED
    BY <1>5, <1>7, <1>8, <2>1, <2>2 DEF Ends, Before
<1>11. CASE ~(es[stop].key = k \/ G = {})
  <2>1. G \in SUBSET Slots(cap) /\ G # {}
    BY <1>11 DEF Slots
  <2>2. f \in G
    <3> HIDE DEF G, h, f
    <3>1. First(G, h, cap) \in G
      BY <1>2, <2>1, FirstIsFirst
    <3>2. QED
      BY <1>9, <1>11, <3>1
  <2>3. f \in Slots(cap) /\ es[f].key = NULL /\ Distance(h, f, cap) < Distance(h, stop, cap)
    <3> HIDE DEF f, stop, h
    <3> QED
      BY <2>2 DEF Slots, Deleted
  <2>4. \A i \in Slots(cap) : Distance(h, i, cap) < Distance(h, f, cap)
                              => Distance(h, i, cap) < Distance(h, stop, cap)
    <3> HIDE DEF f, stop, h
    <3> QED
      BY <1>5, <1>6, <2>3
  <2>5. es[stop].key # k
    BY <1>11
  <2> HIDE DEF f, stop
  <2>6. QED
    BY <1>7, <1>8, <2>3, <2>4, <2>5 DEF Ends, Before
<1>12. QED
  BY <1>10, <1>11

\* Putting k where the probe for it ends keeps every key in the reach of its probe.
LEMMA PutReachable ==
  ASSUME NEW cap \in Nat, NEW es \in Array(cap), Reachable(es, cap), NEW k \in Keys,
         NEW f, Ends(es, cap, k, f), NEW v \in Values
  PROVE  Put(es, f, k, v) \in Array(cap) /\ Reachable(Put(es, f, k, v), cap)
<1> DEFINE E == Put(es, f, k, v)
<1>1. f \in Slots(cap) /\ E \in Array(cap) /\ E[f].key = k /\ k # NULL
      /\ \A i \in Slots(cap) : i # f => E[i] = es[i]
  BY DEF Ends, Put, Array, Slots, Entry
<1>2. \A i \in Slots(cap) : es[i].key = k => i = f
  <2> SUFFICES ASSUME NEW i \in Slots(cap), es[i].key = k PROVE i = f
    OBVIOUS
  <2>1. es[f].key = k
    BY DEF Ends
  <2>2. QED
    BY <1>1, <2>1, KeysDistinct
<1> HIDE DEF E
<1>3. ASSUME NEW i \in Slots(cap), NEW j \in Slots(cap), E[j].key # NULL, Before(i, j, E[j].key, cap)
      PROVE  E[i].key # E[j].key /\ ~Unused(E[i])
  <2>1. i # j
    <3>1. cap > 0 /\ E[j].key \in Keys
      BY <1>1, <1>3 DEF Slots, Array, Entry
    <3>2. Distance(Home(E[j].key, cap), i, cap) \in Nat
      BY <3>1, HomeIsSlot, DistanceIsNatural
    <3>3. QED
      BY <1>3, <3>2 DEF Before
  <2>2. CASE j = f
    BY <1>1, <1>3, <2>1, <2>2 DEF Ends
  <2>3. CASE j # f /\ i = f
    BY <1>1, <1>2, <2>3 DEF Unused
  <2>4. CASE j # f /\ i # f
    BY <1>1, <1>3, <2>4 DEF Reachable
  <2>5. QED
    BY <2>2, <2>3, <2>4
<1>4. QED
  BY <1>1, <1>3 DEF Reachable, E

\* A tombstone is no gap.
LEMMA ErasedReachable ==
  ASSUME NEW cap \in Nat, NEW es \in Array(cap), Reachable(es, cap), NEW f \in Slots(cap)
  PROVE  Erased(es, {f}) \in Array(cap) /\ Reachable(Erased(es, {f}), cap)
<1> DEFINE E == Erased(es, {f})
<1>1. E \in Array(cap) /\ E[f].key = NULL /\ ~Unused(E[f]) /\ \A i \in Slots(cap) : i # f => E[i] = es[i]
  BY DEF Erased, Tombstone, Array, Slots, Entry, Unused
<1> HIDE DEF E
<1>2. Reachable(E, cap)
  BY <1>1 DEF Reachable
<1>3. QED
  BY <1>1, <1>2 DEF E

-----------------------------------------------------------------------------
(* The inductive invariant.                                                  *)

Used(es, cap) == {j \in Slots(cap) : ~Unused(es[j])}

\* The entries that adjust_capacity has moved to the new array.
Moved == {i \in 0..next - 1 : entries[i].key # NULL}

\* Every slot that was ever used since the last rehash has been counted, some more than once.
Load ==
  /\ capacity = 0 \/ capacity >= MinCapacity
  /\ 4 * Cardinality(Used(entries, capacity)) <= 3 * capacity
  /\ phase # "copy" => Cardinality(Used(entries, capacity)) <= count /\ 4 * count <= 3 * capacity
  /\ phase = "store" => 4 * (count + 1) <= 3 * capacity

\* The new array holds the entries moved to it and no others.
Moving ==
  phase = "copy" =>
    /\ Reachable(fresh, GrownCapacity)
    /\ Cardinality(Used(fresh, GrownCapacity)) <= count
    /\ count <= Cardinality(Moved)
    /\ \A i \in Moved : \E j \in Slots(GrownCapacity) : fresh[j] = entries[i]
    /\ \A j \in Slots(GrownCapacity) : fresh[j].key # NULL => \E i \in Moved : fresh[j] = entries[i]

IInv ==
  /\ TypeOK
  /\ phase # "idle" => pending \in Arguments
  /\ Reachable(entries, capacity)
  /\ Load
  /\ Moving

-----------------------------------------------------------------------------
(* Counting slots.                                                           *)

LEMMA SlotsFinite ==
  ASSUME NEW cap \in Nat, NEW S \in SUBSET Slots(cap)
  PROVE  IsFiniteSet(S) /\ Cardinality(S) \in Nat /\ Cardinality(S) <= cap
<1>1. IsFiniteSet(Slots(cap)) /\ Cardinality(Slots(cap)) = cap
  BY FS_Interval DEF Slots
<1>2. IsFiniteSet(S) /\ Cardinality(S) <= Cardinality(Slots(cap))
  BY <1>1, FS_Subset
<1>3. QED
  BY <1>1, <1>2, FS_CardinalityType

LEMMA AtMostOneMore ==
  ASSUME NEW cap \in Nat, NEW S \in SUBSET Slots(cap), NEW x, NEW T \in SUBSET (S \cup {x})
  PROVE  Cardinality(T) <= Cardinality(S) + 1
<1>1. IsFiniteSet(S) /\ Cardinality(S) \in Nat
  BY SlotsFinite
<1>2. IsFiniteSet(S \cup {x}) /\ Cardinality(S \cup {x}) <= Cardinality(S) + 1
  <2>1. /\ IsFiniteSet(S \cup {x})
        /\ Cardinality(S \cup {x}) = IF x \in S THEN Cardinality(S) ELSE Cardinality(S) + 1
    BY <1>1, FS_AddElement, Zenon
  <2>2. QED
    BY <1>1, <2>1
<1>3. IsFiniteSet(T) /\ Cardinality(T) <= Cardinality(S \cup {x})
  BY <1>2, FS_Subset
<1>4. Cardinality(T) \in Nat /\ Cardinality(S \cup {x}) \in Nat
  BY <1>2, <1>3, FS_CardinalityType
<1>5. QED
  BY <1>1, <1>2, <1>3, <1>4

\* An array of which three quarters are used at most ends every probe.
LEMMA LoadLeavesRoom ==
  ASSUME NEW cap \in Nat, cap > 0, NEW es, 4 * Cardinality(Used(es, cap)) <= 3 * cap
  PROVE  Roomy(es, cap)
<1> SUFFICES ASSUME ~Roomy(es, cap) PROVE FALSE
  OBVIOUS
<1>1. Used(es, cap) = Slots(cap)
  BY DEF Used, Roomy
<1>2. Cardinality(Slots(cap)) = cap
  BY FS_Interval DEF Slots
<1>3. QED
  BY <1>1, <1>2

\* Filling or erasing a slot uses one slot more, or none if it was in use.
LEMMA PutUses ==
  ASSUME NEW cap \in Nat, NEW es \in Array(cap), NEW f \in Slots(cap), NEW k \in Keys, NEW v \in Values
  PROVE  /\ Cardinality(Used(Put(es, f, k, v), cap)) <= Cardinality(Used(es, cap)) + 1
         /\ es[f].key # NULL => Used(Put(es, f, k, v), cap) = Used(es, cap)
<1> DEFINE E == Put(es, f, k, v)
<1>1. \A i \in Slots(cap) : i # f => E[i] = es[i]
  BY DEF Put, Array, Slots
<1>2. E[f].key = k /\ k # NULL
  BY DEF Put, Array, Slots
<1> HIDE DEF E
<1>3. Used(es, cap) \in SUBSET Slots(cap) /\ Used(E, cap) \in SUBSET (Used(es, cap) \cup {f})
  BY <1>1 DEF Used
<1>4. es[f].key # NULL => Used(E, cap) = Used(es, cap)
  BY <1>1, <1>2 DEF Used, Unused
<1>5. QED
  BY <1>3, <1>4, AtMostOneMore DEF E

LEMMA ErasedUses ==
  ASSUME NEW cap \in Nat, NEW es \in Array(cap), NEW f \in Slots(cap)
  PROVE  /\ Cardinality(Used(Erased(es, {f}), cap)) <= Cardinality(Used(es, cap)) + 1
         /\ es[f].key # NULL => Used(Erased(es, {f}), cap) = Used(es, cap)
<1> DEFINE E == Erased(es, {f})
<1>1. \A i \in Slots(cap) : i # f => E[i] = es[i]
  BY DEF Erased, Array, Slots
<1>2. ~Unused(E[f])
  BY DEF Erased, Array, Slots, Tombstone, Unused
<1> HIDE DEF E
<1>3. Used(es, cap) \in SUBSET Slots(cap) /\ Used(E, cap) \in SUBSET (Used(es, cap) \cup {f})
  BY <1>1 DEF Used
<1>4. es[f].key # NULL => Used(E, cap) = Used(es, cap)
  BY <1>1, <1>2 DEF Used, Unused
<1>5. QED
  BY <1>3, <1>4, AtMostOneMore DEF E

\* No slot of an array of empty entries is used.
LEMMA EmptyArrayUses ==
  ASSUME NEW cap \in Nat
  PROVE  /\ EmptyArray(cap) \in Array(cap) /\ Reachable(EmptyArray(cap), cap)
         /\ Used(EmptyArray(cap), cap) = {} /\ Cardinality(Used(EmptyArray(cap), cap)) = 0
         /\ \A j \in Slots(cap) : EmptyArray(cap)[j].key = NULL
<1>1. \A j \in Slots(cap) : EmptyArray(cap)[j] = Empty
  BY DEF EmptyArray, Slots
<1>2. EmptyArray(cap) \in Array(cap)
  BY DEF EmptyArray, Array, Entry, Empty
<1>3. Empty.key = NULL /\ Unused(Empty)
  BY DEF Empty, Unused
<1>4. Used(EmptyArray(cap), cap) = {}
  BY <1>1, <1>3 DEF Used
<1>5. Reachable(EmptyArray(cap), cap)
  BY <1>1, <1>3 DEF Reachable
<1>6. QED
  BY <1>1, <1>2, <1>3, <1>4, <1>5, FS_EmptySet

-----------------------------------------------------------------------------
(* Every step keeps the invariant.                                           *)

LEMMA IInvInit == Init => IInv
<1> SUFFICES ASSUME Init PROVE IInv
  OBVIOUS
<1>1. capacity = 0 /\ entries = EmptyArray(0) /\ phase = "idle" /\ count = 0
  BY DEF Init
<1>2. TypeOK
  BY EmptyArrayUses DEF Init, TypeOK, Answers
<1>3. Load
  BY <1>1, EmptyArrayUses DEF Load
<1>4. QED
  BY <1>1, <1>2, <1>3, EmptyArrayUses DEF IInv, Moving

\* What the invariant says of a table with room for one more entry.
LEMMA SlotForOneMore ==
  ASSUME IInv, phase # "copy", 4 * (count + 1) <= 3 * capacity, NEW k \in Keys
  PROVE  /\ capacity \in Nat /\ capacity > 0 /\ count \in Nat /\ entries \in Array(capacity)
         /\ Reachable(entries, capacity) /\ Roomy(entries, capacity)
         /\ Ends(entries, capacity, k, Slot(k)) /\ Slot(k) \in Slots(capacity)
<1>1. capacity \in Nat /\ count \in Nat /\ entries \in Array(capacity)
  BY DEF IInv, TypeOK
<1>2. capacity > 0
  BY <1>1
<1>3. Reachable(entries, capacity) /\ Roomy(entries, capacity)
  BY <1>1, <1>2, LoadLeavesRoom DEF IInv, Load
<1>4. QED
  BY <1>1, <1>2, <1>3, FindEntryEnds DEF Slot, Ends

LEMMA StoreKeeps ==
  ASSUME IInv, phase # "copy", 4 * (count + 1) <= 3 * capacity,
         NEW k \in Keys, NEW v \in Values, NEW mustExist \in BOOLEAN, StoreEntry(k, v, mustExist)
  PROVE  IInv'
<1> DEFINE j == Slot(k)
           isNew == entries[j].key = NULL
           n == Cardinality(Used(entries, capacity))
           m == Cardinality(Used(entries', capacity))
<1>1. /\ capacity \in Nat /\ capacity > 0 /\ count \in Nat /\ entries \in Array(capacity)
      /\ Reachable(entries, capacity) /\ Roomy(entries, capacity)
      /\ Ends(entries, capacity, k, j) /\ j \in Slots(capacity)
  BY SlotForOneMore
<1>2. /\ count' = IF isNew THEN count + 1 ELSE count
      /\ entries' = IF isNew /\ mustExist THEN Erased(entries, {j}) ELSE Put(entries, j, k, v)
      /\ answer' = IF ~isNew THEN "old" ELSE IF mustExist THEN "undefined" ELSE "new"
      /\ phase' = "idle" /\ pending' = NULL /\ capacity' = capacity /\ fresh' = fresh /\ next' = next
  BY DEF StoreEntry
<1> HIDE DEF j
<1>3. entries' \in Array(capacity) /\ Reachable(entries', capacity)
  BY <1>1, <1>2, PutReachable, ErasedReachable
<1>4. m <= n + 1 /\ (~isNew => m = n)
  BY <1>1, <1>2, PutUses, ErasedUses
<1>5. n \in Nat /\ m \in Nat
  BY <1>1, SlotsFinite DEF Used
<1>6. Load /\ TypeOK
  BY DEF IInv
<1>7. n <= count
  BY <1>6 DEF Load
<1>8. m <= count' /\ 4 * count' <= 3 * capacity
  <2> HIDE DEF n, m, isNew
  <2> QED
    BY <1>1, <1>2, <1>4, <1>5, <1>7
<1>9. 4 * m <= 3 * capacity
  <2>1. \A x, y, z \in Nat : x <= y /\ 4 * y <= 3 * z => 4 * x <= 3 * z
    OBVIOUS
  <2>2. count' \in Nat
    BY <1>1, <1>2
  <2>3. QED
    BY <1>1, <1>5, <1>8, <2>1, <2>2
<1>10. Load'
  BY <1>2, <1>6, <1>8, <1>9 DEF Load
<1>11. TypeOK'
  BY <1>1, <1>2, <1>3, <1>6 DEF TypeOK, Answers
<1>12. QED
  BY <1>2, <1>3, <1>10, <1>11 DEF IInv, Moving

LEMMA SetKeeps ==
  ASSUME IInv, NEW k \in Keys, NEW v \in Values, NEW mustExist \in BOOLEAN, Set(k, v, mustExist)
  PROVE  IInv'
<1>1. TypeOK /\ Load /\ phase = "idle" /\ Reachable(entries, capacity)
  BY DEF IInv, Set
<1>2. CASE ~Crowded
  <2>1. 4 * (count + 1) <= 3 * capacity
    BY <1>1, <1>2 DEF Crowded, TypeOK
  <2>2. QED
    BY <1>1, <1>2, <2>1, StoreKeeps DEF Set
<1>3. CASE Crowded
  <2>1. /\ count' = 0 /\ fresh' = EmptyArray(GrownCapacity) /\ next' = 0 /\ phase' = "copy"
        /\ pending' = [key |-> k, value |-> v, mustExist |-> mustExist]
        /\ UNCHANGED <<capacity, entries, answer>>
    BY <1>3 DEF Set
  <2>2. GrownCapacity \in Nat /\ GrownCapacity' = GrownCapacity
    BY <1>1, <2>1 DEF GrownCapacity, TypeOK
  <2>3. TypeOK'
    BY <1>1, <2>1, <2>2, EmptyArrayUses DEF TypeOK, Arguments
  <2>4. Load'
    BY <1>1, <2>1 DEF Load
  <2>5. Moved' = {}
    BY <2>1 DEF Moved
  <2>6. Moving'
    BY <2>1, <2>2, <2>5, EmptyArrayUses, FS_EmptySet DEF Moving
  <2>7. pending' \in Arguments
    BY <2>1 DEF Arguments
  <2>8. QED
    BY <1>1, <2>1, <2>3, <2>4, <2>6, <2>7 DEF IInv
<1>4. QED
  BY <1>2, <1>3

LEMMA DeleteKeeps ==
  ASSUME IInv, NEW k \in Keys, Delete(k)
  PROVE  IInv'
<1>1. TypeOK /\ Load /\ phase = "idle" /\ Reachable(entries, capacity)
      /\ capacity \in Nat /\ entries \in Array(capacity) /\ count \in Nat
  BY DEF IInv, Delete, TypeOK
<1>2. CASE Has(k)
  <2>1. entries' = Erased(entries, {Slot(k)}) /\ answer' = entries[Slot(k)].value
        /\ UNCHANGED <<count, capacity, phase, fresh, next, pending>>
    BY <1>2 DEF Delete
  <2>2. Cardinality(Used(entries, capacity)) <= count /\ 4 * count <= 3 * capacity /\ count # 0
    BY <1>1, <1>2 DEF Load, Has
  <2>3. Roomy(entries, capacity)
    <3>1. capacity > 0
      BY <1>1, <2>2
    <3>2. QED
      BY <1>1, <3>1, LoadLeavesRoom DEF Load
  <2>4. Slot(k) \in Slots(capacity) /\ entries[Slot(k)].key # NULL
    BY <1>1, <1>2, <2>3, FindEntryEnds DEF Slot, Ends, Has
  <2>5. entries' \in Array(capacity) /\ Reachable(entries', capacity)
    BY <1>1, <2>1, <2>4, ErasedReachable
  <2>6. Used(entries', capacity) = Used(entries, capacity)
    BY <1>1, <2>1, <2>4, ErasedUses
  <2>7. Load'
    BY <1>1, <2>1, <2>6 DEF Load
  <2>8. answer' \in Values
    BY <1>1, <2>1, <2>4 DEF Array, Entry, Slots
  <2>9. TypeOK'
    BY <1>1, <2>1, <2>5, <2>8 DEF TypeOK, Answers
  <2>10. QED
    BY <1>1, <2>1, <2>5, <2>7, <2>9 DEF IInv, Moving
<1>3. CASE ~Has(k)
  <2>1. answer' = "absent" /\ UNCHANGED <<entries, count, capacity, phase, fresh, next, pending>>
    BY <1>3 DEF Delete
  <2>2. TypeOK' /\ Load'
    BY <1>1, <2>1 DEF TypeOK, Answers, Load
  <2>3. QED
    BY <1>1, <2>1, <2>2 DEF IInv, Moving
<1>4. QED
  BY <1>2, <1>3

LEMMA GetKeeps ==
  ASSUME IInv, NEW k \in Keys, Get(k)
  PROVE  IInv'
<1>1. TypeOK /\ Load /\ phase = "idle" /\ Reachable(entries, capacity)
      /\ capacity \in Nat /\ entries \in Array(capacity) /\ count \in Nat
  BY DEF IInv, Get, TypeOK
<1>2. UNCHANGED <<entries, count, capacity, phase, fresh, next, pending>>
      /\ answer' = IF Has(k) THEN entries[Slot(k)].value ELSE "absent"
  BY DEF Get
<1>3. answer' \in Answers
  <2>1. CASE Has(k)
    <3>1. Cardinality(Used(entries, capacity)) <= count /\ 4 * count <= 3 * capacity /\ count # 0
      BY <1>1, <2>1 DEF Load, Has
    <3>2. Roomy(entries, capacity)
      <4>1. capacity > 0
        BY <1>1, <3>1
      <4>2. QED
        BY <1>1, <4>1, LoadLeavesRoom DEF Load
    <3>3. Slot(k) \in Slots(capacity)
      BY <1>1, <3>2, FindEntryEnds DEF Slot, Ends
    <3>4. QED
      BY <1>1, <1>2, <2>1, <3>3 DEF Array, Entry, Slots, Answers
  <2>2. QED
    BY <1>2, <2>1 DEF Answers
<1>4. TypeOK' /\ Load'
  BY <1>1, <1>2, <1>3 DEF TypeOK, Load
<1>5. QED
  BY <1>1, <1>2, <1>4 DEF IInv, Moving

\* What is moved fits the new array, with one more entry.
LEMMA FreshFits ==
  ASSUME IInv, phase = "copy"
  PROVE  /\ capacity \in Nat /\ GrownCapacity \in Nat /\ GrownCapacity > capacity
         /\ GrownCapacity >= MinCapacity
         /\ fresh \in Array(GrownCapacity) /\ Roomy(fresh, GrownCapacity)
         /\ 4 * (count + 1) <= 3 * GrownCapacity
<1> DEFINE m == Cardinality(Moved)
           n == Cardinality(Used(entries, capacity))
           c == Cardinality(Used(fresh, GrownCapacity))
<1>1. /\ capacity \in Nat /\ count \in Nat /\ fresh \in Array(GrownCapacity) /\ next \in 0..capacity
      /\ Load /\ c <= count /\ count <= m
  BY DEF IInv, TypeOK, Moving
<1>2. GrownCapacity \in Nat /\ GrownCapacity > capacity /\ GrownCapacity >= MinCapacity
      /\ (capacity = 0 \/ GrownCapacity = 2 * capacity)
  BY <1>1 DEF Load, GrownCapacity
<1>3. m \in Nat /\ n \in Nat /\ m <= n
  <2>1. Used(entries, capacity) \in SUBSET Slots(capacity)
    BY DEF Used
  <2>2. Moved \in SUBSET Used(entries, capacity)
    BY <1>1 DEF Moved, Used, Slots, Unused
  <2>3. IsFiniteSet(Used(entries, capacity)) /\ n \in Nat
    BY <1>1, <2>1, SlotsFinite
  <2>4. QED
    BY <2>2, <2>3, FS_Subset, FS_CardinalityType
<1>4. c \in Nat
  BY <1>2, SlotsFinite DEF Used
<1>5. 4 * n <= 3 * capacity
  BY <1>1 DEF Load
<1> HIDE DEF c, m, n
<1>6. 4 * (count + 1) <= 3 * GrownCapacity
  <2>1. CASE capacity = 0
    <3>1. count = 0
      BY <1>1, <1>3, <1>5, <2>1
    <3>2. QED
      BY <1>2, <3>1
  <2>2. CASE GrownCapacity = 2 * capacity
    <3>1. 4 * count <= 3 * capacity
      BY <1>1, <1>3, <1>5
    <3>2. capacity >= 2
      BY <1>1, <1>2, <2>2 DEF Load
    <3>3. QED
      BY <1>1, <2>2, <3>1, <3>2
  <2>3. QED
    BY <1>2, <2>1, <2>2
<1>7. 4 * c <= 3 * GrownCapacity
  BY <1>1, <1>2, <1>4, <1>6
<1>8. Roomy(fresh, GrownCapacity)
  BY <1>1, <1>2, <1>7, LoadLeavesRoom DEF c
<1>9. QED
  BY <1>1, <1>2, <1>6, <1>8

\* The slot adjust_capacity finds for an entry is free.
LEMMA FreshSlot ==
  ASSUME IInv, phase = "copy", next < capacity, entries[next].key # NULL,
         NEW f, f = FindEntry(fresh, GrownCapacity, entries[next].key)
  PROVE  /\ Ends(fresh, GrownCapacity, entries[next].key, f)
         /\ f \in Slots(GrownCapacity) /\ fresh[f].key = NULL
<1>1. /\ capacity \in Nat /\ entries \in Array(capacity) /\ next \in Slots(capacity)
      /\ Reachable(entries, capacity) /\ entries[next].key \in Keys
  BY DEF IInv, TypeOK, Slots, Array, Entry
<1>2. /\ GrownCapacity \in Nat /\ fresh \in Array(GrownCapacity) /\ Roomy(fresh, GrownCapacity)
      /\ Reachable(fresh, GrownCapacity)
  BY FreshFits DEF IInv, Moving
<1>3. Ends(fresh, GrownCapacity, entries[next].key, f)
  BY <1>1, <1>2, FindEntryEnds
<1>4. ASSUME fresh[f].key = entries[next].key PROVE FALSE
  <2>1. PICK i \in Moved : fresh[f] = entries[i]
    BY <1>1, <1>3, <1>4 DEF IInv, Moving, Ends
  <2>2. i \in Slots(capacity) /\ i # next
    BY <1>1, <2>1 DEF Moved, Slots
  <2>3. entries[i].key = entries[next].key
    BY <1>4, <2>1
  <2>4. QED
    BY <1>1, <2>2, <2>3, KeysDistinct
<1>5. QED
  BY <1>3, <1>4 DEF Ends

LEMMA CopyEntryKeeps ==
  ASSUME IInv, CopyEntry
  PROVE  IInv'
<1> DEFINE e == entries[next]
           G == GrownCapacity
<1>1. /\ phase = "copy" /\ next < capacity /\ next' = next + 1
      /\ UNCHANGED <<capacity, entries, phase, pending, answer>>
  BY DEF CopyEntry
<1>2. /\ TypeOK /\ Load /\ Reachable(entries, capacity) /\ capacity \in Nat /\ next \in Nat
      /\ entries \in Array(capacity) /\ next \in Slots(capacity) /\ count \in Nat
  BY <1>1 DEF IInv, TypeOK, Slots
<1>3. /\ G \in Nat /\ fresh \in Array(G) /\ Reachable(fresh, G) /\ G' = G
      /\ Cardinality(Used(fresh, G)) <= count /\ count <= Cardinality(Moved)
      /\ \A i \in Moved : \E j \in Slots(G) : fresh[j] = entries[i]
      /\ \A j \in Slots(G) : fresh[j].key # NULL => \E i \in Moved : fresh[j] = entries[i]
  BY <1>1, FreshFits DEF IInv, Moving, GrownCapacity
<1>4. e \in Entry
  BY <1>2 DEF Array, Slots
<1>5. Load' /\ next' \in 0..capacity
  BY <1>1, <1>2 DEF Load, Slots
<1>6. CASE e.key = NULL
  <2>1. count' = count /\ fresh' = fresh
    BY <1>6 DEF CopyEntry
  <2>2. Moved' = Moved
    BY <1>1, <1>2, <1>6 DEF Moved
  <2>3. TypeOK'
    BY <1>1, <1>2, <1>3, <1>5, <2>1 DEF TypeOK
  <2>4. Moving'
    BY <1>1, <1>3, <2>1, <2>2 DEF Moving
  <2>5. QED
    BY <1>1, <1>2, <1>5, <2>3, <2>4 DEF IInv
<1>7. CASE e.key # NULL
  <2> DEFINE f == FindEntry(fresh, G, e.key)
  <2>1. fresh' = Put(fresh, f, e.key, e.value) /\ count' = count + 1
    BY <1>7 DEF CopyEntry
  <2>2. Ends(fresh, G, e.key, f) /\ f \in Slots(G) /\ fresh[f].key = NULL
    BY <1>1, <1>7, FreshSlot
  <2>3. e.key \in Keys /\ e.value \in Values /\ [key |-> e.key, value |-> e.value] = e
    BY <1>4, <1>7 DEF Entry
  <2> HIDE DEF f, e, G
  <2>4. fresh' \in Array(G) /\ Reachable(fresh', G)
    BY <1>3, <2>1, <2>2, <2>3, PutReachable
  <2>5. Cardinality(Used(fresh', G)) <= Cardinality(Used(fresh, G)) + 1
    BY <1>3, <2>1, <2>2, <2>3, PutUses
  <2>6. Cardinality(Used(fresh', G)) <= count'
    <3>1. Cardinality(Used(fresh', G)) \in Nat /\ Cardinality(Used(fresh, G)) \in Nat
      BY <1>3, SlotsFinite DEF Used
    <3>2. QED
      BY <1>2, <1>3, <2>1, <2>5, <3>1
  <2>7. Moved' = Moved \cup {next} /\ next \notin Moved /\ Moved \in SUBSET Slots(capacity)
    BY <1>1, <1>2, <1>7 DEF Moved, e, Slots
  <2>8. count' <= Cardinality(Moved')
    <3>1. IsFiniteSet(Moved) /\ Cardinality(Moved) \in Nat
      BY <1>2, <2>7, SlotsFinite
    <3>2. Cardinality(Moved') = Cardinality(Moved) + 1
      BY <2>7, <3>1, FS_AddElement
    <3>3. QED
      BY <1>2, <1>3, <2>1, <3>1, <3>2
  <2>9. fresh'[f] = entries[next] /\ \A j \in Slots(G) : j # f => fresh'[j] = fresh[j]
    BY <1>3, <2>1, <2>2, <2>3 DEF Put, Array, Slots, e
  <2>10. \A i \in Moved' : \E j \in Slots(G) : fresh'[j] = entries[i]
    <3> SUFFICES ASSUME NEW i \in Moved' PROVE \E j \in Slots(G) : fresh'[j] = entries[i]
      OBVIOUS
    <3>1. CASE i = next
      BY <2>2, <2>9, <3>1
    <3>2. CASE i \in Moved
      <4>1. PICK j \in Slots(G) : fresh[j] = entries[i]
        BY <1>3, <3>2
      <4>2. j # f
        BY <2>2, <3>2, <4>1 DEF Moved
      <4>3. QED
        BY <2>9, <4>1, <4>2
    <3>3. QED
      BY <2>7, <3>1, <3>2
  <2>11. \A j \in Slots(G) : fresh'[j].key # NULL => \E i \in Moved' : fresh'[j] = entries[i]
    BY <1>3, <2>7, <2>9
  <2>12. TypeOK'
    BY <1>1, <1>2, <1>3, <1>5, <2>1, <2>4 DEF TypeOK, G
  <2>13. Moving'
    BY <1>1, <1>3, <2>4, <2>6, <2>8, <2>10, <2>11 DEF Moving, G
  <2>14. QED
    BY <1>1, <1>2, <1>5, <2>12, <2>13 DEF IInv
<1>8. QED
  BY <1>6, <1>7

LEMMA InstallFreshKeeps ==
  ASSUME IInv, InstallFresh
  PROVE  IInv'
<1>1. /\ phase = "copy" /\ entries' = fresh /\ capacity' = GrownCapacity
      /\ fresh' = EmptyArray(0) /\ next' = 0 /\ phase' = "store"
      /\ UNCHANGED <<count, pending, answer>>
  BY DEF InstallFresh
<1>2. /\ TypeOK /\ count \in Nat /\ pending \in Arguments
      /\ Reachable(fresh, GrownCapacity) /\ Cardinality(Used(fresh, GrownCapacity)) <= count
  BY <1>1 DEF IInv, TypeOK, Moving
<1>3. /\ GrownCapacity \in Nat /\ GrownCapacity >= MinCapacity /\ fresh \in Array(GrownCapacity)
      /\ 4 * (count + 1) <= 3 * GrownCapacity
  BY <1>1, FreshFits
<1>4. TypeOK'
  BY <1>1, <1>2, <1>3, EmptyArrayUses DEF TypeOK
<1>5. Cardinality(Used(fresh, GrownCapacity)) \in Nat
  BY <1>3, SlotsFinite DEF Used
<1>6. 4 * Cardinality(Used(fresh, GrownCapacity)) <= 3 * GrownCapacity /\ 4 * count <= 3 * GrownCapacity
  BY <1>2, <1>3, <1>5
<1>7. Load'
  BY <1>1, <1>2, <1>3, <1>6 DEF Load
<1>8. QED
  BY <1>1, <1>2, <1>4, <1>7 DEF IInv, Moving

LEMMA IInvStep ==
  ASSUME IInv, [Next]_vars
  PROVE  IInv'
<1>1. CASE StorePending
  <2>1. phase = "store" /\ pending \in Arguments /\ 4 * (count + 1) <= 3 * capacity
        /\ StoreEntry(pending.key, pending.value, pending.mustExist)
    BY <1>1 DEF StorePending, IInv, Load
  <2>2. pending.key \in Keys /\ pending.value \in Values /\ pending.mustExist \in BOOLEAN
    BY <2>1 DEF Arguments
  <2>3. QED
    BY <2>1, <2>2, StoreKeeps
<1>2. CASE UNCHANGED vars
  <2>1. TypeOK' /\ Load' /\ Moving'
    BY <1>2 DEF vars, IInv, TypeOK, Load, Moving, Moved, GrownCapacity
  <2>2. QED
    BY <1>2, <2>1 DEF vars, IInv
<1>3. QED
  BY <1>1, <1>2, SetKeeps, CopyEntryKeeps, InstallFreshKeeps, GetKeeps, DeleteKeeps DEF Next

LEMMA Invariance == Spec => []IInv
  BY IInvInit, IInvStep, PTL DEF Spec

-----------------------------------------------------------------------------
(* The theorems.                                                             *)

(* The variables of table.c keep their types: count is never negative, the   *)
(* array has capacity slots, and the index of a rehash stays inside it.      *)
THEOREM TypeCorrect == Spec => []TypeOK
<1>1. IInv => TypeOK
  BY DEF IInv
<1>2. QED
  BY <1>1, Invariance, PTL

(* The unbounded loop of table_find_entry ends, in the array of the table    *)
(* and in the one it is growing into: a slot was never used.                 *)
THEOREM ProbesAlwaysEnd == Spec => []ProbesEnd
<1>1. ASSUME IInv PROVE ProbesEnd
  <2>1. capacity > 0 => Roomy(entries, capacity)
    BY <1>1, LoadLeavesRoom DEF IInv, Load, TypeOK
  <2>2. phase = "copy" => Roomy(fresh, GrownCapacity)
    BY <1>1, FreshFits
  <2>3. QED
    BY <2>1, <2>2 DEF ProbesEnd, Roomy, Slots
<1>2. QED
  BY <1>1, Invariance, PTL

(* A probe for the key of an entry ends at that entry, whatever insertions,  *)
(* deletions and rehashes came before.                                       *)
THEOREM AlwaysFindable == Spec => []Findable
<1>1. ASSUME IInv PROVE Findable
  <2>1. capacity \in Nat /\ entries \in Array(capacity) /\ Reachable(entries, capacity)
    BY <1>1 DEF IInv, TypeOK
  <2>2. \A j \in 0..capacity - 1 : entries[j].key # NULL => Slot(entries[j].key) = j
    BY <2>1, StopsAtKey DEF Slot, Slots
  <2>3. ASSUME phase = "copy", NEW j \in 0..GrownCapacity - 1, fresh[j].key # NULL
        PROVE  FindEntry(fresh, GrownCapacity, fresh[j].key) = j
    <3>1. GrownCapacity \in Nat /\ fresh \in Array(GrownCapacity) /\ Reachable(fresh, GrownCapacity)
      BY <1>1, <2>3, FreshFits DEF IInv, Moving
    <3>2. QED
      BY <2>3, <3>1, StopsAtKey DEF Slots
  <2>4. QED
    BY <2>2, <2>3 DEF Findable
<1>2. QED
  BY <1>1, Invariance, PTL

-----------------------------------------------------------------------------
(* The table is a map.                                                       *)

Single(es, cap) ==
  \A i, j \in Slots(cap) : es[i].key = es[j].key /\ es[i].key # NULL => i = j

LEMMA ContentsOf ==
  ASSUME NEW cap \in Nat, NEW es \in Array(cap), Single(es, cap)
  PROVE  /\ DOMAIN Contents(es) = {k \in Keys : \E j \in Slots(cap) : es[j].key = k}
         /\ \A j \in Slots(cap) : es[j].key # NULL => Contents(es)[es[j].key] = es[j].value
<1>1. DOMAIN es = Slots(cap) /\ \A j \in Slots(cap) : es[j].key \in Keys \cup {NULL}
  BY DEF Array, Slots, Entry
<1>2. KeysOf(es) = {k \in Keys : \E j \in Slots(cap) : es[j].key = k}
  BY <1>1 DEF KeysOf
<1>3. DOMAIN Contents(es) = KeysOf(es)
  BY DEF Contents
<1>4. ASSUME NEW j \in Slots(cap), es[j].key # NULL
      PROVE  Contents(es)[es[j].key] = es[j].value
  <2>1. es[j].key \in KeysOf(es)
    BY <1>1, <1>2, <1>4
  <2>2. (CHOOSE i \in DOMAIN es : es[i].key = es[j].key) = j
    BY <1>1, <1>4 DEF Single
  <2>3. QED
    BY <2>1, <2>2 DEF Contents
<1>5. QED
  BY <1>2, <1>3, <1>4

\* Two arrays with the same entries are the same map.
LEMMA SameContents ==
  ASSUME NEW m \in Nat, NEW es \in Array(m), Single(es, m),
         NEW n \in Nat, NEW fs \in Array(n), Single(fs, n),
         \A i \in Slots(m) : es[i].key # NULL => \E j \in Slots(n) : fs[j] = es[i],
         \A j \in Slots(n) : fs[j].key # NULL => \E i \in Slots(m) : fs[j] = es[i]
  PROVE  Contents(fs) = Contents(es)
<1>1. /\ DOMAIN Contents(es) = {k \in Keys : \E i \in Slots(m) : es[i].key = k}
      /\ \A i \in Slots(m) : es[i].key # NULL => Contents(es)[es[i].key] = es[i].value
      /\ DOMAIN Contents(fs) = {k \in Keys : \E j \in Slots(n) : fs[j].key = k}
      /\ \A j \in Slots(n) : fs[j].key # NULL => Contents(fs)[fs[j].key] = fs[j].value
      /\ NULL \notin Keys
  BY ContentsOf, Zenon
<1>2. DOMAIN Contents(fs) = DOMAIN Contents(es)
  <2>1. \A k \in Keys : (\E j \in Slots(n) : fs[j].key = k) <=> (\E i \in Slots(m) : es[i].key = k)
    BY <1>1
  <2>2. QED
    BY <1>1, <2>1
<1>3. ASSUME NEW k \in DOMAIN Contents(es) PROVE Contents(fs)[k] = Contents(es)[k]
  <2>1. PICK i \in Slots(m) : es[i].key = k /\ k \in Keys
    BY <1>1
  <2>2. PICK j \in Slots(n) : fs[j] = es[i]
    BY <1>1, <2>1
  <2>3. Contents(es)[k] = es[i].value /\ Contents(fs)[k] = fs[j].value
    BY <1>1, <2>1, <2>2
  <2>4. QED
    BY <2>2, <2>3
<1>4. Contents(es) = [k \in DOMAIN Contents(es) |-> Contents(es)[k]]
      /\ Contents(fs) = [k \in DOMAIN Contents(fs) |-> Contents(fs)[k]]
  BY DEF Contents
<1>5. QED
  BY <1>2, <1>3, <1>4

LEMMA ReachableIsSingle ==
  ASSUME NEW cap \in Nat, NEW es \in Array(cap), Reachable(es, cap)
  PROVE  Single(es, cap)
BY KeysDistinct DEF Single

With(map, k, v) == [l \in DOMAIN map \cup {k} |-> IF l = k THEN v ELSE map[l]]

\* Putting k where the probe for it ends is defining it.
LEMMA PutContents ==
  ASSUME NEW cap \in Nat, NEW es \in Array(cap), Reachable(es, cap), NEW k \in Keys,
         NEW f, Ends(es, cap, k, f), NEW v \in Values
  PROVE  Contents(Put(es, f, k, v)) = With(Contents(es), k, v)
<1> DEFINE E == Put(es, f, k, v)
           C == Contents(es)
           D == Contents(E)
<1>1. E \in Array(cap) /\ Single(E, cap) /\ Single(es, cap)
  BY PutReachable, ReachableIsSingle
<1>2. /\ f \in Slots(cap) /\ E[f].key = k /\ E[f].value = v /\ es[f].key \in {k, NULL}
      /\ \A i \in Slots(cap) : i # f => E[i] = es[i]
  BY DEF Put, Ends, Array, Slots
<1>3. D = [l \in DOMAIN D |-> D[l]]
  BY DEF Contents
<1> HIDE DEF E
<1>4. /\ DOMAIN C = {l \in Keys : \E i \in Slots(cap) : es[i].key = l}
      /\ \A i \in Slots(cap) : es[i].key # NULL => C[es[i].key] = es[i].value
      /\ DOMAIN D = {l \in Keys : \E i \in Slots(cap) : E[i].key = l}
      /\ \A i \in Slots(cap) : E[i].key # NULL => D[E[i].key] = E[i].value
      /\ NULL \notin Keys
  BY <1>1, ContentsOf, Zenon
<1> HIDE DEF C, D
<1>5. DOMAIN D = DOMAIN C \cup {k}
  BY <1>2, <1>4
<1>6. D[k] = v
  BY <1>2, <1>4
<1>7. ASSUME NEW l \in DOMAIN C, l # k PROVE D[l] = C[l]
  <2>1. PICK i \in Slots(cap) : es[i].key = l /\ l \in Keys
    BY <1>4
  <2>2. i # f /\ E[i] = es[i]
    BY <1>2, <1>4, <1>7, <2>1
  <2>3. QED
    BY <1>4, <2>1, <2>2
<1>8. D = [l \in DOMAIN C \cup {k} |-> IF l = k THEN v ELSE C[l]]
  BY <1>3, <1>5, <1>6, <1>7
<1>9. QED
  BY <1>8 DEF C, D, E, With

\* Erasing the slot of a key removes the key; erasing one without a key changes nothing.
LEMMA ErasedContents ==
  ASSUME NEW cap \in Nat, NEW es \in Array(cap), Reachable(es, cap), NEW f \in Slots(cap)
  PROVE  Contents(Erased(es, {f})) = [l \in DOMAIN Contents(es) \ {es[f].key} |-> Contents(es)[l]]
<1> DEFINE E == Erased(es, {f})
           C == Contents(es)
           D == Contents(E)
<1>1. E \in Array(cap) /\ Single(E, cap) /\ Single(es, cap)
  BY ErasedReachable, ReachableIsSingle
<1>2. E[f].key = NULL /\ \A i \in Slots(cap) : i # f => E[i] = es[i]
  BY DEF Erased, Array, Slots, Tombstone
<1>3. D = [l \in DOMAIN D |-> D[l]]
  BY DEF Contents
<1> HIDE DEF E
<1>4. /\ DOMAIN C = {l \in Keys : \E i \in Slots(cap) : es[i].key = l}
      /\ \A i \in Slots(cap) : es[i].key # NULL => C[es[i].key] = es[i].value
      /\ DOMAIN D = {l \in Keys : \E i \in Slots(cap) : E[i].key = l}
      /\ \A i \in Slots(cap) : E[i].key # NULL => D[E[i].key] = E[i].value
      /\ NULL \notin Keys
  BY <1>1, ContentsOf, Zenon
<1> HIDE DEF C, D
<1>5. DOMAIN D = DOMAIN C \ {es[f].key}
  <2>1. \A i \in Slots(cap) : es[i].key \in Keys /\ es[i].key = es[f].key => i = f
    BY <1>1, <1>4 DEF Single
  <2>2. QED
    BY <1>2, <1>4, <2>1
<1>6. ASSUME NEW l \in DOMAIN C, l # es[f].key PROVE D[l] = C[l]
  <2>1. PICK i \in Slots(cap) : es[i].key = l /\ l \in Keys
    BY <1>4
  <2>2. i # f /\ E[i] = es[i]
    BY <1>2, <1>6, <2>1
  <2>3. QED
    BY <1>4, <2>1, <2>2
<1>7. D = [l \in DOMAIN C \ {es[f].key} |-> C[l]]
  BY <1>3, <1>5, <1>6
<1>8. QED
  BY <1>7 DEF C, D, E

\* Where a probe ends tells whether the table has the key, and its value.
LEMMA EndsTells ==
  ASSUME NEW cap \in Nat, NEW es \in Array(cap), Reachable(es, cap), NEW k \in Keys,
         NEW f, Ends(es, cap, k, f)
  PROVE  /\ k \in DOMAIN Contents(es) <=> es[f].key = k
         /\ es[f].key = k => Contents(es)[k] = es[f].value
         /\ es[f].key # k => es[f].key = NULL
<1>1. f \in Slots(cap) /\ es[f].key \in {k, NULL} /\ k # NULL
      /\ (es[f].key = NULL => \A i \in Slots(cap) : es[i].key # k)
  BY DEF Ends
<1>2. /\ DOMAIN Contents(es) = {l \in Keys : \E i \in Slots(cap) : es[i].key = l}
      /\ \A i \in Slots(cap) : es[i].key # NULL => Contents(es)[es[i].key] = es[i].value
  BY ReachableIsSingle, ContentsOf, Zenon
<1>3. QED
  BY <1>1, <1>2

LEMMA HasTells ==
  ASSUME IInv, phase = "idle", NEW k \in Keys
  PROVE  /\ Has(k) <=> k \in DOMAIN Contents(entries)
         /\ Has(k) => /\ Slot(k) \in Slots(capacity) /\ entries[Slot(k)].key = k
                      /\ Contents(entries)[k] = entries[Slot(k)].value
<1>1. /\ capacity \in Nat /\ count \in Nat /\ entries \in Array(capacity) /\ Load
      /\ Reachable(entries, capacity) /\ Cardinality(Used(entries, capacity)) <= count
      /\ 4 * count <= 3 * capacity
  BY DEF IInv, TypeOK, Load
<1>2. CASE count = 0
  <2>1. Used(entries, capacity) = {}
    <3>1. IsFiniteSet(Used(entries, capacity)) /\ Cardinality(Used(entries, capacity)) \in Nat
      BY <1>1, SlotsFinite DEF Used
    <3>2. Cardinality(Used(entries, capacity)) = 0
      BY <1>1, <1>2, <3>1
    <3>3. QED
      BY <3>1, <3>2, FS_EmptySet
  <2>2. \A j \in Slots(capacity) : entries[j].key = NULL
    BY <2>1 DEF Used, Unused
  <2>3. k \notin DOMAIN Contents(entries)
    <3>1. DOMAIN Contents(entries) = {l \in Keys : \E i \in Slots(capacity) : entries[i].key = l}
      BY <1>1, ReachableIsSingle, ContentsOf, Zenon
    <3>2. QED
      BY <2>2, <3>1
  <2>4. QED
    BY <1>2, <2>3 DEF Has
<1>3. CASE count # 0
  <2>1. Roomy(entries, capacity)
    <3>1. capacity > 0
      BY <1>1, <1>3
    <3>2. QED
      BY <1>1, <3>1, LoadLeavesRoom DEF Load
  <2>2. Ends(entries, capacity, k, Slot(k))
    BY <1>1, <2>1, FindEntryEnds DEF Slot
  <2>3. Slot(k) \in Slots(capacity)
    BY <2>2 DEF Ends
  <2>4. QED
    BY <1>1, <1>3, <2>2, <2>3, EndsTells DEF Has
<1>4. QED
  BY <1>2, <1>3

LEMMA StoreRefines ==
  ASSUME IInv, phase # "copy", 4 * (count + 1) <= 3 * capacity,
         NEW k \in Keys, NEW v \in Values, NEW mustExist \in BOOLEAN, StoreEntry(k, v, mustExist)
  PROVE  Map!Define(k, v) \/ Map!Assign(k, v)
<1> DEFINE j == Slot(k)
           isNew == entries[j].key = NULL
           C == Contents(entries)
<1>1. /\ capacity \in Nat /\ entries \in Array(capacity) /\ Reachable(entries, capacity)
      /\ Ends(entries, capacity, k, j) /\ j \in Slots(capacity)
  BY SlotForOneMore
<1>2. /\ entries' = IF isNew /\ mustExist THEN Erased(entries, {j}) ELSE Put(entries, j, k, v)
      /\ answer' = IF ~isNew THEN "old" ELSE IF mustExist THEN "undefined" ELSE "new"
  BY DEF StoreEntry
<1>3. isNew <=> k \notin DOMAIN C
  BY <1>1, EndsTells
<1>4. Contents(Put(entries, j, k, v)) = With(C, k, v)
  BY <1>1, PutContents
<1>5. CASE isNew /\ mustExist
  <2>1. NULL \notin DOMAIN C
    <3>1. DOMAIN C = {l \in Keys : \E i \in Slots(capacity) : entries[i].key = l}
      BY <1>1, ReachableIsSingle, ContentsOf, Zenon
    <3>2. QED
      BY <3>1
  <2>2. Contents(entries') = [l \in DOMAIN C \ {NULL} |-> C[l]]
    BY <1>1, <1>2, <1>5, ErasedContents
  <2>3. C = [l \in DOMAIN C |-> C[l]]
    BY DEF Contents
  <2>4. Contents(entries') = C
    BY <2>1, <2>2, <2>3
  <2>5. QED
    BY <1>2, <1>3, <1>5, <2>4 DEF Map!Assign
<1>6. CASE ~(isNew /\ mustExist)
  <2>1. Contents(entries') = Map!With(k, v)
    BY <1>2, <1>4, <1>6 DEF Map!With, With
  <2>2. answer' = IF k \in DOMAIN C THEN "old" ELSE "new"
    BY <1>2, <1>3, <1>6
  <2>3. QED
    BY <2>1, <2>2 DEF Map!Define
<1>7. QED
  BY <1>5, <1>6

LEMMA InstallFreshRefines ==
  ASSUME IInv, InstallFresh
  PROVE  UNCHANGED <<Contents(entries), answer>>
<1>1. phase = "copy" /\ next = capacity /\ entries' = fresh /\ answer' = answer
  BY DEF InstallFresh
<1>2. /\ capacity \in Nat /\ entries \in Array(capacity) /\ Single(entries, capacity)
      /\ GrownCapacity \in Nat /\ fresh \in Array(GrownCapacity) /\ Single(fresh, GrownCapacity)
  BY <1>1, FreshFits, ReachableIsSingle DEF IInv, TypeOK, Moving
<1>3. Moved = {i \in Slots(capacity) : entries[i].key # NULL}
  BY <1>1 DEF Moved, Slots
<1>4. /\ \A i \in Slots(capacity) : entries[i].key # NULL => \E j \in Slots(GrownCapacity) : fresh[j] = entries[i]
      /\ \A j \in Slots(GrownCapacity) : fresh[j].key # NULL => \E i \in Slots(capacity) : fresh[j] = entries[i]
  BY <1>1, <1>3 DEF IInv, Moving
<1>5. Contents(fresh) = Contents(entries)
  <2> HIDE DEF IInv
  <2>1. QED
    BY <1>2, <1>4, SameContents
<1>6. QED
  BY <1>1, <1>5

(* The table is a map from strings to values: each operation answers and     *)
(* changes what a map would, and no step of a rehash can be seen.            *)
THEOREM Refinement == Spec => ImplementsMap
<1>1. ASSUME Init PROVE Map!Init
  <2>1. entries = EmptyArray(0) /\ answer = "absent"
    BY <1>1 DEF Init
  <2>2. DOMAIN entries = {}
    BY <2>1 DEF EmptyArray
  <2>3. DOMAIN Contents(entries) = {}
    BY <2>2 DEF Contents, KeysOf
  <2>4. QED
    BY <2>1, <2>3 DEF Map!Init
<1>2. ASSUME IInv, [Next]_vars PROVE [Map!Next]_<<Contents(entries), answer>>
  <2>1. ASSUME NEW k \in Keys, NEW v \in Values, NEW mustExist \in BOOLEAN, Set(k, v, mustExist)
        PROVE  [Map!Next]_<<Contents(entries), answer>>
    <3>1. CASE Crowded
      BY <2>1, <3>1 DEF Set
    <3>2. CASE ~Crowded
      <4>1. phase = "idle" /\ 4 * (count + 1) <= 3 * capacity /\ StoreEntry(k, v, mustExist)
        BY <1>2, <2>1, <3>2 DEF Set, Crowded, IInv, TypeOK
      <4>2. QED
        BY <1>2, <4>1, StoreRefines DEF Map!Next
    <3>3. QED
      BY <3>1, <3>2
  <2>2. CASE CopyEntry
    BY <2>2 DEF CopyEntry
  <2>3. CASE InstallFresh
    BY <1>2, <2>3, InstallFreshRefines
  <2>4. CASE StorePending
    <3>1. phase = "store" /\ pending \in Arguments /\ 4 * (count + 1) <= 3 * capacity
          /\ StoreEntry(pending.key, pending.value, pending.mustExist)
      BY <1>2, <2>4 DEF StorePending, IInv, Load
    <3>2. pending.key \in Keys /\ pending.value \in Values /\ pending.mustExist \in BOOLEAN
      BY <3>1 DEF Arguments
    <3>3. QED
      BY <1>2, <3>1, <3>2, StoreRefines DEF Map!Next
  <2>5. ASSUME NEW k \in Keys, Get(k) PROVE Map!Lookup(k)
    <3>1. phase = "idle" /\ entries' = entries
          /\ answer' = IF Has(k) THEN entries[Slot(k)].value ELSE "absent"
      BY <2>5 DEF Get
    <3>2. QED
      BY <1>2, <3>1, HasTells DEF Map!Lookup
  <2>6. ASSUME NEW k \in Keys, Delete(k) PROVE Map!Remove(k)
    <3>1. phase = "idle"
      BY <2>6 DEF Delete
    <3>2. CASE Has(k)
      <4>1. entries' = Erased(entries, {Slot(k)}) /\ answer' = entries[Slot(k)].value
        BY <2>6, <3>2 DEF Delete
      <4>2. Slot(k) \in Slots(capacity) /\ entries[Slot(k)].key = k /\ k \in DOMAIN Contents(entries)
            /\ Contents(entries)[k] = entries[Slot(k)].value
        BY <1>2, <3>1, <3>2, HasTells
      <4>3. Contents(entries') = [l \in DOMAIN Contents(entries) \ {k} |-> Contents(entries)[l]]
        BY <1>2, <4>1, <4>2, ErasedContents DEF IInv, TypeOK
      <4>4. QED
        BY <4>1, <4>2, <4>3 DEF Map!Remove, Map!Without
    <3>3. CASE ~Has(k)
      <4>1. entries' = entries /\ answer' = "absent"
        BY <2>6, <3>3 DEF Delete
      <4>2. k \notin DOMAIN Contents(entries)
        BY <1>2, <3>1, <3>3, HasTells
      <4>3. DOMAIN Contents(entries) \ {k} = DOMAIN Contents(entries)
        BY <4>2
      <4>4. Contents(entries) = [l \in DOMAIN Contents(entries) |-> Contents(entries)[l]]
        BY DEF Contents
      <4>5. Contents(entries') = Map!Without(k)
        BY <4>1, <4>3, <4>4 DEF Map!Without
      <4>6. QED
        BY <4>1, <4>2, <4>5 DEF Map!Remove
    <3>4. QED
      BY <3>2, <3>3
  <2>7. CASE UNCHANGED vars
    BY <2>7 DEF vars
  <2>8. QED
    BY <1>2, <2>1, <2>2, <2>3, <2>4, <2>5, <2>6, <2>7 DEF Next, Map!Next
<1>3. QED
  BY <1>1, <1>2, Invariance, PTL DEF Spec, ImplementsMap, Map!Spec

-----------------------------------------------------------------------------
(* The pool of strings.                                                      *)

USE PoolAssumption

Present == KeysOf(entries) \cup IF phase = "idle" THEN {} ELSE {pending.key}

PoolInv ==
  /\ IInv
  /\ Present = live \cup stale
  /\ \A k, l \in Present : Text[k] = Text[l] => k = l
  /\ phase # "idle" => ~pending.mustExist

-----------------------------------------------------------------------------
(* The keys of the table under the steps of the pool.                        *)

LEMMA KeysAre ==
  ASSUME NEW cap \in Nat, NEW es \in Array(cap)
  PROVE  KeysOf(es) = {k \in Keys : \E j \in Slots(cap) : es[j].key = k}
<1>1. DOMAIN es = Slots(cap) /\ \A j \in Slots(cap) : es[j].key \in Keys \cup {NULL}
  BY DEF Array, Slots, Entry
<1>2. QED
  BY <1>1 DEF KeysOf

\* Deleting the entries of some strings deletes no others and leaves the table in order.
LEMMA RemoveWhiteKeeps ==
  ASSUME IInv, phase = "idle", NEW white \in SUBSET Keys, RemoveWhite(white),
         UNCHANGED <<count, capacity, phase, fresh, next, pending, answer>>
  PROVE  IInv' /\ KeysOf(entries') = KeysOf(entries) \ white
<1>1. /\ capacity \in Nat /\ entries \in Array(capacity) /\ Reachable(entries, capacity)
      /\ DOMAIN entries = Slots(capacity) /\ TypeOK /\ Load
  BY DEF IInv, TypeOK, Array, Slots
<1>2. \A j \in Slots(capacity) :
        entries'[j] = IF entries[j].key \in white THEN Tombstone ELSE entries[j]
  BY <1>1 DEF RemoveWhite, Erased
<1>3. entries' = [j \in Slots(capacity) |-> entries'[j]]
  BY <1>1 DEF RemoveWhite, Erased
<1>4. Tombstone \in Entry /\ Tombstone.key = NULL /\ ~Unused(Tombstone)
  BY DEF Tombstone, Entry, Unused
<1>5. entries' \in Array(capacity)
  BY <1>1, <1>2, <1>3, <1>4 DEF Array, Slots
<1>6. Reachable(entries', capacity)
  BY <1>1, <1>2, <1>4 DEF Reachable
<1>7. Used(entries', capacity) = Used(entries, capacity)
  BY <1>1, <1>2, <1>4 DEF Used, Unused
<1>8. Load'
  BY <1>1, <1>7 DEF Load
<1>9. TypeOK'
  BY <1>1, <1>5 DEF TypeOK
<1>10. KeysOf(entries') = KeysOf(entries) \ white
  <2>1. /\ KeysOf(entries) = {k \in Keys : \E j \in Slots(capacity) : entries[j].key = k}
        /\ KeysOf(entries') = {k \in Keys : \E j \in Slots(capacity) : entries'[j].key = k}
    BY <1>1, <1>5, KeysAre
  <2>2. QED
    BY <1>2, <1>4, <2>1
<1>11. QED
  BY <1>6, <1>8, <1>9, <1>10 DEF IInv, Moving

\* Storing a string adds its key.
LEMMA StoreKeys ==
  ASSUME IInv, phase # "copy", 4 * (count + 1) <= 3 * capacity,
         NEW k \in Keys, NEW v \in Values, StoreEntry(k, v, FALSE)
  PROVE  KeysOf(entries') = KeysOf(entries) \cup {k}
<1>1. /\ capacity \in Nat /\ entries \in Array(capacity) /\ Reachable(entries, capacity)
      /\ Ends(entries, capacity, k, Slot(k))
  BY SlotForOneMore
<1>2. entries' = Put(entries, Slot(k), k, v)
  BY DEF StoreEntry
<1>3. Contents(entries') = With(Contents(entries), k, v)
  BY <1>1, <1>2, PutContents
<1>4. DOMAIN Contents(entries) = KeysOf(entries) /\ DOMAIN Contents(entries') = KeysOf(entries')
  BY DEF Contents
<1>5. QED
  BY <1>3, <1>4 DEF With

\* The rehash keeps the keys.
LEMMA InstallKeys ==
  ASSUME IInv, InstallFresh
  PROVE  KeysOf(entries') = KeysOf(entries)
<1>1. Contents(entries') = Contents(entries)
  BY InstallFreshRefines
<1>2. DOMAIN Contents(entries) = KeysOf(entries) /\ DOMAIN Contents(entries') = KeysOf(entries')
  BY DEF Contents
<1>3. QED
  BY <1>1, <1>2

(* table_find_string finds a string with the wanted characters if the table  *)
(* has one, and nothing otherwise: equal characters have equal hashes, so    *)
(* its probe is the probe for that string.                                   *)
LEMMA FindStringFinds ==
  ASSUME IInv, phase = "idle", NEW t \in Texts
  PROVE  /\ FindString(t) = NULL => \A k \in KeysOf(entries) : Text[k] # t
         /\ FindString(t) # NULL => FindString(t) \in KeysOf(entries) /\ Text[FindString(t)] = t
<1>1. /\ capacity \in Nat /\ count \in Nat /\ entries \in Array(capacity) /\ Load
      /\ Reachable(entries, capacity)
      /\ KeysOf(entries) = {k \in Keys : \E j \in Slots(capacity) : entries[j].key = k}
  BY KeysAre DEF IInv, TypeOK
<1>2. CASE count = 0
  <2>1. ASSUME NEW k \in KeysOf(entries) PROVE FALSE
    <3>1. k \in DOMAIN Contents(entries)
      BY <2>1 DEF Contents
    <3>2. k \in Keys /\ Has(k)
      BY <1>1, <2>1, <3>1, HasTells
    <3>3. QED
      BY <1>2, <3>2 DEF Has
  <2>2. QED
    BY <1>2, <2>1 DEF FindString
<1>3. CASE count # 0
  <2> DEFINE stops == {j \in 0..capacity - 1 :
                         \/ Unused(entries[j])
                         \/ entries[j].key # NULL /\ Text[entries[j].key] = t}
             h == TextHash[t] % capacity
             s == First(stops, h, capacity)
  <2>1. capacity > 0
    BY <1>1, <1>3 DEF IInv, Load
  <2>2. Roomy(entries, capacity)
    BY <1>1, <2>1, LoadLeavesRoom DEF Load
  <2>3. h \in Slots(capacity)
    <3>1. TextHash[t] \in Nat
      OBVIOUS
    <3>2. QED
      BY <1>1, <2>1, <3>1 DEF Slots
  <2>4. stops \in SUBSET Slots(capacity) /\ stops # {}
    BY <2>2 DEF Roomy, Slots
  <2>5. s \in stops /\ \A i \in stops : Distance(h, s, capacity) <= Distance(h, i, capacity)
    <3> HIDE DEF stops, h
    <3> QED
      BY <1>1, <2>3, <2>4, FirstIsFirst
  <2>6. FindString(t) = entries[s].key
    BY <1>3 DEF FindString
  <2>7. s \in Slots(capacity) /\ entries[s].key \in Keys \cup {NULL}
    BY <1>1, <2>4, <2>5 DEF Array, Slots, Entry
  <2>8. entries[s].key # NULL => entries[s].key \in KeysOf(entries) /\ Text[entries[s].key] = t
    <3> HIDE DEF s
    <3> QED
      BY <1>1, <2>5, <2>7 DEF Unused
  <2>9. ASSUME entries[s].key = NULL, NEW k \in KeysOf(entries), Text[k] = t PROVE FALSE
    <3>1. PICK j \in Slots(capacity) : entries[j].key = k /\ k \in Keys /\ k # NULL
      BY <1>1, <2>9
    <3>2. j \in stops
      BY <2>9, <3>1 DEF Slots
    <3>3. Home(k, capacity) = h
      BY <2>9, <3>1 DEF Home
    <3>4. Distance(h, s, capacity) \in Nat /\ Distance(h, j, capacity) \in Nat
      BY <1>1, <2>3, <2>7, DistanceIsNatural
    <3>5. s # j
      BY <2>9, <3>1
    <3>6. Distance(h, s, capacity) # Distance(h, j, capacity)
      <4> HIDE DEF s, h
      <4> QED
        BY <1>1, <2>3, <2>7, <3>5, DistanceInjective
    <3>7. Distance(h, s, capacity) < Distance(h, j, capacity)
      <4> HIDE DEF s, h, stops
      <4> QED
        BY <2>5, <3>2, <3>4, <3>6
    <3>8. Before(s, j, k, capacity)
      BY <3>3, <3>7 DEF Before
    <3>9. ~Unused(entries[s])
      <4> HIDE DEF s
      <4> QED
        BY <1>1, <2>7, <3>1, <3>8 DEF Reachable
    <3>10. QED
      <4> HIDE DEF s
      <4> QED
        BY <2>5, <2>9, <3>9
  <2>10. QED
    BY <2>6, <2>8, <2>9
<1>4. QED
  BY <1>2, <1>3

-----------------------------------------------------------------------------
(* Every step keeps the invariant.                                           *)

LEMMA PoolInvInit == PoolInit => PoolInv
<1> SUFFICES ASSUME PoolInit PROVE PoolInv
  OBVIOUS
<1>1. Init /\ live = {} /\ stale = {} /\ phase = "idle" /\ entries = EmptyArray(0)
  BY DEF PoolInit, Init
<1>2. KeysOf(entries) = {}
  BY <1>1 DEF KeysOf, EmptyArray
<1>3. QED
  BY <1>1, <1>2, IInvInit DEF PoolInv, Present

\* What the invariant says of the strings between two operations.
LEMMA IdlePool ==
  ASSUME PoolInv, phase = "idle"
  PROVE  IInv /\ Present = KeysOf(entries) /\ KeysOf(entries) \subseteq Keys
<1>1. KeysOf(entries) \subseteq Keys
  BY KeysAre DEF PoolInv, IInv, TypeOK
<1>2. QED
  BY <1>1 DEF PoolInv, Present

\* A collection between two operations, nested in another or not.
LEMMA CollectionKeeps ==
  ASSUME PoolInv, Runs, NEW white \in SUBSET live, NEW lost \in SUBSET live, Sweep(white, lost),
         UNCHANGED <<count, capacity, phase, fresh, next, pending, answer>>
  PROVE  PoolInv'
<1>1. /\ phase = "idle" /\ stale = {} /\ white \cap lost = {} /\ RemoveWhite(white)
      /\ live' = live \ (white \cup lost) /\ stale' = stale \cup lost
  BY DEF Runs, Sweep
<1>2. IInv /\ Present = KeysOf(entries) /\ KeysOf(entries) \subseteq Keys /\ Present = live
  BY <1>1, IdlePool DEF PoolInv
<1>3. IInv' /\ KeysOf(entries') = KeysOf(entries) \ white
  BY <1>1, <1>2, RemoveWhiteKeeps
<1>4. Present' = Present \ white
  BY <1>1, <1>2, <1>3 DEF Present
<1>5. Present' = live' \cup stale'
  BY <1>1, <1>2, <1>4
<1>6. QED
  BY <1>1, <1>3, <1>4, <1>5 DEF PoolInv

LEMMA AllocateKeeps ==
  ASSUME PoolInv, NEW t \in Texts, NEW k \in Keys, Allocate(t, k)
  PROVE  PoolInv'
<1>1. /\ FindString(t) = NULL /\ Text[k] = t /\ Set(k, Nil, FALSE)
      /\ live' = live \cup {k} /\ stale' = stale /\ phase = "idle"
  BY DEF Allocate, Set
<1>2. IInv /\ Present = KeysOf(entries)
  BY <1>1, IdlePool
<1>3. \A l \in Present : Text[l] # Text[k]
  BY <1>1, <1>2, FindStringFinds
<1>4. IInv'
  BY <1>1, <1>2, SetKeeps
<1>5. Present' = Present \cup {k} /\ (phase' # "idle" => ~pending'.mustExist)
  <2>1. CASE Crowded
    <3>1. entries' = entries /\ phase' = "copy"
          /\ pending' = [key |-> k, value |-> Nil, mustExist |-> FALSE]
      BY <1>1, <2>1 DEF Set
    <3>2. QED
      BY <1>2, <3>1 DEF Present
  <2>2. CASE ~Crowded
    <3>1. StoreEntry(k, Nil, FALSE) /\ 4 * (count + 1) <= 3 * capacity /\ phase' = "idle"
      BY <1>1, <1>2, <2>2 DEF Set, StoreEntry, Crowded, IInv, TypeOK
    <3>2. KeysOf(entries') = KeysOf(entries) \cup {k}
      BY <1>1, <1>2, <3>1, StoreKeys
    <3>3. QED
      BY <1>2, <3>1, <3>2 DEF Present
  <2>3. QED
    BY <2>1, <2>2
<1>6. \A l, m \in Present' : Text[l] = Text[m] => l = m
  BY <1>3, <1>5 DEF PoolInv
<1>7. QED
  BY <1>1, <1>4, <1>5, <1>6 DEF PoolInv

LEMMA GrowthKeeps ==
  ASSUME PoolInv, PoolCopyEntry \/ PoolStore \/ \E white \in SUBSET live : PoolInstall(white)
  PROVE  PoolInv'
<1>1. CASE PoolCopyEntry
  <2>1. CopyEntry /\ UNCHANGED <<live, stale>>
    BY <1>1 DEF PoolCopyEntry
  <2>2. IInv'
    BY <2>1, CopyEntryKeeps DEF PoolInv
  <2>3. Present' = Present /\ phase' = phase /\ pending' = pending
    BY <2>1 DEF CopyEntry, Present
  <2>4. QED
    BY <2>1, <2>2, <2>3 DEF PoolInv
<1>2. CASE PoolStore
  <2>1. StorePending /\ UNCHANGED <<live, stale>>
    BY <1>2 DEF PoolStore
  <2>2. IInv'
    BY <2>1, IInvStep DEF PoolInv, Next
  <2>3. phase = "store" /\ phase' = "idle" /\ StoreEntry(pending.key, pending.value, pending.mustExist)
    BY <2>1 DEF StorePending, StoreEntry
  <2>4. pending \in Arguments /\ 4 * (count + 1) <= 3 * capacity /\ ~pending.mustExist /\ IInv
    BY <2>3 DEF PoolInv, IInv, Load
  <2>5. pending.key \in Keys /\ pending.value \in Values /\ pending.mustExist = FALSE
    BY <2>4 DEF Arguments
  <2>6. KeysOf(entries') = KeysOf(entries) \cup {pending.key}
    <3>1. StoreEntry(pending.key, pending.value, FALSE) /\ phase # "copy"
      BY <2>3, <2>5
    <3>2. QED
      BY <2>4, <2>5, <3>1, StoreKeys
  <2>7. Present' = Present
    BY <2>3, <2>6 DEF Present
  <2>8. QED
    BY <2>1, <2>2, <2>3, <2>7 DEF PoolInv
<1>3. ASSUME NEW white \in SUBSET live, PoolInstall(white) PROVE PoolInv'
  <2>1. InstallFresh /\ live' = live \ white /\ stale' = stale \cup white
    BY <1>3 DEF PoolInstall
  <2>2. IInv' /\ KeysOf(entries') = KeysOf(entries)
    BY <2>1, InstallFreshKeeps, InstallKeys DEF PoolInv
  <2>3. phase = "copy" /\ phase' = "store" /\ pending' = pending
    BY <2>1 DEF InstallFresh
  <2>4. Present' = Present
    BY <2>2, <2>3 DEF Present
  <2>5. live' \cup stale' = live \cup stale
    BY <2>1
  <2>6. QED
    BY <2>2, <2>3, <2>4, <2>5 DEF PoolInv
<1>4. QED
  BY <1>1, <1>2, <1>3

LEMMA PoolInvStep ==
  ASSUME PoolInv, [PoolNext]_poolVars
  PROVE  PoolInv'
<1>1. CASE UNCHANGED poolVars
  <2>1. UNCHANGED vars /\ live' = live /\ stale' = stale
    BY <1>1 DEF poolVars
  <2>2. IInv'
    BY <2>1, IInvStep DEF PoolInv
  <2>3. Present' = Present /\ phase' = phase /\ pending' = pending
    BY <2>1 DEF vars, Present
  <2>4. QED
    BY <2>1, <2>2, <2>3 DEF PoolInv
<1>2. ASSUME NEW t \in Texts, NEW white \in SUBSET live, NEW lost \in SUBSET live,
             Reuse(t, white, lost)
      PROVE  PoolInv'
  BY <1>2, CollectionKeeps DEF Reuse
<1>3. ASSUME NEW white \in SUBSET live, NEW lost \in SUBSET live, Collect(white, lost)
      PROVE  PoolInv'
  BY <1>3, CollectionKeeps DEF Collect
<1>4. QED
  BY <1>1, <1>2, <1>3, AllocateKeeps, GrowthKeeps DEF PoolNext

LEMMA PoolInvariance == PoolSpec => []PoolInv
  BY PoolInvInit, PoolInvStep, PTL DEF PoolSpec

-----------------------------------------------------------------------------
(* The theorems.                                                             *)

(* No two strings that exist have the same characters, so that comparing     *)
(* strings by address is right: in every build, whatever is collected.       *)
THEOREM StringsAreUnique == PoolSpec => []UniqueStrings
<1>1. PoolInv => UniqueStrings
  BY DEF PoolInv, UniqueStrings
<1>2. QED
  BY <1>1, PoolInvariance, PTL

(* Between operations the keys of the pool are the strings that exist and    *)
(* those whose entries a collection in a free has left behind: in every      *)
(* build, and until the program meets the first such entry.                  *)
THEOREM PoolAlwaysHoldsLive == PoolSpec => []PoolHoldsLive
<1>1. PoolInv => PoolHoldsLive
  BY DEF PoolInv, PoolHoldsLive, Present
<1>2. QED
  BY <1>1, PoolInvariance, PTL
=============================================================================
