--------------------------------- MODULE Table ---------------------------------
(***************************************************************************)
(* The hash table of table.c: open addressing with linear probing,         *)
(* tombstones for deleted entries, and a rehash into an array of twice the *)
(* size when three quarters of the slots have been used.  One table is     *)
(* the globals, the entries of a dictionary or, in StringPool, vm.strings. *)
(***************************************************************************)
EXTENDS Integers, FiniteSets

CONSTANTS
  Keys,        \* interned strings, compared by address
  Values,      \* Lox values
  Nil, True,   \* the two values an entry without a key can have
  NULL,
  Hash,        \* String.hash
  MinCapacity, \* the capacity of the first array (8 in memory.h)
  MaxCapacity  \* bound: the table does not grow beyond it

ASSUME TableAssumption ==
  /\ Nil \in Values /\ True \in Values /\ Nil # True
  /\ NULL \notin Keys
  /\ Hash \in [Keys -> Nat]
  /\ MinCapacity \in Nat /\ MinCapacity >= 2 /\ MaxCapacity \in Nat

VARIABLES
  count,     \* table->count
  capacity,  \* table->capacity
  entries,   \* table->entries
  phase,     \* where table_set is: "idle", or in adjust_capacity, or past it
  fresh,     \* adjust_capacity's new array
  next,      \* adjust_capacity's index into the old array
  pending,   \* the arguments of the table_set that had to grow the table
  answer     \* what the last operation returned

vars == <<count, capacity, entries, phase, fresh, next, pending, answer>>

Entry == [key : Keys \cup {NULL}, value : Values]
Empty == [key |-> NULL, value |-> Nil]
Tombstone == [key |-> NULL, value |-> True]
Array(n) == [0..n - 1 -> Entry]
EmptyArrayTooLong(n) == [j \in 0..n |-> Empty]
EmptyArray(n) == [j \in 0..n - 1 |-> Empty]

Arguments == [key : Keys, value : Values, mustExist : BOOLEAN]
Answers == Values \cup {"absent", "new", "old", "undefined"}

\* GROW_CAPACITY
GrownCapacity == IF capacity < MinCapacity THEN MinCapacity ELSE 2 * capacity

TypeOK ==
  /\ count \in Nat
  /\ capacity \in Nat
  /\ entries \in Array(capacity)
  /\ phase \in {"idle", "copy", "store"}
  /\ fresh \in Array(IF phase = "copy" THEN GrownCapacity ELSE 0)
  /\ next \in 0..capacity
  /\ pending \in Arguments \cup {NULL}
  /\ answer \in Answers

-----------------------------------------------------------------------------
(* table_find_entry visits the slots from the key's hash on, wrapping around *)
(* at the end of the array.                                                  *)
Home(k, cap) == Hash[k] % cap
Distance(h, j, cap) == IF j >= h THEN j - h ELSE j - h + cap

\* The first slot of S that a probe from h meets.
First(S, h, cap) ==
  CHOOSE j \in S : \A i \in S : Distance(h, j, cap) <= Distance(h, i, cap)

Unused(e) == e.key = NULL /\ e.value = Nil
Deleted(e) == e.key = NULL /\ e.value # Nil

\* The slots that end the probe for k.
Stops(es, cap, k) == {j \in 0..cap - 1 : es[j].key = k \/ Unused(es[j])}

\* The slot of k if it has one; otherwise the one to put it in.
FindEntryNoReuse(es, cap, k) == First(Stops(es, cap, k), Home(k, cap), cap)
FindEntryAnyTombstone(es, cap, k) ==
  LET h == Home(k, cap)
      stop == First(Stops(es, cap, k), h, cap)
      graves == {j \in 0..cap - 1 : Deleted(es[j]) /\ Distance(h, j, cap) < Distance(h, stop, cap)}
  IN IF graves = {} THEN stop ELSE First(graves, h, cap)
FindEntry(es, cap, k) ==
  LET h == Home(k, cap)
      stop == First(Stops(es, cap, k), h, cap)
      graves == {j \in 0..cap - 1 : Deleted(es[j]) /\ Distance(h, j, cap) < Distance(h, stop, cap)}
  IN IF es[stop].key = k \/ graves = {} THEN stop ELSE First(graves, h, cap)

\* Where k is, if the table has it.
Slot(k) == FindEntry(entries, capacity, k)
Has(k) == count # 0 /\ entries[Slot(k)].key = k

Put(es, j, k, v) == [es EXCEPT ![j] = [key |-> k, value |-> v]]

\* Deleting an entry leaves a tombstone.
ErasedToUnused(es, slots) == [j \in DOMAIN es |-> IF j \in slots THEN Empty ELSE es[j]]
Erased(es, slots) == [j \in DOMAIN es |-> IF j \in slots THEN Tombstone ELSE es[j]]

-----------------------------------------------------------------------------
Init ==
  /\ count = 0 /\ capacity = 0 /\ entries = EmptyArray(0)
  /\ phase = "idle" /\ fresh = EmptyArray(0) /\ next = 0 /\ pending = NULL
  /\ answer = "absent"

(* The rest of table_set, once there is room: reusing a tombstone counts     *)
(* the slot again.  OP_SET_GLOBAL deletes the entry if it turns out new.     *)
StoreEntry(k, v, mustExist) ==
  LET j == Slot(k)
      isNew == entries[j].key = NULL
  IN /\ count' = IF isNew THEN count + 1 ELSE count
     /\ entries' = IF isNew /\ mustExist THEN Erased(entries, {j}) ELSE Put(entries, j, k, v)
     /\ answer' = IF ~isNew THEN "old" ELSE IF mustExist THEN "undefined" ELSE "new"
     /\ phase' = "idle" /\ pending' = NULL
     /\ UNCHANGED <<capacity, fresh, next>>

\* table_set grows the table when it would use more than three quarters of it.
CrowdedTooLate == count + 1 > capacity
Crowded == 4 * (count + 1) > 3 * capacity

(* table_set: dict_set, OP_DEFINE_GLOBAL and alloc_string; with mustExist,   *)
(* OP_SET_GLOBAL.                                                            *)
Set(k, v, mustExist) ==
  /\ phase = "idle"
  /\ IF Crowded
     THEN /\ GrownCapacity <= MaxCapacity
          /\ count' = 0
          /\ fresh' = EmptyArray(GrownCapacity)
          /\ next' = 0
          /\ phase' = "copy"
          /\ pending' = [key |-> k, value |-> v, mustExist |-> mustExist]
          /\ UNCHANGED <<capacity, entries, answer>>
     ELSE StoreEntry(k, v, mustExist)

\* adjust_capacity: one entry of the old array after the other moves to the new one.
CopyEntry ==
  LET e == entries[next]
  IN /\ phase = "copy" /\ next < capacity
     /\ IF e.key = NULL
        THEN UNCHANGED <<count, fresh>>
        ELSE /\ fresh' = Put(fresh, FindEntry(fresh, GrownCapacity, e.key), e.key, e.value)
             /\ count' = count + 1
     /\ next' = next + 1
     /\ UNCHANGED <<capacity, entries, phase, pending, answer>>

\* adjust_capacity: the new array replaces the old one, tombstones are gone.
InstallFresh ==
  /\ phase = "copy" /\ next = capacity
  /\ entries' = fresh
  /\ capacity' = GrownCapacity
  /\ fresh' = EmptyArray(0) /\ next' = 0
  /\ phase' = "store"
  /\ UNCHANGED <<count, pending, answer>>

StorePending ==
  /\ phase = "store"
  /\ StoreEntry(pending.key, pending.value, pending.mustExist)

\* table_get
Get(k) ==
  /\ phase = "idle"
  /\ answer' = IF Has(k) THEN entries[Slot(k)].value ELSE "absent"
  /\ UNCHANGED <<count, capacity, entries, phase, fresh, next, pending>>

\* table_delete and table_get_and_delete: the count stays.
Delete(k) ==
  /\ phase = "idle"
  /\ IF Has(k)
     THEN /\ entries' = Erased(entries, {Slot(k)})
          /\ answer' = entries[Slot(k)].value
     ELSE /\ answer' = "absent"
          /\ UNCHANGED entries
  /\ UNCHANGED <<count, capacity, phase, fresh, next, pending>>

Next ==
  \/ \E k \in Keys, v \in Values, mustExist \in BOOLEAN : Set(k, v, mustExist)
  \/ CopyEntry
  \/ InstallFresh
  \/ StorePending
  \/ \E k \in Keys : Get(k)
  \/ \E k \in Keys : Delete(k)

Spec == Init /\ [][Next]_vars

-----------------------------------------------------------------------------
(* The loop of table_find_entry has no bound: it ends at the key or at a     *)
(* slot that was never used.  A table without such a slot, which only an     *)
(* off count can produce, hangs the interpreter on the first absent key.     *)
ProbesEnd ==
  /\ capacity > 0 => \E j \in 0..capacity - 1 : Unused(entries[j])
  /\ phase = "copy" => \E j \in 0..GrownCapacity - 1 : Unused(fresh[j])

(* Every entry is where a probe for its key ends, so no entry is lost behind *)
(* a gap and no key has two, whatever the order of insertions, deletions and *)
(* rehashes that put it there.                                               *)
Findable ==
  /\ \A j \in 0..capacity - 1 : entries[j].key # NULL => Slot(entries[j].key) = j
  /\ phase = "copy" =>
       \A j \in 0..GrownCapacity - 1 :
         fresh[j].key # NULL => FindEntry(fresh, GrownCapacity, fresh[j].key) = j

(* The keys of the table and their values.                                   *)
KeysOf(es) == {es[j].key : j \in DOMAIN es} \ {NULL}
Contents(es) ==
  [k \in KeysOf(es) |-> es[CHOOSE j \in DOMAIN es : es[j].key = k].value]

(* The table is a map from strings to values: a rehash changes nothing that  *)
(* its users can see, and every operation answers what a map would.          *)
Map == INSTANCE MapSpec WITH map <- Contents(entries)
ImplementsMap == Map!Spec
=============================================================================
