------------------------------ MODULE StringPool ------------------------------
(***************************************************************************)
(* String interning: vm.strings is a table whose keys are the strings that *)
(* exist.  copy_string, const_string and take_string look for a string     *)
(* with the wanted characters before they allocate one, and alloc_string   *)
(* adds what it allocates.  The pool keeps no string alive: before the     *)
(* collector frees strings it deletes their entries.                       *)
(*                                                                         *)
(* A collection is the choice of the strings it frees; which ones the mark *)
(* phase may leave out is not modelled here.  reallocate may start one     *)
(* whenever it allocates and, unless DEBUG_STRESS_GC is defined, whenever  *)
(* it frees: within take_string, within a rehash, and within the sweep of  *)
(* another collection.                                                     *)
(***************************************************************************)
EXTENDS Table

CONSTANTS
  Texts,     \* sequences of characters
  Text,      \* the characters of a string
  TextHash   \* hash_string

ASSUME PoolAssumption ==
  /\ Text \in [Keys -> Texts]
  /\ TextHash \in [Texts -> Nat]
  /\ \A k \in Keys : Hash[k] = TextHash[Text[k]]

VARIABLES
  live,      \* the strings that have not been freed
  stale,     \* history: strings that were freed while their entries stayed
  interned   \* what copy_string, const_string or take_string returned last

poolVars == <<vars, live, stale, interned>>

PoolTypeOK ==
  /\ TypeOK
  /\ live \in SUBSET Keys /\ stale \in SUBSET Keys
  /\ interned \in Keys \cup {NULL}

-----------------------------------------------------------------------------
(* table_find_string: the probe compares characters, and goes on at          *)
(* tombstones.                                                               *)
FindStringToTombstone(t) ==
  IF count = 0 THEN NULL
  ELSE LET stops == {j \in 0..capacity - 1 :
                       \/ entries[j].key = NULL
                       \/ entries[j].key # NULL /\ Text[entries[j].key] = t}
       IN entries[First(stops, TextHash[t] % capacity, capacity)].key
FindString(t) ==
  IF count = 0 THEN NULL
  ELSE LET stops == {j \in 0..capacity - 1 :
                       \/ Unused(entries[j])
                       \/ entries[j].key # NULL /\ Text[entries[j].key] = t}
       IN entries[First(stops, TextHash[t] % capacity, capacity)].key

\* table_remove_white
RemoveWhiteNot(white) == UNCHANGED entries
RemoveWhite(white) ==
  entries' = Erased(entries, {j \in DOMAIN entries : entries[j].key \in white})

(* A collection frees the strings in white, after their entries.  One that   *)
(* reallocate starts in the sweep of another flips the mark value, and the   *)
(* outer sweep then frees what was marked, "lost", and leaves the entries.   *)
Sweep(white, lost) ==
  /\ white \cap lost = {}
  /\ RemoveWhite(white)
  /\ live' = live \ (white \cup lost)
  /\ stale' = stale \cup lost

(* The next probe or mark phase that meets an entry of a freed string reads  *)
(* freed memory; nothing is said of the program after that.                  *)
Runs == phase = "idle" /\ stale = {}

-----------------------------------------------------------------------------
PoolInit == Init /\ live = {} /\ stale = {} /\ interned = NULL

(* copy_string, const_string and take_string when the string exists.         *)
(* take_string then frees the characters it was given, and the collection    *)
(* this may start does not know of the string about to be returned.          *)
Reuse(t, white, lost) ==
  /\ Runs
  /\ FindString(t) # NULL
  /\ interned' = FindString(t)
  /\ Sweep(white, lost)
  /\ UNCHANGED <<count, capacity, phase, fresh, next, pending, answer>>

\* ... and when it does not: alloc_string.
Allocate(t, k) ==
  /\ Runs
  /\ FindString(t) = NULL
  /\ k \notin live /\ Text[k] = t
  /\ Set(k, Nil, FALSE)
  /\ live' = live \cup {k}
  /\ interned' = k
  /\ UNCHANGED stale

(* A collection when the table is not being changed, or when table_set       *)
(* allocates the larger array: it deletes from the old one before the copy.  *)
Collect(white, lost) ==
  /\ Runs
  /\ white \cup lost # {}
  /\ Sweep(white, lost)
  /\ interned' = IF interned \in white \cup lost THEN NULL ELSE interned
  /\ UNCHANGED <<count, capacity, phase, fresh, next, pending, answer>>

PoolCopyEntry == CopyEntry /\ UNCHANGED <<live, stale, interned>>

(* adjust_capacity frees the old array while it still is the table's.  A     *)
(* collection that this starts deletes from that array, and the new one      *)
(* keeps the entries of what it frees.  The new string is on the stack.      *)
PoolInstall(white) ==
  /\ InstallFresh
  /\ pending.key \notin white
  /\ live' = live \ white
  /\ stale' = stale \cup white
  /\ UNCHANGED interned

PoolStore == StorePending /\ UNCHANGED <<live, stale, interned>>

PoolNext ==
  \/ \E t \in Texts, white, lost \in SUBSET live : Reuse(t, white, lost)
  \/ \E t \in Texts, k \in Keys : Allocate(t, k)
  \/ \E white, lost \in SUBSET live : Collect(white, lost)
  \/ PoolCopyEntry
  \/ \E white \in SUBSET live : PoolInstall(white)
  \/ PoolStore

PoolSpec == PoolInit /\ [][PoolNext]_poolVars

-----------------------------------------------------------------------------
(* Values are compared by address, so two strings with the same characters   *)
(* must be one object: what table_find_string overlooks is created twice.    *)
UniqueStrings == \A k, l \in live : Text[k] = Text[l] => k = l

(* Between operations the pool has an entry for every string that exists, or *)
(* its characters would be interned a second time, and entries for no other  *)
(* strings but those whose entries a collection in the free of the old array *)
(* or in the sweep of another has left behind: probes, deletions, reused     *)
(* tombstones and rehashes leave none.                                       *)
PoolHoldsLive == phase = "idle" => KeysOf(entries) = live \cup stale

(* object.c says of a string that is already interned: "we should use the    *)
(* interned version to ensure equality checks work correctly".  So what      *)
(* interning has returned is what the next lookup of its characters finds.   *)
InternedIsUsed ==
  Runs /\ interned # NULL => FindString(Text[interned]) = interned
=============================================================================
