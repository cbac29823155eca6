------------------------------ MODULE HeapProofs ------------------------------
(***************************************************************************)
(* Proofs about Heap: whatever objects there are and however the program   *)
(* links them, vm.objects stays the list of the objects that exist, and a  *)
(* collection frees nothing that is newborn, a root or referred to by an   *)
(* object it visited.                                                      *)
(*                                                                         *)
(* The invariant has to say where sweep is: in the list, prev right before *)
(* obj, and what lies from obj on and is still needed has its mark bit.    *)
(* The objects before obj may have lost theirs to object_set_next.         *)
(***************************************************************************)
EXTENDS Heap, FiniteSetTheorems, TLAPS

USE HeapAssumption

-----------------------------------------------------------------------------
(* The list of all objects.                                                  *)

\* From `first` on, the pointers nx lead through s, which has each object of h once.
IsList(n, s, h, first, nx) ==
  /\ h = {s[i] : i \in 1..n}
  /\ \A i, j \in 1..n : s[i] = s[j] => i = j
  /\ first = IF n = 0 THEN NULL ELSE s[1]
  /\ \A i \in 1..n : nx[s[i]] = IF i = n THEN NULL ELSE s[i + 1]

\* The i-th object of the list, and nothing at its end.
At(n, s, i) == IF i = n + 1 THEN NULL ELSE s[i]

\* What this collection must not free.
Needed == newborn \cup Roots \cup UNION {Children(o) : o \in black}

\* Sweep has come to the i-th object, and finds the mark bits it needs.
SweepAt(n, s, i) ==
  /\ obj = At(n, s, i)
  /\ prev = IF i = 1 THEN NULL ELSE s[i - 1]
  /\ \A j \in i..n : s[j] \in Needed => mark[s[j]] = markValue

ListInv ==
  \E n \in Nat : \E s \in [1..n -> Objects] :
    /\ IsList(n, s, heap, objects, nextOf)
    /\ phase = "sweep" => \E i \in 1..n + 1 : SweepAt(n, s, i)

\* Before the sweep all that is needed is marked, and tracing stays inside of what exists.
MarkInv ==
  /\ newborn \subseteq heap
  /\ phase = "idle" => (\A o \in newborn : mark[o] = markValue) /\ black = {}
  /\ phase = "mark" => /\ Reachable \subseteq heap /\ gray \cup black \subseteq Reachable
                       /\ \A o \in Needed : mark[o] = markValue
  /\ phase = "sweep" => Needed \subseteq heap

\* Up to its second collection coroutine_new holds an object that exists.
HeldInv ==
  /\ held = NULL => allocations = 0
  /\ allocations > 0 => held \in newborn \/ (allocations = 1 /\ phase = "idle" /\ held \in heap)
  /\ allocations = 2 => phase = "idle"

HInv == TypeOK /\ ListInv /\ MarkInv /\ HeldInv

\* A new object becomes the first.
LEMMA PushOnList ==
  ASSUME NEW n \in Nat, NEW s \in [1..n -> Objects], NEW h, NEW first, NEW nx \in [Objects -> Objects \cup {NULL}],
         IsList(n, s, h, first, nx), NEW o \in Objects, o \notin h
  PROVE  \E t \in [1..n + 1 -> Objects] : IsList(n + 1, t, h \cup {o}, o, [nx EXCEPT ![o] = first])
<1> DEFINE t == [i \in 1..n + 1 |-> IF i = 1 THEN o ELSE s[i - 1]]
           mx == [nx EXCEPT ![o] = first]
<1>1. t \in [1..n + 1 -> Objects] /\ t[1] = o /\ (\A i \in 1..n : t[i + 1] = s[i])
      /\ \A i \in 2..n + 1 : i - 1 \in 1..n /\ t[i] = s[i - 1]
  OBVIOUS
<1>2. \A i \in 1..n : s[i] \in Objects /\ s[i] \in h /\ s[i] # o
  BY DEF IsList
<1>3. mx[o] = first /\ \A i \in 1..n : mx[s[i]] = nx[s[i]]
  BY <1>2
<1> HIDE DEF t, mx
<1>4. h \cup {o} = {t[i] : i \in 1..n + 1}
  <2>1. ASSUME NEW x \in h \cup {o} PROVE x \in {t[i] : i \in 1..n + 1}
    <3>1. CASE x = o
      BY <1>1, <3>1
    <3>2. CASE x \in h
      <4>1. PICK i \in 1..n : x = s[i]
        BY <3>2 DEF IsList
      <4>2. i + 1 \in 1..n + 1 /\ t[i + 1] = x
        BY <1>1, <4>1
      <4>3. QED
        BY <4>2
    <3>3. QED
      BY <3>1, <3>2
  <2>2. ASSUME NEW i \in 1..n + 1 PROVE t[i] \in h \cup {o}
    <3>1. i = 1 \/ i \in 2..n + 1
      OBVIOUS
    <3>2. QED
      BY <1>1, <1>2, <3>1
  <2>3. QED
    BY <2>1, <2>2
<1>5. \A i, j \in 1..n + 1 : t[i] = t[j] => i = j
  <2> SUFFICES ASSUME NEW i \in 1..n + 1, NEW j \in 1..n + 1, t[i] = t[j] PROVE i = j
    OBVIOUS
  <2>1. (i = 1 \/ i \in 2..n + 1) /\ (j = 1 \/ j \in 2..n + 1)
    OBVIOUS
  <2>2. CASE i \in 2..n + 1 /\ j \in 2..n + 1
    <3>1. i - 1 \in 1..n /\ j - 1 \in 1..n /\ s[i - 1] = s[j - 1]
      BY <1>1, <2>2
    <3>2. i - 1 = j - 1
      BY <3>1 DEF IsList
    <3>3. QED
      BY <3>2
  <2>3. QED
    BY <1>1, <1>2, <2>1, <2>2
<1>6. \A i \in 1..n + 1 : mx[t[i]] = IF i = n + 1 THEN NULL ELSE t[i + 1]
  <2> SUFFICES ASSUME NEW i \in 1..n + 1 PROVE mx[t[i]] = IF i = n + 1 THEN NULL ELSE t[i + 1]
    OBVIOUS
  <2>1. CASE i = 1
    <3>1. mx[t[i]] = IF n = 0 THEN NULL ELSE s[1]
      BY <1>1, <1>3, <2>1 DEF IsList
    <3>2. n # 0 => t[i + 1] = s[1]
      BY <1>1, <2>1
    <3>3. QED
      BY <2>1, <3>1, <3>2
  <2>2. CASE i \in 2..n + 1
    <3>1. i - 1 \in 1..n /\ t[i] = s[i - 1]
      BY <1>1, <2>2
    <3>2. mx[t[i]] = IF i - 1 = n THEN NULL ELSE s[(i - 1) + 1]
      BY <1>3, <3>1 DEF IsList
    <3>3. i # n + 1 => t[i + 1] = s[i]
      BY <1>1, <2>2
    <3>4. QED
      BY <2>2, <3>2, <3>3
  <2>3. QED
    BY <2>1, <2>2
<1>7. IsList(n + 1, t, h \cup {o}, o, mx)
  <2>1. o = IF n + 1 = 0 THEN NULL ELSE t[1]
    BY <1>1
  <2>2. QED
    BY <1>4, <1>5, <1>6, <2>1, Zenon DEF IsList
<1>8. QED
  BY <1>1, <1>7 DEF mx

\* The predecessor of the i-th object in the list s, or the head, skips it.
Skips(s, i, first, nx, newFirst, mx) ==
  /\ newFirst = IF i = 1 THEN nx[s[i]] ELSE first
  /\ \A o \in Objects : o # s[i] => mx[o] = IF i # 1 /\ o = s[i - 1] THEN nx[s[i]] ELSE nx[o]

\* There is a list of all objects of h but s[i], t, like s in front of it and behind it.
IsUnlinked(n, s, i, h, nx, newFirst, mx) ==
  \E t \in [1..n - 1 -> Objects] :
    /\ IsList(n - 1, t, h \ {s[i]}, newFirst, mx)
    /\ At(n - 1, t, i) = nx[s[i]]
    /\ i # 1 => t[i - 1] = s[i - 1]
    /\ \A j \in i..n - 1 : t[j] = s[j + 1]

LEMMA UnlinkFromList ==
  ASSUME NEW n \in Nat, NEW s \in [1..n -> Objects], NEW h, NEW first, NEW nx \in [Objects -> Objects \cup {NULL}],
         IsList(n, s, h, first, nx), NEW i \in 1..n, NEW newFirst, NEW mx,
         Skips(s, i, first, nx, newFirst, mx)
  PROVE  IsUnlinked(n, s, i, h, nx, newFirst, mx)
<1> USE DEF Skips
<1> DEFINE t == [j \in 1..n - 1 |-> IF j < i THEN s[j] ELSE s[j + 1]]
<1>1. /\ t \in [1..n - 1 -> Objects] /\ n - 1 \in Nat
      /\ \A j \in 1..n - 1 : j < i => j \in 1..n /\ t[j] = s[j]
      /\ \A j \in 1..n - 1 : j >= i => j + 1 \in 1..n /\ t[j] = s[j + 1]
  OBVIOUS
<1> HIDE DEF t
<1>2. /\ \A j, k \in 1..n : s[j] = s[k] => j = k
      /\ \A j \in 1..n : nx[s[j]] = IF j = n THEN NULL ELSE s[j + 1]
      /\ h = {s[j] : j \in 1..n} /\ first = s[1] /\ \A j \in 1..n : s[j] \in Objects
  BY DEF IsList
<1>3. h \ {s[i]} = {t[j] : j \in 1..n - 1}
  <2>1. ASSUME NEW x \in h, x # s[i] PROVE \E j \in 1..n - 1 : x = t[j]
    <3>1. PICK j \in 1..n : x = s[j]
      BY <1>2
    <3>2. j # i
      BY <2>1, <3>1
    <3>3. CASE j < i
      <4>1. j \in 1..n - 1
        BY <3>3
      <4>2. QED
        BY <1>1, <3>1, <3>3, <4>1
    <3>4. CASE j > i
      <4>1. j - 1 \in 1..n - 1 /\ j - 1 >= i /\ (j - 1) + 1 = j
        BY <3>4
      <4>2. t[j - 1] = s[j]
        BY <1>1, <4>1
      <4>3. QED
        BY <3>1, <4>1, <4>2
    <3>5. QED
      BY <3>2, <3>3, <3>4
  <2>2. ASSUME NEW j \in 1..n - 1 PROVE t[j] \in h /\ t[j] # s[i]
    <3>1. CASE j < i
      <4>1. t[j] = s[j] /\ j \in 1..n /\ j # i
        BY <1>1, <3>1
      <4>2. QED
        BY <1>2, <4>1
    <3>2. CASE j >= i
      <4>1. t[j] = s[j + 1] /\ j + 1 \in 1..n
        BY <1>1, <3>2
      <4>2. j + 1 # i
        BY <3>2
      <4>3. s[j + 1] \in h /\ s[j + 1] # s[i]
        BY <1>2, <4>1, <4>2
      <4>4. QED
        BY <4>1, <4>3
    <3>3. QED
      BY <3>1, <3>2
  <2>3. QED
    BY <2>1, <2>2
<1>4. \A j, k \in 1..n - 1 : t[j] = t[k] => j = k
  <2> SUFFICES ASSUME NEW j \in 1..n - 1, NEW k \in 1..n - 1, t[j] = t[k] PROVE j = k
    OBVIOUS
  <2> DEFINE a == IF j < i THEN j ELSE j + 1
             b == IF k < i THEN k ELSE k + 1
  <2>1. a \in 1..n /\ t[j] = s[a]
    BY <1>1
  <2>2. b \in 1..n /\ t[k] = s[b]
    BY <1>1
  <2>3. a = b
    <3> HIDE DEF a, b
    <3>1. s[a] = s[b]
      BY <2>1, <2>2
    <3>2. QED
      BY <1>2, <2>1, <2>2, <3>1
  <2>4. QED
    BY <2>3
<1>5. newFirst = IF n - 1 = 0 THEN NULL ELSE t[1]
  <2>1. CASE i = 1
    <3>1. newFirst = IF 1 = n THEN NULL ELSE s[2]
      BY <1>2, <2>1
    <3>2. n # 1 => t[1] = s[2]
      BY <1>1, <2>1
    <3>3. QED
      BY <3>1, <3>2
  <2>2. CASE i # 1
    <3>1. n - 1 # 0 /\ 1 \in 1..n - 1 /\ 1 < i
      BY <2>2
    <3>2. t[1] = s[1]
      BY <1>1, <3>1
    <3>3. QED
      BY <1>2, <2>2, <3>1, <3>2
  <2>3. QED
    BY <2>1, <2>2
<1>6. At(n - 1, t, i) = nx[s[i]]
  <2>1. CASE i = n
    BY <1>2, <2>1 DEF At
  <2>2. CASE i # n
    <3>1. i \in 1..n - 1
      BY <2>2
    <3>2. t[i] = s[i + 1]
      BY <1>1, <3>1
    <3>3. QED
      BY <1>2, <2>2, <3>2 DEF At
  <2>3. QED
    BY <2>1, <2>2
<1>7. i # 1 => i - 1 \in 1..n - 1 /\ t[i - 1] = s[i - 1]
  <2> SUFFICES ASSUME i # 1 PROVE i - 1 \in 1..n - 1 /\ t[i - 1] = s[i - 1]
    OBVIOUS
  <2>1. i - 1 \in 1..n - 1 /\ i - 1 < i
    OBVIOUS
  <2>2. QED
    BY <1>1, <2>1
<1>8. \A j \in 1..n - 1 : mx[t[j]] = IF j = n - 1 THEN NULL ELSE t[j + 1]
  <2> SUFFICES ASSUME NEW j \in 1..n - 1 PROVE mx[t[j]] = IF j = n - 1 THEN NULL ELSE t[j + 1]
    OBVIOUS
  <2>1. CASE j < i - 1
    <3>1. j \in 1..n /\ j + 1 \in 1..n - 1 /\ j + 1 < i /\ j < i /\ j # n /\ j # n - 1
      BY <2>1
    <3>2. t[j] = s[j] /\ t[j + 1] = s[j + 1]
      BY <1>1, <3>1
    <3>3. s[j] # s[i] /\ s[j] \in Objects /\ (i # 1 => s[j] # s[i - 1])
      BY <1>2, <2>1, <3>1
    <3>4. mx[s[j]] = nx[s[j]]
      BY <3>3
    <3>5. QED
      BY <1>2, <3>1, <3>2, <3>4
  <2>2. CASE j = i - 1
    <3>1. i # 1 /\ j \in 1..n /\ j < i
      BY <2>2
    <3>2. t[j] = s[i - 1] /\ s[i - 1] # s[i] /\ s[i - 1] \in Objects
      BY <1>1, <1>2, <2>2, <3>1
    <3>3. mx[t[j]] = nx[s[i]]
      BY <3>1, <3>2
    <3>4. nx[s[i]] = IF i = n THEN NULL ELSE t[i]
      BY <1>6 DEF At
    <3>5. QED
      BY <2>2, <3>3, <3>4
  <2>3. CASE j > i - 1
    <3>1. j + 1 \in 1..n /\ j >= i
      BY <2>3
    <3>2. t[j] = s[j + 1]
      BY <1>1, <3>1
    <3>3. s[j + 1] # s[i] /\ s[j + 1] \in Objects /\ (i # 1 => s[j + 1] # s[i - 1])
      BY <1>2, <3>1
    <3>4. mx[s[j + 1]] = nx[s[j + 1]]
      BY <3>3
    <3>5. nx[s[j + 1]] = IF j + 1 = n THEN NULL ELSE s[(j + 1) + 1]
      BY <1>2, <3>1
    <3>6. j # n - 1 => j + 1 \in 1..n - 1 /\ j + 1 >= i /\ t[j + 1] = s[(j + 1) + 1]
      BY <1>1, <3>1
    <3>7. QED
      BY <3>2, <3>4, <3>5, <3>6
  <2>4. QED
    BY <2>1, <2>2, <2>3
<1>9. IsList(n - 1, t, h \ {s[i]}, newFirst, mx)
  BY <1>3, <1>4, <1>5, <1>8 DEF IsList
<1>10. \A j \in i..n - 1 : t[j] = s[j + 1]
  BY <1>1
<1>11. QED
  BY <1>1, <1>6, <1>7, <1>9, <1>10 DEF IsUnlinked

\* The list has as many objects as there are.
LEMMA ListCounts ==
  ASSUME NEW n \in Nat, NEW s \in [1..n -> Objects], NEW h, NEW first, NEW nx, IsList(n, s, h, first, nx)
  PROVE  Cardinality(h) = n /\ s \in [1..n -> h] /\ (n = 0 <=> h = {})
<1>1. h = {s[i] : i \in 1..n} /\ \A i, j \in 1..n : s[i] = s[j] => i = j
  BY DEF IsList
<1>2. s \in Bijection(1..n, h)
  <2>1. s \in [1..n -> h] /\ \A x \in h : \E i \in 1..n : s[i] = x
    BY <1>1
  <2>2. QED
    BY <1>1, <2>1 DEF Bijection, Injection, Surjection, IsInjective
<1>3. IsFiniteSet(1..n) /\ Cardinality(1..n) = n
  BY FS_Interval
<1>4. ExistsBijection(1..n, h)
  BY <1>2 DEF ExistsBijection
<1>5. Cardinality(h) = n
  BY <1>3, <1>4, FS_Bijection
<1>6. n = 0 => h = {}
  BY <1>1
<1>7. n # 0 => h # {}
  <2>1. n # 0 => 1 \in 1..n
    OBVIOUS
  <2>2. QED
    BY <1>1, <2>1
<1>8. s \in [1..n -> h]
  BY <1>1
<1>9. QED
  BY <1>5, <1>6, <1>7, <1>8

-----------------------------------------------------------------------------
(* What the program can get at.                                              *)

LEMMA ChildrenAreObjects ==
  ASSUME TypeOK, NEW o \in Objects
  PROVE  Children(o) \subseteq Objects
BY DEF TypeOK, Children

LEMMA RootsAreObjects ==
  ASSUME TypeOK
  PROVE  Running \in {Main} \cup Coros /\ Roots \subseteq Objects
<1>1. Running \in {Main} \cup Coros
  BY DEF TypeOK, Running, Last
<1>2. QED
  BY <1>1 DEF TypeOK, Roots, Objects

LEMMA ReachableIsClosed ==
  ASSUME TypeOK
  PROVE  /\ Roots \subseteq Reachable /\ Reachable \subseteq Objects
         /\ \A o \in Reachable : Children(o) \subseteq Reachable
<1>1. Reachable \subseteq Objects /\ Roots \subseteq Reachable
  BY RootsAreObjects DEF Reachable
<1>2. ASSUME NEW o \in Reachable, NEW p \in Children(o) PROVE p \in Reachable
  <2>1. p \in Objects
    BY <1>1, <1>2, ChildrenAreObjects
  <2>2. ASSUME NEW S \in SUBSET Objects, Roots \subseteq S, \A q \in S : Children(q) \subseteq S
        PROVE  p \in S
    <3>1. o \in S
      BY <2>2 DEF Reachable
    <3>2. QED
      BY <1>2, <2>2, <3>1
  <2>3. QED
    BY <2>1, <2>2 DEF Reachable
<1>3. QED
  BY <1>1, <1>2

\* While the program does not run, what it can get at stays.
LEMMA SameProgram ==
  ASSUME UNCHANGED program
  PROVE  /\ Reachable' = Reachable /\ Roots' = Roots
         /\ \A o \in Objects : Children(o)' = Children(o)
BY DEF program, Reachable, Roots, Running, Children

LEMMA SameList ==
  ASSUME ListInv, UNCHANGED <<heap, objects, nextOf>>, phase' # "sweep"
  PROVE  ListInv'
BY DEF ListInv

-----------------------------------------------------------------------------
(* Every step keeps the invariant.                                           *)

LEMMA HInvInit == Init => HInv
<1> SUFFICES ASSUME Init PROVE HInv
  OBVIOUS
<1>1. Main \in Objects
  BY DEF Objects
<1>2. TypeOK
  <2>1. active \in Seq({Main} \cup Coros) /\ active # <<>>
    BY DEF Init
  <2>2. QED
    BY <1>1, <2>1 DEF Init, TypeOK
<1>3. ListInv
  <2> DEFINE s == [i \in 1..1 |-> Main]
  <2>1. s \in [1..1 -> Objects] /\ 1 \in Nat /\ s[1] = Main
    BY <1>1
  <2>2. IsList(1, s, heap, objects, nextOf)
    BY <1>1 DEF Init, IsList
  <2>3. phase # "sweep"
    BY DEF Init
  <2> HIDE DEF s
  <2>4. QED
    BY <2>1, <2>2, <2>3 DEF ListInv
<1>4. MarkInv
  <2>1. \A o \in newborn : mark[o] = markValue
    <3>1. newborn = {Main} /\ mark[Main] = (Main = Main) /\ markValue = TRUE
      BY <1>1 DEF Init
    <3>2. QED
      BY <3>1
  <2>2. newborn \subseteq heap /\ phase = "idle" /\ black = {}
    BY DEF Init
  <2>3. QED
    BY <2>1, <2>2 DEF MarkInv
<1>5. HeldInv
  BY DEF Init, HeldInv
<1>6. QED
  BY <1>2, <1>3, <1>4, <1>5 DEF HInv

\* A step of the program other than an allocation.
LEMMA ProgramKeeps ==
  ASSUME HInv, phase = "idle", TypeOK', HeldInv', UNCHANGED <<heap, headers, collector, newborn>>
  PROVE  HInv'
<1>1. ListInv /\ MarkInv /\ phase' = "idle"
  BY DEF HInv, collector
<1>2. ListInv'
  BY <1>1, SameList DEF headers
<1>3. MarkInv'
  BY <1>1 DEF MarkInv, headers, collector
<1>4. QED
  BY <1>2, <1>3 DEF HInv

LEMMA AllocateKeeps ==
  ASSUME HInv, NEW o \in Objects, Allocate(o) \/ NewCoroutine(o)
  PROVE  HInv'
<1>1. TypeOK /\ ListInv /\ MarkInv /\ HeldInv /\ AllocateObject(o) /\ o \notin heap
      /\ phase = "idle" /\ held = NULL
  BY DEF HInv, Allocate, NewCoroutine, AllocateObject, Runs, Intact
<1>2. /\ heap' = heap \cup {o} /\ newborn' = newborn \cup {o}
      /\ parent' = [parent EXCEPT ![o] = NULL]
      /\ nextOf' = [nextOf EXCEPT ![o] = objects] /\ objects' = o
      /\ mark' = [mark EXCEPT ![o] = BornMarked]
      /\ owned' = owned \cup {o}
      /\ buffers' = IF o \in Strings THEN buffers \cup {o} ELSE buffers
      /\ active' = active /\ globals' = globals
      /\ UNCHANGED <<markValue, phase, gray, prev, obj, black>>
  BY <1>1 DEF AllocateObject, collector
<1>3. TypeOK'
  <2>1. refs' \in [Objects -> SUBSET Objects]
    <3>1. Running \in Objects /\ refs[Running] \cup {o} \in SUBSET Objects
      BY <1>1, RootsAreObjects DEF TypeOK, Objects
    <3>2. QED
      BY <1>1, <3>1 DEF TypeOK, Allocate, NewCoroutine
  <2>2. mark' \in [Objects -> BOOLEAN]
    BY <1>1, <1>2 DEF TypeOK, BornMarked
  <2>3. /\ parent' \in [Objects -> Objects \cup {NULL}] /\ nextOf' \in [Objects -> Objects \cup {NULL}]
        /\ objects' \in Objects \cup {NULL}
    BY <1>1, <1>2 DEF TypeOK
  <2>4. owned' \in SUBSET Objects /\ buffers' \in SUBSET Strings /\ heap' \in SUBSET Objects
        /\ newborn' \in SUBSET Objects
    BY <1>1, <1>2 DEF TypeOK
  <2>5. held' \in Coros \cup {NULL} /\ allocations' \in 0..2
    BY <1>1 DEF TypeOK, Allocate, NewCoroutine
  <2>6. QED
    BY <1>1, <1>2, <2>1, <2>2, <2>3, <2>4, <2>5 DEF TypeOK
<1>4. ListInv'
  <2>1. PICK n \in Nat : \E s \in [1..n -> Objects] : IsList(n, s, heap, objects, nextOf)
    BY <1>1 DEF ListInv
  <2>2. PICK s \in [1..n -> Objects] : IsList(n, s, heap, objects, nextOf)
    BY <2>1
  <2>3. nextOf \in [Objects -> Objects \cup {NULL}]
    BY <1>1 DEF TypeOK
  <2>4. PICK t \in [1..n + 1 -> Objects] : IsList(n + 1, t, heap \cup {o}, o, [nextOf EXCEPT ![o] = objects])
    BY <1>1, <2>2, <2>3, PushOnList
  <2>5. IsList(n + 1, t, heap', objects', nextOf')
    BY <1>2, <2>4
  <2>6. n + 1 \in Nat /\ phase' # "sweep"
    BY <1>1, <1>2
  <2>7. QED
    BY <2>5, <2>6 DEF ListInv
<1>5. MarkInv'
  <2>1. \A p \in newborn' : mark'[p] = markValue
    BY <1>1, <1>2 DEF MarkInv, TypeOK, BornMarked
  <2>2. QED
    BY <1>1, <1>2, <2>1 DEF MarkInv
<1>6. HeldInv'
  <2>1. CASE NewCoroutine(o)
    BY <1>1, <1>2, <2>1 DEF NewCoroutine, HeldInv
  <2>2. CASE Allocate(o)
    BY <1>1, <1>2, <2>2 DEF Allocate, HeldInv
  <2>3. QED
    BY <2>1, <2>2
<1>7. QED
  BY <1>3, <1>4, <1>5, <1>6 DEF HInv

LEMMA MutatorKeeps ==
  ASSUME HInv, NEW o \in Objects, NEW p \in Objects,
         Store(o, p) \/ Drop(o, p) \/ SetGlobal(o) \/ DropGlobal(o) \/ Resume(o) \/ Leave
         \/ PushCoroutine
  PROVE  HInv'
<1>1. TypeOK /\ HeldInv /\ phase = "idle"
  BY DEF HInv, Store, Drop, SetGlobal, DropGlobal, Resume, Leave, PushCoroutine, Runs, Intact
<1>2. UNCHANGED <<heap, headers, collector, newborn, buffers>>
      /\ (UNCHANGED <<held, allocations>> \/ (held' = NULL /\ allocations' = 0))
  BY DEF Store, Drop, SetGlobal, DropGlobal, Resume, Leave, PushCoroutine
<1>3. TypeOK'
  <2>1. ASSUME refs' \in [Objects -> SUBSET Objects], parent' \in [Objects -> Objects \cup {NULL}],
               active' \in Seq({Main} \cup Coros), active' # <<>>, globals' \in SUBSET Objects
        PROVE  TypeOK'
    <3>1. held' \in Coros \cup {NULL} /\ allocations' \in 0..2
      BY <1>1, <1>2 DEF TypeOK
    <3>2. QED
      BY <1>1, <1>2, <2>1, <3>1 DEF TypeOK, headers, collector
  <2>2. CASE Store(o, p)
    BY <1>1, <2>1, <2>2 DEF Store, TypeOK
  <2>3. CASE Drop(o, p)
    BY <1>1, <2>1, <2>3 DEF Drop, TypeOK
  <2>4. CASE SetGlobal(o)
    BY <1>1, <2>1, <2>4 DEF SetGlobal, TypeOK
  <2>5. CASE DropGlobal(o)
    BY <1>1, <2>1, <2>5 DEF DropGlobal, TypeOK
  <2>6. CASE Resume(o)
    <3>1. Running \in Objects /\ o \in Coros
      BY <1>1, <2>6, RootsAreObjects DEF Resume, Objects
    <3>2. active' \in Seq({Main} \cup Coros) /\ active' # <<>>
      BY <1>1, <2>6, <3>1 DEF Resume, TypeOK
    <3>3. parent' \in [Objects -> Objects \cup {NULL}]
      BY <1>1, <2>6, <3>1 DEF Resume, TypeOK
    <3>4. QED
      BY <1>1, <2>1, <2>6, <3>2, <3>3 DEF Resume, TypeOK
  <2>7. CASE Leave
    <3>1. active' \in Seq({Main} \cup Coros) /\ active' # <<>>
      <4>1. active' = SubSeq(active, 1, Len(active) - 1) /\ Len(active) > 1
        BY <2>7 DEF Leave, Front
      <4>2. active \in Seq({Main} \cup Coros)
        BY <1>1 DEF TypeOK
      <4>3. Len(active') = Len(active) - 1 /\ active' \in Seq({Main} \cup Coros)
        BY <4>1, <4>2
      <4>4. Len(active') # 0
        BY <4>1, <4>2, <4>3
      <4>5. QED
        BY <4>3, <4>4
    <3>2. QED
      BY <1>1, <2>1, <2>7, <3>1 DEF Leave, TypeOK
  <2>8. CASE PushCoroutine
    <3>1. Running \in Objects /\ held \in Objects
      BY <1>1, <2>8, RootsAreObjects DEF PushCoroutine, TypeOK, Objects
    <3>2. refs' \in [Objects -> SUBSET Objects]
      BY <1>1, <2>8, <3>1 DEF PushCoroutine, TypeOK
    <3>3. QED
      BY <1>1, <2>1, <2>8, <3>2 DEF PushCoroutine, TypeOK
  <2>9. QED
    BY <2>2, <2>3, <2>4, <2>5, <2>6, <2>7, <2>8
<1>4. HeldInv'
  BY <1>1, <1>2 DEF HeldInv, collector
<1>5. QED
  BY <1>1, <1>2, <1>3, <1>4, ProgramKeeps

\* mark_object on a set marks all of it, and takes no mark away.
LEMMA MarkMarks ==
  ASSUME TypeOK, NEW S \in SUBSET Objects, NEW rest \in SUBSET Objects, Mark(S, rest)
  PROVE  /\ mark' \in [Objects -> BOOLEAN] /\ gray' \in SUBSET Objects
         /\ gray' \subseteq rest \cup S
         /\ \A o \in Objects : o \in S \/ mark[o] = markValue => mark'[o] = markValue
BY DEF TypeOK, Mark, ToVisit

LEMMA StartCollectionKeeps ==
  ASSUME HInv, StartCollection
  PROVE  HInv'
<1>1. TypeOK /\ ListInv /\ MarkInv /\ HeldInv /\ phase = "idle" /\ Reachable \subseteq heap
  BY DEF HInv, StartCollection, Intact
<1>2. /\ phase' = "mark" /\ black' = {} /\ Mark(Roots, {})
      /\ UNCHANGED <<heap, program, objects, nextOf, owned, buffers, markValue, prev, obj, newborn>>
      /\ \/ held = NULL /\ UNCHANGED allocations
         \/ allocations > 0 /\ allocations' = allocations - 1
  BY DEF StartCollection
<1>3. Roots \subseteq Objects /\ Roots \subseteq Reachable
  BY <1>1, RootsAreObjects, ReachableIsClosed
<1>4. /\ mark' \in [Objects -> BOOLEAN] /\ gray' \in SUBSET Objects /\ gray' \subseteq Roots
      /\ \A o \in Objects : o \in Roots \/ mark[o] = markValue => mark'[o] = markValue
  BY <1>1, <1>2, <1>3, MarkMarks
<1>5. Reachable' = Reachable /\ Roots' = Roots
  BY <1>2, SameProgram
<1>6. TypeOK'
  <2>1. allocations' \in 0..2
    BY <1>1, <1>2 DEF TypeOK
  <2>2. QED
    BY <1>1, <1>2, <1>4, <2>1 DEF TypeOK, program
<1>7. ListInv'
  BY <1>1, <1>2, SameList
<1>8. Needed' = newborn \cup Roots
  BY <1>2, <1>5 DEF Needed
<1>9. \A o \in Needed' : mark'[o] = markValue
  BY <1>1, <1>3, <1>4, <1>8 DEF MarkInv, TypeOK
<1>10. MarkInv'
  BY <1>1, <1>2, <1>3, <1>4, <1>5, <1>9 DEF MarkInv
<1>11. HeldInv'
  BY <1>1, <1>2 DEF HeldInv, TypeOK, program
<1>12. QED
  BY <1>6, <1>7, <1>10, <1>11 DEF HInv

LEMMA BlackenKeeps ==
  ASSUME HInv, NEW o \in Objects, Blacken(o)
  PROVE  HInv'
<1>1. TypeOK /\ ListInv /\ MarkInv /\ HeldInv /\ phase = "mark" /\ o \in gray
  BY DEF HInv, Blacken
<1>2. /\ Mark(Children(o), gray \ {o}) /\ black' = black \cup {o}
      /\ UNCHANGED <<heap, program, allocations, objects, nextOf, owned, buffers, markValue, phase, prev, obj, newborn>>
  BY DEF Blacken
<1>3. /\ Reachable \subseteq heap /\ gray \cup black \subseteq Reachable
      /\ \A p \in Needed : mark[p] = markValue
  BY <1>1 DEF MarkInv
<1>4. Children(o) \subseteq Objects /\ Children(o) \subseteq Reachable /\ Reachable \subseteq Objects
      /\ Roots \subseteq Objects
  BY <1>1, <1>3, ChildrenAreObjects, ReachableIsClosed
<1>5. /\ mark' \in [Objects -> BOOLEAN] /\ gray' \in SUBSET Objects
      /\ gray' \subseteq (gray \ {o}) \cup Children(o)
      /\ \A p \in Objects : p \in Children(o) \/ mark[p] = markValue => mark'[p] = markValue
  BY <1>1, <1>2, <1>4, MarkMarks DEF TypeOK
<1>6. Reachable' = Reachable /\ Roots' = Roots
  BY <1>2, SameProgram
<1>7. TypeOK'
  BY <1>1, <1>2, <1>5 DEF TypeOK, program
<1>8. ListInv'
  BY <1>1, <1>2, SameList
<1>9. Needed' = Needed \cup Children(o)
  <2>1. refs' = refs /\ parent' = parent
    BY <1>2 DEF program
  <2>2. QED
    BY <1>2, <1>6, <2>1 DEF Needed, Children
<1>10. Needed \subseteq Objects
  BY <1>1, <1>3, <1>4, ChildrenAreObjects DEF Needed, TypeOK
<1>11. \A p \in Needed' : mark'[p] = markValue
  BY <1>3, <1>4, <1>5, <1>9, <1>10
<1>12. MarkInv'
  BY <1>1, <1>2, <1>3, <1>4, <1>5, <1>6, <1>11 DEF MarkInv
<1>13. HeldInv'
  BY <1>1, <1>2 DEF HeldInv, program
<1>14. QED
  BY <1>7, <1>8, <1>12, <1>13 DEF HInv

LEMMA StartSweepKeeps ==
  ASSUME HInv, StartSweep
  PROVE  HInv'
<1>1. TypeOK /\ ListInv /\ MarkInv /\ HeldInv /\ phase = "mark" /\ phase' = "sweep" /\ prev' = NULL /\ obj' = objects
      /\ UNCHANGED <<heap, program, allocations, headers, buffers, markValue, gray, newborn, black>>
  BY DEF HInv, StartSweep
<1>2. TypeOK'
  BY <1>1 DEF TypeOK, program, headers
<1>3. Needed' = Needed
  BY <1>1, SameProgram DEF Needed, Children, Roots, Running, program
<1>4. (\A o \in Needed : mark[o] = markValue) /\ Needed \subseteq heap
  <2>1. /\ newborn \subseteq heap /\ Reachable \subseteq heap /\ black \subseteq Reachable
        /\ \A o \in Needed : mark[o] = markValue
    BY <1>1 DEF MarkInv
  <2>2. Roots \subseteq Reachable /\ \A o \in black : Children(o) \subseteq Reachable
    BY <1>1, <2>1, ReachableIsClosed
  <2>3. QED
    BY <2>1, <2>2 DEF Needed
<1>5. MarkInv'
  BY <1>1, <1>3, <1>4 DEF MarkInv
<1>6. ListInv'
  <2>1. PICK n \in Nat : \E s \in [1..n -> Objects] : IsList(n, s, heap, objects, nextOf)
    BY <1>1 DEF ListInv
  <2>2. PICK s \in [1..n -> Objects] : IsList(n, s, heap, objects, nextOf)
    BY <2>1
  <2>3. IsList(n, s, heap', objects', nextOf')
    BY <1>1, <2>2 DEF headers
  <2>4. obj' = At(n, s, 1)
    BY <1>1, <2>2 DEF IsList, At
  <2>5. \A j \in 1..n : s[j] \in Needed' => mark'[s[j]] = markValue'
    BY <1>1, <1>3, <1>4 DEF headers
  <2>6. SweepAt(n, s, 1)'
    BY <1>1, <2>4, <2>5 DEF SweepAt
  <2>7. 1 \in 1..n + 1
    OBVIOUS
  <2>8. QED
    BY <2>3, <2>6, <2>7 DEF ListInv
<1>7. HeldInv'
  BY <1>1 DEF HeldInv, program
<1>8. QED
  BY <1>2, <1>5, <1>6, <1>7 DEF HInv

LEMMA KeepKeeps ==
  ASSUME HInv, Keep
  PROVE  HInv'
<1>1. TypeOK /\ ListInv /\ MarkInv /\ HeldInv /\ phase = "sweep" /\ obj \in Objects /\ prev' = obj /\ obj' = nextOf[obj]
      /\ UNCHANGED <<heap, program, allocations, headers, buffers, markValue, phase, gray, newborn, black>>
  BY DEF HInv, Keep, TypeOK
<1>2. TypeOK'
  BY <1>1 DEF TypeOK, program, headers
<1>3. Needed' = Needed
  BY <1>1, SameProgram DEF Needed, Children, Roots, Running, program
<1>4. MarkInv'
  BY <1>1, <1>3 DEF MarkInv
<1>5. ListInv'
  <2>1. PICK n \in Nat : \E s \in [1..n -> Objects] :
          IsList(n, s, heap, objects, nextOf) /\ \E i \in 1..n + 1 : SweepAt(n, s, i)
    BY <1>1 DEF ListInv
  <2>2. PICK s \in [1..n -> Objects] :
          IsList(n, s, heap, objects, nextOf) /\ \E i \in 1..n + 1 : SweepAt(n, s, i)
    BY <2>1
  <2>3. PICK i \in 1..n + 1 : SweepAt(n, s, i)
    BY <2>2
  <2>4. i \in 1..n /\ obj = s[i]
    BY <1>1, <2>3 DEF SweepAt, At
  <2>5. nextOf[s[i]] = IF i = n THEN NULL ELSE s[i + 1]
    BY <2>2, <2>4 DEF IsList
  <2>6. obj' = At(n, s, i + 1)
    BY <1>1, <2>4, <2>5 DEF At
  <2>7. prev' = s[(i + 1) - 1] /\ i + 1 # 1 /\ i + 1 \in 1..n + 1
    BY <1>1, <2>4
  <2>8. \A j \in i + 1..n : s[j] \in Needed' => mark'[s[j]] = markValue'
    BY <1>1, <1>3, <2>3 DEF SweepAt, headers
  <2>9. SweepAt(n, s, i + 1)'
    BY <2>6, <2>7, <2>8 DEF SweepAt
  <2>10. IsList(n, s, heap', objects', nextOf')
    BY <1>1, <2>2 DEF headers
  <2>11. QED
    BY <2>7, <2>9, <2>10 DEF ListInv
<1>6. HeldInv'
  BY <1>1 DEF HeldInv, program
<1>7. QED
  BY <1>2, <1>4, <1>5, <1>6 DEF HInv

LEMMA FreeKeeps ==
  ASSUME HInv, Free
  PROVE  HInv'
<1>1. /\ TypeOK /\ ListInv /\ MarkInv /\ HeldInv /\ phase = "sweep" /\ obj \in Objects /\ mark[obj] # markValue
      /\ Needed \subseteq heap
  BY DEF HInv, Free, TypeOK, MarkInv
<1>2. /\ Unlinked(obj)
      /\ heap' = heap \ {obj}
      /\ refs' = [refs EXCEPT ![obj] = {}]
      /\ parent' = [parent EXCEPT ![obj] = NULL]
      /\ buffers' = IF obj \in owned THEN buffers \ {obj} ELSE buffers
      /\ obj' = nextOf[obj]
      /\ UNCHANGED <<active, globals, held, allocations, markValue, phase, gray, prev, newborn, black>>
  BY DEF Free
<1>3. PICK n \in Nat : \E s \in [1..n -> Objects] :
        IsList(n, s, heap, objects, nextOf) /\ \E i \in 1..n + 1 : SweepAt(n, s, i)
  BY <1>1 DEF ListInv
<1>4. PICK s \in [1..n -> Objects] :
        IsList(n, s, heap, objects, nextOf) /\ \E i \in 1..n + 1 : SweepAt(n, s, i)
  BY <1>3
<1>5. PICK i \in 1..n + 1 : SweepAt(n, s, i)
  BY <1>4
<1>6. i \in 1..n /\ obj = s[i] /\ NULL \notin Objects
  BY <1>1, <1>5 DEF SweepAt, At
<1>7. prev = IF i = 1 THEN NULL ELSE s[i - 1]
  BY <1>5 DEF SweepAt
<1>8. i # 1 => i - 1 \in 1..n /\ prev \in Objects /\ prev # obj /\ prev # NULL
  <2> SUFFICES ASSUME i # 1 PROVE i - 1 \in 1..n /\ prev \in Objects /\ prev # obj /\ prev # NULL
    OBVIOUS
  <2>1. i - 1 \in 1..n /\ i - 1 # i
    BY <1>6
  <2>2. s[i - 1] # s[i] /\ s[i - 1] \in Objects
    BY <1>4, <1>6, <2>1 DEF IsList
  <2>3. QED
    BY <1>6, <1>7, <2>1, <2>2
<1>9. \* the list without the object
      /\ objects' = IF i = 1 THEN nextOf[s[i]] ELSE objects
      /\ \A o \in Objects : o # s[i] => nextOf'[o] = IF i # 1 /\ o = s[i - 1] THEN nextOf[s[i]] ELSE nextOf[o]
      /\ nextOf' \in [Objects -> Objects \cup {NULL}]
  <2>1. CASE i = 1
    BY <1>1, <1>2, <1>6, <1>7, <2>1 DEF Unlinked, UnlinkedFirst, TypeOK
  <2>2. CASE i # 1
    BY <1>1, <1>2, <1>6, <1>7, <1>8, <2>2 DEF Unlinked, TypeOK
  <2>3. QED
    BY <2>1, <2>2
<1>10. \* and the mark bits
      /\ mark' \in [Objects -> BOOLEAN] /\ owned' \in SUBSET Objects
      /\ \A o \in Objects : o # obj /\ o # prev => mark'[o] = mark[o]
  <2>1. CASE prev = NULL
    BY <1>1, <1>2, <2>1 DEF Unlinked, UnlinkedFirst, TypeOK
  <2>2. CASE prev # NULL
    BY <1>1, <1>2, <2>2 DEF Unlinked, TypeOK
  <2>3. QED
    BY <2>1, <2>2
<1>11. objects' \in Objects \cup {NULL} /\ obj' \in Objects \cup {NULL}
  BY <1>1, <1>2, <1>6, <1>9 DEF TypeOK
<1>12. refs' \in [Objects -> SUBSET Objects] /\ parent' \in [Objects -> Objects \cup {NULL}]
      /\ heap' \in SUBSET Objects /\ buffers' \in SUBSET Strings
  BY <1>1, <1>2 DEF TypeOK
<1>13. TypeOK'
  BY <1>1, <1>2, <1>9, <1>10, <1>11, <1>12 DEF TypeOK
<1>14. obj \notin Needed
  <2>1. i \in i..n
    BY <1>6
  <2>2. QED
    BY <1>1, <1>5, <1>6, <2>1 DEF SweepAt
<1>15. Needed' \subseteq Needed
  <2>1. Roots' = Roots
    BY <1>2 DEF Roots, Running
  <2>2. ASSUME NEW o \in black PROVE Children(o)' \subseteq Children(o)
    BY <1>1, <1>2, <2>2 DEF TypeOK, Children
  <2>3. QED
    BY <1>2, <2>1, <2>2 DEF Needed
<1>16. Needed' \subseteq heap'
  BY <1>1, <1>2, <1>14, <1>15
<1>17. MarkInv'
  BY <1>1, <1>2, <1>16 DEF MarkInv, Needed
<1>18. ListInv'
  <2>1. nextOf \in [Objects -> Objects \cup {NULL}] /\ IsList(n, s, heap, objects, nextOf)
    BY <1>1, <1>4 DEF TypeOK
  <2>2. Skips(s, i, objects, nextOf, objects', nextOf')
    BY <1>9 DEF Skips
  <2>3. PICK t \in [1..n - 1 -> Objects] :
          /\ IsList(n - 1, t, heap \ {s[i]}, objects', nextOf')
          /\ At(n - 1, t, i) = nextOf[s[i]]
          /\ i # 1 => t[i - 1] = s[i - 1]
          /\ \A j \in i..n - 1 : t[j] = s[j + 1]
    <3>1. i \in 1..n
      BY <1>6
    <3>2. IsUnlinked(n, s, i, heap, nextOf, objects', nextOf')
      BY <2>1, <2>2, <3>1, UnlinkFromList
    <3>3. QED
      BY <3>2 DEF IsUnlinked
  <2>4. IsList(n - 1, t, heap', objects', nextOf')
    BY <1>2, <1>6, <2>3
  <2>5. obj' = At(n - 1, t, i) /\ prev' = IF i = 1 THEN NULL ELSE t[i - 1]
    BY <1>2, <1>6, <1>7, <2>3
  <2>6. ASSUME NEW j \in i..n - 1, t[j] \in Needed' PROVE mark'[t[j]] = markValue'
    <3>1. t[j] = s[j + 1] /\ j + 1 \in i..n /\ j + 1 \in 1..n /\ j + 1 # i /\ j + 1 # i - 1
      BY <1>6, <2>3
    <3>2. s[j + 1] \in Objects /\ s[j + 1] # obj /\ s[j + 1] # prev
      BY <1>4, <1>6, <1>7, <1>8, <3>1 DEF IsList
    <3>3. s[j + 1] \in Needed
      BY <1>15, <2>6, <3>1
    <3>4. mark[s[j + 1]] = markValue
      BY <1>5, <3>1, <3>3 DEF SweepAt
    <3>5. QED
      BY <1>2, <1>10, <3>1, <3>2, <3>4
  <2>7. SweepAt(n - 1, t, i)'
    BY <2>5, <2>6 DEF SweepAt
  <2>8. n - 1 \in Nat /\ i \in 1..(n - 1) + 1
    BY <1>6
  <2>9. QED
    BY <2>4, <2>7, <2>8 DEF ListInv
<1>19. HeldInv'
  BY <1>1, <1>2, <1>14, HeapAssumption DEF HeldInv, program
<1>20. QED
  BY <1>13, <1>17, <1>18, <1>19 DEF HInv

LEMMA EndCollectionKeeps ==
  ASSUME HInv, EndCollection
  PROVE  HInv'
<1>1. /\ TypeOK /\ ListInv /\ MarkInv /\ HeldInv /\ phase = "sweep" /\ markValue' = ~markValue /\ phase' = "idle" /\ prev' = NULL
      /\ newborn' = {} /\ black' = {}
      /\ UNCHANGED <<heap, program, allocations, headers, buffers, gray, obj>>
  BY DEF HInv, EndCollection, Flipped
<1>2. TypeOK'
  BY <1>1 DEF TypeOK, program, headers
<1>3. ListInv'
  BY <1>1, SameList DEF headers
<1>4. MarkInv'
  BY <1>1 DEF MarkInv
<1>5. HeldInv'
  <2>1. newborn \subseteq heap /\ allocations \in 0..2
    BY <1>1 DEF MarkInv, TypeOK
  <2>2. QED
    BY <1>1, <2>1 DEF HeldInv, program
<1>6. QED
  BY <1>2, <1>3, <1>4, <1>5 DEF HInv

LEMMA HInvStep ==
  ASSUME HInv, [Next]_vars
  PROVE  HInv'
<1>1. CASE UNCHANGED vars
  <2>1. UNCHANGED <<heap, program, allocations, headers, collector, buffers, newborn>>
    BY <1>1 DEF vars
  <2>2. TypeOK'
    BY <2>1 DEF HInv, TypeOK, program, headers, collector
  <2>3. Needed' = Needed
    BY <2>1, SameProgram DEF Needed, Children, Roots, Running, program, collector
  <2>4. MarkInv'
    BY <2>1, <2>3, SameProgram DEF HInv, MarkInv, headers, collector
  <2>5. ListInv'
    BY <2>1, <2>3 DEF HInv, ListInv, SweepAt, headers, collector
  <2>6. HeldInv'
    BY <2>1 DEF HInv, HeldInv, program, collector
  <2>7. QED
    BY <2>2, <2>4, <2>5, <2>6 DEF HInv
<1>2. CASE Next
  <2>1. Objects # {}
    BY DEF Objects
  <2>2. QED
    BY <1>2, <2>1, AllocateKeeps, MutatorKeeps, StartCollectionKeeps, BlackenKeeps, StartSweepKeeps,
       KeepKeeps, FreeKeeps, EndCollectionKeeps DEF Next, Collector
<1>3. QED
  BY <1>1, <1>2

LEMMA HInvAlways == Spec => []HInv
  BY HInvInit, HInvStep, PTL DEF Spec

-----------------------------------------------------------------------------
(* The theorems.                                                             *)

(* The headers, the gray stack and the variables of sweep keep their types:  *)
(* in particular prev and obj point to objects or are null.                  *)
THEOREM TypeCorrect == Spec => []TypeOK
<1>1. HInv => TypeOK
  BY DEF HInv
<1>2. QED
  BY <1>1, HInvAlways, PTL

(* vm.objects links each object that exists once and none that was freed, at *)
(* every point of a sweep.                                                   *)
THEOREM ListIsAlwaysHeap == Spec => []ListIsHeap
<1>1. ASSUME HInv PROVE ListIsHeap
  <2>1. PICK n \in Nat : \E s \in [1..n -> Objects] : IsList(n, s, heap, objects, nextOf)
    BY <1>1 DEF HInv, ListInv
  <2>2. PICK s \in [1..n -> Objects] : IsList(n, s, heap, objects, nextOf)
    BY <2>1
  <2>3. Cardinality(heap) = n /\ s \in [1..n -> heap] /\ (n = 0 <=> heap = {})
    BY <2>2, ListCounts
  <2>4. s \in [1..Cardinality(heap) -> heap] /\ DOMAIN s = 1..n
    BY <2>3
  <2>5. IF heap = {} THEN objects = NULL ELSE objects = s[1]
    BY <2>2, <2>3 DEF IsList
  <2>6. \A i \in DOMAIN s : nextOf[s[i]] = IF i = Cardinality(heap) THEN NULL ELSE s[i + 1]
    BY <2>2, <2>3, <2>4 DEF IsList
  <2>7. \A i, j \in DOMAIN s : s[i] = s[j] => i = j
    BY <2>2, <2>4 DEF IsList
  <2>8. QED
    BY <2>4, <2>5, <2>6, <2>7 DEF ListIsHeap
<1>2. QED
  BY <1>1, HInvAlways, PTL

(* An object survives every collection up to the end of the first one after  *)
(* its creation, whether or not anything refers to it: so does the coroutine *)
(* that coroutine_new holds, until its second allocation collects as well.   *)
THEOREM NewbornAlwaysKept == Spec => []NewbornKept
<1>1. HInv => NewbornKept
  BY DEF HInv, TypeOK, MarkInv, HeldInv, NewbornKept
<1>2. QED
  BY <1>1, HInvAlways, PTL

(* Sweep never frees a root, nor what an object visited by this collection   *)
(* refers to.                                                                *)
THEOREM VisitedChildrenAlwaysKept == Spec => []VisitedChildrenKept
<1>1. HInv => VisitedChildrenKept
  BY DEF HInv, MarkInv, VisitedChildrenKept, Needed
<1>2. QED
  BY <1>1, HInvAlways, PTL
=============================================================================
