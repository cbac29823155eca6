---------------------------- MODULE UpvaluesProofs ----------------------------
(***************************************************************************)
(* Theorems about Upvalues, for any number of coroutines, blocks, frames   *)
(* and upvalues, and stacks of any size.                                   *)
(***************************************************************************)
EXTENDS Upvalues, Minimum

USE UpvaluesAssumption DEF All

-----------------------------------------------------------------------------
(* The stacks.  No two coroutines have one block, so no slot is in two.      *)

StackRecord == [block : Blocks, top : 0..Size, frames : Seq(0..Size), arity : 0..1]

StackInv ==
  /\ stacks \in [Existing -> StackRecord] /\ Existing \subseteq All
  /\ \A c, d \in Existing : stacks[c].block = stacks[d].block => c = d
  /\ \A c \in Existing : stacks[c].frames # <<>> => stacks[c].frames[1] \in 0..1
  /\ active \in Seq(Existing) /\ active # <<>> /\ active[1] = Main
  /\ \A i, j \in 1..Len(active) : active[i] = active[j] => i = j
  /\ stacks[Running].frames # <<>>

-----------------------------------------------------------------------------
(* The list: each open upvalue is linked to the one at the next lower        *)
(* address, and head is the highest.  This says of each link what ListSorted *)
(* says of the list they make.                                               *)

UpvalueRecord == [location : Slots \cup {Closed}, next : Nat, owner : All]

Open == {u \in DOMAIN ups : IsOpen(u)}

\* u is the open upvalue with the highest address among those that satisfy Below.
HighestBelow(u, slot) ==
  \/ u = NULL /\ \A v \in Open : ups[v].location >= slot
  \/ /\ u \in Open /\ ups[u].location < slot
     /\ \A v \in Open : ups[v].location < slot => ups[v].location <= ups[u].location

ListInv ==
  /\ ups \in Seq(UpvalueRecord)
  /\ \A u, v \in Open : ups[u].location = ups[v].location => u = v
  /\ \/ head = NULL /\ Open = {}
     \/ head \in Open /\ \A v \in Open : ups[v].location <= ups[head].location
  /\ \A u \in Open : HighestBelow(ups[u].next, ups[u].location)

-----------------------------------------------------------------------------
(* The list operation going on                                               *)

FindCall  == [name : {"find", "create"}, local : Slots, prev : Nat, upvalue : Nat]
CloseCall == [name : {"close"}, last : Slots, then : {"pop", "return"}]

\* upvalue_capture looks for a slot of the running coroutine.  What prev is linked
\* to, or the head of the list, is as far as it has got.
FindInv ==
  /\ call \in FindCall /\ Len(ups) < MaxUpvalues
  /\ \E i \in 0..Top(Running) - 1 : call.local = Here(i)
  /\ variable[call.local] # NULL
  /\ \/ call.prev = NULL /\ call.upvalue = head
     \/ /\ call.prev \in Open /\ ups[call.prev].location > call.local
        /\ ups[call.prev].next = call.upvalue
  /\ call.name = "create" => call.upvalue = NULL \/ ups[call.upvalue].location < call.local

\* close_upvalues closes a part of the running stack, up to its top.
CloseInv ==
  /\ call \in CloseCall /\ Droppable
  /\ call.then = "pop" => call.last = Here(Top(Running) - 1)
  /\ call.then = "return" =>
       /\ call.last = Here(Last(stacks[Running].frames))
       /\ \/ Len(stacks[Running].frames) > 1
          \/ Resumable /\ Top(Resumer) < Size

CallInv == call = Idle \/ FindInv \/ CloseInv

-----------------------------------------------------------------------------
(* Until captured slots are given up, an open upvalue refers to a slot that  *)
(* is on the stack of its owner, and the history tells which variable that   *)
(* is.                                                                       *)

Held(st, c, slot) == c \in DOMAIN st /\ \E i \in 0..st[c].top - 1 : slot = Address(st[c].block, i)

Own == ~abandoned => \A u \in Open : Held(stacks, ups[u].owner, ups[u].location)

Finding == call.name \in {"find", "create"}

\* The slots whose upvalues are being closed
Closing == IF call.name = "close" THEN ClosedFrom(call.last) ELSE {}

HistoryTypes ==
  /\ variable \in [Slots -> Nat] /\ abandoned \in BOOLEAN
  /\ bound \subseteq Nat \X Nat /\ IsFiniteSet(bound)

\* The variables that have been numbered, one for each slot
Numbered ==
  /\ \A s, t \in Slots : variable[s] = variable[t] /\ variable[s] # NULL => s = t
  /\ \A b \in bound : b[1] \in 1..Cardinality(bound) /\ b[2] \in DOMAIN ups
  /\ \A s \in Slots :
       \/ variable[s] <= Cardinality(bound)
       \/ Finding /\ s = call.local /\ variable[s] = Cardinality(bound) + 1

\* An open upvalue is bound to the variable in its slot; the variable in a slot is
\* bound to an open upvalue there, if to any.
Bound ==
  /\ \A u \in Open : /\ variable[ups[u].location] # NULL
                     /\ \A b \in bound : b[2] = u => b[1] = variable[ups[u].location]
  /\ \A b \in bound : \A s \in Slots \ Closing :
       variable[s] = b[1] /\ b[1] \notin early => b[2] \in Open /\ ups[b[2]].location = s

HistoryInv == HistoryTypes /\ (~abandoned => Numbered /\ Bound /\ ShareVariable)

IInv == StackInv /\ ListInv /\ CallInv /\ Own /\ HistoryInv

-----------------------------------------------------------------------------
(* Addresses                                                                 *)

LEMMA Multiples ==
  ASSUME NEW m \in Nat, NEW n \in Nat, m < n
  PROVE  m * Size + Size <= n * Size
<1>1. PICK k \in Nat : n = m + 1 + k
  <2>1. n - m - 1 \in Nat /\ n = m + 1 + (n - m - 1)
    OBVIOUS
  <2>2. QED
    BY <2>1
<1>2. n * Size = m * Size + Size + k * Size
  BY <1>1
<1>3. m * Size \in Nat /\ k * Size \in Nat
  BY <1>1
<1>4. QED
  BY <1>2, <1>3

\* What is in a lower block is at a lower address.
LEMMA AddressOrder ==
  ASSUME NEW m \in Blocks, NEW n \in Blocks, NEW i \in 0..Size - 1, NEW j \in 0..Size - 1, m < n
  PROVE  Address(m, i) < Address(n, j)
<1>1. m \in Nat /\ n \in Nat /\ m * Size \in Nat /\ n * Size \in Nat
  OBVIOUS
<1>2. m * Size + Size <= n * Size
  BY <1>1, Multiples
<1> DEFINE x == m * Size  y == n * Size
<1>3. x \in Nat /\ y \in Nat /\ x + Size <= y
  BY <1>1, <1>2
<1> HIDE DEF x, y
<1>4. x + i < y + j
  BY <1>3
<1>5. QED
  BY <1>4 DEF Address, x, y

LEMMA AddressUnique ==
  ASSUME NEW m \in Blocks, NEW n \in Blocks, NEW i \in 0..Size - 1, NEW j \in 0..Size - 1,
         Address(m, i) = Address(n, j)
  PROVE  m = n /\ i = j
<1>1. m \in Nat /\ n \in Nat /\ Address(m, i) \in Nat /\ Address(n, j) \in Nat
  BY DEF Address
<1>2. ~(m < n)
  BY <1>1, AddressOrder
<1>3. ~(n < m)
  BY <1>1, AddressOrder
<1>4. m = n
  BY <1>1, <1>2, <1>3
<1>5. m * Size \in Nat
  BY <1>1
<1>6. i = j
  BY <1>4, <1>5 DEF Address
<1>7. QED
  BY <1>4, <1>6

LEMMA AddressType ==
  /\ \A b \in Blocks, i \in Nat : Address(b, i) \in Nat
  /\ \A b \in Blocks, i \in 0..Size - 1 : Address(b, i) \in Slots
  /\ Slots \subseteq Nat
<1>1. \A b \in Blocks, i \in Nat : Address(b, i) \in Nat
  BY DEF Address
<1>2. \A b \in Blocks, i \in 0..Size - 1 : Address(b, i) \in Slots
  BY DEF Slots
<1>3. Slots \subseteq Nat
  BY <1>1 DEF Slots
<1>4. QED
  BY <1>1, <1>2, <1>3

LEMMA StackSlots ==
  ASSUME StackInv, NEW c \in Existing
  PROVE  SlotsOf(c) \subseteq Slots
<1>1. stacks[c].block \in Blocks
  BY DEF StackInv, StackRecord
<1>2. QED
  BY <1>1, AddressType DEF SlotsOf

LEMMA OwnSlots ==
  ASSUME StackInv, NEW c \in Existing, NEW d \in Existing, NEW slot \in SlotsOf(c), slot \in SlotsOf(d)
  PROVE  c = d
<1>1. stacks[c].block \in Blocks /\ stacks[d].block \in Blocks
  BY DEF StackInv, StackRecord
<1>2. PICK i \in 0..Size - 1, j \in 0..Size - 1 :
        Address(stacks[c].block, i) = Address(stacks[d].block, j)
  BY DEF SlotsOf
<1>3. stacks[c].block = stacks[d].block
  BY <1>1, <1>2, AddressUnique
<1>4. QED
  BY <1>3 DEF StackInv

\* The running coroutine, its stack and its frames
LEMMA RunningFacts ==
  ASSUME StackInv
  PROVE  /\ Len(active) \in Nat \ {0} /\ active[Len(active)] = Running
         /\ Running \in Existing /\ Running \in Range(active) /\ Main \in Range(active)
         /\ stacks[Running] \in StackRecord /\ stacks[Running].block \in Blocks
         /\ Top(Running) \in 0..Size
         /\ stacks[Running].frames \in Seq(0..Size) /\ stacks[Running].frames # <<>>
         /\ Len(stacks[Running].frames) \in Nat \ {0}
         /\ Last(stacks[Running].frames) \in 0..Size
         /\ Len(stacks[Running].frames) = 1 => Last(stacks[Running].frames) \in 0..1
<1>1. active \in Seq(Existing) /\ active # <<>> /\ Len(active) \in Nat \ {0}
  BY DEF StackInv
<1>2. /\ active[Len(active)] = Running /\ Running \in Existing
      /\ Len(active) \in DOMAIN active /\ 1 \in DOMAIN active
  BY <1>1 DEF Running, Last
<1>3. Running \in Range(active) /\ Main \in Range(active)
  <2>1. active[1] = Main
    BY DEF StackInv
  <2>2. QED
    BY <1>2, <2>1 DEF Range
<1>4. stacks[Running] \in StackRecord
  BY <1>2 DEF StackInv
<1>5. /\ stacks[Running].block \in Blocks /\ Top(Running) \in 0..Size
      /\ stacks[Running].frames \in Seq(0..Size)
  BY <1>4 DEF StackRecord, Top
<1>6. stacks[Running].frames # <<>> /\ Len(stacks[Running].frames) \in Nat \ {0}
  BY <1>1, <1>2, <1>5 DEF StackInv
<1>7. Last(stacks[Running].frames) \in 0..Size
  BY <1>5, <1>6 DEF Last
<1>8. ASSUME Len(stacks[Running].frames) = 1 PROVE Last(stacks[Running].frames) \in 0..1
  BY <1>2, <1>6, <1>8 DEF StackInv, Last
<1>9. QED
  BY <1>1, <1>2, <1>3, <1>4, <1>5, <1>6, <1>7, <1>8

-----------------------------------------------------------------------------
(* Every step keeps the stacks in order.                                     *)

\* The coroutines on the way back, after a step
ActiveNext == active' \in Seq(Existing) /\ active' # <<>> /\ active'[1] = Main
              /\ \A i, j \in 1..Len(active') : active'[i] = active'[j] => i = j

LEMMA SameActive ==
  ASSUME StackInv, active' = active
  PROVE  ActiveNext
BY DEF StackInv, ActiveNext

LEMMA FrontActive ==
  ASSUME StackInv, Running # Main, active' = Front(active)
  PROVE  /\ ActiveNext /\ Len(active) > 1 /\ Len(active') = Len(active) - 1
         /\ \A i \in 1..Len(active') : active'[i] = active[i] /\ active'[i] # Running
         /\ active[Len(active) - 1] \in Existing /\ active[Len(active) - 1] # Running
<1>1. /\ Len(active) \in Nat \ {0} /\ active[Len(active)] = Running /\ active \in Seq(Existing)
      /\ active[1] = Main /\ \A i, j \in 1..Len(active) : active[i] = active[j] => i = j
  BY RunningFacts DEF StackInv
<1>2. Len(active) > 1
  BY <1>1
<1>3. /\ active' \in Seq(Existing) /\ Len(active') = Len(active) - 1
      /\ \A i \in 1..Len(active) - 1 : active'[i] = active[i]
  BY <1>1 DEF Front
<1>4. \A i \in 1..Len(active) - 1 : active[i] # Running
  BY <1>1
<1>5. active' # <<>>
  BY <1>2, <1>3
<1>6. ActiveNext
  BY <1>1, <1>2, <1>3, <1>5 DEF ActiveNext
<1>7. active[Len(active) - 1] \in Existing
  BY <1>1, <1>2
<1>8. QED
  BY <1>1, <1>2, <1>3, <1>4, <1>6, <1>7

LEMMA LongerActive ==
  ASSUME StackInv, NEW c \in Existing \ Range(active), active' = Append(active, c)
  PROVE  /\ ActiveNext /\ Len(active') = Len(active) + 1
         /\ \A i \in 1..Len(active) : active'[i] = active[i]
         /\ active'[Len(active) + 1] = c
<1>1. /\ Len(active) \in Nat \ {0} /\ active \in Seq(Existing)
      /\ active[1] = Main /\ \A i, j \in 1..Len(active) : active[i] = active[j] => i = j
  BY RunningFacts DEF StackInv
<1>2. \A i \in 1..Len(active) : active[i] # c
  BY <1>1 DEF Range
<1>3. /\ active' \in Seq(Existing) /\ Len(active') = Len(active) + 1
      /\ \A i \in 1..Len(active) : active'[i] = active[i]
      /\ active'[Len(active) + 1] = c
  BY <1>1
<1>4. active' # <<>>
  BY <1>1, <1>3
<1>5. ActiveNext
  BY <1>1, <1>2, <1>3, <1>4 DEF ActiveNext
<1>6. QED
  BY <1>3, <1>5

\* Whoever has been resumed runs next, and whoever has been suspended lets its
\* resumer run.
LEMMA NextRunning ==
  ASSUME StackInv
  PROVE  /\ \A c \in Existing : active' = Append(active, c) => Running' = c
         /\ Running # Main /\ active' = Front(active) => Running' = Resumer
         /\ active' = active => Running' = Running
<1>1. active \in Seq(Existing) /\ Len(active) \in Nat \ {0}
  BY RunningFacts DEF StackInv
<1>2. ASSUME NEW c \in Existing, active' = Append(active, c) PROVE Running' = c
  <2>1. Len(active') = Len(active) + 1 /\ active'[Len(active) + 1] = c
    BY <1>1, <1>2
  <2>2. QED
    BY <2>1 DEF Running, Last
<1>3. ASSUME Running # Main, active' = Front(active) PROVE Running' = Resumer
  <2>1. /\ Len(active') = Len(active) - 1 /\ Len(active) > 1
        /\ \A i \in 1..Len(active') : active'[i] = active[i]
    BY <1>3, FrontActive
  <2>2. Len(active) - 1 \in 1..Len(active')
    BY <1>1, <2>1
  <2>3. QED
    BY <2>1, <2>2 DEF Running, Resumer, Last
<1>4. QED
  BY <1>2, <1>3 DEF Running

\* A step that gives every coroutine a stack in the block it had.
LEMMA SameBlocks ==
  ASSUME StackInv, ActiveNext, stacks' \in [Existing -> StackRecord],
         \A c \in Existing : stacks'[c].block = stacks[c].block,
         \A c \in Existing : stacks'[c].frames # <<>> => stacks'[c].frames[1] \in 0..1,
         stacks'[Running'].frames # <<>>
  PROVE  StackInv' /\ Existing' = Existing
<1>1. Existing' = Existing
  BY DEF Existing
<1>2. QED
  BY <1>1 DEF StackInv, ActiveNext

\* One that changes one stack only, and not who runs.
LEMMA OneStack ==
  ASSUME StackInv, NEW c \in Existing, NEW s \in StackRecord, With(c, s), active' = active,
         s.block = stacks[c].block, s.frames # <<>> => s.frames[1] \in 0..1,
         s.frames # <<>> \/ c # Running
  PROVE  /\ StackInv' /\ Existing' = Existing /\ stacks'[c] = s
         /\ \A d \in Existing : d # c => stacks'[d] = stacks[d]
<1>1. stacks \in [Existing -> StackRecord]
  BY DEF StackInv
<1>2. stacks' \in [Existing -> StackRecord] /\ stacks'[c] = s
  BY <1>1 DEF With
<1>3. \A d \in Existing : d # c => stacks'[d] = stacks[d]
  BY <1>1 DEF With
<1>4. /\ \A d \in Existing : stacks'[d].block = stacks[d].block
      /\ \A d \in Existing : stacks'[d].frames # <<>> => stacks'[d].frames[1] \in 0..1
  BY <1>2, <1>3 DEF StackInv
<1>5. stacks'[Running'].frames # <<>>
  <2>1. Running' = Running /\ Running \in Existing /\ stacks[Running].frames # <<>>
    BY RunningFacts, NextRunning
  <2>2. QED
    BY <1>2, <1>3, <2>1
<1>6. ActiveNext
  BY SameActive
<1>7. QED
  BY <1>2, <1>3, <1>4, <1>5, <1>6, SameBlocks

LEMMA SetTopStep ==
  ASSUME StackInv, NEW n \in 0..Size, SetTop(n), active' = active
  PROVE  /\ StackInv' /\ Existing' = Existing /\ Running' = Running
         /\ \A d \in Existing : d # Running => stacks'[d] = stacks[d]
         /\ stacks'[Running].block = stacks[Running].block /\ stacks'[Running].top = n
         /\ stacks'[Running].frames = stacks[Running].frames
<1>1. Running \in Existing /\ Running \in Range(active) /\ stacks[Running] \in StackRecord
      /\ stacks[Running].frames # <<>>
  BY RunningFacts
<1> DEFINE s == [stacks[Running] EXCEPT !.top = n]
<1>2. /\ s \in StackRecord /\ s.block = stacks[Running].block /\ s.top = n
      /\ s.frames = stacks[Running].frames
  BY <1>1 DEF StackRecord
<1>3. With(Running, s)
  BY DEF SetTop
<1>4. Running' = Running
  BY DEF Running
<1>5. s.frames # <<>> => s.frames[1] \in 0..1
  BY <1>1, <1>2 DEF StackInv
<1> HIDE DEF s
<1>6. /\ StackInv' /\ Existing' = Existing /\ stacks'[Running] = s
      /\ \A d \in Existing : d # Running => stacks'[d] = stacks[d]
  BY <1>1, <1>2, <1>3, <1>5, OneStack
<1>7. QED
  BY <1>2, <1>4, <1>6

\* Outside of these slots, what was on a stack is still on it.
Keeps(gone) == \A c, slot : Held(stacks, c, slot) /\ slot \notin gone => Held(stacks', c, slot)

\* The slots of a stack from index n up to its top
FromIndex(c, n) == {Address(stacks[c].block, i) : i \in n..Top(c) - 1}

\* The top of every stack stays, rises, or gives up slots that are named.
LEMMA KeepsTops ==
  ASSUME StackInv, NEW gone,
         \A c \in Existing : c \in DOMAIN stacks' /\ stacks'[c].block = stacks[c].block,
         \A c \in Existing : stacks'[c].top \in Nat,
         \A c \in Existing : stacks'[c].top >= stacks[c].top \/ FromIndex(c, stacks'[c].top) \subseteq gone
  PROVE  Keeps(gone)
<1> SUFFICES ASSUME NEW c, NEW slot, Held(stacks, c, slot), slot \notin gone
             PROVE  Held(stacks', c, slot)
  BY DEF Keeps
<1>1. PICK i \in 0..stacks[c].top - 1 : slot = Address(stacks[c].block, i)
  BY DEF Held
<1>2. c \in Existing /\ stacks[c].top \in 0..Size
  BY DEF Held, Existing, StackInv, StackRecord
<1>3. i < stacks'[c].top
  <2> SUFFICES ASSUME ~(i < stacks'[c].top) PROVE FALSE
    OBVIOUS
  <2>1. stacks'[c].top \in Nat /\ i \in stacks'[c].top..Top(c) - 1
    BY <1>1, <1>2 DEF Top
  <2>2. slot \in FromIndex(c, stacks'[c].top)
    BY <1>1, <2>1 DEF FromIndex
  <2>3. stacks'[c].top < stacks[c].top
    BY <1>2, <2>1 DEF Top
  <2>4. QED
    BY <1>2, <2>1, <2>2, <2>3
<1>4. i \in 0..stacks'[c].top - 1
  BY <1>1, <1>2, <1>3
<1>5. QED
  BY <1>1, <1>2, <1>4 DEF Held

LEMMA KeepsUnchanged ==
  ASSUME stacks' = stacks
  PROVE  Keeps({})
BY DEF Keeps

LEMMA SetTopKeeps ==
  ASSUME StackInv, NEW n \in 0..Size, SetTop(n), active' = active
  PROVE  /\ n >= Top(Running) => Keeps({})
         /\ Keeps(FromIndex(Running, n))
<1>1. /\ Existing' = Existing
      /\ \A d \in Existing : d # Running => stacks'[d] = stacks[d]
      /\ stacks'[Running].block = stacks[Running].block /\ stacks'[Running].top = n
  BY SetTopStep
<1>2. \A d \in Existing : stacks[d].top \in 0..Size
  BY DEF StackInv, StackRecord
<1>3. \A d \in Existing : d \in DOMAIN stacks' /\ stacks'[d].block = stacks[d].block
                          /\ stacks'[d].top \in Nat
  BY <1>1, <1>2 DEF Existing
<1>4. ASSUME n >= Top(Running) PROVE Keeps({})
  <2>1. \A d \in Existing : stacks'[d].top >= stacks[d].top
    BY <1>1, <1>2, <1>4 DEF Top
  <2>2. QED
    BY <1>3, <2>1, KeepsTops
<1>5. Keeps(FromIndex(Running, n))
  <2>1. \A d \in Existing : \/ stacks'[d].top >= stacks[d].top
                            \/ FromIndex(d, stacks'[d].top) \subseteq FromIndex(Running, n)
    BY <1>1, <1>2
  <2>2. QED
    BY <1>3, <2>1, KeepsTops
<1>6. QED
  BY <1>4, <1>5

LEMMA PushStack ==
  ASSUME StackInv, Push
  PROVE  StackInv' /\ Keeps({})
<1>1. Top(Running) + 1 \in 0..Size /\ Top(Running) + 1 >= Top(Running)
  BY RunningFacts DEF Push
<1>2. SetTop(Top(Running) + 1) /\ active' = active
  BY DEF Push
<1>3. QED
  BY <1>1, <1>2, SetTopStep, SetTopKeeps

LEMMA DroppableTop ==
  ASSUME StackInv, Droppable
  PROVE  /\ Top(Running) - 1 \in 0..Size - 1 /\ Top(Running) \in 1..Size
         /\ Last(stacks[Running].frames) \in 0..Top(Running) - 1
         /\ Last(stacks[Running].frames) < Top(Running) - 1 \/ Len(stacks[Running].frames) = 1
         /\ Top(Running) > 1
<1>1. /\ Top(Running) \in 0..Size /\ Len(stacks[Running].frames) \in Nat \ {0}
      /\ Last(stacks[Running].frames) \in 0..Size
      /\ Len(stacks[Running].frames) = 1 => Last(stacks[Running].frames) \in 0..1
  BY RunningFacts
<1>2. QED
  BY <1>1 DEF Droppable, Floor

\* The topmost slot
LEMMA TopSlot ==
  ASSUME StackInv, Droppable
  PROVE  FromIndex(Running, Top(Running) - 1) = {Here(Top(Running) - 1)}
<1>1. (Top(Running) - 1)..Top(Running) - 1 = {Top(Running) - 1}
  BY DroppableTop
<1>2. QED
  BY <1>1 DEF FromIndex, Here

LEMMA PopStack ==
  ASSUME StackInv, Pop
  PROVE  StackInv' /\ Keeps({Here(Top(Running) - 1)})
<1>1. Droppable /\ SetTop(Top(Running) - 1) /\ active' = active
  BY DEF Pop
<1>2. Top(Running) - 1 \in 0..Size
  BY <1>1, DroppableTop
<1>3. QED
  BY <1>1, <1>2, SetTopStep, SetTopKeeps, TopSlot

LEMMA CallStack ==
  ASSUME StackInv, Call
  PROVE  StackInv' /\ Keeps({})
<1> DEFINE r == stacks[Running]  s == [r EXCEPT !.frames = Append(r.frames, Top(Running) - 1)]
<1>1. /\ Running \in Existing /\ r \in StackRecord /\ r.frames \in Seq(0..Size) /\ r.frames # <<>>
      /\ Top(Running) - 1 \in 0..Size
  BY RunningFacts, DroppableTop DEF Call
<1>2. With(Running, s) /\ active' = active
  BY DEF Call
<1>3. /\ Append(r.frames, Top(Running) - 1) \in Seq(0..Size)
      /\ Append(r.frames, Top(Running) - 1) # <<>>
      /\ Append(r.frames, Top(Running) - 1)[1] = r.frames[1]
  BY <1>1
<1>4. /\ s \in StackRecord /\ s.block = r.block /\ s.top = r.top /\ s.frames # <<>>
      /\ s.frames[1] = r.frames[1]
  BY <1>1, <1>3 DEF StackRecord
<1>5. s.frames[1] \in 0..1
  BY <1>1, <1>4 DEF StackInv
<1> HIDE DEF s
<1>6. /\ StackInv' /\ Existing' = Existing /\ stacks'[Running] = s
      /\ \A d \in Existing : d # Running => stacks'[d] = stacks[d]
  BY <1>1, <1>2, <1>4, <1>5, OneStack
<1>7. \A d \in Existing : d \in DOMAIN stacks' /\ stacks'[d].block = stacks[d].block
                          /\ stacks'[d].top = stacks[d].top /\ stacks[d].top \in 0..Size
  BY <1>4, <1>6 DEF Existing, StackInv, StackRecord
<1>8. Keeps({})
  BY <1>7, KeepsTops
<1>9. QED
  BY <1>6, <1>8

LEMMA CreateStack ==
  ASSUME StackInv, NEW c \in Coros, NEW block \in Blocks, NEW arity \in 0..1, Create(c, block, arity)
  PROVE  StackInv' /\ Keeps({}) /\ Running' = Running
<1> DEFINE s == Stack(block, 0, <<1 - arity>>, arity)
<1>1. /\ c \in Coros /\ c \notin Existing /\ block \in FreeBlocks
      /\ stacks' = [d \in Existing \cup {c} |-> IF d = c THEN s ELSE stacks[d]]
      /\ active' = active
  BY DEF Create
<1>2. /\ <<1 - arity>> \in Seq(0..Size) /\ 1 - arity \in 0..1
      /\ <<1 - arity>>[1] = 1 - arity /\ <<1 - arity>> # <<>>
  OBVIOUS
<1>3. s \in StackRecord /\ s.block = block /\ s.frames[1] \in 0..1 /\ s.frames # <<>>
  BY <1>2 DEF Stack, StackRecord
<1> HIDE DEF s
<1>5. stacks \in [Existing -> StackRecord]
  BY DEF StackInv
<1>6. /\ Existing' = Existing \cup {c} /\ stacks' \in [Existing' -> StackRecord] /\ stacks'[c] = s
      /\ \A d \in Existing : stacks'[d] = stacks[d]
  BY <1>1, <1>3, <1>5 DEF Existing
<1>7. \A d \in Existing : stacks[d].block # block
  BY <1>1 DEF FreeBlocks
<1>8. StackInv'
  <2>1. Existing' \subseteq All
    BY <1>1, <1>6 DEF StackInv
  <2>2. ASSUME NEW d \in Existing', NEW e \in Existing', stacks'[d].block = stacks'[e].block
        PROVE  d = e
    <3>1. CASE d \in Existing /\ e \in Existing
      BY <1>6, <2>2, <3>1 DEF StackInv
    <3>2. CASE ~(d \in Existing /\ e \in Existing)
      BY <1>3, <1>6, <1>7, <2>2, <3>2
    <3>3. QED
      BY <3>1, <3>2
  <2>3. \A d \in Existing' : stacks'[d].frames # <<>> => stacks'[d].frames[1] \in 0..1
    BY <1>3, <1>6 DEF StackInv
  <2>4. active' \in Seq(Existing')
    BY <1>1, <1>6 DEF StackInv
  <2>5. stacks'[Running'].frames # <<>>
    <3>1. Running' = Running /\ Running \in Existing /\ stacks[Running].frames # <<>>
      BY <1>1, RunningFacts, NextRunning
    <3>2. QED
      BY <1>6, <3>1
  <2>6. /\ active' # <<>> /\ active'[1] = Main
        /\ \A i, j \in 1..Len(active') : active'[i] = active'[j] => i = j
    BY <1>1 DEF StackInv
  <2>7. QED
    BY <1>6, <2>1, <2>2, <2>3, <2>4, <2>5, <2>6 DEF StackInv
<1>9. Keeps({})
  BY <1>6 DEF Keeps, Held, Existing
<1>10. QED
  BY <1>1, <1>8, <1>9 DEF Running

LEMMA CollectStack ==
  ASSUME StackInv, NEW c \in Coros, Collect(c)
  PROVE  StackInv' /\ Keeps(SlotsOf(c)) /\ Running' = Running /\ Running # c
         /\ stacks'[Running] = stacks[Running] /\ c \in Existing
<1>1. /\ c \in Existing /\ c \notin Range(active) /\ active' = active
      /\ stacks' = [d \in Existing \ {c} |-> stacks[d]]
  BY DEF Collect
<1>2. stacks \in [Existing -> StackRecord] /\ active \in Seq(Existing)
  BY DEF StackInv
<1>3. /\ Existing' = Existing \ {c} /\ stacks' \in [Existing' -> StackRecord]
      /\ \A d \in Existing \ {c} : stacks'[d] = stacks[d]
  BY <1>1, <1>2 DEF Existing
<1>4. \A i \in 1..Len(active) : active[i] \in Existing \ {c}
  BY <1>1, <1>2 DEF Range
<1>5. active \in Seq(Existing \ {c})
  BY <1>2, <1>4
<1>6. Running' = Running /\ Running # c /\ Running \in Existing
  BY <1>1, RunningFacts DEF Running
<1>7. StackInv'
  BY <1>1, <1>3, <1>5, <1>6 DEF StackInv
<1>8. Keeps(SlotsOf(c))
  <2> SUFFICES ASSUME NEW d, NEW slot, Held(stacks, d, slot), slot \notin SlotsOf(c)
               PROVE  Held(stacks', d, slot)
    BY DEF Keeps
  <2>1. d # c
    <3> SUFFICES ASSUME d = c PROVE FALSE
      OBVIOUS
    <3>1. PICK i \in 0..stacks[c].top - 1 : slot = Address(stacks[c].block, i)
      BY DEF Held
    <3>2. stacks[c].top \in 0..Size
      BY <1>1, <1>2 DEF StackRecord
    <3>3. i \in 0..Size - 1
      BY <3>1, <3>2
    <3>4. QED
      BY <3>1, <3>3 DEF SlotsOf
  <2>2. d \in Existing \ {c}
    BY <2>1 DEF Held, Existing
  <2>3. QED
    BY <1>3, <2>2 DEF Held, Existing
<1>9. QED
  BY <1>1, <1>3, <1>6, <1>7, <1>8

LEMMA ResetStack ==
  ASSUME StackInv, NEW c \in Coros, Reset(c)
  PROVE  StackInv' /\ Keeps(SlotsOf(c)) /\ c \in Existing
<1> DEFINE s == [stacks[c] EXCEPT !.top = 0, !.frames = <<>>]
<1>1. c \in Existing /\ c # Running /\ active' = active /\ With(c, s)
  BY DEF Reset
<1>2. stacks[c] \in StackRecord
  BY <1>1 DEF StackInv
<1>3. <<>> \in Seq(0..Size) /\ 0 \in 0..Size
  OBVIOUS
<1>4. s \in StackRecord /\ s.block = stacks[c].block /\ s.top = 0 /\ s.frames = <<>>
  <2> DEFINE r == [stacks[c] EXCEPT !.top = 0]
  <2>1. r \in StackRecord /\ r.block = stacks[c].block /\ r.top = 0
    BY <1>2, <1>3 DEF StackRecord
  <2>2. s = [r EXCEPT !.frames = <<>>]
    BY <1>2 DEF StackRecord
  <2> HIDE DEF s, r
  <2>3. QED
    BY <1>3, <2>1, <2>2 DEF StackRecord
<1> HIDE DEF s
<1>5. /\ StackInv' /\ Existing' = Existing /\ stacks'[c] = s
      /\ \A d \in Existing : d # c => stacks'[d] = stacks[d]
  BY <1>1, <1>4, OneStack
<1>6. FromIndex(c, 0) \subseteq SlotsOf(c)
  <2>1. Top(c) \in 0..Size
    BY <1>2 DEF StackRecord, Top
  <2>2. 0..Top(c) - 1 \subseteq 0..Size - 1
    BY <2>1
  <2>3. QED
    BY <2>2 DEF FromIndex, SlotsOf
<1>7. \A d \in Existing : stacks[d].top \in 0..Size
  BY DEF StackInv, StackRecord
<1>8. \A d \in Existing : d \in DOMAIN stacks' /\ stacks'[d].block = stacks[d].block
                          /\ stacks'[d].top \in Nat
  BY <1>4, <1>5, <1>7 DEF Existing
<1>9. \A d \in Existing : \/ stacks'[d].top >= stacks[d].top
                          \/ FromIndex(d, stacks'[d].top) \subseteq SlotsOf(c)
  BY <1>4, <1>5, <1>6, <1>7
<1>10. Keeps(SlotsOf(c))
  BY <1>8, <1>9, KeepsTops
<1>11. QED
  BY <1>1, <1>5, <1>10

\* A record with another top
LEMMA WithTop ==
  ASSUME NEW r \in StackRecord, NEW n \in 0..Size
  PROVE  LET s == [r EXCEPT !.top = n]
         IN  s \in StackRecord /\ s.block = r.block /\ s.top = n /\ s.frames = r.frames
BY DEF StackRecord

LEMMA ResumeStep ==
  ASSUME StackInv, NEW c \in Coros, Resume(c)
  PROVE  LET callee == Top(Running) - 1 - Arity(c)
         IN  StackInv' /\ Keeps(FromIndex(Running, callee + 1)) /\ callee \in 0..Top(Running) - 1
<1> DEFINE s == stacks[c]
           callee == Top(Running) - 1 - Arity(c)
           top == (IF s.top = 0 THEN 1 ELSE s.top) + Arity(c)
           r == stacks[Running]
<1>1. /\ c \in Existing /\ c \notin Range(active) /\ s.frames # <<>> /\ top <= Size
      /\ callee >= Floor(Running) /\ active' = Append(active, c)
      /\ stacks' = [stacks EXCEPT ![c].top = top, ![Running].top = callee + 1]
  BY DEF Resume
<1>2. /\ Running \in Existing /\ Running \in Range(active) /\ Top(Running) \in 0..Size
      /\ r \in StackRecord /\ Last(r.frames) \in 0..Size
  BY RunningFacts
<1>3. s \in StackRecord /\ s.top \in 0..Size /\ Arity(c) \in 0..1 /\ c # Running
  <2>1. s \in StackRecord /\ c # Running
    BY <1>1, <1>2 DEF StackInv
  <2>2. s.top \in 0..Size /\ s.arity \in 0..1
    BY <2>1 DEF StackRecord
  <2> HIDE DEF s
  <2>3. Arity(c) \in 0..1
    BY <2>2 DEF Arity, s
  <2>4. QED
    BY <2>1, <2>2, <2>3
<1>4. top \in 0..Size /\ top >= s.top
  BY <1>1, <1>3
<1>5. callee \in 0..Top(Running) - 1 /\ callee + 1 \in 0..Size
  <2>1. Floor(Running) \in Nat
    BY <1>2 DEF Floor
  <2> HIDE DEF s, r
  <2>2. QED
    BY <1>1, <1>2, <1>3, <2>1
<1> DEFINE s1 == [s EXCEPT !.top = top]  r1 == [r EXCEPT !.top = callee + 1]
<1>6. /\ s1 \in StackRecord /\ s1.block = s.block /\ s1.top = top /\ s1.frames = s.frames
      /\ r1 \in StackRecord /\ r1.block = r.block /\ r1.top = callee + 1 /\ r1.frames = r.frames
  BY <1>2, <1>3, <1>4, <1>5, WithTop
<1>7. stacks \in [Existing -> StackRecord]
  BY DEF StackInv
<1>8. stacks' = [d \in Existing |-> IF d = c THEN s1 ELSE IF d = Running THEN r1 ELSE stacks[d]]
  BY <1>1, <1>2, <1>3, <1>7
<1> HIDE DEF s1, r1, top, callee
<1>9. /\ stacks' \in [Existing -> StackRecord] /\ stacks'[c] = s1 /\ stacks'[Running] = r1
      /\ \A d \in Existing : d # c /\ d # Running => stacks'[d] = stacks[d]
  BY <1>1, <1>2, <1>3, <1>6, <1>7, <1>8
<1>10. \A d \in Existing : stacks'[d].block = stacks[d].block /\ stacks'[d].frames = stacks[d].frames
  BY <1>6, <1>9
<1>11. StackInv'
  <2>1. ActiveNext /\ Running' = c
    BY <1>1, LongerActive, NextRunning
  <2>2. /\ stacks'[Running'].frames # <<>>
        /\ \A d \in Existing : stacks'[d].frames # <<>> => stacks'[d].frames[1] \in 0..1
    BY <1>1, <1>10, <2>1 DEF StackInv
  <2>3. QED
    BY <1>9, <1>10, <2>1, <2>2, SameBlocks
<1>12. Keeps(FromIndex(Running, callee + 1))
  <2>1. \A d \in Existing : stacks[d].top \in 0..Size
    BY <1>7 DEF StackRecord
  <2>2. \A d \in Existing : d \in DOMAIN stacks' /\ stacks'[d].top \in Nat
    BY <1>9 DEF StackRecord
  <2>3. \A d \in Existing : \/ stacks'[d].top >= stacks[d].top
                            \/ FromIndex(d, stacks'[d].top) \subseteq FromIndex(Running, callee + 1)
    BY <1>4, <1>6, <1>9, <2>1
  <2>4. QED
    BY <1>10, <2>2, <2>3, KeepsTops
<1>13. QED
  BY <1>5, <1>11, <1>12 DEF callee

LEMMA SuspendStep ==
  ASSUME StackInv, Suspend
  PROVE  LET s   == stacks[Running]
             top == s.top - 1 - Arity(Running)
         IN  StackInv' /\ Keeps({Here(i) : i \in top..s.top - 1}) /\ top \in 0..Size
<1> DEFINE r == stacks[Running]  top == r.top - 1 - Arity(Running)  r1 == [r EXCEPT !.top = top]
<1>1. /\ Running # Main /\ stacks[Resumer].frames # <<>>
      /\ top > 0 /\ With(Running, r1) /\ active' = Front(active)
  BY DEF Suspend, Resumable
<1>2. /\ Running \in Existing /\ r \in StackRecord /\ r.top \in 0..Size /\ Arity(Running) \in 0..1
  BY RunningFacts DEF StackRecord, Arity
<1>3. top \in 0..Size
  BY <1>1, <1>2
<1>4. r1 \in StackRecord /\ r1.block = r.block /\ r1.top = top /\ r1.frames = r.frames
  BY <1>2, <1>3, WithTop
<1>5. stacks \in [Existing -> StackRecord]
  BY DEF StackInv
<1> HIDE DEF r1, top
<1>6. /\ stacks' \in [Existing -> StackRecord] /\ stacks'[Running] = r1
      /\ \A d \in Existing : d # Running => stacks'[d] = stacks[d]
  BY <1>1, <1>2, <1>4, <1>5 DEF With
<1>7. \A d \in Existing : stacks'[d].block = stacks[d].block /\ stacks'[d].frames = stacks[d].frames
  BY <1>4, <1>6
<1>8. StackInv'
  <2>1. ActiveNext /\ Running' = Resumer /\ Resumer \in Existing
    BY <1>1, FrontActive, NextRunning DEF Resumer
  <2>2. /\ stacks'[Running'].frames # <<>>
        /\ \A d \in Existing : stacks'[d].frames # <<>> => stacks'[d].frames[1] \in 0..1
    BY <1>1, <1>7, <2>1 DEF StackInv
  <2>3. QED
    BY <1>6, <1>7, <2>1, <2>2, SameBlocks
<1>9. FromIndex(Running, top) = {Here(i) : i \in top..r.top - 1}
  BY DEF FromIndex, Here, Top
<1>10. Keeps(FromIndex(Running, top))
  <2>1. \A d \in Existing : stacks[d].top \in 0..Size
    BY <1>5 DEF StackRecord
  <2>2. \A d \in Existing : d \in DOMAIN stacks' /\ stacks'[d].top \in Nat
    BY <1>6 DEF StackRecord
  <2>3. \A d \in Existing : \/ stacks'[d].top >= stacks[d].top
                            \/ FromIndex(d, stacks'[d].top) \subseteq FromIndex(Running, top)
    BY <1>4, <1>6, <2>1
  <2>4. QED
    BY <1>7, <2>2, <2>3, KeepsTops
<1>11. QED
  BY <1>3, <1>8, <1>9, <1>10 DEF top

LEMMA KeepsMore ==
  ASSUME NEW gone, NEW more, Keeps(gone), gone \subseteq more
  PROVE  Keeps(more)
BY DEF Keeps

\* The slots of the running stack from index i on
LEMMA ClosedSlots ==
  ASSUME StackInv, NEW i \in 0..Size - 1
  PROVE  FromIndex(Running, i) \subseteq ClosedFrom(Here(i))
<1> SUFFICES ASSUME NEW j \in i..Top(Running) - 1
             PROVE  Here(j) \in ClosedFrom(Here(i))
  BY DEF FromIndex, Here
<1>1. stacks[Running].block \in Nat /\ Top(Running) \in 0..Size
  BY RunningFacts
<1>2. j \in 0..Size - 1 /\ j >= i
  BY <1>1
<1>3. Here(j) \in SlotsOf(Running)
  BY <1>2 DEF Here, SlotsOf
<1>4. Here(j) >= Here(i)
  <2>1. stacks[Running].block * Size \in Nat
    BY <1>1
  <2>2. QED
    BY <1>2, <2>1 DEF Here, Address
<1>5. QED
  BY <1>3, <1>4 DEF ClosedFrom

LEMMA DroppedStep ==
  ASSUME StackInv, CallInv, Dropped
  PROVE  StackInv' /\ Keeps(ClosedFrom(call.last)) /\ Running' = Running
<1>1. call.name = "close" /\ call.then = "pop" /\ SetTop(Top(Running) - 1) /\ active' = active
  BY DEF Dropped
<1>2. CloseInv
  BY <1>1 DEF CallInv, FindInv, FindCall, Idle
<1>3. Droppable /\ call.last = Here(Top(Running) - 1)
  BY <1>1, <1>2 DEF CloseInv
<1>4. Top(Running) - 1 \in 0..Size - 1 /\ Top(Running) - 1 \in 0..Size
  BY <1>3, DroppableTop
<1>5. StackInv' /\ Keeps(FromIndex(Running, Top(Running) - 1))
  BY <1>1, <1>4, SetTopStep, SetTopKeeps
<1>6. FromIndex(Running, Top(Running) - 1) \subseteq ClosedFrom(call.last)
  BY <1>3, <1>4, ClosedSlots
<1>7. QED
  BY <1>1, <1>5, <1>6, KeepsMore DEF Running

LEMMA ReturnedStep ==
  ASSUME StackInv, CallInv, Returned
  PROVE  StackInv' /\ Keeps(ClosedFrom(call.last))
<1> DEFINE r == stacks[Running]  left == [r EXCEPT !.frames = Front(r.frames)]
           caller == Resumer  low == Last(r.frames)
<1>1. /\ call.name = "close" /\ call.then = "return"
      /\ IF left.frames # <<>> THEN With(Running, left) /\ active' = active
         ELSE /\ active' = Front(active)
              /\ stacks' = [stacks EXCEPT ![Running] = [left EXCEPT !.top = @ - 1],
                                          ![caller].top = @ + 1]
  BY DEF Returned
<1>2. CloseInv
  BY <1>1 DEF CallInv, FindInv, FindCall, Idle
<1>3. /\ Droppable /\ call.last = Here(low)
      /\ Len(r.frames) > 1 \/ (Running # Main /\ stacks[caller].frames # <<>> /\ Top(caller) < Size)
  BY <1>1, <1>2 DEF CloseInv, Resumable
<1>4. /\ Top(Running) - 1 \in 0..Size /\ low \in 0..Top(Running) - 1 /\ Top(Running) \in 0..Size
  BY <1>3, DroppableTop
<1>5. /\ r \in StackRecord /\ Running \in Existing /\ Running \in Range(active)
      /\ r.frames \in Seq(0..Size) /\ r.frames # <<>> /\ Len(r.frames) \in Nat \ {0}
      /\ r.frames[1] \in 0..1
  BY RunningFacts DEF StackInv
<1>6. /\ Front(r.frames) \in Seq(0..Size) /\ Len(Front(r.frames)) = Len(r.frames) - 1
      /\ Front(r.frames) # <<>> => Front(r.frames)[1] = r.frames[1]
  BY <1>5 DEF Front
<1>7. /\ left \in StackRecord /\ left.block = r.block /\ left.top = r.top
      /\ left.frames = Front(r.frames)
  BY <1>5, <1>6 DEF StackRecord
<1>8. low \in 0..Size - 1
  BY <1>4
<1>9. FromIndex(Running, low) \subseteq ClosedFrom(call.last)
  BY <1>3, <1>8, ClosedSlots
<1>10. stacks \in [Existing -> StackRecord] /\ \A d \in Existing : stacks[d].top \in 0..Size
  BY DEF StackInv, StackRecord
<1> HIDE DEF left, low
<1>11. CASE left.frames # <<>>
  <2>1. With(Running, left) /\ active' = active
    BY <1>1, <1>11
  <2>2. left.frames[1] \in 0..1
    BY <1>5, <1>6, <1>7, <1>11
  <2>3. /\ StackInv' /\ Existing' = Existing /\ stacks'[Running] = left
        /\ \A d \in Existing : d # Running => stacks'[d] = stacks[d]
    BY <1>5, <1>7, <1>11, <2>1, <2>2, OneStack
  <2>4. \A d \in Existing : d \in DOMAIN stacks' /\ stacks'[d].block = stacks[d].block
                            /\ stacks'[d].top = stacks[d].top
    BY <1>7, <2>3 DEF Existing
  <2>5. Keeps(ClosedFrom(call.last))
    BY <1>10, <2>4, KeepsTops
  <2>6. QED
    BY <2>3, <2>5
<1>12. CASE left.frames = <<>>
  <2>1. /\ active' = Front(active)
        /\ stacks' = [stacks EXCEPT ![Running] = [left EXCEPT !.top = @ - 1], ![caller].top = @ + 1]
    BY <1>1, <1>12
  <2>2. Len(r.frames) = 1 /\ Running # Main /\ stacks[caller].frames # <<>> /\ Top(caller) < Size
    <3>1. Front(r.frames) = <<>>
      BY <1>7, <1>12
    <3>2. Len(r.frames) - 1 = 0
      BY <1>6, <3>1
    <3>3. \A n \in Nat \ {0} : n - 1 = 0 => n = 1 /\ ~(n > 1)
      OBVIOUS
    <3>4. Len(r.frames) = 1 /\ ~(Len(r.frames) > 1)
      BY <1>5, <3>2, <3>3, Zenon
    <3>5. QED
      BY <1>3, <3>4, Zenon
  <2>3. /\ ActiveNext /\ Len(active) > 1 /\ Len(active') = Len(active) - 1
        /\ \A i \in 1..Len(active') : active'[i] = active[i] /\ active'[i] # Running
        /\ caller \in Existing /\ caller # Running /\ Running' = caller
    BY <2>1, <2>2, FrontActive, NextRunning DEF Resumer
  <2>4. stacks[caller] \in StackRecord /\ Top(caller) + 1 \in 0..Size
    BY <1>10, <2>2, <2>3 DEF Top
  <2> DEFINE r1 == [left EXCEPT !.top = Top(Running) - 1]
             c1 == [stacks[caller] EXCEPT !.top = Top(caller) + 1]
  <2>5. /\ r1 \in StackRecord /\ r1.block = r.block /\ r1.top = Top(Running) - 1
        /\ r1.frames = left.frames
        /\ c1 \in StackRecord /\ c1.block = stacks[caller].block /\ c1.top = Top(caller) + 1
        /\ c1.frames = stacks[caller].frames
    BY <1>4, <1>7, <2>4, WithTop
  <2>6. stacks' = [d \in Existing |->
                     IF d = Running THEN r1 ELSE IF d = caller THEN c1 ELSE stacks[d]]
    BY <1>5, <1>7, <1>10, <2>1, <2>3 DEF Top
  <2> HIDE DEF r1, c1
  <2>7. /\ stacks' \in [Existing -> StackRecord] /\ stacks'[Running] = r1 /\ stacks'[caller] = c1
        /\ \A d \in Existing : d # Running /\ d # caller => stacks'[d] = stacks[d]
    BY <1>5, <1>10, <2>3, <2>5, <2>6
  <2>8. \A d \in Existing : stacks'[d].block = stacks[d].block
    BY <2>5, <2>7
  <2>9. \A d \in Existing : d # Running => stacks'[d].frames = stacks[d].frames
    BY <2>5, <2>7
  <2>10. stacks'[Running].frames = <<>>
    BY <1>12, <2>5, <2>7
  <2>11. /\ \A d \in Existing : stacks'[d].frames # <<>> => stacks'[d].frames[1] \in 0..1
         /\ stacks'[Running'].frames # <<>>
    <3>1. \A d \in Existing : stacks'[d].frames # <<>> => stacks'[d].frames[1] \in 0..1
      BY <2>9, <2>10 DEF StackInv
    <3>2. QED
      BY <2>2, <2>3, <2>9, <3>1
  <2>12. StackInv'
    BY <2>3, <2>7, <2>8, <2>11, SameBlocks
  <2>13. Keeps(FromIndex(Running, Top(Running) - 1))
    <3>1. \A d \in Existing : d \in DOMAIN stacks' /\ stacks'[d].top \in Nat
      BY <2>7 DEF StackRecord
    <3>2. \A d \in Existing :
            \/ stacks'[d].top >= stacks[d].top
            \/ FromIndex(d, stacks'[d].top) \subseteq FromIndex(Running, Top(Running) - 1)
      <4> TAKE d \in Existing
      <4>1. CASE d = Running
        BY <2>5, <2>7, <4>1
      <4>2. CASE d = caller
        BY <1>10, <2>5, <2>7, <4>2 DEF Top
      <4>3. CASE d # Running /\ d # caller
        BY <1>10, <2>7, <4>3
      <4>4. QED
        BY <4>1, <4>2, <4>3
    <3>3. QED
      BY <2>8, <3>1, <3>2, KeepsTops
  <2>14. FromIndex(Running, Top(Running) - 1) \subseteq FromIndex(Running, low)
    BY <1>4 DEF FromIndex
  <2>15. QED
    BY <1>9, <2>12, <2>13, <2>14, KeepsMore
<1>13. QED
  BY <1>11, <1>12

-----------------------------------------------------------------------------
(* Every step keeps the list in order.                                       *)

LEMMA OpenFacts ==
  ASSUME ListInv
  PROVE  /\ Len(ups) \in Nat /\ DOMAIN ups = 1..Len(ups)
         /\ \A u \in DOMAIN ups : /\ ups[u] \in UpvalueRecord /\ ups[u].next \in Nat
                                  /\ ups[u].location \in Int /\ ups[u].owner \in All
         /\ \A u \in Open : /\ u \in 1..Len(ups) /\ u # NULL
                            /\ ups[u].location \in Slots /\ ups[u].location \in Nat
         /\ \A u \in DOMAIN ups : u \in Open <=> ups[u].location # Closed
         /\ \A u \in DOMAIN ups : u \in Open <=> ups[u].location \in Slots
<1>1. ups \in Seq(UpvalueRecord)
  BY DEF ListInv
<1>2. Slots \subseteq Nat
  BY AddressType
<1>3. Closed \notin Slots /\ Closed \in Int
  BY <1>2 DEF Closed
<1>4. Len(ups) \in Nat /\ DOMAIN ups = 1..Len(ups)
  BY <1>1
<1>5. \A u \in DOMAIN ups : ups[u] \in UpvalueRecord
  BY <1>1
<1>6. \A u \in DOMAIN ups : /\ ups[u].next \in Nat /\ ups[u].owner \in All
                            /\ ups[u].location \in Slots \cup {Closed}
  BY <1>5 DEF UpvalueRecord
<1>7. \A u \in DOMAIN ups : u \in Open <=> ups[u].location # Closed
  BY DEF Open, IsOpen
<1>8. Open \subseteq DOMAIN ups
  BY DEF Open
<1>9. \A u \in Open : ups[u].location \in Slots /\ u \in 1..Len(ups)
  BY <1>4, <1>6, <1>7, <1>8
<1>10. ASSUME NEW u \in DOMAIN ups PROVE ups[u].location \in Int
  <2>1. ups[u].location \in Slots \/ ups[u].location = Closed
    BY <1>6
  <2>2. Slots \subseteq Int
    BY <1>2
  <2>3. QED
    BY <1>3, <2>1, <2>2
<1>11. ASSUME NEW u \in Open PROVE u # NULL /\ ups[u].location \in Nat
  <2>1. ups[u].location \in Slots /\ u \in 1..Len(ups)
    BY <1>9
  <2>2. ups[u].location \in Nat
    BY <1>2, <2>1
  <2>3. u # NULL
    BY <1>4, <2>1 DEF NULL
  <2>4. QED
    BY <2>2, <2>3
<1>12. \A u \in DOMAIN ups : u \in Open <=> ups[u].location \in Slots
  BY <1>3, <1>7, <1>9
<1>13. QED
  BY <1>4, <1>5, <1>6, <1>7, <1>9, <1>10, <1>11, <1>12

\* Where upvalue_capture has stopped, the new upvalue goes.
LEMMA Place ==
  ASSUME ListInv, FindInv, call.name = "create"
  PROVE  /\ \A v \in Open : ups[v].location # call.local
         /\ HighestBelow(call.upvalue, call.local)
         /\ \A v \in Open : ups[v].location > call.local =>
              call.prev \in Open /\ ups[v].location >= ups[call.prev].location
<1>1. \A u \in Open : ups[u].location \in Nat /\ u # NULL
  BY OpenFacts
<1>2. /\ call.local \in Nat
      /\ call.upvalue = NULL \/ ups[call.upvalue].location < call.local
      /\ \/ call.prev = NULL /\ call.upvalue = head
         \/ /\ call.prev \in Open /\ ups[call.prev].location > call.local
            /\ ups[call.prev].next = call.upvalue
  BY AddressType DEF FindInv, FindCall
<1> DEFINE l == call.local  p == call.prev  w == call.upvalue
<1>3. CASE p = NULL /\ w = head
  <2>1. \/ w = NULL /\ Open = {}
        \/ w \in Open /\ \A v \in Open : ups[v].location <= ups[w].location
    BY <1>3 DEF ListInv
  <2>2. \A v \in Open : ups[v].location < l
    BY <1>1, <1>2, <2>1
  <2> HIDE DEF l, p, w
  <2>3. HighestBelow(w, l)
    BY <1>1, <2>1, <2>2 DEF HighestBelow
  <2>4. \A v \in Open : ups[v].location # l /\ ~(ups[v].location > l)
    BY <1>1, <1>2, <2>2 DEF l
  <2>5. QED
    BY <2>3, <2>4 DEF l, p, w
<1>4. CASE p \in Open /\ ups[p].location > l /\ ups[p].next = w
  <2>1. HighestBelow(w, ups[p].location)
    BY <1>4 DEF ListInv
  <2>2. /\ l \in Nat /\ ups[p].location \in Nat
        /\ w = NULL \/ ups[w].location < l
    BY <1>1, <1>2, <1>4
  <2>3. \A v \in Open : ups[v].location < l \/ ups[v].location >= ups[p].location
    BY <1>1, <2>1, <2>2 DEF HighestBelow
  <2>4. \A v \in Open : ups[v].location # l
    BY <1>1, <1>4, <2>2, <2>3
  <2>5. HighestBelow(w, l)
    BY <1>1, <1>4, <2>1, <2>2, <2>3 DEF HighestBelow
  <2>6. \A v \in Open : ups[v].location > l => ups[v].location >= ups[p].location
    BY <1>1, <2>2, <2>3
  <2>7. QED
    BY <1>4, <2>4, <2>5, <2>6
<1>5. QED
  BY <1>2, <1>3, <1>4

\* What a new upvalue changes
LEMMA Created ==
  ASSUME StackInv, ListInv, FindInv, Link
  PROVE  LET n == Len(ups) + 1 IN
         /\ ups' \in Seq(UpvalueRecord) /\ DOMAIN ups' = DOMAIN ups \cup {n} /\ n \notin DOMAIN ups
         /\ ups'[n].location = call.local /\ ups'[n].next = call.upvalue /\ ups'[n].owner = Running
         /\ \A v \in DOMAIN ups :
              /\ ups'[v].location = ups[v].location /\ ups'[v].owner = ups[v].owner
              /\ ups'[v].next = IF v = call.prev THEN n ELSE ups[v].next
         /\ head' = (IF call.prev = NULL THEN n ELSE head)
         /\ Open' = Open \cup {n}
<1> DEFINE n == Len(ups) + 1
           new == [location |-> call.local, next |-> call.upvalue, owner |-> Running]
           old == IF call.prev = NULL THEN ups ELSE [ups EXCEPT ![call.prev].next = n]
<1>1. ups' = Append(old, new) /\ head' = IF call.prev = NULL THEN n ELSE head
  BY DEF Link, Linked
<1>2. Len(ups) \in Nat /\ DOMAIN ups = 1..Len(ups) /\ ups \in Seq(UpvalueRecord) /\ n \in Nat
  BY OpenFacts DEF ListInv
<1>3. /\ call.local \in Slots /\ call.prev \in Nat /\ call.upvalue \in Nat
      /\ call.prev = NULL \/ call.prev \in DOMAIN ups
  BY DEF FindInv, FindCall, Open
<1>4. Running \in All
  BY RunningFacts DEF StackInv
<1>5. new \in UpvalueRecord
  BY <1>3, <1>4 DEF UpvalueRecord
<1>6. /\ old \in Seq(UpvalueRecord) /\ Len(old) = Len(ups)
      /\ \A v \in DOMAIN ups :
           /\ old[v].location = ups[v].location /\ old[v].owner = ups[v].owner
           /\ old[v].next = IF v = call.prev THEN n ELSE ups[v].next
  <2>1. CASE call.prev = NULL
    BY <1>2, <2>1 DEF NULL
  <2>2. CASE call.prev # NULL
    <3> DEFINE r == [ups[call.prev] EXCEPT !.next = n]
    <3>1. ups[call.prev] \in UpvalueRecord
      BY <1>2, <1>3, <2>2
    <3>2. /\ r \in UpvalueRecord /\ r.location = ups[call.prev].location
          /\ r.owner = ups[call.prev].owner /\ r.next = n
      BY <1>2, <3>1 DEF UpvalueRecord
    <3>3. old = [ups EXCEPT ![call.prev] = r]
      BY <1>2, <1>3, <2>2
    <3> HIDE DEF r, old
    <3>4. QED
      BY <1>2, <1>3, <2>2, <3>2, <3>3
  <2>3. QED
    BY <2>1, <2>2
<1>7. new.location = call.local /\ new.next = call.upvalue /\ new.owner = Running
  OBVIOUS
<1> HIDE DEF old, new
<1>8. /\ ups' \in Seq(UpvalueRecord) /\ Len(ups') = n /\ ups'[n] = new
      /\ \A v \in DOMAIN ups : ups'[v] = old[v]
  BY <1>1, <1>2, <1>5, <1>6
<1>9. DOMAIN ups' = DOMAIN ups \cup {n} /\ n \notin DOMAIN ups
  <2>1. DOMAIN ups' = 1..n
    BY <1>2, <1>8
  <2>2. QED
    BY <1>2, <2>1
<1>10. call.local # Closed
  BY <1>3, AddressType DEF Closed
<1> HIDE DEF n
<1>11. Open' = Open \cup {n}
  BY <1>6, <1>7, <1>8, <1>9, <1>10 DEF Open, IsOpen
<1>12. QED
  BY <1>1, <1>6, <1>7, <1>8, <1>9, <1>11 DEF n

LEMMA LinkList ==
  ASSUME StackInv, ListInv, CallInv, Link
  PROVE  ListInv'
<1>1. call.name = "create" /\ FindInv
  BY DEF Link, CallInv, CloseInv, CloseCall, Idle
<1> DEFINE n == Len(ups) + 1  l == call.local  p == call.prev  w == call.upvalue
<1>2. /\ ups' \in Seq(UpvalueRecord) /\ DOMAIN ups' = DOMAIN ups \cup {n} /\ n \notin DOMAIN ups
      /\ ups'[n].location = l /\ ups'[n].next = w /\ ups'[n].owner = Running
      /\ \A v \in DOMAIN ups :
           /\ ups'[v].location = ups[v].location /\ ups'[v].owner = ups[v].owner
           /\ ups'[v].next = IF v = p THEN n ELSE ups[v].next
      /\ head' = (IF p = NULL THEN n ELSE head)
      /\ Open' = Open \cup {n}
  BY <1>1, Created
<1>3. /\ \A v \in Open : ups[v].location # l
      /\ HighestBelow(w, l)
      /\ \A v \in Open : ups[v].location > l => p \in Open /\ ups[v].location >= ups[p].location
  BY <1>1, Place
<1>4. /\ l \in Slots /\ l \in Nat
      /\ p = NULL \/ (p \in Open /\ ups[p].location > l)
  BY <1>1, AddressType DEF FindInv, FindCall
<1>5. \A v \in Open : /\ ups[v].location \in Nat /\ ups'[v].location = ups[v].location
                      /\ v \in DOMAIN ups /\ v # NULL /\ v # n
  BY <1>2, OpenFacts
<1>6. n # NULL
  BY OpenFacts DEF NULL
<1> HIDE DEF n, l, p, w
<1>7. \A u, v \in Open' : ups'[u].location = ups'[v].location => u = v
  <2>1. \A u, v \in Open : ups[u].location = ups[v].location => u = v
    BY DEF ListInv
  <2>2. QED
    BY <1>2, <1>3, <1>5, <2>1
<1>8. \/ head' = NULL /\ Open' = {}
      \/ head' \in Open' /\ \A v \in Open' : ups'[v].location <= ups'[head'].location
  <2>1. CASE p = NULL
    <3>1. head' = n /\ \A v \in Open : ups[v].location <= l
      BY <1>2, <1>3, <1>4, <1>5, <2>1
    <3>2. QED
      BY <1>2, <1>4, <1>5, <3>1
  <2>2. CASE p # NULL
    <3>1. head' = head /\ p \in Open
      BY <1>2, <1>4, <2>2
    <3>2. head \in Open /\ \A v \in Open : ups[v].location <= ups[head].location
      BY <3>1 DEF ListInv
    <3>3. l <= ups[head].location
      BY <1>4, <1>5, <2>2, <3>2
    <3>4. QED
      BY <1>2, <1>5, <3>1, <3>2, <3>3
  <2>3. QED
    BY <2>1, <2>2
<1>9. ASSUME NEW u \in Open'
      PROVE  \/ ups'[u].next = NULL /\ \A v \in Open' : ups'[v].location >= ups'[u].location
             \/ /\ ups'[u].next \in Open' /\ ups'[ups'[u].next].location < ups'[u].location
                /\ \A v \in Open' : ups'[v].location < ups'[u].location =>
                     ups'[v].location <= ups'[ups'[u].next].location
  <2>1. CASE u = n
    BY <1>2, <1>3, <1>4, <1>5, <2>1 DEF HighestBelow
  <2>2. CASE u = p /\ u \in Open
    <3>1. HighestBelow(ups[p].next, ups[p].location) /\ ups[p].next = w
      BY <1>1, <1>5, <2>2 DEF ListInv, FindInv, p, w
    <3>2. ups'[u].next = n /\ n \in Open' /\ l < ups[p].location /\ ups[p].location \in Nat
      BY <1>2, <1>4, <1>5, <2>2
    <3>3. \A v \in Open : ups[v].location < ups[p].location => ups[v].location <= l
      BY <1>3, <1>4, <1>5, <2>2
    <3>4. \A v \in Open' : ups'[v].location < ups[p].location => ups'[v].location <= l
      BY <1>2, <1>4, <1>5, <3>3
    <3>5. QED
      BY <1>2, <1>5, <2>2, <3>2, <3>4
  <2>3. CASE u \in Open /\ u # p
    <3>1. ups'[u].next = ups[u].next /\ HighestBelow(ups[u].next, ups[u].location)
      BY <1>2, <1>5, <2>3 DEF ListInv
    <3>2. ups[u].location \in Nat /\ ups'[u].location = ups[u].location
      BY <1>5, <2>3
    <3>3. l < ups[u].location => p \in Open /\ ups[p].location < ups[u].location
      <4>1. ASSUME l < ups[u].location PROVE p \in Open /\ ups[p].location <= ups[u].location
        BY <1>3, <1>4, <1>5, <2>3, <3>2, <4>1
      <4>2. ASSUME p \in Open, ups[p].location = ups[u].location PROVE p = u
        BY <2>3, <4>2 DEF ListInv
      <4>3. QED
        BY <1>5, <2>3, <3>2, <4>1, <4>2
    <3>4. CASE ups[u].next = NULL /\ \A v \in Open : ups[v].location >= ups[u].location
      <4>1. ~(l < ups[u].location)
        BY <1>5, <3>2, <3>3, <3>4
      <4>2. QED
        BY <1>2, <1>4, <1>5, <3>1, <3>2, <3>4, <4>1
    <3>5. CASE /\ ups[u].next \in Open /\ ups[ups[u].next].location < ups[u].location
               /\ \A v \in Open : ups[v].location < ups[u].location =>
                    ups[v].location <= ups[ups[u].next].location
      <4> DEFINE x == ups[u].next
      <4>1. l < ups[u].location => l <= ups[x].location
        BY <1>4, <1>5, <3>2, <3>3, <3>5
      <4> HIDE DEF x
      <4>2. x \in Open /\ ups[x].location < ups[u].location
            /\ \A v \in Open : ups[v].location < ups[u].location => ups[v].location <= ups[x].location
        BY <3>5 DEF x
      <4>3. ups'[u].next = x /\ ups'[x].location = ups[x].location /\ x \in Open'
        BY <1>2, <1>5, <3>1, <4>2 DEF x
      <4>4. \A v \in Open' : ups'[v].location < ups[u].location => ups'[v].location <= ups[x].location
        BY <1>2, <1>5, <4>1, <4>2
      <4>5. QED
        BY <3>2, <4>2, <4>3, <4>4
    <3>6. QED
      BY <3>1, <3>4, <3>5 DEF HighestBelow
  <2>4. QED
    BY <1>2, <2>1, <2>2, <2>3
<1>10. QED
  BY <1>2, <1>7, <1>8, <1>9 DEF ListInv, HighestBelow

\* What closing the head of the list changes
LEMMA HeadClosed ==
  ASSUME ListInv, CloseHead
  PROVE  /\ ups' \in Seq(UpvalueRecord) /\ DOMAIN ups' = DOMAIN ups
         /\ \A v \in DOMAIN ups : /\ ups'[v].next = ups[v].next /\ ups'[v].owner = ups[v].owner
                                  /\ v # head => ups'[v].location = ups[v].location
         /\ head \in Open /\ ups'[head].location = Closed /\ head' = ups[head].next
         /\ Open' = Open \ {head}
<1>1. head # NULL /\ ups' = [ups EXCEPT ![head].location = Closed] /\ head' = ups[head].next
  BY DEF CloseHead, Closes
<1>2. head \in Open /\ head \in DOMAIN ups
  BY <1>1 DEF ListInv, Open
<1>3. ups \in Seq(UpvalueRecord) /\ ups[head] \in UpvalueRecord /\ Len(ups) \in Nat
  BY <1>2, OpenFacts DEF ListInv
<1> DEFINE r == [ups[head] EXCEPT !.location = Closed]
<1>4. r \in UpvalueRecord /\ r.location = Closed /\ r.next = ups[head].next /\ r.owner = ups[head].owner
  BY <1>3 DEF UpvalueRecord
<1>5. ups' = [ups EXCEPT ![head] = r]
  BY <1>1, <1>2
<1> HIDE DEF r
<1>6. ups' \in Seq(UpvalueRecord) /\ DOMAIN ups' = DOMAIN ups /\ ups'[head] = r
  BY <1>2, <1>3, <1>4, <1>5
<1>7. \A v \in DOMAIN ups : v # head => ups'[v] = ups[v]
  BY <1>3, <1>5
<1>8. Open' = Open \ {head}
  BY <1>2, <1>4, <1>6, <1>7 DEF Open, IsOpen
<1>9. QED
  BY <1>1, <1>2, <1>4, <1>6, <1>7, <1>8

LEMMA CloseHeadList ==
  ASSUME ListInv, CloseHead
  PROVE  ListInv'
<1>1. /\ ups' \in Seq(UpvalueRecord) /\ DOMAIN ups' = DOMAIN ups
      /\ \A v \in DOMAIN ups : /\ ups'[v].next = ups[v].next
                               /\ v # head => ups'[v].location = ups[v].location
      /\ head \in Open /\ head' = ups[head].next
      /\ Open' = Open \ {head}
  BY HeadClosed
<1>2. \A v \in Open : v \in DOMAIN ups /\ v # NULL /\ ups[v].location \in Nat
  BY OpenFacts
<1>3. /\ \A u, v \in Open : ups[u].location = ups[v].location => u = v
      /\ \A v \in Open : ups[v].location <= ups[head].location
      /\ \A u \in Open : HighestBelow(ups[u].next, ups[u].location)
  BY <1>1, <1>2 DEF ListInv
<1>4. \A v \in Open' : /\ v \in Open /\ v # head /\ ups'[v].location = ups[v].location
                       /\ ups'[v].next = ups[v].next
                       /\ ups[v].location < ups[head].location
  BY <1>1, <1>2, <1>3
<1>5. \A u, v \in Open' : ups'[u].location = ups'[v].location => u = v
  BY <1>3, <1>4
<1>6. \/ head' = NULL /\ Open' = {}
      \/ head' \in Open' /\ \A v \in Open' : ups'[v].location <= ups'[head'].location
  <2>1. HighestBelow(head', ups[head].location)
    BY <1>1, <1>3
  <2>2. CASE head' = NULL /\ \A v \in Open : ups[v].location >= ups[head].location
    BY <1>1, <1>2, <1>4, <2>2
  <2>3. CASE /\ head' \in Open /\ ups[head'].location < ups[head].location
             /\ \A v \in Open : ups[v].location < ups[head].location =>
                  ups[v].location <= ups[head'].location
    <3>1. head' # head
      BY <1>1, <1>2, <2>3
    <3>2. QED
      BY <1>1, <1>4, <2>3, <3>1
  <2>4. QED
    BY <2>1, <2>2, <2>3 DEF HighestBelow
<1>7. ASSUME NEW u \in Open'
      PROVE  \/ ups'[u].next = NULL /\ \A v \in Open' : ups'[v].location >= ups'[u].location
             \/ /\ ups'[u].next \in Open' /\ ups'[ups'[u].next].location < ups'[u].location
                /\ \A v \in Open' : ups'[v].location < ups'[u].location =>
                     ups'[v].location <= ups'[ups'[u].next].location
  <2> DEFINE x == ups[u].next
  <2>1. HighestBelow(x, ups[u].location) /\ ups'[u].next = x
        /\ ups'[u].location = ups[u].location /\ ups[u].location \in Nat
        /\ ups[u].location < ups[head].location
    BY <1>2, <1>3, <1>4
  <2> HIDE DEF x
  <2>2. CASE x = NULL /\ \A v \in Open : ups[v].location >= ups[u].location
    BY <1>4, <2>1, <2>2
  <2>3. CASE /\ x \in Open /\ ups[x].location < ups[u].location
             /\ \A v \in Open : ups[v].location < ups[u].location => ups[v].location <= ups[x].location
    <3>1. x # head /\ x \in Open'
      BY <1>1, <1>2, <2>1, <2>3
    <3>2. QED
      BY <1>4, <2>1, <2>3, <3>1
  <2>4. QED
    BY <2>1, <2>2, <2>3 DEF HighestBelow
<1>8. QED
  BY <1>1, <1>5, <1>6, <1>7 DEF ListInv, HighestBelow

\* No other step touches the list.
LEMMA SameList ==
  ASSUME ListInv, UNCHANGED listVars
  PROVE  ListInv' /\ Open' = Open /\ ups' = ups /\ head' = head
BY DEF ListInv, listVars, Open, IsOpen, HighestBelow

-----------------------------------------------------------------------------
(* The operation going on keeps what it relies on.                           *)

\* A slot of the running coroutine
LEMMA HereSlot ==
  ASSUME StackInv, NEW i \in 0..Size - 1
  PROVE  Here(i) \in Slots /\ Here(i) \in SlotsOf(Running) /\ Here(i) \in Nat
<1>1. stacks[Running].block \in Blocks
  BY RunningFacts
<1>2. Here(i) \in Slots /\ Slots \subseteq Nat
  BY <1>1, AddressType DEF Here
<1>3. QED
  BY <1>2 DEF SlotsOf, Here

LEMMA HereInjective ==
  ASSUME StackInv, NEW i \in 0..Size - 1, NEW j \in 0..Size - 1
  PROVE  /\ Here(i) = Here(j) => i = j
         /\ Here(i) < Here(j) <=> i < j
<1>1. stacks[Running].block \in Nat
  BY RunningFacts
<1>2. stacks[Running].block * Size \in Nat
  BY <1>1
<1>3. QED
  BY <1>2 DEF Here, Address

\* Where the walk has got to is an open upvalue or the end of the list.
LEMMA Reached ==
  ASSUME ListInv, FindInv
  PROVE  call.upvalue = NULL \/ call.upvalue \in Open
<1>1. CASE call.prev = NULL /\ call.upvalue = head
  BY <1>1 DEF ListInv
<1>2. CASE call.prev \in Open /\ ups[call.prev].next = call.upvalue
  <2>1. HighestBelow(call.upvalue, ups[call.prev].location)
    BY <1>2 DEF ListInv
  <2>2. QED
    BY <2>1 DEF HighestBelow
<1>3. QED
  BY <1>1, <1>2 DEF FindInv

\* A step that leaves the list and the running stack alone
LEMMA SameFind ==
  ASSUME FindInv, UNCHANGED listVars, call' = call, Running' = Running,
         stacks'[Running] = stacks[Running], variable'[call.local] # NULL
  PROVE  CallInv'
<1>1. ups' = ups /\ head' = head
  BY DEF listVars
<1>2. FindInv'
  BY <1>1 DEF FindInv, Here, Top, Open, IsOpen
<1>3. QED
  BY <1>2 DEF CallInv

\* Nothing of the stacks changes while the list is searched.
LEMMA FoundSlot ==
  ASSUME StackInv, FindInv
  PROVE  call.local \in SlotsOf(Running) /\ call.local \in Slots /\ call.local \in Nat
<1>1. PICK i \in 0..Top(Running) - 1 : call.local = Here(i)
  BY DEF FindInv
<1>2. i \in 0..Size - 1
  BY RunningFacts
<1>3. QED
  BY <1>1, <1>2, HereSlot

\* The variables in slots that are not given up stay what they are, or become 1.
LEMMA GivenUp ==
  ASSUME HistoryInv, NEW slots, GiveUp(slots) \/ Forget(slots)
  PROVE  /\ variable' \in [Slots -> Nat]
         /\ \A s \in Slots \ slots : variable[s] # NULL => variable'[s] # NULL
         /\ \A s \in Slots \cap slots : variable'[s] = NULL
<1>1. variable \in [Slots -> Nat]
  BY DEF HistoryInv, HistoryTypes
<1>2. CASE Forget(slots)
  BY <1>1, <1>2 DEF Forget, NULL
<1>3. CASE variable' = [s \in Slots |-> IF s \in slots \/ variable[s] = NULL THEN NULL ELSE 1]
  BY <1>1, <1>3 DEF NULL
<1>4. QED
  BY <1>2, <1>3 DEF GiveUp

LEMMA CollectCall ==
  ASSUME StackInv, CallInv, HistoryInv, NEW c \in Coros, Collect(c)
  PROVE  CallInv'
<1>1. UNCHANGED listVars /\ call' = call /\ GiveUp(SlotsOf(c)) /\ (call = Idle \/ call.name = "create")
  BY DEF Collect, Free
<1>2. CASE call = Idle
  BY <1>1, <1>2 DEF CallInv
<1>3. CASE call.name = "create"
  <2>1. FindInv
    BY <1>3 DEF CallInv, CloseInv, CloseCall, Idle
  <2>2. /\ Running' = Running /\ Running # c /\ stacks'[Running] = stacks[Running]
        /\ c \in Existing /\ Running \in Existing
    BY CollectStack, RunningFacts
  <2>3. call.local \in SlotsOf(Running) /\ call.local \in Slots
    BY <2>1, FoundSlot
  <2>4. call.local \notin SlotsOf(c)
    BY <2>2, <2>3, OwnSlots
  <2>5. variable'[call.local] # NULL
    BY <1>1, <2>1, <2>3, <2>4, GivenUp DEF FindInv
  <2>6. QED
    BY <1>1, <2>1, <2>2, <2>5, SameFind
<1>4. QED
  BY <1>1, <1>2, <1>3

\* OP_CLOSURE pushes, and looks for a slot of the running function.
LEMMA ClosureStep ==
  ASSUME StackInv, ListInv, HistoryInv, NEW i \in 0..Size - 1, Closure(i)
  PROVE  /\ StackInv' /\ Keeps({}) /\ Running' = Running /\ CallInv' /\ FindInv'
         /\ Here(i) \in Slots /\ Here(i) \in SlotsOf(Running) /\ call'.local = Here(i)
         /\ call'.name = "find" /\ call = Idle
<1>1. /\ Free /\ Len(ups) < MaxUpvalues /\ Top(Running) < Size /\ SetTop(Top(Running) + 1)
      /\ i \in Last(stacks[Running].frames) + 1..Top(Running)
      /\ call' = [name |-> "find", local |-> Here(i), prev |-> NULL, upvalue |-> head]
      /\ variable' = [variable EXCEPT ![Here(i)] = IF @ = NULL THEN Cardinality(bound) + 1 ELSE @]
      /\ active' = active /\ UNCHANGED listVars
  BY DEF Closure
<1>2. Top(Running) \in 0..Size /\ Top(Running) + 1 \in 0..Size
  BY <1>1, RunningFacts
<1>3. /\ StackInv' /\ Running' = Running /\ Keeps({})
      /\ stacks'[Running].block = stacks[Running].block /\ stacks'[Running].top = Top(Running) + 1
  BY <1>1, <1>2, SetTopStep, SetTopKeeps
<1>4. Here(i) \in Slots /\ Here(i) \in SlotsOf(Running)
  BY HereSlot
<1>5. variable \in [Slots -> Nat] /\ Cardinality(bound) \in Nat
  BY FS_CardinalityType DEF HistoryInv, HistoryTypes
<1>6. variable'[Here(i)] # NULL
  BY <1>1, <1>4, <1>5 DEF NULL
<1>7. ups' = ups /\ head' = head
  BY <1>1 DEF listVars
<1>8. head \in Nat
  BY OpenFacts DEF ListInv, NULL
<1>9. /\ call' \in FindCall /\ call'.local = Here(i) /\ call'.name = "find"
      /\ call'.prev = NULL /\ call'.upvalue = head
  BY <1>1, <1>4, <1>8 DEF FindCall, NULL
<1>10. i \in 0..stacks'[Running].top - 1 /\ Here(i) = Address(stacks'[Running].block, i)
  BY <1>1, <1>2, <1>3 DEF Here
<1>11. FindInv'
  <2>1. \E j \in 0..Top(Running)' - 1 : call'.local = Here(j)'
    BY <1>3, <1>9, <1>10 DEF Here, Top
  <2>2. call'.name # "create"
    BY <1>9
  <2>3. QED
    BY <1>1, <1>6, <1>7, <1>9, <2>1, <2>2 DEF FindInv
<1>12. QED
  BY <1>1, <1>3, <1>4, <1>9, <1>11 DEF CallInv, Free

LEMMA FindName ==
  ASSUME CallInv
  PROVE  /\ Finding => FindInv
         /\ call.name = "close" => CloseInv
BY DEF CallInv, FindInv, FindCall, CloseInv, CloseCall, Idle, Finding

LEMMA WalkCall ==
  ASSUME StackInv, ListInv, CallInv, Walk
  PROVE  CallInv'
<1>1. /\ call.name = "find" /\ call.upvalue # NULL /\ ups[call.upvalue].location > call.local
      /\ call' = [call EXCEPT !.prev = call.upvalue, !.upvalue = ups[call.upvalue].next]
      /\ ups' = ups /\ head' = head /\ stacks' = stacks /\ active' = active /\ variable' = variable
  BY DEF Walk, Beyond, listVars, history
<1>2. FindInv
  BY <1>1, FindName DEF Finding
<1>3. call.upvalue \in Open
  BY <1>1, <1>2, Reached
<1>4. call.upvalue \in Nat /\ ups[call.upvalue].next \in Nat
  BY <1>3, OpenFacts
<1>5. /\ call' \in FindCall /\ call'.name = "find" /\ call'.local = call.local
      /\ call'.prev = call.upvalue /\ call'.upvalue = ups[call.upvalue].next
  BY <1>1, <1>2, <1>4 DEF FindInv, FindCall
<1>6. FindInv'
  <2>1. \E j \in 0..Top(Running)' - 1 : call'.local = Here(j)'
    BY <1>1, <1>2, <1>5 DEF FindInv, Here, Top, Running
  <2>2. Open' = Open
    BY <1>1 DEF Open, IsOpen
  <2>3. QED
    BY <1>1, <1>2, <1>3, <1>5, <2>1, <2>2 DEF FindInv
<1>7. QED
  BY <1>6 DEF CallInv

LEMMA FoundCall ==
  ASSUME StackInv, ListInv, CallInv, Found
  PROVE  /\ CallInv' /\ FindInv
         /\ \/ /\ call.upvalue \in Open /\ ups[call.upvalue].location = call.local
               /\ call' = Idle /\ Bind(call.upvalue)
            \/ /\ call'.name = "create" /\ call'.local = call.local /\ bound' = bound
<1>1. /\ call.name = "find" /\ ~Beyond(call.upvalue, call.local)
      /\ IF call.upvalue # NULL /\ ups[call.upvalue].location = call.local
         THEN call' = Idle /\ Bind(call.upvalue)
         ELSE call' = [call EXCEPT !.name = "create"] /\ bound' = bound
      /\ ups' = ups /\ head' = head /\ stacks' = stacks /\ active' = active /\ variable' = variable
  BY DEF Found, listVars
<1>2. FindInv
  BY <1>1, FindName DEF Finding
<1>3. call.upvalue = NULL \/ call.upvalue \in Open
  BY <1>2, Reached
<1>4. CASE call.upvalue # NULL /\ ups[call.upvalue].location = call.local
  BY <1>1, <1>2, <1>3, <1>4 DEF CallInv
<1>5. CASE ~(call.upvalue # NULL /\ ups[call.upvalue].location = call.local)
  <2>1. call' = [call EXCEPT !.name = "create"] /\ bound' = bound
    BY <1>1, <1>5
  <2>2. /\ call' \in FindCall /\ call'.name = "create" /\ call'.local = call.local
        /\ call'.prev = call.prev /\ call'.upvalue = call.upvalue
    BY <1>2, <2>1 DEF FindInv, FindCall
  <2>3. call.upvalue = NULL \/ ups[call.upvalue].location < call.local
    <3>1. call.local \in Nat
      BY <1>2, FoundSlot
    <3>2. call.upvalue \in Open => ups[call.upvalue].location \in Nat
      BY OpenFacts
    <3>3. QED
      BY <1>1, <1>3, <1>5, <3>1, <3>2 DEF Beyond
  <2>4. FindInv'
    <3>1. \E j \in 0..Top(Running)' - 1 : call'.local = Here(j)'
      BY <1>1, <1>2, <2>2 DEF FindInv, Here, Top, Running
    <3>2. Open' = Open
      BY <1>1 DEF Open, IsOpen
    <3>3. QED
      BY <1>1, <1>2, <2>2, <2>3, <3>1, <3>2 DEF FindInv
  <2>5. QED
    BY <1>2, <2>1, <2>2, <2>4 DEF CallInv
<1>6. QED
  BY <1>4, <1>5

\* What is closed is a part of the running stack.
LEMMA CloseStart ==
  ASSUME StackInv, CloseUpvalue \/ Return
  PROVE  CallInv'
<1>1. /\ Droppable /\ stacks' = stacks /\ active' = active
  BY DEF CloseUpvalue, Return
<1> DEFINE top == Top(Running) - 1  low == Last(stacks[Running].frames)
<1>2. top \in 0..Size - 1 /\ low \in 0..Size - 1
  BY <1>1, DroppableTop
<1>3. Here(top) \in Slots /\ Here(low) \in Slots
  BY <1>2, HereSlot
<1>4. Droppable' /\ Top(Running)' = Top(Running) /\ Here(top)' = Here(top) /\ Here(low)' = Here(low)
      /\ Running' = Running
  BY <1>1 DEF Droppable, Floor, Top, Running, Here
<1>5. CASE CloseUpvalue
  <2>1. call' = [name |-> "close", last |-> Here(top), then |-> "pop"]
    BY <1>5 DEF CloseUpvalue, StartClose
  <2>2. call' \in CloseCall /\ call'.last = Here(top) /\ call'.then = "pop"
    BY <1>3, <2>1 DEF CloseCall
  <2> HIDE DEF low
  <2>3. CloseInv'
    BY <1>4, <2>2 DEF CloseInv
  <2>4. QED
    BY <2>3 DEF CallInv
<1>6. CASE Return
  <2>1. call' = [name |-> "close", last |-> Here(low), then |-> "return"]
    BY <1>6 DEF Return, StartClose
  <2>2. call' \in CloseCall /\ call'.last = Here(low) /\ call'.then = "return"
    BY <1>3, <2>1 DEF CloseCall
  <2>3. \/ Len(stacks[Running].frames) > 1
        \/ Resumable /\ Top(Resumer) < Size
    BY <1>6 DEF Return
  <2> HIDE DEF top
  <2>4. CloseInv'
    BY <1>1, <1>4, <2>2, <2>3 DEF CloseInv, Top, Resumable, Resumer
  <2>5. QED
    BY <2>4 DEF CallInv
<1>7. QED
  BY <1>5, <1>6

LEMMA CloseHeadCall ==
  ASSUME CallInv, CloseHead
  PROVE  CallInv' /\ Closing' = Closing
<1>1. call.name = "close" /\ call' = call /\ stacks' = stacks /\ active' = active
  BY DEF CloseHead
<1>2. CloseInv
  BY <1>1, FindName
<1>3. CloseInv'
  BY <1>1, <1>2 DEF CloseInv, Droppable, Floor, Top, Running, Here, Resumable, Resumer
<1>4. Closing' = Closing
  BY <1>1 DEF Closing, ClosedFrom, SlotsOf, Running
<1>5. QED
  BY <1>3, <1>4 DEF CallInv

-----------------------------------------------------------------------------
(* The history                                                               *)

\* Steps that forget the variables of slots without open upvalues, or of none.
LEMMA ForgetHistory ==
  ASSUME ListInv, HistoryInv, NEW slots, Forget(slots), ups' = ups,
         UNCHANGED <<bound, early, abandoned>>,
         ~abandoned => OpenIn(slots) = {},
         Finding => Finding' /\ call'.local = call.local,
         Closing \subseteq Closing' \cup slots
  PROVE  HistoryInv'
<1>1. /\ variable \in [Slots -> Nat] /\ abandoned \in BOOLEAN
      /\ bound \subseteq Nat \X Nat /\ IsFiniteSet(bound)
  BY DEF HistoryInv, HistoryTypes
<1>2. /\ variable' \in [Slots -> Nat]
      /\ \A s \in Slots : variable'[s] = IF s \in slots THEN NULL ELSE variable[s]
  BY <1>1 DEF Forget, NULL
<1>3. HistoryTypes'
  BY <1>1, <1>2 DEF HistoryTypes
<1>4. ASSUME ~abandoned PROVE Numbered' /\ Bound' /\ ShareVariable'
  <2>1. Numbered /\ Bound /\ ShareVariable /\ OpenIn(slots) = {}
    BY <1>4 DEF HistoryInv
  <2>2. /\ bound' = bound /\ early' = early /\ abandoned' = abandoned /\ ups' = ups /\ Open' = Open
    BY DEF Open, IsOpen
  <2>3. Cardinality(bound) \in Nat
    BY <1>1, FS_CardinalityType
  <2>4. Numbered'
    <3>1. \A s, t \in Slots : variable'[s] = variable'[t] /\ variable'[s] # NULL => s = t
      BY <1>2, <2>1 DEF Numbered
    <3>2. \A s \in Slots : \/ variable'[s] <= Cardinality(bound)
                           \/ Finding' /\ s = call'.local /\ variable'[s] = Cardinality(bound) + 1
      <4> TAKE s \in Slots
      <4>1. CASE s \in slots
        BY <1>2, <2>3, <4>1 DEF NULL
      <4>2. CASE s \notin slots
        BY <1>2, <2>1, <4>2 DEF Numbered
      <4>3. QED
        BY <4>1, <4>2
    <3>3. QED
      BY <2>1, <2>2, <3>1, <3>2 DEF Numbered
  <2>5. Bound'
    <3>1. \A u \in Open : ups[u].location \in Slots /\ ups[u].location \notin slots
      BY <2>1, OpenFacts DEF OpenIn, Open
    <3>2. \A u \in Open : variable'[ups[u].location] = variable[ups[u].location]
      BY <1>2, <3>1
    <3>3. \A b \in bound : b[1] # NULL
      BY <2>1, <2>3 DEF Numbered, NULL
    <3>4. ASSUME NEW b \in bound, NEW s \in Slots, s \notin Closing', variable'[s] = b[1]
          PROVE  s \notin Closing /\ variable[s] = b[1]
      BY <1>2, <3>3, <3>4
    <3>5. QED
      BY <2>1, <2>2, <3>2, <3>4 DEF Bound
  <2>6. ShareVariable'
    BY <2>1, <2>2 DEF ShareVariable
  <2>7. QED
    BY <2>4, <2>5, <2>6
<1>5. QED
  BY <1>3, <1>4 DEF HistoryInv

\* Steps of the program: slots are given up, or none are.
LEMMA NotClosing ==
  ASSUME Free \/ call.name = "create", call' = call
  PROVE  Closing = {} /\ Closing' = {} /\ Finding' = Finding
BY DEF Free, Idle, Closing, Finding

LEMMA ForgetNothing ==
  ASSUME HistoryInv, variable' = variable
  PROVE  Forget({}) /\ OpenIn({}) = {}
<1>1. variable \in [Slots -> Nat]
  BY DEF HistoryInv, HistoryTypes
<1>2. Forget({})
  BY <1>1 DEF Forget
<1>3. QED
  BY <1>2 DEF OpenIn

\* A step that leaves the history alone, whatever the list operation does
LEMMA SameHistory ==
  ASSUME ListInv, HistoryInv, UNCHANGED history, ups' = ups,
         Finding => Finding' /\ call'.local = call.local,
         Closing \subseteq Closing'
  PROVE  HistoryInv'
<1>1. variable' = variable /\ UNCHANGED <<bound, early, abandoned>>
  BY DEF history
<1>2. Forget({}) /\ OpenIn({}) = {}
  BY <1>1, ForgetNothing
<1>3. Closing \subseteq Closing' \cup {}
  OBVIOUS
<1>4. QED
  BY <1>1, <1>2, <1>3, ForgetHistory

LEMMA GiveUpHistory ==
  ASSUME ListInv, HistoryInv, NEW slots, GiveUp(slots), ups' = ups, call' = call,
         Free \/ call.name = "create"
  PROVE  HistoryInv'
<1>1. Closing = {} /\ Closing' = {} /\ Finding' = Finding
  BY NotClosing
<1>2. CASE OpenIn(slots) = {}
  <2>1. Forget(slots) /\ UNCHANGED <<bound, early, abandoned>>
    BY <1>2 DEF GiveUp
  <2>2. Closing \subseteq Closing' \cup slots
    BY <1>1
  <2>3. QED
    BY <1>1, <1>2, <2>1, <2>2, ForgetHistory
<1>3. CASE OpenIn(slots) # {}
  <2>1. abandoned' = TRUE /\ bound' = {}
    BY <1>3 DEF GiveUp
  <2>2. variable' \in [Slots -> Nat]
    BY GivenUp
  <2>3. IsFiniteSet({})
    BY FS_EmptySet
  <2>4. QED
    BY <2>1, <2>2, <2>3 DEF HistoryInv, HistoryTypes
<1>4. QED
  BY <1>2, <1>3

\* A variable that is looked for has a number, the next one if it is new.
LEMMA ClosureHistory ==
  ASSUME StackInv, ListInv, HistoryInv, NEW i \in 0..Size - 1, Closure(i)
  PROVE  HistoryInv'
<1> DEFINE h == Here(i)  k == Cardinality(bound)
<1>1. /\ h \in Slots /\ call'.local = h /\ call'.name = "find" /\ call = Idle
  BY ClosureStep
<1>2. /\ variable' = [variable EXCEPT ![h] = IF @ = NULL THEN k + 1 ELSE @]
      /\ bound' = bound /\ early' = early /\ abandoned' = abandoned /\ ups' = ups
  BY DEF Closure, listVars
<1>3. /\ variable \in [Slots -> Nat] /\ abandoned \in BOOLEAN
      /\ bound \subseteq Nat \X Nat /\ IsFiniteSet(bound) /\ k \in Nat
  BY FS_CardinalityType DEF HistoryInv, HistoryTypes
<1> HIDE DEF h
<1>4. /\ variable' \in [Slots -> Nat]
      /\ \A s \in Slots : s # h \/ variable[s] # NULL => variable'[s] = variable[s]
      /\ variable[h] = NULL => variable'[h] = k + 1
  BY <1>1, <1>2, <1>3 DEF NULL
<1>5. HistoryTypes'
  BY <1>2, <1>3, <1>4 DEF HistoryTypes
<1>6. ~Finding /\ Finding' /\ Closing = {} /\ Closing' = {}
  BY <1>1 DEF Finding, Closing, Idle
<1>7. ASSUME ~abandoned PROVE Numbered' /\ Bound' /\ ShareVariable'
  <2>1. Numbered /\ Bound /\ ShareVariable
    BY <1>7 DEF HistoryInv
  <2>2. Open' = Open
    BY <1>2 DEF Open, IsOpen
  <2>3. \A s \in Slots : variable[s] <= k
    BY <1>6, <2>1 DEF Numbered
  <2>4. Cardinality(bound') = k
    BY <1>2
  <2>5. \A b \in bound : b[1] \in 1..k /\ b[2] \in DOMAIN ups
    BY <2>1 DEF Numbered
  <2> HIDE DEF k
  <2>6. \A s, t \in Slots : variable'[s] = variable'[t] /\ variable'[s] # NULL => s = t
    <3>1. \A s, t \in Slots : variable[s] = variable[t] /\ variable[s] # NULL => s = t
      BY <2>1 DEF Numbered
    <3>2. \A s \in Slots : variable[s] \in Nat /\ variable[s] # k + 1
      BY <1>3, <2>3
    <3>3. QED
      BY <1>1, <1>3, <1>4, <3>1, <3>2
  <2>7. \A s \in Slots : \/ variable'[s] <= k
                         \/ Finding' /\ s = call'.local /\ variable'[s] = k + 1
    BY <1>1, <1>4, <1>6, <2>3
  <2>8. Numbered'
    BY <1>2, <2>4, <2>5, <2>6, <2>7 DEF Numbered
  <2>9. Bound'
    <3>1. \A u \in Open : /\ ups[u].location \in Slots /\ variable[ups[u].location] # NULL
                          /\ \A b \in bound : b[2] = u => b[1] = variable[ups[u].location]
      BY <2>1, OpenFacts DEF Bound
    <3>2. \A u \in Open : variable'[ups[u].location] = variable[ups[u].location]
      BY <1>4, <3>1
    <3>3. ASSUME NEW b \in bound, NEW s \in Slots, variable'[s] = b[1]
          PROVE  variable[s] = b[1]
      <4>1. b[1] # k + 1
        BY <1>3, <2>5
      <4>2. QED
        BY <1>4, <3>3, <4>1
    <3>4. \A b \in bound : \A s \in Slots :
             variable[s] = b[1] /\ b[1] \notin early => b[2] \in Open /\ ups[b[2]].location = s
      BY <1>6, <2>1 DEF Bound
    <3>5. QED
      BY <1>2, <2>2, <3>1, <3>2, <3>3, <3>4 DEF Bound
  <2>10. ShareVariable'
    BY <1>2, <2>1 DEF ShareVariable
  <2>11. QED
    BY <2>8, <2>9, <2>10
<1>8. QED
  BY <1>2, <1>5, <1>7 DEF HistoryInv

\* A closure gets an upvalue: the open one that is there, or a new one.
LEMMA BindHistory ==
  ASSUME StackInv, ListInv, HistoryInv, FindInv, ListInv', NEW u \in Nat, Bind(u),
         UNCHANGED <<variable, early, abandoned>>, call' = Idle,
         DOMAIN ups \subseteq DOMAIN ups', u \in DOMAIN ups', u \in DOMAIN ups => u \in Open,
         Open' = Open \cup {u},
         \A v \in Open : ups'[v].location = ups[v].location,
         ups'[u].location = call.local
  PROVE  HistoryInv'
<1> DEFINE l == call.local  x == variable[l]  k == Cardinality(bound)
<1>1. l \in Slots /\ x # NULL /\ (call.name = "find" \/ call.name = "create")
  BY FoundSlot DEF FindInv, FindCall
<1>2. /\ variable \in [Slots -> Nat] /\ abandoned \in BOOLEAN
      /\ bound \subseteq Nat \X Nat /\ IsFiniteSet(bound) /\ k \in Nat
  BY FS_CardinalityType DEF HistoryInv, HistoryTypes
<1>3. Closing = {} /\ Closing' = {} /\ ~Finding'
  BY <1>1 DEF Closing, Finding, Idle
<1>4. bound' = (IF abandoned THEN {} ELSE bound \cup {<<x, u>>})
  BY DEF Bind
<1>5. x \in Nat
  BY <1>1, <1>2
<1> HIDE DEF l, x
<1>6. bound' \subseteq Nat \X Nat /\ IsFiniteSet(bound')
  <2>1. IsFiniteSet({}) /\ IsFiniteSet(bound \cup {<<x, u>>})
    BY <1>2, FS_EmptySet, FS_AddElement
  <2>2. QED
    BY <1>2, <1>4, <1>5, <2>1
<1>7. HistoryTypes'
  BY <1>2, <1>6 DEF HistoryTypes
<1>8. ASSUME ~abandoned PROVE Numbered' /\ Bound' /\ ShareVariable'
  <2>1. Numbered /\ Bound /\ ShareVariable
    BY <1>8 DEF HistoryInv
  <2>2. /\ bound' = bound \cup {<<x, u>>} /\ variable' = variable /\ early' = early
        /\ abandoned' = abandoned
    BY <1>4, <1>8
  <2>3. /\ Cardinality(bound') \in Nat /\ k <= Cardinality(bound')
        /\ <<x, u>> \notin bound => Cardinality(bound') = k + 1
    <3> DEFINE b == <<x, u>>
    <3>1. Cardinality(bound \cup {b}) = IF b \in bound THEN k ELSE k + 1
      <4> HIDE DEF b
      <4>1. QED
        BY <1>2, FS_AddElement
    <3>2. QED
      BY <1>2, <2>2, <3>1
  <2>4. \A b \in bound : b[1] \in 1..k /\ b[2] \in DOMAIN ups
    BY <2>1 DEF Numbered
  <2>5. \A s \in Slots : variable[s] <= k \/ (s = l /\ variable[s] = k + 1)
    BY <2>1 DEF Numbered, l
  <2>6. x = variable[l] /\ variable[l] \in Nat
    BY <1>5 DEF l, x
  <2> HIDE DEF k
  <2>7. x \in 1..Cardinality(bound')
    <3>1. CASE x <= k
      BY <1>1, <1>2, <1>5, <2>3, <3>1 DEF NULL
    <3>2. CASE x = k + 1
      <4>1. <<x, u>> \notin bound
        <5> SUFFICES ASSUME <<x, u>> \in bound PROVE FALSE
          OBVIOUS
        <5>1. <<x, u>>[1] \in 1..k
          BY <2>4
        <5>2. QED
          BY <1>2, <3>2, <5>1
      <4>2. QED
        BY <1>2, <2>3, <3>2, <4>1
    <3>3. QED
      BY <1>1, <2>5, <2>6, <3>1, <3>2
  <2>8. Numbered'
    <3>1. \A s, t \in Slots : variable[s] = variable[t] /\ variable[s] # NULL => s = t
      BY <2>1 DEF Numbered
    <3>2. \A b \in bound' : b[1] \in 1..Cardinality(bound') /\ b[2] \in DOMAIN ups'
      <4> TAKE b \in bound'
      <4>1. CASE b \in bound
        BY <1>2, <2>3, <2>4, <4>1
      <4>2. CASE b = <<x, u>>
        BY <2>7, <4>2
      <4>3. QED
        BY <2>2, <4>1, <4>2
    <3>3. ASSUME NEW s \in Slots PROVE variable[s] <= Cardinality(bound')
      <4>1. CASE variable[s] <= k
        BY <1>2, <2>3, <4>1
      <4>2. CASE s = l
        BY <2>6, <2>7, <4>2
      <4>3. QED
        BY <2>5, <4>1, <4>2
    <3>4. QED
      BY <2>2, <3>1, <3>2, <3>3 DEF Numbered
  \* A pair that was there before, and meant this variable or this upvalue
  <2>9. ASSUME NEW b \in bound
        PROVE  /\ b[2] = u => b[1] = x
               /\ b[1] = x /\ x \notin early => b[2] = u
    <3>1. ASSUME b[2] = u PROVE b[1] = x
      <4>1. u \in Open
        BY <2>4, <3>1
      <4>2. ups[u].location = l
        BY <4>1 DEF l
      <4>3. b[1] = variable[ups[u].location]
        BY <2>1, <3>1, <4>1 DEF Bound
      <4>4. QED
        BY <2>6, <4>2, <4>3
    <3>2. ASSUME b[1] = x, x \notin early PROVE b[2] = u
      <4>1. b[2] \in Open /\ ups[b[2]].location = l
        BY <1>1, <1>3, <2>1, <2>6, <3>2 DEF Bound, l
      <4>2. ups'[b[2]].location = ups'[u].location /\ b[2] \in Open' /\ u \in Open'
        BY <4>1 DEF l
      <4>3. QED
        BY <4>2 DEF ListInv
    <3>3. QED
      BY <3>1, <3>2
  <2>10. Bound'
    <3>1. \A v \in Open : /\ variable[ups[v].location] # NULL
                          /\ \A b \in bound : b[2] = v => b[1] = variable[ups[v].location]
      BY <2>1 DEF Bound
    <3>2. ASSUME NEW v \in Open'
          PROVE  /\ variable[ups'[v].location] # NULL
                 /\ \A b \in bound' : b[2] = v => b[1] = variable[ups'[v].location]
      <4>1. CASE v = u
        <5>1. variable[ups'[v].location] = x
          BY <2>6, <4>1 DEF l
        <5>2. \A b \in bound' : b[2] = v => b[1] = x
          BY <2>2, <2>9, <4>1
        <5>3. QED
          BY <1>1, <5>1, <5>2 DEF x, l
      <4>2. CASE v # u
        <5>1. v \in Open /\ ups'[v].location = ups[v].location
          BY <4>2
        <5>2. QED
          BY <2>2, <3>1, <4>2, <5>1
      <4>3. QED
        BY <4>1, <4>2
    <3>3. ASSUME NEW b \in bound', NEW s \in Slots, variable[s] = b[1], b[1] \notin early
          PROVE  b[2] \in Open' /\ ups'[b[2]].location = s
      <4>1. CASE b \in bound
        <5>1. b[2] \in Open /\ ups[b[2]].location = s
          BY <1>3, <2>1, <3>3, <4>1 DEF Bound
        <5>2. QED
          BY <5>1
      <4>2. CASE b = <<x, u>>
        <5>1. variable[s] = variable[l] /\ variable[s] # NULL
          BY <1>1, <2>6, <3>3, <4>2 DEF l, x
        <5>2. s = l
          BY <1>1, <2>1, <5>1 DEF Numbered, l
        <5>3. QED
          BY <4>2, <5>2 DEF l
      <4>3. QED
        BY <2>2, <4>1, <4>2
    <3>4. QED
      BY <2>2, <3>2, <3>3 DEF Bound
  <2>11. ShareVariable'
    <3>1. \A b, c \in bound : /\ b[2] = c[2] => b[1] = c[1]
                              /\ b[1] = c[1] /\ b[1] \notin early => b[2] = c[2]
      BY <1>8, <2>1 DEF ShareVariable
    <3>2. \A b, c \in bound' : /\ b[2] = c[2] => b[1] = c[1]
                               /\ b[1] = c[1] /\ b[1] \notin early => b[2] = c[2]
      BY <2>2, <2>9, <3>1
    <3>3. QED
      BY <2>2, <3>2 DEF ShareVariable
  <2>12. QED
    BY <2>8, <2>10, <2>11
<1>9. QED
  BY <1>7, <1>8 DEF HistoryInv

LEMMA FoundHistory ==
  ASSUME StackInv, ListInv, CallInv, HistoryInv, Found
  PROVE  HistoryInv'
<1>1. /\ UNCHANGED listVars /\ UNCHANGED <<variable, early, abandoned>> /\ call.name = "find"
  BY DEF Found
<1>2. ListInv' /\ Open' = Open /\ ups' = ups
  BY <1>1, SameList
<1>3. FindInv
  BY FoundCall
<1>4. CASE /\ call.upvalue \in Open /\ ups[call.upvalue].location = call.local
           /\ call' = Idle /\ Bind(call.upvalue)
  <2> DEFINE u == call.upvalue
  <2>1. u \in Nat /\ u \in DOMAIN ups
    BY <1>4, OpenFacts
  <2> HIDE DEF u
  <2>2. /\ u \in Open /\ ups[u].location = call.local /\ Bind(u)
    BY <1>4 DEF u
  <2>3. Open' = Open \cup {u}
    BY <1>2, <2>2
  <2>4. QED
    BY <1>1, <1>2, <1>3, <1>4, <2>1, <2>2, <2>3, BindHistory
<1>5. CASE call'.name = "create" /\ call'.local = call.local /\ bound' = bound
  <2>1. Closing = {} /\ Finding'
    BY <1>1, <1>5 DEF Closing, Finding
  <2>2. UNCHANGED history /\ Closing \subseteq Closing'
    BY <1>1, <1>5, <2>1 DEF history
  <2>3. QED
    BY <1>2, <1>5, <2>1, <2>2, SameHistory
<1>6. QED
  BY <1>4, <1>5, FoundCall

LEMMA LinkHistory ==
  ASSUME StackInv, ListInv, CallInv, HistoryInv, Link
  PROVE  HistoryInv'
<1> DEFINE n == Len(ups) + 1
<1>1. /\ call.name = "create" /\ Bind(n) /\ call' = Idle /\ UNCHANGED <<variable, early, abandoned>>
  BY DEF Link
<1>2. FindInv
  BY <1>1, FindName DEF Finding
<1>3. ListInv'
  BY LinkList
<1>4. n \in Nat
  BY OpenFacts
<1>5. /\ DOMAIN ups' = DOMAIN ups \cup {n} /\ n \notin DOMAIN ups
      /\ ups'[n].location = call.local
      /\ \A v \in DOMAIN ups : ups'[v].location = ups[v].location
      /\ Open' = Open \cup {n}
  BY <1>2, Created
<1> HIDE DEF n
<1>6. \A v \in Open : ups'[v].location = ups[v].location
  BY <1>5, OpenFacts
<1>7. /\ DOMAIN ups \subseteq DOMAIN ups' /\ n \in DOMAIN ups' /\ n \notin DOMAIN ups
      /\ ups'[n].location = call.local /\ Open' = Open \cup {n}
  BY <1>5
<1>8. QED
  BY <1>1, <1>2, <1>3, <1>4, <1>6, <1>7, BindHistory

\* What the running coroutine holds from a slot on is what is being closed.
LEMMA HeldHere ==
  ASSUME StackInv, CallInv, call.name = "close", NEW slot, Held(stacks, Running, slot)
  PROVE  slot \in SlotsOf(Running) /\ (slot >= call.last => slot \in Closing)
<1>1. PICK i \in 0..stacks[Running].top - 1 : slot = Address(stacks[Running].block, i)
  BY DEF Held
<1>2. i \in 0..Size - 1
  BY RunningFacts DEF Top
<1>3. slot \in SlotsOf(Running)
  BY <1>1, <1>2 DEF SlotsOf
<1>4. QED
  BY <1>3 DEF Closing, ClosedFrom

LEMMA CloseHeadHistory ==
  ASSUME StackInv, ListInv, CallInv, Own, HistoryInv, CloseHead
  PROVE  HistoryInv'
<1>1. /\ call.name = "close" /\ Closes(head, call.last) /\ UNCHANGED <<bound, variable, abandoned>>
      /\ call' = call
      /\ early' = IF ups[head].owner = Running THEN early
                  ELSE early \cup {b[1] : b \in {c \in bound : c[2] = head}}
  BY DEF CloseHead
<1>2. /\ DOMAIN ups' = DOMAIN ups /\ head \in Open /\ Open' = Open \ {head}
      /\ \A v \in DOMAIN ups : v # head => ups'[v].location = ups[v].location
  BY HeadClosed
<1>3. HistoryTypes'
  BY <1>1 DEF HistoryInv, HistoryTypes
<1>4. Closing' = Closing
  BY CloseHeadCall
<1>5. ~Finding /\ ~Finding'
  BY <1>1 DEF Finding
<1>6. \A v \in Open' : v \in Open /\ v # head /\ ups'[v].location = ups[v].location
  BY <1>2, OpenFacts
<1>7. ASSUME ~abandoned PROVE Numbered' /\ Bound' /\ ShareVariable'
  <2>1. Numbered /\ Bound /\ ShareVariable
    BY <1>7 DEF HistoryInv
  <2>2. Numbered'
    BY <1>1, <1>2, <1>5, <2>1 DEF Numbered
  <2>3. early \subseteq early'
    BY <1>1
  <2>4. ASSUME NEW b \in bound, NEW s \in Slots \ Closing, variable[s] = b[1], b[1] \notin early'
        PROVE  b[2] \in Open' /\ ups'[b[2]].location = s
    <3>1. b[2] \in Open /\ ups[b[2]].location = s
      BY <2>1, <2>3, <2>4 DEF Bound
    <3>2. b[2] # head
      <4> SUFFICES ASSUME b[2] = head PROVE FALSE
        OBVIOUS
      <4>1. ups[head].owner = Running
        BY <1>1, <2>4
      <4>2. Held(stacks, Running, s)
        BY <1>2, <1>7, <3>1, <4>1 DEF Own
      <4>3. s >= call.last
        BY <1>1, <3>1 DEF Closes
      <4>4. s \in Closing
        BY <1>1, <4>2, <4>3, HeldHere
      <4>5. QED
        BY <4>4
    <3>3. QED
      BY <1>2, <1>6, <3>1, <3>2
  <2>5. Bound'
    <3>1. \A v \in Open' : /\ variable[ups'[v].location] # NULL
                           /\ \A b \in bound : b[2] = v => b[1] = variable[ups'[v].location]
      BY <1>6, <2>1 DEF Bound
    <3>2. QED
      BY <1>1, <1>4, <2>4, <3>1 DEF Bound
  <2>6. ShareVariable'
    BY <1>1, <1>7, <2>1, <2>3 DEF ShareVariable
  <2>7. QED
    BY <2>2, <2>5, <2>6
<1>8. QED
  BY <1>1, <1>3, <1>7 DEF HistoryInv

\* When close_upvalues is done, no upvalue of these slots is open.
LEMMA NoneOpen ==
  ASSUME ListInv, NEW last \in Nat, ~Closes(head, last)
  PROVE  \A u \in Open : ups[u].location < last
<1>1. \A u \in Open : ups[u].location \in Nat /\ u # NULL
  BY OpenFacts
<1>2. CASE head = NULL
  BY <1>1, <1>2 DEF ListInv
<1>3. CASE head # NULL
  <2>1. head \in Open /\ \A v \in Open : ups[v].location <= ups[head].location
    BY <1>3 DEF ListInv
  <2>2. ups[head].location < last
    BY <1>1, <1>3, <2>1 DEF Closes
  <2>3. QED
    BY <1>1, <2>1, <2>2
<1>4. QED
  BY <1>2, <1>3

LEMMA NoneLeft ==
  ASSUME StackInv, ListInv, CallInv, Dropped \/ Returned
  PROVE  OpenIn(ClosedFrom(call.last)) = {}
<1>1. call.name = "close" /\ ~Closes(head, call.last)
  BY DEF Dropped, Returned
<1>2. call.last \in Nat
  BY <1>1, FindName, AddressType DEF CloseInv, CloseCall
<1>3. \A u \in Open : ups[u].location < call.last
  BY <1>1, <1>2, NoneOpen
<1>4. SlotsOf(Running) \subseteq Slots
  BY StackSlots, RunningFacts
<1> SUFFICES ASSUME NEW u \in DOMAIN ups, ups[u].location \in ClosedFrom(call.last)
             PROVE  FALSE
  BY DEF OpenIn
<1>5. ups[u].location \in Slots /\ ups[u].location >= call.last
  BY <1>4 DEF ClosedFrom
<1>6. u \in Open /\ ups[u].location \in Nat
  BY <1>5, OpenFacts
<1>7. QED
  BY <1>2, <1>3, <1>5, <1>6

LEMMA EndHistory ==
  ASSUME StackInv, ListInv, CallInv, HistoryInv, Dropped \/ Returned
  PROVE  HistoryInv'
<1>1. /\ call.name = "close" /\ Forget(ClosedFrom(call.last)) /\ call' = Idle
      /\ UNCHANGED listVars /\ UNCHANGED <<bound, early, abandoned>>
  BY DEF Dropped, Returned
<1>2. ~Finding /\ Closing \subseteq Closing' \cup ClosedFrom(call.last)
  BY <1>1 DEF Finding, Closing
<1>3. OpenIn(ClosedFrom(call.last)) = {} /\ ups' = ups
  BY <1>1, NoneLeft DEF listVars
<1>4. QED
  BY <1>1, <1>2, <1>3, ForgetHistory

-----------------------------------------------------------------------------
(* Open upvalues stay on the stacks of their owners.                         *)

LEMMA OwnStep ==
  ASSUME ListInv, Own, ups' = ups, NEW gone, Keeps(gone),
         ~abandoned' => ~abandoned /\ OpenIn(gone) = {}
  PROVE  Own'
<1> SUFFICES ASSUME ~abandoned', NEW u \in Open
             PROVE  Held(stacks', ups[u].owner, ups[u].location)
  BY DEF Own, Open, IsOpen
<1>1. Held(stacks, ups[u].owner, ups[u].location)
  BY DEF Own
<1>2. ups[u].location \notin gone
  BY DEF OpenIn, Open
<1>3. QED
  BY <1>1, <1>2 DEF Keeps

\* What has not been captured has no open upvalue.
LEMMA NoneCaptured ==
  ASSUME ListInv, HistoryInv, NEW slots \in SUBSET Slots, \A s \in slots : variable[s] = NULL
  PROVE  ~abandoned => OpenIn(slots) = {}
<1> SUFFICES ASSUME ~abandoned, NEW u \in DOMAIN ups, ups[u].location \in slots
             PROVE  FALSE
  BY DEF OpenIn
<1>1. u \in Open
  BY OpenFacts
<1>2. variable[ups[u].location] # NULL
  BY <1>1 DEF HistoryInv, Bound
<1>3. QED
  BY <1>2

\* A step of the program that captures and gives up nothing
LEMMA QuietStep ==
  ASSUME IInv, Free, UNCHANGED <<listVars, call, history>>, StackInv', NEW gone, Keeps(gone),
         ~abandoned => OpenIn(gone) = {}
  PROVE  IInv'
<1>1. StackInv /\ ListInv /\ CallInv /\ Own /\ HistoryInv /\ call = Idle
  BY DEF IInv, Free
<1>2. ListInv' /\ ups' = ups
  BY <1>1, SameList
<1>3. CallInv' /\ call' = call
  BY <1>1 DEF CallInv
<1>4. abandoned' = abandoned
  BY DEF history
<1>5. Own'
  BY <1>1, <1>2, <1>4, OwnStep
<1>6. HistoryInv'
  <2>1. Closing = {} /\ Closing' = {} /\ Finding' = Finding
    BY <1>3, NotClosing
  <2>2. QED
    BY <1>1, <1>2, <1>3, <2>1, SameHistory
<1>7. QED
  BY <1>2, <1>3, <1>5, <1>6 DEF IInv

\* One that gives up slots, captured or not
LEMMA GiveUpStep ==
  ASSUME IInv, NEW slots, GiveUp(slots), Keeps(slots), StackInv', CallInv',
         Free \/ call.name = "create", UNCHANGED listVars, call' = call
  PROVE  IInv'
<1>1. StackInv /\ ListInv /\ CallInv /\ Own /\ HistoryInv
  BY DEF IInv
<1>2. ListInv' /\ ups' = ups
  BY <1>1, SameList
<1>3. HistoryInv'
  BY <1>1, <1>2, GiveUpHistory
<1>4. ~abandoned' => ~abandoned /\ OpenIn(slots) = {}
  BY DEF GiveUp
<1>5. Own'
  BY <1>1, <1>2, <1>4, OwnStep
<1>6. QED
  BY <1>2, <1>3, <1>5 DEF IInv

\* Nothing of the stacks changes.
LEMMA StackStays ==
  ASSUME IInv, stacks' = stacks, active' = active
  PROVE  StackInv' /\ Keeps({}) /\ Running' = Running
         /\ (ups' = ups /\ abandoned' = abandoned => Own')
<1>1. StackInv' /\ Keeps({}) /\ Running' = Running
  BY KeepsUnchanged DEF IInv, StackInv, Existing, Running
<1>2. OpenIn({}) = {}
  BY DEF OpenIn
<1>3. ASSUME ups' = ups, abandoned' = abandoned PROVE Own'
  BY <1>1, <1>2, <1>3, OwnStep DEF IInv
<1>4. QED
  BY <1>1, <1>3

LEMMA StepPush == ASSUME IInv, Push PROVE IInv'
<1>1. StackInv' /\ Keeps({}) /\ OpenIn({}) = {}
  BY PushStack DEF IInv, OpenIn
<1>2. QED
  BY <1>1, QuietStep DEF Push

LEMMA StepCall == ASSUME IInv, Call PROVE IInv'
<1>1. StackInv' /\ Keeps({}) /\ OpenIn({}) = {}
  BY CallStack DEF IInv, OpenIn
<1>2. QED
  BY <1>1, QuietStep DEF Call

LEMMA StepCreate ==
  ASSUME IInv, NEW c \in Coros, NEW b \in Blocks, NEW arity \in 0..1, Create(c, b, arity)
  PROVE  IInv'
<1>1. StackInv' /\ Keeps({}) /\ OpenIn({}) = {}
  BY CreateStack DEF IInv, OpenIn
<1>2. QED
  BY <1>1, QuietStep DEF Create

LEMMA StepPop == ASSUME IInv, Pop PROVE IInv'
<1> DEFINE slot == Here(Top(Running) - 1)
<1>1. /\ StackInv /\ ListInv /\ HistoryInv /\ Free /\ Droppable /\ variable[slot] = NULL
      /\ UNCHANGED <<listVars, call, history>>
  BY DEF IInv, Pop
<1>2. StackInv' /\ Keeps({slot})
  BY <1>1, PopStack
<1>3. slot \in Slots
  BY <1>1, DroppableTop, HereSlot
<1> HIDE DEF slot
<1>4. ~abandoned => OpenIn({slot}) = {}
  BY <1>1, <1>3, NoneCaptured
<1>5. QED
  BY <1>1, <1>2, <1>4, QuietStep

LEMMA StepResume == ASSUME IInv, NEW c \in Coros, Resume(c) PROVE IInv'
<1> DEFINE callee == Top(Running) - 1 - Arity(c)
           gone == FromIndex(Running, callee + 1)
<1>1. /\ StackInv /\ ListInv /\ HistoryInv /\ Free
      /\ \A i \in callee..Top(Running) - 1 : variable[Here(i)] = NULL
      /\ UNCHANGED <<listVars, call, history>>
  BY DEF IInv, Resume
<1>2. StackInv' /\ Keeps(gone) /\ callee \in 0..Top(Running) - 1
  BY <1>1, ResumeStep
<1>3. Top(Running) \in 0..Size
  BY <1>1, RunningFacts
<1> HIDE DEF callee
<1>4. \A i \in callee + 1..Top(Running) - 1 : i \in 0..Size - 1 /\ i \in callee..Top(Running) - 1
  BY <1>2, <1>3
<1>5. gone \in SUBSET Slots
  BY <1>1, <1>4, HereSlot DEF FromIndex, Here
<1>6. \A s \in gone : variable[s] = NULL
  BY <1>1, <1>4 DEF FromIndex, Here
<1> HIDE DEF gone
<1>7. ~abandoned => OpenIn(gone) = {}
  BY <1>1, <1>5, <1>6, NoneCaptured
<1>8. QED
  BY <1>1, <1>2, <1>7, QuietStep

LEMMA StepSuspend == ASSUME IInv, Suspend PROVE IInv'
<1> DEFINE s == stacks[Running]  top == s.top - 1 - Arity(Running)
           gone == {Here(i) : i \in top..s.top - 1}
<1>1. StackInv /\ Free /\ GiveUp(gone) /\ UNCHANGED listVars /\ call' = call
  BY DEF IInv, Suspend
<1>2. StackInv' /\ Keeps(gone)
  BY <1>1, SuspendStep
<1>3. CallInv'
  BY <1>1 DEF CallInv, Free
<1> HIDE DEF gone
<1>4. QED
  BY <1>1, <1>2, <1>3, GiveUpStep

LEMMA StepReset == ASSUME IInv, NEW c \in Coros, Reset(c) PROVE IInv'
<1>1. StackInv /\ Free /\ GiveUp(SlotsOf(c)) /\ UNCHANGED listVars /\ call' = call
  BY DEF IInv, Reset
<1>2. StackInv' /\ Keeps(SlotsOf(c))
  BY <1>1, ResetStack
<1>3. CallInv'
  BY <1>1 DEF CallInv, Free
<1>4. QED
  BY <1>1, <1>2, <1>3, GiveUpStep

LEMMA StepCollect == ASSUME IInv, NEW c \in Coros, Collect(c) PROVE IInv'
<1>1. /\ StackInv /\ CallInv /\ HistoryInv /\ (Free \/ call.name = "create")
      /\ GiveUp(SlotsOf(c)) /\ UNCHANGED listVars /\ call' = call
  BY DEF IInv, Collect
<1>2. StackInv' /\ Keeps(SlotsOf(c))
  BY <1>1, CollectStack
<1>3. CallInv'
  BY <1>1, CollectCall
<1>4. QED
  BY <1>1, <1>2, <1>3, GiveUpStep

LEMMA StepClosure == ASSUME IInv, NEW i \in 0..Size - 1, Closure(i) PROVE IInv'
<1>1. StackInv /\ ListInv /\ CallInv /\ Own /\ HistoryInv
  BY DEF IInv
<1>2. UNCHANGED listVars /\ abandoned' = abandoned
  BY DEF Closure
<1>3. StackInv' /\ Keeps({}) /\ CallInv'
  BY <1>1, ClosureStep
<1>4. ListInv' /\ ups' = ups
  BY <1>1, <1>2, SameList
<1>5. OpenIn({}) = {}
  BY DEF OpenIn
<1>6. Own'
  BY <1>1, <1>2, <1>3, <1>4, <1>5, OwnStep
<1>7. HistoryInv'
  BY <1>1, ClosureHistory
<1>8. QED
  BY <1>3, <1>4, <1>6, <1>7 DEF IInv

LEMMA StepWalk == ASSUME IInv, Walk PROVE IInv'
<1>1. StackInv /\ ListInv /\ CallInv /\ HistoryInv
  BY DEF IInv
<1>2. /\ call.name = "find" /\ call' = [call EXCEPT !.prev = call.upvalue, !.upvalue = ups[call.upvalue].next]
      /\ stacks' = stacks /\ active' = active /\ UNCHANGED listVars /\ UNCHANGED history
  BY DEF Walk
<1>3. ListInv' /\ ups' = ups /\ abandoned' = abandoned
  BY <1>1, <1>2, SameList DEF history
<1>4. StackInv' /\ Own'
  BY <1>2, <1>3, StackStays
<1>5. CallInv'
  BY <1>1, WalkCall
<1>6. call \in FindCall
  BY <1>1, <1>2, FindName DEF Finding, FindInv
<1>7. call'.name = "find" /\ call'.local = call.local
  BY <1>2, <1>6 DEF FindCall
<1>8. Finding' /\ Closing = {}
  BY <1>2, <1>7 DEF Finding, Closing
<1>9. HistoryInv'
  BY <1>1, <1>2, <1>3, <1>7, <1>8, SameHistory
<1>10. QED
  BY <1>3, <1>4, <1>5, <1>9 DEF IInv

LEMMA StepFound == ASSUME IInv, Found PROVE IInv'
<1>1. StackInv /\ ListInv /\ CallInv /\ HistoryInv
  BY DEF IInv
<1>2. stacks' = stacks /\ active' = active /\ UNCHANGED listVars /\ abandoned' = abandoned
  BY DEF Found
<1>3. ListInv' /\ ups' = ups
  BY <1>1, <1>2, SameList
<1>4. StackInv' /\ Own'
  BY <1>2, <1>3, StackStays
<1>5. CallInv' /\ HistoryInv'
  BY <1>1, FoundCall, FoundHistory
<1>6. QED
  BY <1>3, <1>4, <1>5 DEF IInv

LEMMA StepLink == ASSUME IInv, Link PROVE IInv'
<1>1. StackInv /\ ListInv /\ CallInv /\ HistoryInv /\ Own
  BY DEF IInv
<1>2. /\ stacks' = stacks /\ active' = active /\ abandoned' = abandoned /\ call' = Idle
      /\ call.name = "create"
  BY DEF Link
<1>3. StackInv' /\ CallInv' /\ ListInv' /\ HistoryInv'
  BY <1>1, <1>2, StackStays, LinkList, LinkHistory DEF CallInv
<1>4. FindInv
  BY <1>1, <1>2, FindName DEF Finding
<1>5. Own'
  <2> DEFINE n == Len(ups) + 1
  <2>1. /\ Open' = Open \cup {n} /\ ups'[n].location = call.local /\ ups'[n].owner = Running
        /\ \A v \in DOMAIN ups : ups'[v].location = ups[v].location /\ ups'[v].owner = ups[v].owner
    BY <1>1, <1>4, Created
  <2> HIDE DEF n
  <2>2. Held(stacks, Running, call.local)
    BY <1>1, <1>4, RunningFacts DEF FindInv, Held, Here, Top, Existing
  <2>3. ASSUME ~abandoned, NEW u \in Open' PROVE Held(stacks, ups'[u].owner, ups'[u].location)
    <3>1. CASE u = n
      BY <2>1, <2>2, <3>1
    <3>2. CASE u \in Open
      BY <1>1, <2>1, <2>3, <3>2, OpenFacts DEF Own
    <3>3. QED
      BY <2>1, <3>1, <3>2
  <2>4. QED
    BY <1>2, <2>3 DEF Own
<1>6. QED
  BY <1>3, <1>5 DEF IInv

LEMMA StepCloseHead == ASSUME IInv, CloseHead PROVE IInv'
<1>1. StackInv /\ ListInv /\ CallInv /\ HistoryInv /\ Own
  BY DEF IInv
<1>2. stacks' = stacks /\ active' = active /\ abandoned' = abandoned
  BY DEF CloseHead
<1>3. StackInv' /\ CallInv' /\ ListInv' /\ HistoryInv'
  BY <1>1, <1>2, StackStays, CloseHeadCall, CloseHeadList, CloseHeadHistory
<1>4. \A u \in Open' : /\ u \in Open /\ ups'[u].location = ups[u].location
                       /\ ups'[u].owner = ups[u].owner
  BY <1>1, HeadClosed, OpenFacts
<1>5. Own'
  BY <1>1, <1>2, <1>4 DEF Own
<1>6. QED
  BY <1>3, <1>5 DEF IInv

LEMMA StepCloseStart == ASSUME IInv, CloseUpvalue \/ Return PROVE IInv'
<1>1. StackInv /\ ListInv /\ CallInv /\ HistoryInv
  BY DEF IInv
<1>2. stacks' = stacks /\ active' = active /\ UNCHANGED listVars /\ UNCHANGED history /\ call = Idle
  BY DEF CloseUpvalue, Return, Free
<1>3. ListInv' /\ ups' = ups /\ abandoned' = abandoned
  BY <1>1, <1>2, SameList DEF history
<1>4. StackInv' /\ Own'
  BY <1>2, <1>3, StackStays
<1>5. CallInv'
  BY <1>1, CloseStart
<1>6. ~Finding /\ Closing = {}
  BY <1>2 DEF Finding, Closing, Idle
<1>7. HistoryInv'
  BY <1>1, <1>2, <1>3, <1>6, SameHistory
<1>8. QED
  BY <1>3, <1>4, <1>5, <1>7 DEF IInv

LEMMA StepEnd == ASSUME IInv, Dropped \/ Returned PROVE IInv'
<1>1. StackInv /\ ListInv /\ CallInv /\ HistoryInv /\ Own
  BY DEF IInv
<1>2. UNCHANGED listVars /\ abandoned' = abandoned /\ call' = Idle
  BY DEF Dropped, Returned
<1>3. ListInv' /\ ups' = ups /\ CallInv' /\ HistoryInv'
  BY <1>1, <1>2, SameList, EndHistory DEF CallInv
<1>4. StackInv' /\ Keeps(ClosedFrom(call.last))
  BY <1>1, DroppedStep, ReturnedStep
<1>5. Own'
  BY <1>1, <1>2, <1>3, <1>4, NoneLeft, OwnStep
<1>6. QED
  BY <1>3, <1>4, <1>5 DEF IInv

LEMMA Step == ASSUME IInv, [Next]_vars PROVE IInv'
<1>1. CASE Push
  BY <1>1, StepPush
<1>2. CASE Pop
  BY <1>2, StepPop
<1>3. CASE Call
  BY <1>3, StepCall
<1>4. CASE Suspend
  BY <1>4, StepSuspend
<1>5. CASE CloseUpvalue \/ Return
  BY <1>5, StepCloseStart
<1>6. CASE \E i \in 0..Size - 1 : Closure(i)
  BY <1>6, StepClosure
<1>7. CASE \E c \in Coros : Resume(c) \/ Reset(c) \/ Collect(c)
  BY <1>7, StepResume, StepReset, StepCollect
<1>8. CASE \E c \in Coros, b \in Blocks, arity \in 0..1 : Create(c, b, arity)
  BY <1>8, StepCreate
<1>9. CASE ListStep
  BY <1>9, StepWalk, StepFound, StepLink, StepCloseHead, StepEnd DEF ListStep
<1>10. CASE UNCHANGED vars
  <2>1. /\ stacks' = stacks /\ active' = active /\ UNCHANGED listVars /\ UNCHANGED history
        /\ ups' = ups /\ head' = head /\ call' = call /\ bound' = bound /\ variable' = variable
        /\ early' = early /\ abandoned' = abandoned
    BY <1>10 DEF vars, listVars, history
  <2>2. StackInv' /\ Own' /\ Running' = Running
    BY <2>1, StackStays
  <2>3. ListInv'
    BY <2>1, SameList DEF IInv
  <2>4. CallInv'
    <3>1. CASE call = Idle
      BY <2>1, <3>1 DEF CallInv
    <3>2. CASE FindInv
      BY <2>1, <2>2, <3>2, SameFind DEF FindInv
    <3>3. CASE CloseInv
      BY <2>1, <2>2, <3>3 DEF CallInv, CloseInv, Droppable, Floor, Top, Here, Resumable, Resumer
    <3>4. QED
      BY <3>1, <3>2, <3>3 DEF IInv, CallInv
  <2>5. Finding' = Finding /\ Closing' = Closing
    BY <2>1, <2>2 DEF Finding, Closing, ClosedFrom, SlotsOf
  <2>6. HistoryInv'
    BY <2>1, <2>5, SameHistory DEF IInv
  <2>7. QED
    BY <2>2, <2>3, <2>4, <2>6 DEF IInv
<1>11. QED
  BY <1>1, <1>2, <1>3, <1>4, <1>5, <1>6, <1>7, <1>8, <1>9, <1>10 DEF Next

LEMMA Initial == Init => IInv
<1> SUFFICES ASSUME Init PROVE IInv
  OBVIOUS
<1>1. PICK b \in Blocks : stacks = [c \in {Main} |-> Stack(b, 1, <<0>>, 0)]
  BY DEF Init
<1>2. /\ active = <<Main>> /\ ups = <<>> /\ head = NULL /\ call = Idle /\ bound = {}
      /\ variable = [s \in Slots |-> NULL] /\ early = {} /\ abandoned = FALSE
  BY DEF Init
<1> DEFINE s == Stack(b, 1, <<0>>, 0)
<1>3. <<0>> \in Seq(0..Size) /\ <<0>> # <<>> /\ <<0>>[1] = 0 /\ 1 \in 0..Size
  OBVIOUS
<1>4. s \in StackRecord /\ s.frames = <<0>> /\ s.top = 1
  BY <1>3 DEF Stack, StackRecord
<1>5. Existing = {Main} /\ stacks \in [Existing -> StackRecord] /\ stacks[Main] = s
  BY <1>1, <1>4 DEF Existing
<1> HIDE DEF s
<1>6. active \in Seq(Existing) /\ active # <<>> /\ Len(active) = 1 /\ active[1] = Main
  BY <1>2, <1>5
<1>7. StackInv
  BY <1>3, <1>4, <1>5, <1>6 DEF StackInv, Running, Last
<1>8. Open = {} /\ DOMAIN ups = {} /\ ups \in Seq(UpvalueRecord)
  BY <1>2 DEF Open
<1>9. ListInv /\ CallInv /\ Own
  BY <1>2, <1>8 DEF ListInv, CallInv, Own
<1>10. HistoryTypes
  BY <1>2, FS_EmptySet DEF HistoryTypes, NULL
<1>11. Cardinality(bound) = 0
  BY <1>2, FS_EmptySet
<1>12. Numbered /\ Bound /\ ShareVariable
  BY <1>2, <1>8, <1>11 DEF Numbered, Bound, ShareVariable, NULL
<1>13. QED
  BY <1>7, <1>9, <1>10, <1>12 DEF IInv, HistoryInv

LEMMA Invariance == Spec => []IInv
<1>1. IInv /\ [Next]_vars => IInv'
  BY Step
<1>2. QED
  BY Initial, <1>1, PTL DEF Spec

-----------------------------------------------------------------------------
(* Results                                                                   *)

LEMMA SortedList == ListInv => ListSorted
<1> SUFFICES ASSUME ListInv PROVE ListSorted
  OBVIOUS
<1>1. \A u \in Open : u \in DOMAIN ups /\ u # NULL /\ ups[u].location \in Nat
  BY OpenFacts
<1>2. \A u \in Open : HighestBelow(ups[u].next, ups[u].location)
  BY DEF ListInv
<1>3. List \subseteq Open
  <2>1. \A u \in Open : ups[u].next # NULL => ups[u].next \in Open
    BY <1>2 DEF HighestBelow
  <2>2. head # NULL => head \in Open
    BY DEF ListInv
  <2>3. Linking(Open) /\ Open \in SUBSET DOMAIN ups
    BY <1>1, <2>1, <2>2 DEF Linking
  <2>4. QED
    BY <2>3 DEF List
\* Of the upvalues the links lead to, none is the last above one they miss.
<1>4. ASSUME NEW u \in Open, NEW us \in SUBSET DOMAIN ups, Linking(us), u \notin us PROVE FALSE
  <2> DEFINE Above == {v \in Open \cap us : ups[v].location >= ups[u].location}
             S == {ups[v].location : v \in Above}
  <2>1. head \in Above
    <3>1. head \in Open /\ ups[u].location <= ups[head].location
      BY <1>4 DEF ListInv
    <3>2. head \in us
      BY <1>1, <1>4, <3>1 DEF Linking
    <3>3. QED
      BY <1>1, <3>1, <3>2
  <2>2. S \in SUBSET Nat /\ S # {}
    BY <1>1, <2>1
  <2>3. PICK m \in S : \A k \in S : m <= k
    <3> HIDE DEF S
    <3>1. QED
      BY <2>2, LeastNatural
  <2>4. PICK p \in Above : m = ups[p].location
    BY <2>3
  <2>5. \A v \in Above : ups[p].location <= ups[v].location
    BY <2>3, <2>4
  <2>6. /\ p \in Open /\ p \in us /\ ups[p].location >= ups[u].location /\ p # u
        /\ ups[p].location \in Nat /\ ups[u].location \in Nat
    BY <1>1, <1>4, <2>4
  <2>7. ups[u].location < ups[p].location
    <3>1. ups[u].location # ups[p].location
      BY <2>6 DEF ListInv
    <3>2. QED
      BY <2>6, <3>1
  <2> DEFINE w == ups[p].next
  <2>8. HighestBelow(w, ups[p].location)
    BY <1>2, <2>6
  <2> HIDE DEF w
  <2>9. /\ w \in Open /\ ups[w].location < ups[p].location /\ ups[u].location <= ups[w].location
    BY <2>6, <2>7, <2>8 DEF HighestBelow
  <2>10. w \in us
    BY <1>1, <1>4, <2>6, <2>9 DEF Linking, w
  <2>11. w \in Above
    BY <1>1, <2>6, <2>9, <2>10
  <2>12. QED
    BY <1>1, <2>5, <2>6, <2>9, <2>11
<1>5. Open \subseteq List
  BY <1>1, <1>4 DEF List
<1>6. ASSUME NEW u \in Open, ups[u].next # NULL
      PROVE  ups[u].location > ups[ups[u].next].location
  BY <1>1, <1>2, <1>6 DEF HighestBelow
<1>7. QED
  BY <1>3, <1>5, <1>6 DEF ListSorted, Open

\* The list of open upvalues, which upvalue_capture and close_upvalues walk, holds the
\* open ones and no others, by falling address, whatever the coroutines do.
THEOREM ListAlwaysSorted == Spec => []ListSorted
<1>1. IInv => ListSorted
  BY SortedList DEF IInv
<1>2. QED
  BY Invariance, <1>1, PTL

\* An open upvalue refers to a slot that is on the stack of the coroutine that captured
\* it, unless captured slots were given up by a suspension, a reset or a collection.
THEOREM OpenStaysInOwnStack == Spec => []OpenInOwnStack
<1>1. IInv => OpenInOwnStack
  BY DEF IInv, Own, Held, Open, OpenInOwnStack, Existing, Top
<1>2. QED
  BY Invariance, <1>1, PTL

\* Closures share an upvalue if and only if they captured the same variable, also after
\* it has gone out of scope, with the exceptions the property names.
THEOREM ClosuresAlwaysShare == Spec => []ShareVariable
<1>1. IInv => ShareVariable
  BY DEF IInv, HistoryInv, ShareVariable
<1>2. QED
  BY Invariance, <1>1, PTL

-----------------------------------------------------------------------------
(* The list implements a partial function from slots to upvalues.            *)

\* The upvalues in us by their slots, according to up
SlotsIn(up, us) == {up[u].location : u \in us}
MapOf(up, us)   == [s \in SlotsIn(up, us) |-> CHOOSE u \in us : up[u].location = s]

\* No two of them have one slot.
Apart(up, us) == \A u, v \in us : up[u].location = up[v].location => u = v

LEMMA MapValues ==
  ASSUME NEW up, NEW us, Apart(up, us)
  PROVE  /\ DOMAIN MapOf(up, us) = SlotsIn(up, us)
         /\ \A u \in us : up[u].location \in SlotsIn(up, us) /\ MapOf(up, us)[up[u].location] = u
<1>1. DOMAIN MapOf(up, us) = SlotsIn(up, us)
  BY DEF MapOf
<1>2. ASSUME NEW u \in us
      PROVE  up[u].location \in SlotsIn(up, us) /\ MapOf(up, us)[up[u].location] = u
  <2>1. up[u].location \in SlotsIn(up, us)
    BY DEF SlotsIn
  <2> DEFINE v == CHOOSE v \in us : up[v].location = up[u].location
  <2>2. v \in us /\ up[v].location = up[u].location
    OBVIOUS
  <2> HIDE DEF v
  <2>3. v = u
    BY <2>2 DEF Apart
  <2>4. QED
    BY <2>1, <2>3 DEF MapOf, v
<1>3. QED
  BY <1>1, <1>2

LEMMA MapEqual ==
  ASSUME NEW up, NEW us, Apart(up, us), NEW f, f = [s \in DOMAIN f |-> f[s]],
         DOMAIN f = SlotsIn(up, us), \A u \in us : f[up[u].location] = u
  PROVE  MapOf(up, us) = f
<1>1. DOMAIN MapOf(up, us) = DOMAIN f
  BY MapValues
<1>2. ASSUME NEW s \in DOMAIN f PROVE MapOf(up, us)[s] = f[s]
  <2>1. PICK u \in us : s = up[u].location
    BY DEF SlotsIn
  <2>2. QED
    BY <2>1, MapValues
<1>3. MapOf(up, us) = [s \in DOMAIN f |-> MapOf(up, us)[s]]
  BY <1>1 DEF MapOf
<1>4. QED
  BY <1>2, <1>3

LEMMA MapSame ==
  ASSUME NEW up, NEW vp, NEW us, Apart(up, us), \A u \in us : vp[u].location = up[u].location
  PROVE  MapOf(vp, us) = MapOf(up, us)
<1>1. SlotsIn(vp, us) = SlotsIn(up, us)
  BY DEF SlotsIn
<1>2. \A s \in SlotsIn(up, us) :
        (CHOOSE u \in us : vp[u].location = s) = (CHOOSE u \in us : up[u].location = s)
  <2> TAKE s \in SlotsIn(up, us)
  <2>1. PICK v \in us : up[v].location = s
    BY DEF SlotsIn
  <2>2. \A u \in us : up[u].location = s <=> u = v
    BY <2>1 DEF Apart
  <2>3. \A u \in us : vp[u].location = s <=> u = v
    BY <2>2
  <2>4. (CHOOSE u \in us : up[u].location = s) = v
    BY <2>1, <2>2
  <2>5. (CHOOSE u \in us : vp[u].location = s) = v
    BY <2>1, <2>3
  <2>6. QED
    BY <2>4, <2>5
<1>3. QED
  BY <1>1, <1>2 DEF MapOf

LEMMA MapClosed ==
  ASSUME NEW up, NEW us, Apart(up, us), NEW last
  PROVE  MapOf(up, {u \in us : up[u].location < last})
           = [s \in {t \in DOMAIN MapOf(up, us) : t < last} |-> MapOf(up, us)[s]]
<1> DEFINE vs == {u \in us : up[u].location < last}
           f == [s \in {t \in DOMAIN MapOf(up, us) : t < last} |-> MapOf(up, us)[s]]
<1>1. Apart(up, vs)
  BY DEF Apart
<1>2. DOMAIN f = SlotsIn(up, vs)
  <2>1. DOMAIN MapOf(up, us) = SlotsIn(up, us)
    BY MapValues
  <2>2. DOMAIN f = {t \in SlotsIn(up, us) : t < last}
    BY <2>1
  <2> HIDE DEF f
  <2>3. QED
    BY <2>2 DEF SlotsIn
<1>3. ASSUME NEW u \in vs PROVE f[up[u].location] = u
  <2>1. u \in us /\ up[u].location \in {t \in DOMAIN MapOf(up, us) : t < last}
    BY MapValues
  <2>2. QED
    BY <2>1, MapValues
<1>4. f = [s \in DOMAIN f |-> f[s]]
  OBVIOUS
<1> HIDE DEF f, vs
<1>5. MapOf(up, vs) = f
  BY <1>1, <1>2, <1>3, <1>4, MapEqual
<1>6. QED
  BY <1>5 DEF f, vs

LEMMA MapLonger ==
  ASSUME NEW up, NEW vp, NEW us, NEW n, NEW slot, Apart(up, us), n \notin us,
         slot \notin SlotsIn(up, us), vp[n].location = slot,
         \A u \in us : vp[u].location = up[u].location
  PROVE  MapOf(vp, us \cup {n})
           = [s \in DOMAIN MapOf(up, us) \cup {slot} |-> IF s = slot THEN n ELSE MapOf(up, us)[s]]
<1> DEFINE vs == us \cup {n}
           f == [s \in DOMAIN MapOf(up, us) \cup {slot} |->
                   IF s = slot THEN n ELSE MapOf(up, us)[s]]
<1>1. \A u \in us : up[u].location # slot
  BY DEF SlotsIn
<1>2. Apart(vp, vs)
  BY <1>1 DEF Apart
<1>3. SlotsIn(vp, vs) = SlotsIn(up, us) \cup {slot}
  BY DEF SlotsIn
<1>4. DOMAIN f = SlotsIn(vp, vs)
  BY <1>3, MapValues
<1>5. ASSUME NEW u \in vs PROVE f[vp[u].location] = u
  <2>1. CASE u = n
    BY <2>1
  <2>2. CASE u \in us
    <3>1. /\ vp[u].location = up[u].location /\ up[u].location # slot
          /\ up[u].location \in DOMAIN MapOf(up, us) /\ MapOf(up, us)[up[u].location] = u
      BY <1>1, <2>2, MapValues
    <3>2. QED
      BY <3>1
  <2>3. QED
    BY <2>1, <2>2
<1>6. f = [s \in DOMAIN f |-> f[s]]
  OBVIOUS
<1> HIDE DEF f, vs
<1>7. MapOf(vp, vs) = f
  BY <1>2, <1>4, <1>5, <1>6, MapEqual
<1>8. QED
  BY <1>7 DEF f, vs

\* The upvalues OpenNow shows
Shown == {u \in DOMAIN ups : IsOpen(u) /\ (call.name = "close" => ups[u].location < call.last)}

LEMMA ShownFacts ==
  ASSUME ListInv
  PROVE  /\ OpenNow = MapOf(ups, Shown) /\ Apart(ups, Shown) /\ Shown \subseteq Open
         /\ call.name # "close" => Shown = Open
         /\ call.name = "close" => Shown = {u \in Open : ups[u].location < call.last}
         /\ Apart(ups, Open)
<1>1. OpenNow = MapOf(ups, Shown)
  BY DEF OpenNow, MapOf, SlotsIn, Shown
<1>2. Apart(ups, Open)
  BY DEF Apart, ListInv
<1>3. /\ Shown \subseteq Open
      /\ call.name # "close" => Shown = Open
      /\ call.name = "close" => Shown = {u \in Open : ups[u].location < call.last}
  BY DEF Shown, Open
<1>4. Apart(ups, Shown)
  BY <1>2, <1>3 DEF Apart
<1>5. QED
  BY <1>1, <1>2, <1>3, <1>4

LEMMA InitialMap == Init => Abstract!Init
<1> SUFFICES ASSUME Init PROVE Abstract!Init
  OBVIOUS
<1>1. ups = <<>> /\ DOMAIN ups = {}
  BY DEF Init
<1>2. ListInv
  BY Initial DEF IInv
<1>3. Shown = {}
  BY <1>1 DEF Shown
<1>4. OpenNow = [s \in {} |-> OpenNow[s]]
  <2>1. OpenNow = MapOf(ups, {})
    BY <1>2, <1>3, ShownFacts
  <2>2. SlotsIn(ups, {}) = {}
    BY DEF SlotsIn
  <2>3. QED
    BY <2>1, <2>2 DEF MapOf
<1>5. OpenNow = << >>
  BY <1>4
<1>6. QED
  BY <1>1, <1>5 DEF Abstract!Init

\* Of all steps, only the linking of a new upvalue and the start of close_upvalues
\* change what the list stands for.
LEMMA MapStutters ==
  ASSUME ListInv, Shown' = Shown, DOMAIN ups' = DOMAIN ups,
         \A u \in Shown : ups'[u].location = ups[u].location, ListInv'
  PROVE  UNCHANGED <<OpenNow, DOMAIN ups>>
<1>1. MapOf(ups', Shown) = MapOf(ups, Shown)
  BY ShownFacts, MapSame
<1>2. OpenNow = MapOf(ups, Shown)
  BY ShownFacts
<1>3. OpenNow' = MapOf(ups', Shown')
  BY DEF OpenNow, MapOf, SlotsIn, Shown
<1>4. QED
  BY <1>1, <1>2, <1>3

LEMMA MapLink ==
  ASSUME IInv, IInv', Link
  PROVE  \E slot \in Slots : \E u \in 1..MaxUpvalues : Abstract!Capture(slot, u)
<1> DEFINE n == Len(ups) + 1  l == call.local
<1>1. StackInv /\ ListInv /\ CallInv /\ ListInv'
  BY DEF IInv
<1>2. call.name = "create" /\ call' = Idle
  BY DEF Link
<1>3. FindInv /\ l \in Slots /\ n \in 1..MaxUpvalues
  <2>1. FindInv
    BY <1>1, <1>2, FindName DEF Finding
  <2>2. Len(ups) \in Nat
    BY <1>1, OpenFacts
  <2>3. QED
    BY <2>1, <2>2 DEF FindInv, FindCall
<1>4. /\ DOMAIN ups' = DOMAIN ups \cup {n} /\ n \notin DOMAIN ups
      /\ ups'[n].location = l /\ Open' = Open \cup {n}
      /\ \A v \in DOMAIN ups : ups'[v].location = ups[v].location
  BY <1>1, <1>3, Created
<1> HIDE DEF n, l
<1>5. Shown = Open /\ Shown' = Open'
  <2>1. (call.name # "close")'
    BY <1>2 DEF Idle
  <2>2. QED
    BY <1>1, <1>2, <2>1, ShownFacts DEF Shown, Open
<1>6. l \notin SlotsIn(ups, Open)
  BY <1>1, <1>2, <1>3, Place DEF SlotsIn, l
<1>7. Apart(ups, Open) /\ OpenNow = MapOf(ups, Open)
  BY <1>1, <1>5, ShownFacts
<1>8. n \notin Open /\ \A v \in Open : ups'[v].location = ups[v].location
  BY <1>1, <1>4, OpenFacts
<1>9. OpenNow' = MapOf(ups', Open \cup {n})
  <2>1. OpenNow' = MapOf(ups', Shown')
    BY DEF OpenNow, MapOf, SlotsIn, Shown
  <2>2. QED
    BY <1>4, <1>5, <2>1
<1>10. MapOf(ups', Open \cup {n})
         = [s \in DOMAIN MapOf(ups, Open) \cup {l} |-> IF s = l THEN n ELSE MapOf(ups, Open)[s]]
  BY <1>4, <1>6, <1>7, <1>8, MapLonger
<1>11. l \notin DOMAIN OpenNow
  BY <1>6, <1>7, MapValues
<1>12. Abstract!Capture(l, n)
  BY <1>4, <1>7, <1>9, <1>10, <1>11 DEF Abstract!Capture
<1>13. QED
  BY <1>3, <1>12

LEMMA MapClose ==
  ASSUME IInv, IInv', CloseUpvalue \/ Return
  PROVE  \E slot \in Slots : Abstract!CloseFrom(slot)
<1>1. ListInv /\ ListInv' /\ CallInv'
  BY DEF IInv
<1>2. call = Idle /\ ups' = ups /\ call'.name = "close"
  BY DEF CloseUpvalue, Return, StartClose, Free, listVars
<1>3. call'.last \in Slots
  BY <1>1, <1>2 DEF CallInv, FindInv, FindCall, CloseInv, CloseCall, Idle
<1> DEFINE last == call'.last
<1>4. Shown = Open
  BY <1>1, <1>2, ShownFacts DEF Idle
<1>5. Shown' = {u \in Open : ups[u].location < last}
  BY <1>2 DEF Shown, Open, IsOpen
<1> HIDE DEF last
<1>6. Apart(ups, Open) /\ OpenNow = MapOf(ups, Open)
  BY <1>1, <1>4, ShownFacts
<1>7. OpenNow' = MapOf(ups, {u \in Open : ups[u].location < last})
  <2>1. OpenNow' = MapOf(ups', Shown')
    BY DEF OpenNow, MapOf, SlotsIn, Shown
  <2>2. QED
    BY <1>2, <1>5, <2>1
<1>8. MapOf(ups, {u \in Open : ups[u].location < last})
        = [s \in {t \in DOMAIN MapOf(ups, Open) : t < last} |-> MapOf(ups, Open)[s]]
  BY <1>6, MapClosed
<1>9. Abstract!CloseFrom(last)
  BY <1>2, <1>6, <1>7, <1>8 DEF Abstract!CloseFrom
<1>10. QED
  BY <1>3, <1>9 DEF last

LEMMA MapStep ==
  ASSUME IInv, IInv', [Next]_vars
  PROVE  Abstract!Next \/ UNCHANGED <<OpenNow, DOMAIN ups>>
<1>1. StackInv /\ ListInv /\ CallInv /\ ListInv' /\ CallInv'
  BY DEF IInv
<1>2. CASE Link
  BY <1>2, MapLink DEF Abstract!Next
<1>3. CASE CloseUpvalue \/ Return
  BY <1>3, MapClose DEF Abstract!Next
<1>4. CASE CloseHead
  <2>1. /\ DOMAIN ups' = DOMAIN ups /\ head \in Open /\ Open' = Open \ {head}
        /\ \A v \in DOMAIN ups : v # head => ups'[v].location = ups[v].location
    BY <1>1, <1>4, HeadClosed
  <2>2. call' = call /\ call.name = "close" /\ ups[head].location >= call.last
    BY <1>4 DEF CloseHead, Closes
  <2>3. call.last \in Nat /\ ups[head].location \in Nat
    BY <1>1, <2>1, <2>2, FindName, OpenFacts, AddressType DEF CloseInv, CloseCall
  <2>4. Shown = {u \in Open : ups[u].location < call.last}
    BY <1>1, <2>2, ShownFacts
  <2>5. Shown' = {u \in Open' : ups'[u].location < call.last}
    BY <2>2 DEF Shown, Open
  <2>6. head \notin Shown
    BY <2>2, <2>3, <2>4
  <2>7. \A u \in Open' : u \in Open /\ u # head /\ ups'[u].location = ups[u].location
    BY <1>1, <2>1, OpenFacts
  <2>8. Shown' = Shown
    BY <2>1, <2>4, <2>5, <2>6, <2>7
  <2>9. \A u \in Shown : ups'[u].location = ups[u].location
    BY <2>1, <2>4, <2>6, <2>7
  <2>10. QED
    BY <1>1, <2>1, <2>8, <2>9, MapStutters
<1>5. CASE Dropped \/ Returned
  <2>1. /\ ups' = ups /\ call' = Idle /\ call.name = "close" /\ ~Closes(head, call.last)
    BY <1>5 DEF Dropped, Returned, listVars
  <2>2. call.last \in Nat
    BY <1>1, <2>1, FindName, AddressType DEF CloseInv, CloseCall
  <2>3. \A u \in Open : ups[u].location < call.last
    BY <1>1, <2>1, <2>2, NoneOpen
  <2>4. Shown = Open
    BY <1>1, <2>1, <2>3, ShownFacts
  <2>5. Shown' = Open
    BY <2>1 DEF Shown, Open, IsOpen, Idle
  <2>6. QED
    BY <1>1, <2>1, <2>4, <2>5, MapStutters
<1>6. CASE /\ ups' = ups
           /\ call' = call \/ (call.name # "close" /\ call'.name # "close")
  <2>1. Shown' = Shown
    BY <1>6 DEF Shown, IsOpen
  <2>2. QED
    BY <1>1, <1>6, <2>1, MapStutters
<1>7. ASSUME Next
      PROVE  \/ Link \/ CloseUpvalue \/ Return \/ CloseHead \/ Dropped \/ Returned
             \/ /\ ups' = ups
                /\ call' = call \/ (call.name # "close" /\ call'.name # "close")
  <2>1. ASSUME Push \/ Pop \/ Call \/ Suspend \/ (\E c \in Coros : Resume(c) \/ Reset(c) \/ Collect(c))
               \/ (\E c \in Coros, b \in Blocks, arity \in 0..1 : Create(c, b, arity))
        PROVE  ups' = ups /\ call' = call
    BY <2>1 DEF Push, Pop, Call, Suspend, Resume, Reset, Collect, Create, listVars
  <2>2. ASSUME NEW i \in 0..Size - 1, Closure(i)
        PROVE  ups' = ups /\ call.name # "close" /\ call'.name # "close"
    BY <2>2 DEF Closure, Free, Idle, listVars
  <2>3. ASSUME Walk \/ Found
        PROVE  ups' = ups /\ call.name # "close" /\ call'.name # "close"
    <3>1. ups' = ups /\ call.name = "find"
      BY <2>3 DEF Walk, Found, listVars
    <3>2. FindInv
      BY <1>1, <3>1, FindName DEF Finding
    <3>3. call \in FindCall
      BY <3>2 DEF FindInv
    <3>4. call'.name # "close"
      <4>1. CASE Walk
        BY <3>1, <3>3, <4>1 DEF Walk, FindCall
      <4>2. CASE Found
        BY <1>1, <4>2, FoundCall DEF Idle
      <4>3. QED
        BY <2>3, <4>1, <4>2
    <3>5. QED
      BY <3>1, <3>4
  <2>4. QED
    BY <1>7, <2>1, <2>2, <2>3 DEF Next, ListStep
<1>8. CASE UNCHANGED vars
  BY <1>6, <1>8 DEF vars, listVars
<1>9. QED
  BY <1>2, <1>3, <1>4, <1>5, <1>6, <1>7, <1>8

\* The linked list is a partial function from slots to upvalues: upvalue_capture adds
\* to it what was not there, close_upvalues takes out the slots from one on.
THEOREM Refinement == Spec => ImplementsOpenMap
<1>1. IInv /\ IInv' /\ [Next]_vars => [Abstract!Next]_<<OpenNow, DOMAIN ups>>
  BY MapStep
<1>2. QED
  BY InitialMap, Invariance, <1>1, PTL DEF Spec, ImplementsOpenMap, Abstract!Spec
=============================================================================
