---------------------------------- MODULE Heap ----------------------------------
(***************************************************************************)
(* The garbage collector of memory.c: mark from the roots, then sweep the  *)
(* list of all objects.  A mark is relative: an object is marked when its  *)
(* mark bit equals vm.mark_value, which changes at the end of every        *)
(* collection instead of the bits of the objects that survived.  A new     *)
(* object is created with the bit of the current value, that is marked.    *)
(*                                                                         *)
(* The program changes references between objects at will, and a           *)
(* collection may start whenever it allocates: also while coroutine_new    *)
(* allocates the stack and the frames of a coroutine that only a C         *)
(* variable refers to yet.  reallocate may also start one when memory is   *)
(* freed, unless DEBUG_STRESS_GC is defined; this module leaves that out.  *)
(***************************************************************************)
EXTENDS Integers, FiniteSets, Sequences, SequencesExt

CONSTANTS
  Main,      \* vm.main
  Coros,     \* other coroutines
  Strings,   \* strings: they refer to nothing and own their characters
  Others,    \* closures, lists, dictionaries, upvalues
  NULL,
  MaxRefs    \* bound: references out of one object, and values of globals

Objects == {Main} \cup Coros \cup Strings \cup Others

ASSUME HeapAssumption ==
  /\ IsFiniteSet(Objects) /\ NULL \notin Objects
  /\ Main \notin Coros \cup Strings \cup Others
  /\ Coros \cap (Strings \cup Others) = {} /\ Strings \cap Others = {}
  /\ MaxRefs \in Nat

VARIABLES
  heap,      \* the objects that have not been freed
  refs,      \* what an object refers to: the stack and closures of a coroutine, ...
  parent,    \* the parent of a coroutine
  active,    \* the running coroutine, last, after those that resumed it
  globals,   \* the other roots: globals, open upvalues, functions being compiled, REPL lines
  held,      \* the coroutine that coroutine_new is constructing
  allocations, \* ... and how many of its allocations may still start a collection
  objects,   \* vm.objects
  nextOf,    \* the next pointers in the headers
  mark,      \* the mark bits in the headers
  owned,     \* the owned bits in the headers
  buffers,   \* the strings whose characters have not been freed
  markValue, \* vm.mark_value
  phase,     \* "idle", or the part of collect_garbage being executed
  gray,      \* vm.gray_stack
  prev, obj, \* the variables of sweep
  newborn,   \* history: the objects created since the last collection
  black      \* history: the objects blackened by this collection

program == <<refs, parent, active, globals, held>>
headers == <<objects, nextOf, mark, owned>>
collector == <<markValue, phase, gray, prev, obj, black>>
vars == <<heap, program, allocations, headers, buffers, collector, newborn>>

Running == Last(active)

TypeOK ==
  /\ heap \in SUBSET Objects
  /\ refs \in [Objects -> SUBSET Objects]
  /\ parent \in [Objects -> Objects \cup {NULL}]
  /\ active \in Seq({Main} \cup Coros) /\ active # <<>>
  /\ globals \in SUBSET Objects
  /\ held \in Coros \cup {NULL} /\ allocations \in 0..2
  /\ objects \in Objects \cup {NULL}
  /\ nextOf \in [Objects -> Objects \cup {NULL}]
  /\ mark \in [Objects -> BOOLEAN]
  /\ owned \in SUBSET Objects /\ buffers \in SUBSET Strings
  /\ markValue \in BOOLEAN
  /\ phase \in {"idle", "mark", "sweep"}
  /\ gray \in SUBSET Objects
  /\ prev \in Objects \cup {NULL} /\ obj \in Objects \cup {NULL}
  /\ newborn \in SUBSET Objects /\ black \in SUBSET Objects

-----------------------------------------------------------------------------
\* vm_init: the main coroutine is the first object.
Init ==
  /\ heap = {Main} /\ newborn = {Main}
  /\ refs = [o \in Objects |-> {}]
  /\ parent = [o \in Objects |-> NULL]
  /\ active = <<Main>> /\ globals = {}
  /\ held = NULL /\ allocations = 0
  /\ objects = Main
  /\ nextOf = [o \in Objects |-> NULL]
  /\ markValue = TRUE
  /\ mark = [o \in Objects |-> o = Main]
  /\ owned = {Main} /\ buffers = {}
  /\ phase = "idle" /\ gray = {} /\ prev = NULL /\ obj = NULL /\ black = {}

\* What blacken_object visits.
Children(o) == refs[o] \cup (IF parent[o] = NULL THEN {} ELSE {parent[o]})

\* mark_roots: the running coroutine, not main, and the other roots.
Roots == {Running} \cup globals

(* What the program can get at: the least set that has the roots and the     *)
(* children of its members.                                                  *)
Reachable ==
  {o \in Objects : \A S \in SUBSET Objects :
     Roots \subseteq S /\ (\A p \in S : Children(p) \subseteq S) => o \in S}

-----------------------------------------------------------------------------
(* The program.  It stops as soon as something it can get at has been freed. *)
Intact == phase = "idle" /\ Reachable \subseteq heap
Runs == Intact /\ held = NULL

BornUnmarked == ~markValue
BornMarked == markValue

\* allocate_object: the object is the first of the list; its parent is NULL.
AllocateObject(o) ==
  /\ Runs /\ o \notin heap
  /\ Cardinality(refs[Running]) < MaxRefs
  /\ heap' = heap \cup {o} /\ newborn' = newborn \cup {o}
  /\ parent' = [parent EXCEPT ![o] = NULL]
  /\ nextOf' = [nextOf EXCEPT ![o] = objects] /\ objects' = o
  /\ mark' = [mark EXCEPT ![o] = BornMarked]
  /\ owned' = owned \cup {o}
  /\ buffers' = IF o \in Strings THEN buffers \cup {o} ELSE buffers
  /\ UNCHANGED <<active, globals, collector>>

\* The caller pushes the new object or stores it in one it holds.
Allocate(o) ==
  /\ o \notin {Main} \cup Coros
  /\ AllocateObject(o)
  /\ refs' = [refs EXCEPT ![o] = {}, ![Running] = @ \cup {o}]
  /\ UNCHANGED <<held, allocations>>

\* coroutine_new, up to the first GROW_ARRAY ...
NewCoroutine(c) ==
  /\ c \in Coros
  /\ AllocateObject(c)
  /\ refs' = [refs EXCEPT ![c] = {}]
  /\ held' = c /\ allocations' = 2

\* ... and OP_COROUTINE, which pushes the coroutine when it is complete.
PushCoroutine ==
  /\ Intact /\ held \in heap
  /\ refs' = [refs EXCEPT ![Running] = @ \cup {held}]
  /\ held' = NULL /\ allocations' = 0
  /\ UNCHANGED <<heap, parent, active, globals, headers, buffers, collector, newborn>>

Store(o, p) ==
  /\ Runs /\ {o, p} \subseteq Reachable
  /\ o \notin Strings /\ p \notin refs[o] /\ Cardinality(refs[o]) < MaxRefs
  /\ refs' = [refs EXCEPT ![o] = @ \cup {p}]
  /\ UNCHANGED <<heap, parent, active, globals, held, allocations, headers, buffers, collector, newborn>>

Drop(o, p) ==
  /\ Runs /\ o \in Reachable /\ p \in refs[o]
  /\ refs' = [refs EXCEPT ![o] = @ \ {p}]
  /\ UNCHANGED <<heap, parent, active, globals, held, allocations, headers, buffers, collector, newborn>>

SetGlobal(p) ==
  /\ Runs /\ p \in Reachable \ globals /\ Cardinality(globals) < MaxRefs
  /\ globals' = globals \cup {p}
  /\ UNCHANGED <<heap, refs, parent, active, held, allocations, headers, buffers, collector, newborn>>

DropGlobal(p) ==
  /\ Runs /\ p \in globals
  /\ globals' = globals \ {p}
  /\ UNCHANGED <<heap, refs, parent, active, held, allocations, headers, buffers, collector, newborn>>

\* The two ways control moves between coroutines; a parent pointer is never cleared.
Resume(c) ==
  /\ Runs /\ c \in Reachable \cap Coros /\ c \notin Range(active)
  /\ parent' = [parent EXCEPT ![c] = Running]
  /\ active' = Append(active, c)
  /\ UNCHANGED <<heap, refs, globals, held, allocations, headers, buffers, collector, newborn>>

LeaveMainToo ==
  /\ Runs
  /\ active' = Front(active)
  /\ UNCHANGED <<heap, refs, parent, globals, held, allocations, headers, buffers, collector, newborn>>
Leave ==
  /\ Runs /\ Len(active) > 1
  /\ active' = Front(active)
  /\ UNCHANGED <<heap, refs, parent, globals, held, allocations, headers, buffers, collector, newborn>>

-----------------------------------------------------------------------------
(* mark_object on each of a set: an object that is marked is not visited     *)
(* again, nor for the first time.                                            *)
ToVisitAll(S) == S
ToVisitUnsetBits(S) == {o \in S : ~mark[o]}
ToVisit(S) == {o \in S : mark[o] # markValue}
Mark(S, rest) ==
  /\ mark' = [o \in Objects |-> IF o \in ToVisit(S) THEN markValue ELSE mark[o]]
  /\ gray' = rest \cup ToVisit(S)

\* collect_garbage, called by the program or from coroutine_new: mark_roots
StartCollection ==
  /\ Intact
  /\ \/ held = NULL /\ UNCHANGED allocations
     \/ allocations > 0 /\ allocations' = allocations - 1
  /\ phase' = "mark" /\ black' = {}
  /\ Mark(Roots, {})
  /\ UNCHANGED <<heap, program, objects, nextOf, owned, buffers, markValue, prev, obj, newborn>>

\* trace_references: the order of the gray stack makes no difference.
Blacken(o) ==
  /\ phase = "mark" /\ o \in gray
  /\ Mark(Children(o), gray \ {o})
  /\ black' = black \cup {o}
  /\ UNCHANGED <<heap, program, allocations, objects, nextOf, owned, buffers, markValue, phase, prev, obj, newborn>>

StartSweep ==
  /\ phase = "mark" /\ gray = {}
  /\ phase' = "sweep" /\ prev' = NULL /\ obj' = objects
  /\ UNCHANGED <<heap, program, allocations, headers, buffers, markValue, gray, newborn, black>>

Keep ==
  /\ phase = "sweep" /\ obj # NULL
  /\ mark[obj] = markValue
  /\ prev' = obj /\ obj' = nextOf[obj]
  /\ UNCHANGED <<heap, program, allocations, headers, buffers, markValue, phase, gray, newborn, black>>

(* The unreached object leaves the list and is freed; a string takes its     *)
(* characters along if its owned bit is set.  object_set_next rewrites the   *)
(* header of prev and keeps only the type: mark bit and owned bit are lost.  *)
(* What freed memory contains is of no interest: it is cleared in the model. *)
UnlinkedFirst(o) ==
  /\ objects' = nextOf[o]
  /\ nextOf' = [nextOf EXCEPT ![o] = NULL]
  /\ mark' = [mark EXCEPT ![o] = FALSE]
  /\ owned' = owned \ {o}
Unlinked(o) ==
  IF prev = NULL
  THEN UnlinkedFirst(o)
  ELSE /\ nextOf' = [nextOf EXCEPT ![prev] = nextOf[o], ![o] = NULL]
       /\ mark' = [mark EXCEPT ![prev] = FALSE, ![o] = FALSE]
       /\ owned' = owned \ {prev, o}
       /\ UNCHANGED objects

Free ==
  /\ phase = "sweep" /\ obj # NULL
  /\ mark[obj] # markValue
  /\ Unlinked(obj)
  /\ heap' = heap \ {obj}
  /\ refs' = [refs EXCEPT ![obj] = {}]
  /\ parent' = [parent EXCEPT ![obj] = NULL]
  /\ buffers' = IF obj \in owned THEN buffers \ {obj} ELSE buffers
  /\ obj' = nextOf[obj]
  /\ UNCHANGED <<active, globals, held, allocations, markValue, phase, gray, prev, newborn, black>>

FlippedNot == markValue
Flipped == ~markValue

\* The end of collect_garbage: what is marked now is not for the next collection.
EndCollection ==
  /\ phase = "sweep" /\ obj = NULL
  /\ markValue' = Flipped
  /\ phase' = "idle" /\ prev' = NULL
  /\ newborn' = {} /\ black' = {}
  /\ UNCHANGED <<heap, program, allocations, headers, buffers, gray, obj>>

Collector ==
  \/ \E o \in Objects : Blacken(o)
  \/ StartSweep \/ Keep \/ Free \/ EndCollection

Next ==
  \/ \E o \in Objects : Allocate(o) \/ NewCoroutine(o) \/ SetGlobal(o) \/ DropGlobal(o) \/ Resume(o)
  \/ PushCoroutine
  \/ \E o, p \in Objects : Store(o, p) \/ Drop(o, p)
  \/ Leave
  \/ StartCollection
  \/ Collector

\* The collector is called and returns: nothing else runs until it is done.
Spec == Init /\ [][Next]_vars /\ WF_vars(Collector)

-----------------------------------------------------------------------------
(* vm.objects links every object there is, and each once: sweep would free   *)
(* an object twice, or never, if unlinking from the list lost its place.     *)
ListIsHeap ==
  \E s \in [1..Cardinality(heap) -> heap] :
    /\ IF heap = {} THEN objects = NULL ELSE objects = s[1]
    /\ \A i \in DOMAIN s :
         nextOf[s[i]] = IF i = Cardinality(heap) THEN NULL ELSE s[i + 1]
    /\ \A i, j \in DOMAIN s : s[i] = s[j] => i = j

(* Being created marked protects an object until the next collection is      *)
(* over.  That is all that protects the coroutine which coroutine_new holds  *)
(* in a C variable while it allocates twice: the collection that the first   *)
(* allocation starts does not free it.  One that the second starts does,     *)
(* when the first has started one too: then nothing is said any more.        *)
NewbornKept ==
  /\ newborn \subseteq heap
  /\ held # NULL /\ allocations > 0 => held \in heap

(* What the roots or an object visited by this collection refer to is not    *)
(* freed by it.                                                              *)
VisitedChildrenKept ==
  phase = "sweep" => /\ Roots \subseteq heap
                     /\ \A o \in black : Children(o) \subseteq heap

(* A collection comes to an end on any graph of references, cyclic or not.   *)
CollectionEnds == phase = "mark" ~> phase = "idle"

(* Garbage is freed, if collections go on: being created marked, or losing   *)
(* the mark bit to object_set_next, postpones it but not for ever.           *)
Garbage(o) == o \in heap /\ o \notin Reachable /\ o # held
GarbageGoes ==
  []<>(phase = "sweep") => \A o \in Objects : Garbage(o) ~> o \notin heap

-----------------------------------------------------------------------------
(* vm.h says of vm.main that it "should always be accessible from a          *)
(* coroutine object by traversing its ancestors".                            *)
MainKept == Main \in heap

(* object.h says that an owned string's characters "should be freed when the *)
(* wrapping ObjectString is freed".                                          *)
BuffersFreed == buffers \subseteq heap
=============================================================================
