------------------------------ MODULE Upvalues ------------------------------
(***************************************************************************)
(* Captured variables at run time: the list of open upvalues, which is     *)
(* shared by the stacks of all coroutines and ordered by address.          *)
(*                                                                         *)
(* A slot of a stack is an address; a coroutine's stack is one block of    *)
(* Size slots, wherever the allocator puts it.  upvalue_capture and        *)
(* close_upvalues walk the list one step at a time; nothing else of the    *)
(* program runs meanwhile, but the allocation in upvalue_new may free a    *)
(* coroutine.  Stacks that outgrow their first block, runtime errors and   *)
(* the slots where locals really are (Execution) are left out.             *)
(***************************************************************************)
EXTENDS Integers, FiniteSets, Sequences, SequencesExt

CONSTANTS Main,        \* vm.main
          Coros,       \* other coroutines
          Blocks,      \* where the allocator may put a stack, in the order of addresses
          Size,        \* STACK_INITIAL
          MaxFrames,   \* FRAMES_MAX
          MaxUpvalues  \* bound: upvalues created

All == {Main} \cup Coros

ASSUME UpvaluesAssumption ==
  /\ Main \notin Coros /\ Blocks \subseteq Nat \ {0}
  /\ Size \in Nat \ {0} /\ MaxFrames \in Nat \ {0} /\ MaxUpvalues \in Nat

VARIABLES
  stacks,   \* of the coroutines that exist: block, stack_top, slots of the frames, arity
  active,   \* the running coroutine, last, after those that resumed it
  ups,      \* the upvalues created so far
  head,     \* vm.open_upvalues
  call,     \* the list operation going on
  bound,    \* history: which variable each closure meant, and the upvalue it got
  variable, \* history: the variable in a slot, once it has been captured
  early,    \* history: variables whose upvalue another coroutine has closed
  abandoned \* history: captured slots have been given up without closing

listVars == <<ups, head>>
history  == <<bound, variable, early, abandoned>>
vars     == <<stacks, active, listVars, call, history>>

NULL == 0
Closed == -1
Idle == [name |-> "none"]

Running == Last(active)
Address(block, i) == block * Size + i
Here(i) == Address(stacks[Running].block, i)
SlotsOf(c) == {Address(stacks[c].block, i) : i \in 0..Size - 1}
Slots == {Address(b, i) : b \in Blocks, i \in 0..Size - 1}
Existing == DOMAIN stacks
FreeBlocks == Blocks \ {stacks[c].block : c \in Existing}

Top(c) == stacks[c].top

\* The parameters of the function a coroutine is in; those it calls have none here.
Arity(c) == IF Len(stacks[c].frames) = 1 THEN stacks[c].arity ELSE 0

IsOpen(u) == ups[u].location # Closed
OpenIn(slots) == {u \in DOMAIN ups : ups[u].location \in slots}

\* Whether the program, and not the list, makes the next step
Free == call = Idle

Forget(slots) == variable' = [s \in Slots |-> IF s \in slots THEN NULL ELSE variable[s]]

\* Slots given up without closing: if one has been captured, the history of who
\* shares what says nothing any more and is not kept.
GiveUp(slots) ==
  IF OpenIn(slots) = {} THEN Forget(slots) /\ UNCHANGED <<bound, early, abandoned>>
  ELSE /\ abandoned' = TRUE /\ bound' = {} /\ early' = {}
       /\ variable' = [s \in Slots |-> IF s \in slots \/ variable[s] = NULL THEN NULL ELSE 1]

-----------------------------------------------------------------------------
(* The stacks *)

Stack(block, top, frames, arity) == [block |-> block, top |-> top, frames |-> frames, arity |-> arity]

\* vm_interpret: the script is pushed and called.
Init ==
  /\ \E b \in Blocks : stacks = [c \in {Main} |-> Stack(b, 1, <<0>>, 0)]
  /\ active = <<Main>>
  /\ ups = <<>> /\ head = NULL /\ call = Idle
  /\ bound = {} /\ variable = [s \in Slots |-> NULL] /\ early = {} /\ abandoned = FALSE

With(c, s) == stacks' = [stacks EXCEPT ![c] = s]
SetTop(n) == With(Running, [stacks[Running] EXCEPT !.top = n])

\* coroutine_push
Push ==
  /\ Free /\ Top(Running) < Size
  /\ SetTop(Top(Running) + 1)
  /\ UNCHANGED <<active, listVars, call, history>>

\* A function drops what it has pushed, not the slot it was called in.
Floor(c) == LET frames == stacks[c].frames IN IF Len(frames) = 1 THEN 1 ELSE Last(frames) + 1
Droppable == Top(Running) > Floor(Running)

\* OP_POP, which the compiler emits for what is not captured
Pop ==
  /\ Free /\ Droppable
  /\ variable[Here(Top(Running) - 1)] = NULL
  /\ SetTop(Top(Running) - 1)
  /\ UNCHANGED <<active, listVars, call, history>>

\* vm_call
Call ==
  /\ Free /\ Len(stacks[Running].frames) < MaxFrames /\ Droppable
  /\ variable[Here(Top(Running) - 1)] = NULL
  /\ With(Running, [stacks[Running] EXCEPT !.frames = Append(@, Top(Running) - 1)])
  /\ UNCHANGED <<active, listVars, call, history>>

-----------------------------------------------------------------------------
(* Coroutines *)

\* coroutine_new: slots is stack_top - arity + 1.
Create(c, block, arity) ==
  /\ Free /\ c \in Coros \ Existing /\ block \in FreeBlocks
  /\ stacks' = [d \in Existing \cup {c} |->
                  IF d = c THEN Stack(block, 0, <<1 - arity>>, arity) ELSE stacks[d]]
  /\ UNCHANGED <<active, listVars, call, history>>

\* call_coroutine: a coroutine that has not run yet pushes itself; the argument
\* moves from the caller's stack, where the callee stays.  As many arguments are
\* passed as the function that goes on drops when it is suspended.
Resume(c) ==
  LET s      == stacks[c]
      top    == (IF s.top = 0 THEN 1 ELSE s.top) + Arity(c)
      callee == Top(Running) - 1 - Arity(c)
  IN  /\ Free /\ c \in Existing \ Range(active) /\ s.frames # <<>>
      /\ top <= Size
      /\ callee >= Floor(Running)
      /\ \A i \in callee..Top(Running) - 1 : variable[Here(i)] = NULL
      /\ stacks' = [stacks EXCEPT ![c].top = top, ![Running].top = callee + 1]
      /\ active' = Append(active, c)
      /\ UNCHANGED <<listVars, call, history>>

\* A resumer that has been reset has no frame to go on in; what the program then
\* does is undefined.
Resumer == active[Len(active) - 1]
Resumable == Running # Main /\ stacks[Resumer].frames # <<>>

\* do_yield and do_await drop the result, and as many values as the function
\* that yields has parameters, from the top of the stack: captured ones, too.
Suspend ==
  LET s    == stacks[Running]
      top  == s.top - 1 - Arity(Running)
      gone == {Here(i) : i \in top..s.top - 1}
  IN  /\ Free /\ Resumable /\ top > 0
      /\ variable[Here(s.top - 1)] = NULL
      /\ With(Running, [s EXCEPT !.top = top])
      /\ active' = Front(active)
      /\ GiveUp(gone)
      /\ UNCHANGED <<listVars, call>>

\* The native function "reset": coroutine_reset forgets the stack and the frames,
\* also those of a resumer.  Resetting the running coroutine is undefined.
Reset(c) ==
  /\ Free /\ c \in Existing \ {Running}
  /\ With(c, [stacks[c] EXCEPT !.top = 0, !.frames = <<>>])
  /\ GiveUp(SlotsOf(c))
  /\ UNCHANGED <<active, listVars, call>>

\* free_object: a coroutine nothing refers to, while memory is allocated
Collect(c) ==
  /\ Free \/ call.name = "create"
  /\ c \in (Coros \cap Existing) \ Range(active)
  /\ stacks' = [d \in Existing \ {c} |-> stacks[d]]
  /\ GiveUp(SlotsOf(c))
  /\ UNCHANGED <<active, listVars, call>>

-----------------------------------------------------------------------------
(* upvalue_capture *)

\* OP_CLOSURE pushes the closure and captures a variable of the running function,
\* or the closure itself; one that captures more counts as several.
Closure(i) ==
  /\ Free /\ Len(ups) < MaxUpvalues /\ Top(Running) < Size
  /\ SetTop(Top(Running) + 1)
  /\ i \in Last(stacks[Running].frames) + 1..Top(Running)
  /\ call' = [name |-> "find", local |-> Here(i), prev |-> NULL, upvalue |-> head]
  /\ variable' = [variable EXCEPT ![Here(i)] = IF @ = NULL THEN Cardinality(bound) + 1 ELSE @]
  /\ UNCHANGED <<active, listVars, bound, early, abandoned>>

\* The loops stop at the end of the list.
BeyondOrAt(u, local) == u # NULL /\ ups[u].location >= local
Beyond(u, local) == u # NULL /\ ups[u].location > local

Walk ==
  /\ call.name = "find" /\ Beyond(call.upvalue, call.local)
  /\ call' = [call EXCEPT !.prev = call.upvalue, !.upvalue = ups[call.upvalue].next]
  /\ UNCHANGED <<stacks, active, listVars, history>>

Bind(u) == bound' = IF abandoned THEN {} ELSE bound \cup {<<variable[call.local], u>>}

Found ==
  /\ call.name = "find" /\ ~Beyond(call.upvalue, call.local)
  /\ IF call.upvalue # NULL /\ ups[call.upvalue].location = call.local
     THEN call' = Idle /\ Bind(call.upvalue)
     ELSE call' = [call EXCEPT !.name = "create"] /\ UNCHANGED bound
  /\ UNCHANGED <<stacks, active, listVars, variable, early, abandoned>>

\* Variations: a new upvalue always goes to the front, or its next pointer is
\* taken from the wrong place.
LinkedFirst(created, after, before) ==
  /\ head' = created
  /\ ups' = Append(ups, [location |-> call.local, next |-> head, owner |-> Running])
LinkedRound(created, after, before) ==
  /\ head' = IF after = NULL THEN created ELSE head
  /\ ups' = LET new == [location |-> call.local, next |-> head, owner |-> Running]
            IN  Append(IF after = NULL THEN ups ELSE [ups EXCEPT ![after].next = created], new)

Linked(created, after, before) ==
  /\ head' = IF after = NULL THEN created ELSE head
  /\ ups' = LET new == [location |-> call.local, next |-> before, owner |-> Running]
            IN  Append(IF after = NULL THEN ups ELSE [ups EXCEPT ![after].next = created], new)

Link ==
  /\ call.name = "create"
  /\ Linked(Len(ups) + 1, call.prev, call.upvalue)
  /\ Bind(Len(ups) + 1)
  /\ call' = Idle
  /\ UNCHANGED <<stacks, active, variable, early, abandoned>>

-----------------------------------------------------------------------------
(* close_upvalues *)

StartClose(last, then) == call' = [name |-> "close", last |-> last, then |-> then]

\* OP_CLOSE_UPVALUE, which the compiler emits for a variable that some closure in
\* its scope captures, whether or not that closure has been created
CloseUpvalue ==
  /\ Free /\ Droppable
  /\ StartClose(Here(Top(Running) - 1), "pop")
  /\ UNCHANGED <<stacks, active, listVars, history>>

\* do_return, up to and including close_upvalues(frame->slots)
Return ==
  /\ Free /\ Droppable
  /\ variable[Here(Top(Running) - 1)] = NULL
  /\ \/ Len(stacks[Running].frames) > 1
     \/ Resumable /\ Top(Resumer) < Size
  /\ StartClose(Here(Last(stacks[Running].frames)), "return")
  /\ UNCHANGED <<stacks, active, listVars, history>>

\* A variation: the slot itself is left open.
ClosesAbove(u, last) == u # NULL /\ ups[u].location > last

Closes(u, last) == u # NULL /\ ups[u].location >= last

CloseHead ==
  /\ call.name = "close" /\ Closes(head, call.last)
  /\ ups' = [ups EXCEPT ![head].location = Closed]
  /\ head' = ups[head].next
  /\ early' = IF ups[head].owner = Running THEN early
              ELSE early \cup {b[1] : b \in {c \in bound : c[2] = head}}
  /\ UNCHANGED <<stacks, active, call, bound, variable, abandoned>>

ClosedFrom(last) == {s \in SlotsOf(Running) : s >= last}

\* vm_pop after OP_CLOSE_UPVALUE
Dropped ==
  /\ call.name = "close" /\ call.then = "pop" /\ ~Closes(head, call.last)
  /\ SetTop(Top(Running) - 1)
  /\ Forget(ClosedFrom(call.last))
  /\ call' = Idle
  /\ UNCHANGED <<active, listVars, bound, early, abandoned>>

\* The rest of do_return: the callee and its variables stay on the stack, and
\* the result, popped before, is pushed for whoever goes on.
Returned ==
  LET s    == stacks[Running]
      left == [s EXCEPT !.frames = Front(@)]
  IN  /\ call.name = "close" /\ call.then = "return" /\ ~Closes(head, call.last)
      /\ IF left.frames # <<>> THEN With(Running, left) /\ UNCHANGED active
         ELSE /\ active' = Front(active)
              /\ stacks' = [stacks EXCEPT ![Running] = [left EXCEPT !.top = @ - 1],
                                          ![Resumer].top = @ + 1]
      /\ Forget(ClosedFrom(call.last))
      /\ call' = Idle
      /\ UNCHANGED <<listVars, bound, early, abandoned>>

-----------------------------------------------------------------------------
ListStep == Walk \/ Found \/ Link \/ CloseHead \/ Dropped \/ Returned

Next ==
  \/ Push \/ Pop \/ Call \/ Suspend \/ CloseUpvalue \/ Return
  \/ \E i \in 0..Size - 1 : Closure(i)
  \/ \E c \in Coros : Resume(c) \/ Reset(c) \/ Collect(c)
  \/ \E c \in Coros, b \in Blocks, arity \in 0..1 : Create(c, b, arity)
  \/ ListStep

\* A C function that has been called goes on.
Spec == Init /\ [][Next]_vars /\ WF_vars(ListStep)

-----------------------------------------------------------------------------
(* Properties *)

\* The list: what the links lead to, beginning with head
Linking(us) ==
  /\ head # NULL => head \in us
  /\ \A u \in us : ups[u].next # NULL => ups[u].next \in us

List == {u \in DOMAIN ups : \A us \in SUBSET DOMAIN ups : Linking(us) => u \in us}

\* The list holds the open upvalues and no others, one for a slot, by falling
\* address: what both loops rely on.
ListSorted ==
  /\ List = {u \in DOMAIN ups : IsOpen(u)}
  /\ \A u \in List : ups[u].next # NULL => ups[u].location > ups[ups[u].next].location

\* An open upvalue refers to a variable that is still on the stack of the
\* coroutine that captured it, whoever has returned or closed upvalues since:
\* unless captured slots were given up by a suspension, a reset or a collection.
OpenInOwnStack ==
  Free /\ ~abandoned =>
    \A u \in DOMAIN ups : IsOpen(u) =>
      /\ ups[u].owner \in Existing
      /\ ups[u].location \in {Address(stacks[ups[u].owner].block, i) : i \in 0..Top(ups[u].owner) - 1}

\* Closures share an upvalue if and only if they captured the same variable,
\* also after it has gone out of scope.  A variable whose upvalue another
\* coroutine has closed may have several.
ShareVariable ==
  ~abandoned =>
    \A b, c \in bound :
      /\ b[2] = c[2] => b[1] = c[1]
      /\ b[1] = c[1] /\ b[1] \notin early => b[2] = c[2]

\* Both loops end.
ListOperationsEnd == call # Idle ~> Free

\* The upvalues still open; those being closed are gone as soon as that starts.
OpenNow ==
  LET us == {u \in DOMAIN ups : IsOpen(u) /\ (call.name = "close" => ups[u].location < call.last)}
  IN  [s \in {ups[u].location : u \in us} |-> CHOOSE u \in us : ups[u].location = s]

Abstract == INSTANCE OpenMap WITH Upvalues <- 1..MaxUpvalues, open <- OpenNow, made <- DOMAIN ups

\* The linked list implements a partial function from slots to upvalues.
ImplementsOpenMap == Abstract!Spec

=============================================================================
