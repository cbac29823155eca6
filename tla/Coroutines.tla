------------------------------ MODULE Coroutines ------------------------------
(***************************************************************************)
(* The interpreter loop of vm.c as the scheduler of asymmetric coroutines: *)
(* who runs, who resumed whom, and what calling, yielding, awaiting,       *)
(* returning, resetting and failing do to the stacks and call frames of    *)
(* the coroutines involved.                                                *)
(*                                                                         *)
(* A program is any sequence of instructions the compiler could have       *)
(* emitted.  The compiler keeps its own idea of how many slots a frame     *)
(* uses; `want` is that number.  An instruction may pop only what the      *)
(* compiler believes the frame has pushed, while what really happens to    *)
(* the stack is what vm.c does.                                            *)
(***************************************************************************)
EXTENDS Integers, Sequences, FiniteSets, SequencesExt

CONSTANTS
  Main,          \* vm.main, the toplevel coroutine; never a Lox value
  Coros,         \* coroutine objects the program may create
  Script,        \* the closure of the toplevel code
  Functions,     \* closures the program may push
  Arity,         \* [Functions \cup {Script} -> Nat]
  ResetFn,       \* the native reset, of arity 1; the others do no more than it does to a
                 \* value that is not a coroutine
  Nil,           \* every Lox value that is not callable
  NULL,
  FramesInitial, \* FRAMES_INITIAL
  FramesMax,     \* FRAMES_MAX
  MaxTemps,      \* bound: temporaries and locals of one frame
  MaxStack,      \* bound: values on all stacks together
  Repl           \* the argument of vm_run: an interactive session, not a file

Natives == {ResetFn}
Closures == Functions \cup {Script}
AllCo == Coros \cup {Main}
Value == Closures \cup Natives \cup Coros \cup {Nil}

ASSUME CoroutinesAssumption ==
  /\ IsFiniteSet(Coros) /\ Main \notin Coros /\ NULL \notin AllCo
  /\ Script \notin Functions /\ Arity \in [Closures -> Nat] /\ Arity[Script] = 0
  /\ Closures \cap Natives = {} /\ Closures \cap Coros = {}
  /\ Natives \cap Coros = {} /\ Nil \notin Closures \cup Natives \cup Coros
  /\ FramesInitial \in Nat \ {0} /\ FramesMax \in Nat /\ FramesInitial <= FramesMax
  /\ MaxTemps \in Nat /\ MaxStack \in Nat /\ Repl \in BOOLEAN

VARIABLES
  status,       \* what vm_run is doing: see TypeOK
  running,      \* vm.running
  frame,        \* the local `frame` of vm_run: an index into frames[running]
  parent,       \* [AllCo -> AllCo \cup {NULL}]
  state,        \* CoroutineState, or "UNALLOCATED"
  stack,        \* values below stack_top, bottom first
  frames,       \* call frames below frame_count
  currentFrame, \* current_frame, as an index into frames; 0 is NULL
  frameCap      \* frame_capacity

vars == <<status, running, frame, parent, state, stack, frames, currentFrame, frameCap>>

Frame == [closure : Closures, slots : Int, want : Nat]
States == {"UNALLOCATED", "READY", "PAUSED", "RUNNING", "COMPLETE", "ERROR"}

(* status: "run" in the loop of vm_run; "prompt" back at the REPL, waiting   *)
(* for the next line; "done" and "failed" after the exits of run_file;       *)
(* "undefined" once the C code has read outside an array or runs a frame     *)
(* that a reset has dropped.                                                 *)
TypeOK ==
  /\ status \in {"run", "prompt", "done", "failed", "undefined"}
  /\ running \in AllCo
  /\ frame \in Nat
  /\ parent \in [AllCo -> AllCo \cup {NULL}]
  /\ state \in [AllCo -> States]
  /\ stack \in [AllCo -> Seq(Value)]
  /\ frames \in [AllCo -> Seq(Frame)]
  /\ currentFrame \in [AllCo -> Nat]
  /\ frameCap \in [AllCo -> 0..FramesMax]

-----------------------------------------------------------------------------
(* vm_init and vm_interpret: the script's closure is called on the main      *)
(* coroutine, whose state stays READY while it runs.                         *)
Init ==
  /\ status = "run"
  /\ running = Main
  /\ frame = 1
  /\ parent = [c \in AllCo |-> NULL]
  /\ state = [c \in AllCo |-> IF c = Main THEN "READY" ELSE "UNALLOCATED"]
  /\ stack = [c \in AllCo |-> IF c = Main THEN <<Script>> ELSE <<>>]
  /\ frames = [c \in AllCo |->
       IF c = Main THEN <<[closure |-> Script, slots |-> 0, want |-> 1]>> ELSE <<>>]
  /\ currentFrame = [c \in AllCo |-> IF c = Main THEN 1 ELSE 0]
  /\ frameCap = [c \in AllCo |-> IF c = Main THEN FramesInitial ELSE 0]

Depth(c) == Len(stack[c])

\* vm_peek: the value `distance` below the top of the running stack.
Peek(distance) == stack[running][Depth(running) - distance]

\* The current stack of the running coroutine after n pops.
Popped(n) == SubSeq(stack[running], 1, Depth(running) - n)

\* What the compiler believes the current frame holds above slot 0 and the parameters.
Temps == LET f == frames[running][frame] IN f.want - 1 - Arity[f.closure]

(* The compiler emits an instruction that consumes n values only where the   *)
(* frame has them; whether the stack really does is another matter.          *)
Emitted(n) == status = "run" /\ Temps >= n
Consumes(n) == Emitted(n) /\ Depth(running) >= n

\* The compiler's view after an instruction that leaves the frame `d` values taller.
Taller(d) == [frames EXCEPT ![running][frame].want = @ + d]

(* runtime_error and runtime_type_error end in vm_reset, which empties the   *)
(* main coroutine and touches no other.  A file run then exits with 70; the  *)
(* REPL ignores the result and prompts again.                                *)
RuntimeError ==
  /\ status' = IF Repl THEN "prompt" ELSE "failed"
  /\ running' = Main
  /\ stack' = [stack EXCEPT ![Main] = <<>>]
  /\ frames' = [frames EXCEPT ![Main] = <<>>]
  /\ state' = [state EXCEPT ![Main] = "READY"]
  /\ UNCHANGED <<frame, parent, currentFrame, frameCap>>

\* The C code has left the language: nothing is known about what happens next.
Undefined ==
  /\ status' = "undefined"
  /\ UNCHANGED <<running, frame, parent, state, stack, frames, currentFrame, frameCap>>

\* The stack has run out: the instruction reads in front of the buffer.
Underflow ==
  /\ \E n \in 1..MaxTemps : Emitted(n) /\ Depth(running) < n
  /\ Undefined

\* MaxStack bounds the model: there is room for n more values on the stacks.
Room(n) == MapThenSumSet(Depth, AllCo) + n <= MaxStack

-----------------------------------------------------------------------------
\* OP_CONSTANT, OP_NIL, OP_CLOSURE, OP_GET_UPVALUE and the like push one value.
Push(v) ==
  /\ Emitted(0) /\ Temps < MaxTemps /\ Room(1)
  /\ stack' = [stack EXCEPT ![running] = Append(@, v)]
  /\ frames' = Taller(1)
  /\ UNCHANGED <<status, running, frame, parent, state, currentFrame, frameCap>>

\* OP_POP
Pop ==
  /\ Consumes(1)
  /\ stack' = [stack EXCEPT ![running] = Popped(1)]
  /\ frames' = Taller(-1)
  /\ UNCHANGED <<status, running, frame, parent, state, currentFrame, frameCap>>

\* OP_COROUTINE: the closure on top of the stack becomes a coroutine that will run it.
CreateCoroutine(c) ==
  /\ Consumes(1)
  /\ state[c] = "UNALLOCATED"
  /\ IF Peek(0) \notin Closures THEN RuntimeError ELSE
       /\ stack' = [stack EXCEPT ![running] = Append(Popped(1), c)]
       /\ frames' = [frames EXCEPT ![c] =
            <<[closure |-> Peek(0), slots |-> 1 - Arity[Peek(0)], want |-> 1 + Arity[Peek(0)]]>>]
       /\ currentFrame' = [currentFrame EXCEPT ![c] = 1]
       /\ frameCap' = [frameCap EXCEPT ![c] = FramesInitial]
       /\ state' = [state EXCEPT ![c] = "READY"]
       /\ UNCHANGED <<status, running, frame, parent>>

-----------------------------------------------------------------------------
(* OP_CALL.  After the call the compiler counts one value, the result, where *)
(* the callee and its argc arguments were.                                   *)

\* vm_call grows the frame array one call early: a spare frame stays in reserve.
CapacityTooLate(count, cap) == IF count <= cap THEN cap ELSE 2 * cap
CapacityUncapped(count, cap) == IF count + 1 < cap THEN cap ELSE 2 * cap
Capacity(count, cap) ==
  IF count + 1 < cap THEN cap
  ELSE IF 2 * cap > FramesMax THEN FramesMax ELSE 2 * cap

\* vm_call
CallClosure(argc) ==
  LET callee == Peek(argc)
      count == Len(frames[running])
  IN /\ Consumes(argc + 1)
     /\ callee \in Closures
     /\ IF argc # Arity[callee] \/ count = FramesMax THEN RuntimeError ELSE
          /\ frameCap' = [frameCap EXCEPT ![running] = Capacity(count, @)]
          /\ frames' = [Taller(-argc) EXCEPT ![running] = Append(@,
               [closure |-> callee, slots |-> Depth(running) - argc - 1, want |-> 1 + argc])]
          /\ currentFrame' = [currentFrame EXCEPT ![running] = count + 1]
          /\ frame' = count + 1
          /\ UNCHANGED <<status, running, parent, state, stack>>

\* coroutine_reset on the way back to READY.
KeepState(c) == state
ResetState(c) == [d \in AllCo |-> IF d = c THEN "READY" ELSE state[d]]

\* call_native: only reset does more than replace callee and argument by a result.
CallNative(argc) ==
  LET callee == Peek(argc)
      target == IF callee = ResetFn /\ Peek(0) \in Coros THEN Peek(0) ELSE NULL
  IN /\ Consumes(argc + 1)
     /\ callee \in Natives
     /\ \/ argc # 1 /\ RuntimeError
        \/ /\ argc = 1 /\ target # running
           /\ stack' = [c \in AllCo |-> IF c = running THEN Append(Popped(2), Nil)
                                        ELSE IF c = target THEN <<>> ELSE stack[c]]
           /\ frames' = [c \in AllCo |-> IF c = target THEN <<>> ELSE Taller(-1)[c]]
           /\ state' = ResetState(target)
           /\ UNCHANGED <<status, running, frame, parent, currentFrame, frameCap>>
        \/ /\ argc = 1 /\ target = running   \* stack_top is rewound, then lowered by 2
           /\ Undefined

ResumableUnlessCurrent(c) == c # running
Resumable(c) == state[c] \notin {"RUNNING", "ERROR"}

\* The callee stays on the resumer's stack, for do_yield to replace.
TakenArgumentsAndCallee(argc) == Popped(argc + 1)
TakenArguments(argc) == Popped(argc)

ResumedByFirst(c) == IF parent[c] = NULL THEN [parent EXCEPT ![c] = running] ELSE parent
ResumedBy(c) == [parent EXCEPT ![c] = running]

(* call_coroutine: the arguments are popped one by one, so they arrive in    *)
(* reverse.  A completed coroutine is first reset, which leaves it without a *)
(* frame; entering a coroutine without one reads frames[-1].                 *)
Resume(argc) ==
  LET callee == Peek(argc)
      args == Reverse(SubSeq(stack[running], Depth(running) - argc + 1, Depth(running)))
      complete == state[callee] = "COMPLETE"
      base == IF complete THEN <<>> ELSE stack[callee]
      below == IF complete \/ state[callee] = "READY" THEN Append(base, callee) ELSE base
      kept == IF complete THEN <<>> ELSE frames[callee]
  IN /\ Consumes(argc + 1)
     /\ callee \in Coros
     /\ IF ~Resumable(callee) THEN RuntimeError ELSE
          /\ Room(1)
          /\ stack' = [stack EXCEPT ![running] = TakenArguments(argc), ![callee] = below \o args]
          /\ frames' = [Taller(-argc) EXCEPT ![callee] = kept]
          /\ parent' = ResumedBy(callee)
          /\ running' = callee
          /\ state' = [state EXCEPT ![callee] = "RUNNING"]
          /\ frame' = Len(kept)
          /\ status' = IF kept = <<>> THEN "undefined" ELSE status
          /\ UNCHANGED <<currentFrame, frameCap>>

\* call_value falls through to runtime_type_error for any other value.
CallUncallable(argc) ==
  /\ Consumes(argc + 1)
  /\ Peek(argc) = Nil
  /\ RuntimeError

-----------------------------------------------------------------------------
(* do_yield and do_await give control back to the coroutine that resumed     *)
(* this one.  Both lower the stack by the arity of the function that yields. *)
(* do_yield hands over a value in place of the callee; do_await leaves the   *)
(* callee itself on the resumer's stack.                                     *)
PausedNever == state
Paused == [state EXCEPT ![running] = "PAUSED"]

SuspendTo(p, handed, taller) ==
  LET arity == Arity[frames[running][frame].closure]
  IN IF arity + 1 > Depth(running) \/ frames[p] = <<>> \/ Depth(p) = 0 THEN Undefined ELSE
       /\ stack' = [stack EXCEPT ![running] = Popped(arity + 1), ![p] = handed]
       /\ frames' = Taller(taller)
       /\ state' = Paused
       /\ running' = p
       /\ frame' = currentFrame[p]
       /\ UNCHANGED <<status, parent, currentFrame, frameCap>>

\* OP_YIELD ends a statement: the compiler counts nothing in its place.
Yield ==
  LET p == parent[running]
  IN /\ Consumes(1)
     /\ IF p = NULL THEN RuntimeError ELSE SuspendTo(p, Append(Front(stack[p]), Peek(0)), -1)

\* OP_AWAIT is an expression: the compiler counts the value it will be resumed with.
Await ==
  LET p == parent[running]
  IN /\ Consumes(1)
     /\ IF p = NULL THEN RuntimeError ELSE SuspendTo(p, stack[p], 0)

(* OP_RETURN, do_return.  The returning frame's slots stay on the stack.     *)
CurrentUnchanged(c, n) == currentFrame
CurrentIs(c, n) == [currentFrame EXCEPT ![c] = n]

ReturnFromCall ==
  /\ Consumes(1)
  /\ Len(frames[running]) > 1
  /\ stack' = [stack EXCEPT ![running] = Append(Popped(1), Peek(0))]
  /\ frames' = [frames EXCEPT ![running] = Front(@)]
  /\ frame' = Len(frames[running]) - 1
  /\ currentFrame' = CurrentIs(running, Len(frames[running]) - 1)
  /\ UNCHANGED <<status, running, parent, state, frameCap>>

\* The outermost frame of a resumed coroutine returns to the resumer.
ReturnFromCoroutine ==
  LET p == parent[running]
  IN /\ Consumes(1)
     /\ Len(frames[running]) = 1 /\ p # NULL /\ Room(1)
     /\ stack' = [stack EXCEPT ![running] = Popped(1), ![p] = Append(stack[p], Peek(0))]
     /\ frames' = [frames EXCEPT ![running] = <<>>]
     /\ state' = [state EXCEPT ![running] = "COMPLETE"]
     /\ running' = p
     /\ frame' = Len(frames[p])
     /\ currentFrame' = CurrentIs(p, Len(frames[p]))
     /\ status' = IF frames[p] = <<>> THEN "undefined" ELSE status
     /\ UNCHANGED <<parent, frameCap>>

\* The script ends.  The REPL keeps the frame, to go on from it with the next line.
ReturnFromScript ==
  /\ Consumes(1)
  /\ Len(frames[running]) = 1 /\ parent[running] = NULL
  /\ stack' = [stack EXCEPT ![running] = Popped(1)]
  /\ frames' = IF Repl THEN Taller(-1) ELSE [frames EXCEPT ![running] = <<>>]
  /\ state' = [state EXCEPT ![running] = IF Repl THEN "READY" ELSE "COMPLETE"]
  /\ status' = IF Repl THEN "prompt" ELSE "done"
  /\ UNCHANGED <<running, frame, parent, currentFrame, frameCap>>

\* repl(): the next line is compiled and vm_run picks up the frame frame_count - 1.
NextLine ==
  /\ status = "prompt"
  /\ frame' = Len(frames[running])
  /\ status' = IF frames[running] = <<>> THEN "undefined" ELSE "run"
  /\ UNCHANGED <<running, parent, state, stack, frames, currentFrame, frameCap>>

-----------------------------------------------------------------------------
\* What a program can push: its functions, the natives, data, and its coroutines.
Pushable == Functions \cup Natives \cup {Nil} \cup {c \in Coros : state[c] # "UNALLOCATED"}

Call(argc) == CallClosure(argc) \/ CallNative(argc) \/ Resume(argc) \/ CallUncallable(argc)

Next ==
  \/ \E v \in Pushable : Push(v)
  \/ Pop
  \/ \E c \in Coros : CreateCoroutine(c)
  \/ \E argc \in 0..MaxTemps - 1 : Call(argc)
  \/ Yield \/ Await
  \/ ReturnFromCall \/ ReturnFromCoroutine \/ ReturnFromScript
  \/ NextLine
  \/ Underflow

Spec == Init /\ [][Next]_vars

-----------------------------------------------------------------------------
\* What the properties are about: as long as the C code has a meaning.
Defined == status # "undefined"

\* The coroutines from the main one down to the running one, by parent links.
IsChain(s) ==
  /\ s # <<>> /\ s[1] = Main /\ s[Len(s)] = running
  /\ \A i \in 1..Len(s) - 1 : parent[s[i + 1]] = s[i]
  /\ \A i, j \in 1..Len(s) : s[i] = s[j] => i = j

Chains == UNION {[1..n -> AllCo] : n \in 1..Cardinality(AllCo)}

\* The current coroutine and its ancestors.
Active == UNION {Range(s) : s \in {t \in Chains : IsChain(t)}}

(* The parent links lead from the running coroutine to main without meeting  *)
(* a coroutine twice: runtime_error's walk over them ends, and every yield   *)
(* or return has somewhere to go.  A resumed coroutine must not be an        *)
(* ancestor of its resumer, whoever reset it in the meantime.                *)
ChainReachesMain == Defined => \E s \in Chains : IsChain(s)

(* RUNNING means what object.h says: the current coroutine or one of its     *)
(* ancestors.  A coroutine that is not one of them must be resumable, or it  *)
(* is lost.                                                                  *)
RunningIsActive ==
  status \in {"run", "prompt"} => \A c \in Coros : state[c] = "RUNNING" => c \in Active

(* vm_run's local `frame`, current_frame and frame_count agree: whatever     *)
(* switches coroutines refreshes all of them.  do_yield trusts the           *)
(* current_frame of the resumer, OP_CALL and do_return its frame_count.      *)
CurrentFrameIsTop ==
  /\ status = "run" => frame = Len(frames[running])
  /\ Defined => \A c \in AllCo : frames[c] # <<>> => currentFrame[c] = Len(frames[c])

\* A frame array never overflows: vm_call grows it before the frame that would not fit.
FramesFit == \A c \in AllCo : Len(frames[c]) <= frameCap[c]

(* While a coroutine runs, its resumer keeps it as the topmost value: that   *)
(* is the value do_yield pops to make room for the one handed over.          *)
CalleeOnTop ==
  status = "run" => \E s \in Chains :
    /\ IsChain(s)
    /\ \A i \in 1..Len(s) - 1 :
         frames[s[i]] # <<>> => stack[s[i]] # <<>> /\ Last(stack[s[i]]) = s[i + 1]

(* What a paused coroutine left on its stack and in its frames is what it    *)
(* finds when it is resumed: nobody else's step touches them, unless a reset *)
(* discards them and says so in the state.                                   *)
PausedUntouched ==
  [][\A c \in Coros : state[c] = "PAUSED" /\ state'[c] = "PAUSED"
       => stack'[c] = stack[c] /\ frames'[c] = frames[c]]_vars

-----------------------------------------------------------------------------
(* Refinement: the coroutines as one-shot continuations on a stack.          *)
\* The chain, once there is no doubt about it.
Chain == IF Defined THEN CHOOSE s \in Chains : IsChain(s) ELSE <<>>

\* Coroutines a program may still resume with effect.
Holding == {c \in Coros : state[c] \in {"READY", "PAUSED"} /\ frames[c] # <<>>}
Created == {c \in Coros : state[c] # "UNALLOCATED"}

Continuations == INSTANCE ResumeStack WITH
  active <- Chain, waiting <- Holding, created <- Created

(* Coroutines are one-shot continuations: each is entered at most once at a  *)
(* time, control comes back to its resumer and nobody else, and one that has *)
(* finished or been reset never runs again.                                  *)
ImplementsResumeStack == Continuations!Spec

-----------------------------------------------------------------------------
(* object.h says of frame_count: "The current frame is                       *)
(* frames[frame_count - 1]."  So a coroutine that has completed has a frame  *)
(* to run in when it is resumed all the same.                                *)
CompletedHasFrame ==
  [][\A c \in Coros : state[c] = "COMPLETE" /\ state'[c] = "RUNNING" => frames'[c] # <<>>]_vars

(* vm_call says of a frame's slots: "-1 to account for reserved stack slot   *)
(* 0".  Slot 0 of a coroutine's first frame is the coroutine itself, and the *)
(* parameters follow.                                                        *)
SlotZeroReserved ==
  status = "run" /\ running # Main => frames[running][1].slots = 0
=============================================================================
