--------------------------- MODULE CoroutinesProofs ---------------------------
(***************************************************************************)
(* Theorems about Coroutines, for any number of coroutines and functions,  *)
(* any arities and any bounds.                                             *)
(*                                                                         *)
(* The invariants the runs check are not inductive one by one: a yield     *)
(* finds its resumer by a parent link, so the frame it continues in is     *)
(* right only if that link leads to a coroutine that still runs, which in  *)
(* turn is right because the links form a chain.  IInv puts together what  *)
(* each needs of the others.                                               *)
(***************************************************************************)
EXTENDS Coroutines, FiniteSetTheorems, Minimum, TLAPS

USE CoroutinesAssumption DEF AllCo, Value, Closures, Natives

\* The current frame is the top one, and who runs is marked as running.
FrameInv ==
  /\ status = "run" => frames[running] # <<>> /\ frame = Len(frames[running])
  /\ Defined => \A c \in AllCo : frames[c] # <<>> => currentFrame[c] = Len(frames[c])
  /\ status = "run" /\ running # Main => state[running] = "RUNNING"
  /\ status \in {"prompt", "done", "failed"} => running = Main

\* s is the chain, with all that its links rely on.
IsActive(s) ==
  /\ s \in Seq(AllCo)
  /\ IsChain(s)
  /\ \A i \in 2..Len(s) :
       state[s[i]] = "RUNNING" \/ (state[s[i]] = "READY" /\ frames[s[i]] = <<>>)
  /\ status = "run" => \A i \in 1..Len(s) - 1 :
       frames[s[i]] # <<>> => stack[s[i]] # <<>> /\ Last(stack[s[i]]) = s[i + 1]
  /\ status \in {"run", "prompt"} /\ ~Repl =>
       \A c \in Coros : state[c] = "RUNNING" => \E i \in 1..Len(s) : s[i] = c

ChainInv == parent[Main] = NULL /\ (Defined => \E s : IsActive(s))

IInv == TypeOK /\ FrameInv /\ ChainInv

-----------------------------------------------------------------------------
(* Lemmas on the operators of the stack and the frames.                      *)

\* The value vm_peek reads is a Lox value when the stack is deep enough.
LEMMA PeekValue ==
  ASSUME TypeOK, NEW n \in Nat, n < Depth(running)
  PROVE  Peek(n) \in Value
BY DEF TypeOK, Peek, Depth

\* Popping leaves the lower values in place.
LEMMA PoppedStack ==
  ASSUME TypeOK, NEW n \in Nat, n <= Depth(running)
  PROVE  /\ Popped(n) \in Seq(Value)
         /\ Len(Popped(n)) = Depth(running) - n
         /\ \A i \in 1..Depth(running) - n : Popped(n)[i] = stack[running][i]
BY DEF TypeOK, Popped, Depth

\* The compiler's count is all that Taller changes.
LEMMA TallerFrames ==
  ASSUME TypeOK, frame \in 1..Len(frames[running]), NEW d \in Int,
         frames[running][frame].want + d \in Nat
  PROVE  /\ Taller(d) \in [AllCo -> Seq(Frame)]
         /\ \A c \in AllCo : c # running => Taller(d)[c] = frames[c]
         /\ Len(Taller(d)[running]) = Len(frames[running])
         /\ Taller(d)[running] # <<>>
<1> DEFINE g == [frames[running] EXCEPT ![frame].want = @ + d]
<1>1. frames[running] \in Seq(Frame) /\ frames[running][frame] \in Frame
  BY DEF TypeOK
<1>2. [frames[running][frame] EXCEPT !.want = @ + d] \in Frame
  BY <1>1 DEF Frame
<1>3. g \in Seq(Frame) /\ Len(g) = Len(frames[running])
  BY <1>1, <1>2
<1>4. Taller(d) = [frames EXCEPT ![running] = g]
  BY DEF Taller
<1>5. g # <<>>
  BY <1>3
<1> HIDE DEF g
<1>6. QED
  BY <1>3, <1>4, <1>5 DEF TypeOK

\* Enough temporaries are counted for an instruction that consumes n values.
LEMMA WantEnough ==
  ASSUME TypeOK, FrameInv, NEW n \in Nat, Emitted(n)
  PROVE  /\ status = "run"
         /\ frame \in 1..Len(frames[running])
         /\ frame = Len(frames[running])
         /\ frames[running][frame] \in Frame
         /\ frames[running][frame].want - n \in Nat
<1>1. status = "run" /\ frame = Len(frames[running]) /\ frames[running] # <<>>
  BY DEF Emitted, FrameInv
<1>2. frames[running] \in Seq(Frame) /\ frame \in 1..Len(frames[running])
  BY <1>1 DEF TypeOK
<1>3. frames[running][frame] \in Frame
  BY <1>2
<1>4. frames[running][frame].want \in Nat /\ Arity[frames[running][frame].closure] \in Nat
  BY <1>3 DEF Frame
<1>5. frames[running][frame].want - 1 - Arity[frames[running][frame].closure] >= n
  BY DEF Emitted, Temps
<1>6. QED
  BY <1>1, <1>2, <1>3, <1>4, <1>5

-----------------------------------------------------------------------------
\* The variables keep their types: the indices stay indices, the stacks stay stacks.
LEMMA InitType == Init => TypeOK
<1> SUFFICES ASSUME Init PROVE TypeOK
  OBVIOUS
<1>1. [closure |-> Script, slots |-> 0, want |-> 1] \in Frame
  BY DEF Frame
<1>2. frames \in [AllCo -> Seq(Frame)]
  BY <1>1 DEF Init
<1>3. stack \in [AllCo -> Seq(Value)]
  <2>1. <<Script>> \in Seq(Value) /\ <<>> \in Seq(Value)
    OBVIOUS
  <2>2. QED
    BY <2>1 DEF Init
<1>4. state \in [AllCo -> States] /\ parent \in [AllCo -> AllCo \cup {NULL}]
  BY DEF Init, States
<1>5. currentFrame \in [AllCo -> Nat] /\ frameCap \in [AllCo -> 0..FramesMax]
  BY DEF Init
<1>6. status = "run" /\ running \in AllCo /\ frame \in Nat
  BY DEF Init
<1>7. QED
  BY <1>2, <1>3, <1>4, <1>5, <1>6 DEF TypeOK

LEMMA ErrorType == TypeOK /\ RuntimeError => TypeOK'
BY DEF TypeOK, RuntimeError, States

LEMMA UndefinedType == TypeOK /\ Undefined => TypeOK'
BY DEF TypeOK, Undefined

LEMMA CreateType ==
  ASSUME TypeOK, FrameInv, NEW c \in Coros, CreateCoroutine(c)
  PROVE  TypeOK'
<1>1. CASE Peek(0) \notin Closures
  BY <1>1, ErrorType DEF CreateCoroutine
<1>2. CASE Peek(0) \in Closures
  <2> DEFINE first == [closure |-> Peek(0), slots |-> 1 - Arity[Peek(0)],
                       want |-> 1 + Arity[Peek(0)]]
  <2>1. Popped(1) \in Seq(Value)
    BY PoppedStack DEF CreateCoroutine, Consumes
  <2>2. first \in Frame
    BY <1>2 DEF Frame
  <2>3. /\ stack' = [stack EXCEPT ![running] = Append(Popped(1), c)]
        /\ frames' = [frames EXCEPT ![c] = <<first>>]
    BY <1>2 DEF CreateCoroutine
  <2> HIDE DEF first
  <2>4. stack' \in [AllCo -> Seq(Value)] /\ frames' \in [AllCo -> Seq(Frame)]
    <3>1. stack \in [AllCo -> Seq(Value)] /\ frames \in [AllCo -> Seq(Frame)] /\ c \in Value
      BY DEF TypeOK, Value
    <3>2. Append(Popped(1), c) \in Seq(Value) /\ <<first>> \in Seq(Frame)
      BY <2>1, <2>2, <3>1
    <3>3. QED
      BY <2>3, <3>1, <3>2
  <2>5. /\ currentFrame' = [currentFrame EXCEPT ![c] = 1]
        /\ frameCap' = [frameCap EXCEPT ![c] = FramesInitial]
        /\ state' = [state EXCEPT ![c] = "READY"]
        /\ UNCHANGED <<status, running, frame, parent>>
    BY <1>2 DEF CreateCoroutine
  <2>6. 1 \in Nat /\ FramesInitial \in 0..FramesMax /\ "READY" \in States
    BY DEF States
  <2>7. currentFrame' \in [AllCo -> Nat] /\ frameCap' \in [AllCo -> 0..FramesMax]
    BY <2>5, <2>6 DEF TypeOK
  <2>8. state' \in [AllCo -> States]
    BY <2>5, <2>6 DEF TypeOK
  <2>9. QED
    BY <2>4, <2>5, <2>7, <2>8 DEF TypeOK
<1>3. QED
  BY <1>1, <1>2

LEMMA CallClosureType ==
  ASSUME TypeOK, FrameInv, NEW argc \in Nat, CallClosure(argc)
  PROVE  TypeOK'
<1> DEFINE callee == Peek(argc)
           count == Len(frames[running])
<1>1. CASE argc # Arity[callee] \/ count = FramesMax
  BY <1>1, ErrorType DEF CallClosure
<1>2. CASE ~(argc # Arity[callee] \/ count = FramesMax)
  <2>1. Emitted(argc + 1) /\ argc + 1 <= Depth(running)
    BY DEF CallClosure, Consumes
  <2>2. frames[running][frame].want - argc \in Nat /\ frame \in 1..Len(frames[running])
    BY <2>1, WantEnough, frames[running][frame] \in Frame DEF Frame
  <2>3. Taller(-argc) \in [AllCo -> Seq(Frame)]
    <3>1. -argc \in Int /\ frames[running][frame].want + (-argc) \in Nat
      BY <2>1, <2>2, WantEnough DEF Frame
    <3>2. QED
      BY <2>2, <3>1, TallerFrames
  <2>4. callee \in Closures /\ Depth(running) \in Nat
    BY DEF CallClosure, Depth, TypeOK
  <2>5. [closure |-> callee, slots |-> Depth(running) - argc - 1, want |-> 1 + argc] \in Frame
    BY <2>4 DEF Frame
  <2> DEFINE called == [closure |-> callee, slots |-> Depth(running) - argc - 1,
                        want |-> 1 + argc]
  <2>6. frames' = [Taller(-argc) EXCEPT ![running] = Append(@, called)]
    BY <1>2 DEF CallClosure
  <2> HIDE DEF called
  <2>7. frames' \in [AllCo -> Seq(Frame)]
    BY <2>3, <2>5, <2>6 DEF called, TypeOK
  <2>8. frameCap' = [frameCap EXCEPT ![running] = Capacity(count, @)]
    BY <1>2 DEF CallClosure
  <2>9. count \in Nat
    BY DEF TypeOK
  <2>10. frameCap[running] \in 0..FramesMax
    BY DEF TypeOK
  <2>11. Capacity(count, frameCap[running]) \in 0..FramesMax
    BY <2>9, <2>10 DEF Capacity
  <2>12. frameCap' \in [AllCo -> 0..FramesMax]
    BY <2>8, <2>11 DEF TypeOK
  <2>13. /\ currentFrame' = [currentFrame EXCEPT ![running] = count + 1]
         /\ frame' = count + 1
         /\ UNCHANGED <<status, running, parent, state, stack>>
    BY <1>2 DEF CallClosure
  <2>14. count + 1 \in Nat
    BY <2>9
  <2>15. currentFrame' \in [AllCo -> Nat] /\ frame' \in Nat
    <3> HIDE DEF count
    <3> QED
      BY <2>13, <2>14 DEF TypeOK
  <2>16. QED
    BY <2>7, <2>12, <2>13, <2>15 DEF TypeOK
<1>3. QED
  BY <1>1, <1>2

LEMMA CallNativeType ==
  ASSUME TypeOK, FrameInv, NEW argc \in Nat, CallNative(argc)
  PROVE  TypeOK'
<1> DEFINE target == IF Peek(argc) = ResetFn /\ Peek(0) \in Coros THEN Peek(0) ELSE NULL
<1>1. CASE RuntimeError
  BY <1>1, ErrorType
<1>2. CASE Undefined
  BY <1>2, UndefinedType
<1>3. CASE argc = 1 /\ ~RuntimeError /\ ~Undefined
  <2>1. Emitted(2) /\ 2 <= Depth(running)
    BY <1>3 DEF CallNative, Consumes
  <2>2. frames[running][frame].want + (-1) \in Nat /\ frame \in 1..Len(frames[running])
        /\ -1 \in Int
    BY <2>1, WantEnough DEF Frame
  <2>3. Taller(-1) \in [AllCo -> Seq(Frame)]
    BY <2>2, TallerFrames
  <2>4. Popped(2) \in Seq(Value)
    BY <2>1, PoppedStack
  <2>5. /\ stack' = [c \in AllCo |-> IF c = running THEN Append(Popped(2), Nil)
                                     ELSE IF c = target THEN <<>> ELSE stack[c]]
        /\ frames' = [c \in AllCo |-> IF c = target THEN <<>> ELSE Taller(-1)[c]]
        /\ state' = ResetState(target)
        /\ UNCHANGED <<status, running, frame, parent, currentFrame, frameCap>>
    BY <1>3 DEF CallNative
  <2>6. stack' \in [AllCo -> Seq(Value)]
    BY <2>4, <2>5 DEF TypeOK
  <2>7. frames' \in [AllCo -> Seq(Frame)]
    BY <2>3, <2>5
  <2>8. state' \in [AllCo -> States]
    BY <2>5 DEF TypeOK, ResetState, States
  <2>9. QED
    BY <2>5, <2>6, <2>7, <2>8 DEF TypeOK
<1>4. QED
  BY <1>1, <1>2, <1>3 DEF CallNative

\* Reversing keeps the elements.
LEMMA ReverseType ==
  ASSUME NEW S, NEW q \in Seq(S)
  PROVE  Reverse(q) \in Seq(S) /\ Len(Reverse(q)) = Len(q)
BY DEF Reverse

LEMMA ResumeType ==
  ASSUME TypeOK, FrameInv, NEW argc \in Nat, Resume(argc)
  PROVE  TypeOK'
<1> DEFINE callee == Peek(argc)
           passed == SubSeq(stack[running], Depth(running) - argc + 1, Depth(running))
           complete == state[callee] = "COMPLETE"
           base == IF complete THEN <<>> ELSE stack[callee]
           below == IF complete \/ state[callee] = "READY" THEN Append(base, callee) ELSE base
           kept == IF complete THEN <<>> ELSE frames[callee]
<1>1. CASE ~Resumable(callee)
  BY <1>1, ErrorType DEF Resume
<1>2. CASE Resumable(callee)
  <2>1. Emitted(argc + 1) /\ argc + 1 <= Depth(running) /\ callee \in Coros
    BY DEF Resume, Consumes
  <2>2. -argc \in Int /\ frames[running][frame].want + (-argc) \in Nat
        /\ frame \in 1..Len(frames[running])
    BY <2>1, WantEnough DEF Frame
  <2>3. Taller(-argc) \in [AllCo -> Seq(Frame)]
    BY <2>2, TallerFrames
  <2>4. /\ stack' = [stack EXCEPT ![running] = TakenArguments(argc),
                                  ![callee] = below \o Reverse(passed)]
        /\ frames' = [Taller(-argc) EXCEPT ![callee] = kept]
        /\ parent' = ResumedBy(callee)
        /\ running' = callee
        /\ state' = [state EXCEPT ![callee] = "RUNNING"]
        /\ frame' = Len(kept)
        /\ status' = IF kept = <<>> THEN "undefined" ELSE status
        /\ UNCHANGED <<currentFrame, frameCap>>
    BY <1>2 DEF Resume
  <2>5. kept \in Seq(Frame) /\ below \in Seq(Value)
    <3>1. /\ <<>> \in Seq(Frame) /\ frames[callee] \in Seq(Frame)
          /\ <<>> \in Seq(Value) /\ stack[callee] \in Seq(Value) /\ callee \in Value
      BY <2>1 DEF TypeOK, Value
    <3>2. base \in Seq(Value) /\ kept \in Seq(Frame)
      BY <3>1
    <3> HIDE DEF base, kept, callee
    <3>3. Append(base, callee) \in Seq(Value)
      BY <3>1, <3>2
    <3>4. QED
      BY <3>2, <3>3
  <2>6. passed \in Seq(Value)
    <3>1. stack[running] \in Seq(Value)
      BY DEF TypeOK
    <3>2. \A q \in Seq(Value) : \A n \in Nat : n <= Len(q) => SubSeq(q, Len(q) - n + 1, Len(q)) \in Seq(Value)
      OBVIOUS
    <3>3. argc <= Len(stack[running])
      BY <2>1, <3>1 DEF Depth
    <3>4. QED
      BY <3>1, <3>2, <3>3 DEF Depth
  <2>7. TakenArguments(argc) \in Seq(Value)
    <3>1. argc <= Depth(running)
      BY <2>1 DEF Depth, TypeOK
    <3>2. QED
      BY <3>1, PoppedStack DEF TakenArguments
  <2>8. Reverse(passed) \in Seq(Value)
    BY <2>6, ReverseType
  <2> HIDE DEF passed, below, kept, callee
  <2>9. stack' \in [AllCo -> Seq(Value)]
    <3>1. below \o Reverse(passed) \in Seq(Value)
      BY <2>5, <2>8
    <3>2. stack \in [AllCo -> Seq(Value)]
      BY DEF TypeOK
    <3>3. QED
      BY <2>4, <2>7, <3>1, <3>2
  <2>10. frames' \in [AllCo -> Seq(Frame)]
    BY <2>3, <2>4, <2>5
  <2>11. parent' \in [AllCo -> AllCo \cup {NULL}]
    BY <2>1, <2>4 DEF ResumedBy, TypeOK
  <2>12. state' \in [AllCo -> States] /\ Len(kept) \in Nat /\ callee \in AllCo
    BY <2>1, <2>4, <2>5 DEF TypeOK, States
  <2>13. QED
    BY <2>4, <2>9, <2>10, <2>11, <2>12 DEF TypeOK
<1>3. QED
  BY <1>1, <1>2

LEMMA SuspendType ==
  ASSUME TypeOK, FrameInv, NEW p \in AllCo, NEW handed, NEW t \in {-1, 0},
         Consumes(1), SuspendTo(p, handed, t),
         frames[p] # <<>> /\ Depth(p) # 0 => handed \in Seq(Value)
  PROVE  TypeOK'
<1> DEFINE arity == Arity[frames[running][frame].closure]
           lost == arity + 1 > Depth(running) \/ frames[p] = <<>> \/ Depth(p) = 0
<1>1. CASE lost
  BY <1>1, UndefinedType DEF SuspendTo
<1>2. CASE ~lost
  <2>1. frame \in 1..Len(frames[running]) /\ frames[running][frame] \in Frame
        /\ frames[running][frame].want - 1 \in Nat
    BY WantEnough DEF Consumes
  <2>2. Taller(t) \in [AllCo -> Seq(Frame)]
    <3>1. frames[running][frame].want + t \in Nat /\ t \in Int
      BY <2>1 DEF Frame
    <3>2. QED
      BY <2>1, <3>1, TallerFrames
  <2>3. arity \in Nat
    BY <2>1 DEF Frame
  <2>4. Popped(arity + 1) \in Seq(Value)
    <3> HIDE DEF arity
    <3>1. arity + 1 \in Nat /\ Depth(running) \in Nat
      BY <2>3 DEF TypeOK, Depth
    <3>2. arity + 1 <= Depth(running)
      BY <1>2, <3>1
    <3>3. QED
      BY <3>1, <3>2, PoppedStack
  <2>5. /\ stack' = [stack EXCEPT ![running] = Popped(arity + 1), ![p] = handed]
        /\ frames' = Taller(t)
        /\ state' = Paused
        /\ running' = p
        /\ frame' = currentFrame[p]
        /\ UNCHANGED <<status, parent, currentFrame, frameCap>>
    BY <1>2 DEF SuspendTo
  <2>6. handed \in Seq(Value)
    BY <1>2
  <2> HIDE DEF arity
  <2>7. stack' \in [AllCo -> Seq(Value)]
    BY <2>4, <2>5, <2>6 DEF TypeOK
  <2>8. state' \in [AllCo -> States]
    BY <2>5 DEF Paused, States, TypeOK
  <2>9. QED
    BY <2>2, <2>5, <2>7, <2>8 DEF TypeOK
<1>3. QED
  BY <1>1, <1>2

LEMMA YieldType == TypeOK /\ FrameInv /\ Yield => TypeOK'
<1> SUFFICES ASSUME TypeOK, FrameInv, Yield PROVE TypeOK'
  OBVIOUS
<1>1. CASE parent[running] = NULL
  BY <1>1, ErrorType DEF Yield
<1>2. CASE parent[running] # NULL
  <2> DEFINE p == parent[running]
             handed == Append(Front(stack[p]), Peek(0))
  <2>1. Consumes(1) /\ SuspendTo(p, handed, -1)
    BY <1>2 DEF Yield
  <2>2. p \in AllCo
    BY <1>2 DEF TypeOK
  <2>3. Peek(0) \in Value
    <3>1. 0 < Depth(running)
      BY <2>1 DEF Consumes, Depth, TypeOK
    <3>2. QED
      BY <3>1, PeekValue
  <2>4. Depth(p) # 0 => handed \in Seq(Value)
    BY <2>2, <2>3 DEF TypeOK, Depth, Front
  <2> HIDE DEF p, handed
  <2>5. QED
    BY <2>1, <2>2, <2>4, SuspendType
<1>3. QED
  BY <1>1, <1>2

LEMMA AwaitType == TypeOK /\ FrameInv /\ Await => TypeOK'
<1> SUFFICES ASSUME TypeOK, FrameInv, Await PROVE TypeOK'
  OBVIOUS
<1>1. CASE parent[running] = NULL
  BY <1>1, ErrorType DEF Await
<1>2. CASE parent[running] # NULL
  <2> DEFINE p == parent[running]
  <2>1. Consumes(1) /\ SuspendTo(p, stack[p], 0)
    BY <1>2 DEF Await
  <2>2. p \in AllCo
    BY <1>2 DEF TypeOK
  <2>3. stack[p] \in Seq(Value)
    BY <2>2 DEF TypeOK
  <2>4. QED
    BY <2>1, <2>2, <2>3, SuspendType
<1>3. QED
  BY <1>1, <1>2

LEMMA ReturnFromCallType == TypeOK /\ FrameInv /\ ReturnFromCall => TypeOK'
<1> SUFFICES ASSUME TypeOK, FrameInv, ReturnFromCall PROVE TypeOK'
  OBVIOUS
<1>1. Emitted(1) /\ 1 <= Depth(running) /\ Len(frames[running]) > 1
  BY DEF ReturnFromCall, Consumes
<1>2. Popped(1) \in Seq(Value) /\ Peek(0) \in Value
  <2>1. 0 < Depth(running)
    BY <1>1 DEF Depth, TypeOK
  <2>2. QED
    BY <1>1, <2>1, PoppedStack, PeekValue
<1>3. Front(frames[running]) \in Seq(Frame) /\ Len(frames[running]) - 1 \in Nat
  BY <1>1 DEF Front, TypeOK
<1>4. /\ stack' = [stack EXCEPT ![running] = Append(Popped(1), Peek(0))]
      /\ frames' = [frames EXCEPT ![running] = Front(frames[running])]
      /\ frame' = Len(frames[running]) - 1
      /\ currentFrame' = [currentFrame EXCEPT ![running] = Len(frames[running]) - 1]
      /\ UNCHANGED <<status, running, parent, state, frameCap>>
  BY DEF ReturnFromCall, CurrentIs
<1>5. stack' \in [AllCo -> Seq(Value)] /\ frames' \in [AllCo -> Seq(Frame)]
  <2>1. Append(Popped(1), Peek(0)) \in Seq(Value)
    BY <1>2
  <2>2. QED
    BY <1>3, <1>4, <2>1 DEF TypeOK
<1>6. currentFrame' \in [AllCo -> Nat] /\ frame' \in Nat
  BY <1>3, <1>4 DEF TypeOK
<1>7. QED
  BY <1>4, <1>5, <1>6 DEF TypeOK

LEMMA ReturnFromCoroutineType == TypeOK /\ FrameInv /\ ReturnFromCoroutine => TypeOK'
<1> SUFFICES ASSUME TypeOK, FrameInv, ReturnFromCoroutine PROVE TypeOK'
  OBVIOUS
<1> DEFINE p == parent[running]
<1>1. Emitted(1) /\ 1 <= Depth(running) /\ p # NULL
  BY DEF ReturnFromCoroutine, Consumes
<1>2. Popped(1) \in Seq(Value) /\ Peek(0) \in Value
  <2>1. 0 < Depth(running)
    BY <1>1 DEF Depth, TypeOK
  <2>2. QED
    BY <1>1, <2>1, PoppedStack, PeekValue
<1>3. p \in AllCo
  BY <1>1 DEF TypeOK
<1>4. /\ stack' = [stack EXCEPT ![running] = Popped(1), ![p] = Append(stack[p], Peek(0))]
      /\ frames' = [frames EXCEPT ![running] = <<>>]
      /\ state' = [state EXCEPT ![running] = "COMPLETE"]
      /\ running' = p
      /\ frame' = Len(frames[p])
      /\ currentFrame' = [currentFrame EXCEPT ![p] = Len(frames[p])]
      /\ status' = IF frames[p] = <<>> THEN "undefined" ELSE status
      /\ UNCHANGED <<parent, frameCap>>
  BY DEF ReturnFromCoroutine, CurrentIs
<1>5. stack' \in [AllCo -> Seq(Value)]
  <2>1. Append(stack[p], Peek(0)) \in Seq(Value)
    BY <1>2, <1>3 DEF TypeOK
  <2>2. stack \in [AllCo -> Seq(Value)]
    BY DEF TypeOK
  <2> HIDE DEF p
  <2>3. QED
    BY <1>2, <1>4, <2>1, <2>2
<1>6. Len(frames[p]) \in Nat
  BY <1>3 DEF TypeOK
<1>7. /\ frames' \in [AllCo -> Seq(Frame)]
      /\ currentFrame' \in [AllCo -> Nat]
      /\ state' \in [AllCo -> States]
  <2>1. frames' \in [AllCo -> Seq(Frame)]
    BY <1>4 DEF TypeOK
  <2>2. currentFrame' \in [AllCo -> Nat]
    BY <1>4, <1>6 DEF TypeOK
  <2>3. state' \in [AllCo -> States]
    BY <1>4 DEF TypeOK, States
  <2>4. QED
    BY <2>1, <2>2, <2>3
<1> HIDE DEF p
<1>8. QED
  BY <1>3, <1>4, <1>5, <1>6, <1>7 DEF TypeOK

LEMMA ReturnFromScriptType == TypeOK /\ FrameInv /\ ReturnFromScript => TypeOK'
<1> SUFFICES ASSUME TypeOK, FrameInv, ReturnFromScript PROVE TypeOK'
  OBVIOUS
<1>1. Emitted(1) /\ 1 <= Depth(running)
  BY DEF ReturnFromScript, Consumes
<1>2. Popped(1) \in Seq(Value)
  BY <1>1, PoppedStack
<1>3. Taller(-1) \in [AllCo -> Seq(Frame)]
  <2>1. frame \in 1..Len(frames[running]) /\ frames[running][frame].want + (-1) \in Nat
    BY <1>1, WantEnough DEF Frame
  <2>2. -1 \in Int
    OBVIOUS
  <2>3. QED
    BY <2>1, <2>2, TallerFrames
<1>4. /\ stack' = [stack EXCEPT ![running] = Popped(1)]
      /\ frames' = IF Repl THEN Taller(-1) ELSE [frames EXCEPT ![running] = <<>>]
      /\ state' = [state EXCEPT ![running] = IF Repl THEN "READY" ELSE "COMPLETE"]
      /\ status' = IF Repl THEN "prompt" ELSE "done"
      /\ UNCHANGED <<running, frame, parent, currentFrame, frameCap>>
  BY DEF ReturnFromScript
<1>5. frames' \in [AllCo -> Seq(Frame)]
  BY <1>3, <1>4 DEF TypeOK
<1>6. QED
  BY <1>2, <1>4, <1>5 DEF TypeOK, States

LEMMA PushType == ASSUME TypeOK, FrameInv, NEW v \in Pushable, Push(v) PROVE TypeOK'
<1>1. Emitted(0) /\ v \in Value
  BY DEF Push, Pushable
<1>2. Taller(1) \in [AllCo -> Seq(Frame)]
  <2>1. frame \in 1..Len(frames[running]) /\ frames[running][frame].want + 1 \in Nat
    BY <1>1, WantEnough DEF Frame
  <2>2. 1 \in Int
    OBVIOUS
  <2>3. QED
    BY <2>1, <2>2, TallerFrames
<1>3. stack' = [stack EXCEPT ![running] = Append(@, v)] /\ frames' = Taller(1)
      /\ UNCHANGED <<status, running, frame, parent, state, currentFrame, frameCap>>
  BY DEF Push
<1>4. stack' \in [AllCo -> Seq(Value)]
  BY <1>1, <1>3 DEF TypeOK
<1>5. QED
  BY <1>2, <1>3, <1>4 DEF TypeOK

LEMMA PopType == TypeOK /\ FrameInv /\ Pop => TypeOK'
<1> SUFFICES ASSUME TypeOK, FrameInv, Pop PROVE TypeOK'
  OBVIOUS
<1>1. Emitted(1) /\ 1 <= Depth(running)
  BY DEF Pop, Consumes
<1>2. Taller(-1) \in [AllCo -> Seq(Frame)]
  <2>1. frame \in 1..Len(frames[running]) /\ frames[running][frame].want + (-1) \in Nat
    BY <1>1, WantEnough DEF Frame
  <2>2. -1 \in Int
    OBVIOUS
  <2>3. QED
    BY <2>1, <2>2, TallerFrames
<1>3. Popped(1) \in Seq(Value)
  BY <1>1, PoppedStack
<1>4. stack' = [stack EXCEPT ![running] = Popped(1)] /\ frames' = Taller(-1)
      /\ UNCHANGED <<status, running, frame, parent, state, currentFrame, frameCap>>
  BY DEF Pop
<1>5. QED
  BY <1>2, <1>3, <1>4 DEF TypeOK

\* Every step keeps the types, given that the current frame is the top one.
LEMMA TypeStep == TypeOK /\ FrameInv /\ [Next]_vars => TypeOK'
<1> SUFFICES ASSUME TypeOK, FrameInv, [Next]_vars PROVE TypeOK'
  OBVIOUS
<1>1. CASE UNCHANGED vars
  BY <1>1 DEF vars, TypeOK
<1>2. CASE \E v \in Pushable : Push(v)
  BY <1>2, PushType
<1>3. CASE Pop
  BY <1>3, PopType
<1>4. CASE \E c \in Coros : CreateCoroutine(c)
  BY <1>4, CreateType
<1>5. CASE \E argc \in 0..MaxTemps - 1 : Call(argc)
  <2>1. PICK argc \in 0..MaxTemps - 1 : Call(argc)
    BY <1>5
  <2>2. argc \in Nat
    BY <2>1
  <2>3. CASE CallUncallable(argc)
    BY <2>3, ErrorType DEF CallUncallable
  <2>4. QED
    BY <2>1, <2>2, <2>3, CallClosureType, CallNativeType, ResumeType DEF Call
<1>6. CASE Yield \/ Await
  BY <1>6, YieldType, AwaitType
<1>7. CASE ReturnFromCall \/ ReturnFromCoroutine \/ ReturnFromScript
  BY <1>7, ReturnFromCallType, ReturnFromCoroutineType, ReturnFromScriptType
<1>8. CASE NextLine
  BY <1>8 DEF NextLine, TypeOK
<1>9. CASE Underflow
  BY <1>9, UndefinedType DEF Underflow
<1>10. QED
  BY <1>1, <1>2, <1>3, <1>4, <1>5, <1>6, <1>7, <1>8, <1>9 DEF Next

-----------------------------------------------------------------------------
(* The chain.                                                                *)

\* The coroutine to give control back to is the last but one of the chain.
LEMMA ResumerOnChain ==
  ASSUME TypeOK, ChainInv, NEW s, IsActive(s), parent[running] # NULL
  PROVE  /\ Len(s) > 1
         /\ s[Len(s) - 1] = parent[running]
         /\ parent[running] # running
         /\ parent[running] # Main /\ frames[parent[running]] # <<>> =>
              state[parent[running]] = "RUNNING"
<1>1. s \in Seq(AllCo) /\ s # <<>> /\ s[1] = Main /\ s[Len(s)] = running
      /\ (\A i \in 1..Len(s) - 1 : parent[s[i + 1]] = s[i])
      /\ (\A i, j \in 1..Len(s) : s[i] = s[j] => i = j)
  BY DEF IsActive, IsChain
<1>2. Len(s) > 1
  BY <1>1 DEF ChainInv
<1>3. s[Len(s) - 1] = parent[running]
  BY <1>1, <1>2
<1>4. parent[running] # running
  BY <1>1, <1>2, <1>3
<1>5. parent[running] # Main => Len(s) - 1 \in 2..Len(s)
  BY <1>1, <1>2, <1>3
<1>6. QED
  BY <1>2, <1>3, <1>4, <1>5 DEF IsActive

\* Without a resumer, the running coroutine is main.
LEMMA NoResumer ==
  ASSUME TypeOK, NEW s, IsActive(s), parent[running] = NULL
  PROVE  running = Main
<1>1. s \in Seq(AllCo) /\ s # <<>> /\ s[1] = Main /\ s[Len(s)] = running
      /\ (\A i \in 1..Len(s) - 1 : parent[s[i + 1]] = s[i])
  BY DEF IsActive, IsChain
<1>2. PICK n \in Nat \ {0} : n = Len(s)
  BY <1>1
<1>3. CASE n = 1
  BY <1>1, <1>2, <1>3
<1>4. CASE n # 1
  <2>1. n - 1 \in 1..n - 1 /\ n - 1 \in 1..n
    BY <1>4
  <2>2. s[n - 1] \in AllCo
    BY <1>1, <1>2, <2>1
  <2>3. parent[s[(n - 1) + 1]] = s[n - 1]
    BY <1>1, <1>2, <2>1
  <2>4. (n - 1) + 1 = n
    OBVIOUS
  <2>5. QED
    BY <1>1, <1>2, <2>2, <2>3, <2>4
<1>5. QED
  BY <1>3, <1>4

(* A step of the running coroutine that goes on running keeps the chain: it  *)
(* may reset another coroutine or allocate one, and leaves the rest alone.   *)
LEMMA ChainKept ==
  ASSUME TypeOK, FrameInv, ChainInv, status = "run",
         UNCHANGED <<status, running, parent>>,
         state'[running] = state[running],
         \A c \in AllCo : c # running =>
           \/ stack'[c] = stack[c] /\ frames'[c] = frames[c] /\ state'[c] = state[c]
           \/ c # Main /\ frames'[c] = <<>> /\ state'[c] = "READY"
           \/ c # Main /\ state[c] = "UNALLOCATED" /\ state'[c] = "READY"
  PROVE  ChainInv'
<1>1. PICK s : IsActive(s)
  BY DEF ChainInv, Defined
<1>2. s \in Seq(AllCo) /\ s # <<>> /\ s[1] = Main /\ s[Len(s)] = running
      /\ (\A i, j \in 1..Len(s) : s[i] = s[j] => i = j)
  BY <1>1 DEF IsActive, IsChain
<1>3. IsChain(s)'
  BY <1>1 DEF IsActive, IsChain
<1>4. ASSUME NEW i \in 2..Len(s)
      PROVE  state'[s[i]] = "RUNNING" \/ (state'[s[i]] = "READY" /\ frames'[s[i]] = <<>>)
  <2>1. s[i] \in AllCo /\ s[i] # Main
    BY <1>2
  <2>2. CASE s[i] = running
    BY <2>1, <2>2 DEF FrameInv
  <2>3. CASE s[i] # running
    BY <1>1, <2>1, <2>3 DEF IsActive
  <2>4. QED
    BY <2>2, <2>3
<1>5. ASSUME NEW i \in 1..Len(s) - 1, frames'[s[i]] # <<>>
      PROVE  stack'[s[i]] # <<>> /\ Last(stack'[s[i]]) = s[i + 1]
  <2>1. s[i] \in AllCo /\ s[i] # running
    BY <1>2
  <2>2. s[i] # Main => i \in 2..Len(s)
    BY <1>2
  <2>3. s[i] # Main => state[s[i]] # "UNALLOCATED"
    BY <1>1, <2>2 DEF IsActive
  <2>4. stack'[s[i]] = stack[s[i]] /\ frames'[s[i]] = frames[s[i]]
    BY <1>5, <2>1, <2>3
  <2>5. QED
    BY <1>1, <1>5, <2>4 DEF IsActive
<1>6. ASSUME ~Repl, NEW c \in Coros, state'[c] = "RUNNING"
      PROVE  \E i \in 1..Len(s) : s[i] = c
  <2>1. c = running \/ state[c] = "RUNNING"
    BY <1>6
  <2>2. Len(s) \in 1..Len(s)
    BY <1>2
  <2>3. QED
    BY <1>1, <1>2, <1>6, <2>1, <2>2 DEF IsActive
<1>7. IsActive(s)'
  BY <1>2, <1>3, <1>4, <1>5, <1>6 DEF IsActive
<1>8. QED
  BY <1>7 DEF ChainInv

\* runtime_error leaves the main coroutine alone on the chain.
LEMMA ChainUnwound ==
  ASSUME TypeOK, ChainInv, RuntimeError
  PROVE  ChainInv'
<1> DEFINE s == <<Main>>
<1>1. s \in Seq(AllCo) /\ Len(s) = 1 /\ s # <<>> /\ s[1] = Main
  OBVIOUS
<1>2. running' = Main /\ parent' = parent /\ status' = IF Repl THEN "prompt" ELSE "failed"
  BY DEF RuntimeError
<1> HIDE DEF s
<1>3. IsChain(s)'
  BY <1>1, <1>2 DEF IsChain
<1>4. IsActive(s)'
  BY <1>1, <1>2, <1>3 DEF IsActive
<1>5. QED
  BY <1>2, <1>4 DEF ChainInv

\* A coroutine that can be resumed and has a frame is not on the chain.
LEMMA NotOnChain ==
  ASSUME NEW s, IsActive(s), NEW callee \in Coros, state[callee] # "RUNNING",
         frames[callee] # <<>>
  PROVE  \A i \in 1..Len(s) : s[i] \in AllCo /\ s[i] # callee
<1> SUFFICES ASSUME NEW i \in 1..Len(s) PROVE s[i] \in AllCo /\ s[i] # callee
  OBVIOUS
<1>1. s \in Seq(AllCo) /\ s[1] = Main
  BY DEF IsActive, IsChain
<1>2. CASE i = 1
  BY <1>1, <1>2
<1>3. CASE i \in 2..Len(s)
  BY <1>1, <1>3 DEF IsActive
<1>4. QED
  BY <1>1, <1>2, <1>3

\* Resuming a coroutine that is not on the chain puts it at the end.
LEMMA LongerChain ==
  ASSUME TypeOK, NEW s, IsActive(s), NEW callee \in Coros,
         \A i \in 1..Len(s) : s[i] # callee,
         running' = callee, parent' = [parent EXCEPT ![callee] = running]
  PROVE  IsChain(Append(s, callee))'
<1>1. s \in Seq(AllCo) /\ s # <<>> /\ s[1] = Main /\ s[Len(s)] = running
      /\ (\A i, j \in 1..Len(s) : s[i] = s[j] => i = j)
      /\ (\A i \in 1..Len(s) - 1 : parent[s[i + 1]] = s[i])
  BY DEF IsActive, IsChain
<1> DEFINE t == Append(s, callee)
<1>2. /\ t \in Seq(AllCo) /\ t # <<>> /\ Len(t) = Len(s) + 1
      /\ t[Len(t)] = callee /\ (\A i \in 1..Len(s) : t[i] = s[i])
  BY <1>1
<1> HIDE DEF t
<1>3. t[1] = Main /\ Len(s) \in Nat \ {0}
  BY <1>1, <1>2
<1>4. ASSUME NEW i \in 1..Len(t) - 1 PROVE parent'[t[i + 1]] = t[i]
  <2>1. CASE i = Len(s)
    BY <1>1, <1>2, <2>1 DEF TypeOK
  <2>2. CASE i \in 1..Len(s) - 1
    <3>1. i \in 1..Len(s) /\ i + 1 \in 1..Len(s)
      BY <1>3, <2>2
    <3>2. t[i] = s[i] /\ t[i + 1] = s[i + 1] /\ s[i + 1] \in AllCo /\ s[i + 1] # callee
      BY <1>1, <1>2, <3>1
    <3>3. parent'[s[i + 1]] = parent[s[i + 1]]
      BY <3>2 DEF TypeOK
    <3>4. QED
      BY <1>1, <2>2, <3>2, <3>3
  <2>3. QED
    BY <1>2, <1>3, <2>1, <2>2
<1>5. ASSUME NEW i \in 1..Len(t), NEW j \in 1..Len(t), t[i] = t[j] PROVE i = j
  BY <1>1, <1>2, <1>3, <1>5
<1>6. IsChain(t)'
  BY <1>2, <1>3, <1>4, <1>5 DEF IsChain
<1>7. QED
  BY <1>6 DEF t

\* A resumed coroutine that has a frame is new to the chain, and becomes its end.
LEMMA ChainGrows ==
  ASSUME TypeOK, FrameInv, ChainInv, status = "run",
         NEW callee \in Coros, state[callee] # "RUNNING",
         running' = callee, status' = "run",
         parent' = [parent EXCEPT ![callee] = running],
         state' = [state EXCEPT ![callee] = "RUNNING"],
         frames[callee] # <<>>,
         \A c \in AllCo : c # callee => (frames'[c] = <<>> <=> frames[c] = <<>>),
         \A c \in AllCo : c # callee /\ c # running => stack'[c] = stack[c],
         stack'[running] # <<>>, Last(stack'[running]) = callee
  PROVE  ChainInv'
<1>1. PICK s : IsActive(s)
  BY DEF ChainInv, Defined
<1>2. s \in Seq(AllCo) /\ s # <<>> /\ s[1] = Main /\ s[Len(s)] = running
      /\ (\A i, j \in 1..Len(s) : s[i] = s[j] => i = j)
  BY <1>1 DEF IsActive, IsChain
<1>3. \A i \in 1..Len(s) : s[i] \in AllCo /\ s[i] # callee
  BY <1>1, NotOnChain
<1> DEFINE t == Append(s, callee)
<1>4. /\ t \in Seq(AllCo) /\ Len(t) = Len(s) + 1
      /\ t[Len(t)] = callee /\ (\A i \in 1..Len(s) : t[i] = s[i])
  BY <1>2
<1>5. IsChain(t)'
  BY <1>1, <1>3, LongerChain
<1> HIDE DEF t
<1>6. ASSUME NEW i \in 2..Len(t)
      PROVE  state'[t[i]] = "RUNNING" \/ (state'[t[i]] = "READY" /\ frames'[t[i]] = <<>>)
  <2>1. CASE i = Len(t)
    BY <1>4, <2>1 DEF TypeOK
  <2>2. CASE i \in 2..Len(s)
    <3>1. i \in 1..Len(s) /\ t[i] = s[i] /\ s[i] \in AllCo /\ s[i] # callee
      BY <1>2, <1>3, <1>4, <2>2
    <3>2. state'[s[i]] = state[s[i]] /\ (frames'[s[i]] = <<>> <=> frames[s[i]] = <<>>)
      BY <3>1 DEF TypeOK
    <3>3. state[s[i]] = "RUNNING" \/ (state[s[i]] = "READY" /\ frames[s[i]] = <<>>)
      BY <1>1, <2>2 DEF IsActive
    <3>4. QED
      BY <3>1, <3>2, <3>3
  <2>3. QED
    BY <1>2, <1>4, <2>1, <2>2
<1>7. ASSUME NEW i \in 1..Len(t) - 1, frames'[t[i]] # <<>>
      PROVE  stack'[t[i]] # <<>> /\ Last(stack'[t[i]]) = t[i + 1]
  <2>1. CASE i = Len(s)
    BY <1>2, <1>4, <2>1
  <2>2. CASE i \in 1..Len(s) - 1
    <3>1. s[i] # running /\ s[i] # callee /\ s[i] \in AllCo /\ t[i] = s[i] /\ t[i + 1] = s[i + 1]
      <4>1. i \in 1..Len(s) /\ i + 1 \in 1..Len(s) /\ i # Len(s) /\ Len(s) \in 1..Len(s)
        BY <1>2, <2>2
      <4>2. QED
        BY <1>2, <1>3, <1>4, <4>1
    <3>2. QED
      BY <1>1, <1>7, <2>2, <3>1 DEF IsActive
  <2>3. QED
    BY <1>2, <1>4, <2>1, <2>2
<1>8. ASSUME ~Repl, NEW c \in Coros, state'[c] = "RUNNING"
      PROVE  \E i \in 1..Len(t) : t[i] = c
  <2>1. CASE c = callee
    BY <1>2, <1>4, <2>1
  <2>2. CASE c # callee
    <3>1. PICK i \in 1..Len(s) : s[i] = c
      BY <1>1, <1>8, <2>2 DEF IsActive, TypeOK
    <3>2. QED
      BY <1>2, <1>4, <3>1
  <2>3. QED
    BY <2>1, <2>2
<1>9. IsActive(t)'
  BY <1>4, <1>5, <1>6, <1>7, <1>8 DEF IsActive
<1>10. parent'[Main] = NULL
  BY DEF ChainInv, TypeOK
<1>11. QED
  BY <1>9, <1>10 DEF ChainInv

\* Giving control back takes the last coroutine off the chain.
LEMMA ShorterChain ==
  ASSUME TypeOK, ChainInv, NEW s, IsActive(s), parent[running] # NULL,
         running' = parent[running], UNCHANGED parent
  PROVE  /\ IsChain(Front(s))'
         /\ Front(s) \in Seq(AllCo) /\ Len(Front(s)) = Len(s) - 1
         /\ \A i \in 1..Len(s) - 1 : Front(s)[i] = s[i] /\ s[i] # running /\ s[i] \in AllCo
<1>1. s \in Seq(AllCo) /\ s # <<>> /\ s[1] = Main /\ s[Len(s)] = running
      /\ (\A i, j \in 1..Len(s) : s[i] = s[j] => i = j)
      /\ (\A i \in 1..Len(s) - 1 : parent[s[i + 1]] = s[i])
  BY DEF IsActive, IsChain
<1>2. Len(s) > 1 /\ s[Len(s) - 1] = running'
  BY ResumerOnChain
<1> DEFINE t == Front(s)
<1>3. /\ t \in Seq(AllCo) /\ t # <<>> /\ Len(t) = Len(s) - 1
      /\ (\A i \in 1..Len(t) : t[i] = s[i] /\ s[i] # running /\ s[i] \in AllCo)
  <2>1. t \in Seq(AllCo) /\ Len(t) = Len(s) - 1 /\ \A i \in 1..Len(s) - 1 : t[i] = s[i]
    BY <1>1, <1>2 DEF Front
  <2>2. Len(t) # 0
    BY <1>1, <1>2, <2>1
  <2> HIDE DEF t
  <2>3. t # <<>>
    BY <2>2
  <2>4. \A i \in 1..Len(s) - 1 : s[i] # running /\ s[i] \in AllCo
    BY <1>1
  <2>5. QED
    BY <2>1, <2>3, <2>4
<1> HIDE DEF t
<1>4. IsChain(t)'
  <2>1. t[1] = Main /\ t[Len(t)] = running'
    BY <1>1, <1>2, <1>3
  <2>2. \A i \in 1..Len(t) - 1 : parent'[t[i + 1]] = t[i]
    BY <1>1, <1>3
  <2>3. \A i, j \in 1..Len(t) : t[i] = t[j] => i = j
    BY <1>1, <1>3
  <2>4. QED
    BY <1>3, <2>1, <2>2, <2>3 DEF IsChain
<1>5. QED
  BY <1>3, <1>4 DEF t

\* Control goes back to a resumer that still has a frame: the chain loses its end.
LEMMA ChainShrinks ==
  ASSUME TypeOK, FrameInv, ChainInv, status = "run", status' = "run",
         parent[running] # NULL, running' = parent[running], UNCHANGED parent,
         state'[running] # "RUNNING",
         \A c \in AllCo : c # running => state'[c] = state[c] /\ frames'[c] = frames[c],
         \A c \in AllCo : c # running /\ c # running' => stack'[c] = stack[c]
  PROVE  ChainInv'
<1>1. PICK s : IsActive(s)
  BY DEF ChainInv, Defined
<1>2. s \in Seq(AllCo) /\ s # <<>> /\ s[1] = Main /\ s[Len(s)] = running
      /\ (\A i, j \in 1..Len(s) : s[i] = s[j] => i = j)
  BY <1>1 DEF IsActive, IsChain
<1>3. Len(s) > 1 /\ s[Len(s) - 1] = running'
  BY <1>1, ResumerOnChain
<1> DEFINE t == Front(s)
<1>4. /\ t \in Seq(AllCo) /\ Len(t) = Len(s) - 1
      /\ (\A i \in 1..Len(t) : t[i] = s[i] /\ s[i] # running /\ s[i] \in AllCo)
  BY <1>1, ShorterChain
<1>5. IsChain(t)'
  BY <1>1, ShorterChain
<1> HIDE DEF t
<1>6. ASSUME NEW i \in 2..Len(t)
      PROVE  state'[t[i]] = "RUNNING" \/ (state'[t[i]] = "READY" /\ frames'[t[i]] = <<>>)
  <2>1. i \in 2..Len(s) /\ t[i] = s[i] /\ state'[s[i]] = state[s[i]] /\ frames'[s[i]] = frames[s[i]]
    BY <1>2, <1>4
  <2>2. QED
    BY <1>1, <2>1 DEF IsActive
<1>7. ASSUME NEW i \in 1..Len(t) - 1, frames'[t[i]] # <<>>
      PROVE  stack'[t[i]] # <<>> /\ Last(stack'[t[i]]) = t[i + 1]
  <2>1. t[i] = s[i] /\ t[i + 1] = s[i + 1] /\ i \in 1..Len(s) - 1
        /\ s[i] # running /\ s[i] # running' /\ s[i] \in AllCo
    BY <1>2, <1>3, <1>4
  <2>2. stack'[s[i]] = stack[s[i]] /\ frames'[s[i]] = frames[s[i]]
    BY <2>1
  <2>3. QED
    BY <1>1, <1>7, <2>1, <2>2 DEF IsActive
<1>8. ASSUME ~Repl, NEW c \in Coros, state'[c] = "RUNNING"
      PROVE  \E i \in 1..Len(t) : t[i] = c
  <2>1. c # running /\ state[c] = "RUNNING"
    BY <1>8
  <2>2. PICK i \in 1..Len(s) : s[i] = c
    BY <1>1, <1>8, <2>1 DEF IsActive
  <2>3. i # Len(s)
    BY <1>2, <2>1, <2>2
  <2>4. QED
    BY <1>2, <1>4, <2>2, <2>3
<1>9. IsActive(t)'
  BY <1>4, <1>5, <1>6, <1>7, <1>8 DEF IsActive
<1>10. QED
  BY <1>9 DEF ChainInv

\* The chain before the first instruction, or at any time when main is alone.
LEMMA ChainInit == Init => ChainInv
<1> SUFFICES ASSUME Init PROVE ChainInv
  OBVIOUS
<1> DEFINE s == <<Main>>
<1>1. s \in Seq(AllCo) /\ Len(s) = 1 /\ s # <<>> /\ s[1] = Main
  OBVIOUS
<1>2. running = Main /\ parent[Main] = NULL /\ \A c \in Coros : state[c] # "RUNNING"
  BY DEF Init
<1> HIDE DEF s
<1>3. IsChain(s)
  BY <1>1, <1>2 DEF IsChain
<1>4. IsActive(s)
  BY <1>1, <1>2, <1>3 DEF IsActive
<1>5. QED
  BY <1>2, <1>4 DEF ChainInv

\* Once control is lost there is nothing to show.
LEMMA UndefinedKeeps == TypeOK /\ FrameInv /\ ChainInv /\ Undefined => FrameInv' /\ ChainInv'
BY DEF Undefined, FrameInv, ChainInv, Defined

LEMMA ErrorFrames == TypeOK /\ FrameInv /\ status = "run" /\ RuntimeError => FrameInv'
<1> SUFFICES ASSUME TypeOK, FrameInv, status = "run", RuntimeError PROVE FrameInv'
  OBVIOUS
<1>1. /\ status' \in {"prompt", "failed"} /\ running' = Main /\ currentFrame' = currentFrame
      /\ frames' = [frames EXCEPT ![Main] = <<>>]
  BY DEF RuntimeError
<1>2. \A c \in AllCo : frames'[c] # <<>> => currentFrame'[c] = Len(frames'[c])
  BY <1>1 DEF TypeOK, FrameInv, Defined
<1>3. QED
  BY <1>1, <1>2 DEF FrameInv

LEMMA ErrorKeeps ==
  TypeOK /\ FrameInv /\ ChainInv /\ status = "run" /\ RuntimeError => FrameInv' /\ ChainInv'
BY ErrorFrames, ChainUnwound

-----------------------------------------------------------------------------
(* Each action keeps FrameInv and ChainInv.                                  *)

\* An instruction that only moves values on the running coroutine's stack.
LEMMA LocalStep ==
  ASSUME TypeOK, FrameInv, ChainInv, status = "run",
         NEW d \in Int, frames[running][frame].want + d \in Nat,
         frames' = Taller(d),
         \A c \in AllCo : c # running => stack'[c] = stack[c],
         UNCHANGED <<status, running, frame, parent, state, currentFrame>>
  PROVE  FrameInv' /\ ChainInv'
<1>1. frame \in 1..Len(frames[running])
  BY DEF TypeOK, FrameInv
<1>2. /\ \A c \in AllCo : c # running => frames'[c] = frames[c]
      /\ Len(frames'[running]) = Len(frames[running]) /\ frames'[running] # <<>>
  BY <1>1, TallerFrames
<1>3. running \in AllCo /\ frames[running] # <<>>
  BY DEF TypeOK, FrameInv
<1>4. \A c \in AllCo : frames'[c] # <<>> => currentFrame'[c] = Len(frames'[c])
  BY <1>2, <1>3 DEF FrameInv, Defined
<1>5. FrameInv'
  BY <1>2, <1>4 DEF FrameInv
<1>6. ChainInv'
  BY <1>2, ChainKept
<1>7. QED
  BY <1>5, <1>6

LEMMA PushKeeps ==
  ASSUME TypeOK, FrameInv, ChainInv, NEW v \in Pushable, Push(v)
  PROVE  FrameInv' /\ ChainInv'
<1>1. Emitted(0)
  BY DEF Push
<1>2. status = "run" /\ frames[running][frame].want + 1 \in Nat /\ 1 \in Int
  BY <1>1, WantEnough DEF Frame
<1>3. /\ frames' = Taller(1)
      /\ \A c \in AllCo : c # running => stack'[c] = stack[c]
      /\ UNCHANGED <<status, running, frame, parent, state, currentFrame>>
  BY DEF Push, TypeOK
<1>4. QED
  BY <1>2, <1>3, LocalStep

LEMMA PopKeeps == TypeOK /\ FrameInv /\ ChainInv /\ Pop => FrameInv' /\ ChainInv'
<1> SUFFICES ASSUME TypeOK, FrameInv, ChainInv, Pop PROVE FrameInv' /\ ChainInv'
  OBVIOUS
<1>1. Emitted(1)
  BY DEF Pop, Consumes
<1>2. status = "run" /\ frames[running][frame].want + (-1) \in Nat /\ -1 \in Int
  BY <1>1, WantEnough DEF Frame
<1>3. /\ frames' = Taller(-1)
      /\ \A c \in AllCo : c # running => stack'[c] = stack[c]
      /\ UNCHANGED <<status, running, frame, parent, state, currentFrame>>
  BY DEF Pop, TypeOK
<1>4. QED
  BY <1>2, <1>3, LocalStep

LEMMA CreateKeeps ==
  ASSUME TypeOK, FrameInv, ChainInv, NEW c \in Coros, CreateCoroutine(c)
  PROVE  FrameInv' /\ ChainInv'
<1>1. Emitted(1) /\ state[c] = "UNALLOCATED" /\ status = "run"
  BY DEF CreateCoroutine, Consumes, Emitted
<1>2. CASE Peek(0) \notin Closures
  BY <1>1, <1>2, ErrorKeeps DEF CreateCoroutine
<1>3. CASE Peek(0) \in Closures
  <2>1. PICK first :
          /\ frames' = [frames EXCEPT ![c] = <<first>>]
          /\ currentFrame' = [currentFrame EXCEPT ![c] = 1]
          /\ state' = [state EXCEPT ![c] = "READY"]
          /\ stack' = [stack EXCEPT ![running] = Append(Popped(1), c)]
          /\ UNCHANGED <<status, running, frame, parent>>
    BY <1>3 DEF CreateCoroutine
  <2>2. c # running /\ c # Main /\ running \in AllCo
    BY <1>1 DEF FrameInv, TypeOK
  <2>3. \A d \in AllCo : frames'[d] # <<>> => currentFrame'[d] = Len(frames'[d])
    BY <1>1, <2>1 DEF FrameInv, Defined, TypeOK
  <2>4. FrameInv'
    BY <1>1, <2>1, <2>2, <2>3 DEF FrameInv, TypeOK
  <2>5. state'[running] = state[running]
    BY <2>1, <2>2 DEF TypeOK
  <2>6. \A d \in AllCo : d # running =>
           \/ stack'[d] = stack[d] /\ frames'[d] = frames[d] /\ state'[d] = state[d]
           \/ d # Main /\ state[d] = "UNALLOCATED" /\ state'[d] = "READY"
    BY <1>1, <2>1, <2>2 DEF TypeOK
  <2>7. ChainInv'
    BY <1>1, <2>1, <2>5, <2>6, ChainKept
  <2>8. QED
    BY <2>4, <2>7
<1>4. QED
  BY <1>2, <1>3

LEMMA CallClosureKeeps ==
  ASSUME TypeOK, FrameInv, ChainInv, NEW argc \in Nat, CallClosure(argc)
  PROVE  FrameInv' /\ ChainInv'
<1> DEFINE callee == Peek(argc)
           count == Len(frames[running])
<1>1. Emitted(argc + 1) /\ status = "run"
  BY DEF CallClosure, Consumes, Emitted
<1>2. CASE argc # Arity[callee] \/ count = FramesMax
  BY <1>1, <1>2, ErrorKeeps DEF CallClosure
<1>3. CASE ~(argc # Arity[callee] \/ count = FramesMax)
  <2>1. [closure |-> callee, slots |-> Depth(running) - argc - 1, want |-> 1 + argc] \in Frame
    BY DEF CallClosure, Frame, Depth, TypeOK
  <2>2. PICK called \in Frame :
          /\ frames' = [Taller(-argc) EXCEPT ![running] = Append(@, called)]
          /\ currentFrame' = [currentFrame EXCEPT ![running] = count + 1]
          /\ frame' = count + 1
          /\ UNCHANGED <<status, running, parent, state, stack>>
    BY <1>3, <2>1 DEF CallClosure
  <2>3. frame \in 1..Len(frames[running]) /\ -argc \in Int
        /\ frames[running][frame].want + (-argc) \in Nat
    BY <1>1, WantEnough DEF Frame
  <2>4. /\ Taller(-argc) \in [AllCo -> Seq(Frame)]
        /\ \A c \in AllCo : c # running => Taller(-argc)[c] = frames[c]
        /\ Len(Taller(-argc)[running]) = count
    BY <2>3, TallerFrames
  <2>5. running \in AllCo /\ Taller(-argc)[running] \in Seq(Frame)
    BY <2>4 DEF TypeOK
  <2>6. frames'[running] = Append(Taller(-argc)[running], called)
    BY <2>2, <2>4, <2>5
  <2>7. Len(frames'[running]) = count + 1 /\ frames'[running] # <<>>
    BY <2>2, <2>4, <2>5, <2>6
  <2>8. \A c \in AllCo : c # running => frames'[c] = frames[c]
    BY <2>2, <2>4
  <2>9. \A c \in AllCo : frames'[c] # <<>> => currentFrame'[c] = Len(frames'[c])
    BY <1>1, <2>2, <2>7, <2>8 DEF FrameInv, Defined, TypeOK
  <2>10. FrameInv'
    BY <1>1, <2>2, <2>7, <2>9 DEF FrameInv
  <2>11. ChainInv'
    BY <1>1, <2>2, <2>8, ChainKept
  <2>12. QED
    BY <2>10, <2>11
<1>4. QED
  BY <1>2, <1>3

LEMMA CallNativeKeeps ==
  ASSUME TypeOK, FrameInv, ChainInv, NEW argc \in Nat, CallNative(argc)
  PROVE  FrameInv' /\ ChainInv'
<1> DEFINE target == IF Peek(argc) = ResetFn /\ Peek(0) \in Coros THEN Peek(0) ELSE NULL
<1>1. Emitted(argc + 1) /\ status = "run"
  BY DEF CallNative, Consumes, Emitted
<1>2. CASE RuntimeError
  BY <1>1, <1>2, ErrorKeeps
<1>3. CASE Undefined
  BY <1>3, UndefinedKeeps
<1>4. CASE argc = 1 /\ ~RuntimeError /\ ~Undefined
  <2>1. frame \in 1..Len(frames[running]) /\ -1 \in Int
        /\ frames[running][frame].want + (-1) \in Nat
    BY <1>1, <1>4, WantEnough DEF Frame
  <2>2. /\ Taller(-1) \in [AllCo -> Seq(Frame)]
        /\ \A c \in AllCo : c # running => Taller(-1)[c] = frames[c]
        /\ Len(Taller(-1)[running]) = Len(frames[running])
        /\ Taller(-1)[running] # <<>>
    BY <2>1, TallerFrames
  <2>3. /\ target # running /\ target # Main
        /\ \A c \in AllCo : c # running => stack'[c] = IF c = target THEN <<>> ELSE stack[c]
        /\ frames' = [c \in AllCo |-> IF c = target THEN <<>> ELSE Taller(-1)[c]]
        /\ state' = [c \in AllCo |-> IF c = target THEN "READY" ELSE state[c]]
        /\ UNCHANGED <<status, running, frame, parent, currentFrame, frameCap>>
    BY <1>4 DEF CallNative, ResetState
  <2> HIDE DEF target
  <2>4. running \in AllCo
    BY DEF TypeOK
  <2>5. Len(frames'[running]) = Len(frames[running]) /\ frames'[running] # <<>>
    BY <2>2, <2>3, <2>4
  <2>6. \A c \in AllCo : c # running => frames'[c] = frames[c] \/ frames'[c] = <<>>
    BY <2>2, <2>3
  <2>7. \A c \in AllCo : frames'[c] # <<>> => currentFrame'[c] = Len(frames'[c])
    <3>1. currentFrame[running] = Len(frames[running])
      BY <1>1, <2>4 DEF FrameInv, Defined
    <3>2. QED
      BY <1>1, <2>3, <2>5, <2>6, <3>1 DEF FrameInv, Defined
  <2>8. state'[running] = state[running]
    BY <2>3, <2>4
  <2>9. FrameInv'
    BY <1>1, <2>3, <2>5, <2>7, <2>8 DEF FrameInv
  <2>10. \A c \in AllCo : c # running =>
           \/ stack'[c] = stack[c] /\ frames'[c] = frames[c] /\ state'[c] = state[c]
           \/ c # Main /\ frames'[c] = <<>> /\ state'[c] = "READY"
    BY <2>2, <2>3
  <2>11. ChainInv'
    BY <1>1, <2>3, <2>8, <2>10, ChainKept
  <2>12. QED
    BY <2>9, <2>11
<1>5. QED
  BY <1>2, <1>3, <1>4 DEF CallNative

LEMMA ResumeKeeps ==
  ASSUME TypeOK, FrameInv, ChainInv, NEW argc \in Nat, Resume(argc)
  PROVE  FrameInv' /\ ChainInv'
<1> DEFINE callee == Peek(argc)
           kept == IF state[callee] = "COMPLETE" THEN <<>> ELSE frames[callee]
<1>1. Emitted(argc + 1) /\ status = "run" /\ argc + 1 <= Depth(running) /\ callee \in Coros
  BY DEF Resume, Consumes, Emitted
<1>2. CASE ~Resumable(callee)
  BY <1>1, <1>2, ErrorKeeps DEF Resume
<1>3. CASE Resumable(callee)
  <2>1. PICK arrived :
          /\ stack' = [stack EXCEPT ![running] = TakenArguments(argc), ![callee] = arrived]
          /\ frames' = [Taller(-argc) EXCEPT ![callee] = kept]
          /\ parent' = [parent EXCEPT ![callee] = running]
          /\ running' = callee
          /\ state' = [state EXCEPT ![callee] = "RUNNING"]
          /\ frame' = Len(kept)
          /\ status' = IF kept = <<>> THEN "undefined" ELSE status
          /\ UNCHANGED <<currentFrame, frameCap>>
    BY <1>3 DEF Resume, ResumedBy
  <2>2. CASE kept = <<>>
    <3>1. status' = "undefined"
      BY <2>1, <2>2
    <3>2. parent'[Main] = NULL
      BY <1>1, <2>1 DEF ChainInv, TypeOK
    <3>3. QED
      BY <3>1, <3>2 DEF FrameInv, ChainInv, Defined
  <2>3. CASE kept # <<>>
    <3>1. state[callee] # "RUNNING" /\ callee # running /\ callee # Main /\ running \in AllCo
      BY <1>1, <1>3 DEF Resumable, FrameInv, TypeOK
    <3>2. frame \in 1..Len(frames[running]) /\ -argc \in Int
          /\ frames[running][frame].want + (-argc) \in Nat
      BY <1>1, WantEnough DEF Frame
    <3>3. /\ Taller(-argc) \in [AllCo -> Seq(Frame)]
          /\ \A c \in AllCo : c # running => Taller(-argc)[c] = frames[c]
          /\ Len(Taller(-argc)[running]) = Len(frames[running])
          /\ Taller(-argc)[running] # <<>>
      BY <3>2, TallerFrames
    <3>4. kept = frames[callee]
      BY <2>3
    <3>5. frames[running] # <<>>
      BY <1>1 DEF FrameInv
    <3>6. /\ frames'[callee] = frames[callee]
          /\ frames'[running] = Taller(-argc)[running]
          /\ \A c \in AllCo : c # running => frames'[c] = frames[c]
      BY <1>1, <2>1, <3>1, <3>3, <3>4
    <3>7. stack'[running] = TakenArguments(argc)
          /\ \A c \in AllCo : c # callee /\ c # running => stack'[c] = stack[c]
      BY <1>1, <2>1, <3>1 DEF TypeOK
    <3>8. stack'[running] # <<>> /\ Last(stack'[running]) = callee
      <4>1. Depth(running) \in Nat /\ Depth(running) - argc \in Nat \ {0} /\ argc <= Depth(running)
        BY <1>1, <3>1 DEF Depth, TypeOK
      <4>2. /\ Popped(argc) \in Seq(Value)
            /\ Len(Popped(argc)) = Depth(running) - argc
            /\ \A i \in 1..Depth(running) - argc : Popped(argc)[i] = stack[running][i]
        BY <4>1, PoppedStack
      <4>3. Popped(argc) # <<>>
        BY <4>1, <4>2
      <4>4. Last(Popped(argc)) = stack[running][Depth(running) - argc]
        BY <4>1, <4>2 DEF Last
      <4>5. QED
        BY <3>7, <4>3, <4>4 DEF Peek, TakenArguments
    <3> HIDE DEF callee, kept
    <3>9. status' = "run" /\ frame' = Len(frames[callee]) /\ frames[callee] # <<>>
      BY <1>1, <2>1, <2>3, <3>4
    <3>10. state'[callee] = "RUNNING"
      BY <1>1, <2>1 DEF TypeOK
    <3>11. \A c \in AllCo : frames'[c] # <<>> => currentFrame'[c] = Len(frames'[c])
      BY <1>1, <2>1, <3>3, <3>5, <3>6 DEF FrameInv, Defined
    <3>12. FrameInv'
      BY <2>1, <3>6, <3>9, <3>10, <3>11 DEF FrameInv
    <3>13. ChainInv'
      BY <1>1, <2>1, <3>1, <3>3, <3>5, <3>6, <3>7, <3>8, <3>9, ChainGrows
    <3>14. QED
      BY <3>12, <3>13
  <2>4. QED
    BY <2>2, <2>3
<1>4. QED
  BY <1>2, <1>3

LEMMA SuspendKeeps ==
  ASSUME TypeOK, FrameInv, ChainInv, Consumes(1), parent[running] # NULL,
         NEW handed, NEW t \in {-1, 0}, SuspendTo(parent[running], handed, t)
  PROVE  FrameInv' /\ ChainInv'
<1> DEFINE p == parent[running]
           lost == Arity[frames[running][frame].closure] + 1 > Depth(running)
                     \/ frames[p] = <<>> \/ Depth(p) = 0
<1>1. Emitted(1) /\ status = "run"
  BY DEF Consumes, Emitted
<1>2. CASE lost
  BY <1>2, UndefinedKeeps DEF SuspendTo
<1>3. CASE ~lost
  <2>1. PICK left :
          /\ stack' = [stack EXCEPT ![running] = left, ![p] = handed]
          /\ frames' = Taller(t)
          /\ state' = [state EXCEPT ![running] = "PAUSED"]
          /\ running' = p
          /\ frame' = currentFrame[p]
          /\ UNCHANGED <<status, parent, currentFrame, frameCap>>
    BY <1>3 DEF SuspendTo, Paused
  <2>2. frames[running][frame] \in Frame /\ frames[running][frame].want - 1 \in Nat
        /\ frame \in 1..Len(frames[running])
    BY <1>1, WantEnough
  <2>3. t \in Int /\ frames[running][frame].want + t \in Nat
    BY <2>2 DEF Frame
  <2>4. /\ \A c \in AllCo : c # running => frames'[c] = frames[c]
        /\ Len(frames'[running]) = Len(frames[running]) /\ frames'[running] # <<>>
    BY <2>1, <2>2, <2>3, TallerFrames
  <2>5. PICK s : IsActive(s)
    BY <1>1 DEF ChainInv, Defined
  <2>6. p # running /\ (p # Main => state[p] = "RUNNING") /\ frames[p] # <<>>
    BY <1>3, <2>5, ResumerOnChain
  <2>7. p \in AllCo /\ running \in AllCo
    BY DEF TypeOK
  <2>8. frames[running] # <<>>
    BY <1>1 DEF FrameInv
  <2> HIDE DEF p
  <2>9. \A c \in AllCo : frames'[c] # <<>> => currentFrame'[c] = Len(frames'[c])
    BY <1>1, <2>1, <2>4, <2>7, <2>8 DEF FrameInv, Defined
  <2>10. frame' = Len(frames[p]) /\ frames'[p] = frames[p] /\ state'[p] = state[p]
         /\ state'[running] = "PAUSED"
    BY <1>1, <2>1, <2>4, <2>6, <2>7 DEF FrameInv, Defined, TypeOK
  <2>11. FrameInv'
    BY <1>1, <2>1, <2>6, <2>9, <2>10 DEF FrameInv
  <2>12. \A c \in AllCo : c # running => state'[c] = state[c] /\ frames'[c] = frames[c]
    BY <2>1, <2>4 DEF TypeOK
  <2>13. \A c \in AllCo : c # running /\ c # running' => stack'[c] = stack[c]
    BY <2>1 DEF TypeOK
  <2>14. ChainInv'
    BY <1>1, <2>1, <2>10, <2>12, <2>13, ChainShrinks DEF p
  <2>15. QED
    BY <2>11, <2>14
<1>4. QED
  BY <1>2, <1>3

LEMMA YieldKeeps == TypeOK /\ FrameInv /\ ChainInv /\ Yield => FrameInv' /\ ChainInv'
<1> SUFFICES ASSUME TypeOK, FrameInv, ChainInv, Yield PROVE FrameInv' /\ ChainInv'
  OBVIOUS
<1>1. Consumes(1) /\ status = "run"
  BY DEF Yield, Consumes, Emitted
<1>2. CASE parent[running] = NULL
  BY <1>1, <1>2, ErrorKeeps DEF Yield
<1>3. CASE parent[running] # NULL
  <2>1. PICK handed : SuspendTo(parent[running], handed, -1)
    BY <1>3 DEF Yield
  <2>2. QED
    BY <1>1, <1>3, <2>1, SuspendKeeps
<1>4. QED
  BY <1>2, <1>3

LEMMA AwaitKeeps == TypeOK /\ FrameInv /\ ChainInv /\ Await => FrameInv' /\ ChainInv'
<1> SUFFICES ASSUME TypeOK, FrameInv, ChainInv, Await PROVE FrameInv' /\ ChainInv'
  OBVIOUS
<1>1. Consumes(1) /\ status = "run"
  BY DEF Await, Consumes, Emitted
<1>2. CASE parent[running] = NULL
  BY <1>1, <1>2, ErrorKeeps DEF Await
<1>3. CASE parent[running] # NULL
  <2>1. PICK handed : SuspendTo(parent[running], handed, 0)
    BY <1>3 DEF Await
  <2>2. QED
    BY <1>1, <1>3, <2>1, SuspendKeeps
<1>4. QED
  BY <1>2, <1>3

LEMMA ReturnFromCallKeeps ==
  TypeOK /\ FrameInv /\ ChainInv /\ ReturnFromCall => FrameInv' /\ ChainInv'
<1> SUFFICES ASSUME TypeOK, FrameInv, ChainInv, ReturnFromCall PROVE FrameInv' /\ ChainInv'
  OBVIOUS
<1>1. status = "run" /\ Len(frames[running]) > 1 /\ running \in AllCo
  BY DEF ReturnFromCall, Consumes, Emitted, TypeOK
<1>2. /\ \A c \in AllCo : c # running => stack'[c] = stack[c] /\ frames'[c] = frames[c]
      /\ frames'[running] = Front(frames[running])
      /\ frame' = Len(frames[running]) - 1
      /\ currentFrame' = [currentFrame EXCEPT ![running] = Len(frames[running]) - 1]
      /\ UNCHANGED <<status, running, parent, state, frameCap>>
  BY DEF ReturnFromCall, CurrentIs, TypeOK
<1>3. Len(Front(frames[running])) = Len(frames[running]) - 1 /\ Front(frames[running]) # <<>>
  <2>1. PICK q \in Seq(Frame) : q = frames[running]
    BY DEF TypeOK
  <2>2. Len(Front(q)) = Len(q) - 1 /\ Front(q) \in Seq(Frame) /\ Len(Front(q)) > 0
    BY <1>1, <2>1 DEF Front
  <2>3. Front(q) # <<>>
    BY <2>2
  <2>4. QED
    BY <2>1, <2>2, <2>3
<1>4. \A c \in AllCo : frames'[c] # <<>> => currentFrame'[c] = Len(frames'[c])
  BY <1>1, <1>2, <1>3 DEF FrameInv, Defined, TypeOK
<1>5. FrameInv'
  BY <1>1, <1>2, <1>3, <1>4 DEF FrameInv
<1>6. ChainInv'
  BY <1>1, <1>2, ChainKept
<1>7. QED
  BY <1>5, <1>6

LEMMA ReturnFromCoroutineKeeps ==
  TypeOK /\ FrameInv /\ ChainInv /\ ReturnFromCoroutine => FrameInv' /\ ChainInv'
<1> SUFFICES ASSUME TypeOK, FrameInv, ChainInv, ReturnFromCoroutine
             PROVE  FrameInv' /\ ChainInv'
  OBVIOUS
<1> DEFINE p == parent[running]
<1>1. status = "run" /\ p # NULL /\ p \in AllCo /\ running \in AllCo
  BY DEF ReturnFromCoroutine, Consumes, Emitted, TypeOK
<1>2. PICK x, y :
        /\ stack' = [stack EXCEPT ![running] = x, ![p] = y]
        /\ frames' = [frames EXCEPT ![running] = <<>>]
        /\ state' = [state EXCEPT ![running] = "COMPLETE"]
        /\ running' = p
        /\ frame' = Len(frames[p])
        /\ currentFrame' = [currentFrame EXCEPT ![p] = Len(frames[p])]
        /\ status' = IF frames[p] = <<>> THEN "undefined" ELSE status
        /\ UNCHANGED <<parent, frameCap>>
  BY DEF ReturnFromCoroutine, CurrentIs
<1>3. PICK s : IsActive(s)
  BY <1>1 DEF ChainInv, Defined
<1>4. p # running /\ (p # Main /\ frames[p] # <<>> => state[p] = "RUNNING")
  BY <1>1, <1>3, ResumerOnChain
<1> HIDE DEF p
<1>5. CASE frames[p] = <<>>
  BY <1>2, <1>5 DEF FrameInv, ChainInv, Defined
<1>6. CASE frames[p] # <<>>
  <2>1. status' = "run" /\ frames'[p] = frames[p] /\ state'[p] = state[p]
        /\ state'[running] = "COMPLETE"
    BY <1>1, <1>2, <1>4, <1>6 DEF TypeOK
  <2>2. \A c \in AllCo : c # running => state'[c] = state[c] /\ frames'[c] = frames[c]
    BY <1>2 DEF TypeOK
  <2>3. \A c \in AllCo : frames'[c] # <<>> => currentFrame'[c] = Len(frames'[c])
    BY <1>1, <1>2, <1>4 DEF FrameInv, Defined, TypeOK
  <2>4. FrameInv'
    BY <1>2, <1>4, <1>6, <2>1, <2>3 DEF FrameInv
  <2>5. \A c \in AllCo : c # running /\ c # running' => stack'[c] = stack[c]
    BY <1>2 DEF TypeOK
  <2>6. ChainInv'
    BY <1>1, <1>2, <2>1, <2>2, <2>5, ChainShrinks DEF p
  <2>7. QED
    BY <2>4, <2>6
<1>7. QED
  BY <1>5, <1>6

LEMMA ReturnFromScriptKeeps ==
  TypeOK /\ FrameInv /\ ChainInv /\ ReturnFromScript => FrameInv' /\ ChainInv'
<1> SUFFICES ASSUME TypeOK, FrameInv, ChainInv, ReturnFromScript
             PROVE  FrameInv' /\ ChainInv'
  OBVIOUS
<1>1. Emitted(1) /\ status = "run" /\ parent[running] = NULL
  BY DEF ReturnFromScript, Consumes, Emitted
<1>2. running = Main
  <2>1. PICK s : IsActive(s)
    BY <1>1 DEF ChainInv, Defined
  <2>2. QED
    BY <1>1, <2>1, NoResumer
<1>3. /\ frames' = IF Repl THEN Taller(-1) ELSE [frames EXCEPT ![running] = <<>>]
      /\ status' = IF Repl THEN "prompt" ELSE "done"
      /\ UNCHANGED <<running, parent, currentFrame>>
  BY DEF ReturnFromScript
<1>4. \A c \in AllCo : frames'[c] # <<>> => Len(frames'[c]) = Len(frames[c])
  <2>1. frame \in 1..Len(frames[running]) /\ -1 \in Int
        /\ frames[running][frame].want + (-1) \in Nat
    BY <1>1, WantEnough DEF Frame
  <2>2. /\ \A c \in AllCo : c # running => Taller(-1)[c] = frames[c]
        /\ Len(Taller(-1)[running]) = Len(frames[running])
    BY <2>1, TallerFrames
  <2>3. QED
    BY <1>3, <2>2 DEF TypeOK
<1>5. \A c \in AllCo : frames'[c] # <<>> => frames[c] # <<>>
  <2>1. CASE Repl
    <3>1. frames[running] # <<>>
      BY <1>1 DEF FrameInv
    <3>2. frame \in 1..Len(frames[running]) /\ -1 \in Int
          /\ frames[running][frame].want + (-1) \in Nat
      BY <1>1, WantEnough DEF Frame
    <3>3. \A c \in AllCo : c # running => frames'[c] = frames[c]
      BY <1>3, <2>1, <3>2, TallerFrames
    <3>4. QED
      BY <3>1, <3>3
  <2>2. CASE ~Repl
    BY <1>3, <2>2 DEF TypeOK
  <2>3. QED
    BY <2>1, <2>2
<1>6. FrameInv'
  BY <1>1, <1>2, <1>3, <1>4, <1>5 DEF FrameInv, Defined
<1>7. ChainInv'
  <2> DEFINE s == <<Main>>
  <2>1. s \in Seq(AllCo) /\ Len(s) = 1 /\ s # <<>> /\ s[1] = Main
    OBVIOUS
  <2> HIDE DEF s
  <2>2. IsChain(s)'
    BY <1>2, <1>3, <2>1 DEF IsChain
  <2>3. IsActive(s)'
    BY <1>3, <2>1, <2>2 DEF IsActive
  <2>4. QED
    BY <1>3, <2>3 DEF ChainInv
<1>8. QED
  BY <1>6, <1>7

LEMMA NextLineKeeps == TypeOK /\ FrameInv /\ ChainInv /\ NextLine => FrameInv' /\ ChainInv'
<1> SUFFICES ASSUME TypeOK, FrameInv, ChainInv, NextLine PROVE FrameInv' /\ ChainInv'
  OBVIOUS
<1>1. /\ status = "prompt" /\ running = Main
      /\ frame' = Len(frames[running])
      /\ status' = IF frames[running] = <<>> THEN "undefined" ELSE "run"
      /\ UNCHANGED <<running, parent, state, stack, frames, currentFrame, frameCap>>
  BY DEF NextLine, FrameInv
<1>2. FrameInv'
  BY <1>1 DEF FrameInv, Defined
<1>3. PICK s : IsActive(s)
  BY <1>1 DEF ChainInv, Defined
<1>4. IsChain(s)'
  BY <1>1, <1>3 DEF IsActive, IsChain
<1>5. s \in Seq(AllCo) /\ s # <<>> /\ s[1] = Main /\ s[Len(s)] = Main
      /\ (\A i, j \in 1..Len(s) : s[i] = s[j] => i = j)
  BY <1>1, <1>3 DEF IsActive, IsChain
<1>6. \A i \in 1..Len(s) - 1 : FALSE
  <2> SUFFICES ASSUME NEW i \in 1..Len(s) - 1 PROVE FALSE
    OBVIOUS
  <2>1. 1 \in 1..Len(s) /\ Len(s) \in 1..Len(s) /\ 1 < Len(s)
    BY <1>5
  <2>2. QED
    BY <1>5, <2>1
<1>7. IsActive(s)'
  BY <1>1, <1>3, <1>4, <1>6 DEF IsActive
<1>8. ChainInv'
  BY <1>1, <1>7 DEF ChainInv
<1>9. QED
  BY <1>2, <1>8

-----------------------------------------------------------------------------
(* The invariant and what follows from it.                                   *)

LEMMA IInvInit == Init => IInv
<1> SUFFICES ASSUME Init PROVE IInv
  OBVIOUS
<1>1. FrameInv
  <2>1. frames = [c \in AllCo |->
          IF c = Main THEN <<[closure |-> Script, slots |-> 0, want |-> 1]>> ELSE <<>>]
        /\ currentFrame = [c \in AllCo |-> IF c = Main THEN 1 ELSE 0]
        /\ status = "run" /\ running = Main /\ frame = 1
    BY DEF Init
  <2>2. frames[Main] # <<>> /\ Len(frames[Main]) = 1 /\ \A c \in AllCo : c # Main => frames[c] = <<>>
    BY <2>1
  <2>3. QED
    BY <2>1, <2>2 DEF FrameInv
<1>2. QED
  BY <1>1, InitType, ChainInit DEF IInv

LEMMA IInvStep == IInv /\ [Next]_vars => IInv'
<1> SUFFICES ASSUME TypeOK, FrameInv, ChainInv, [Next]_vars PROVE FrameInv' /\ ChainInv'
  BY TypeStep DEF IInv
<1>1. CASE UNCHANGED vars
  <2>1. FrameInv'
    BY <1>1 DEF vars, FrameInv, Defined
  <2>2. \A s : IsActive(s) => IsActive(s)'
    BY <1>1 DEF vars, IsActive, IsChain
  <2>3. QED
    BY <1>1, <2>1, <2>2 DEF vars, ChainInv, Defined
<1>2. CASE \E v \in Pushable : Push(v)
  BY <1>2, PushKeeps
<1>3. CASE Pop
  BY <1>3, PopKeeps
<1>4. CASE \E c \in Coros : CreateCoroutine(c)
  BY <1>4, CreateKeeps
<1>5. CASE \E argc \in 0..MaxTemps - 1 : Call(argc)
  <2>1. PICK argc \in 0..MaxTemps - 1 : Call(argc)
    BY <1>5
  <2>2. argc \in Nat
    BY <2>1
  <2>3. CASE CallUncallable(argc)
    BY <2>3, ErrorKeeps DEF CallUncallable, Consumes, Emitted
  <2>4. QED
    BY <2>1, <2>2, <2>3, CallClosureKeeps, CallNativeKeeps, ResumeKeeps DEF Call
<1>6. CASE Yield \/ Await
  BY <1>6, YieldKeeps, AwaitKeeps
<1>7. CASE ReturnFromCall \/ ReturnFromCoroutine \/ ReturnFromScript
  BY <1>7, ReturnFromCallKeeps, ReturnFromCoroutineKeeps, ReturnFromScriptKeeps
<1>8. CASE NextLine
  BY <1>8, NextLineKeeps
<1>9. CASE Underflow
  BY <1>9, UndefinedKeeps DEF Underflow
<1>10. QED
  BY <1>1, <1>2, <1>3, <1>4, <1>5, <1>6, <1>7, <1>8, <1>9 DEF Next

\* Together, the three parts of IInv are inductive.
THEOREM Invariance == Spec => []IInv
BY IInvInit, IInvStep, PTL DEF Spec

\* A chain meets no coroutine twice, so it is no longer than there are coroutines.
LEMMA ChainIsBounded ==
  ASSUME NEW s, IsActive(s)
  PROVE  s \in Chains
<1>1. s \in Seq(AllCo) /\ s # <<>> /\ \A i, j \in 1..Len(s) : s[i] = s[j] => i = j
  BY DEF IsActive, IsChain
<1>2. PICK n \in Nat \ {0} : n = Len(s)
  BY <1>1
<1>3. s \in [1..n -> AllCo]
  BY <1>1, <1>2
<1>4. s \in Injection(1..n, AllCo)
  BY <1>1, <1>2, <1>3 DEF Injection, IsInjective
<1>5. IsFiniteSet(AllCo)
  BY FS_AddElement
<1>6. Cardinality(1..n) <= Cardinality(AllCo)
  BY <1>4, <1>5, FS_Injection
<1>7. Cardinality(1..n) = n
  BY FS_Interval
<1>8. n \in 1..Cardinality(AllCo)
  BY <1>5, <1>6, <1>7, FS_CardinalityType
<1>9. QED
  BY <1>3, <1>8 DEF Chains

(* Every variable keeps its type: in particular the saved and the live frame *)
(* indices never go below the frame array.                                   *)
THEOREM TypeCorrect == Spec => []TypeOK
BY Invariance, PTL DEF IInv

(* From the running coroutine the parent links lead to main and meet no      *)
(* coroutine twice, for any program and any number of coroutines.            *)
THEOREM ChainAlwaysReachesMain == Spec => []ChainReachesMain
<1>1. IInv => ChainReachesMain
  BY ChainIsBounded DEF IInv, ChainInv, ChainReachesMain, IsActive
<1>2. QED
  BY <1>1, Invariance, PTL

(* The interpreter's three ideas of the current frame agree: the local       *)
(* pointer of vm_run, current_frame and frame_count.                         *)
THEOREM CurrentFrameAlwaysTop == Spec => []CurrentFrameIsTop
<1>1. IInv => CurrentFrameIsTop
  BY DEF IInv, FrameInv, CurrentFrameIsTop
<1>2. QED
  BY <1>1, Invariance, PTL

(* Each resumer keeps the coroutine it resumed on top of its stack, where    *)
(* do_yield expects it.                                                      *)
THEOREM CalleeAlwaysOnTop == Spec => []CalleeOnTop
<1>1. IInv => CalleeOnTop
  <2> SUFFICES ASSUME IInv, status = "run" PROVE CalleeOnTop
    BY DEF CalleeOnTop
  <2>1. PICK s : IsActive(s)
    BY DEF IInv, ChainInv, Defined
  <2>2. QED
    BY <2>1, ChainIsBounded DEF CalleeOnTop, IsActive
<1>2. QED
  BY <1>1, Invariance, PTL

(* Outside the REPL, no coroutine is ever marked RUNNING without being the   *)
(* current one or an ancestor of it: none is lost.                           *)
THEOREM RunningAlwaysActive == ~Repl => (Spec => []RunningIsActive)
<1> SUFFICES ASSUME ~Repl PROVE Spec => []RunningIsActive
  OBVIOUS
<1>1. IInv => RunningIsActive
  <2> SUFFICES ASSUME IInv, status \in {"run", "prompt"},
                      NEW c \in Coros, state[c] = "RUNNING"
               PROVE  c \in Active
    BY DEF RunningIsActive
  <2>1. PICK s : IsActive(s)
    BY DEF IInv, ChainInv, Defined
  <2>2. PICK i \in 1..Len(s) : s[i] = c
    BY <2>1 DEF IsActive
  <2>3. s \in Chains /\ IsChain(s) /\ s \in Seq(AllCo)
    BY <2>1, ChainIsBounded DEF IsActive
  <2>4. c \in Range(s)
    BY <2>2, <2>3 DEF Range
  <2>5. QED
    BY <2>3, <2>4 DEF Active
<1>2. QED
  BY <1>1, Invariance, PTL

-----------------------------------------------------------------------------
(* The frame arrays.  That a coroutine with a frame has room for one is all  *)
(* that doubling the array needs to make room for another.                   *)

\* A step that makes no frame and moves no array
FramesDrop ==
  frameCap' = frameCap /\ \A c \in AllCo : Len(frames'[c]) <= Len(frames[c])

LEMMA ErrorDrops == TypeOK /\ RuntimeError => FramesDrop
BY DEF TypeOK, RuntimeError, FramesDrop

LEMMA UndefinedDrops == TypeOK /\ Undefined => FramesDrop
BY DEF TypeOK, Undefined, FramesDrop

LEMMA TallerDrops ==
  ASSUME TypeOK, FrameInv, status = "run", NEW d \in Int,
         frames[running][frame].want + d \in Nat,
         UNCHANGED frameCap,
         \A c \in AllCo : frames'[c] = Taller(d)[c] \/ frames'[c] = frames[c] \/ frames'[c] = <<>>
  PROVE  FramesDrop
<1>1. frame \in 1..Len(frames[running])
  BY DEF TypeOK, FrameInv
<1>2. \A c \in AllCo : Len(Taller(d)[c]) <= Len(frames[c])
  <2>1. /\ Taller(d) \in [AllCo -> Seq(Frame)]
        /\ \A c \in AllCo : c # running => Taller(d)[c] = frames[c]
        /\ Len(Taller(d)[running]) = Len(frames[running])
    BY <1>1, TallerFrames
  <2>2. \A c \in AllCo : Len(frames[c]) \in Nat
    BY DEF TypeOK
  <2>3. QED
    BY <2>1, <2>2
<1>3. \A c \in AllCo : Len(frames[c]) \in Nat /\ Len(<<>>) = 0
  BY DEF TypeOK
<1>4. QED
  BY <1>2, <1>3 DEF FramesDrop

LEMMA CallClosureFits ==
  ASSUME TypeOK, FrameInv, FramesFit, NEW argc \in Nat, CallClosure(argc)
  PROVE  FramesFit'
<1> DEFINE count == Len(frames[running])
<1>1. Emitted(argc + 1) /\ status = "run"
  BY DEF CallClosure, Consumes, Emitted
<1>2. CASE RuntimeError
  BY <1>2, ErrorDrops DEF FramesDrop, FramesFit, TypeOK, RuntimeError
<1>3. CASE ~RuntimeError
  <2>1. PICK called :
          /\ frames' = [Taller(-argc) EXCEPT ![running] = Append(@, called)]
          /\ frameCap' = [frameCap EXCEPT ![running] = Capacity(count, @)]
          /\ count # FramesMax
    BY <1>3 DEF CallClosure
  <2>2. frame \in 1..count /\ -argc \in Int /\ frames[running][frame].want + (-argc) \in Nat
    BY <1>1, WantEnough DEF Frame
  <2>3. /\ Taller(-argc) \in [AllCo -> Seq(Frame)]
        /\ \A c \in AllCo : c # running => Taller(-argc)[c] = frames[c]
        /\ Len(Taller(-argc)[running]) = count
    BY <2>2, TallerFrames
  <2>4. running \in AllCo /\ count \in 1..frameCap[running] /\ frameCap[running] \in 0..FramesMax
    BY <2>2 DEF TypeOK, FramesFit
  <2>5. count + 1 <= Capacity(count, frameCap[running])
    BY <2>1, <2>4 DEF Capacity
  <2>6. Len(frames'[running]) = count + 1
    <3>1. Taller(-argc)[running] \in Seq(Frame)
      BY <2>3, <2>4
    <3>2. frames'[running] = Append(Taller(-argc)[running], called)
      BY <2>1, <2>3, <2>4
    <3>3. QED
      BY <2>3, <3>1, <3>2
  <2>7. frameCap'[running] = Capacity(count, frameCap[running])
    BY <2>1, <2>4 DEF TypeOK
  <2>8. \A c \in AllCo : c # running => frames'[c] = frames[c] /\ frameCap'[c] = frameCap[c]
    BY <2>1, <2>3 DEF TypeOK
  <2>9. QED
    BY <2>5, <2>6, <2>7, <2>8 DEF FramesFit
<1>4. QED
  BY <1>2, <1>3

LEMMA CreateFits ==
  ASSUME TypeOK, FramesFit, NEW c \in Coros, CreateCoroutine(c)
  PROVE  FramesFit'
<1>1. CASE Peek(0) \notin Closures
  BY <1>1, ErrorDrops DEF CreateCoroutine, FramesDrop, FramesFit, TypeOK, RuntimeError
<1>2. CASE Peek(0) \in Closures
  <2>1. PICK first : frames' = [frames EXCEPT ![c] = <<first>>]
                     /\ frameCap' = [frameCap EXCEPT ![c] = FramesInitial]
    BY <1>2 DEF CreateCoroutine
  <2>2. Len(frames'[c]) = 1 /\ frameCap'[c] = FramesInitial
    BY <2>1 DEF TypeOK
  <2>3. \A d \in AllCo : d # c => frames'[d] = frames[d] /\ frameCap'[d] = frameCap[d]
    BY <2>1 DEF TypeOK
  <2>4. Len(frames'[c]) <= frameCap'[c]
    BY <2>2
  <2>5. \A d \in AllCo : d # c => Len(frames'[d]) <= frameCap'[d]
    BY <2>3 DEF FramesFit
  <2>6. QED
    BY <2>4, <2>5 DEF FramesFit
<1>3. QED
  BY <1>1, <1>2

\* An instruction with room for n values below the compiler's count leaves room for one less.
LEMMA EmittedCounts ==
  ASSUME TypeOK, FrameInv, NEW n \in Nat, Emitted(n), NEW d \in Int, -n <= d
  PROVE  status = "run" /\ frames[running][frame].want + d \in Nat
BY WantEnough DEF Frame

\* No other step makes a frame.
LEMMA OthersDrop ==
  ASSUME TypeOK, FrameInv, Next,
         \A c \in Coros : ~CreateCoroutine(c), \A argc \in Nat : ~CallClosure(argc)
  PROVE  FramesDrop
<1>1. CASE \E v \in Pushable : Push(v)
  <2>1. Emitted(0) /\ 1 \in Int /\ frames' = Taller(1) /\ UNCHANGED frameCap
    BY <1>1 DEF Push
  <2>2. status = "run" /\ frames[running][frame].want + 1 \in Nat
    BY <2>1, EmittedCounts
  <2>3. QED
    BY <2>1, <2>2, TallerDrops, Zenon
<1>2. CASE Pop
  <2>1. Emitted(1) /\ -1 \in Int /\ frames' = Taller(-1) /\ UNCHANGED frameCap
    BY <1>2 DEF Pop, Consumes
  <2>2. status = "run" /\ frames[running][frame].want + (-1) \in Nat
    BY <2>1, EmittedCounts
  <2>3. QED
    BY <2>1, <2>2, TallerDrops, Zenon
<1>3. ASSUME NEW argc \in Nat, CallNative(argc)
      PROVE  FramesDrop
  <2>1. CASE RuntimeError \/ Undefined
    BY <2>1, ErrorDrops, UndefinedDrops
  <2>2. CASE ~RuntimeError /\ ~Undefined
    <3>1. Emitted(argc + 1) /\ argc = 1 /\ UNCHANGED frameCap
          /\ \A c \in AllCo : frames'[c] = Taller(-1)[c] \/ frames'[c] = <<>>
      BY <1>3, <2>2 DEF CallNative, Consumes
    <3>2. status = "run" /\ -1 \in Int /\ frames[running][frame].want + (-1) \in Nat
      BY <3>1, EmittedCounts
    <3>3. QED
      BY <3>1, <3>2, TallerDrops, Zenon
  <2>3. QED
    BY <2>1, <2>2
<1>4. ASSUME NEW argc \in Nat, Resume(argc)
      PROVE  FramesDrop
  <2>1. CASE RuntimeError
    BY <2>1, ErrorDrops
  <2>2. CASE ~RuntimeError
    <3> DEFINE callee == Peek(argc)
    <3>1. PICK kept : /\ frames' = [Taller(-argc) EXCEPT ![callee] = kept]
                      /\ kept = <<>> \/ kept = frames[callee]
                      /\ UNCHANGED frameCap
      BY <1>4, <2>2 DEF Resume
    <3>2. Emitted(argc + 1) /\ -argc \in Int
      BY <1>4 DEF Resume, Consumes
    <3>3. status = "run" /\ frames[running][frame].want + (-argc) \in Nat
      BY <3>2, EmittedCounts
    <3>4. Taller(-argc) \in [AllCo -> Seq(Frame)]
      <4>1. frame \in 1..Len(frames[running])
        BY <3>2, WantEnough
      <4>2. QED
        BY <3>2, <3>3, <4>1, TallerFrames
    <3> HIDE DEF callee
    <3>5. \A c \in AllCo : \/ frames'[c] = Taller(-argc)[c]
                           \/ frames'[c] = frames[c] \/ frames'[c] = <<>>
      BY <3>1, <3>4
    <3>6. QED
      BY <3>1, <3>2, <3>3, <3>5, TallerDrops
  <2>3. QED
    BY <2>1, <2>2
<1>5. ASSUME NEW argc \in 0..MaxTemps - 1, Call(argc)
      PROVE  FramesDrop
  <2>1. argc \in Nat
    OBVIOUS
  <2>2. CASE CallUncallable(argc)
    BY <2>2, ErrorDrops DEF CallUncallable
  <2>3. QED
    BY <1>3, <1>4, <1>5, <2>1, <2>2 DEF Call
<1>6. ASSUME NEW t \in {-1, 0}, NEW p, NEW handed, Consumes(1), SuspendTo(p, handed, t)
      PROVE  FramesDrop
  <2>1. CASE Undefined
    BY <2>1, UndefinedDrops
  <2>2. CASE ~Undefined
    <3>1. Emitted(1) /\ t \in Int /\ -1 <= t /\ frames' = Taller(t) /\ UNCHANGED frameCap
      BY <1>6, <2>2 DEF SuspendTo, Consumes
    <3>2. status = "run" /\ frames[running][frame].want + t \in Nat
      BY <3>1, EmittedCounts
    <3>3. QED
      BY <3>1, <3>2, TallerDrops, Zenon
  <2>3. QED
    BY <2>1, <2>2
<1>7. CASE Yield \/ Await
  <2>1. Consumes(1) /\ (RuntimeError \/ \E t \in {-1, 0} : \E p, handed : SuspendTo(p, handed, t))
    BY <1>7 DEF Yield, Await
  <2>2. QED
    BY <1>6, <2>1, ErrorDrops
<1>8. CASE ReturnFromCall
  <2>1. /\ frames' = [frames EXCEPT ![running] = Front(@)] /\ UNCHANGED frameCap
        /\ running \in AllCo /\ frames[running] \in Seq(Frame) /\ Len(frames[running]) > 1
    BY <1>8 DEF ReturnFromCall, TypeOK
  <2>2. Len(Front(frames[running])) <= Len(frames[running])
    BY <2>1 DEF Front
  <2>3. \A c \in AllCo : Len(frames[c]) \in Nat
    BY DEF TypeOK
  <2>4. \A c \in AllCo : frames'[c] = IF c = running THEN Front(frames[running]) ELSE frames[c]
    BY <2>1 DEF TypeOK
  <2>5. QED
    BY <2>1, <2>2, <2>3, <2>4 DEF FramesDrop
<1>9. CASE ReturnFromCoroutine
  <2>1. frames' = [frames EXCEPT ![running] = <<>>] /\ UNCHANGED frameCap
    BY <1>9 DEF ReturnFromCoroutine
  <2>2. QED
    BY <2>1 DEF FramesDrop, TypeOK
<1>10. CASE ReturnFromScript
  <2>1. /\ Emitted(1) /\ -1 \in Int /\ UNCHANGED frameCap
        /\ frames' = IF Repl THEN Taller(-1) ELSE [frames EXCEPT ![running] = <<>>]
    BY <1>10 DEF ReturnFromScript, Consumes
  <2>2. status = "run" /\ frames[running][frame].want + (-1) \in Nat
    BY <2>1, EmittedCounts
  <2>3. CASE Repl
    BY <2>1, <2>2, <2>3, TallerDrops, Zenon
  <2>4. CASE ~Repl
    BY <2>1, <2>4 DEF FramesDrop, TypeOK
  <2>5. QED
    BY <2>3, <2>4
<1>11. CASE NextLine
  BY <1>11 DEF NextLine, FramesDrop, TypeOK
<1>12. CASE Underflow
  BY <1>12, UndefinedDrops DEF Underflow
<1>13. QED
  BY <1>1, <1>2, <1>5, <1>7, <1>8, <1>9, <1>10, <1>11, <1>12 DEF Next

LEMMA FitsStep == IInv /\ FramesFit /\ [Next]_vars => FramesFit'
<1> SUFFICES ASSUME TypeOK, FrameInv, FramesFit, [Next]_vars PROVE FramesFit'
  BY DEF IInv
<1>1. CASE UNCHANGED vars
  BY <1>1 DEF vars, FramesFit
<1>2. CASE \E c \in Coros : CreateCoroutine(c)
  BY <1>2, CreateFits
<1>3. CASE \E argc \in Nat : CallClosure(argc)
  BY <1>3, CallClosureFits
<1>4. CASE FramesDrop
  <2>1. \A c \in AllCo : Len(frames'[c]) \in Nat /\ Len(frames[c]) \in Nat /\ frameCap[c] \in Nat
    <3>1. TypeOK'
      BY TypeStep
    <3>2. \A c \in AllCo : Len(frames'[c]) \in Nat
      BY <3>1 DEF TypeOK
    <3>3. QED
      BY <3>2 DEF TypeOK
  <2>2. QED
    BY <1>4, <2>1 DEF FramesDrop, FramesFit
<1>5. QED
  BY <1>1, <1>2, <1>3, <1>4, OthersDrop

(* No call writes behind the frame array, whatever the depth of the calls:   *)
(* vm_call grows the array in time and stops at FRAMES_MAX.                  *)
THEOREM FramesAlwaysFit == Spec => []FramesFit
<1>1. Init => FramesFit
  BY DEF Init, FramesFit
<1>2. QED
  BY <1>1, FitsStep, Invariance, PTL DEF Spec

-----------------------------------------------------------------------------
(* Paused coroutines: neither the running coroutine nor the one that control *)
(* may go back to is one of them.                                            *)

LEMMA ActiveNotPaused ==
  ASSUME TypeOK, FrameInv, ChainInv, status = "run", NEW c \in Coros, state[c] = "PAUSED"
  PROVE  c # running /\ c # parent[running]
<1>1. c # running /\ c # Main
  BY DEF FrameInv
<1>2. PICK s : IsActive(s)
  BY DEF ChainInv, Defined
<1>3. s \in Seq(AllCo) /\ s[1] = Main
      /\ \A i \in 2..Len(s) : state[s[i]] \in {"RUNNING", "READY"}
  BY <1>2 DEF IsActive, IsChain
<1>4. ASSUME c = parent[running] PROVE FALSE
  <2>1. parent[running] # NULL
    BY <1>4
  <2>2. Len(s) > 1 /\ s[Len(s) - 1] = c
    BY <1>2, <1>4, <2>1, ResumerOnChain
  <2>3. Len(s) - 1 \in 2..Len(s)
    BY <1>1, <1>3, <2>2
  <2>4. QED
    BY <1>3, <2>2, <2>3
<1>5. QED
  BY <1>1, <1>4

\* What a step leaves as it was in coroutine c
Untouched(c) == stack'[c] = stack[c] /\ frames'[c] = frames[c]

LEMMA ErrorUntouched ==
  ASSUME TypeOK, RuntimeError, NEW c \in Coros
  PROVE  Untouched(c)
BY DEF TypeOK, RuntimeError, Untouched

LEMMA UndefinedUntouched == ASSUME Undefined, NEW c \in Coros PROVE Untouched(c)
BY DEF Undefined, Untouched

\* The compiler's count is part of the frame of the running coroutine alone.
LEMMA TallerElsewhere ==
  ASSUME TypeOK, NEW d, NEW c \in AllCo, c # running
  PROVE  Taller(d)[c] = frames[c]
BY DEF TypeOK, Taller

LEMMA PausedStep ==
  ASSUME IInv, Next, NEW c \in Coros, state[c] = "PAUSED", state'[c] = "PAUSED"
  PROVE  Untouched(c)
<1>1. TypeOK /\ FrameInv /\ ChainInv
  BY DEF IInv
<1>2. status = "run" => c # running /\ c # parent[running] /\ \A d : Taller(d)[c] = frames[c]
  BY <1>1, ActiveNotPaused, TallerElsewhere
<1>3. \A n : Emitted(n) => status = "run"
  BY DEF Emitted
<1>4. CASE \E v \in Pushable : Push(v)
  BY <1>1, <1>2, <1>3, <1>4 DEF Push, Untouched, TypeOK
<1>5. CASE Pop
  BY <1>1, <1>2, <1>3, <1>5 DEF Pop, Consumes, Untouched, TypeOK
<1>6. ASSUME NEW d \in Coros, CreateCoroutine(d)
      PROVE  Untouched(c)
  <2>1. CASE Peek(0) \notin Closures
    BY <1>1, <1>6, <2>1, ErrorUntouched DEF CreateCoroutine
  <2>2. CASE Peek(0) \in Closures
    <3>1. PICK pushed, first :
            stack' = [stack EXCEPT ![running] = pushed] /\ frames' = [frames EXCEPT ![d] = first]
            /\ state[d] = "UNALLOCATED" /\ status = "run"
      BY <1>6, <2>2 DEF CreateCoroutine, Consumes, Emitted
    <3>2. QED
      BY <1>1, <1>2, <3>1 DEF Untouched, TypeOK
  <2>3. QED
    BY <2>1, <2>2
<1>7. ASSUME NEW argc \in Nat, CallClosure(argc)
      PROVE  Untouched(c)
  <2>1. CASE RuntimeError
    BY <1>1, <2>1, ErrorUntouched
  <2>2. CASE ~RuntimeError
    <3>1. PICK called : frames' = [Taller(-argc) EXCEPT ![running] = Append(@, called)]
                        /\ stack' = stack /\ Emitted(argc + 1)
      BY <1>7, <2>2 DEF CallClosure, Consumes
    <3>2. DOMAIN Taller(-argc) = AllCo
      BY <1>1 DEF Taller, TypeOK
    <3>3. frames'[c] = Taller(-argc)[c]
      BY <1>2, <1>3, <3>1, <3>2
    <3>4. QED
      BY <1>2, <1>3, <3>1, <3>3 DEF Untouched
  <2>3. QED
    BY <2>1, <2>2
<1>8. ASSUME NEW argc \in Nat, CallNative(argc)
      PROVE  Untouched(c)
  <2>1. CASE RuntimeError \/ Undefined
    BY <1>1, <2>1, ErrorUntouched, UndefinedUntouched
  <2>2. CASE ~RuntimeError /\ ~Undefined
    <3> DEFINE target == IF Peek(argc) = ResetFn /\ Peek(0) \in Coros THEN Peek(0) ELSE NULL
    <3>1. /\ stack' = [d \in AllCo |-> IF d = running THEN Append(Popped(2), Nil)
                                       ELSE IF d = target THEN <<>> ELSE stack[d]]
          /\ frames' = [d \in AllCo |-> IF d = target THEN <<>> ELSE Taller(-1)[d]]
          /\ state' = [d \in AllCo |-> IF d = target THEN "READY" ELSE state[d]]
          /\ Emitted(argc + 1)
      BY <1>8, <2>2 DEF CallNative, Consumes, ResetState
    <3> HIDE DEF target
    <3>2. c # target
      BY <3>1
    <3>3. QED
      BY <1>2, <1>3, <3>1, <3>2 DEF Untouched
  <2>3. QED
    BY <2>1, <2>2
<1>9. ASSUME NEW argc \in Nat, Resume(argc)
      PROVE  Untouched(c)
  <2>1. CASE RuntimeError
    BY <1>1, <2>1, ErrorUntouched
  <2>2. CASE ~RuntimeError
    <3> DEFINE callee == Peek(argc)
    <3>1. PICK arrived, kept :
            /\ stack' = [stack EXCEPT ![running] = TakenArguments(argc), ![callee] = arrived]
            /\ frames' = [Taller(-argc) EXCEPT ![callee] = kept]
            /\ state' = [state EXCEPT ![callee] = "RUNNING"]
            /\ callee \in Coros /\ Emitted(argc + 1)
      BY <1>9, <2>2 DEF Resume, Consumes
    <3>2. c # callee
      BY <1>1, <3>1 DEF TypeOK
    <3>3. DOMAIN Taller(-argc) = AllCo
      BY <1>1 DEF Taller, TypeOK
    <3> HIDE DEF callee
    <3>4. frames'[c] = Taller(-argc)[c] /\ stack'[c] = stack[c]
      BY <1>1, <1>2, <1>3, <3>1, <3>2, <3>3 DEF TypeOK
    <3>5. QED
      BY <1>2, <1>3, <3>1, <3>4 DEF Untouched
  <2>3. QED
    BY <2>1, <2>2
<1>10. ASSUME NEW argc \in 0..MaxTemps - 1, Call(argc)
       PROVE  Untouched(c)
  <2>1. argc \in Nat
    OBVIOUS
  <2>2. CASE CallUncallable(argc)
    BY <1>1, <2>2, ErrorUntouched DEF CallUncallable
  <2>3. QED
    BY <1>7, <1>8, <1>9, <1>10, <2>1, <2>2 DEF Call
<1>11. ASSUME NEW t, NEW handed, status = "run", SuspendTo(parent[running], handed, t)
       PROVE  Untouched(c)
  <2>1. CASE Undefined
    BY <2>1, UndefinedUntouched
  <2>2. CASE ~Undefined
    <3>1. PICK left : /\ stack' = [stack EXCEPT ![running] = left, ![parent[running]] = handed]
                      /\ frames' = Taller(t)
      BY <1>11, <2>2 DEF SuspendTo
    <3>2. QED
      BY <1>1, <1>2, <1>11, <3>1 DEF Untouched, TypeOK
  <2>3. QED
    BY <2>1, <2>2
<1>12. CASE Yield \/ Await
  <2>1. status = "run" /\ (RuntimeError \/ \E t, handed : SuspendTo(parent[running], handed, t))
    BY <1>12 DEF Yield, Await, Consumes, Emitted
  <2>2. QED
    BY <1>1, <1>11, <2>1, ErrorUntouched
<1>13. CASE ReturnFromCall
  BY <1>1, <1>2, <1>3, <1>13 DEF ReturnFromCall, Consumes, Untouched, TypeOK
<1>14. CASE ReturnFromCoroutine
  <2>1. PICK left, result :
          /\ stack' = [stack EXCEPT ![running] = left, ![parent[running]] = result]
          /\ frames' = [frames EXCEPT ![running] = <<>>] /\ status = "run"
    BY <1>14 DEF ReturnFromCoroutine, Consumes, Emitted
  <2>2. QED
    BY <1>1, <1>2, <2>1 DEF Untouched, TypeOK
<1>15. CASE ReturnFromScript
  <2>1. /\ stack' = [stack EXCEPT ![running] = Popped(1)] /\ status = "run"
        /\ frames' = Taller(-1) \/ frames' = [frames EXCEPT ![running] = <<>>]
    BY <1>15 DEF ReturnFromScript, Consumes, Emitted
  <2>2. QED
    BY <1>1, <1>2, <2>1 DEF Untouched, TypeOK
<1>16. CASE NextLine
  BY <1>16 DEF NextLine, Untouched
<1>17. CASE Underflow
  BY <1>17, UndefinedUntouched DEF Underflow
<1>18. QED
  BY <1>4, <1>5, <1>6, <1>10, <1>12, <1>13, <1>14, <1>15, <1>16, <1>17 DEF Next

(* A coroutine that stays paused finds its stack and its frames as it left   *)
(* them, whatever the others do in the meantime.                             *)
THEOREM PausedAlwaysUntouched == Spec => PausedUntouched
<1>1. IInv /\ [Next]_vars =>
        [\A c \in Coros : state[c] = "PAUSED" /\ state'[c] = "PAUSED"
           => stack'[c] = stack[c] /\ frames'[c] = frames[c]]_vars
  BY PausedStep DEF Untouched
<1>2. QED
  BY <1>1, Invariance, PTL DEF Spec, PausedUntouched

-----------------------------------------------------------------------------
(* Coroutines implements ResumeStack: the chain of parent links is the stack *)
(* of entered coroutines, and every instruction is one step of that stack or *)
(* none.                                                                     *)
(*                                                                           *)
(* Chain is defined by a choice, so a proof about it needs that there is     *)
(* nothing to choose from: two chains agree from the running coroutine back  *)
(* to main.  And a step that enters or resets a coroutine must not create    *)
(* one: a coroutine on some stack has been allocated (KnownInv).             *)

(* The chain is unique.                                                      *)

\* s leads from main to r by the links of par, and meets nobody twice.
Linked(par, r, s) ==
  /\ s # <<>> /\ s[1] = Main /\ s[Len(s)] = r
  /\ \A i \in 1..Len(s) - 1 : par[s[i + 1]] = s[i]
  /\ \A i, j \in 1..Len(s) : s[i] = s[j] => i = j

\* Going back from r, two chains meet the same coroutines.
LEMMA SameFromTheEnd ==
  ASSUME NEW par, NEW r,
         NEW s \in Seq(AllCo), Linked(par, r, s), NEW t \in Seq(AllCo), Linked(par, r, t),
         NEW k \in Nat, k < Len(s), k < Len(t)
  PROVE  s[Len(s) - k] = t[Len(t) - k]
<1> DEFINE B == {n \in Nat : n < Len(s) /\ n < Len(t) /\ s[Len(s) - n] # t[Len(t) - n]}
<1> SUFFICES ASSUME B # {} PROVE FALSE
  OBVIOUS
<1>1. B \in SUBSET Nat
  OBVIOUS
<1> HIDE DEF B
<1>2. PICK m \in B : \A n \in B : m <= n
  BY <1>1, LeastNatural
<1> USE DEF B
<1>3. s[Len(s)] = t[Len(t)] /\ Len(s) \in Nat /\ Len(t) \in Nat
  BY DEF Linked
<1>4. m # 0
  BY <1>2, <1>3
<1>5. m - 1 \in Nat /\ m - 1 < m /\ m < Len(s) /\ m < Len(t)
  BY <1>2, <1>4
<1>6. m - 1 \notin B
  <2> HIDE DEF B
  <2> QED
    BY <1>2, <1>5, B \in SUBSET Nat
<1>7. s[Len(s) - (m - 1)] = t[Len(t) - (m - 1)]
  BY <1>3, <1>5, <1>6
<1>8. Len(s) - m \in 1..Len(s) - 1 /\ Len(t) - m \in 1..Len(t) - 1
  BY <1>3, <1>5
<1>9. par[s[(Len(s) - m) + 1]] = s[Len(s) - m] /\ par[t[(Len(t) - m) + 1]] = t[Len(t) - m]
  BY <1>8 DEF Linked
<1>10. (Len(s) - m) + 1 = Len(s) - (m - 1) /\ (Len(t) - m) + 1 = Len(t) - (m - 1)
  BY <1>3, <1>5
<1>11. QED
  BY <1>2, <1>7, <1>9, <1>10

\* One cannot be longer: it would meet main again.
LEMMA NoLongerChain ==
  ASSUME NEW par, NEW r,
         NEW s \in Seq(AllCo), Linked(par, r, s), NEW t \in Seq(AllCo), Linked(par, r, t)
  PROVE  ~(Len(s) < Len(t))
<1> SUFFICES ASSUME Len(s) < Len(t) PROVE FALSE
  OBVIOUS
<1>1. Len(s) \in Nat \ {0} /\ Len(t) \in Nat /\ s[1] = Main /\ t[1] = Main
  BY DEF Linked
<1>2. Len(s) - 1 \in Nat /\ Len(s) - 1 < Len(s) /\ Len(s) - 1 < Len(t)
  BY <1>1
<1>3. s[Len(s) - (Len(s) - 1)] = t[Len(t) - (Len(s) - 1)]
  BY <1>2, SameFromTheEnd
<1>4. Len(s) - (Len(s) - 1) = 1 /\ Len(t) - (Len(s) - 1) \in 1..Len(t)
      /\ Len(t) - (Len(s) - 1) # 1 /\ 1 \in 1..Len(t)
  BY <1>1
<1>5. t[Len(t) - (Len(s) - 1)] = t[1]
  BY <1>1, <1>3, <1>4
<1>6. QED
  BY <1>4, <1>5 DEF Linked

LEMMA OneChain ==
  ASSUME NEW par, NEW r,
         NEW s \in Seq(AllCo), Linked(par, r, s), NEW t \in Seq(AllCo), Linked(par, r, t)
  PROVE  s = t
<1>1. Len(s) = Len(t) /\ Len(s) \in Nat
  BY NoLongerChain
<1>2. ASSUME NEW i \in 1..Len(s) PROVE s[i] = t[i]
  <2>1. Len(s) - i \in Nat /\ Len(s) - i < Len(s) /\ Len(s) - i < Len(t)
    BY <1>1
  <2>2. s[Len(s) - (Len(s) - i)] = t[Len(t) - (Len(s) - i)]
    BY <2>1, SameFromTheEnd
  <2>3. Len(s) - (Len(s) - i) = i /\ Len(t) - (Len(s) - i) = i
    BY <1>1
  <2>4. QED
    BY <2>2, <2>3
<1>3. QED
  BY <1>1, <1>2

\* A chain is no longer than there are coroutines, so it is among those chosen from.
LEMMA LinkedInChains ==
  ASSUME NEW par, NEW r, NEW s \in Seq(AllCo), Linked(par, r, s)
  PROVE  s \in Chains
<1>1. PICK n \in Nat \ {0} : n = Len(s)
  BY DEF Linked
<1>2. s \in [1..n -> AllCo]
  BY <1>1
<1>3. s \in Injection(1..n, AllCo)
  BY <1>1, <1>2 DEF Injection, IsInjective, Linked
<1>4. IsFiniteSet(AllCo)
  BY FS_AddElement
<1>5. Cardinality(1..n) <= Cardinality(AllCo) /\ Cardinality(1..n) = n
  BY <1>3, <1>4, FS_Injection, FS_Interval
<1>6. n \in 1..Cardinality(AllCo)
  BY <1>4, <1>5, FS_CardinalityType
<1>7. QED
  BY <1>2, <1>6 DEF Chains

LEMMA TheChain ==
  ASSUME NEW par, NEW r, NEW s \in Seq(AllCo), Linked(par, r, s)
  PROVE  (CHOOSE t \in Chains : Linked(par, r, t)) = s
<1> DEFINE u == CHOOSE t \in Chains : Linked(par, r, t)
<1>1. u \in Chains /\ Linked(par, r, u)
  BY LinkedInChains
<1> HIDE DEF u
<1>2. u \in Seq(AllCo)
  BY <1>1 DEF Chains
<1>3. u = s
  BY <1>1, <1>2, OneChain
<1>4. QED
  BY <1>3 DEF u

\* The same for the state and for the next one
LEMMA ChainNow ==
  ASSUME Defined, NEW s \in Seq(AllCo), IsChain(s)
  PROVE  Chain = s
<1>1. \A t : IsChain(t) <=> Linked(parent, running, t)
  BY DEF IsChain, Linked
<1>2. (CHOOSE t \in Chains : Linked(parent, running, t)) = s
  BY <1>1, TheChain
<1>3. (CHOOSE t \in Chains : IsChain(t)) = CHOOSE t \in Chains : Linked(parent, running, t)
  BY DEF IsChain, Linked
<1>4. QED
  BY <1>2, <1>3 DEF Chain

LEMMA ChainNext ==
  ASSUME Defined', NEW s \in Seq(AllCo), IsChain(s)'
  PROVE  Chain' = s
<1>1. Linked(parent', running', s)
  BY DEF IsChain, Linked
<1>2. (CHOOSE t \in Chains : Linked(parent', running', t)) = s
  BY <1>1, TheChain
<1>3. Chain' = CHOOSE t \in Chains : Linked(parent', running', t)
  BY DEF Chain, IsChain, Linked
<1>4. QED
  BY <1>2, <1>3

-----------------------------------------------------------------------------
(* Coroutines on a stack exist.                                              *)

\* What may be on a stack
Known == Closures \cup Natives \cup {Nil} \cup Created

KnownInv == stack \in [AllCo -> Seq(Known)]

LEMMA KnownFacts ==
  /\ Created \subseteq Coros
  /\ Pushable \subseteq Known
  /\ \A c \in Coros : c \in Known => c \in Created
BY DEF Known, Created, Pushable

\* Nothing that exists ceases to.
CreatedGrows == \A c \in Coros : state[c] # "UNALLOCATED" => state'[c] # "UNALLOCATED"

\* Popping and peeking stay within what the stack holds.
LEMMA KnownPopped ==
  ASSUME KnownInv, running \in AllCo, NEW n \in Nat, n <= Depth(running)
  PROVE  Popped(n) \in Seq(Known) /\ (n < Depth(running) => Peek(n) \in Known)
BY DEF KnownInv, Popped, Peek, Depth

LEMMA KnownKept ==
  ASSUME KnownInv, TypeOK', CreatedGrows,
         \A c \in AllCo : stack'[c] = stack[c] \/ stack'[c] \in Seq(Known) \/ stack'[c] \in Seq(Known')
  PROVE  KnownInv'
<1>1. Known \subseteq Known'
  BY DEF Known, Created, CreatedGrows
<1>2. PICK known : known = Known'
  OBVIOUS
<1>3. \A c \in AllCo : stack'[c] \in Seq(Known) \/ stack'[c] \in Seq(known)
  BY <1>2 DEF KnownInv
<1> HIDE DEF Known
<1>4. \A c \in AllCo : stack'[c] \in Seq(known)
  BY <1>1, <1>2, <1>3
<1>5. DOMAIN stack' = AllCo /\ stack' = [c \in AllCo |-> stack'[c]]
  BY DEF TypeOK
<1>6. stack' \in [AllCo -> Seq(known)]
  BY <1>4, <1>5
<1>7. QED
  BY <1>2, <1>6 DEF KnownInv

LEMMA ErrorKnown == ASSUME TypeOK, TypeOK', KnownInv, RuntimeError PROVE KnownInv'
<1>1. CreatedGrows
  BY DEF RuntimeError, CreatedGrows, TypeOK
<1>2. \A c \in AllCo : stack'[c] = stack[c] \/ stack'[c] = <<>>
  BY DEF RuntimeError, TypeOK
<1>3. <<>> \in Seq(Known)
  OBVIOUS
<1>4. QED
  BY <1>1, <1>2, <1>3, KnownKept

LEMMA UndefinedKnown == ASSUME TypeOK', KnownInv, Undefined PROVE KnownInv'
BY DEF Undefined, KnownInv, Known, Created

LEMMA SuspendKnown ==
  ASSUME TypeOK, TypeOK', FrameInv, KnownInv, Consumes(1), NEW t \in {-1, 0},
         NEW p \in AllCo, NEW handed, SuspendTo(p, handed, t),
         Depth(p) # 0 => handed \in Seq(Known)
  PROVE  KnownInv'
<1> DEFINE arity == Arity[frames[running][frame].closure]
           lost == arity + 1 > Depth(running) \/ frames[p] = <<>> \/ Depth(p) = 0
<1>1. CASE lost
  BY <1>1, UndefinedKnown DEF SuspendTo
<1>2. CASE ~lost
  <2>1. /\ stack' = [stack EXCEPT ![running] = Popped(arity + 1), ![p] = handed]
        /\ state' = Paused
    BY <1>2 DEF SuspendTo
  <2>2. arity \in Nat /\ Depth(running) \in Nat
    <3>1. frames[running][frame] \in Frame
      BY WantEnough DEF Consumes
    <3>2. frames[running][frame].closure \in Closures
      BY <3>1 DEF Frame
    <3>3. stack[running] \in Seq(Value)
      BY DEF TypeOK
    <3>4. QED
      BY <3>2, <3>3 DEF Depth
  <2>3. Popped(arity + 1) \in Seq(Known)
    <3>1. running \in AllCo
      BY DEF TypeOK
    <3> HIDE DEF arity
    <3>2. arity + 1 \in Nat /\ arity + 1 <= Depth(running)
      BY <1>2, <2>2
    <3>3. QED
      BY <3>1, <3>2, KnownPopped
  <2> HIDE DEF arity
  <2>4. handed \in Seq(Known)
    BY <1>2
  <2>5. \A c \in AllCo : stack'[c] = stack[c] \/ stack'[c] \in Seq(Known)
    BY <2>1, <2>3, <2>4 DEF TypeOK
  <2>6. CreatedGrows
    BY <2>1 DEF CreatedGrows, Paused, TypeOK
  <2>7. QED
    BY <2>5, <2>6, KnownKept
<1>3. QED
  BY <1>1, <1>2

LEMMA KnownStep == IInv /\ KnownInv /\ [Next]_vars => KnownInv'
<1> SUFFICES ASSUME IInv, KnownInv, [Next]_vars PROVE KnownInv'
  OBVIOUS
<1>1. TypeOK /\ FrameInv /\ TypeOK' /\ running \in AllCo /\ Depth(running) \in Nat
  <2>1. TypeOK /\ FrameInv /\ TypeOK'
    BY IInvStep DEF IInv
  <2>2. running \in AllCo /\ stack[running] \in Seq(Value)
    BY <2>1 DEF TypeOK
  <2>3. QED
    BY <2>1, <2>2 DEF Depth
<1>2. ASSUME NEW n \in Nat, n <= Depth(running)
      PROVE  Popped(n) \in Seq(Known) /\ (n < Depth(running) => Peek(n) \in Known)
  BY <1>1, <1>2, KnownPopped
<1>3. ASSUME UNCHANGED <<stack, state>> PROVE KnownInv'
  BY <1>3 DEF KnownInv, Known, Created
<1>4. ASSUME NEW v \in Pushable, Push(v)
      PROVE  KnownInv'
  <2>1. stack' = [stack EXCEPT ![running] = Append(@, v)] /\ state' = state
    BY <1>4 DEF Push
  <2>2. Append(stack[running], v) \in Seq(Known)
    <3>1. v \in Known /\ stack[running] \in Seq(Known)
      BY <1>1, KnownFacts DEF KnownInv
    <3>2. QED
      BY <3>1
  <2>3. \A c \in AllCo : stack'[c] = stack[c] \/ stack'[c] \in Seq(Known)
    BY <1>1, <2>1, <2>2 DEF TypeOK
  <2>4. QED
    BY <1>1, <2>1, <2>3, KnownKept DEF CreatedGrows
<1>5. CASE Pop
  <2>1. stack' = [stack EXCEPT ![running] = Popped(1)] /\ state' = state /\ 1 <= Depth(running)
    BY <1>5 DEF Pop, Consumes
  <2>2. \A c \in AllCo : stack'[c] = stack[c] \/ stack'[c] \in Seq(Known)
    BY <1>1, <1>2, <2>1 DEF TypeOK
  <2>3. QED
    BY <1>1, <2>1, <2>2, KnownKept DEF CreatedGrows
<1>6. ASSUME NEW c \in Coros, CreateCoroutine(c)
      PROVE  KnownInv'
  <2>1. CASE RuntimeError
    BY <1>1, <2>1, ErrorKnown
  <2>2. CASE ~RuntimeError
    <3>1. /\ stack' = [stack EXCEPT ![running] = Append(Popped(1), c)] /\ 1 <= Depth(running)
          /\ state' = [state EXCEPT ![c] = "READY"]
      BY <1>6, <2>2 DEF CreateCoroutine, Consumes
    <3>2. CreatedGrows /\ c \in Known' /\ Known \subseteq Known'
      BY <1>1, <3>1 DEF CreatedGrows, Known, Created, TypeOK
    <3>3. PICK known : known = Known'
      OBVIOUS
    <3>4. Append(Popped(1), c) \in Seq(known)
      <4>1. Popped(1) \in Seq(known)
        <5> HIDE DEF Known
        <5>1. Popped(1) \in Seq(Known) /\ Known \subseteq known
          BY <1>2, <3>1, <3>2, <3>3
        <5>2. QED
          BY <5>1
      <4>2. QED
        BY <3>2, <3>3, <4>1
    <3>5. \A d \in AllCo : stack'[d] = stack[d] \/ stack'[d] \in Seq(Known')
      BY <1>1, <3>1, <3>3, <3>4 DEF TypeOK
    <3>6. QED
      BY <1>1, <3>2, <3>5, KnownKept
  <2>3. QED
    BY <2>1, <2>2
<1>7. ASSUME NEW argc \in Nat, CallNative(argc)
      PROVE  KnownInv'
  <2>1. CASE RuntimeError \/ Undefined
    BY <1>1, <2>1, ErrorKnown, UndefinedKnown
  <2>2. CASE ~RuntimeError /\ ~Undefined
    <3> DEFINE target == IF Peek(argc) = ResetFn /\ Peek(0) \in Coros THEN Peek(0) ELSE NULL
    <3>1. /\ stack' = [d \in AllCo |-> IF d = running THEN Append(Popped(2), Nil)
                                       ELSE IF d = target THEN <<>> ELSE stack[d]]
          /\ state' = [d \in AllCo |-> IF d = target THEN "READY" ELSE state[d]]
          /\ 2 <= Depth(running)
      BY <1>7, <2>2 DEF CallNative, Consumes, ResetState
    <3> HIDE DEF target
    <3>2. Append(Popped(2), Nil) \in Seq(Known) /\ <<>> \in Seq(Known)
      <4>1. Popped(2) \in Seq(Known) /\ Nil \in Known
        BY <1>2, <3>1 DEF Known
      <4>2. QED
        BY <4>1
    <3>3. \A c \in AllCo : stack'[c] = stack[c] \/ stack'[c] \in Seq(Known)
      BY <3>1, <3>2
    <3>4. CreatedGrows
      BY <3>1 DEF CreatedGrows
    <3>5. QED
      BY <1>1, <3>3, <3>4, KnownKept
  <2>3. QED
    BY <2>1, <2>2
<1>8. ASSUME NEW argc \in Nat, Resume(argc)
      PROVE  KnownInv'
  <2>1. CASE RuntimeError
    BY <1>1, <2>1, ErrorKnown
  <2>2. CASE ~RuntimeError
    <3> DEFINE callee == Peek(argc)
               passed == SubSeq(stack[running], Depth(running) - argc + 1, Depth(running))
               base == IF state[callee] = "COMPLETE" THEN <<>> ELSE stack[callee]
               below == IF state[callee] = "COMPLETE" \/ state[callee] = "READY"
                        THEN Append(base, callee) ELSE base
    <3>1. /\ stack' = [stack EXCEPT ![running] = Popped(argc), ![callee] = below \o Reverse(passed)]
          /\ state' = [state EXCEPT ![callee] = "RUNNING"]
          /\ argc + 1 <= Depth(running) /\ callee \in Coros
      BY <1>8, <2>2 DEF Resume, Consumes, TakenArguments
    <3>2. callee \in Known /\ stack[callee] \in Seq(Known) /\ stack[running] \in Seq(Known)
      BY <1>1, <1>2, <3>1 DEF KnownInv
    <3>3. passed \in Seq(Known)
      BY <1>1, <3>1, <3>2 DEF Depth
    <3>4. Reverse(passed) \in Seq(Known)
      BY <3>3, ReverseType
    <3>5. below \in Seq(Known)
      BY <3>2
    <3>6. below \o Reverse(passed) \in Seq(Known)
      BY <3>4, <3>5
    <3>7. Popped(argc) \in Seq(Known)
      BY <1>1, <1>2, <3>1
    <3> HIDE DEF callee, passed, below
    <3>8. \A c \in AllCo : stack'[c] = stack[c] \/ stack'[c] \in Seq(Known)
      BY <1>1, <3>1, <3>6, <3>7 DEF TypeOK
    <3>9. CreatedGrows
      BY <1>1, <3>1 DEF CreatedGrows, TypeOK
    <3>10. QED
      BY <1>1, <3>8, <3>9, KnownKept
  <2>3. QED
    BY <2>1, <2>2
<1>9. ASSUME NEW argc \in 0..MaxTemps - 1, Call(argc)
      PROVE  KnownInv'
  <2>1. argc \in Nat
    OBVIOUS
  <2>2. CASE RuntimeError
    BY <1>1, <2>2, ErrorKnown
  <2>3. CASE CallClosure(argc) /\ ~RuntimeError
    BY <1>3, <2>3 DEF CallClosure
  <2>4. QED
    BY <1>7, <1>8, <1>9, <2>1, <2>2, <2>3 DEF Call, CallUncallable
<1>10. CASE Yield
  <2>1. CASE RuntimeError
    BY <1>1, <2>1, ErrorKnown
  <2>2. CASE ~RuntimeError
    <3> DEFINE p == parent[running]
    <3>1. Consumes(1) /\ p \in AllCo /\ SuspendTo(p, Append(Front(stack[p]), Peek(0)), -1)
      BY <1>1, <1>10, <2>2 DEF Yield, TypeOK
    <3>2. Peek(0) \in Known /\ stack[p] \in Seq(Known)
      BY <1>1, <1>2, <3>1 DEF Consumes, KnownInv
    <3> HIDE DEF p
    <3>3. Depth(p) # 0 => Append(Front(stack[p]), Peek(0)) \in Seq(Known)
      BY <3>2 DEF Depth, Front
    <3>4. QED
      BY <1>1, <3>1, <3>3, SuspendKnown
  <2>3. QED
    BY <2>1, <2>2
<1>11. CASE Await
  <2>1. CASE RuntimeError
    BY <1>1, <2>1, ErrorKnown
  <2>2. CASE ~RuntimeError
    <3>1. Consumes(1) /\ parent[running] \in AllCo
          /\ SuspendTo(parent[running], stack[parent[running]], 0)
      BY <1>1, <1>11, <2>2 DEF Await, TypeOK
    <3>2. stack[parent[running]] \in Seq(Known)
      BY <3>1 DEF KnownInv
    <3>3. QED
      BY <1>1, <3>1, <3>2, SuspendKnown
  <2>3. QED
    BY <2>1, <2>2
<1>12. CASE ReturnFromCall
  <2>1. stack' = [stack EXCEPT ![running] = Append(Popped(1), Peek(0))] /\ state' = state
        /\ 1 <= Depth(running)
    BY <1>12 DEF ReturnFromCall, Consumes
  <2>2. Append(Popped(1), Peek(0)) \in Seq(Known)
    <3>1. Popped(1) \in Seq(Known) /\ Peek(0) \in Known
      BY <1>1, <1>2, <2>1
    <3>2. QED
      BY <3>1
  <2>3. \A c \in AllCo : stack'[c] = stack[c] \/ stack'[c] \in Seq(Known)
    BY <1>1, <2>1, <2>2 DEF TypeOK
  <2>4. QED
    BY <1>1, <2>1, <2>3, KnownKept DEF CreatedGrows
<1>13. CASE ReturnFromCoroutine
  <2> DEFINE p == parent[running]
  <2>1. /\ stack' = [stack EXCEPT ![running] = Popped(1), ![p] = Append(stack[p], Peek(0))]
        /\ state' = [state EXCEPT ![running] = "COMPLETE"] /\ 1 <= Depth(running) /\ p \in AllCo
    BY <1>1, <1>13 DEF ReturnFromCoroutine, Consumes, TypeOK
  <2>2. Popped(1) \in Seq(Known) /\ Peek(0) \in Known /\ stack[p] \in Seq(Known)
    <3>1. Popped(1) \in Seq(Known) /\ Peek(0) \in Known
      BY <1>1, <1>2, <2>1
    <3>2. stack[p] \in Seq(Known)
      BY <2>1 DEF KnownInv
    <3>3. QED
      BY <3>1, <3>2
  <2>3. Append(stack[p], Peek(0)) \in Seq(Known)
    BY <2>2
  <2> HIDE DEF p
  <2>4. \A c \in AllCo : stack'[c] = stack[c] \/ stack'[c] \in Seq(Known)
    BY <1>1, <2>1, <2>2, <2>3 DEF TypeOK
  <2>5. CreatedGrows
    BY <1>1, <2>1 DEF CreatedGrows, TypeOK
  <2>6. QED
    BY <1>1, <2>4, <2>5, KnownKept
<1>14. CASE ReturnFromScript
  <2>1. /\ stack' = [stack EXCEPT ![running] = Popped(1)] /\ 1 <= Depth(running)
        /\ state' = [state EXCEPT ![running] = IF Repl THEN "READY" ELSE "COMPLETE"]
    BY <1>14 DEF ReturnFromScript, Consumes
  <2>2. \A c \in AllCo : stack'[c] = stack[c] \/ stack'[c] \in Seq(Known)
    BY <1>1, <1>2, <2>1 DEF TypeOK
  <2>3. CreatedGrows
    BY <1>1, <2>1 DEF CreatedGrows, TypeOK
  <2>4. QED
    BY <1>1, <2>2, <2>3, KnownKept
<1>15. CASE NextLine
  BY <1>3, <1>15 DEF NextLine
<1>16. CASE Underflow
  BY <1>1, <1>16, UndefinedKnown DEF Underflow
<1>17. CASE UNCHANGED vars
  BY <1>3, <1>17 DEF vars
<1>18. QED
  BY <1>4, <1>5, <1>6, <1>9, <1>10, <1>11, <1>12, <1>13, <1>14, <1>15, <1>16, <1>17 DEF Next

-----------------------------------------------------------------------------
(* Every step is a step of the stack of continuations or changes none of it. *)

Stutter == UNCHANGED <<Chain, Holding, Created>>

\* Before anything is lost there is a chain, with main on it.
LEMMA ChainThere ==
  ASSUME IInv, Defined
  PROVE  \E s : IsActive(s) /\ Chain = s /\ s \in Seq(AllCo) /\ s # <<>> /\ IsChain(s)
                /\ s[Len(s)] = running
<1>1. PICK s : IsActive(s)
  BY DEF IInv, ChainInv
<1>2. s \in Seq(AllCo) /\ IsChain(s) /\ s # <<>> /\ s[Len(s)] = running
  BY <1>1 DEF IsActive, IsChain
<1>3. Chain = s
  BY <1>2, ChainNow
<1>4. QED
  BY <1>1, <1>2, <1>3

\* While main runs it is alone on the chain.
LEMMA MainAlone ==
  ASSUME TypeOK, Defined, running = Main
  PROVE  Chain = <<Main>>
<1>1. <<Main>> \in Seq(AllCo) /\ IsChain(<<Main>>)
  <2> DEFINE s == <<Main>>
  <2>1. s \in Seq(AllCo) /\ Len(s) = 1 /\ s # <<>> /\ s[1] = Main
    OBVIOUS
  <2> HIDE DEF s
  <2>2. IsChain(s)
    BY <2>1 DEF IsChain
  <2>3. QED
    BY <2>1, <2>2 DEF s
<1>2. QED
  BY <1>1, ChainNow

LEMMA SameChain ==
  ASSUME Defined, Defined', UNCHANGED <<running, parent>>
  PROVE  Chain' = Chain
BY DEF Chain, IsChain

\* Control is lost.
LEMMA Loses ==
  ASSUME IInv, Defined, ~Defined', Holding' = Holding, Created' = Created
  PROVE  Continuations!Lose
<1>1. Chain # <<>>
  BY ChainThere
<1>2. Chain' = <<>>
  BY DEF Chain
<1>3. QED
  BY <1>1, <1>2 DEF Continuations!Lose

LEMMA UndefinedLoses ==
  ASSUME IInv, Defined, Undefined
  PROVE  Continuations!Lose
<1>1. Holding' = Holding /\ Created' = Created /\ ~Defined'
  BY DEF Undefined, Holding, Created, Defined
<1>2. QED
  BY <1>1, Loses

LEMMA ErrorUnwinds ==
  ASSUME IInv, status = "run", RuntimeError
  PROVE  Continuations!Unwind
<1>1. Defined /\ Defined' /\ running' = Main
  BY DEF RuntimeError, Defined
<1>2. Holding' = Holding /\ Created' = Created
  BY DEF RuntimeError, Holding, Created, IInv, TypeOK
<1>3. Chain # <<>>
  BY <1>1, ChainThere
<1>4. Chain' = <<Main>>
  <2> DEFINE s == <<Main>>
  <2>1. s \in Seq(AllCo) /\ Len(s) = 1 /\ s # <<>> /\ s[1] = Main
    OBVIOUS
  <2> HIDE DEF s
  <2>2. IsChain(s)'
    BY <1>1, <2>1 DEF IsChain
  <2>3. Chain' = s
    BY <1>1, <2>1, <2>2, ChainNext
  <2>4. QED
    BY <2>3 DEF s
<1>5. QED
  BY <1>2, <1>3, <1>4 DEF Continuations!Unwind

\* An instruction of the running coroutine that stays with it
LEMMA StaysStutters ==
  ASSUME TypeOK, FrameInv, status = "run", UNCHANGED <<status, running, parent, state>>,
         \A c \in AllCo : c # running => frames'[c] = frames[c]
  PROVE  Stutter
<1>1. Chain' = Chain
  BY SameChain DEF Defined
<1>2. \A c \in Coros : state[c] \in {"READY", "PAUSED"} => c # running
  BY DEF FrameInv
<1>3. Holding' = Holding /\ Created' = Created
  BY <1>2 DEF Holding, Created
<1>4. QED
  BY <1>1, <1>3 DEF Stutter

LEMMA CreateRefines ==
  ASSUME IInv, NEW c \in Coros, CreateCoroutine(c)
  PROVE  Continuations!Unwind \/ Continuations!Create(c)
<1>1. status = "run" /\ TypeOK /\ FrameInv /\ state[c] = "UNALLOCATED"
  BY DEF IInv, CreateCoroutine, Consumes, Emitted
<1>2. CASE RuntimeError
  BY <1>1, <1>2, ErrorUnwinds
<1>3. CASE ~RuntimeError
  <2>1. PICK first : /\ frames' = [frames EXCEPT ![c] = <<first>>]
                     /\ state' = [state EXCEPT ![c] = "READY"]
                     /\ UNCHANGED <<status, running, parent>>
    BY <1>3 DEF CreateCoroutine
  <2>2. Chain' = Chain
    BY <1>1, <2>1, SameChain DEF Defined
  <2>3. Chain # <<>>
    BY <1>1, ChainThere DEF Defined
  <2>4. <<first>> # <<>>
    OBVIOUS
  <2>5. Holding' = Holding \cup {c} /\ Created' = Created \cup {c} /\ c \notin Created
    BY <1>1, <2>1, <2>4 DEF Holding, Created, TypeOK
  <2>6. QED
    BY <2>2, <2>3, <2>5 DEF Continuations!Create
<1>4. QED
  BY <1>2, <1>3

LEMMA CallClosureRefines ==
  ASSUME IInv, NEW argc \in Nat, CallClosure(argc)
  PROVE  Continuations!Unwind \/ Stutter
<1>1. status = "run" /\ TypeOK /\ FrameInv
  BY DEF IInv, CallClosure, Consumes, Emitted
<1>2. CASE RuntimeError
  BY <1>1, <1>2, ErrorUnwinds
<1>3. CASE ~RuntimeError
  <2>1. PICK called : /\ frames' = [Taller(-argc) EXCEPT ![running] = Append(@, called)]
                      /\ UNCHANGED <<status, running, parent, state>>
    BY <1>3 DEF CallClosure
  <2>2. \A c \in AllCo : c # running => frames'[c] = frames[c]
    BY <1>1, <2>1 DEF Taller, TypeOK
  <2>3. QED
    BY <1>1, <2>1, <2>2, StaysStutters
<1>4. QED
  BY <1>2, <1>3

LEMMA CallNativeRefines ==
  ASSUME IInv, KnownInv, NEW argc \in Nat, CallNative(argc)
  PROVE  \/ Continuations!Unwind \/ Continuations!Lose \/ Stutter
         \/ \E c \in Coros : Continuations!Reset(c)
<1>1. status = "run" /\ TypeOK /\ FrameInv /\ Defined /\ argc + 1 <= Depth(running)
      /\ running \in AllCo /\ Depth(running) \in Nat
  <2>1. Emitted(argc + 1) /\ argc + 1 <= Depth(running) /\ TypeOK /\ FrameInv
    BY DEF IInv, CallNative, Consumes
  <2>2. status = "run" /\ Defined /\ running \in AllCo /\ stack[running] \in Seq(Value)
    BY <2>1 DEF Emitted, Defined, TypeOK
  <2>3. Depth(running) \in Nat
    BY <2>2 DEF Depth
  <2>4. QED
    BY <2>1, <2>2, <2>3
<1>2. CASE RuntimeError \/ Undefined
  BY <1>1, <1>2, ErrorUnwinds, UndefinedLoses
<1>3. CASE ~RuntimeError /\ ~Undefined
  <2> DEFINE target == IF Peek(argc) = ResetFn /\ Peek(0) \in Coros THEN Peek(0) ELSE NULL
  <2>1. /\ target # running
        /\ frames' = [c \in AllCo |-> IF c = target THEN <<>> ELSE Taller(-1)[c]]
        /\ state' = [c \in AllCo |-> IF c = target THEN "READY" ELSE state[c]]
        /\ UNCHANGED <<status, running, parent>>
    BY <1>3 DEF CallNative, ResetState
  <2>2. Peek(0) \in Known
    BY <1>1, KnownPopped
  <2>3. target = NULL \/ target \in Created
    BY <2>2, KnownFacts
  <2> HIDE DEF target
  <2>4. \A c \in AllCo : c # running => Taller(-1)[c] = frames[c]
    BY <1>1 DEF Taller, TypeOK
  <2>5. CASE target = NULL
    <3>1. state' = state
      BY <1>1, <2>1, <2>5 DEF TypeOK
    <3>2. \A c \in AllCo : c # running => frames'[c] = frames[c]
      BY <2>1, <2>4, <2>5
    <3>3. QED
      BY <1>1, <2>1, <3>1, <3>2, StaysStutters
  <2>6. CASE target \in Created
    <3>1. Chain' = Chain /\ Chain # <<>>
      BY <1>1, <2>1, SameChain, ChainThere DEF Defined
    <3>2. target \in Coros /\ state[target] # "UNALLOCATED"
      BY <2>6 DEF Created
    <3>3. \A c \in Coros : state[c] \in {"READY", "PAUSED"} => c # running
      BY <1>1 DEF FrameInv
    <3>4. Created' = Created
      BY <2>1, <3>2 DEF Created
    <3>5. Holding' = Holding \ {target}
      BY <2>1, <2>4, <3>2, <3>3 DEF Holding
    <3>6. QED
      BY <3>1, <3>2, <3>4, <3>5 DEF Continuations!Reset
  <2>7. QED
    BY <2>3, <2>5, <2>6
<1>4. QED
  BY <1>2, <1>3

\* Entering a coroutine that is on no stack adds it to the chain.
LEMMA ChainPushed ==
  ASSUME IInv, status = "run", NEW callee \in Coros,
         frames[callee] # <<>>, state[callee] \notin {"RUNNING", "COMPLETE", "ERROR"},
         running' = callee, parent' = [parent EXCEPT ![callee] = running], Defined'
  PROVE  Chain' = Append(Chain, callee)
<1>1. TypeOK /\ ChainInv /\ FrameInv /\ Defined
  BY DEF IInv, Defined
<1>2. PICK s \in Seq(AllCo) : IsActive(s) /\ Chain = s /\ s # <<>>
  BY <1>1, ChainThere
<1>3. \A i \in 1..Len(s) : s[i] # callee
  BY <1>1, <1>2, NotOnChain
<1>4. IsChain(Append(s, callee))'
  BY <1>1, <1>2, <1>3, LongerChain
<1>5. Append(s, callee) \in Seq(AllCo)
  BY <1>2
<1>6. Chain' = Append(s, callee)
  BY <1>4, <1>5, ChainNext
<1>7. QED
  BY <1>2, <1>6

LEMMA ResumeRefines ==
  ASSUME IInv, KnownInv, NEW argc \in Nat, Resume(argc)
  PROVE  \/ Continuations!Unwind \/ Continuations!Lose
         \/ \E c \in Coros : Continuations!Resume(c)
<1> DEFINE callee == Peek(argc)
           kept == IF state[callee] = "COMPLETE" THEN <<>> ELSE frames[callee]
<1>1. /\ status = "run" /\ TypeOK /\ FrameInv /\ ChainInv /\ Defined
      /\ argc + 1 <= Depth(running) /\ running \in AllCo /\ Depth(running) \in Nat
      /\ Emitted(argc + 1)
  <2>1. /\ Emitted(argc + 1) /\ argc + 1 <= Depth(running)
        /\ TypeOK /\ FrameInv /\ ChainInv
    BY DEF IInv, Resume, Consumes
  <2>2. status = "run" /\ Defined /\ running \in AllCo /\ stack[running] \in Seq(Value)
    BY <2>1 DEF Emitted, Defined, TypeOK
  <2>3. Depth(running) \in Nat
    BY <2>2 DEF Depth
  <2>4. QED
    BY <2>1, <2>2, <2>3
<1>2. CASE RuntimeError
  BY <1>1, <1>2, ErrorUnwinds
<1>3. CASE ~RuntimeError
  <2>1. /\ frames' = [Taller(-argc) EXCEPT ![callee] = kept]
        /\ parent' = [parent EXCEPT ![callee] = running]
        /\ running' = callee
        /\ state' = [state EXCEPT ![callee] = "RUNNING"]
        /\ status' = IF kept = <<>> THEN "undefined" ELSE status
        /\ callee \in Coros /\ state[callee] \notin {"RUNNING", "ERROR"}
    BY <1>3 DEF Resume, ResumedBy, Resumable
  <2>2. callee \in Known
    <3>1. argc < Depth(running) /\ argc <= Depth(running)
      BY <1>1
    <3>2. QED
      BY <1>1, <3>1, KnownPopped
  <2>3. state[callee] \in {"READY", "PAUSED", "COMPLETE"}
    <3>1. state[callee] # "UNALLOCATED" /\ state[callee] \in States
      BY <1>1, <2>1, <2>2, KnownFacts DEF Created, TypeOK
    <3>2. QED
      BY <2>1, <3>1 DEF States
  <2>4. callee # running
    BY <1>1, <2>1 DEF FrameInv
  <2> HIDE DEF callee, kept
  <2>5. Created' = Created
    BY <1>1, <2>1, <2>3 DEF Created, TypeOK
  <2>6. \A c \in AllCo : c # running /\ c # callee => frames'[c] = frames[c]
    BY <1>1, <2>1 DEF Taller, TypeOK
  <2>7. \A c \in Coros : c # callee => state'[c] = state[c]
    BY <1>1, <2>1 DEF TypeOK
  <2>8. \A c \in Coros : state[c] \in {"READY", "PAUSED"} => c # running
    BY <1>1 DEF FrameInv
  <2>9. state'[callee] = "RUNNING"
    BY <1>1, <2>1 DEF TypeOK
  <2>10. Holding' = Holding \ {callee}
    BY <2>6, <2>7, <2>8, <2>9 DEF Holding
  <2>11. CASE kept = <<>>
    <3>1. callee \notin Holding
      BY <2>3, <2>11 DEF Holding, kept, callee
    <3>2. Holding' = Holding
      BY <2>10, <3>1
    <3>3. ~Defined'
      BY <2>1, <2>11 DEF Defined
    <3>4. QED
      BY <1>1, <2>5, <3>2, <3>3, Loses
  <2>12. CASE kept # <<>>
    <3>1. frames[callee] # <<>> /\ state[callee] # "COMPLETE"
      BY <2>12 DEF kept, callee
    <3>2. callee \in Holding
      BY <2>1, <2>3, <3>1 DEF Holding
    <3>3. Chain # <<>>
      BY <1>1, ChainThere
    <3>4. callee # Main /\ Defined'
      BY <1>1, <2>1, <2>12 DEF Defined
    <3>5. Chain' = Append(Chain, callee)
      BY <1>1, <2>1, <3>1, <3>4, ChainPushed
    <3>6. Chain # <<>> /\ callee \in Coros
      BY <2>1, <3>3
    <3>7. QED
      BY <2>1, <2>5, <2>10, <3>2, <3>5, <3>6 DEF Continuations!Resume
  <2>13. QED
    BY <2>11, <2>12
<1>4. QED
  BY <1>2, <1>3

\* What the chain becomes when the running coroutine gives control back
LEMMA ChainPopped ==
  ASSUME IInv, status = "run", parent[running] # NULL, running' = parent[running],
         UNCHANGED parent, Defined'
  PROVE  Len(Chain) > 1 /\ Last(Chain) = running /\ Chain' = Front(Chain)
<1>1. TypeOK /\ ChainInv /\ Defined
  BY DEF IInv, Defined
<1>2. PICK s \in Seq(AllCo) : IsActive(s) /\ Chain = s /\ s # <<>> /\ s[Len(s)] = running
  BY <1>1, ChainThere
<1>3. Len(s) > 1
  BY <1>1, <1>2, ResumerOnChain
<1>4. IsChain(Front(s))' /\ Front(s) \in Seq(AllCo)
  BY <1>1, <1>2, ShorterChain
<1>5. Chain' = Front(s)
  BY <1>4, ChainNext
<1>6. QED
  BY <1>2, <1>3, <1>5 DEF Last

\* Only a coroutine has been resumed by another.
LEMMA ResumedIsCoro ==
  ASSUME TypeOK, ChainInv, parent[running] # NULL
  PROVE  running \in Coros /\ parent[running] \in AllCo
BY DEF TypeOK, ChainInv

LEMMA SuspendRefines ==
  ASSUME IInv, Consumes(1), parent[running] # NULL,
         NEW handed, NEW t \in {-1, 0}, SuspendTo(parent[running], handed, t)
  PROVE  Continuations!Lose \/ Continuations!Suspend
<1>1. status = "run" /\ TypeOK /\ FrameInv /\ ChainInv /\ Defined /\ Emitted(1)
  BY DEF IInv, Consumes, Emitted, Defined
<1>2. CASE Undefined
  BY <1>1, <1>2, UndefinedLoses
<1>3. CASE ~Undefined
  <2>1. /\ frames' = Taller(t)
        /\ state' = [state EXCEPT ![running] = "PAUSED"]
        /\ running' = parent[running]
        /\ UNCHANGED <<status, parent>>
    BY <1>3 DEF SuspendTo, Paused
  <2>2. Defined'
    BY <1>1, <2>1 DEF Defined
  <2>3. running \in Coros
    BY <1>1, ResumedIsCoro
  <2>4. frames'[running] # <<>> /\ \A c \in AllCo : c # running => frames'[c] = frames[c]
    <3>1. frame \in 1..Len(frames[running]) /\ t \in Int
      BY <1>1, WantEnough
    <3>2. frames[running][frame].want + t \in Nat
      BY <1>1, EmittedCounts
    <3>3. QED
      BY <1>1, <2>1, <3>1, <3>2, TallerFrames
  <2>5. state'[running] = "PAUSED" /\ \A c \in Coros : c # running => state'[c] = state[c]
    BY <1>1, <2>1, <2>3 DEF TypeOK
  <2>6. Holding' = Holding \cup {running}
    BY <2>3, <2>4, <2>5 DEF Holding
  <2>7. Created' = Created
    <3>1. state[running] = "RUNNING"
      BY <1>1, <2>3 DEF FrameInv
    <3>2. QED
      BY <2>3, <2>5, <3>1 DEF Created
  <2>8. Len(Chain) > 1 /\ Last(Chain) = running /\ Chain' = Front(Chain)
    BY <1>1, <2>1, <2>2, ChainPopped
  <2>9. QED
    BY <2>6, <2>7, <2>8
      DEF Continuations!Suspend, Continuations!Front, Continuations!Last, Front, Last
<1>4. QED
  BY <1>2, <1>3

LEMMA YieldAwaitRefines ==
  ASSUME IInv, Yield \/ Await
  PROVE  Continuations!Unwind \/ Continuations!Lose \/ Continuations!Suspend
<1>1. Consumes(1) /\ status = "run"
  BY DEF Yield, Await, Consumes, Emitted
<1>2. CASE parent[running] = NULL
  BY <1>1, <1>2, ErrorUnwinds DEF Yield, Await
<1>3. CASE parent[running] # NULL
  <2>1. \E t \in {-1, 0} : \E handed : SuspendTo(parent[running], handed, t)
    BY <1>3 DEF Yield, Await
  <2>2. QED
    BY <1>1, <1>3, <2>1, SuspendRefines
<1>4. QED
  BY <1>2, <1>3

LEMMA ReturnFromCoroutineRefines ==
  ASSUME IInv, ReturnFromCoroutine
  PROVE  Continuations!Lose \/ Continuations!Finish
<1> DEFINE p == parent[running]
<1>1. status = "run" /\ TypeOK /\ FrameInv /\ ChainInv /\ Defined /\ p # NULL
  BY DEF IInv, ReturnFromCoroutine, Consumes, Emitted, Defined
<1>2. /\ frames' = [frames EXCEPT ![running] = <<>>]
      /\ state' = [state EXCEPT ![running] = "COMPLETE"]
      /\ running' = p
      /\ status' = IF frames[p] = <<>> THEN "undefined" ELSE status
      /\ UNCHANGED <<parent>>
  BY DEF ReturnFromCoroutine
<1>3. running \in Coros /\ state[running] = "RUNNING"
  BY <1>1, ResumedIsCoro DEF FrameInv
<1>4. /\ state'[running] = "COMPLETE"
      /\ \A c \in Coros : c # running => state'[c] = state[c] /\ frames'[c] = frames[c]
  BY <1>1, <1>2, <1>3 DEF TypeOK
<1>5. Holding' = Holding /\ Created' = Created
  BY <1>3, <1>4 DEF Holding, Created
<1>6. CASE frames[p] = <<>>
  BY <1>1, <1>2, <1>5, <1>6, Loses DEF Defined
<1>7. CASE frames[p] # <<>>
  <2>1. Defined'
    BY <1>1, <1>2, <1>7 DEF Defined
  <2>2. Len(Chain) > 1 /\ Chain' = Front(Chain)
    BY <1>1, <1>2, <2>1, ChainPopped
  <2>3. QED
    BY <1>5, <2>2 DEF Continuations!Finish, Continuations!Front, Front
<1>8. QED
  BY <1>6, <1>7

LEMMA ReturnFromScriptRefines ==
  ASSUME IInv, ReturnFromScript
  PROVE  Stutter
<1>1. status = "run" /\ TypeOK /\ FrameInv /\ ChainInv /\ Defined /\ parent[running] = NULL
  BY DEF IInv, ReturnFromScript, Consumes, Emitted, Defined
<1>2. running = Main
  <2>1. PICK s : IsActive(s)
    BY <1>1 DEF ChainInv
  <2>2. QED
    BY <1>1, <2>1, NoResumer
<1>3. /\ frames' = IF Repl THEN Taller(-1) ELSE [frames EXCEPT ![running] = <<>>]
      /\ state' = [state EXCEPT ![running] = IF Repl THEN "READY" ELSE "COMPLETE"]
      /\ status' \in {"prompt", "done"}
      /\ UNCHANGED <<running, parent>>
  BY DEF ReturnFromScript
<1>4. \A c \in Coros : state'[c] = state[c] /\ frames'[c] = frames[c]
  BY <1>1, <1>2, <1>3, TallerElsewhere DEF TypeOK
<1>5. Holding' = Holding /\ Created' = Created
  BY <1>4 DEF Holding, Created
<1>6. Chain' = Chain
  BY <1>1, <1>3, SameChain DEF Defined
<1>7. QED
  BY <1>5, <1>6 DEF Stutter

LEMMA NextLineRefines ==
  ASSUME IInv, NextLine
  PROVE  Stutter \/ Continuations!Lose
<1>1. /\ UNCHANGED <<running, parent, state, frames>> /\ Defined
  BY DEF NextLine, Defined
<1>2. Holding' = Holding /\ Created' = Created
  BY <1>1 DEF Holding, Created
<1>3. QED
  BY <1>1, <1>2, SameChain, Loses DEF Stutter

LEMMA RefinesInit == Init => Continuations!Init
<1> SUFFICES ASSUME Init PROVE Continuations!Init
  OBVIOUS
<1>1. TypeOK /\ Defined /\ running = Main
  BY InitType DEF Init, Defined
<1>2. Chain = <<Main>>
  BY <1>1, MainAlone
<1>3. \A c \in Coros : state[c] = "UNALLOCATED"
  BY DEF Init
<1>4. Holding = {} /\ Created = {}
  BY <1>3 DEF Holding, Created
<1>5. QED
  BY <1>2, <1>4 DEF Continuations!Init

LEMMA RefinesStep ==
  IInv /\ KnownInv /\ [Next]_vars => [Continuations!Next]_(Continuations!vars)
<1> SUFFICES ASSUME IInv, KnownInv, [Next]_vars PROVE Continuations!Next \/ Stutter
  BY DEF Stutter, Continuations!vars
<1>1. TypeOK /\ FrameInv
  BY DEF IInv
<1>2. CASE UNCHANGED vars
  BY <1>2 DEF vars, Stutter, Chain, Holding, Created, Defined, IsChain
<1>3. CASE \E v \in Pushable : Push(v)
  <2>1. status = "run" /\ frames' = Taller(1) /\ UNCHANGED <<status, running, parent, state>>
    BY <1>3 DEF Push, Emitted
  <2>2. QED
    BY <1>1, <2>1, TallerElsewhere, StaysStutters
<1>4. CASE Pop
  <2>1. status = "run" /\ frames' = Taller(-1) /\ UNCHANGED <<status, running, parent, state>>
    BY <1>4 DEF Pop, Consumes, Emitted
  <2>2. QED
    BY <1>1, <2>1, TallerElsewhere, StaysStutters
<1>5. CASE \E c \in Coros : CreateCoroutine(c)
  BY <1>5, CreateRefines DEF Continuations!Next
<1>6. CASE \E argc \in 0..MaxTemps - 1 : Call(argc)
  <2>1. PICK argc \in 0..MaxTemps - 1 : Call(argc)
    BY <1>6
  <2>2. argc \in Nat
    BY <2>1
  <2>3. CASE CallUncallable(argc)
    BY <2>3, ErrorUnwinds DEF CallUncallable, Consumes, Emitted, Continuations!Next
  <2>4. QED
    BY <2>1, <2>2, <2>3, CallClosureRefines, CallNativeRefines, ResumeRefines
       DEF Call, Continuations!Next
<1>7. CASE Yield \/ Await
  BY <1>7, YieldAwaitRefines DEF Continuations!Next
<1>8. CASE ReturnFromCall
  <2>1. /\ status = "run" /\ frames' = [frames EXCEPT ![running] = Front(@)]
        /\ UNCHANGED <<status, running, parent, state>>
    BY <1>8 DEF ReturnFromCall, Consumes, Emitted
  <2>2. \A c \in AllCo : c # running => frames'[c] = frames[c]
    BY <1>1, <2>1 DEF TypeOK
  <2>3. QED
    BY <1>1, <2>1, <2>2, StaysStutters
<1>9. CASE ReturnFromCoroutine
  BY <1>9, ReturnFromCoroutineRefines DEF Continuations!Next
<1>10. CASE ReturnFromScript
  BY <1>10, ReturnFromScriptRefines
<1>11. CASE NextLine
  BY <1>11, NextLineRefines DEF Continuations!Next
<1>12. CASE Underflow
  BY <1>12, UndefinedLoses DEF Underflow, Emitted, Defined, Continuations!Next
<1>13. QED
  BY <1>2, <1>3, <1>4, <1>5, <1>6, <1>7, <1>8, <1>9, <1>10, <1>11, <1>12 DEF Next

\* The coroutines on the stacks exist, in every state.
LEMMA KnownAlways == Spec => [](IInv /\ KnownInv)
<1>1. Init => KnownInv
  <2> SUFFICES ASSUME Init PROVE KnownInv
    OBVIOUS
  <2>1. <<Script>> \in Seq(Known) /\ <<>> \in Seq(Known)
    BY DEF Known
  <2>2. QED
    BY <2>1 DEF Init, KnownInv
<1>2. QED
  BY <1>1, KnownStep, IInvInit, IInvStep, PTL DEF Spec

(* The coroutines of vm.c are one-shot continuations on a stack, for any     *)
(* program and any number of coroutines: a step enters one that waits from   *)
(* the top, leaves the top for the one below, takes a continuation away,     *)
(* unwinds all of them or loses control.                                     *)
THEOREM Refinement == Spec => ImplementsResumeStack
<1>1. QED
  BY RefinesInit, RefinesStep, KnownAlways, PTL
     DEF Spec, ImplementsResumeStack, Continuations!Spec

=============================================================================
