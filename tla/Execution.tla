----------------------------- MODULE Execution -----------------------------
(***************************************************************************)
(* What vm_run makes of the code that Compiler emits: one activation of    *)
(* one compiled function, from vm_call to its return.                      *)
(*                                                                         *)
(* A value on the stack is represented by where it comes from: the address *)
(* of the instruction that pushed it or, for the callee and the arguments, *)
(* minus its slot.  Both outcomes of a condition are possible, and so is a *)
(* runtime error wherever an operand may have the wrong type.              *)
(*                                                                         *)
(* The compiler counts values: a local is the slot it will have if every   *)
(* instruction pushes and pops what the compiler assumes.  "displaced"     *)
(* turns TRUE with the steps known not to: a jump between places with      *)
(* different locals (break, continue, the end of a for body), a return,    *)
(* which leaves callee and arguments behind, and a resumption that takes   *)
(* more or fewer values than it puts back.                                 *)
(***************************************************************************)
EXTENDS Compiler

CONSTANT MaxStack \* values in the frame

VARIABLES program,  \* the function that runs
          pc,       \* the frame's ip
          stack,    \* the frame's slots
          open,     \* slots an open upvalue refers to
          displaced \* the stack may differ from what the compiler counts on

frameVars == <<program, pc, stack, open, displaced>>
vars == <<compileVars, frameVars>>

NoProgram == [code |-> <<>>, starts |-> {}, arity |-> 0, amid |-> FALSE, corrupt |-> FALSE]

Init ==
  /\ CompileInit
  /\ program = NoProgram
  /\ pc = 1
  /\ stack = <<>>
  /\ open = {}
  /\ displaced = FALSE

Compile == CompileStep /\ UNCHANGED frameVars

-----------------------------------------------------------------------------
(* The frame *)

\* Which variables the instructions were about no longer matters.
Loaded(f) ==
  [f EXCEPT !.amid = FALSE, !.code = [a \in DOMAIN f.code |->
     [f.code[a] EXCEPT !.meant = Nothing, !.found = Nothing]]]

\* vm_call, for any of the functions compiled; the compiler is done.
Start(f) ==
  /\ agenda = <<>> /\ ~f.corrupt
  /\ program' = Loaded(f)
  /\ stack' = [slot \in 1..f.arity + 1 |-> -slot]
  /\ functions' = <<>> /\ fuel' = 0
  /\ UNCHANGED <<agenda, compilers, saved, breaks, continueJump, pc, open, displaced>>

Instr == program.code[pc]

AtStart == \E start \in program.starts : start[1] = pc

\* What the instruction takes from the stack.
Pops(instr) ==
  CASE instr.op \in {"BINARY", "GET_FIELD", "SET_FIELD"}         -> 2
    [] instr.op \in {"UNARY", "COROUTINE", "POP", "CLOSE_UPVALUE",
                     "RETURN", "YIELD", "AWAIT"}                 -> 1
    [] instr.op = "LIST"                                         -> instr.arg
    [] instr.op = "DICT"                                         -> 2 * instr.arg
    [] instr.op = "CALL"                                         -> instr.arg + 1
    [] OTHER                                                     -> 0

\* Once displaced, the frame is followed to the start of the next statement.
Executing(ops) ==
  /\ pc \in DOMAIN program.code
  /\ Instr.op \in ops
  /\ Len(stack) >= Pops(Instr)
  /\ ~(displaced /\ AtStart)

Rest == SubSeq(stack, 1, Len(stack) - Pops(Instr))

\* The instruction replaces its operands by these values.
Replace(values) ==
  /\ Len(Rest \o values) <= MaxStack
  /\ stack' = Rest \o values

UnchangedCompiler == UNCHANGED <<compileVars, program>>

Leave ==
  /\ program' = NoProgram /\ pc' = 1 /\ stack' = <<>> /\ open' = {} /\ displaced' = FALSE
  /\ UNCHANGED compileVars

-----------------------------------------------------------------------------
(* Instructions *)

\* Operators, literals, and reading a variable or a field push one value.
Push ==
  /\ Executing({"CONSTANT", "UNARY", "BINARY", "COROUTINE", "LIST", "DICT",
                "GET_FIELD", "GET_LOCAL", "GET_UPVALUE", "GET_GLOBAL"})
  /\ Replace(<<pc>>)
  /\ pc' = pc + 1
  /\ UnchangedCompiler /\ UNCHANGED <<open, displaced>>

\* Assignments leave the value; OP_SET_FIELD leaves the container.
Assign ==
  /\ Executing({"SET_LOCAL", "SET_UPVALUE", "SET_GLOBAL", "SET_FIELD", "POP"})
  /\ Replace(<<>>)
  /\ pc' = pc + 1
  /\ UnchangedCompiler /\ UNCHANGED <<open, displaced>>

\* upvalue_capture, with the closure already on the stack
Closure ==
  /\ Executing({"CLOSURE"})
  /\ Replace(<<pc>>)
  /\ open' = open \cup {upvalue.index : upvalue \in {u \in Range(Instr.arg) : u.is_local}}
  /\ pc' = pc + 1
  /\ UnchangedCompiler /\ UNCHANGED displaced

\* close_upvalues(stack_top - 1)
CloseUpvalue ==
  /\ Executing({"CLOSE_UPVALUE"})
  /\ Replace(<<>>)
  /\ open' = {slot \in open : slot < Len(stack)}
  /\ pc' = pc + 1
  /\ UnchangedCompiler /\ UNCHANGED displaced

\* An unpatched jump leads out of the code: nothing more is said of it.
TakeJump ==
  /\ Executing({"JUMP", "LOOP", "JUMP_IF_FALSE"})
  /\ \/ pc' = Instr.arg /\ displaced' = (displaced \/ ~Instr.clean)
     \/ Instr.op = "JUMP_IF_FALSE" /\ pc' = pc + 1 /\ UNCHANGED displaced
  /\ UnchangedCompiler /\ UNCHANGED <<stack, open>>

\* call_native, and call_coroutine when the coroutine yields or awaits: the
\* result takes the place of the callee.
CallReplaced ==
  /\ Executing({"CALL"})
  /\ Replace(<<pc>>)
  /\ pc' = pc + 1
  /\ UnchangedCompiler /\ UNCHANGED <<open, displaced>>

\* do_return pushes the result above the callee, the arguments and the locals
\* of the function that was called; a coroutine that ends leaves itself.
CallReturned(args, locals) ==
  /\ Executing({"CALL"})
  /\ args \in {0, Instr.arg}
  /\ LET left == Len(Rest) + 1 + args
     IN  stack' = SubSeq(stack, 1, left) \o [i \in 1..locals + 1 |-> pc]
  /\ Len(stack') <= MaxStack
  /\ displaced' = TRUE
  /\ pc' = pc + 1
  /\ UnchangedCompiler /\ UNCHANGED open

\* do_yield and do_await, up to the resumption with argc arguments.  They
\* lower the stack by the arity of the function.  It fits if nothing but
\* the old arguments is lowered and as many come back, or if there are none
\* to lower and those that come are what the statement or expression needs.
Needed(instr) == IF instr.op = "AWAIT" THEN 1 ELSE 0

Fits(argc) ==
  \/ program.arity = 0 /\ argc = Needed(Instr)
  \/ /\ Instr.op = "YIELD"
     /\ argc = program.arity
     /\ Len(Rest) = program.arity + 1

Suspend(argc) ==
  /\ Executing({"YIELD", "AWAIT"})
  /\ Len(Rest) >= program.arity
  /\ LET kept == SubSeq(Rest, 1, Len(Rest) - program.arity)
     IN  stack' = kept \o [i \in 1..argc |->
                    IF Instr.op = "AWAIT" THEN pc ELSE -(Len(kept) + i)]
  /\ Len(stack') <= MaxStack
  /\ displaced' = (displaced \/ ~Fits(argc))
  /\ pc' = pc + 1
  /\ UnchangedCompiler /\ UNCHANGED open

Return == Executing({"RETURN"}) /\ Leave

RuntimeError ==
  /\ Executing({"UNARY", "BINARY", "COROUTINE", "CALL", "GET_FIELD", "SET_FIELD",
                "SET_GLOBAL", "YIELD", "AWAIT"})
  /\ Leave

Next ==
  \/ Compile
  \/ \E f \in Range(functions) : Start(f)
  \/ Push \/ Assign \/ Closure \/ CloseUpvalue \/ TakeJump \/ CallReplaced
  \/ \E args \in 0..MaxItems, locals \in 0..1 : CallReturned(args, locals)
  \/ \E argc \in 0..MaxItems : Suspend(argc)
  \/ Return \/ RuntimeError

Spec == Init /\ [][Next]_vars

-----------------------------------------------------------------------------
(* Properties *)

InPlace(scope) ==
  /\ Len(scope) <= Len(stack)
  /\ \A slot \in DOMAIN scope : stack[slot] \in scope[slot][1]..scope[slot][2]

\* Wherever an instruction is executed, the variables in scope there are in
\* their slots, with values that came from their own initializers, and the
\* operands of the instruction are above them.
VariablesInPlace ==
  pc \in DOMAIN program.code /\ ~displaced =>
    /\ InPlace(Instr.scope)
    /\ Len(stack) >= Len(Instr.scope) + Pops(Instr)

\* Between statements there is nothing on the stack but the variables in
\* scope: blocks, branches, loops and expressions take back what they push.
StackMatchesScope ==
  ~displaced =>
    \A start \in program.starts :
      start[1] = pc => Len(stack) = Len(start[2]) /\ InPlace(start[2])

\* No upvalue outlives its variable open: end_scope closes what a closure
\* has captured before the slot is used for something else.
OpenUpvaluesLive == ~displaced => open \subseteq DOMAIN stack

\* do_yield, resumed with as many arguments as before: "clear the previous
\* arguments" replaces the parameters, and no other variable.
OnlyArgumentsCleared ==
  [][Executing({"YIELD"}) /\ pc' = pc + 1 /\ Len(stack') = Len(Rest) =>
       \A slot \in DOMAIN Rest : stack'[slot] # stack[slot] => slot \in 2..program.arity + 1]_vars

=============================================================================
