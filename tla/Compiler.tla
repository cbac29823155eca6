------------------------------ MODULE Compiler ------------------------------
(***************************************************************************)
(* The code generator of compiler.c: the locals, scopes and upvalues of    *)
(* the functions being compiled, and the jumps it emits and patches.       *)
(*                                                                         *)
(* The source text is not given: wherever the parser looks at a token to   *)
(* decide, any valid continuation may follow, until MaxFuel constructs     *)
(* have been used.  "agenda" holds the C calls still to be made, as tuples *)
(* headed by a name.  The calls that decide are replaced by those of the   *)
(* construct they have found, the others are made.                         *)
(*                                                                         *)
(* An address is the number of an instruction, not of a byte.  Every       *)
(* instruction remembers the variables that were in scope when it was      *)
(* emitted and, for an access, the declaration it reaches ("found") and    *)
(* the one lexical scoping means ("meant", from the reference "env").      *)
(* Programs with syntax errors are the subject of Parser.                  *)
(***************************************************************************)
EXTENDS Integers, SequencesExt, FiniteSetsExt

CONSTANTS Names,      \* identifiers
          MaxFuel,    \* bounds the constructs in a program
          MaxItems,   \* arguments of a call, elements of a list or a dictionary
          Cost        \* how much of the fuel a construct uses

VARIABLES agenda,       \* C calls still to be made
          compilers,    \* `current` and the compilers that enclose it, innermost last
          functions,    \* what end_compilation has returned so far
          saved,        \* addresses in local variables of the active C functions
          breaks,       \* the array of jumps that wait for the end of a loop
          continueJump, \* current_continue_jump, and whose code it is an address of
          fuel          \* constructs left

unitVars == <<compilers, functions, saved, breaks, continueJump>>
compileVars == <<agenda, unitVars, fuel>>

Constructs == {"variable", "function", "parameter", "block", "if", "while", "for", "break",
               "continue", "return", "yield", "await", "call", "get", "set", "expression",
               "operator", "logic", "collection", "field", "coroutine"}

CompilerAssumption ==
  /\ "" \notin Names
  /\ MaxFuel \in Nat /\ MaxItems \in Nat
  /\ Cost \in [Constructs -> Nat \ {0}]

ASSUME CompilerAssumption

Uninitialized == -1  \* the depth of a local that is not initialized
Unpatched     == 0   \* the target of a jump nobody has patched

\* What an instruction means, if not a declaration: nothing of interest, a
\* global variable, or a jump out of a loop where there is none.
Nothing == <<0, 0>>
Global  == <<0, 1>>
Stray   == <<0, 2>>

-----------------------------------------------------------------------------
(* A compiler *)

\* A local: its name, the depth of its scope, whether a closure captures it,
\* and the addresses of the instructions that leave its value on the stack
\* (for the reserved slot and the parameters, minus the slot).
Local(name, depth, from, to) ==
  [name |-> name, depth |-> depth, is_captured |-> FALSE, from |-> from, to |-> to]

\* "env" lists the declarations visible in the function by the rules of the
\* language, "braces" how many there were at each brace still open.  "amid" is
\* TRUE for a function compiled while a break waits for its target, "corrupt"
\* once a break of another function has been written over the code.
NewCompiler(id, type, amid) ==
  [id |-> id, type |-> type, arity |-> 0, scope_depth |-> 0,
   locals |-> <<Local("", 0, -1, -1)>>, upvalues |-> <<>>, code |-> <<>>,
   env |-> <<>>, braces |-> <<>>, starts |-> {}, amid |-> amid, corrupt |-> FALSE]

Current == compilers[Len(compilers)]

Update(c) == compilers' = [compilers EXCEPT ![Len(compilers)] = c]

LastLocal(c) == c.locals[Len(c.locals)]

\* The address of the next instruction.
Here(c) == Len(c.code) + 1

\* Where the values of the variables in scope were pushed; the last may still
\* be computed.
ScopeOf(c) ==
  [i \in 1..IF LastLocal(c).to = 0 THEN Len(c.locals) - 1 ELSE Len(c.locals) |->
     <<c.locals[i].from, c.locals[i].to>>]

\* The op "CONSTANT" stands for OP_CONSTANT, OP_NIL, OP_TRUE and OP_FALSE, and
\* "UNARY" and "BINARY" for several others.  "clean" is FALSE for a jump between
\* places where the compiler has a different number of locals.
Instruction(c, op, arg) ==
  [op |-> op, arg |-> arg, clean |-> TRUE, meant |-> Nothing, found |-> Nothing,
   scope |-> ScopeOf(c)]

Written(c, instr) == [c EXCEPT !.code = Append(@, instr)]

Emitted(c, op, arg) == Written(c, Instruction(c, op, arg))

\* Where a declaration starts; only the properties look at this.
Started(c) == [c EXCEPT !.starts = @ \cup {<<Here(c), ScopeOf(c)>>}]

-----------------------------------------------------------------------------
(* The agenda *)

Emit(op)         == <<"emit_byte", op, 0>>
EmitArg(op, arg) == <<"emit_byte", op, arg>>
Access(op, index, decl) == <<"emit_access", op, index, decl>>
Jump(op, name)   == <<"emit_jump", op, name>>
Patch(name)      == <<"patch_jump", name>>

Expression == <<"expression">>
Statement  == <<"statement">>
Block      == <<"block">>

Doing(name) == agenda # <<>> /\ Head(agenda)[1] = name

\* A call that decides nothing is made.
Making(name) == Doing(name) /\ agenda' = Tail(agenda) /\ UNCHANGED fuel

\* The arguments of the call
Arg(i) == Head(agenda)[i + 1]

OnlyCompilers == UNCHANGED <<functions, saved, breaks, continueJump>>

\* emit_byte, with the operand
EmitByte == Making("emit_byte") /\ Update(Emitted(Current, Arg(1), Arg(2))) /\ OnlyCompilers

-----------------------------------------------------------------------------
(* Jumps and loops *)

\* The variables of the C functions that hold addresses
Addresses == {"then_jump", "else_jump", "exit_jump", "body_jump", "end_jump",
              "loop_start", "increment_start", "cont"}

Place(c) == [addr |-> Here(c), id |-> c.id, locals |-> Len(c.locals)]

NoPlace == [addr |-> 1, id |-> 0, locals |-> -1]

\* A C function that keeps addresses in local variables.
WithAddresses(calls) == <<<<"enter">>>> \o calls \o <<<<"leave">>>>

EnterCall ==
  /\ Making("enter")
  /\ saved' = Append(saved, [name \in Addresses |-> NoPlace])
  /\ UNCHANGED <<compilers, functions, breaks, continueJump>>

LeaveCall ==
  /\ Making("leave")
  /\ saved' = Front(saved)
  /\ UNCHANGED <<compilers, functions, breaks, continueJump>>

Kept(name) == saved[Len(saved)][name]

Keep(name, place) == saved' = [saved EXCEPT ![Len(saved)][name] = place]

EmitJump ==
  /\ Making("emit_jump")
  /\ Keep(Arg(2), Place(Current))
  /\ Update(Emitted(Current, Arg(1), Unpatched))
  /\ UNCHANGED <<functions, breaks, continueJump>>

Patched(c, addr, target, clean) ==
  [c EXCEPT !.code[addr].arg = target, !.code[addr].clean = clean]

\* The jump leads to the next instruction.
JumpTarget(c) == Here(c)

PatchJump ==
  LET c == Current  jump == Kept(Arg(1))
  IN  /\ Making("patch_jump")
      /\ Update(Patched(c, jump.addr, JumpTarget(c), jump.locals = Len(c.locals)))
      /\ OnlyCompilers

LoopStart ==
  /\ Making("loop_start")
  /\ Keep(Arg(1), Place(Current))
  /\ UNCHANGED <<compilers, functions, breaks, continueJump>>

\* emit_loop: a jump back, clean if the locals are those of the target.
LoopTo(c, to) == [Instruction(c, "LOOP", to.addr) EXCEPT !.clean = to.locals = Len(c.locals)]

EmitLoop ==
  Making("emit_loop") /\ Update(Written(Current, LoopTo(Current, Kept(Arg(1))))) /\ OnlyCompilers

\* while_statement's cont = current_continue_jump, and the loop's own
EnterLoop ==
  /\ Making("enter_loop")
  /\ Keep("cont", continueJump)
  /\ continueJump' = Kept("loop_start")
  /\ UNCHANGED <<compilers, functions, breaks>>

LeaveLoop ==
  /\ Making("leave_loop")
  /\ continueJump' = Kept("cont")
  /\ UNCHANGED <<compilers, functions, saved, breaks>>

\* Only while_statement patches breaks and sets current_continue_jump; the
\* other uses are marked.
Marked(c, instr) == IF continueJump.id = c.id THEN instr ELSE [instr EXCEPT !.meant = Stray]

\* break_statement: emit_jump and push_break
Break ==
  LET c == Current
  IN  /\ Making("break")
      /\ Update(Written(c, Marked(c, Instruction(c, "JUMP", Unpatched))))
      /\ breaks' = Append(breaks, [depth |-> c.scope_depth, addr |-> Here(c), id |-> c.id])
      /\ UNCHANGED <<functions, saved, continueJump>>

\* patch_breaks(scope_depth + 1, ...): the array is not cleared between
\* functions, and a break of another function is written into this one's code,
\* at an address of the other.
BreaksNested == breaks # <<>> /\ Last(breaks).depth > Current.scope_depth + 1
BreaksLoop == breaks # <<>> /\ Last(breaks).depth >= Current.scope_depth + 1

PatchBreak ==
  LET c == Current  break == Last(breaks)
  IN  /\ Doing("patch_breaks") /\ BreaksLoop
      /\ breaks' = Front(breaks)
      /\ Update(IF break.id = c.id THEN Patched(c, break.addr, Here(c), FALSE)
                ELSE [c EXCEPT !.corrupt = TRUE])
      /\ UNCHANGED <<agenda, fuel, functions, saved, continueJump>>

BreaksPatched == Making("patch_breaks") /\ ~BreaksLoop /\ UNCHANGED unitVars

\* continue_statement: current_continue_jump may be an offset into the code of
\* another function.
Continue ==
  LET c  == Current
      to == IF continueJump.id = c.id THEN continueJump
            ELSE [addr |-> Unpatched, locals |-> -1]
  IN  Making("continue") /\ Update(Written(c, Marked(c, LoopTo(c, to)))) /\ OnlyCompilers

-----------------------------------------------------------------------------
(* Scopes and locals *)

BeginScope ==
  /\ Making("begin_scope")
  /\ Update([Current EXCEPT !.scope_depth = @ + 1, !.braces = Append(@, Len(Current.env))])
  /\ OnlyCompilers

\* end_scope: the depth first, ...
EndScope ==
  /\ Doing("end_scope")
  /\ agenda' = <<<<"drop_locals">>>> \o Tail(agenda)
  /\ Update([Current EXCEPT !.scope_depth = @ - 1, !.braces = Front(@),
                            !.env = SubSeq(@, 1, Last(Current.braces))])
  /\ UNCHANGED fuel /\ OnlyCompilers

\* ... then one instruction for each local that is deeper.  All are initialized
\* here: the depth -1, as an unsigned number, would be deeper.
LeftAround(c) == Len(c.locals) > 1 /\ LastLocal(c).depth >= c.scope_depth
Left(c) == LastLocal(c).depth > c.scope_depth

DropLastOpen(c) == Emitted([c EXCEPT !.locals = Front(@)], "POP", 0)
DropLast(c) ==
  Emitted([c EXCEPT !.locals = Front(@)],
          IF LastLocal(c).is_captured THEN "CLOSE_UPVALUE" ELSE "POP", 0)

DropLocal ==
  /\ Doing("drop_locals") /\ Left(Current)
  /\ Update(DropLast(Current))
  /\ UNCHANGED <<agenda, fuel>> /\ OnlyCompilers

ScopeEnded == Making("drop_locals") /\ ~Left(Current) /\ UNCHANGED unitVars

\* parse_variable, declare_variable, add_local
ParseVariable ==
  /\ Making("parse_variable")
  /\ Update([Current EXCEPT !.locals = Append(@, Local(Arg(1), Uninitialized, Here(Current), 0))])
  /\ OnlyCompilers

\* mark_initialized: from here on the name means the new variable.
Initialized(c) ==
  [c EXCEPT !.locals[Len(c.locals)].depth = c.scope_depth,
            !.env = Append(@, [name |-> LastLocal(c).name, decl |-> <<c.id, LastLocal(c).from>>])]

MarkInitialized ==
  Making("mark_initialized") /\ Update(Initialized(Current)) /\ OnlyCompilers

\* The variable's value has been computed; only the properties look at this.
Defined ==
  /\ Making("defined")
  /\ Update([Current EXCEPT !.locals[Len(Current.locals)].to = Len(Current.code)])
  /\ OnlyCompilers

\* The arguments are on the stack before the function's first instruction.
Parameter ==
  LET c    == Current
      slot == Len(c.locals) + 1
  IN  /\ Making("parameter")
      /\ Update(Initialized([c EXCEPT
           !.arity = @ + 1, !.locals = Append(@, Local(Arg(1), Uninitialized, -slot, -slot))]))
      /\ OnlyCompilers

-----------------------------------------------------------------------------
(* Functions *)

CompilerInit ==
  /\ Making("compiler_init")
  /\ compilers' = Append(compilers,
       NewCompiler(Len(functions) + Len(compilers) + 1, Arg(1), breaks # <<>>))
  /\ OnlyCompilers

\* emit_return
Returned(c) == Emitted(Emitted(Started(c), "CONSTANT", 0), "RETURN", 0)

\* end_compilation and, for a function, OP_CLOSURE in the enclosing one
EndCompilation ==
  LET c     == Returned(Current)
      outer == Front(compilers)
  IN  /\ Making("end_compilation")
      /\ functions' = Append(functions, [code |-> c.code, starts |-> c.starts, arity |-> c.arity,
                                         amid |-> c.amid, corrupt |-> c.corrupt])
      /\ compilers' = IF outer = <<>> THEN <<>>
                      ELSE [outer EXCEPT ![Len(outer)] = Emitted(@, "CLOSURE", c.upvalues)]
      /\ UNCHANGED <<saved, breaks, continueJump>>

-----------------------------------------------------------------------------
(* Names *)

VisibleAtOnce(c, name) == {i \in DOMAIN c.locals : c.locals[i].name = name}
Visible(c, name) ==
  {i \in DOMAIN c.locals : c.locals[i].name = name /\ c.locals[i].depth # Uninitialized}

\* resolve_local
ResolveLocal(c, name) == Max(Visible(c, name))

\* add_upvalue
AddUpvalue(c, upvalue) ==
  IF upvalue \in Range(c.upvalues) THEN c
  ELSE [c EXCEPT !.upvalues = Append(@, upvalue)]

UpvalueIndex(c, upvalue) ==
  Min({i \in DOMAIN AddUpvalue(c, upvalue).upvalues : AddUpvalue(c, upvalue).upvalues[i] = upvalue})

EnclosingWith(name) == {k \in 1..Len(compilers) - 1 : Visible(compilers[k], name) # {}}

\* resolve_upvalue: the innermost enclosing function with such a local marks
\* it captured; the functions inside pass it on through their upvalues.
ResolveUpvalue(name) ==
  LET owner == Max(EnclosingWith(name))
      slot  == ResolveLocal(compilers[owner], name)
      upvalue(k, i) == [is_local |-> k = owner + 1, index |-> i]
      passed[k \in owner..Len(compilers)] ==
        IF k = owner THEN slot ELSE UpvalueIndex(compilers[k], upvalue(k, passed[k - 1]))
  IN  [index |-> passed[Len(compilers)],
       compilers |-> [k \in DOMAIN compilers |->
         IF k < owner THEN compilers[k]
         ELSE IF k = owner THEN [compilers[k] EXCEPT !.locals[slot].is_captured = TRUE]
         ELSE AddUpvalue(compilers[k], upvalue(k, passed[k - 1]))]]

\* named_variable: the instructions that read and write the variable, their
\* operand, and what resolving the name changes.
Resolve(name) ==
  IF Visible(Current, name) # {}
  THEN [get |-> "GET_LOCAL", set |-> "SET_LOCAL", index |-> ResolveLocal(Current, name),
        compilers |-> compilers]
  ELSE IF EnclosingWith(name) # {}
  THEN [get |-> "GET_UPVALUE", set |-> "SET_UPVALUE", index |-> ResolveUpvalue(name).index,
        compilers |-> ResolveUpvalue(name).compilers]
  ELSE [get |-> "GET_GLOBAL", set |-> "SET_GLOBAL", index |-> 0, compilers |-> compilers]

\* What the name means where it stands: the latest declaration in the
\* innermost function that has one.
DeclaredIn(c, name) == {i \in DOMAIN c.env : c.env[i].name = name}

Meant(name) ==
  LET declaring == {k \in DOMAIN compilers : DeclaredIn(compilers[k], name) # {}}
      c == compilers[Max(declaring)]
  IN  IF declaring = {} THEN Global ELSE c.env[Max(DeclaredIn(c, name))].decl

\* The declarations that the upvalues of each function reach.
Through ==
  LET through[k \in DOMAIN compilers] ==
        [i \in DOMAIN compilers[k].upvalues |->
           LET upvalue == compilers[k].upvalues[i]
               outer   == compilers[k - 1]
           IN  IF upvalue.is_local THEN <<outer.id, outer.locals[upvalue.index].from>>
               ELSE through[k - 1][upvalue.index]]
  IN  through

\* The declaration that an access reaches.
Reached(op, index) ==
  CASE op \in {"GET_LOCAL", "SET_LOCAL"}     -> <<Current.id, Current.locals[index].from>>
    [] op \in {"GET_UPVALUE", "SET_UPVALUE"} -> Through[Len(compilers)][index]
    [] OTHER                                 -> Global

EmitAccess ==
  /\ Making("emit_access")
  /\ Update(Written(Current, [Instruction(Current, Arg(1), Arg(2)) EXCEPT
       !.meant = Arg(3), !.found = Reached(Arg(1), Arg(2))]))
  /\ OnlyCompilers

MakeCall ==
  \/ EmitByte \/ EnterCall \/ LeaveCall \/ EmitJump \/ PatchJump \/ LoopStart \/ EmitLoop
  \/ EnterLoop \/ LeaveLoop \/ Break \/ PatchBreak \/ BreaksPatched \/ Continue
  \/ BeginScope \/ EndScope \/ DropLocal \/ ScopeEnded
  \/ ParseVariable \/ MarkInitialized \/ Defined \/ Parameter
  \/ CompilerInit \/ EndCompilation \/ EmitAccess

-----------------------------------------------------------------------------
(* The calls that decide *)

Spend(construct) == fuel >= Cost[construct] /\ fuel' = fuel - Cost[construct]

\* The branches of the parser: an expression, a statement, a declaration.  A
\* block goes on after each of its declarations.
Instead(calls) == agenda' = calls \o Tail(agenda)

ExpressionIs(construct, calls) ==
  Doing("expression") /\ Spend(construct) /\ Instead(calls) /\ UNCHANGED unitVars

DeclarationIs(construct, calls) ==
  /\ Doing("block") /\ Spend(construct)
  /\ Instead(calls \o <<Block>>)
  /\ Update(Started(Current)) /\ OnlyCompilers

StatementIs(construct, calls) ==
  \/ DeclarationIs(construct, calls)
  \/ Doing("statement") /\ Spend(construct) /\ Instead(calls) /\ UNCHANGED unitVars

-----------------------------------------------------------------------------
(* Declarations *)

Function(type) ==
  <<<<"compiler_init", type>>, <<"begin_scope">>, <<"parameters">>, Block, <<"end_compilation">>>>

NoMoreParameters == Making("parameters") /\ UNCHANGED unitVars

OneParameter(name) ==
  /\ Doing("parameters") /\ Spend("parameter")
  /\ agenda' = <<<<"parameter", name>>>> \o agenda
  /\ UNCHANGED unitVars

Initializers == {Expression, Emit("CONSTANT")}

Variable(name, init) ==
  <<<<"parse_variable", name>>, init, <<"mark_initialized">>, <<"defined">>>>

NamedFunction(name) ==
  <<<<"parse_variable", name>>, <<"mark_initialized">>>> \o Function("NAMED")

VarDeclaration(name) == \E init \in Initializers : DeclarationIs("variable", Variable(name, init))

FunDeclaration(name) == DeclarationIs("function", NamedFunction(name) \o <<<<"defined">>>>)

CoroutineDeclaration(name) ==
  DeclarationIs("coroutine", NamedFunction(name) \o <<Emit("COROUTINE"), <<"defined">>>>)

BlockEnds == Making("block") /\ UNCHANGED unitVars

-----------------------------------------------------------------------------
(* Statements *)

ExpressionStatement ==
  LET calls == <<Expression, Emit("POP")>>
  IN  \/ DeclarationIs("expression", calls)
      \/ Doing("statement") /\ Instead(calls) /\ UNCHANGED <<unitVars, fuel>>

BlockStatement == StatementIs("block", <<<<"begin_scope">>, Block, <<"end_scope">>>>)

If(otherwise) ==
  WithAddresses(
    <<Expression, Jump("JUMP_IF_FALSE", "then_jump"), Emit("POP"), Statement,
      Jump("JUMP", "else_jump"), Patch("then_jump"), Emit("POP")>>
    \o otherwise \o <<Patch("else_jump")>>)

IfStatement == \E otherwise \in {<<>>, <<Statement>>} : StatementIs("if", If(otherwise))

While ==
  WithAddresses(
    <<<<"loop_start", "loop_start">>, Expression, Jump("JUMP_IF_FALSE", "exit_jump"),
      <<"enter_loop">>, Emit("POP"), <<"begin_scope">>, Block, <<"end_scope">>,
      <<"emit_loop", "loop_start">>, <<"patch_breaks">>, Patch("exit_jump"), Emit("POP"),
      <<"leave_loop">>>>)

WhileStatement == StatementIs("while", While)

ForCondition(cond) ==
  IF cond THEN <<Expression, Jump("JUMP_IF_FALSE", "exit_jump"), Emit("POP")>> ELSE <<>>

ForIncrementLeft ==
  <<Jump("JUMP", "body_jump"), <<"loop_start", "increment_start">>, Expression,
    <<"emit_loop", "loop_start">>, Patch("body_jump")>>
ForIncrement ==
  <<Jump("JUMP", "body_jump"), <<"loop_start", "increment_start">>, Expression,
    Emit("POP"), <<"emit_loop", "loop_start">>, Patch("body_jump")>>

\* The body is not a scope of its own: block() follows without begin_scope().
ForLoop(cond, incr) ==
  <<<<"loop_start", "loop_start">>>>
  \o ForCondition(cond) \o (IF incr THEN ForIncrement ELSE <<>>)
  \o <<Block, <<"emit_loop", IF incr THEN "increment_start" ELSE "loop_start">>>>
  \o (IF cond THEN <<Patch("exit_jump"), Emit("POP")>> ELSE <<>>)

For(init, cond, incr) ==
  <<<<"begin_scope">>>> \o init \o WithAddresses(ForLoop(cond, incr)) \o <<<<"end_scope">>>>

ForStatement(name) ==
  \E init \in {<<>>, <<Expression, Emit("POP")>>} \cup {Variable(name, i) : i \in Initializers},
        cond \in BOOLEAN, incr \in BOOLEAN :
       StatementIs("for", For(init, cond, incr))

ReturnStatement ==
  /\ compilers # <<>> /\ Current.type # "SCRIPT"
  /\ \E value \in Initializers : StatementIs("return", <<value, Emit("RETURN")>>)

YieldStatement ==
  \E value \in Initializers : StatementIs("yield", <<value, Emit("YIELD")>>)

InBlock == compilers # <<>> /\ Current.scope_depth # 0

BreakStatement == InBlock /\ StatementIs("break", <<<<"break">>>>)

ContinueStatement == InBlock /\ StatementIs("continue", <<<<"continue">>>>)

-----------------------------------------------------------------------------
(* Expressions: what the parse rules of one construct compile, in order *)

\* number, string, literal
Literal ==
  Doing("expression") /\ Instead(<<Emit("CONSTANT")>>) /\ UNCHANGED <<unitVars, fuel>>

\* named_variable: the name is resolved before the value of an assignment is compiled.
Resolved(name, calls) ==
  /\ Doing("expression") /\ Instead(calls)
  /\ compilers' = Resolve(name).compilers
  /\ OnlyCompilers

GetVariable(name) ==
  Spend("get")
  /\ Resolved(name, <<Access(Resolve(name).get, Resolve(name).index, Meant(name))>>)

SetVariable(name) ==
  Spend("set")
  /\ Resolved(name, <<Expression, Access(Resolve(name).set, Resolve(name).index, Meant(name))>>)

AnonymousFunction == ExpressionIs("function", Function("ANONYMOUS"))

Operator ==
  /\ \/ ExpressionIs("operator", <<Expression, Emit("UNARY")>>)
     \/ ExpressionIs("operator", <<Expression, Expression, Emit("BINARY")>>)

Conjunction ==
  WithAddresses(
    <<Expression, Jump("JUMP_IF_FALSE", "end_jump"), Emit("POP"), Expression, Patch("end_jump")>>)

And == ExpressionIs("logic", Conjunction)

Disjunction ==
  WithAddresses(
    <<Expression, Jump("JUMP_IF_FALSE", "else_jump"), Jump("JUMP", "end_jump"),
      Patch("else_jump"), Emit("POP"), Expression, Patch("end_jump")>>)

Or == ExpressionIs("logic", Disjunction)

Coroutine ==
  ExpressionIs("coroutine", <<Expression, Emit("COROUTINE")>>)

Await == ExpressionIs("await", <<Expression, Emit("AWAIT")>>)

Expressions(n) == [i \in 1..n |-> Expression]

Call ==
  \E n \in 0..MaxItems :
       ExpressionIs("call", <<Expression>> \o Expressions(n) \o <<EmitArg("CALL", n)>>)

List ==
  \E n \in 0..MaxItems : ExpressionIs("collection", Expressions(n) \o <<EmitArg("LIST", n)>>)

Dict ==
  \E n \in 0..MaxItems :
       ExpressionIs("collection",
         [i \in 1..2 * n |-> IF i % 2 = 1 THEN Emit("CONSTANT") ELSE Expression]
         \o <<EmitArg("DICT", n)>>)

\* dot and index_: the key is a constant or an expression.
Field ==
  \E key \in {Emit("CONSTANT"), Expression} :
       \/ ExpressionIs("field", <<Expression, key, Emit("GET_FIELD")>>)
       \/ ExpressionIs("field", <<Expression, key, Expression, Emit("SET_FIELD")>>)

-----------------------------------------------------------------------------
(* A compilation *)

\* compile(): its loop over the declarations is that of a block.
CompileInit ==
  /\ agenda = <<Block, <<"end_compilation">>>>
  /\ compilers = <<NewCompiler(1, "SCRIPT", FALSE)>>
  /\ functions = <<>> /\ saved = <<>> /\ breaks = <<>> /\ continueJump = NoPlace
  /\ fuel = MaxFuel

CompileStep ==
  \/ MakeCall
  \/ NoMoreParameters \/ BlockEnds
  \/ ExpressionStatement \/ BlockStatement \/ IfStatement \/ WhileStatement
  \/ ReturnStatement \/ YieldStatement \/ BreakStatement \/ ContinueStatement
  \/ Literal \/ AnonymousFunction \/ Operator \/ And \/ Or \/ Coroutine \/ Await
  \/ Call \/ List \/ Dict \/ Field
  \/ \E name \in Names :
       \/ OneParameter(name) \/ VarDeclaration(name) \/ FunDeclaration(name)
       \/ CoroutineDeclaration(name) \/ ForStatement(name) \/ GetVariable(name) \/ SetVariable(name)

CompileSpec == CompileInit /\ [][CompileStep]_compileVars

-----------------------------------------------------------------------------
(* Properties *)

Codes == {c.code : c \in Range(compilers) \cup Range(functions)}

\* named_variable finds the declaration that lexical scoping means: through
\* shadowing, through initializers that use the outer variable of the same
\* name, through functions nested in functions, and with upvalues shared by
\* several uses.
NamesResolve ==
  \A code \in Codes : \A instr \in Range(code) :
    instr.meant # Stray => instr.found = instr.meant

\* In a program that uses break and continue in while loops only, and compiles
\* no function between a break and the end of its loop, all jumps of a
\* finished function have a target in it, and nothing else has been written
\* over its code: patch_jump and patch_breaks leave none out, and take none of
\* another function.  The target may be that of another loop: patch_breaks of an
\* inner while also takes waiting breaks of an outer one that are as deep.
JumpsPatched ==
  (\A c \in Range(compilers) \cup Range(functions) :
     ~c.amid /\ \A instr \in Range(c.code) : instr.meant # Stray) =>
  \A f \in Range(functions) :
    /\ ~f.corrupt
    /\ \A instr \in Range(f.code) :
         instr.op \in {"JUMP", "JUMP_IF_FALSE", "LOOP"} => instr.arg \in DOMAIN f.code

=============================================================================
