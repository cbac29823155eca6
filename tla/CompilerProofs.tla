--------------------------- MODULE CompilerProofs ---------------------------
(***************************************************************************)
(* What the calls of the compiler do to the functions it compiles, as far  *)
(* as scopes and names go: named_variable finds, for each use of a name,   *)
(* the declaration that lexical scoping means.                             *)
(*                                                                         *)
(* The difficulty is the agenda: which calls are still to be made decides  *)
(* whether the state of the compilers is one the next call expects.  Each  *)
(* call is therefore given an Effect on a small abstract State (how many   *)
(* functions and scopes are open, whether a declaration is under way, how  *)
(* many operands there are, which places are kept for a patch), and a list *)
(* of calls Leads from one State to another if their effects compose.  The *)
(* calls that a branch of the parser is replaced by lead where that branch *)
(* was to lead: lemmas ...Calls.                                           *)
(*                                                                         *)
(* A State Matches the compilers if it describes their scopes, locals and  *)
(* upvalues.  The lemmas ...Matches show that what a call does to the      *)
(* compilers is its Effect; ResolveMatches is the one about names.         *)
(* ExecutionProofs says the same of the code that is emitted, and holds    *)
(* the theorems.                                                           *)
(***************************************************************************)
EXTENDS Compiler, Minimum

-----------------------------------------------------------------------------
(* What the calls on the agenda assume *)

Kinds == {"SCRIPT", "NAMED", "ANONYMOUS"}

\* What a call finds of a variable that is being declared: nothing, its
\* parameters still to come, its name only, or its initializer compiled;
\* "dropping" while end_scope drops the locals of the scope that ended.
Stages == {"none", "parameters", "declared", "named", "dropping"}

Decl == Int \X Int

\* A resolved name that an instruction still to be emitted relies on
Binding == {"LOCAL", "UPVALUE"} \X (Nat \X Decl)

Level ==
  [depth : Nat, stage : Stages, temps : Nat, loop : Nat \cup {-1}, knows : SUBSET Binding]

Frame ==
  [level : Nat, floor : Nat, pend : SUBSET (Addresses \X Nat), starts : SUBSET Addresses,
   kept : Nat \X Nat]

\* The state of the compiler, as far as the calls on the agenda depend on it.
\* Of the function being compiled: how many scopes are open ("depth"), what is
\* being declared ("stage"), how many operands are on the stack above the
\* variables in scope ("temps"), the depth of the outermost while loop around
\* ("loop", or -1), and the names resolved for an instruction to come
\* ("knows"); "outer" has the same of the functions around it.  Of the
\* innermost active C function that keeps addresses: the function it compiles
\* ("level") and the depth it began at ("floor"), the jumps it has to patch,
\* with the number of operands they leave ("pend"), the loop starts it may jump
\* back to ("starts"), and the function and depth current_continue_jump belonged
\* to before ("kept"); "below" has the same of those under it.  "cont" is where
\* current_continue_jump belongs now, level 0 for none.
State ==
  [alive : BOOLEAN, outer : Seq(Level),
   depth : Nat, stage : Stages, temps : Nat, loop : Nat \cup {-1}, knows : SUBSET Binding,
   below : Seq(Frame),
   level : Nat, floor : Nat, pend : SUBSET (Addresses \X Nat), starts : SUBSET Addresses,
   kept : Nat \X Nat,
   cont : Nat \X Nat]

LevelOf(A) == [depth |-> A.depth, stage |-> A.stage, temps |-> A.temps, loop |-> A.loop,
               knows |-> A.knows]

FrameOf(A) == [level |-> A.level, floor |-> A.floor, pend |-> A.pend, starts |-> A.starts,
               kept |-> A.kept]

\* The number of functions being compiled
Top(A) == Len(A.outer) + 1

SameOuter(A, B) == B.alive = A.alive /\ B.outer = A.outer

SameScopes(A, B) == B.depth = A.depth /\ B.loop = A.loop

SamePlaces(A, B) ==
  /\ B.below = A.below /\ B.level = A.level /\ B.floor = A.floor
  /\ B.pend = A.pend /\ B.starts = A.starts /\ B.kept = A.kept

\* All but the operands, the stage, and the names that are known
SameAround(A, B) == SameOuter(A, B) /\ SameScopes(A, B) /\ SamePlaces(A, B) /\ B.cont = A.cont

\* The addresses of the function are those of frames of its own level.
Proper(A) ==
  /\ A.level <= Top(A) /\ A.cont[1] <= Top(A)
  /\ A.cont[1] = Top(A) => A.level = Top(A) /\ A.cont[2] <= A.floor
  /\ A.level = Top(A) => A.floor <= A.depth

\* A break belongs to the loop around it.
InLoop(A) ==
  /\ A.loop = -1 \/ A.depth > A.loop
  /\ A.cont[1] = Top(A) => A.loop # -1

\* Between statements
Between(A) == A.stage = "none" /\ A.temps = 0 /\ A.knows = {}

-----------------------------------------------------------------------------
(* What a call does to that state *)

ByteOps == {"CONSTANT", "UNARY", "BINARY", "COROUTINE", "POP", "RETURN", "YIELD", "AWAIT",
            "CALL", "LIST", "DICT", "GET_FIELD", "SET_FIELD"}

Taken(op, arg) ==
  CASE op \in {"UNARY", "COROUTINE", "POP", "RETURN", "YIELD", "AWAIT"} -> 1
    [] op \in {"BINARY", "GET_FIELD", "SET_FIELD"}                      -> 2
    [] op = "CALL"                                                      -> arg + 1
    [] op = "LIST"                                                      -> arg
    [] op = "DICT"                                                      -> 2 * arg
    [] OTHER                                                            -> 0

Given(op) == IF op \in {"POP", "RETURN", "YIELD", "SET_FIELD"} THEN 0 ELSE 1

EmitByteEffect(op, arg, A, B) ==
  /\ op \in ByteOps /\ arg \in Nat
  /\ A.stage \in {"none", "declared", "named"}
  /\ Taken(op, arg) <= A.temps
  /\ B.temps = A.temps - Taken(op, arg) + Given(op)
  /\ SameAround(A, B) /\ B.stage = A.stage /\ B.knows = A.knows

\* An expression may compile functions and declare nothing in this one.
ExpressionEffect(A, B) ==
  /\ Proper(A)
  /\ A.stage \in {"none", "declared"}
  /\ B.temps = A.temps + 1
  /\ SameAround(A, B) /\ B.stage = A.stage /\ B.knows = A.knows

StatementEffect(A, B) ==
  Proper(A) /\ InLoop(A) /\ Between(A) /\ Between(B) /\ SameAround(A, B)

EnterEffect(A, B) ==
  /\ A.stage \in {"none", "declared"} /\ Proper(A)
  /\ B.temps = A.temps /\ B.stage = A.stage /\ B.knows = A.knows
  /\ SameOuter(A, B) /\ SameScopes(A, B) /\ B.cont = A.cont
  /\ B.below = Append(A.below, FrameOf(A))
  /\ B.level = Top(A) /\ B.floor = A.depth /\ B.pend = {} /\ B.starts = {} /\ B.kept = <<0, 0>>

LeaveEffect(A, B) ==
  /\ A.pend = {} /\ A.below # <<>> /\ A.level = Top(A)
  /\ B.temps = A.temps /\ B.stage = A.stage /\ B.knows = A.knows
  /\ SameOuter(A, B) /\ SameScopes(A, B) /\ B.cont = A.cont
  /\ B.below = Front(A.below) /\ FrameOf(B) = Last(A.below)
  /\ Proper(B)

EmitJumpEffect(op, name, A, B) ==
  /\ op \in {"JUMP", "JUMP_IF_FALSE"} /\ name \in Addresses \ {"cont"}
  /\ A.stage \in {"none", "declared"}
  /\ A.level = Top(A) /\ A.floor = A.depth
  /\ name \notin A.starts /\ \A p \in A.pend : p[1] # name
  /\ op = "JUMP_IF_FALSE" => A.temps > 0 /\ B.temps = A.temps
  /\ B.pend = A.pend \cup {<<name, A.temps>>}
  /\ SameOuter(A, B) /\ SameScopes(A, B) /\ B.cont = A.cont
  /\ B.stage = A.stage /\ B.knows = A.knows
  /\ B.below = A.below /\ B.level = A.level /\ B.floor = A.floor
  /\ B.starts = A.starts /\ B.kept = A.kept

PatchJumpEffect(name, A, B) ==
  /\ A.stage \in {"none", "declared"}
  /\ A.level = Top(A) /\ A.floor = A.depth
  /\ <<name, A.temps>> \in A.pend
  /\ B.pend = A.pend \ {<<name, A.temps>>}
  /\ SameOuter(A, B) /\ SameScopes(A, B) /\ B.cont = A.cont
  /\ B.temps = A.temps /\ B.stage = A.stage /\ B.knows = A.knows
  /\ B.below = A.below /\ B.level = A.level /\ B.floor = A.floor
  /\ B.starts = A.starts /\ B.kept = A.kept

LoopStartEffect(name, A, B) ==
  /\ name \in Addresses \ {"cont"} /\ Between(A) /\ Between(B)
  /\ A.level = Top(A) /\ A.floor = A.depth
  /\ \A p \in A.pend : p[1] # name
  /\ B.starts = A.starts \cup {name}
  /\ SameOuter(A, B) /\ SameScopes(A, B) /\ B.cont = A.cont
  /\ B.below = A.below /\ B.level = A.level /\ B.floor = A.floor
  /\ B.pend = A.pend /\ B.kept = A.kept

EmitLoopEffect(name, A, B) ==
  /\ Between(A) /\ B.stage = A.stage /\ B.knows = A.knows
  /\ A.level = Top(A) /\ A.floor = A.depth /\ name \in A.starts
  /\ SameAround(A, B)

EnterLoopEffect(A, B) ==
  /\ A.stage = "none" /\ A.knows = {} /\ A.level = Top(A) /\ A.floor = A.depth
  /\ "loop_start" \in A.starts /\ \A p \in A.pend : p[1] # "cont"
  /\ InLoop(A)
  /\ B.kept = A.cont /\ B.cont = <<Top(A), A.depth>>
  /\ B.loop = IF A.loop = -1 THEN A.depth ELSE A.loop
  /\ SameOuter(A, B) /\ B.depth = A.depth
  /\ B.temps = A.temps /\ B.stage = A.stage /\ B.knows = A.knows
  /\ B.below = A.below /\ B.level = A.level /\ B.floor = A.floor
  /\ B.pend = A.pend /\ B.starts = A.starts

LeaveLoopEffect(A, B) ==
  /\ Between(A) /\ Between(B) /\ A.level = Top(A) /\ B.cont = A.kept
  /\ A.kept[1] <= Top(A)
  /\ A.kept[1] = Top(A) => A.kept[2] <= A.floor
  /\ SameOuter(A, B) /\ SameScopes(A, B) /\ SamePlaces(A, B)

BreakEffect(A, B) == StatementEffect(A, B)

PatchBreaksEffect(A, B) ==
  /\ A.stage = "none" /\ A.knows = {} /\ A.loop # -1 /\ A.loop <= A.depth
  /\ B.loop = IF A.loop = A.depth THEN -1 ELSE A.loop
  /\ SameOuter(A, B) /\ B.depth = A.depth /\ SamePlaces(A, B) /\ B.cont = A.cont
  /\ B.temps = A.temps /\ B.stage = A.stage /\ B.knows = A.knows

BeginScopeEffect(A, B) ==
  /\ A.stage \in {"none", "parameters"} /\ A.temps = 0 /\ A.knows = {}
  /\ B.depth = A.depth + 1
  /\ SameOuter(A, B) /\ B.loop = A.loop /\ SamePlaces(A, B) /\ B.cont = A.cont
  /\ B.temps = A.temps /\ B.stage = A.stage /\ B.knows = A.knows

\* No address kept by a C function that is still active is in the scope.
Ending(A) ==
  /\ A.temps = 0 /\ A.knows = {} /\ A.depth > 0 /\ Proper(A)
  /\ A.level = Top(A) => A.depth > A.floor

EndScopeEffect(A, B) ==
  /\ Between(A) /\ Between(B) /\ Ending(A)
  /\ B.depth = A.depth - 1
  /\ SameOuter(A, B) /\ B.loop = A.loop /\ SamePlaces(A, B) /\ B.cont = A.cont

DropLocalsEffect(A, B) ==
  A.stage = "dropping" /\ A.temps = 0 /\ A.knows = {} /\ Between(B) /\ SameAround(A, B)

ParseVariableEffect(name, A, B) ==
  /\ name \in Names /\ Between(A)
  /\ B.stage = "declared" /\ B.temps = 0 /\ B.knows = {} /\ SameAround(A, B)

MarkInitializedEffect(A, B) ==
  /\ A.stage = "declared" /\ A.knows = {} /\ A.temps <= 1
  /\ B.stage = "named" /\ B.temps = A.temps /\ B.knows = {} /\ SameAround(A, B)

DefinedEffect(A, B) ==
  /\ A.stage = "named" /\ A.temps = 1 /\ A.knows = {}
  /\ Between(B) /\ SameAround(A, B)

ParameterEffect(name, A, B) ==
  /\ name \in Names /\ A.stage = "parameters" /\ A.temps = 0 /\ A.knows = {}
  /\ B.stage = "parameters" /\ B.temps = 0 /\ B.knows = {} /\ SameAround(A, B)

ParametersEffect(A, B) ==
  /\ A.stage = "parameters" /\ A.temps = 0 /\ A.knows = {} /\ Between(B) /\ SameAround(A, B)

CompilerInitEffect(type, A, B) ==
  /\ type \in Kinds /\ A.stage \in {"none", "declared", "named"} /\ Proper(A)
  /\ B.alive = TRUE /\ B.outer = Append(A.outer, LevelOf(A))
  /\ B.depth = 0 /\ B.stage = "parameters" /\ B.temps = 0 /\ B.loop = -1 /\ B.knows = {}
  /\ SamePlaces(A, B) /\ B.cont = A.cont

EndCompilationEffect(A, B) ==
  /\ Between(A) /\ A.loop = -1 /\ A.level < Top(A) /\ A.cont[1] < Top(A)
  /\ SamePlaces(A, B) /\ B.cont = A.cont
  /\ IF A.outer = <<>> THEN B.alive = FALSE
     ELSE LET last == Last(A.outer)
          IN  /\ B.alive = TRUE /\ B.outer = Front(A.outer) /\ B.temps = last.temps + 1
              /\ B.depth = last.depth /\ B.stage = last.stage /\ B.loop = last.loop
              /\ B.knows = last.knows

Knowing(op, index, decl) ==
  <<IF op \in {"GET_LOCAL", "SET_LOCAL"} THEN "LOCAL" ELSE "UPVALUE", <<index, decl>>>>

EmitAccessEffect(op, index, decl, A, B) ==
  /\ A.stage \in {"none", "declared"}
  /\ \/ op \in {"GET_GLOBAL", "SET_GLOBAL"} /\ decl = Global /\ index = 0
     \/ /\ op \in {"GET_LOCAL", "SET_LOCAL", "GET_UPVALUE", "SET_UPVALUE"}
        /\ Knowing(op, index, decl) \in A.knows
  /\ IF op \in {"GET_LOCAL", "GET_UPVALUE", "GET_GLOBAL"} THEN B.temps = A.temps + 1
     ELSE A.temps > 0 /\ B.temps = A.temps
  /\ B.stage = A.stage /\ B.knows \subseteq A.knows /\ SameAround(A, B)

Calls == {"emit_byte", "expression", "statement", "block", "enter", "leave", "emit_jump",
          "patch_jump", "loop_start", "emit_loop", "enter_loop", "leave_loop", "break",
          "patch_breaks", "continue", "begin_scope", "end_scope", "drop_locals",
          "parse_variable", "mark_initialized", "defined", "parameter", "parameters",
          "compiler_init", "end_compilation", "emit_access"}

Effect(call, A, B) ==
  /\ A \in State /\ B \in State /\ A.alive
  /\ call[1] \in Calls
  /\ call[1] = "emit_byte" => EmitByteEffect(call[2], call[3], A, B)
  /\ call[1] = "expression" => ExpressionEffect(A, B)
  /\ call[1] \in {"statement", "block"} => StatementEffect(A, B)
  /\ call[1] = "enter" => EnterEffect(A, B)
  /\ call[1] = "leave" => LeaveEffect(A, B)
  /\ call[1] = "emit_jump" => EmitJumpEffect(call[2], call[3], A, B)
  /\ call[1] = "patch_jump" => PatchJumpEffect(call[2], A, B)
  /\ call[1] = "loop_start" => LoopStartEffect(call[2], A, B)
  /\ call[1] = "emit_loop" => EmitLoopEffect(call[2], A, B)
  /\ call[1] = "enter_loop" => EnterLoopEffect(A, B)
  /\ call[1] = "leave_loop" => LeaveLoopEffect(A, B)
  /\ call[1] \in {"break", "continue"} => BreakEffect(A, B)
  /\ call[1] = "patch_breaks" => PatchBreaksEffect(A, B)
  /\ call[1] = "begin_scope" => BeginScopeEffect(A, B)
  /\ call[1] = "end_scope" => EndScopeEffect(A, B)
  /\ call[1] = "drop_locals" => DropLocalsEffect(A, B)
  /\ call[1] = "parse_variable" => ParseVariableEffect(call[2], A, B)
  /\ call[1] = "mark_initialized" => MarkInitializedEffect(A, B)
  /\ call[1] = "defined" => DefinedEffect(A, B)
  /\ call[1] = "parameter" => ParameterEffect(call[2], A, B)
  /\ call[1] = "parameters" => ParametersEffect(A, B)
  /\ call[1] = "compiler_init" => CompilerInitEffect(call[2], A, B)
  /\ call[1] = "end_compilation" => EndCompilationEffect(A, B)
  /\ call[1] = "emit_access" => EmitAccessEffect(call[2], call[3], call[4], A, B)

-----------------------------------------------------------------------------
(* What a list of calls does *)

Path(calls, path) ==
  /\ path \in [1..Len(calls) + 1 -> State]
  /\ \A i \in 1..Len(calls) : Effect(calls[i], path[i], path[i + 1])

Leads(calls, A, B) ==
  \E S, path : /\ calls \in Seq(S)
               /\ Path(calls, path) /\ path[1] = A /\ path[Len(calls) + 1] = B

LEMMA LeadsNone ==
  ASSUME NEW A \in State
  PROVE  Leads(<<>>, A, A)
<1> DEFINE path == [i \in 1..1 |-> A]
<1>1. <<>> \in Seq({}) /\ Path(<<>>, path) /\ path[1] = A /\ Len(<<>>) = 0
  BY DEF Path
<1> HIDE DEF path
<1>2. QED
  BY <1>1 DEF Leads

LEMMA LeadsThen ==
  ASSUME NEW s, NEW t, NEW A, NEW B, NEW C, Leads(s, A, B), Leads(t, B, C)
  PROVE  Leads(s \o t, A, C)
<1>1. PICK S, p : s \in Seq(S) /\ Path(s, p) /\ p[1] = A /\ p[Len(s) + 1] = B
  BY DEF Leads
<1>2. PICK T, q : t \in Seq(T) /\ Path(t, q) /\ q[1] = B /\ q[Len(t) + 1] = C
  BY DEF Leads
<1> DEFINE m == Len(s)  n == Len(t)
           path == [i \in 1..m + n + 1 |-> IF i <= m THEN p[i] ELSE q[i - m]]
<1>3. m \in Nat /\ n \in Nat /\ s \o t \in Seq(S \cup T) /\ Len(s \o t) = m + n
  BY <1>1, <1>2
<1>4. path \in [1..m + n + 1 -> State]
  BY <1>1, <1>2, <1>3 DEF Path
<1>5. ASSUME NEW i \in 1..m + n PROVE Effect((s \o t)[i], path[i], path[i + 1])
  <2>1. CASE i < m
    BY <1>1, <1>2, <1>3, <2>1 DEF Path
  <2>2. CASE i = m
    <3>1. (s \o t)[i] = s[i] /\ path[i] = p[i] /\ path[i + 1] = q[1] /\ i \in 1..m
      BY <1>1, <1>2, <1>3, <2>2
    <3>2. Effect(s[i], p[i], p[i + 1])
      BY <1>1, <3>1 DEF Path
    <3>3. QED
      BY <1>1, <1>2, <2>2, <3>1, <3>2
  <2>3. CASE i > m
    <3>1. /\ (s \o t)[i] = t[i - m] /\ i - m \in 1..n
          /\ path[i] = q[i - m] /\ path[i + 1] = q[i + 1 - m] /\ i + 1 - m = (i - m) + 1
      BY <1>1, <1>2, <1>3, <2>3
    <3>2. \A j \in 1..n : Effect(t[j], q[j], q[j + 1])
      BY <1>2 DEF Path
    <3>3. QED
      BY <3>1, <3>2, Zenon
  <2>4. QED
    BY <1>3, <2>1, <2>2, <2>3
<1>6. path[1] = A /\ path[m + n + 1] = C
  BY <1>1, <1>2, <1>3
<1> HIDE DEF path
<1>7. QED
  BY <1>3, <1>4, <1>5, <1>6 DEF Leads, Path

LEMMA LeadsOne ==
  ASSUME NEW call, NEW A, NEW B, Effect(call, A, B)
  PROVE  Leads(<<call>>, A, B)
<1> DEFINE path == [i \in 1..2 |-> IF i = 1 THEN A ELSE B]
<1>1. A \in State /\ B \in State
  BY DEF Effect
<1>2. /\ <<call>> \in Seq({call}) /\ Len(<<call>>) = 1 /\ <<call>>[1] = call
      /\ path \in [1..2 -> State] /\ path[1] = A /\ path[2] = B
  BY <1>1
<1> HIDE DEF path
<1>3. Path(<<call>>, path) /\ path[Len(<<call>>) + 1] = B
  BY <1>2 DEF Path
<1> HIDE DEF Path
<1>4. \E S, p : <<call>> \in Seq(S) /\ Path(<<call>>, p) /\ p[1] = A /\ p[Len(<<call>>) + 1] = B
  BY <1>2, <1>3, Zenon
<1>5. QED
  BY <1>4, Zenon DEF Leads

\* The first call, then the others
LEMMA LeadsHead ==
  ASSUME NEW s, NEW A, NEW C, Leads(s, A, C), s # <<>>
  PROVE  \E B : Effect(Head(s), A, B) /\ Leads(Tail(s), B, C)
<1>1. PICK S, p : s \in Seq(S) /\ Path(s, p) /\ p[1] = A /\ p[Len(s) + 1] = C
  BY DEF Leads
<1> DEFINE n == Len(s)
           path == [i \in 1..n |-> p[i + 1]]
<1>2. n \in Nat \ {0} /\ Tail(s) \in Seq(S) /\ Len(Tail(s)) = n - 1 /\ Head(s) = s[1]
  BY <1>1
<1>3. Effect(Head(s), A, p[2])
  BY <1>1, <1>2 DEF Path
<1>4. path \in [1..n - 1 + 1 -> State]
  BY <1>1, <1>2 DEF Path
<1>5. ASSUME NEW i \in 1..n - 1 PROVE Effect(Tail(s)[i], path[i], path[i + 1])
  <2>1. Tail(s)[i] = s[i + 1] /\ path[i] = p[i + 1] /\ path[i + 1] = p[i + 1 + 1] /\ i + 1 \in 1..n
    BY <1>1, <1>2
  <2>2. QED
    BY <1>1, <2>1, Zenon DEF Path
<1>6. path[1] = p[2] /\ path[n - 1 + 1] = C
  BY <1>1, <1>2
<1> HIDE DEF path
<1>7. Path(Tail(s), path)
  BY <1>2, <1>4, <1>5 DEF Path
<1>8. Leads(Tail(s), p[2], C)
  BY <1>2, <1>6, <1>7 DEF Leads
<1>9. QED
  BY <1>3, <1>8

\* One more call in front
LEMMA LeadsFirst ==
  ASSUME NEW call, NEW s, NEW A, NEW B, NEW C, Effect(call, A, B), Leads(s, B, C)
  PROVE  Leads(<<call>> \o s, A, C)
BY LeadsOne, LeadsThen

LEMMA LeadsTwo ==
  ASSUME NEW a, NEW b, NEW A, NEW B, NEW C, Effect(a, A, B), Effect(b, B, C)
  PROVE  Leads(<<a, b>>, A, C)
<1>1. <<a, b>> = <<a>> \o <<b>>
  <2>1. <<a, b>> = Append(<<a>>, b)
    OBVIOUS
  <2>2. Append(<<a>>, b) = <<a>> \o <<b>>
    OBVIOUS
  <2>3. QED
    BY <2>1, <2>2
<1>2. QED
  BY <1>1, LeadsOne, LeadsThen

LEMMA LeadsThree ==
  ASSUME NEW a, NEW b, NEW c, NEW A, NEW B, NEW C, NEW D,
         Effect(a, A, B), Effect(b, B, C), Effect(c, C, D)
  PROVE  Leads(<<a, b, c>>, A, D)
<1>1. <<a, b, c>> = <<a>> \o <<b, c>>
  OBVIOUS
<1>2. QED
  BY <1>1, LeadsOne, LeadsTwo, LeadsThen

LEMMA LeadsFour ==
  ASSUME NEW a, NEW b, NEW c, NEW d, NEW A, NEW B, NEW C, NEW D, NEW E,
         Effect(a, A, B), Effect(b, B, C), Effect(c, C, D), Effect(d, D, E)
  PROVE  Leads(<<a, b, c, d>>, A, E)
<1>1. <<a, b, c, d>> = <<a, b>> \o <<c, d>>
  OBVIOUS
<1>2. QED
  BY <1>1, LeadsTwo, LeadsThen

\* Longer lists in parts
LEMMA LeadsFive ==
  ASSUME NEW a, NEW b, NEW c, NEW d, NEW e, NEW A, NEW B, NEW C,
         Leads(<<a, b>>, A, B), Leads(<<c, d, e>>, B, C)
  PROVE  Leads(<<a, b, c, d, e>>, A, C)
<1>1. <<a, b, c, d, e>> = <<a, b>> \o <<c, d, e>>
  OBVIOUS
<1>2. QED
  BY <1>1, LeadsThen

LEMMA LeadsSix ==
  ASSUME NEW a, NEW b, NEW c, NEW d, NEW e, NEW f, NEW A, NEW B, NEW C,
         Leads(<<a, b>>, A, B), Leads(<<c, d, e, f>>, B, C)
  PROVE  Leads(<<a, b, c, d, e, f>>, A, C)
<1>1. <<a, b, c, d, e, f>> = <<a, b>> \o <<c, d, e, f>>
  OBVIOUS
<1>2. QED
  BY <1>1, LeadsThen

LEMMA LeadsSeven ==
  ASSUME NEW a, NEW b, NEW c, NEW d, NEW e, NEW f, NEW g, NEW A, NEW B, NEW C,
         Leads(<<a, b, c, d>>, A, B), Leads(<<e, f, g>>, B, C)
  PROVE  Leads(<<a, b, c, d, e, f, g>>, A, C)
<1>1. <<a, b, c, d, e, f, g>> = <<a, b, c, d>> \o <<e, f, g>>
  OBVIOUS
<1>2. QED
  BY <1>1, LeadsThen

LEMMA LeadsTen ==
  ASSUME NEW a, NEW b, NEW c, NEW d, NEW e, NEW f, NEW g, NEW h, NEW i, NEW j,
         NEW A, NEW B, NEW C,
         Leads(<<a, b, c>>, A, B), Leads(<<d, e, f, g, h, i, j>>, B, C)
  PROVE  Leads(<<a, b, c, d, e, f, g, h, i, j>>, A, C)
<1>1. <<a, b, c, d, e, f, g, h, i, j>> = <<a, b, c>> \o <<d, e, f, g, h, i, j>>
  OBVIOUS
<1>2. QED
  BY <1>1, LeadsThen

LEMMA LeadsThirteen ==
  ASSUME NEW a, NEW b, NEW c, NEW d, NEW e, NEW f, NEW g, NEW h, NEW i, NEW j,
         NEW k, NEW l, NEW m, NEW A, NEW B, NEW C,
         Leads(<<a, b, c>>, A, B), Leads(<<d, e, f, g, h, i, j, k, l, m>>, B, C)
  PROVE  Leads(<<a, b, c, d, e, f, g, h, i, j, k, l, m>>, A, C)
<1>1. <<a, b, c, d, e, f, g, h, i, j, k, l, m>> = <<a, b, c>> \o <<d, e, f, g, h, i, j, k, l, m>>
  OBVIOUS
<1>2. QED
  BY <1>1, LeadsThen

-----------------------------------------------------------------------------
(* The calls of each construct do what the construct does *)

\* A state within a C function that keeps addresses
Inside(A, temps, pend, starts) ==
  [A EXCEPT !.temps = temps, !.below = Append(A.below, FrameOf(A)),
            !.level = Top(A), !.floor = A.depth, !.pend = pend, !.starts = starts,
            !.kept = <<0, 0>>]

IsInside(A, B, temps, pend, starts) ==
  /\ B \in State /\ B.temps = temps /\ B.pend = pend /\ B.starts = starts
  /\ B.below = Append(A.below, FrameOf(A)) /\ B.level = Top(A) /\ B.floor = A.depth
  /\ B.stage = A.stage /\ B.knows = A.knows /\ B.cont = A.cont /\ B.kept = <<0, 0>>
  /\ SameOuter(A, B) /\ SameScopes(A, B) /\ Top(B) = Top(A)

LEMMA InsideState ==
  ASSUME NEW A \in State, NEW temps \in Nat,
         NEW pend \in SUBSET (Addresses \X Nat), NEW starts \in SUBSET Addresses
  PROVE  IsInside(A, Inside(A, temps, pend, starts), temps, pend, starts)
<1> DEFINE B == Inside(A, temps, pend, starts)
<1> DEFINE below == Append(A.below, FrameOf(A))  nowhere == <<0, 0>>
<1>1. below \in Seq(Frame) /\ Top(A) \in Nat /\ A.depth \in Nat /\ nowhere \in Nat \X Nat
  <2>1. FrameOf(A) \in Frame
    BY DEF State, Frame, FrameOf
  <2>2. A.below \in Seq(Frame) /\ A.outer \in Seq(Level) /\ A.depth \in Nat
    BY DEF State
  <2>3. QED
    BY <2>1, <2>2 DEF Top
<1>2. B = [A EXCEPT !.temps = temps, !.below = below, !.level = Top(A), !.floor = A.depth,
                    !.pend = pend, !.starts = starts, !.kept = nowhere]
  BY DEF Inside
<1> HIDE DEF below, nowhere, B
<1>3. B \in State
  BY <1>1, <1>2 DEF State
<1>4. /\ B.temps = temps /\ B.pend = pend /\ B.starts = starts
      /\ B.below = below /\ B.level = Top(A) /\ B.floor = A.depth
      /\ B.stage = A.stage /\ B.knows = A.knows /\ B.cont = A.cont /\ B.kept = nowhere
      /\ B.alive = A.alive /\ B.outer = A.outer /\ B.depth = A.depth /\ B.loop = A.loop
  BY <1>2 DEF State
<1>5. QED
  BY <1>3, <1>4 DEF SameOuter, SameScopes, Top, IsInside, below, nowhere, B

LEMMA EnterLeave ==
  ASSUME NEW A \in State, NEW B \in State, A.alive, Proper(A), A.stage \in {"none", "declared"},
         SameAround(A, B), B.stage = A.stage, B.knows = A.knows,
         NEW C \in State, NEW calls, Leads(calls, Inside(A, A.temps, {}, {}), C),
         SameOuter(A, C), SameScopes(A, C), C.cont = A.cont, C.temps = B.temps,
         C.stage = A.stage, C.knows = A.knows, C.pend = {}, C.level = Top(A),
         C.below = Append(A.below, FrameOf(A))
  PROVE  Leads(WithAddresses(calls), A, B)
<1> DEFINE I == Inside(A, A.temps, {}, {})
<1>1. A.temps \in Nat /\ A.below \in Seq(Frame)
  BY DEF State
<1>2. IsInside(A, I, A.temps, {}, {})
  BY <1>1, InsideState
<1> HIDE DEF I
<1>3. Effect(<<"enter">>, A, I)
  BY <1>2 DEF Effect, Calls, EnterEffect, IsInside
<1>4. FrameOf(A) \in Frame
  BY DEF State, Frame, FrameOf
<1>5. C.below # <<>> /\ Front(C.below) = A.below /\ Last(C.below) = FrameOf(A)
  <2> DEFINE s == A.below  f == FrameOf(A)
  <2>1. s \in Seq(Frame) /\ f \in Frame /\ C.below = Append(s, f)
    BY <1>1, <1>4
  <2> HIDE DEF s, f
  <2>2. C.below # <<>> /\ Front(C.below) = s /\ Last(C.below) = f
    BY <2>1 DEF Front, Last
  <2>3. QED
    BY <2>2 DEF s, f
<1>6. FrameOf(B) = FrameOf(A) /\ B.below = A.below /\ Top(C) = Top(A) /\ Proper(B)
  BY DEF SameAround, SamePlaces, SameOuter, SameScopes, FrameOf, Top, Proper
<1>7. LeaveEffect(C, B)
  BY <1>5, <1>6 DEF LeaveEffect, SameAround, SameOuter, SameScopes
<1>8. C.alive
  BY DEF SameOuter
<1>9. Effect(<<"leave">>, C, B)
  BY <1>7, <1>8 DEF Effect, Calls
<1>10. Leads(calls, I, C)
  BY DEF I
<1>11. QED
  BY <1>3, <1>9, <1>10, LeadsOne, LeadsThen DEF WithAddresses

LEMMA ProperCont ==
  ASSUME NEW A \in State, Proper(A)
  PROVE  A.cont[1] <= Top(A) /\ (A.cont[1] = Top(A) => A.cont[2] <= A.depth)
<1>1. A.cont[2] \in Nat /\ A.floor \in Nat /\ A.depth \in Nat
  BY DEF State
<1>2. QED
  BY <1>1 DEF Proper

LEMMA InsideProper ==
  ASSUME NEW A \in State, Proper(A), NEW B, NEW temps, NEW pend, NEW starts,
         IsInside(A, B, temps, pend, starts)
  PROVE  Proper(B)
<1>1. A.outer \in Seq(Level) /\ A.depth \in Nat
  BY DEF State
<1>2. Top(A) \in Nat
  BY <1>1 DEF Top
<1>3. QED
  BY <1>1, <1>2, ProperCont DEF Proper, IsInside, SameScopes

\* ... with a loop of its own
Looping(A, temps, depth, loop, pend, cont) ==
  [Inside(A, temps, pend, {"loop_start"}) EXCEPT !.depth = depth, !.loop = loop,
                                                 !.kept = A.cont, !.cont = cont]

IsLooping(A, B, temps, depth, loop, pend, cont) ==
  /\ B \in State /\ B.temps = temps /\ B.pend = pend /\ B.starts = {"loop_start"}
  /\ B.below = Append(A.below, FrameOf(A)) /\ B.level = Top(A) /\ B.floor = A.depth
  /\ B.stage = A.stage /\ B.knows = A.knows /\ B.cont = cont /\ B.kept = A.cont
  /\ B.depth = depth /\ B.loop = loop
  /\ SameOuter(A, B) /\ Top(B) = Top(A)

LEMMA LoopingState ==
  ASSUME NEW A \in State, NEW temps \in Nat, NEW depth \in Nat, NEW loop \in Nat \cup {-1},
         NEW pend \in SUBSET (Addresses \X Nat), NEW cont \in Nat \X Nat
  PROVE  IsLooping(A, Looping(A, temps, depth, loop, pend, cont), temps, depth, loop, pend, cont)
<1> DEFINE C == Inside(A, temps, pend, {"loop_start"})
           B == [C EXCEPT !.depth = depth, !.loop = loop, !.kept = A.cont, !.cont = cont]
<1>1. {"loop_start"} \in SUBSET Addresses /\ A.cont \in Nat \X Nat
  BY DEF Addresses, State
<1>2. IsInside(A, C, temps, pend, {"loop_start"})
  BY <1>1, InsideState
<1>3. Looping(A, temps, depth, loop, pend, cont) = B
  BY DEF Looping
<1> HIDE DEF C
<1>4. B \in State
  BY <1>1, <1>2 DEF State, IsInside
<1>5. /\ B.temps = C.temps /\ B.pend = C.pend /\ B.starts = C.starts /\ B.below = C.below
      /\ B.level = C.level /\ B.floor = C.floor /\ B.stage = C.stage /\ B.knows = C.knows
      /\ B.alive = C.alive /\ B.outer = C.outer
      /\ B.depth = depth /\ B.loop = loop /\ B.kept = A.cont /\ B.cont = cont
  BY <1>2 DEF State, IsInside
<1> HIDE DEF B
<1>6. QED
  BY <1>2, <1>3, <1>4, <1>5 DEF IsLooping, IsInside, SameOuter, Top

LEMMA WhileCalls ==
  ASSUME NEW A \in State, NEW B \in State, A.alive, StatementEffect(A, B)
  PROVE  Leads(While, A, B)
<1> DEFINE d == A.depth
           here == <<Top(A), d>>
           l == IF A.loop = -1 THEN d ELSE A.loop
           ls == {"loop_start"}
           exit == {<<"exit_jump", 1>>}
           S0 == Inside(A, 0, {}, {})
           S1 == Inside(A, 0, {}, ls)
           S2 == Inside(A, 1, {}, ls)
           S3 == Inside(A, 1, exit, ls)
           S4 == Looping(A, 1, d, l, exit, here)
           S5 == Looping(A, 0, d, l, exit, here)
           S6 == Looping(A, 0, d + 1, l, exit, here)
           S7 == Looping(A, 1, d, l, exit, here)
           S8 == Looping(A, 1, d, A.loop, exit, here)
           S9 == Looping(A, 1, d, A.loop, {}, here)
           S10 == Looping(A, 0, d, A.loop, {}, here)
           S11 == Looping(A, 0, d, A.loop, {}, A.cont)
<1>1. /\ A.stage = "none" /\ A.temps = 0 /\ A.knows = {} /\ Proper(A) /\ InLoop(A)
      /\ B.stage = "none" /\ B.temps = 0 /\ B.knows = {} /\ SameAround(A, B)
  BY DEF StatementEffect, Between
<1>2. /\ d \in Nat /\ Top(A) \in Nat /\ A.loop \in Nat \cup {-1} /\ A.cont \in Nat \X Nat
      /\ l \in Nat \cup {-1} /\ here \in Nat \X Nat /\ d + 1 \in Nat
      /\ exit \in SUBSET (Addresses \X Nat) /\ ls \in SUBSET Addresses
  <2>1. /\ d \in Nat /\ A.outer \in Seq(Level) /\ A.loop \in Nat \cup {-1}
        /\ A.cont \in Nat \X Nat
    BY DEF State
  <2>2. exit \in SUBSET (Addresses \X Nat) /\ ls \in SUBSET Addresses
    BY DEF Addresses
  <2>3. Top(A) \in Nat
    BY <2>1 DEF Top
  <2>4. QED
    BY <2>1, <2>2, <2>3
<1>3. /\ IsInside(A, S0, 0, {}, {}) /\ IsInside(A, S1, 0, {}, ls)
      /\ IsInside(A, S2, 1, {}, ls) /\ IsInside(A, S3, 1, exit, ls)
  <2> HIDE DEF exit, ls
  <2>1. QED
    BY <1>2, InsideState
<1>4. /\ IsLooping(A, S4, 1, d, l, exit, here) /\ IsLooping(A, S5, 0, d, l, exit, here)
      /\ IsLooping(A, S6, 0, d + 1, l, exit, here)
      /\ IsLooping(A, S7, 1, d, l, exit, here) /\ IsLooping(A, S8, 1, d, A.loop, exit, here)
      /\ IsLooping(A, S9, 1, d, A.loop, {}, here) /\ IsLooping(A, S10, 0, d, A.loop, {}, here)
      /\ IsLooping(A, S11, 0, d, A.loop, {}, A.cont)
  <2> HIDE DEF exit, l, here
  <2>1. QED
    BY <1>2, LoopingState
<1> HIDE DEF S0, S1, S2, S3, S4, S5, S6, S7, S8, S9, S10, S11
<1> USE DEF SameOuter, SameScopes, SamePlaces, SameAround, Between
<1>5. Effect(<<"loop_start", "loop_start">>, S0, S1)
  BY <1>1, <1>2, <1>3 DEF Effect, Calls, LoopStartEffect, IsInside, Addresses
<1>6. Effect(Expression, S1, S2)
  <2>1. Proper(S1)
    BY <1>1, <1>3, InsideProper
  <2>2. QED
    BY <1>1, <1>2, <1>3, <2>1 DEF Effect, Calls, ExpressionEffect, IsInside, Expression
<1>7. Effect(Jump("JUMP_IF_FALSE", "exit_jump"), S2, S3)
  BY <1>1, <1>2, <1>3 DEF Effect, Calls, EmitJumpEffect, IsInside, Addresses, Jump
<1>8. Effect(<<"enter_loop">>, S3, S4)
  BY <1>1, <1>2, <1>3, <1>4 DEF Effect, Calls, EnterLoopEffect, IsInside, IsLooping, InLoop
<1>9. Effect(Emit("POP"), S4, S5)
  BY <1>1, <1>2, <1>4 DEF Effect, Calls, EmitByteEffect, ByteOps, Taken, Given, IsLooping, Emit

<1>10. Effect(<<"begin_scope">>, S5, S6)
  BY <1>1, <1>2, <1>4 DEF Effect, Calls, BeginScopeEffect, IsLooping
<1>11. Effect(Block, S6, S6)
  BY <1>1, <1>2, <1>4 DEF Effect, Calls, StatementEffect, IsLooping, Proper, InLoop, Block
<1>12. Effect(<<"end_scope">>, S6, S5)
  BY <1>1, <1>2, <1>4 DEF Effect, Calls, EndScopeEffect, Ending, IsLooping, Proper
<1>13. Effect(<<"emit_loop", "loop_start">>, S5, S7)
  BY <1>1, <1>2, <1>4 DEF Effect, Calls, EmitLoopEffect, IsLooping
<1>14. Effect(<<"patch_breaks">>, S7, S8)
  BY <1>1, <1>2, <1>4 DEF Effect, Calls, PatchBreaksEffect, IsLooping, InLoop
<1>15. Effect(Patch("exit_jump"), S8, S9)
  BY <1>1, <1>2, <1>4 DEF Effect, Calls, PatchJumpEffect, IsLooping, Patch
<1>16. Effect(Emit("POP"), S9, S10)
  BY <1>1, <1>2, <1>4 DEF Effect, Calls, EmitByteEffect, ByteOps, Taken, Given, IsLooping, Emit
<1>17. Effect(<<"leave_loop">>, S10, S11)
  <2>1. A.cont[1] <= Top(A) /\ (A.cont[1] = Top(A) => A.cont[2] <= d)
    BY <1>1, ProperCont
  <2>2. QED
    BY <1>1, <1>2, <1>4, <2>1 DEF Effect, Calls, LeaveLoopEffect, IsLooping
<1>18. Leads(<<<<"loop_start", "loop_start">>, Expression, Jump("JUMP_IF_FALSE", "exit_jump"),
                <<"enter_loop">>, Emit("POP"), <<"begin_scope">>, Block, <<"end_scope">>,
                <<"emit_loop", "loop_start">>, <<"patch_breaks">>, Patch("exit_jump"), Emit("POP"),
                <<"leave_loop">>>>, S0, S11)
  <2>1. Leads(<<Patch("exit_jump"), Emit("POP"), <<"leave_loop">>>>, S8, S11)
    BY <1>15, <1>16, <1>17, LeadsThree
  <2>2. Leads(<<Block, <<"end_scope">>, <<"emit_loop", "loop_start">>, <<"patch_breaks">>>>, S6, S8)
    BY <1>11, <1>12, <1>13, <1>14, LeadsFour
  <2>3. Leads(<<<<"enter_loop">>, Emit("POP"), <<"begin_scope">>>>, S3, S6)
    BY <1>8, <1>9, <1>10, LeadsThree
  <2>4. Leads(<<<<"loop_start", "loop_start">>, Expression, Jump("JUMP_IF_FALSE", "exit_jump")>>,
              S0, S3)
    BY <1>5, <1>6, <1>7, LeadsThree
  <2>5. Leads(<<Block, <<"end_scope">>, <<"emit_loop", "loop_start">>, <<"patch_breaks">>,
                Patch("exit_jump"), Emit("POP"), <<"leave_loop">>>>, S6, S11)
    BY <2>1, <2>2, LeadsSeven
  <2>6. Leads(<<<<"enter_loop">>, Emit("POP"), <<"begin_scope">>,
                Block, <<"end_scope">>, <<"emit_loop", "loop_start">>, <<"patch_breaks">>,
                Patch("exit_jump"), Emit("POP"), <<"leave_loop">>>>, S3, S11)
    BY <2>3, <2>5, LeadsTen
  <2>7. QED
    BY <2>4, <2>6, LeadsThirteen
<1>19. QED
  <2> DEFINE calls ==
        <<<<"loop_start", "loop_start">>, Expression, Jump("JUMP_IF_FALSE", "exit_jump"),
          <<"enter_loop">>, Emit("POP"), <<"begin_scope">>, Block, <<"end_scope">>,
          <<"emit_loop", "loop_start">>, <<"patch_breaks">>, Patch("exit_jump"), Emit("POP"),
          <<"leave_loop">>>>
  <2>1. Leads(calls, Inside(A, A.temps, {}, {}), S11)
    BY <1>1, <1>18 DEF S0
  <2>2. While = WithAddresses(calls)
    BY DEF While
  <2> HIDE DEF calls
  <2>3. /\ S11 \in State /\ SameOuter(A, S11) /\ SameScopes(A, S11) /\ S11.cont = A.cont
        /\ S11.temps = B.temps /\ S11.stage = A.stage /\ S11.knows = A.knows /\ S11.pend = {}
        /\ S11.level = Top(A) /\ S11.below = Append(A.below, FrameOf(A))
    BY <1>1, <1>4 DEF IsLooping
  <2>4. Leads(WithAddresses(calls), A, B)
    BY <1>1, <2>1, <2>3, EnterLeave
  <2>5. QED
    BY <2>2, <2>4

\* Other states of the same functions
Plain(A, temps, stage, depth, knows) ==
  [A EXCEPT !.temps = temps, !.stage = stage, !.depth = depth, !.knows = knows]

IsPlain(A, B, temps, stage, depth, knows) ==
  /\ B \in State /\ B.temps = temps /\ B.stage = stage /\ B.depth = depth /\ B.knows = knows
  /\ SameOuter(A, B) /\ B.loop = A.loop /\ SamePlaces(A, B) /\ B.cont = A.cont
  /\ Top(B) = Top(A)

LEMMA PlainState ==
  ASSUME NEW A \in State, NEW temps \in Nat, NEW stage \in Stages, NEW depth \in Nat,
         NEW knows \in SUBSET Binding
  PROVE  IsPlain(A, Plain(A, temps, stage, depth, knows), temps, stage, depth, knows)
<1> DEFINE B == Plain(A, temps, stage, depth, knows)
<1>1. B \in State
  BY DEF Plain, State
<1>2. /\ B.temps = temps /\ B.stage = stage /\ B.depth = depth /\ B.knows = knows
      /\ B.alive = A.alive /\ B.outer = A.outer /\ B.loop = A.loop /\ B.cont = A.cont
      /\ B.below = A.below /\ B.level = A.level /\ B.floor = A.floor /\ B.pend = A.pend
      /\ B.starts = A.starts /\ B.kept = A.kept
  BY DEF Plain, State
<1> HIDE DEF B
<1>3. QED
  BY <1>1, <1>2 DEF IsPlain, SameOuter, SamePlaces, Top, B

LEMMA PlainProper ==
  ASSUME NEW A \in State, Proper(A), NEW B, NEW temps, NEW stage, NEW depth \in Nat, NEW knows,
         A.depth <= depth, IsPlain(A, B, temps, stage, depth, knows)
  PROVE  Proper(B)
<1>1. A.floor \in Nat /\ A.depth \in Nat
  BY DEF State
<1>2. QED
  BY <1>1 DEF Proper, IsPlain, SamePlaces

\* Between statements, and in a deeper scope
LEMMA StatementState ==
  ASSUME NEW A \in State, NEW B \in State, StatementEffect(A, B)
  PROVE  /\ A.stage = "none" /\ A.temps = 0 /\ A.knows = {} /\ Proper(A) /\ InLoop(A)
         /\ B.stage = "none" /\ B.temps = 0 /\ B.knows = {} /\ SameAround(A, B)
         /\ A.depth \in Nat /\ A.depth + 1 \in Nat /\ A.depth <= A.depth + 1
         /\ Proper(B) /\ InLoop(B) /\ StatementEffect(B, B)
<1>1. /\ A.stage = "none" /\ A.temps = 0 /\ A.knows = {} /\ Proper(A) /\ InLoop(A)
      /\ B.stage = "none" /\ B.temps = 0 /\ B.knows = {} /\ SameAround(A, B)
  BY DEF StatementEffect, Between
<1>2. Proper(B) /\ InLoop(B)
  BY <1>1 DEF SameAround, SameOuter, SameScopes, SamePlaces, Proper, InLoop, Top
<1>3. StatementEffect(B, B)
  BY <1>1, <1>2 DEF StatementEffect, Between, SameAround, SameOuter, SameScopes, SamePlaces
<1>4. A.depth \in Nat
  BY DEF State
<1>5. QED
  BY <1>1, <1>2, <1>3, <1>4

LEMMA ExpressionStatementCalls ==
  ASSUME NEW A \in State, NEW B \in State, A.alive, StatementEffect(A, B)
  PROVE  Leads(<<Expression, Emit("POP")>>, A, B)
<1> DEFINE S == Plain(A, 1, "none", A.depth, {})
<1>1. /\ A.stage = "none" /\ A.temps = 0 /\ A.knows = {} /\ Proper(A)
      /\ B.stage = "none" /\ B.temps = 0 /\ B.knows = {} /\ SameAround(A, B)
      /\ A.depth \in Nat
  BY StatementState
<1>2. IsPlain(A, S, 1, "none", A.depth, {})
  BY <1>1, PlainState DEF Stages
<1> HIDE DEF S
<1> USE DEF SameAround, SameOuter, SameScopes, SamePlaces, IsPlain
<1>3. Effect(Expression, A, S)
  BY <1>1, <1>2 DEF Effect, Calls, ExpressionEffect, Expression
<1>4. Effect(Emit("POP"), S, B)
  BY <1>1, <1>2 DEF Effect, Calls, EmitByteEffect, ByteOps, Taken, Given, Emit
<1>5. QED
  BY <1>3, <1>4, LeadsTwo

LEMMA BlockCalls ==
  ASSUME NEW A \in State, NEW B \in State, A.alive, StatementEffect(A, B)
  PROVE  Leads(<<<<"begin_scope">>, Block, <<"end_scope">>>>, A, B)
<1> DEFINE S == Plain(A, 0, "none", A.depth + 1, {})
<1>1. /\ A.stage = "none" /\ A.temps = 0 /\ A.knows = {} /\ Proper(A) /\ InLoop(A)
      /\ B.stage = "none" /\ B.temps = 0 /\ B.knows = {} /\ SameAround(A, B)
      /\ A.depth \in Nat /\ A.depth + 1 \in Nat /\ A.depth <= A.depth + 1
  BY StatementState
<1>2. IsPlain(A, S, 0, "none", A.depth + 1, {}) /\ A.loop \in Nat \cup {-1}
  BY <1>1, PlainState DEF Stages, State
<1> HIDE DEF S
<1>3. Proper(S)
  BY <1>1, <1>2, PlainProper
<1> USE DEF SameAround, SameOuter, SameScopes, SamePlaces, IsPlain, Between
<1>4. Effect(<<"begin_scope">>, A, S)
  BY <1>1, <1>2 DEF Effect, Calls, BeginScopeEffect
<1>5. Effect(Block, S, S)
  BY <1>1, <1>2, <1>3 DEF Effect, Calls, StatementEffect, InLoop, Block
<1>6. Effect(<<"end_scope">>, S, B)
  <2>1. A.level = Top(A) => A.floor < A.depth + 1
    <3>1. A.floor \in Nat
      BY DEF State
    <3>2. QED
      BY <1>1, <3>1 DEF Proper
  <2>2. QED
    BY <1>1, <1>2, <1>3, <2>1 DEF Effect, Calls, EndScopeEffect, Ending
<1>7. QED
  BY <1>4, <1>5, <1>6, LeadsThree

LEMMA InitializerEffect ==
  ASSUME NEW A \in State, NEW B \in State, A.alive, ExpressionEffect(A, B),
         NEW init \in Initializers
  PROVE  Effect(init, A, B)
<1>1. CASE init = Expression
  BY <1>1 DEF Effect, Calls, Expression
<1>2. CASE init = Emit("CONSTANT")
  <2>1. A.temps \in Nat
    BY DEF State
  <2>2. EmitByteEffect("CONSTANT", 0, A, B)
    BY <2>1 DEF ExpressionEffect, EmitByteEffect, ByteOps, Taken, Given
  <2>3. QED
    BY <1>2, <2>2 DEF Effect, Calls, Emit
<1>3. QED
  BY <1>1, <1>2 DEF Initializers

\* return and yield
LEMMA ResultCalls ==
  ASSUME NEW A \in State, NEW B \in State, A.alive, StatementEffect(A, B),
         NEW value \in Initializers, NEW op \in {"RETURN", "YIELD"}
  PROVE  Leads(<<value, Emit(op)>>, A, B)
<1> DEFINE S == Plain(A, 1, "none", A.depth, {})
<1>1. /\ A.stage = "none" /\ A.temps = 0 /\ A.knows = {} /\ Proper(A)
      /\ B.stage = "none" /\ B.temps = 0 /\ B.knows = {} /\ SameAround(A, B)
      /\ A.depth \in Nat
  BY StatementState
<1>2. IsPlain(A, S, 1, "none", A.depth, {})
  BY <1>1, PlainState DEF Stages
<1> HIDE DEF S
<1> USE DEF SameAround, SameOuter, SameScopes, SamePlaces, IsPlain
<1>3. Effect(value, A, S)
  <2>1. ExpressionEffect(A, S)
    BY <1>1, <1>2 DEF ExpressionEffect
  <2>2. QED
    BY <1>2, <2>1, InitializerEffect
<1>4. Effect(Emit(op), S, B)
  BY <1>1, <1>2 DEF Effect, Calls, EmitByteEffect, ByteOps, Taken, Given, Emit
<1>5. QED
  BY <1>3, <1>4, LeadsTwo

LEMMA JumpOutCalls ==
  ASSUME NEW A \in State, NEW B \in State, A.alive, StatementEffect(A, B),
         NEW name \in {"break", "continue"}
  PROVE  Leads(<<<<name>>>>, A, B)
<1>1. Effect(<<name>>, A, B)
  BY DEF Effect, Calls, BreakEffect
<1>2. QED
  BY <1>1, LeadsOne

LEMMA VariableCalls ==
  ASSUME NEW A \in State, NEW B \in State, A.alive, StatementEffect(A, B),
         NEW name \in Names, NEW init \in Initializers
  PROVE  Leads(Variable(name, init), A, B)
<1> DEFINE S == Plain(A, 0, "declared", A.depth, {})
           T == Plain(A, 1, "declared", A.depth, {})
           U == Plain(A, 1, "named", A.depth, {})
<1>1. /\ A.stage = "none" /\ A.temps = 0 /\ A.knows = {} /\ Proper(A)
      /\ B.stage = "none" /\ B.temps = 0 /\ B.knows = {} /\ SameAround(A, B)
      /\ A.depth \in Nat
  BY StatementState
<1>2. /\ IsPlain(A, S, 0, "declared", A.depth, {}) /\ IsPlain(A, T, 1, "declared", A.depth, {})
      /\ IsPlain(A, U, 1, "named", A.depth, {})
  BY <1>1, PlainState DEF Stages
<1> HIDE DEF S, T, U
<1>3. Proper(S)
  BY <1>1, <1>2, PlainProper
<1> USE DEF SameAround, SameOuter, SameScopes, SamePlaces, IsPlain, Between
<1>4. Effect(<<"parse_variable", name>>, A, S)
  BY <1>1, <1>2 DEF Effect, Calls, ParseVariableEffect
<1>5. Effect(init, S, T)
  <2>1. ExpressionEffect(S, T)
    BY <1>1, <1>2, <1>3 DEF ExpressionEffect
  <2>2. QED
    BY <1>2, <2>1, InitializerEffect
<1>6. Effect(<<"mark_initialized">>, T, U)
  BY <1>1, <1>2 DEF Effect, Calls, MarkInitializedEffect
<1>7. Effect(<<"defined">>, U, B)
  BY <1>1, <1>2 DEF Effect, Calls, DefinedEffect
<1>8. QED
  BY <1>4, <1>5, <1>6, <1>7, LeadsFour DEF Variable

\* The state in a function that starts
Inner(A, depth, stage) ==
  [A EXCEPT !.outer = Append(A.outer, LevelOf(A)), !.depth = depth, !.stage = stage,
            !.temps = 0, !.loop = -1, !.knows = {}]

IsInner(A, B, depth, stage) ==
  /\ B \in State /\ B.alive = A.alive /\ B.outer = Append(A.outer, LevelOf(A))
  /\ B.depth = depth /\ B.stage = stage /\ B.temps = 0 /\ B.loop = -1 /\ B.knows = {}
  /\ SamePlaces(A, B) /\ B.cont = A.cont /\ Top(B) = Top(A) + 1

LEMMA InnerState ==
  ASSUME NEW A \in State, NEW depth \in Nat, NEW stage \in Stages
  PROVE  IsInner(A, Inner(A, depth, stage), depth, stage)
<1> DEFINE outer == Append(A.outer, LevelOf(A))
           B == Inner(A, depth, stage)
<1>1. LevelOf(A) \in Level
  BY DEF State, Level, LevelOf
<1>2. A.outer \in Seq(Level)
  BY DEF State
<1>3. outer \in Seq(Level) /\ Len(outer) = Len(A.outer) + 1
  BY <1>1, <1>2
<1>4. B = [A EXCEPT !.outer = outer, !.depth = depth, !.stage = stage,
                    !.temps = 0, !.loop = -1, !.knows = {}]
  BY DEF Inner
<1> HIDE DEF B, outer
<1>5. B \in State
  BY <1>3, <1>4 DEF State
<1>6. /\ B.alive = A.alive /\ B.outer = outer
      /\ B.depth = depth /\ B.stage = stage /\ B.temps = 0 /\ B.loop = -1 /\ B.knows = {}
      /\ B.below = A.below /\ B.level = A.level /\ B.floor = A.floor /\ B.pend = A.pend
      /\ B.starts = A.starts /\ B.kept = A.kept /\ B.cont = A.cont
  BY <1>4 DEF State
<1>7. Top(B) = Top(A) + 1
  BY <1>3, <1>6 DEF Top
<1>8. QED
  BY <1>5, <1>6, <1>7 DEF IsInner, SamePlaces, outer, B

\* A function leaves a closure on the stack.
LEMMA FunctionCalls ==
  ASSUME NEW A \in State, NEW B \in State, A.alive, Proper(A),
         A.stage \in {"none", "declared", "named"}, SameAround(A, B),
         B.temps = A.temps + 1, B.stage = A.stage, B.knows = A.knows,
         NEW type \in Kinds
  PROVE  Leads(Function(type), A, B)
<1> DEFINE S == Inner(A, 0, "parameters")
           T == Inner(A, 1, "parameters")
           U == Inner(A, 1, "none")
<1>1. /\ IsInner(A, S, 0, "parameters") /\ IsInner(A, T, 1, "parameters")
      /\ IsInner(A, U, 1, "none")
  BY InnerState DEF Stages
<1>2. /\ A.outer \in Seq(Level) /\ Top(A) \in Nat /\ LevelOf(A) \in Level
      /\ A.level \in Nat /\ A.cont[1] \in Nat
  <2>1. A.outer \in Seq(Level) /\ A.level \in Nat /\ A.cont \in Nat \X Nat
    BY DEF State
  <2>2. LevelOf(A) \in Level
    BY DEF State, Level, LevelOf
  <2>3. QED
    BY <2>1, <2>2 DEF Top

<1> HIDE DEF S, T, U
<1>3. A.level < Top(A) + 1 /\ A.cont[1] < Top(A) + 1
  BY <1>2 DEF Proper
<1> USE DEF SamePlaces, IsInner, Between
<1>4. Effect(<<"compiler_init", type>>, A, S)
  BY <1>1 DEF Effect, Calls, CompilerInitEffect
<1>5. Effect(<<"begin_scope">>, S, T)
  BY <1>1 DEF Effect, Calls, BeginScopeEffect, SameOuter
<1>6. Effect(<<"parameters">>, T, U)
  BY <1>1 DEF Effect, Calls, ParametersEffect, SameAround, SameOuter, SameScopes
<1>7. Effect(Block, U, U)
  <2>1. Proper(U) /\ InLoop(U)
    BY <1>1, <1>2, <1>3 DEF Proper, InLoop
  <2>2. QED
    BY <1>1, <2>1 DEF Effect, Calls, StatementEffect, Block, SameAround, SameOuter, SameScopes
<1>8. Effect(<<"end_compilation">>, U, B)
  <2>1. /\ U.outer # <<>> /\ Front(U.outer) = A.outer /\ Last(U.outer) = LevelOf(A)
    <3> DEFINE s == A.outer  l == LevelOf(A)
    <3>1. s \in Seq(Level) /\ l \in Level /\ U.outer = Append(s, l)
      BY <1>1, <1>2
    <3> HIDE DEF s, l
    <3>2. U.outer # <<>> /\ Front(U.outer) = s /\ Last(U.outer) = l
      BY <3>1 DEF Front, Last
    <3>3. QED
      BY <3>2 DEF s, l
  <2>2. EndCompilationEffect(U, B)
    BY <1>1, <1>3, <2>1 DEF EndCompilationEffect, SameAround, SameOuter, SameScopes, LevelOf
  <2>3. QED
    BY <1>1, <2>2 DEF Effect, Calls
<1>9. Leads(<<<<"parameters">>, Block, <<"end_compilation">>>>, T, B)
  BY <1>6, <1>7, <1>8, LeadsThree
<1>10. Leads(<<<<"compiler_init", type>>, <<"begin_scope">>>>, A, T)
  BY <1>4, <1>5, LeadsTwo
<1>11. QED
  BY <1>9, <1>10, LeadsFive DEF Function

LEMMA NamedFunctionCalls ==
  ASSUME NEW A \in State, NEW B \in State, A.alive, StatementEffect(A, B),
         NEW name \in Names, NEW calls \in {<<>>, <<Emit("COROUTINE")>>}
  PROVE  Leads(NamedFunction(name) \o (calls \o <<<<"defined">>>>), A, B)
<1> DEFINE S == Plain(A, 0, "declared", A.depth, {})
           T == Plain(A, 0, "named", A.depth, {})
           U == Plain(A, 1, "named", A.depth, {})
<1>1. /\ A.stage = "none" /\ A.temps = 0 /\ A.knows = {} /\ Proper(A)
      /\ B.stage = "none" /\ B.temps = 0 /\ B.knows = {} /\ SameAround(A, B)
      /\ A.depth \in Nat
  BY StatementState
<1>2. /\ IsPlain(A, S, 0, "declared", A.depth, {}) /\ IsPlain(A, T, 0, "named", A.depth, {})
      /\ IsPlain(A, U, 1, "named", A.depth, {})
  BY <1>1, PlainState DEF Stages
<1> HIDE DEF S, T, U
<1>3. Proper(T)
  BY <1>1, <1>2, PlainProper
<1> USE DEF SameAround, SameOuter, SameScopes, SamePlaces, IsPlain, Between
<1>4. Effect(<<"parse_variable", name>>, A, S)
  BY <1>1, <1>2 DEF Effect, Calls, ParseVariableEffect
<1>5. Effect(<<"mark_initialized">>, S, T)
  BY <1>1, <1>2 DEF Effect, Calls, MarkInitializedEffect
<1>6. Leads(Function("NAMED"), T, U)
  <2>1. /\ T \in State /\ U \in State /\ T.alive /\ T.stage \in {"none", "declared", "named"}
        /\ SameAround(T, U) /\ U.temps = T.temps + 1 /\ U.stage = T.stage /\ U.knows = T.knows
        /\ "NAMED" \in Kinds
    BY <1>1, <1>2 DEF Kinds
  <2>2. QED
    BY <1>3, <2>1, FunctionCalls

<1>7. Leads(NamedFunction(name), A, U)
  BY <1>4, <1>5, <1>6, LeadsTwo, LeadsThen DEF NamedFunction
<1>8. Leads(calls, U, U)
  <2>1. CASE calls = <<>>
    BY <1>2, <2>1, LeadsNone
  <2>2. CASE calls = <<Emit("COROUTINE")>>
    <3>1. Effect(Emit("COROUTINE"), U, U)
      BY <1>1, <1>2 DEF Effect, Calls, EmitByteEffect, ByteOps, Taken, Given, Emit
    <3>2. QED
      BY <2>2, <3>1, LeadsOne
  <2>3. QED
    BY <2>1, <2>2
<1>9. Effect(<<"defined">>, U, B)
  BY <1>1, <1>2 DEF Effect, Calls, DefinedEffect
<1>10. QED
  BY <1>7, <1>8, <1>9, LeadsOne, LeadsThen

LEMMA IfCalls ==
  ASSUME NEW A \in State, NEW B \in State, A.alive, StatementEffect(A, B),
         NEW otherwise \in {<<>>, <<Statement>>}
  PROVE  Leads(If(otherwise), A, B)
<1> DEFINE then == {<<"then_jump", 1>>}
           else == {<<"else_jump", 0>>}
           both == {<<"then_jump", 1>>, <<"else_jump", 0>>}
           S0 == Inside(A, 0, {}, {})
           S1 == Inside(A, 1, {}, {})
           S2 == Inside(A, 1, then, {})
           S3 == Inside(A, 0, then, {})
           S4 == Inside(A, 1, both, {})
           S5 == Inside(A, 1, else, {})
           S6 == Inside(A, 0, else, {})
<1>1. /\ A.stage = "none" /\ A.temps = 0 /\ A.knows = {} /\ Proper(A) /\ InLoop(A)
      /\ B.stage = "none" /\ B.temps = 0 /\ B.knows = {} /\ SameAround(A, B)
  BY StatementState
<1>2. /\ then \in SUBSET (Addresses \X Nat) /\ else \in SUBSET (Addresses \X Nat)
      /\ both \in SUBSET (Addresses \X Nat)
  BY DEF Addresses
<1>3. /\ IsInside(A, S0, 0, {}, {}) /\ IsInside(A, S1, 1, {}, {}) /\ IsInside(A, S2, 1, then, {})
      /\ IsInside(A, S3, 0, then, {}) /\ IsInside(A, S4, 1, both, {})
      /\ IsInside(A, S5, 1, else, {}) /\ IsInside(A, S6, 0, else, {})
  <2> HIDE DEF then, else, both
  <2>1. QED
    BY <1>2, InsideState
<1> HIDE DEF S0, S1, S2, S3, S4, S5, S6
<1>4. Proper(S0) /\ Proper(S3) /\ Proper(S6)
  BY <1>1, <1>3, InsideProper
<1> USE DEF SameOuter, SameScopes, SamePlaces, SameAround, Between
<1>5. Effect(Expression, S0, S1)
  BY <1>1, <1>3, <1>4 DEF Effect, Calls, ExpressionEffect, IsInside, Expression
<1>6. Effect(Jump("JUMP_IF_FALSE", "then_jump"), S1, S2)
  BY <1>1, <1>3 DEF Effect, Calls, EmitJumpEffect, IsInside, Addresses, Jump
<1>7. Effect(Emit("POP"), S2, S3)
  BY <1>1, <1>3 DEF Effect, Calls, EmitByteEffect, ByteOps, Taken, Given, IsInside, Emit
<1>8. Effect(Statement, S3, S3)
  BY <1>1, <1>3, <1>4 DEF Effect, Calls, StatementEffect, IsInside, InLoop, Statement
<1>9. Effect(Jump("JUMP", "else_jump"), S3, S4)
  BY <1>1, <1>3 DEF Effect, Calls, EmitJumpEffect, IsInside, Addresses, Jump
<1>10. Effect(Patch("then_jump"), S4, S5)
  BY <1>1, <1>3 DEF Effect, Calls, PatchJumpEffect, IsInside, Patch
<1>11. Effect(Emit("POP"), S5, S6)
  BY <1>1, <1>3 DEF Effect, Calls, EmitByteEffect, ByteOps, Taken, Given, IsInside, Emit
<1>12. Leads(otherwise, S6, S6)
  <2>1. CASE otherwise = <<>>
    BY <1>3, <2>1, LeadsNone DEF IsInside
  <2>2. CASE otherwise = <<Statement>>
    <3>1. Effect(Statement, S6, S6)
      BY <1>1, <1>3, <1>4 DEF Effect, Calls, StatementEffect, IsInside, InLoop, Statement
    <3>2. QED
      BY <2>2, <3>1, LeadsOne
  <2>3. QED
    BY <2>1, <2>2
<1>13. Effect(Patch("else_jump"), S6, S0)
  BY <1>1, <1>3 DEF Effect, Calls, PatchJumpEffect, IsInside, Patch
<1> DEFINE calls ==
      <<Expression, Jump("JUMP_IF_FALSE", "then_jump"), Emit("POP"), Statement,
        Jump("JUMP", "else_jump"), Patch("then_jump"), Emit("POP")>>
<1>14. Leads(calls, S0, S6)
  <2>1. Leads(<<Expression, Jump("JUMP_IF_FALSE", "then_jump"), Emit("POP"), Statement>>, S0, S3)
    BY <1>5, <1>6, <1>7, <1>8, LeadsFour
  <2>2. Leads(<<Jump("JUMP", "else_jump"), Patch("then_jump"), Emit("POP")>>, S3, S6)
    BY <1>9, <1>10, <1>11, LeadsThree
  <2>3. QED
    BY <2>1, <2>2, LeadsSeven
<1>15. If(otherwise) = WithAddresses(calls \o otherwise \o <<Patch("else_jump")>>)
  BY DEF If
<1> HIDE DEF calls
<1>16. Leads(calls \o otherwise \o <<Patch("else_jump")>>, S0, S0)
  BY <1>12, <1>13, <1>14, LeadsOne, LeadsThen
<1>17. Leads(WithAddresses(calls \o otherwise \o <<Patch("else_jump")>>), A, B)
  <2>1. Leads(calls \o otherwise \o <<Patch("else_jump")>>, Inside(A, A.temps, {}, {}), S0)
    BY <1>1, <1>16 DEF S0
  <2>2. QED
    BY <1>1, <1>3, <2>1, EnterLeave DEF IsInside
<1>18. QED
  BY <1>15, <1>17

LEMMA ForCalls ==
  ASSUME NEW A \in State, NEW B \in State, A.alive, StatementEffect(A, B), NEW name \in Names,
         NEW init \in {<<>>, <<Expression, Emit("POP")>>} \cup {Variable(name, i) : i \in Initializers},
         NEW cond \in BOOLEAN, NEW incr \in BOOLEAN
  PROVE  Leads(For(init, cond, incr), A, B)
<1> DEFINE ls == {"loop_start"}
           both == {"loop_start", "increment_start"}
           starts == IF incr THEN both ELSE ls
           exit == {<<"exit_jump", 1>>}
           pend == IF cond THEN exit ELSE {}
           body == pend \cup {<<"body_jump", 0>>}
           D == Plain(A, 0, "none", A.depth + 1, {})
           S0 == Inside(D, 0, {}, {})
           S1 == Inside(D, 0, {}, ls)
           S2 == Inside(D, 1, {}, ls)
           S3 == Inside(D, 1, exit, ls)
           S4 == Inside(D, 0, pend, ls)
           S5 == Inside(D, 0, body, ls)
           S6 == Inside(D, 0, body, both)
           S7 == Inside(D, 1, body, both)
           S8 == Inside(D, 0, pend, starts)
           S9 == Inside(D, IF cond THEN 1 ELSE 0, pend, starts)
           S10 == Inside(D, 1, {}, starts)
           S11 == Inside(D, 0, {}, starts)
<1>1. /\ A.stage = "none" /\ A.temps = 0 /\ A.knows = {} /\ Proper(A) /\ InLoop(A)
      /\ B.stage = "none" /\ B.temps = 0 /\ B.knows = {} /\ SameAround(A, B)
      /\ A.depth \in Nat /\ A.depth + 1 \in Nat /\ A.depth <= A.depth + 1
  BY StatementState
<1>2. IsPlain(A, D, 0, "none", A.depth + 1, {}) /\ A.loop \in Nat \cup {-1}
  BY <1>1, PlainState DEF Stages, State
<1> HIDE DEF D
<1>3. D \in State /\ D.alive /\ Proper(D) /\ InLoop(D) /\ StatementEffect(D, D)
  <2>1. Proper(D)
    BY <1>1, <1>2, PlainProper
  <2>2. QED
    BY <1>1, <1>2, <2>1 DEF IsPlain, SameOuter, SameScopes, SamePlaces, SameAround, InLoop,
                            Between, StatementEffect
<1>4. Effect(<<"begin_scope">>, A, D)
  BY <1>1, <1>2 DEF Effect, Calls, BeginScopeEffect, IsPlain
<1>5. Leads(init, D, D)
  <2>1. CASE init = <<>>
    BY <1>3, <2>1, LeadsNone
  <2>2. CASE init = <<Expression, Emit("POP")>>
    BY <1>3, <2>2, ExpressionStatementCalls
  <2>3. CASE init \in {Variable(name, i) : i \in Initializers}
    BY <1>3, <2>3, VariableCalls
  <2>4. QED
    BY <2>1, <2>2, <2>3
<1>6. Effect(<<"end_scope">>, D, B)
  <2>1. A.level = Top(A) => A.floor < A.depth + 1
    <3>1. A.floor \in Nat
      BY DEF State
    <3>2. QED
      BY <1>1, <3>1 DEF Proper
  <2>2. QED
    BY <1>1, <1>2, <1>3, <2>1 DEF Effect, Calls, EndScopeEffect, Ending, IsPlain, Between,
                                  SameAround, SameOuter, SameScopes, SamePlaces
<1>7. /\ {} \in SUBSET (Addresses \X Nat) /\ exit \in SUBSET (Addresses \X Nat)
      /\ pend \in SUBSET (Addresses \X Nat) /\ body \in SUBSET (Addresses \X Nat)
      /\ {} \in SUBSET Addresses /\ ls \in SUBSET Addresses /\ both \in SUBSET Addresses
      /\ starts \in SUBSET Addresses
      /\ (IF cond THEN 1 ELSE 0) \in Nat
  BY DEF Addresses
<1>8. /\ IsInside(D, S0, 0, {}, {}) /\ IsInside(D, S1, 0, {}, ls) /\ IsInside(D, S2, 1, {}, ls)
      /\ IsInside(D, S3, 1, exit, ls) /\ IsInside(D, S4, 0, pend, ls)
      /\ IsInside(D, S5, 0, body, ls) /\ IsInside(D, S6, 0, body, both)
      /\ IsInside(D, S7, 1, body, both) /\ IsInside(D, S8, 0, pend, starts)
      /\ IsInside(D, S9, IF cond THEN 1 ELSE 0, pend, starts)
      /\ IsInside(D, S10, 1, {}, starts) /\ IsInside(D, S11, 0, {}, starts)
  <2> HIDE DEF exit, pend, body, ls, both, starts
  <2>1. QED
    BY <1>3, <1>7, InsideState
<1>9. S4 = IF cond THEN Inside(D, 0, exit, ls) ELSE S1
  OBVIOUS
<1>10. ~incr => S8 = S4
  OBVIOUS
<1>11. ~cond => S9 = S11
  OBVIOUS
<1> HIDE DEF S0, S1, S2, S3, S4, S5, S6, S7, S8, S9, S10, S11
<1>12. Proper(S1) /\ Proper(S6) /\ Proper(S8)
  BY <1>3, <1>8, InsideProper
<1>13. D.stage = "none" /\ D.temps = 0 /\ D.knows = {}
  BY <1>2 DEF IsPlain
<1> USE DEF SameOuter, SameScopes, SamePlaces, SameAround, Between
<1>14. Effect(<<"loop_start", "loop_start">>, S0, S1)
  BY <1>3, <1>8, <1>13 DEF Effect, Calls, LoopStartEffect, IsInside, Addresses
<1>15. Leads(ForCondition(cond), S1, S4)
  <2>1. CASE cond
    <3>1. Effect(Expression, S1, S2)
      BY <1>3, <1>8, <1>12, <1>13 DEF Effect, Calls, ExpressionEffect, IsInside, Expression
    <3>2. Effect(Jump("JUMP_IF_FALSE", "exit_jump"), S2, S3)
      BY <1>3, <1>8, <1>13 DEF Effect, Calls, EmitJumpEffect, IsInside, Addresses, Jump
    <3>3. Effect(Emit("POP"), S3, S4)
      BY <1>3, <1>8, <1>13, <2>1
         DEF Effect, Calls, EmitByteEffect, ByteOps, Taken, Given, IsInside, Emit
    <3>4. QED
      BY <2>1, <3>1, <3>2, <3>3, LeadsThree DEF ForCondition
  <2>2. CASE ~cond
    BY <1>8, <1>9, <2>2, LeadsNone DEF ForCondition, IsInside
  <2>3. QED
    BY <2>1, <2>2
<1>16. Leads(IF incr THEN ForIncrement ELSE <<>>, S4, S8)
  <2>1. CASE incr
    <3>1. Effect(Jump("JUMP", "body_jump"), S4, S5)
      BY <1>3, <1>8, <1>13 DEF Effect, Calls, EmitJumpEffect, IsInside, Addresses, Jump
    <3>2. Effect(<<"loop_start", "increment_start">>, S5, S6)
      BY <1>3, <1>8, <1>13 DEF Effect, Calls, LoopStartEffect, IsInside, Addresses
    <3>3. Effect(Expression, S6, S7)
      BY <1>3, <1>8, <1>12, <1>13 DEF Effect, Calls, ExpressionEffect, IsInside, Expression
    <3>4. Effect(Emit("POP"), S7, S6)
      BY <1>3, <1>8, <1>13
         DEF Effect, Calls, EmitByteEffect, ByteOps, Taken, Given, IsInside, Emit
    <3>5. Effect(<<"emit_loop", "loop_start">>, S6, S6)
      BY <1>3, <1>8, <1>13 DEF Effect, Calls, EmitLoopEffect, IsInside
    <3>6. Effect(Patch("body_jump"), S6, S8)
      BY <1>3, <1>8, <1>13, <2>1 DEF Effect, Calls, PatchJumpEffect, IsInside, Patch
    <3>7. Leads(<<Expression, Emit("POP"), <<"emit_loop", "loop_start">>, Patch("body_jump")>>,
                S6, S8)
      BY <3>3, <3>4, <3>5, <3>6, LeadsFour
    <3>8. Leads(<<Jump("JUMP", "body_jump"), <<"loop_start", "increment_start">>>>, S4, S6)
      BY <3>1, <3>2, LeadsTwo
    <3>9. Leads(ForIncrement, S4, S8)
      BY <3>7, <3>8, LeadsSix DEF ForIncrement
    <3>10. QED
      BY <2>1, <3>9
  <2>2. CASE ~incr
    BY <1>8, <1>10, <2>2, LeadsNone DEF IsInside
  <2>3. QED
    BY <2>1, <2>2
<1>17. Leads(<<Block, <<"emit_loop", IF incr THEN "increment_start" ELSE "loop_start">>>>, S8, S9)
  <2>1. Effect(Block, S8, S8)
    BY <1>3, <1>8, <1>12, <1>13 DEF Effect, Calls, StatementEffect, IsInside, InLoop, Block
  <2>2. Effect(<<"emit_loop", IF incr THEN "increment_start" ELSE "loop_start">>, S8, S9)
    BY <1>3, <1>8, <1>13 DEF Effect, Calls, EmitLoopEffect, IsInside
  <2>3. QED
    BY <2>1, <2>2, LeadsTwo
<1>18. Leads(IF cond THEN <<Patch("exit_jump"), Emit("POP")>> ELSE <<>>, S9, S11)
  <2>1. CASE cond
    <3>1. Effect(Patch("exit_jump"), S9, S10)
      BY <1>3, <1>8, <1>13, <2>1 DEF Effect, Calls, PatchJumpEffect, IsInside, Patch
    <3>2. Effect(Emit("POP"), S10, S11)
      BY <1>3, <1>8, <1>13
         DEF Effect, Calls, EmitByteEffect, ByteOps, Taken, Given, IsInside, Emit
    <3>3. QED
      BY <2>1, <3>1, <3>2, LeadsTwo
  <2>2. CASE ~cond
    BY <1>8, <1>11, <2>2, LeadsNone DEF IsInside
  <2>3. QED
    BY <2>1, <2>2
<1> DEFINE a == <<<<"loop_start", "loop_start">>>>
           b == ForCondition(cond)
           c == IF incr THEN ForIncrement ELSE <<>>
           d == <<Block, <<"emit_loop", IF incr THEN "increment_start" ELSE "loop_start">>>>
           e == IF cond THEN <<Patch("exit_jump"), Emit("POP")>> ELSE <<>>
<1>19. Leads(ForLoop(cond, incr), S0, S11)
  <2>1. ForLoop(cond, incr) = a \o b \o c \o d \o e
    BY DEF ForLoop
  <2>2. Leads(a, S0, S1)
    BY <1>14, LeadsOne
  <2> HIDE DEF a, b, c, d, e
  <2>3. Leads(b, S1, S4) /\ Leads(c, S4, S8) /\ Leads(d, S8, S9) /\ Leads(e, S9, S11)
    BY <1>15, <1>16, <1>17, <1>18 DEF b, c, d, e
  <2>4. QED
    BY <2>1, <2>2, <2>3, LeadsThen
<1>20. Leads(WithAddresses(ForLoop(cond, incr)), D, D)
  <2>1. Leads(ForLoop(cond, incr), Inside(D, D.temps, {}, {}), S11)
    BY <1>13, <1>19 DEF S0
  <2>2. /\ D.stage \in {"none", "declared"} /\ SameAround(D, D)
        /\ S11 \in State /\ SameOuter(D, S11) /\ SameScopes(D, S11) /\ S11.cont = D.cont
        /\ S11.temps = D.temps /\ S11.stage = D.stage /\ S11.knows = D.knows /\ S11.pend = {}
        /\ S11.level = Top(D) /\ S11.below = Append(D.below, FrameOf(D))
    BY <1>8, <1>13 DEF IsInside
  <2> HIDE DEF SameOuter, SameScopes, SamePlaces, SameAround, Between
  <2>3. QED
    BY <1>3, <2>1, <2>2, EnterLeave

<1>21. For(init, cond, incr)
       = <<<<"begin_scope">>>> \o init \o WithAddresses(ForLoop(cond, incr)) \o <<<<"end_scope">>>>
  BY DEF For
<1>22. QED
  BY <1>4, <1>5, <1>6, <1>20, <1>21, LeadsOne, LeadsThen

\* Where an expression is compiled
LEMMA ExpressionState ==
  ASSUME NEW A \in State, NEW B \in State, ExpressionEffect(A, B)
  PROVE  /\ A.stage \in {"none", "declared"} /\ A.stage \in Stages /\ Proper(A)
         /\ A.temps \in Nat /\ A.depth \in Nat /\ A.knows \in SUBSET Binding
         /\ B.temps = A.temps + 1 /\ B.stage = A.stage /\ B.knows = A.knows /\ SameAround(A, B)
<1>1. A.temps \in Nat /\ A.depth \in Nat /\ A.knows \in SUBSET Binding /\ A.stage \in Stages
  BY DEF State
<1>2. QED
  BY <1>1 DEF ExpressionEffect

\* The same place with more operands
More(A, n) == IF n = 0 THEN A ELSE Plain(A, A.temps + n, A.stage, A.depth, A.knows)

IsMore(A, B, n) ==
  /\ B \in State /\ B.temps = A.temps + n /\ B.stage = A.stage /\ B.knows = A.knows
  /\ SameAround(A, B)

LEMMA MoreState ==
  ASSUME NEW A \in State, NEW n \in Nat
  PROVE  IsMore(A, More(A, n), n) /\ (Proper(A) => Proper(More(A, n)))
<1> DEFINE B == More(A, n)  t == A.temps + n  s == A.stage  d == A.depth  k == A.knows
<1>0. SUFFICES ASSUME n # 0
               PROVE  IsMore(A, B, n) /\ (Proper(A) => Proper(B))
  <2>1. A.temps \in Nat
    BY DEF State
  <2>2. IsMore(A, A, 0)
    BY <2>1 DEF IsMore, SameAround, SameOuter, SameScopes, SamePlaces
  <2>3. CASE n = 0
    <3>1. More(A, 0) = A
      BY DEF More
    <3>2. QED
      BY <2>2, <2>3, <3>1
  <2>4. QED
    BY <2>3

<1>1. t \in Nat /\ s \in Stages /\ d \in Nat /\ k \in SUBSET Binding /\ d <= d
  BY DEF State
<1>2. B = Plain(A, t, s, d, k)
  BY <1>0 DEF More
<1> HIDE DEF B, t, s, d, k
<1>3. IsPlain(A, B, t, s, d, k)
  BY <1>1, <1>2, PlainState
<1>4. B.temps = A.temps + n /\ B.stage = A.stage /\ B.knows = A.knows /\ B.depth = A.depth
  BY <1>3 DEF IsPlain, t, s, d, k
<1>5. IsMore(A, B, n)
  BY <1>3, <1>4 DEF IsPlain, IsMore, SameAround, SameScopes
<1>6. Proper(A) => Proper(B)
  BY <1>4, <1>5 DEF IsMore, Proper, SameAround, SameOuter, SamePlaces, Top
<1>7. QED
  BY <1>5, <1>6

\* An expression on top of n others
LEMMA NextExpression ==
  ASSUME NEW A \in State, A.alive, Proper(A), A.stage \in {"none", "declared"}, NEW n \in Nat,
         NEW call \in {Expression, Emit("CONSTANT")}
  PROVE  Effect(call, More(A, n), More(A, n + 1))
<1> DEFINE S == More(A, n)  T == More(A, n + 1)
<1>1. /\ IsMore(A, S, n) /\ Proper(S) /\ IsMore(A, T, n + 1)
      /\ A.temps \in Nat
  BY MoreState DEF State
<1> HIDE DEF S, T
<1>2. ExpressionEffect(S, T) /\ S.alive /\ S \in State /\ T \in State
  BY <1>1 DEF IsMore, ExpressionEffect, SameAround, SameOuter, SameScopes, SamePlaces
<1>3. Effect(call, S, T)
  BY <1>2, InitializerEffect DEF Initializers
<1>4. QED
  BY <1>3 DEF S, T

\* An instruction that takes n operands and leaves one
LEMMA LastInstruction ==
  ASSUME NEW A \in State, NEW B \in State, A.alive, ExpressionEffect(A, B),
         NEW n \in Nat, NEW op \in ByteOps, NEW arg \in Nat, NEW m \in Nat,
         n - Taken(op, arg) + Given(op) = 1, m = Taken(op, arg), m <= n
  PROVE  Effect(<<"emit_byte", op, arg>>, More(A, n), B)
<1> DEFINE S == More(A, n)
<1>1. IsMore(A, S, n) /\ A.temps \in Nat /\ Given(op) \in Nat
  BY MoreState DEF State, Given
<1> HIDE DEF S
<1>2. EmitByteEffect(op, arg, S, B)
  <2> HIDE DEF ByteOps
  <2>1. Taken(op, arg) <= S.temps /\ B.temps = S.temps - Taken(op, arg) + Given(op)
    BY <1>1 DEF IsMore, ExpressionEffect
  <2>2. QED
    BY <1>1, <2>1 DEF IsMore, ExpressionEffect, EmitByteEffect, SameAround, SameOuter, SameScopes,
                      SamePlaces
<1>3. S.alive /\ S \in State
  BY <1>1 DEF IsMore, SameAround, SameOuter
<1>4. QED
  BY <1>2, <1>3 DEF Effect, Calls, S

LEMMA NoneMore ==
  ASSUME NEW A \in State, NEW B, NEW call, Effect(call, More(A, 0), B)
  PROVE  Effect(call, A, B)
BY DEF More

LEMMA ValueCalls ==
  ASSUME NEW A \in State, NEW B \in State, A.alive, ExpressionEffect(A, B)
  PROVE  /\ Leads(<<Emit("CONSTANT")>>, A, B)
         /\ \A op \in {"UNARY", "COROUTINE", "AWAIT"} : Leads(<<Expression, Emit(op)>>, A, B)
         /\ Leads(<<Expression, Expression, Emit("BINARY")>>, A, B)
<1>1. /\ A.stage \in {"none", "declared"} /\ Proper(A)
      /\ 0 \in Nat /\ 0 + 1 = 1 /\ 1 \in Nat /\ 1 + 1 = 2 /\ 2 \in Nat
  BY ExpressionState
<1>2. Effect(Expression, A, More(A, 1)) /\ Effect(Expression, More(A, 1), More(A, 2))
  <2>1. Effect(Expression, More(A, 0), More(A, 0 + 1))
    BY <1>1, NextExpression
  <2>2. Effect(Expression, More(A, 1), More(A, 1 + 1))
    BY <1>1, NextExpression
  <2>3. QED
    BY <1>1, <2>1, <2>2, NoneMore
<1>3. Leads(<<Emit("CONSTANT")>>, A, B)
  <2>1. Emit("CONSTANT") \in Initializers
    BY DEF Initializers
  <2>2. QED
    BY <2>1, InitializerEffect, LeadsOne
<1>4. ASSUME NEW op \in {"UNARY", "COROUTINE", "AWAIT"}
      PROVE  Leads(<<Expression, Emit(op)>>, A, B)
  <2>1. op \in ByteOps /\ Taken(op, 0) = 1 /\ Given(op) = 1 /\ 1 - 1 + 1 = 1 /\ 1 <= 1
    BY DEF ByteOps, Taken, Given
  <2>2. Effect(<<"emit_byte", op, 0>>, More(A, 1), B)
    BY <1>1, <2>1, LastInstruction
  <2>3. QED
    BY <1>2, <2>2, LeadsTwo DEF Emit
<1>5. Leads(<<Expression, Expression, Emit("BINARY")>>, A, B)
  <2>1. "BINARY" \in ByteOps /\ Taken("BINARY", 0) = 2 /\ Given("BINARY") = 1
        /\ 2 - 2 + 1 = 1 /\ 2 <= 2
    BY DEF ByteOps, Taken, Given
  <2>2. Effect(<<"emit_byte", "BINARY", 0>>, More(A, 2), B)
    BY <1>1, <2>1, LastInstruction
  <2>3. QED
    BY <1>2, <2>2, LeadsThree DEF Emit
<1>6. QED
  BY <1>3, <1>4, <1>5

LEMMA FieldCalls ==
  ASSUME NEW A \in State, NEW B \in State, A.alive, ExpressionEffect(A, B),
         NEW key \in {Emit("CONSTANT"), Expression}
  PROVE  /\ Leads(<<Expression, key, Emit("GET_FIELD")>>, A, B)
         /\ Leads(<<Expression, key, Expression, Emit("SET_FIELD")>>, A, B)
<1>1. /\ A.stage \in {"none", "declared"} /\ Proper(A)
      /\ 0 \in Nat /\ 0 + 1 = 1 /\ 1 \in Nat /\ 1 + 1 = 2 /\ 2 \in Nat /\ 2 + 1 = 3 /\ 3 \in Nat
  BY ExpressionState
<1>2. /\ Effect(Expression, A, More(A, 1)) /\ Effect(key, More(A, 1), More(A, 2))
      /\ Effect(Expression, More(A, 2), More(A, 3))
  <2>1. Effect(Expression, More(A, 0), More(A, 0 + 1))
    BY <1>1, NextExpression
  <2>2. Effect(key, More(A, 1), More(A, 1 + 1))
    BY <1>1, NextExpression
  <2>3. Effect(Expression, More(A, 2), More(A, 2 + 1))
    BY <1>1, NextExpression
  <2>4. QED
    BY <1>1, <2>1, <2>2, <2>3, NoneMore
<1>3. /\ {"GET_FIELD", "SET_FIELD"} \subseteq ByteOps /\ 2 - 2 + 1 = 1 /\ 3 - 2 + 0 = 1
      /\ Taken("GET_FIELD", 0) = 2 /\ Given("GET_FIELD") = 1 /\ 2 <= 2
      /\ Taken("SET_FIELD", 0) = 2 /\ Given("SET_FIELD") = 0 /\ 2 <= 3
  BY DEF ByteOps, Taken, Given
<1>4. Effect(<<"emit_byte", "GET_FIELD", 0>>, More(A, 2), B)
  BY <1>1, <1>3, LastInstruction
<1>5. Effect(<<"emit_byte", "SET_FIELD", 0>>, More(A, 3), B)
  BY <1>1, <1>3, LastInstruction
<1>6. QED
  BY <1>2, <1>4, <1>5, LeadsThree, LeadsFour DEF Emit

\* The operands of an instruction that takes any number of them
LEMMA OperandCalls ==
  ASSUME NEW A \in State, A.alive, Proper(A), A.stage \in {"none", "declared"},
         NEW m \in Nat, NEW n \in Nat,
         NEW calls \in [1..n -> {Expression, Emit("CONSTANT")}]
  PROVE  Leads(calls, More(A, m), More(A, m + n))
<1> DEFINE path == [i \in 1..n + 1 |-> More(A, m + i - 1)]
<1>1. calls \in Seq({Expression, Emit("CONSTANT")}) /\ Len(calls) = n
  BY DEF Expression, Emit
<1>2. path \in [1..n + 1 -> State]
  <2>1. ASSUME NEW i \in 1..n + 1 PROVE More(A, m + i - 1) \in State
    BY MoreState DEF IsMore
  <2>2. QED
    BY <2>1
<1>3. ASSUME NEW i \in 1..n PROVE Effect(calls[i], path[i], path[i + 1])
  <2> DEFINE k == m + i - 1
  <2>1. /\ k \in Nat /\ calls[i] \in {Expression, Emit("CONSTANT")} /\ i \in 1..n + 1
        /\ i + 1 \in 1..n + 1 /\ m + (i + 1) - 1 = k + 1
    BY DEF Expression, Emit
  <2>2. path[i] = More(A, k) /\ path[i + 1] = More(A, k + 1)
    BY <2>1
  <2> HIDE DEF k, path
  <2>3. Effect(calls[i], More(A, k), More(A, k + 1))
    BY <2>1, NextExpression
  <2>4. QED
    BY <2>2, <2>3
<1>4. path[1] = More(A, m) /\ path[n + 1] = More(A, m + n)
  <2>1. m + 1 - 1 = m /\ m + (n + 1) - 1 = m + n /\ 1 \in 1..n + 1 /\ n + 1 \in 1..n + 1
    OBVIOUS
  <2>2. QED
    BY <2>1
<1> HIDE DEF path
<1>5. Path(calls, path)
  BY <1>1, <1>2, <1>3 DEF Path
<1>6. QED
  BY <1>1, <1>4, <1>5 DEF Leads

LEMMA CollectionCalls ==
  ASSUME NEW A \in State, NEW B \in State, A.alive, ExpressionEffect(A, B), NEW n \in Nat
  PROVE  /\ Leads(<<Expression>> \o Expressions(n) \o <<EmitArg("CALL", n)>>, A, B)
         /\ Leads(Expressions(n) \o <<EmitArg("LIST", n)>>, A, B)
         /\ Leads([i \in 1..2 * n |-> IF i % 2 = 1 THEN Emit("CONSTANT") ELSE Expression]
                  \o <<EmitArg("DICT", n)>>, A, B)
<1> DEFINE pairs == [i \in 1..2 * n |-> IF i % 2 = 1 THEN Emit("CONSTANT") ELSE Expression]
<1>1. /\ A.stage \in {"none", "declared"} /\ Proper(A) /\ 0 \in Nat /\ 1 \in Nat
      /\ 2 * n \in Nat /\ n + 1 \in Nat /\ 0 + n = n /\ 0 + 2 * n = 2 * n /\ 1 + n = n + 1
      /\ n - n + 1 = 1 /\ n <= n /\ 2 * n - 2 * n + 1 = 1 /\ 2 * n <= 2 * n
      /\ (n + 1) - (n + 1) + 1 = 1 /\ n + 1 <= n + 1 /\ More(A, 0) = A /\ 0 + 1 = 1
  BY ExpressionState DEF More
<1>2. /\ Expressions(n) \in [1..n -> {Expression, Emit("CONSTANT")}]
      /\ pairs \in [1..2 * n -> {Expression, Emit("CONSTANT")}]
  BY DEF Expressions
<1>3. /\ {"CALL", "LIST", "DICT"} \subseteq ByteOps
      /\ Taken("CALL", n) = n + 1 /\ Taken("LIST", n) = n /\ Taken("DICT", n) = 2 * n
      /\ Given("CALL") = 1 /\ Given("LIST") = 1 /\ Given("DICT") = 1
  BY DEF ByteOps, Taken, Given
<1> HIDE DEF pairs
<1>4. Leads(Expressions(n), A, More(A, n)) /\ Leads(pairs, A, More(A, 2 * n))
  <2>1. Leads(Expressions(n), More(A, 0), More(A, 0 + n))
    BY <1>1, <1>2, OperandCalls
  <2>2. Leads(pairs, More(A, 0), More(A, 0 + 2 * n))
    BY <1>1, <1>2, OperandCalls
  <2>3. QED
    BY <1>1, <2>1, <2>2
<1>5. Effect(EmitArg("LIST", n), More(A, n), B) /\ Effect(EmitArg("DICT", n), More(A, 2 * n), B)
  <2>1. Effect(<<"emit_byte", "LIST", n>>, More(A, n), B)
    BY <1>1, <1>3, LastInstruction
  <2>2. Effect(<<"emit_byte", "DICT", n>>, More(A, 2 * n), B)
    BY <1>1, <1>3, LastInstruction
  <2>3. QED
    BY <2>1, <2>2 DEF EmitArg
<1>6. Leads(<<Expression>> \o Expressions(n) \o <<EmitArg("CALL", n)>>, A, B)
  <2>1. Effect(Expression, A, More(A, 1))
    <3>1. Effect(Expression, More(A, 0), More(A, 0 + 1))
      BY <1>1, NextExpression
    <3>2. QED
      BY <1>1, <3>1
  <2>2. Leads(Expressions(n), More(A, 1), More(A, 1 + n))
    BY <1>1, <1>2, OperandCalls
  <2>3. Effect(<<"emit_byte", "CALL", n>>, More(A, n + 1), B)
    BY <1>1, <1>3, LastInstruction
  <2>4. QED
    BY <1>1, <2>1, <2>2, <2>3, LeadsOne, LeadsThen DEF EmitArg
<1>7. QED
  BY <1>4, <1>5, <1>6, LeadsOne, LeadsThen DEF pairs

LEMMA LogicCalls ==
  ASSUME NEW A \in State, NEW B \in State, A.alive, ExpressionEffect(A, B),
         NEW calls \in {Conjunction, Disjunction}
  PROVE  Leads(calls, A, B)
<1> DEFINE t == A.temps + 1
           end == {<<"end_jump", t>>}
           else == {<<"else_jump", t>>}
           both == {<<"else_jump", t>>, <<"end_jump", t>>}
           S0 == Inside(A, A.temps, {}, {})
           S1 == Inside(A, t, {}, {})
           S2 == Inside(A, t, end, {})
           S3 == Inside(A, A.temps, end, {})
           S4 == Inside(A, t, else, {})
           S5 == Inside(A, t, both, {})
<1>1. /\ A.stage \in {"none", "declared"} /\ Proper(A) /\ A.temps \in Nat /\ t \in Nat
      /\ B.temps = A.temps + 1 /\ B.stage = A.stage /\ B.knows = A.knows /\ SameAround(A, B)
  BY ExpressionState
<1>2. /\ end \in SUBSET (Addresses \X Nat) /\ else \in SUBSET (Addresses \X Nat)
      /\ both \in SUBSET (Addresses \X Nat)
  BY <1>1 DEF Addresses
<1>3. /\ IsInside(A, S0, A.temps, {}, {}) /\ IsInside(A, S1, t, {}, {})
      /\ IsInside(A, S2, t, end, {}) /\ IsInside(A, S3, A.temps, end, {})
      /\ IsInside(A, S4, t, else, {}) /\ IsInside(A, S5, t, both, {})
  <2> HIDE DEF end, else, both, t
  <2>1. QED
    BY <1>1, <1>2, InsideState
<1> HIDE DEF S0, S1, S2, S3, S4, S5
<1>4. Proper(S0) /\ Proper(S3)
  BY <1>1, <1>3, InsideProper
<1> USE DEF SameOuter, SameScopes, SamePlaces, SameAround
<1>5. Effect(Expression, S0, S1)
  BY <1>1, <1>3, <1>4 DEF Effect, Calls, ExpressionEffect, IsInside, Expression
<1>6. Effect(Emit("POP"), S2, S3)
  BY <1>1, <1>3 DEF Effect, Calls, EmitByteEffect, ByteOps, Taken, Given, IsInside, Emit
<1>7. Effect(Expression, S3, S2)
  BY <1>1, <1>3, <1>4 DEF Effect, Calls, ExpressionEffect, IsInside, Expression
<1>8. Effect(Patch("end_jump"), S2, S1)
  BY <1>1, <1>3 DEF Effect, Calls, PatchJumpEffect, IsInside, Patch
<1>9. Effect(Jump("JUMP_IF_FALSE", "end_jump"), S1, S2)
  BY <1>1, <1>3 DEF Effect, Calls, EmitJumpEffect, IsInside, Addresses, Jump
<1>10. Effect(Jump("JUMP_IF_FALSE", "else_jump"), S1, S4)
  BY <1>1, <1>3 DEF Effect, Calls, EmitJumpEffect, IsInside, Addresses, Jump
<1>11. Effect(Jump("JUMP", "end_jump"), S4, S5)
  BY <1>1, <1>3 DEF Effect, Calls, EmitJumpEffect, IsInside, Addresses, Jump
<1>12. Effect(Patch("else_jump"), S5, S2)
  BY <1>1, <1>3 DEF Effect, Calls, PatchJumpEffect, IsInside, Patch
<1> DEFINE and == <<Expression, Jump("JUMP_IF_FALSE", "end_jump"), Emit("POP"), Expression,
                    Patch("end_jump")>>
           or == <<Expression, Jump("JUMP_IF_FALSE", "else_jump"), Jump("JUMP", "end_jump"),
                   Patch("else_jump"), Emit("POP"), Expression, Patch("end_jump")>>
<1>13. Leads(and, S0, S1)
  <2>1. Leads(<<Expression, Jump("JUMP_IF_FALSE", "end_jump")>>, S0, S2)
    BY <1>5, <1>9, LeadsTwo
  <2>2. Leads(<<Emit("POP"), Expression, Patch("end_jump")>>, S2, S1)
    BY <1>6, <1>7, <1>8, LeadsThree
  <2>3. QED
    BY <2>1, <2>2, LeadsFive
<1>14. Leads(or, S0, S1)
  <2>1. Leads(<<Expression, Jump("JUMP_IF_FALSE", "else_jump"), Jump("JUMP", "end_jump"),
                Patch("else_jump")>>, S0, S2)
    BY <1>5, <1>10, <1>11, <1>12, LeadsFour
  <2>2. Leads(<<Emit("POP"), Expression, Patch("end_jump")>>, S2, S1)
    BY <1>6, <1>7, <1>8, LeadsThree
  <2>3. QED
    BY <2>1, <2>2, LeadsSeven
<1>15. Conjunction = WithAddresses(and) /\ Disjunction = WithAddresses(or)
  BY DEF Conjunction, Disjunction
<1> HIDE DEF and, or
<1>16. ASSUME NEW c, Leads(c, S0, S1) PROVE Leads(WithAddresses(c), A, B)
  <2>1. Leads(c, Inside(A, A.temps, {}, {}), S1)
    BY <1>16 DEF S0
  <2>2. /\ S1 \in State /\ SameOuter(A, S1) /\ SameScopes(A, S1) /\ S1.cont = A.cont
        /\ S1.temps = B.temps /\ S1.stage = A.stage /\ S1.knows = A.knows /\ S1.pend = {}
        /\ S1.level = Top(A) /\ S1.below = Append(A.below, FrameOf(A))
    BY <1>1, <1>3 DEF IsInside
  <2> HIDE DEF SameOuter, SameScopes, SamePlaces, SameAround
  <2>3. QED
    BY <1>1, <2>1, <2>2, EnterLeave
<1>17. QED
  BY <1>13, <1>14, <1>15, <1>16

LEMMA AnonymousFunctionCalls ==
  ASSUME NEW A \in State, NEW B \in State, A.alive, ExpressionEffect(A, B)
  PROVE  Leads(Function("ANONYMOUS"), A, B)
<1>1. /\ A.stage \in {"none", "declared", "named"} /\ Proper(A) /\ "ANONYMOUS" \in Kinds
      /\ B.temps = A.temps + 1 /\ B.stage = A.stage /\ B.knows = A.knows /\ SameAround(A, B)
  BY ExpressionState DEF Kinds
<1>2. QED
  BY <1>1, FunctionCalls

\* A name is resolved before the value that is assigned to it is compiled:
\* "bound" is what is known of it until then.
Aware(A, bound) == Plain(A, A.temps, A.stage, A.depth, A.knows \cup bound)

LEMMA AwareState ==
  ASSUME NEW A \in State, NEW bound \in SUBSET Binding
  PROVE  IsPlain(A, Aware(A, bound), A.temps, A.stage, A.depth, A.knows \cup bound)
<1>1. /\ A.temps \in Nat /\ A.stage \in Stages /\ A.depth \in Nat
      /\ A.knows \cup bound \in SUBSET Binding
  BY DEF State
<1>2. QED
  BY <1>1, PlainState DEF Aware

\* What has to be known of a resolved name
Bound(op, index, decl) ==
  IF op \in {"GET_GLOBAL", "SET_GLOBAL"} THEN {} ELSE {Knowing(op, index, decl)}

Resolution(op, index, decl) ==
  IF op \in {"GET_GLOBAL", "SET_GLOBAL"} THEN decl = Global /\ index = 0
  ELSE index \in Nat /\ decl \in Decl

LEMMA AccessCalls ==
  ASSUME NEW A \in State, NEW B \in State, A.alive, ExpressionEffect(A, B),
         NEW op \in {"GET_LOCAL", "GET_UPVALUE", "GET_GLOBAL"},
         NEW index, NEW decl, Resolution(op, index, decl)
  PROVE  /\ Bound(op, index, decl) \in SUBSET Binding
         /\ Leads(<<Access(op, index, decl)>>, Aware(A, Bound(op, index, decl)), B)
<1> DEFINE bound == Bound(op, index, decl)
           S == Aware(A, bound)
<1>1. bound \in SUBSET Binding
  BY DEF Bound, Binding, Knowing, Resolution
<1>2. IsPlain(A, S, A.temps, A.stage, A.depth, A.knows \cup bound)
  <2> HIDE DEF bound
  <2>1. QED
    BY <1>1, AwareState
<1>3. \/ op = "GET_GLOBAL" /\ decl = Global /\ index = 0
      \/ op \in {"GET_LOCAL", "GET_UPVALUE"} /\ Knowing(op, index, decl) \in A.knows \cup bound
  BY DEF Bound, Resolution
<1> HIDE DEF bound, S
<1>4. EmitAccessEffect(op, index, decl, S, B)
  BY <1>2, <1>3 DEF EmitAccessEffect, ExpressionEffect, IsPlain, SameAround, SameOuter, SameScopes,
                    SamePlaces
<1>5. Effect(Access(op, index, decl), S, B)
  BY <1>2, <1>4 DEF Effect, Calls, Access, IsPlain, SameOuter
<1>6. QED
  BY <1>1, <1>5, LeadsOne DEF bound, S

LEMMA AssignmentCalls ==
  ASSUME NEW A \in State, NEW B \in State, A.alive, ExpressionEffect(A, B),
         NEW op \in {"SET_LOCAL", "SET_UPVALUE", "SET_GLOBAL"},
         NEW index, NEW decl, Resolution(op, index, decl)
  PROVE  /\ Bound(op, index, decl) \in SUBSET Binding
         /\ Leads(<<Expression, Access(op, index, decl)>>, Aware(A, Bound(op, index, decl)), B)
<1> DEFINE bound == Bound(op, index, decl)
           S == Aware(A, bound)
           T == More(S, 1)
<1>1. bound \in SUBSET Binding
  BY DEF Bound, Binding, Knowing, Resolution
<1>2. IsPlain(A, S, A.temps, A.stage, A.depth, A.knows \cup bound) /\ A.depth <= A.depth
  <2> HIDE DEF bound
  <2>1. A.depth <= A.depth
    BY DEF State
  <2>2. IsPlain(A, S, A.temps, A.stage, A.depth, A.knows \cup bound)
    BY <1>1, AwareState
  <2>3. QED
    BY <2>1, <2>2
<1>3. \/ op = "SET_GLOBAL" /\ decl = Global /\ index = 0
      \/ op \in {"SET_LOCAL", "SET_UPVALUE"} /\ Knowing(op, index, decl) \in A.knows \cup bound
  BY DEF Bound, Resolution
<1>4. /\ A.stage \in {"none", "declared"} /\ Proper(A) /\ A.temps \in Nat /\ A.depth \in Nat
      /\ B.temps = A.temps + 1 /\ B.stage = A.stage /\ B.knows = A.knows /\ SameAround(A, B)
  BY ExpressionState
<1> HIDE DEF bound, S
<1>5. S \in State /\ S.alive /\ Proper(S) /\ S.stage = A.stage
  BY <1>2, <1>4, PlainProper DEF IsPlain, SameOuter
<1>6. Effect(Expression, S, T)
  <2>1. Effect(Expression, More(S, 0), More(S, 0 + 1))
    BY <1>4, <1>5, NextExpression
  <2>2. QED
    BY <2>1 DEF More
<1>7. IsMore(S, T, 1)
  BY <1>5, MoreState
<1> HIDE DEF T
<1>8. EmitAccessEffect(op, index, decl, T, B)
  <2>1. T.temps > 0 /\ B.temps = T.temps
    BY <1>2, <1>4, <1>7 DEF IsMore, IsPlain
  <2>2. QED
    BY <1>2, <1>3, <1>4, <1>7, <2>1
       DEF EmitAccessEffect, IsMore, IsPlain, SameAround, SameOuter, SameScopes, SamePlaces
<1>9. Effect(Access(op, index, decl), T, B)
  BY <1>5, <1>7, <1>8 DEF Effect, Calls, Access, IsMore, SameAround, SameOuter
<1>10. QED
  BY <1>1, <1>6, <1>9, LeadsTwo DEF bound, S

-----------------------------------------------------------------------------
(* Sequences *)

LEMMA ElementType ==
  ASSUME NEW S, NEW s \in Seq(S)
  PROVE  \A k \in 1..Len(s) : s[k] \in S
OBVIOUS

LEMMA AppendFacts ==
  ASSUME NEW S, NEW s \in Seq(S), NEW x \in S
  PROVE  /\ Append(s, x) \in Seq(S) /\ Len(Append(s, x)) = Len(s) + 1 /\ Len(s) \in Nat
         /\ Append(s, x)[Len(s) + 1] = x /\ \A i \in 1..Len(s) : Append(s, x)[i] = s[i]
OBVIOUS

LEMMA PrefixFacts ==
  ASSUME NEW S, NEW s \in Seq(S), NEW n \in Nat, n <= Len(s)
  PROVE  /\ SubSeq(s, 1, n) \in Seq(S) /\ Len(SubSeq(s, 1, n)) = n
         /\ \A i \in 1..n : SubSeq(s, 1, n)[i] = s[i]
OBVIOUS

LEMMA FrontFacts ==
  ASSUME NEW S, NEW s \in Seq(S), s # <<>>
  PROVE  /\ Front(s) \in Seq(S) /\ Len(s) \in Nat \ {0} /\ Len(Front(s)) = Len(s) - 1
         /\ \A i \in 1..Len(s) - 1 : Front(s)[i] = s[i]
         /\ Last(s) = s[Len(s)] /\ Last(s) \in S
<1>1. Len(s) \in Nat \ {0}
  OBVIOUS
<1>2. Len(s) - 1 \in Nat /\ Len(s) - 1 <= Len(s)
  BY <1>1
<1>3. Last(s) = s[Len(s)] /\ Last(s) \in S
  BY <1>1 DEF Last
<1>4. QED
  BY <1>1, <1>2, <1>3, PrefixFacts DEF Front

LEMMA NotEmpty ==
  ASSUME NEW S, NEW s \in Seq(S)
  PROVE  Len(s) \in Nat /\ (s # <<>> <=> Len(s) > 0) /\ (s # <<>> <=> Len(s) # 0)
OBVIOUS

-----------------------------------------------------------------------------
(* What compilers look like *)

AllOps == {"CONSTANT", "UNARY", "BINARY", "COROUTINE", "POP", "RETURN", "YIELD", "AWAIT",
           "CALL", "LIST", "DICT", "GET_FIELD", "SET_FIELD", "JUMP", "JUMP_IF_FALSE", "LOOP",
           "CLOSURE", "CLOSE_UPVALUE", "GET_LOCAL", "SET_LOCAL", "GET_UPVALUE", "SET_UPVALUE",
           "GET_GLOBAL", "SET_GLOBAL"}

\* Where each variable in scope was pushed
Scopes == Seq(Int \X Int)

UpvalueRecord == [is_local : BOOLEAN, index : Nat]

LocalRecord ==
  [name : Names \cup {""}, depth : Int, is_captured : BOOLEAN, from : Int, to : Int]

EnvRecord == [name : Names, decl : Decl]

AnyInstr ==
  [op : AllOps, arg : Int \cup Seq(UpvalueRecord), clean : BOOLEAN, meant : Decl, found : Decl,
   scope : Scopes]

\* The instructions that NamesResolve allows
InstrRecord == {instr \in AnyInstr : instr.meant # Stray => instr.found = instr.meant}

CompilerRecord ==
  [id : Nat, type : Kinds, arity : Nat, scope_depth : Nat, locals : Seq(LocalRecord),
   upvalues : Seq(UpvalueRecord), code : Seq(InstrRecord), env : Seq(EnvRecord),
   braces : Seq(Nat), starts : SUBSET (Nat \X Scopes), amid : BOOLEAN, corrupt : BOOLEAN]

FunctionRecord ==
  [code : Seq(InstrRecord), starts : SUBSET (Nat \X Scopes), arity : Nat, amid : BOOLEAN,
   corrupt : BOOLEAN]

PlaceRecord == [addr : Nat, id : Nat, locals : Int]

BreakRecord == [depth : Nat, addr : Nat, id : Nat]

Typed ==
  /\ compilers \in Seq(CompilerRecord) /\ functions \in Seq(FunctionRecord)
  /\ saved \in Seq([Addresses -> PlaceRecord]) /\ breaks \in Seq(BreakRecord)
  /\ continueJump \in PlaceRecord /\ fuel \in Nat

\* A declaration is the local after it, and the depths of the locals are those
\* of the braces they are in.
InEnv(id, locals, env, depth, j) ==
  /\ locals[j + 1].name = env[j].name
  /\ env[j].decl = <<id, locals[j + 1].from>>
  /\ locals[j + 1].depth \in 0..depth

BraceAt(locals, env, brace, b) ==
  brace <= Len(env) /\ \A j \in 1..Len(env) : j > brace <=> locals[j + 1].depth >= b

\* The locals are the reserved slot, the declarations and, while a variable is
\* being declared or end_scope drops them, more.
LocalsAt(locals, env, depth, stage) ==
  IF stage = "declared"
  THEN /\ Len(locals) = Len(env) + 2
       /\ locals[Len(env) + 2].depth = Uninitialized /\ locals[Len(env) + 2].name \in Names
  ELSE IF stage = "dropping"
  THEN /\ Len(locals) >= Len(env) + 1
       /\ \A i \in Len(env) + 2..Len(locals) : locals[i].depth > depth
  ELSE Len(locals) = Len(env) + 1

KnowsLocals(id, locals, env, knows) ==
  \A index \in Nat, decl \in Decl :
    <<"LOCAL", <<index, decl>>>> \in knows =>
      index \in 1..Len(env) + 1 /\ decl = <<id, locals[index].from>>

ScopedAs(id, locals, env, braces, depth, stage, knows) ==
  /\ Len(braces) = depth
  /\ locals[1].name = "" /\ locals[1].depth = 0
  /\ \A j \in 1..Len(env) : InEnv(id, locals, env, depth, j)
  /\ \A b \in 1..depth : BraceAt(locals, env, braces[b], b)
  /\ LocalsAt(locals, env, depth, stage)
  /\ KnowsLocals(id, locals, env, knows)

Scoped(c, depth, stage, knows) ==
  c.scope_depth = depth /\ ScopedAs(c.id, c.locals, c.env, c.braces, depth, stage, knows)

\* A function that waits for another one to be compiled
Waiting == {"none", "declared", "named"}

Levels(A) ==
  /\ Len(compilers) = Top(A)
  /\ \A k \in 1..Len(A.outer) :
       /\ A.outer[k].stage \in Waiting
       /\ Scoped(compilers[k], A.outer[k].depth, A.outer[k].stage, A.outer[k].knows)
  /\ Scoped(compilers[Top(A)], A.depth, A.stage, A.knows)

\* d[k][i] is the declaration that upvalue i of compiler k reaches.
Reaches(k, i, d) ==
  LET upvalue == compilers[k].upvalues[i]
      outer   == compilers[k - 1]
  IN  /\ k > 1
      /\ IF upvalue.is_local
         THEN /\ upvalue.index \in 1..Len(outer.env) + 1
              /\ d[k][i] = <<outer.id, outer.locals[upvalue.index].from>>
         ELSE /\ upvalue.index \in 1..Len(d[k - 1])
              /\ d[k][i] = d[k - 1][upvalue.index]

Reaching(d) ==
  /\ d \in [1..Len(compilers) -> Seq(Decl)]
  /\ \A k \in 1..Len(compilers) :
       /\ Len(d[k]) = Len(compilers[k].upvalues)
       /\ \A i \in 1..Len(compilers[k].upvalues) : Reaches(k, i, d)

KnowsUpvalues(d, k, knows) ==
  \A index \in Nat, decl \in Decl :
    <<"UPVALUE", <<index, decl>>>> \in knows => index \in 1..Len(d[k]) /\ d[k][index] = decl

Upvalues(A, d) ==
  /\ Reaching(d)
  /\ \A k \in 1..Len(A.outer) : KnowsUpvalues(d, k, A.outer[k].knows)
  /\ KnowsUpvalues(d, Top(A), A.knows)

Frames(A) ==
  /\ Len(saved) = Len(A.below)
  /\ IF A.below = <<>> THEN A.level = 0 ELSE A.below[1].level = 0

Matches(A) ==
  /\ Typed /\ Frames(A)
  /\ IF A.alive THEN Levels(A) /\ \E d : Upvalues(A, d) ELSE compilers = <<>>

-----------------------------------------------------------------------------
(* Calls that change the current compiler *)

LEMMA CurrentType ==
  ASSUME Typed, NEW A \in State, Levels(A)
  PROVE  /\ Len(compilers) = Top(A) /\ Len(compilers) \in Nat \ {0} /\ Len(A.outer) \in Nat
         /\ Len(A.outer) = Len(compilers) - 1
         /\ Current \in CompilerRecord /\ Current = compilers[Top(A)]
         /\ Scoped(Current, A.depth, A.stage, A.knows)
<1>1. A.outer \in Seq(Level)
  BY DEF State
<1>2. QED
  BY <1>1 DEF Typed, Levels, Top, Current

LEMMA UpdateType ==
  ASSUME Typed, NEW A \in State, Levels(A), NEW c \in CompilerRecord, Update(c)
  PROVE  /\ compilers' \in Seq(CompilerRecord) /\ Len(compilers') = Len(compilers)
         /\ Current' = c /\ \A k \in 1..Len(A.outer) : compilers'[k] = compilers[k]
         /\ compilers'[Top(A)] = c
<1>1. /\ compilers \in Seq(CompilerRecord) /\ Len(compilers) = Len(A.outer) + 1
      /\ Len(A.outer) \in Nat
  BY CurrentType DEF Typed
<1>2. compilers' = [compilers EXCEPT ![Len(compilers)] = c]
  BY DEF Update
<1>3. /\ compilers' \in Seq(CompilerRecord) /\ Len(compilers') = Len(compilers)
      /\ compilers'[Len(compilers)] = c
      /\ \A k \in 1..Len(A.outer) : compilers'[k] = compilers[k]
  BY <1>1, <1>2
<1>4. QED
  BY <1>1, <1>3 DEF Current, Top

LEMMA UpdateLevels ==
  ASSUME Typed, NEW A \in State, NEW B \in State, SameOuter(A, B), Levels(A),
         NEW c \in CompilerRecord, Update(c), Scoped(c, B.depth, B.stage, B.knows)
  PROVE  Levels(B)'
<1>1. /\ Len(compilers') = Top(B) /\ compilers'[Top(B)] = c /\ B.outer = A.outer
      /\ \A k \in 1..Len(A.outer) : compilers'[k] = compilers[k]
  BY UpdateType, CurrentType DEF SameOuter, Top
<1>2. QED
  BY <1>1 DEF Levels

LEMMA UpdateUpvalues ==
  ASSUME Typed, NEW A \in State, NEW B \in State, SameOuter(A, B), Levels(A),
         NEW c \in CompilerRecord, Update(c), c.upvalues = Current.upvalues,
         B.knows \subseteq A.knows, NEW d, Upvalues(A, d)
  PROVE  Upvalues(B, d)'
<1> DEFINE n == Len(compilers)
<1>1. /\ Len(compilers') = n /\ compilers'[n] = c /\ n = Top(A) /\ n \in Nat \ {0}
      /\ c.upvalues = compilers[n].upvalues
      /\ \A k \in 1..n - 1 : compilers'[k] = compilers[k]
  BY UpdateType, CurrentType
<1>2. \A k \in 1..n : compilers'[k].upvalues = compilers[k].upvalues
  BY <1>1
<1>3. ASSUME NEW k \in 1..n, NEW i \in 1..Len(compilers[k].upvalues), Reaches(k, i, d)
      PROVE  Reaches(k, i, d)'
  <2>1. k - 1 \in 1..n - 1
    BY <1>1, <1>3 DEF Reaches
  <2>2. compilers'[k].upvalues = compilers[k].upvalues /\ compilers'[k - 1] = compilers[k - 1]
    BY <1>1, <1>2, <2>1
  <2>3. QED
    BY <1>3, <2>2 DEF Reaches
<1>4. Reaching(d)'
  BY <1>1, <1>2, <1>3 DEF Upvalues, Reaching
<1>5. QED
  BY <1>4 DEF Upvalues, SameOuter, Top, KnowsUpvalues

\* The call changes the current compiler, and no more than that.
LEMMA UpdateMatches ==
  ASSUME NEW A \in State, NEW B \in State, A.alive, SameOuter(A, B), Matches(A),
         NEW c \in CompilerRecord, Update(c), c.upvalues = Current.upvalues,
         Scoped(c, B.depth, B.stage, B.knows), B.knows \subseteq A.knows,
         functions' = functions, saved' \in Seq([Addresses -> PlaceRecord]),
         breaks' \in Seq(BreakRecord), continueJump' \in PlaceRecord, fuel' \in Nat, Frames(B)'
  PROVE  Matches(B)'
<1>1. Typed /\ Levels(A) /\ \E d : Upvalues(A, d)
  BY DEF Matches
<1>2. Typed'
  BY <1>1, UpdateType DEF Typed
<1>3. Levels(B)'
  BY <1>1, UpdateLevels
<1>4. \E d : Upvalues(B, d)'
  BY <1>1, UpdateUpvalues
<1>5. QED
  BY <1>2, <1>3, <1>4 DEF Matches, SameOuter

-----------------------------------------------------------------------------
(* Instructions written and patched *)

LEMMA ScopedTypes ==
  ASSUME NEW c \in CompilerRecord, NEW depth, NEW stage, NEW knows,
         Scoped(c, depth, stage, knows)
  PROVE  /\ c.locals \in Seq(LocalRecord) /\ c.env \in Seq(EnvRecord) /\ c.braces \in Seq(Nat)
         /\ Len(c.env) \in Nat /\ Len(c.locals) \in Nat /\ Len(c.locals) >= Len(c.env) + 1
         /\ c.scope_depth \in Nat /\ c.scope_depth = depth
         /\ LastLocal(c) = c.locals[Len(c.locals)] /\ LastLocal(c) \in LocalRecord
<1>1. c.locals \in Seq(LocalRecord) /\ c.env \in Seq(EnvRecord) /\ c.braces \in Seq(Nat)
      /\ c.scope_depth \in Nat
  BY DEF CompilerRecord
<1>2. Len(c.locals) >= Len(c.env) + 1
  <2>1. Len(c.env) \in Nat /\ Len(c.locals) \in Nat
    BY <1>1
  <2>2. LocalsAt(c.locals, c.env, depth, stage)
    BY Zenon DEF Scoped, ScopedAs
  <2>3. QED
    BY <2>1, <2>2 DEF LocalsAt
<1>3. LastLocal(c) = c.locals[Len(c.locals)] /\ LastLocal(c) \in LocalRecord
  BY <1>1, <1>2 DEF LastLocal
<1>4. c.scope_depth = depth
  BY DEF Scoped
<1>5. QED
  BY <1>1, <1>2, <1>3, <1>4

LEMMA ScopeOfType ==
  ASSUME NEW c \in CompilerRecord, c.locals # <<>>
  PROVE  ScopeOf(c) \in Scopes
<1> DEFINE n == IF LastLocal(c).to = 0 THEN Len(c.locals) - 1 ELSE Len(c.locals)
<1>1. c.locals \in Seq(LocalRecord)
  BY DEF CompilerRecord
<1>2. n \in Nat /\ n <= Len(c.locals)
  BY <1>1
<1> HIDE DEF n
<1>3. \A i \in 1..n : c.locals[i].from \in Int /\ c.locals[i].to \in Int
  <2>1. \A i \in 1..n : c.locals[i] \in LocalRecord
    BY <1>1, <1>2
  <2>2. QED
    BY <2>1 DEF LocalRecord
<1>4. [i \in 1..n |-> <<c.locals[i].from, c.locals[i].to>>] \in Seq(Int \X Int)
  BY <1>2, <1>3
<1>5. QED
  BY <1>4 DEF ScopeOf, Scopes, n

LEMMA InstructionType ==
  ASSUME NEW c \in CompilerRecord, c.locals # <<>>,
         NEW op \in AllOps, NEW arg \in Int \cup Seq(UpvalueRecord)
  PROVE  /\ Instruction(c, op, arg) \in AnyInstr
         /\ Instruction(c, op, arg).meant = Nothing /\ Instruction(c, op, arg).found = Nothing
         /\ Instruction(c, op, arg) \in InstrRecord
<1>1. ScopeOf(c) \in Scopes /\ Nothing \in Decl
  BY ScopeOfType DEF Nothing, Decl
<1>2. QED
  BY <1>1 DEF Instruction, AnyInstr, InstrRecord

SameLocals(c, e) ==
  /\ e.id = c.id /\ e.locals = c.locals /\ e.env = c.env /\ e.braces = c.braces
  /\ e.scope_depth = c.scope_depth /\ e.upvalues = c.upvalues

LEMMA SameScoped ==
  ASSUME NEW c, NEW e, SameLocals(c, e), NEW depth, NEW stage, NEW knows, NEW fewer,
         Scoped(c, depth, stage, knows), fewer \subseteq knows
  PROVE  Scoped(e, depth, stage, fewer)
<1>1. KnowsLocals(c.id, c.locals, c.env, fewer)
  BY DEF KnowsLocals, Scoped, ScopedAs
<1>2. ScopedAs(c.id, c.locals, c.env, c.braces, depth, stage, fewer)
  BY <1>1 DEF Scoped, ScopedAs
<1>3. QED
  BY <1>2 DEF Scoped, SameLocals

LEMMA WrittenType ==
  ASSUME NEW c \in CompilerRecord, NEW instr \in InstrRecord
  PROVE  /\ Written(c, instr) \in CompilerRecord /\ SameLocals(c, Written(c, instr))
         /\ Written(c, instr).code = Append(c.code, instr)
<1>1. c.code \in Seq(InstrRecord) /\ Append(c.code, instr) \in Seq(InstrRecord)
  BY DEF CompilerRecord
<1> DEFINE code == Append(c.code, instr)
<1>2. Written(c, instr) = [c EXCEPT !.code = code]
  BY DEF Written
<1> HIDE DEF code
<1>3. QED
  BY <1>1, <1>2 DEF CompilerRecord, SameLocals, code

LEMMA StartedType ==
  ASSUME NEW c \in CompilerRecord, c.locals # <<>>
  PROVE  /\ Started(c) \in CompilerRecord /\ SameLocals(c, Started(c))
         /\ Started(c).code = c.code
         /\ Started(c).starts = c.starts \cup {<<Here(c), ScopeOf(c)>>}
<1> DEFINE starts == c.starts \cup {<<Here(c), ScopeOf(c)>>}
<1>1. c.code \in Seq(InstrRecord) /\ c.starts \in SUBSET (Nat \X Scopes)
  BY DEF CompilerRecord
<1>2. Here(c) \in Nat /\ ScopeOf(c) \in Scopes
  BY <1>1, ScopeOfType DEF Here
<1>3. starts \in SUBSET (Nat \X Scopes) /\ Started(c) = [c EXCEPT !.starts = starts]
  BY <1>1, <1>2 DEF Started
<1> HIDE DEF starts
<1>4. QED
  BY <1>3 DEF CompilerRecord, SameLocals, starts

LEMMA ReplacedElement ==
  ASSUME NEW S, NEW s \in Seq(S), NEW i \in Nat, NEW v, i \in 1..Len(s) => v \in S
  PROVE  LET t == [s EXCEPT ![i] = v]
         IN  /\ t \in Seq(S) /\ Len(t) = Len(s)
             /\ \A j \in 1..Len(s) : t[j] = IF j = i THEN v ELSE s[j]
<1> DEFINE t == [s EXCEPT ![i] = v]
<1>1. DOMAIN t = 1..Len(s) /\ Len(s) \in Nat
  OBVIOUS
<1>2. \A j \in 1..Len(s) : t[j] = IF j = i THEN v ELSE s[j]
  OBVIOUS
<1>3. t = [j \in 1..Len(s) |-> IF j = i THEN v ELSE s[j]]
  OBVIOUS
<1>4. \A j \in 1..Len(s) : t[j] \in S
  BY <1>2
<1> HIDE DEF t
<1>5. t \in Seq(S) /\ Len(t) = Len(s)
  <2>1. t = [j \in 1..Len(s) |-> t[j]]
    BY <1>2, <1>3
  <2>2. QED
    BY <1>1, <1>4, <2>1
<1>6. QED
  BY <1>2, <1>5 DEF t

\* What patching leaves of an instruction
Repatched(old, new, target, clean) ==
  /\ new.op = old.op /\ new.arg = target /\ new.clean = clean
  /\ new.meant = old.meant /\ new.found = old.found /\ new.scope = old.scope

LEMMA PatchedType ==
  ASSUME NEW c \in CompilerRecord, NEW addr \in Nat, NEW target \in Nat, NEW clean \in BOOLEAN
  PROVE  /\ Patched(c, addr, target, clean) \in CompilerRecord
         /\ SameLocals(c, Patched(c, addr, target, clean))
         /\ Len(Patched(c, addr, target, clean).code) = Len(c.code)
         /\ \A i \in 1..Len(c.code) :
              IF i = addr THEN Repatched(c.code[i], Patched(c, addr, target, clean).code[i], target, clean)
              ELSE Patched(c, addr, target, clean).code[i] = c.code[i]
<1> DEFINE code == [c.code EXCEPT ![addr] = [@ EXCEPT !.arg = target, !.clean = clean]]
<1>1. c.code \in Seq(InstrRecord)
  BY DEF CompilerRecord
<1>2. ASSUME NEW instr \in InstrRecord
      PROVE  /\ [instr EXCEPT !.arg = target, !.clean = clean] \in InstrRecord
             /\ Repatched(instr, [instr EXCEPT !.arg = target, !.clean = clean], target, clean)
  <2> DEFINE changed == [instr EXCEPT !.arg = target, !.clean = clean]
  <2>1. instr \in AnyInstr
    BY DEF InstrRecord
  <2> DEFINE args == Int \cup Seq(UpvalueRecord)
  <2>2. target \in args
    OBVIOUS
  <2> HIDE DEF args
  <2>3. AnyInstr = [op : AllOps, arg : args, clean : BOOLEAN, meant : Decl, found : Decl, scope : Scopes]
    BY DEF AnyInstr, args
  <2>4. changed \in AnyInstr
    BY <2>1, <2>2, <2>3
  <2>5. /\ changed.meant = instr.meant /\ changed.found = instr.found
        /\ changed.op = instr.op /\ changed.arg = target /\ changed.clean = clean
        /\ changed.scope = instr.scope
    BY <2>1, <2>3
  <2> HIDE DEF changed
  <2>6. changed \in InstrRecord
    BY <2>4, <2>5 DEF InstrRecord
  <2>7. Repatched(instr, changed, target, clean)
    BY <2>5 DEF Repatched
  <2>8. QED
    BY <2>6, <2>7 DEF changed
<1>3. /\ code \in Seq(InstrRecord) /\ Len(code) = Len(c.code)
      /\ \A i \in 1..Len(c.code) :
           IF i = addr THEN Repatched(c.code[i], code[i], target, clean) ELSE code[i] = c.code[i]
  <2> DEFINE old == c.code
             new(instr) == [instr EXCEPT !.arg = target, !.clean = clean]
  <2>1. /\ old \in Seq(InstrRecord)
        /\ \A instr \in InstrRecord :
             new(instr) \in InstrRecord /\ Repatched(instr, new(instr), target, clean)
    BY <1>1, <1>2
  <2> HIDE DEF old, new
  <2>2. addr \in 1..Len(old) => new(old[addr]) \in InstrRecord
    BY <2>1
  <2>3. LET t == [old EXCEPT ![addr] = new(old[addr])]
        IN  /\ t \in Seq(InstrRecord) /\ Len(t) = Len(old)
            /\ \A i \in 1..Len(old) : t[i] = IF i = addr THEN new(old[addr]) ELSE old[i]
    BY <2>1, <2>2, ReplacedElement
  <2>4. LET t == [old EXCEPT ![addr] = new(old[addr])]
        IN  /\ t \in Seq(InstrRecord) /\ Len(t) = Len(old)
            /\ \A i \in 1..Len(old) :
                 IF i = addr THEN Repatched(old[i], t[i], target, clean) ELSE t[i] = old[i]
    <3>1. \A i \in 1..Len(old) : old[i] \in InstrRecord
      BY <2>1, ElementType, Zenon
    <3>2. QED
      BY <2>1, <2>3, <3>1
  <2>5. QED
    BY <2>4, Zenon DEF old, new
<1>4. Patched(c, addr, target, clean) = [c EXCEPT !.code = code]
  <2>1. c.code = [c.code EXCEPT ![addr] = c.code[addr]]
    BY <1>1
  <2>2. QED
    BY <1>1 DEF Patched, CompilerRecord
<1> HIDE DEF code
<1>5. /\ Patched(c, addr, target, clean) \in CompilerRecord
      /\ SameLocals(c, Patched(c, addr, target, clean))
      /\ Patched(c, addr, target, clean).code = code
  BY <1>3, <1>4 DEF CompilerRecord, SameLocals
<1>6. QED
  BY <1>3, <1>5

-----------------------------------------------------------------------------
(* The calls that write and patch instructions *)

\* Nothing but the calls, the compilers and the places changes.
StaysTyped ==
  /\ functions' = functions /\ saved' \in Seq([Addresses -> PlaceRecord])
  /\ Len(saved') = Len(saved) /\ breaks' \in Seq(BreakRecord) /\ continueJump' \in PlaceRecord
  /\ fuel' \in Nat

SameFrames(A, B) == B.below = A.below /\ B.level = A.level

\* The call leaves the variables of the function as they are.
Keeping(A, B) ==
  /\ SameOuter(A, B) /\ SameFrames(A, B)
  /\ B.depth = A.depth /\ B.stage = A.stage /\ B.knows \subseteq A.knows

LEMMA FramesKept ==
  ASSUME NEW A, NEW B, Frames(A), SameFrames(A, B), Len(saved') = Len(saved)
  PROVE  Frames(B)'
BY DEF Frames, SameFrames

LEMMA KeepingMatches ==
  ASSUME NEW A \in State, NEW B \in State, A.alive, Matches(A), Keeping(A, B), StaysTyped,
         NEW c \in CompilerRecord, SameLocals(Current, c), Update(c)
  PROVE  Matches(B)'
<1>1. Typed /\ Levels(A) /\ Frames(A)
  BY DEF Matches
<1>2. Scoped(Current, A.depth, A.stage, A.knows)
  BY <1>1, CurrentType
<1>3. Scoped(c, B.depth, B.stage, B.knows)
  BY <1>2, SameScoped DEF Keeping
<1>4. Frames(B)'
  BY <1>1, FramesKept DEF Keeping, StaysTyped
<1>5. c.upvalues = Current.upvalues /\ SameOuter(A, B) /\ B.knows \subseteq A.knows
  BY DEF SameLocals, Keeping
<1>6. QED
  BY <1>3, <1>4, <1>5, UpdateMatches DEF StaysTyped

LEMMA UnchangedMatches ==
  ASSUME NEW A \in State, NEW B \in State, A.alive, Matches(A), Keeping(A, B), StaysTyped,
         UNCHANGED compilers
  PROVE  Matches(B)'
<1>1. Typed /\ Levels(A)
  BY DEF Matches
<1>2. Current \in CompilerRecord /\ compilers \in Seq(CompilerRecord) /\ Len(compilers) \in Nat \ {0}
  BY <1>1, CurrentType DEF Typed
<1>3. Update(Current)
  BY <1>2 DEF Update, Current
<1>4. SameLocals(Current, Current)
  BY DEF SameLocals
<1>5. QED
  BY <1>2, <1>3, <1>4, KeepingMatches

LEMMA WritingMatches ==
  ASSUME NEW A \in State, NEW B \in State, A.alive, Matches(A), Keeping(A, B), StaysTyped,
         NEW instr \in InstrRecord, Update(Written(Current, instr))
  PROVE  Matches(B)'
<1>1. Current \in CompilerRecord
  BY CurrentType DEF Matches
<1>2. QED
  BY <1>1, WrittenType, KeepingMatches

LEMMA CurrentLocals ==
  ASSUME NEW A \in State, A.alive, Matches(A)
  PROVE  /\ Typed /\ Levels(A) /\ Frames(A) /\ Current \in CompilerRecord
         /\ Scoped(Current, A.depth, A.stage, A.knows)
         /\ Current.locals # <<>> /\ Current.locals \in Seq(LocalRecord)
         /\ Here(Current) \in Nat /\ Len(Current.locals) \in Nat /\ Current.id \in Nat
         /\ Current.scope_depth \in Nat
<1>1. Typed /\ Levels(A) /\ Frames(A)
  BY DEF Matches
<1>2. Current \in CompilerRecord /\ Scoped(Current, A.depth, A.stage, A.knows)
  BY <1>1, CurrentType
<1>3. /\ Current.locals \in Seq(LocalRecord) /\ Len(Current.locals) >= Len(Current.env) + 1
      /\ Len(Current.env) \in Nat /\ Len(Current.locals) \in Nat
  BY <1>2, ScopedTypes
<1>4. Current.code \in Seq(InstrRecord) /\ Current.id \in Nat /\ Current.scope_depth \in Nat
  BY <1>2 DEF CompilerRecord
<1>5. Here(Current) \in Nat
  BY <1>4 DEF Here
<1>6. Current.locals # <<>>
  BY <1>3
<1>7. QED
  BY <1>1, <1>2, <1>3, <1>4, <1>5, <1>6

LEMMA KeptType ==
  ASSUME NEW A \in State, Typed, Frames(A), A.level = Top(A), NEW name \in Addresses
  PROVE  Kept(name) \in PlaceRecord /\ Len(saved) \in Nat \ {0}
<1>1. A.outer \in Seq(Level) /\ A.below \in Seq(Frame)
  BY DEF State
<1>2. Len(A.below) \in Nat \ {0}
  BY <1>1 DEF Frames, Top
<1>3. Len(saved) \in Nat \ {0} /\ saved \in Seq([Addresses -> PlaceRecord])
  BY <1>2 DEF Typed, Frames
<1>4. saved[Len(saved)] \in [Addresses -> PlaceRecord]
  BY <1>3
<1>5. QED
  BY <1>3, <1>4 DEF Kept

LEMMA KeepType ==
  ASSUME Typed, NEW name \in Addresses, NEW place \in PlaceRecord, Keep(name, place)
  PROVE  saved' \in Seq([Addresses -> PlaceRecord]) /\ Len(saved') = Len(saved)
<1>1. saved \in Seq([Addresses -> PlaceRecord]) /\ Len(saved) \in Nat
  BY DEF Typed
<1> DEFINE n == Len(saved)  v == [saved[n] EXCEPT ![name] = place]
<1>2. n \in 1..n => v \in [Addresses -> PlaceRecord]
  BY <1>1
<1>3. saved' = [saved EXCEPT ![n] = v]
  BY DEF Keep
<1> HIDE DEF n, v
<1>4. QED
  BY <1>1, <1>2, <1>3, ReplacedElement DEF n

LEMMA PlaceType ==
  ASSUME NEW A \in State, A.alive, Matches(A)
  PROVE  Place(Current) \in PlaceRecord
BY CurrentLocals DEF Place, PlaceRecord

LEMMA EmitByteMatches ==
  ASSUME NEW A \in State, NEW B \in State, Matches(A), Effect(Head(agenda), A, B), EmitByte
  PROVE  Matches(B)'
<1> DEFINE op == Arg(1)  arg == Arg(2)
<1>1. A.alive /\ EmitByteEffect(op, arg, A, B)
  BY DEF EmitByte, Making, Doing, Effect, Arg
<1>2. op \in AllOps /\ arg \in Int \cup Seq(UpvalueRecord) /\ Keeping(A, B)
  BY <1>1 DEF EmitByteEffect, ByteOps, AllOps, Keeping, SameAround, SameScopes, SamePlaces, SameFrames
<1>3. Update(Written(Current, Instruction(Current, op, arg))) /\ StaysTyped
  BY <1>1, CurrentLocals DEF EmitByte, Making, OnlyCompilers, Emitted, StaysTyped, Typed
<1>4. Instruction(Current, op, arg) \in InstrRecord
  BY <1>1, <1>2, CurrentLocals, InstructionType
<1>5. QED
  BY <1>1, <1>2, <1>3, <1>4, WritingMatches

LEMMA EmitJumpMatches ==
  ASSUME NEW A \in State, NEW B \in State, Matches(A), Effect(Head(agenda), A, B), EmitJump
  PROVE  Matches(B)'
<1> DEFINE op == Arg(1)  name == Arg(2)
<1>1. A.alive /\ EmitJumpEffect(op, name, A, B)
  BY DEF EmitJump, Making, Doing, Effect, Arg
<1>2. op \in AllOps /\ name \in Addresses /\ A.level = Top(A) /\ Keeping(A, B)
  BY <1>1 DEF EmitJumpEffect, AllOps, Keeping, SameScopes, SameFrames
<1>3. /\ Typed /\ Frames(A) /\ Current \in CompilerRecord /\ Current.locals # <<>>
      /\ Unpatched \in Int \cup Seq(UpvalueRecord)
  BY <1>1, CurrentLocals DEF Unpatched
<1>4. /\ saved' \in Seq([Addresses -> PlaceRecord]) /\ Len(saved') = Len(saved)
  BY <1>1, <1>2, <1>3, PlaceType, KeepType DEF EmitJump
<1>5. StaysTyped /\ Update(Written(Current, Instruction(Current, op, Unpatched)))
  BY <1>3, <1>4 DEF EmitJump, Making, Emitted, StaysTyped, Typed
<1>6. Instruction(Current, op, Unpatched) \in InstrRecord
  BY <1>2, <1>3, InstructionType
<1>7. QED
  BY <1>1, <1>2, <1>5, <1>6, WritingMatches

LEMMA PatchJumpMatches ==
  ASSUME NEW A \in State, NEW B \in State, Matches(A), Effect(Head(agenda), A, B), PatchJump
  PROVE  Matches(B)'
<1> DEFINE name == Arg(1)  jump == Kept(name)  clean == jump.locals = Len(Current.locals)
<1>1. A.alive /\ PatchJumpEffect(name, A, B)
  BY DEF PatchJump, Making, Doing, Effect, Arg
<1>2. name \in Addresses /\ A.level = Top(A) /\ Keeping(A, B)
  <2>1. A.pend \in SUBSET (Addresses \X Nat) /\ <<name, A.temps>> \in A.pend
    BY <1>1 DEF State, PatchJumpEffect
  <2>2. name \in Addresses
    BY <2>1
  <2>3. QED
    BY <1>1, <2>2 DEF PatchJumpEffect, Keeping, SameScopes, SameFrames
<1>3. Typed /\ Frames(A) /\ Current \in CompilerRecord /\ Here(Current) \in Nat
  BY <1>1, CurrentLocals
<1>4. jump \in PlaceRecord
  BY <1>2, <1>3, KeptType
<1>5. jump.addr \in Nat /\ clean \in BOOLEAN /\ JumpTarget(Current) \in Nat
  BY <1>3, <1>4 DEF PlaceRecord, JumpTarget
<1>6. StaysTyped /\ Update(Patched(Current, jump.addr, JumpTarget(Current), clean))
  BY <1>3 DEF PatchJump, Making, OnlyCompilers, StaysTyped, Typed
<1> HIDE DEF clean, jump
<1>7. QED
  BY <1>1, <1>2, <1>3, <1>5, <1>6, PatchedType, KeepingMatches

LEMMA LoopStartMatches ==
  ASSUME NEW A \in State, NEW B \in State, Matches(A), Effect(Head(agenda), A, B), LoopStart
  PROVE  Matches(B)'
<1> DEFINE name == Arg(1)
<1>1. A.alive /\ LoopStartEffect(name, A, B)
  BY DEF LoopStart, Making, Doing, Effect, Arg
<1>2. name \in Addresses /\ Keeping(A, B)
  BY <1>1 DEF LoopStartEffect, Between, Keeping, SameScopes, SameFrames
<1>3. Typed
  BY DEF Matches
<1>4. saved' \in Seq([Addresses -> PlaceRecord]) /\ Len(saved') = Len(saved)
  BY <1>1, <1>2, <1>3, PlaceType, KeepType DEF LoopStart
<1>5. StaysTyped /\ UNCHANGED compilers
  BY <1>3, <1>4 DEF LoopStart, Making, StaysTyped, Typed
<1>6. QED
  BY <1>1, <1>2, <1>5, UnchangedMatches

LEMMA LoopToType ==
  ASSUME NEW c \in CompilerRecord, c.locals # <<>>, NEW to, to.addr \in Nat
  PROVE  LoopTo(c, to) \in InstrRecord /\ LoopTo(c, to).meant = Nothing
<1> DEFINE instr == Instruction(c, "LOOP", to.addr)  clean == to.locals = Len(c.locals)
<1>1. "LOOP" \in AllOps /\ to.addr \in Int \cup Seq(UpvalueRecord) /\ clean \in BOOLEAN
  BY DEF AllOps
<1>2. /\ instr \in AnyInstr /\ instr.meant = Nothing /\ instr.found = Nothing
  BY <1>1, InstructionType
<1>3. LoopTo(c, to) = [instr EXCEPT !.clean = clean]
  BY DEF LoopTo
<1> HIDE DEF instr, clean
<1>4. /\ LoopTo(c, to) \in AnyInstr /\ LoopTo(c, to).meant = Nothing
      /\ LoopTo(c, to).found = Nothing
  BY <1>1, <1>2, <1>3 DEF AnyInstr
<1>5. QED
  BY <1>4 DEF InstrRecord

LEMMA EmitLoopMatches ==
  ASSUME NEW A \in State, NEW B \in State, Matches(A), Effect(Head(agenda), A, B), EmitLoop
  PROVE  Matches(B)'
<1> DEFINE name == Arg(1)
<1>1. A.alive /\ EmitLoopEffect(name, A, B)
  BY DEF EmitLoop, Making, Doing, Effect, Arg
<1>2. name \in Addresses /\ A.level = Top(A) /\ Keeping(A, B)
  <2>1. name \in A.starts /\ A.starts \in SUBSET Addresses
    BY <1>1 DEF State, EmitLoopEffect
  <2>2. QED
    BY <1>1, <2>1 DEF EmitLoopEffect, Keeping, SameAround, SameScopes, SamePlaces, SameFrames
<1>3. Typed /\ Frames(A) /\ Current \in CompilerRecord /\ Current.locals # <<>>
  BY <1>1, CurrentLocals
<1>4. Kept(name).addr \in Nat
  BY <1>2, <1>3, KeptType DEF PlaceRecord
<1>5. LoopTo(Current, Kept(name)) \in InstrRecord
  BY <1>3, <1>4, LoopToType
<1>6. StaysTyped /\ Update(Written(Current, LoopTo(Current, Kept(name))))
  BY <1>3 DEF EmitLoop, Making, OnlyCompilers, StaysTyped, Typed
<1>7. QED
  BY <1>1, <1>2, <1>5, <1>6, WritingMatches

LEMMA EnterLoopMatches ==
  ASSUME NEW A \in State, NEW B \in State, Matches(A), Effect(Head(agenda), A, B), EnterLoop
  PROVE  Matches(B)'
<1>1. A.alive /\ EnterLoopEffect(A, B)
  BY DEF EnterLoop, Making, Doing, Effect
<1>2. A.level = Top(A) /\ Keeping(A, B)
  BY <1>1 DEF EnterLoopEffect, Keeping, SameFrames
<1>3. Typed /\ Frames(A) /\ "cont" \in Addresses /\ "loop_start" \in Addresses
  BY <1>1, CurrentLocals DEF Addresses
<1>4. Kept("loop_start") \in PlaceRecord
  BY <1>2, <1>3, KeptType
<1>5. saved' \in Seq([Addresses -> PlaceRecord]) /\ Len(saved') = Len(saved)
  BY <1>3, KeepType DEF EnterLoop, Typed
<1>6. StaysTyped /\ UNCHANGED compilers
  BY <1>3, <1>4, <1>5 DEF EnterLoop, Making, StaysTyped, Typed
<1>7. QED
  BY <1>1, <1>2, <1>6, UnchangedMatches

LEMMA LeaveLoopMatches ==
  ASSUME NEW A \in State, NEW B \in State, Matches(A), Effect(Head(agenda), A, B), LeaveLoop
  PROVE  Matches(B)'
<1>1. A.alive /\ LeaveLoopEffect(A, B)
  BY DEF LeaveLoop, Making, Doing, Effect
<1>2. A.level = Top(A) /\ Keeping(A, B)
  BY <1>1 DEF LeaveLoopEffect, Between, Keeping, SameScopes, SamePlaces, SameFrames
<1>3. Typed /\ Frames(A) /\ "cont" \in Addresses
  BY <1>1, CurrentLocals DEF Addresses
<1>4. Kept("cont") \in PlaceRecord
  BY <1>2, <1>3, KeptType
<1>5. StaysTyped /\ UNCHANGED compilers
  BY <1>3, <1>4 DEF LeaveLoop, Making, StaysTyped, Typed
<1>6. QED
  BY <1>1, <1>2, <1>5, UnchangedMatches

LEMMA MarkedType ==
  ASSUME NEW c, NEW instr \in InstrRecord
  PROVE  Marked(c, instr) \in InstrRecord
<1> DEFINE stray == [instr EXCEPT !.meant = Stray]
<1>1. instr \in AnyInstr /\ Stray \in Decl
  BY DEF InstrRecord, Stray, Decl
<1>2. stray \in AnyInstr /\ stray.meant = Stray
  BY <1>1 DEF AnyInstr
<1> HIDE DEF stray
<1>3. stray \in InstrRecord
  BY <1>2 DEF InstrRecord
<1>4. QED
  BY <1>3 DEF Marked, stray

LEMMA StatementKeeping ==
  ASSUME NEW A \in State, NEW B \in State, StatementEffect(A, B)
  PROVE  Keeping(A, B)
BY StatementState DEF Keeping, SameAround, SameScopes, SamePlaces, SameFrames

LEMMA BreakMatches ==
  ASSUME NEW A \in State, NEW B \in State, Matches(A), Effect(Head(agenda), A, B), Break
  PROVE  Matches(B)'
<1> DEFINE c == Current  jump == Instruction(c, "JUMP", Unpatched)
           break == [depth |-> c.scope_depth, addr |-> Here(c), id |-> c.id]
<1>1. A.alive /\ StatementEffect(A, B)
  BY DEF Break, Making, Doing, Effect, BreakEffect
<1>2. Keeping(A, B)
  BY <1>1, StatementKeeping
<1>3. /\ Typed /\ c \in CompilerRecord /\ c.locals # <<>> /\ break \in BreakRecord
      /\ Unpatched \in Int \cup Seq(UpvalueRecord) /\ "JUMP" \in AllOps
  BY <1>1, CurrentLocals DEF BreakRecord, Unpatched, AllOps
<1>4. Marked(c, jump) \in InstrRecord
  BY <1>3, InstructionType, MarkedType
<1>5. breaks' = Append(breaks, break) /\ Update(Written(c, Marked(c, jump)))
  BY DEF Break
<1>6. StaysTyped
  BY <1>3, <1>5 DEF Break, Making, StaysTyped, Typed
<1>7. QED
  BY <1>1, <1>2, <1>4, <1>5, <1>6, WritingMatches

LEMMA ContinueMatches ==
  ASSUME NEW A \in State, NEW B \in State, Matches(A), Effect(Head(agenda), A, B), Continue
  PROVE  Matches(B)'
<1> DEFINE c  == Current
           to == IF continueJump.id = c.id THEN continueJump
                 ELSE [addr |-> Unpatched, locals |-> -1]
<1>1. A.alive /\ StatementEffect(A, B)
  BY DEF Continue, Making, Doing, Effect, BreakEffect
<1>2. Keeping(A, B)
  BY <1>1, StatementKeeping
<1>3. Typed /\ c \in CompilerRecord /\ c.locals # <<>>
  BY <1>1, CurrentLocals
<1>4. to.addr \in Nat
  BY <1>3 DEF Typed, PlaceRecord, Unpatched
<1>5. StaysTyped /\ Update(Written(c, Marked(c, LoopTo(c, to))))
  BY <1>3 DEF Continue, Making, OnlyCompilers, StaysTyped, Typed
<1> HIDE DEF to
<1>6. Marked(c, LoopTo(c, to)) \in InstrRecord
  BY <1>3, <1>4, LoopToType, MarkedType
<1>7. QED
  BY <1>1, <1>2, <1>5, <1>6, WritingMatches

LEMMA KeepingItself ==
  ASSUME NEW A
  PROVE  Keeping(A, A)
BY DEF Keeping, SameOuter, SameFrames

\* One break; the call goes on.
LEMMA PatchBreakMatches ==
  ASSUME NEW A \in State, A.alive, Matches(A), PatchBreak
  PROVE  Matches(A)'
<1> DEFINE c == Current  break == Last(breaks)
           patched == Patched(c, break.addr, Here(c), FALSE)
           corrupted == [c EXCEPT !.corrupt = TRUE]
<1>1. Typed /\ c \in CompilerRecord /\ Here(c) \in Nat
  BY CurrentLocals
<1>2. break \in BreakRecord /\ break.addr \in Nat /\ Front(breaks) \in Seq(BreakRecord)
  <2>1. breaks \in Seq(BreakRecord) /\ breaks # <<>>
    BY <1>1 DEF Typed, PatchBreak, BreaksLoop
  <2>2. Len(breaks) \in Nat \ {0}
    BY <2>1
  <2>3. Last(breaks) \in BreakRecord /\ Front(breaks) \in Seq(BreakRecord)
    BY <2>1, <2>2 DEF Last, Front
  <2>4. QED
    BY <2>3 DEF BreakRecord
<1>3. StaysTyped
  BY <1>1, <1>2 DEF PatchBreak, StaysTyped, Typed
<1>4. patched \in CompilerRecord /\ SameLocals(c, patched)
  BY <1>1, <1>2, PatchedType
<1>5. corrupted \in CompilerRecord /\ SameLocals(c, corrupted)
  BY <1>1 DEF CompilerRecord, SameLocals
<1>6. Update(patched) \/ Update(corrupted)
  BY DEF PatchBreak
<1> HIDE DEF patched, corrupted
<1>7. QED
  BY <1>3, <1>4, <1>5, <1>6, KeepingItself, KeepingMatches

LEMMA BreaksPatchedMatches ==
  ASSUME NEW A \in State, NEW B \in State, Matches(A), Effect(Head(agenda), A, B), BreaksPatched
  PROVE  Matches(B)'
<1>1. A.alive /\ PatchBreaksEffect(A, B)
  BY DEF BreaksPatched, Making, Doing, Effect
<1>2. Keeping(A, B)
  BY <1>1 DEF PatchBreaksEffect, Keeping, SamePlaces, SameFrames
<1>3. StaysTyped /\ UNCHANGED compilers
  BY <1>1, CurrentLocals DEF BreaksPatched, Making, unitVars, StaysTyped, Typed
<1>4. QED
  BY <1>1, <1>2, <1>3, UnchangedMatches

\* Nothing changes but the places.
LEMMA PlacesMatch ==
  ASSUME NEW A \in State, NEW B \in State, A.alive, Matches(A), SameOuter(A, B),
         B.depth = A.depth, B.stage = A.stage, B.knows = A.knows,
         UNCHANGED <<compilers, functions, breaks, continueJump, fuel>>,
         saved' \in Seq([Addresses -> PlaceRecord]), Frames(B)'
  PROVE  Matches(B)'
<1>1. /\ Typed /\ Levels(A) /\ Current \in CompilerRecord
      /\ Scoped(Current, A.depth, A.stage, A.knows)
  BY CurrentLocals
<1>2. compilers \in Seq(CompilerRecord) /\ Len(compilers) \in Nat \ {0}
  BY <1>1, CurrentType DEF Typed
<1>3. Update(Current) /\ Current.upvalues = Current.upvalues
  BY <1>2 DEF Update, Current
<1>4. /\ functions' = functions /\ breaks' \in Seq(BreakRecord) /\ continueJump' \in PlaceRecord
      /\ fuel' \in Nat
  BY <1>1 DEF Typed
<1>5. Scoped(Current, B.depth, B.stage, B.knows) /\ B.knows \subseteq A.knows
  BY <1>1
<1>6. QED
  BY <1>1, <1>3, <1>4, <1>5, UpdateMatches

LEMMA EnterMatches ==
  ASSUME NEW A \in State, NEW B \in State, Matches(A), Effect(Head(agenda), A, B), EnterCall
  PROVE  Matches(B)'
<1> DEFINE places == [name \in Addresses |-> NoPlace]
<1>1. A.alive /\ EnterEffect(A, B)
  BY DEF EnterCall, Making, Doing, Effect
<1>2. NoPlace \in PlaceRecord
  BY DEF NoPlace, PlaceRecord
<1>3. places \in [Addresses -> PlaceRecord]
  BY <1>2
<1> HIDE DEF places
<1>4. saved \in Seq([Addresses -> PlaceRecord]) /\ saved' = Append(saved, places)
  BY <1>1, CurrentLocals DEF Typed, EnterCall, places
<1>5. saved' \in Seq([Addresses -> PlaceRecord]) /\ Len(saved') = Len(saved) + 1
  BY <1>3, <1>4
<1>6. Frames(B)'
  <2>1. A.below \in Seq(Frame) /\ B.below = Append(A.below, FrameOf(A)) /\ Len(saved) = Len(A.below)
    BY <1>1, CurrentLocals DEF State, EnterEffect, Frames
  <2>2. FrameOf(A).level = A.level
    BY DEF FrameOf
  <2>3. Len(B.below) = Len(saved') /\ B.below # <<>>
    BY <1>5, <2>1
  <2>4. B.below[1].level = 0
    <3>1. CASE A.below = <<>>
      BY <1>1, <2>1, <2>2, <3>1, CurrentLocals DEF Frames
    <3>2. CASE A.below # <<>>
      <4>1. B.below[1] = A.below[1]
        BY <2>1, <3>2
      <4>2. QED
        BY <1>1, <3>2, <4>1, CurrentLocals DEF Frames
    <3>3. QED
      BY <3>1, <3>2
  <2>5. QED
    BY <2>3, <2>4 DEF Frames
<1>7. UNCHANGED <<compilers, functions, breaks, continueJump, fuel>>
  BY DEF EnterCall, Making
<1>8. SameOuter(A, B) /\ B.depth = A.depth /\ B.stage = A.stage /\ B.knows = A.knows
  BY <1>1 DEF EnterEffect, SameScopes
<1>9. QED
  BY <1>1, <1>5, <1>6, <1>7, <1>8, PlacesMatch

LEMMA LeaveMatches ==
  ASSUME NEW A \in State, NEW B \in State, Matches(A), Effect(Head(agenda), A, B), LeaveCall
  PROVE  Matches(B)'
<1>1. A.alive /\ LeaveEffect(A, B)
  BY DEF LeaveCall, Making, Doing, Effect
<1>2. saved \in Seq([Addresses -> PlaceRecord]) /\ saved' = Front(saved)
  BY <1>1, CurrentLocals DEF Typed, LeaveCall
<1>3. /\ A.below \in Seq(Frame) /\ A.below # <<>> /\ B.below = Front(A.below)
      /\ Len(saved) = Len(A.below) /\ A.below[1].level = 0 /\ B.level = Last(A.below).level
  <2>1. Frames(A)
    BY <1>1, CurrentLocals
  <2>2. A.below \in Seq(Frame)
    BY DEF State
  <2>3. A.below # <<>> /\ B.below = Front(A.below) /\ FrameOf(B) = Last(A.below)
    BY <1>1 DEF LeaveEffect
  <2>4. FrameOf(B).level = B.level
    BY DEF FrameOf
  <2>5. QED
    BY <2>1, <2>2, <2>3, <2>4 DEF Frames
<1>4. Len(A.below) \in Nat \ {0}
  BY <1>3
<1>5. saved' \in Seq([Addresses -> PlaceRecord]) /\ Len(saved') = Len(saved) - 1
  BY <1>2, <1>3, <1>4 DEF Front
<1>6. Frames(B)'
  <2>1. Len(B.below) = Len(A.below) - 1 /\ \A i \in 1..Len(A.below) - 1 : B.below[i] = A.below[i]
    BY <1>3, <1>4 DEF Front
  <2>2. CASE Len(A.below) = 1
    <3>1. B.below = <<>> /\ B.level = 0
      BY <1>3, <2>1, <2>2 DEF Front, Last
    <3>2. QED
      BY <1>3, <1>5, <2>1, <3>1 DEF Frames
  <2>3. CASE Len(A.below) > 1
    <3>1. B.below # <<>> /\ B.below[1].level = 0
      BY <1>3, <1>4, <2>1, <2>3
    <3>2. QED
      BY <1>3, <1>5, <2>1, <3>1 DEF Frames
  <2>4. Len(A.below) = 1 \/ Len(A.below) > 1
    <3> DEFINE m == Len(A.below)
    <3>1. m \in Nat \ {0}
      BY <1>4
    <3> HIDE DEF m
    <3>2. m = 1 \/ m > 1
      BY <3>1
    <3>3. QED
      BY <3>2 DEF m
  <2>5. QED
    BY <2>2, <2>3, <2>4, Zenon
<1>7. UNCHANGED <<compilers, functions, breaks, continueJump, fuel>>
  BY DEF LeaveCall, Making
<1>8. SameOuter(A, B) /\ B.depth = A.depth /\ B.stage = A.stage /\ B.knows = A.knows
  BY <1>1 DEF LeaveEffect, SameScopes
<1>9. QED
  BY <1>1, <1>5, <1>6, <1>7, <1>8, PlacesMatch

LEMMA NothingMatches ==
  ASSUME NEW A \in State, NEW B \in State, A.alive, Matches(A), Keeping(A, B),
         UNCHANGED <<unitVars, fuel>>
  PROVE  Matches(B)'
<1>1. StaysTyped /\ UNCHANGED compilers
  BY CurrentLocals DEF unitVars, StaysTyped, Typed
<1>2. QED
  BY <1>1, UnchangedMatches

-----------------------------------------------------------------------------
(* Scopes and locals *)

\* The call changes the current compiler only, and no place.
LEMMA ScopingMatches ==
  ASSUME NEW A \in State, NEW B \in State, A.alive, Matches(A), SameOuter(A, B), SameFrames(A, B),
         B.knows \subseteq A.knows, NEW c \in CompilerRecord, c.upvalues = Current.upvalues,
         Update(c), OnlyCompilers, UNCHANGED fuel, Scoped(c, B.depth, B.stage, B.knows)
  PROVE  Matches(B)'
<1>1. Typed /\ Frames(A)
  BY CurrentLocals
<1>2. /\ functions' = functions /\ saved' \in Seq([Addresses -> PlaceRecord])
      /\ breaks' \in Seq(BreakRecord) /\ continueJump' \in PlaceRecord /\ fuel' \in Nat
      /\ Len(saved') = Len(saved)
  BY <1>1 DEF Typed, OnlyCompilers
<1>3. Frames(B)'
  BY <1>1, <1>2, FramesKept
<1>4. QED
  BY <1>2, <1>3, UpdateMatches

\* The parts of a compiler that have types
LEMMA CompilerParts ==
  ASSUME NEW c \in CompilerRecord
  PROVE  /\ c.id \in Nat /\ c.type \in Kinds /\ c.arity \in Nat /\ c.scope_depth \in Nat
         /\ c.locals \in Seq(LocalRecord) /\ c.upvalues \in Seq(UpvalueRecord)
         /\ c.code \in Seq(InstrRecord) /\ c.env \in Seq(EnvRecord) /\ c.braces \in Seq(Nat)
         /\ c.starts \in SUBSET (Nat \X Scopes) /\ c.amid \in BOOLEAN /\ c.corrupt \in BOOLEAN
BY DEF CompilerRecord

\* The parts of a compiler that scopes change
Rescoped(c, e) == e.id = c.id /\ e.upvalues = c.upvalues /\ e.code = c.code

LEMMA OneDeeper ==
  ASSUME NEW d \in Nat, NEW x \in 0..d
  PROVE  x \in 0..d + 1 /\ x < d + 1 /\ ~(x >= d + 1) /\ x \in Nat
OBVIOUS

\* begin_scope: no local is as deep as the new scope.
LEMMA ScopeBegins ==
  ASSUME NEW id, NEW locals \in Seq(LocalRecord), NEW env \in Seq(EnvRecord),
         NEW braces \in Seq(Nat), NEW depth \in Nat, NEW stage, NEW knows,
         ScopedAs(id, locals, env, braces, depth, stage, knows), stage # "dropping"
  PROVE  ScopedAs(id, locals, env, Append(braces, Len(env)), depth + 1, stage, {})
<1> DEFINE n == Len(env)  more == Append(braces, n)
<1>1. /\ Len(braces) = depth /\ locals[1].name = "" /\ locals[1].depth = 0
      /\ \A j \in 1..n : InEnv(id, locals, env, depth, j)
      /\ \A b \in 1..depth : BraceAt(locals, env, braces[b], b)
      /\ LocalsAt(locals, env, depth, stage)
  BY Zenon DEF ScopedAs
<1>2. n \in Nat
  OBVIOUS
<1> HIDE DEF n
<1>3. ASSUME NEW j \in 1..n
      PROVE  InEnv(id, locals, env, depth + 1, j) /\ ~(locals[j + 1].depth >= depth + 1)
  <2>1. InEnv(id, locals, env, depth, j)
    BY <1>1, Zenon
  <2>2. QED
    BY <2>1, OneDeeper, Zenon DEF InEnv
<1>4. BraceAt(locals, env, n, depth + 1)
  <2>1. n <= n /\ \A j \in 1..n : ~(j > n)
    BY <1>2
  <2>2. QED
    BY <1>3, <2>1, Zenon DEF BraceAt, n
<1>5. /\ Len(more) = depth + 1 /\ more[depth + 1] = n
      /\ \A b \in 1..depth : more[b] = braces[b]
  <2>1. Len(braces) = depth
    BY <1>1
  <2>2. /\ Len(more) = Len(braces) + 1 /\ more[Len(braces) + 1] = n
        /\ \A b \in 1..Len(braces) : more[b] = braces[b]
    BY <1>2, AppendFacts
  <2>3. QED
    BY <2>1, <2>2
<1> HIDE DEF more
<1>6. ASSUME NEW b \in 1..depth + 1 PROVE BraceAt(locals, env, more[b], b)
  <2>1. b = depth + 1 \/ b \in 1..depth
    OBVIOUS
  <2>2. QED
    BY <1>1, <1>4, <1>5, <2>1, Zenon
<1>7. LocalsAt(locals, env, depth + 1, stage)
  BY <1>1, Zenon DEF LocalsAt
<1>8. KnowsLocals(id, locals, env, {})
  BY DEF KnowsLocals
<1>9. ScopedAs(id, locals, env, more, depth + 1, stage, {})
  BY <1>1, <1>3, <1>5, <1>6, <1>7, <1>8, Zenon DEF ScopedAs, n
<1>10. QED
  BY <1>9 DEF more, n

\* end_scope forgets the declarations in it; their locals are the deeper ones.
LEMMA ScopeEnds ==
  ASSUME NEW id, NEW locals \in Seq(LocalRecord), NEW env \in Seq(EnvRecord),
         NEW braces \in Seq(Nat), NEW depth \in Nat \ {0}, NEW knows,
         ScopedAs(id, locals, env, braces, depth, "none", knows)
  PROVE  /\ Last(braces) \in Nat /\ Last(braces) <= Len(env)
         /\ ScopedAs(id, locals, SubSeq(env, 1, Last(braces)), Front(braces), depth - 1,
                     "dropping", {})
<1> DEFINE n == Len(env)  brace == Last(braces)  outer == SubSeq(env, 1, brace)
           D(j) == locals[j + 1].depth
<1>1. /\ Len(braces) = depth /\ locals[1].name = "" /\ locals[1].depth = 0
      /\ \A j \in 1..n : InEnv(id, locals, env, depth, j)
      /\ \A b \in 1..depth : BraceAt(locals, env, braces[b], b)
      /\ LocalsAt(locals, env, depth, "none")
  BY Zenon DEF ScopedAs
<1>2. n \in Nat /\ Len(locals) = n + 1
  <2>1. Len(locals) = n + 1
    BY <1>1 DEF LocalsAt
  <2>2. QED
    BY <2>1
<1>3. brace = braces[depth] /\ brace \in Nat /\ depth \in 1..depth
  <2>1. Len(braces) = depth
    BY <1>1
  <2>2. braces # <<>>
    BY <2>1
  <2>3. brace = braces[Len(braces)] /\ brace \in Nat
    BY <2>2, FrontFacts
  <2>4. QED
    BY <2>1, <2>3
<1>4. BraceAt(locals, env, brace, depth)
  BY <1>1, <1>3
<1>5. brace <= n /\ \A j \in 1..n : j > brace <=> D(j) >= depth
  BY <1>4, Zenon DEF BraceAt
<1>6. /\ \A b \in 1..depth - 1 : Front(braces)[b] = braces[b] /\ b \in 1..depth /\ braces[b] \in Nat
      /\ Len(Front(braces)) = depth - 1
  <2>1. Len(braces) = depth
    BY <1>1
  <2>2. braces # <<>>
    BY <2>1
  <2>3. /\ \A b \in 1..depth - 1 : Front(braces)[b] = braces[b]
        /\ Len(Front(braces)) = depth - 1
    BY <2>1, <2>2, FrontFacts
  <2>4. \A b \in 1..depth - 1 : b \in 1..depth /\ braces[b] \in Nat
    BY <2>1
  <2>5. QED
    BY <2>3, <2>4
<1>7. Len(outer) = brace /\ \A j \in 1..brace : outer[j] = env[j] /\ j \in 1..n
  BY <1>2, <1>3, <1>5, PrefixFacts
<1>8. \A j \in 1..n : D(j) \in 0..depth
  BY <1>1, Zenon DEF InEnv
<1> HIDE DEF n, brace, outer, D
<1>9. ASSUME NEW j \in 1..brace PROVE InEnv(id, locals, outer, depth - 1, j)
  <2>1. j \in 1..n /\ outer[j] = env[j] /\ ~(j > brace)
    BY <1>3, <1>7
  <2>2. D(j) \in 0..depth /\ ~(D(j) >= depth)
    BY <1>5, <1>8, <2>1, Zenon
  <2>3. D(j) \in 0..depth - 1
    BY <2>2
  <2>4. InEnv(id, locals, env, depth, j)
    BY <1>1, <2>1, Zenon
  <2>5. QED
    BY <2>1, <2>3, <2>4, Zenon DEF InEnv, D
<1>10. ASSUME NEW b \in 1..depth - 1 PROVE BraceAt(locals, outer, Front(braces)[b], b)
  <2> DEFINE x == braces[b]
  <2>1. BraceAt(locals, env, x, b) /\ x \in Nat
    BY <1>1, <1>6
  <2>2. x <= n /\ \A j \in 1..n : j > x <=> D(j) >= b
    BY <2>1, Zenon DEF BraceAt, n, D
  <2>3. Front(braces)[b] = x
    BY <1>6
  <2> HIDE DEF x
  <2>4. x <= brace
    <3> SUFFICES ASSUME x > brace PROVE FALSE
      BY <1>3, <2>1
    <3>1. x \in 1..n
      BY <1>2, <1>3, <2>1, <2>2
    <3>2. D(x) >= depth /\ D(x) \in Nat
      BY <1>5, <1>8, <3>1
    <3>3. D(x) >= b
      BY <3>2
    <3>4. x > x
      BY <2>2, <3>1, <3>3
    <3>5. QED
      BY <2>1, <3>4
  <2>5. \A j \in 1..brace : j > x <=> D(j) >= b
    BY <1>7, <2>2, Zenon
  <2>6. QED
    BY <1>7, <2>3, <2>4, <2>5, Zenon DEF BraceAt, D
<1>11. LocalsAt(locals, outer, depth - 1, "dropping")
  <2>1. Len(locals) >= brace + 1
    BY <1>2, <1>3, <1>5
  <2>2. ASSUME NEW i \in brace + 2..Len(locals) PROVE locals[i].depth > depth - 1
    <3> DEFINE j == i - 1
    <3>1. j \in 1..n /\ j > brace /\ j + 1 = i
      BY <1>2, <1>3
    <3> HIDE DEF j
    <3>2. D(j) >= depth /\ D(j) \in 0..depth
      BY <1>5, <1>8, <3>1, Zenon
    <3>3. D(j) > depth - 1
      BY <3>2
    <3>4. QED
      BY <3>1, <3>3 DEF D
  <2>3. QED
    BY <1>7, <2>1, <2>2, Zenon DEF LocalsAt
<1>12. KnowsLocals(id, locals, outer, {})
  BY DEF KnowsLocals
<1>13. ScopedAs(id, locals, outer, Front(braces), depth - 1, "dropping", {})
  BY <1>1, <1>6, <1>7, <1>9, <1>10, <1>11, <1>12, Zenon DEF ScopedAs
<1>14. QED
  BY <1>3, <1>5, <1>13 DEF brace, outer, n

\* end_scope drops a local that is deeper than the scope: none that is declared.
LEMMA LocalDropped ==
  ASSUME NEW id, NEW locals \in Seq(LocalRecord), NEW env \in Seq(EnvRecord),
         NEW braces \in Seq(Nat), NEW depth \in Nat,
         ScopedAs(id, locals, env, braces, depth, "dropping", {}), Len(locals) >= Len(env) + 1
  PROVE  /\ locals[Len(locals)].depth > depth =>
              ScopedAs(id, Front(locals), env, braces, depth, "dropping", {})
         /\ ~(locals[Len(locals)].depth > depth) =>
              ScopedAs(id, locals, env, braces, depth, "none", {})
<1> DEFINE n == Len(env)  m == Len(locals)  shorter == Front(locals)  last == locals[m].depth
<1>1. /\ Len(braces) = depth /\ locals[1].name = "" /\ locals[1].depth = 0
      /\ \A j \in 1..n : InEnv(id, locals, env, depth, j)
      /\ \A b \in 1..depth : BraceAt(locals, env, braces[b], b)
      /\ LocalsAt(locals, env, depth, "dropping")
  BY Zenon DEF ScopedAs
<1>2. \A i \in n + 2..m : locals[i].depth > depth
  BY <1>1 DEF LocalsAt
<1>3. n \in Nat /\ m \in Nat /\ m >= n + 1
  OBVIOUS
<1>4. Len(shorter) = m - 1 /\ \A i \in 1..m - 1 : shorter[i] = locals[i]
  <2>1. locals # <<>>
    BY <1>3
  <2>2. QED
    BY <2>1, FrontFacts
<1>5. KnowsLocals(id, locals, env, {}) /\ KnowsLocals(id, shorter, env, {})
  BY DEF KnowsLocals
<1> HIDE DEF n, m, shorter
<1>6. CASE last > depth
  <2>1. m # n + 1
    <3> SUFFICES ASSUME m = n + 1 PROVE FALSE
      OBVIOUS
    <3>1. CASE n = 0
      <4>1. m = 1
        BY <3>1
      <4>2. locals[m].depth = 0
        BY <1>1, <4>1, Zenon
      <4>3. QED
        BY <1>6, <4>2
    <3>2. CASE n # 0
      <4>1. n \in 1..n
        BY <1>3, <3>2
      <4>2. last \in 0..depth
        BY <1>1, <4>1, Zenon DEF InEnv
      <4> HIDE DEF last
      <4>3. QED
        BY <1>6, <4>2
    <3>3. QED
      BY <3>1, <3>2
  <2>2. /\ Len(shorter) = m - 1 /\ m - 1 >= n + 1
        /\ \A i \in 1..m - 1 : shorter[i] = locals[i]
    BY <1>3, <1>4, <2>1
  <2>3. /\ 1 \in 1..m - 1 /\ \A j \in 1..n : j + 1 \in 1..m - 1
        /\ \A i \in n + 2..m - 1 : i \in n + 2..m /\ i \in 1..m - 1
    BY <1>3, <2>2
  <2>4. \A j \in 1..n : InEnv(id, shorter, env, depth, j)
    <3> SUFFICES ASSUME NEW j \in 1..n PROVE InEnv(id, shorter, env, depth, j)
      OBVIOUS
    <3>1. shorter[j + 1] = locals[j + 1] /\ InEnv(id, locals, env, depth, j)
      BY <1>1, <2>2, <2>3, Zenon
    <3>2. QED
      BY <3>1, Zenon DEF InEnv
  <2>5. \A b \in 1..depth : BraceAt(shorter, env, braces[b], b)
    <3> SUFFICES ASSUME NEW b \in 1..depth PROVE BraceAt(shorter, env, braces[b], b)
      OBVIOUS
    <3>1. BraceAt(locals, env, braces[b], b)
      BY <1>1, Zenon
    <3>2. \A j \in 1..n : shorter[j + 1] = locals[j + 1]
      BY <2>2, <2>3, Zenon
    <3>3. QED
      BY <3>1, <3>2, Zenon DEF BraceAt, n
  <2>6. LocalsAt(shorter, env, depth, "dropping")
    <3>1. \A i \in n + 2..m - 1 : shorter[i].depth > depth
      BY <1>2, <2>2, <2>3, Zenon
    <3>2. QED
      BY <2>2, <3>1 DEF LocalsAt, n
  <2>7. shorter[1].name = "" /\ shorter[1].depth = 0
    BY <1>1, <2>2, <2>3
  <2>8. ScopedAs(id, shorter, env, braces, depth, "dropping", {})
    BY <1>1, <1>5, <2>4, <2>5, <2>6, <2>7, Zenon DEF ScopedAs, n
  <2>9. QED
    BY <1>6, <2>8 DEF shorter, m
<1>7. CASE ~(last > depth)
  <2>1. m = n + 1
    <3> SUFFICES ASSUME m # n + 1 PROVE FALSE
      OBVIOUS
    <3>1. m \in n + 2..m
      BY <1>3
    <3>2. QED
      BY <1>2, <1>7, <3>1
  <2>2. LocalsAt(locals, env, depth, "none")
    BY <2>1 DEF LocalsAt, n, m
  <2>3. ScopedAs(id, locals, env, braces, depth, "none", {})
    BY <1>1, <1>5, <2>2, Zenon DEF ScopedAs, n
  <2>4. QED
    BY <1>7, <2>3 DEF m
<1>8. QED
  BY <1>6, <1>7 DEF m

\* What scopes look at of the locals
LEMMA LocalsAlike ==
  ASSUME NEW id, NEW locals \in Seq(LocalRecord), NEW alike, NEW env \in Seq(EnvRecord),
         NEW braces, NEW depth, NEW stage, NEW knows,
         ScopedAs(id, locals, env, braces, depth, stage, knows), Len(locals) >= Len(env) + 1,
         Len(alike) = Len(locals),
         \A i \in 1..Len(locals) :
            /\ alike[i].name = locals[i].name /\ alike[i].depth = locals[i].depth
            /\ alike[i].from = locals[i].from
  PROVE  ScopedAs(id, alike, env, braces, depth, stage, knows)
<1> DEFINE n == Len(env)  m == Len(locals)
<1>1. n \in Nat /\ m \in Nat /\ m >= n + 1
  OBVIOUS
<1>2. /\ 1 \in 1..m /\ \A j \in 1..n : j + 1 \in 1..m
      /\ \A i \in n + 2..m : i \in 1..m
      /\ m = n + 2 => n + 2 \in 1..m
      /\ \A i \in 1..n + 1 : i \in 1..m
  BY <1>1
<1> HIDE DEF n, m
<1>3. \A i \in 1..m : /\ alike[i].name = locals[i].name /\ alike[i].depth = locals[i].depth
                      /\ alike[i].from = locals[i].from
  BY DEF m
<1>4. \A j \in 1..n : InEnv(id, locals, env, depth, j) => InEnv(id, alike, env, depth, j)
  BY <1>2, <1>3, Zenon DEF InEnv
<1>5. \A b, brace : BraceAt(locals, env, brace, b) => BraceAt(alike, env, brace, b)
  BY <1>2, <1>3, Zenon DEF BraceAt, n
<1>6. LocalsAt(locals, env, depth, stage) => LocalsAt(alike, env, depth, stage)
  BY <1>2, <1>3, Zenon DEF LocalsAt, n, m
<1>7. KnowsLocals(id, locals, env, knows) => KnowsLocals(id, alike, env, knows)
  BY <1>2, <1>3, Zenon DEF KnowsLocals, n
<1>8. alike[1].name = locals[1].name /\ alike[1].depth = locals[1].depth
  BY <1>2, <1>3
<1>9. QED
  BY <1>4, <1>5, <1>6, <1>7, <1>8, Zenon DEF ScopedAs, n

\* A variable that is being declared is not visible yet.
LEMMA VariableParsed ==
  ASSUME NEW id, NEW locals \in Seq(LocalRecord), NEW env \in Seq(EnvRecord),
         NEW braces, NEW depth, NEW stage,
         ScopedAs(id, locals, env, braces, depth, stage, {}), stage \notin {"declared", "dropping"},
         NEW local \in LocalRecord, local.depth = Uninitialized, local.name \in Names
  PROVE  /\ ScopedAs(id, Append(locals, local), env, braces, depth, "declared", {})
         /\ Append(locals, local) \in Seq(LocalRecord)
<1> DEFINE n == Len(env)  more == Append(locals, local)
<1>1. /\ Len(braces) = depth /\ locals[1].name = "" /\ locals[1].depth = 0
      /\ \A j \in 1..n : InEnv(id, locals, env, depth, j)
      /\ \A b \in 1..depth : BraceAt(locals, env, braces[b], b)
      /\ Len(locals) = n + 1
  <2>1. LocalsAt(locals, env, depth, stage)
    BY Zenon DEF ScopedAs
  <2>2. QED
    BY <2>1, Zenon DEF ScopedAs, LocalsAt
<1>2. n \in Nat
  OBVIOUS
<1>3. /\ more \in Seq(LocalRecord) /\ Len(more) = n + 2 /\ more[n + 2] = local
      /\ \A i \in 1..n + 1 : more[i] = locals[i]
  <2>1. Len(locals) = n + 1
    BY <1>1
  <2>2. /\ more \in Seq(LocalRecord) /\ Len(more) = Len(locals) + 1
        /\ more[Len(locals) + 1] = local /\ \A i \in 1..Len(locals) : more[i] = locals[i]
    BY AppendFacts
  <2> HIDE DEF more, n
  <2>3. n + 1 + 1 = n + 2
    BY <1>2
  <2>4. QED
    BY <2>1, <2>2, <2>3
<1> HIDE DEF n, more
<1>4. more[1] = locals[1] /\ \A j \in 1..n : more[j + 1] = locals[j + 1]
  <2>1. 1 \in 1..n + 1 /\ \A j \in 1..n : j + 1 \in 1..n + 1
    BY <1>2
  <2>2. QED
    BY <1>3, <2>1
<1>5. \A j \in 1..n : InEnv(id, more, env, depth, j)
  BY <1>1, <1>4, Zenon DEF InEnv
<1>6. \A b \in 1..depth : BraceAt(more, env, braces[b], b)
  <2> SUFFICES ASSUME NEW b \in 1..depth PROVE BraceAt(more, env, braces[b], b)
    OBVIOUS
  <2>1. BraceAt(locals, env, braces[b], b)
    BY <1>1, Zenon
  <2>2. QED
    BY <1>4, <2>1, Zenon DEF BraceAt, n
<1>7. LocalsAt(more, env, depth, "declared")
  BY <1>3 DEF LocalsAt, n
<1>8. KnowsLocals(id, more, env, {})
  BY DEF KnowsLocals
<1>9. ScopedAs(id, more, env, braces, depth, "declared", {})
  BY <1>1, <1>4, <1>5, <1>6, <1>7, <1>8, Zenon DEF ScopedAs, n
<1>10. QED
  BY <1>3, <1>9 DEF more

\* mark_initialized: the last local becomes the last declaration.
LEMMA VariableNamed ==
  ASSUME NEW id \in Nat, NEW locals \in Seq(LocalRecord), NEW env \in Seq(EnvRecord),
         NEW braces \in Seq(Nat), NEW depth \in Nat,
         ScopedAs(id, locals, env, braces, depth, "declared", {}),
         NEW named \in Seq(LocalRecord), Len(named) = Len(locals),
         \A i \in 1..Len(locals) : /\ named[i].name = locals[i].name
                                   /\ named[i].from = locals[i].from
                                   /\ named[i].depth =
                                        IF i = Len(locals) THEN depth ELSE locals[i].depth
  PROVE  LET new == [name |-> locals[Len(locals)].name, decl |-> <<id, locals[Len(locals)].from>>]
         IN  /\ Append(env, new) \in Seq(EnvRecord)
             /\ ScopedAs(id, named, Append(env, new), braces, depth, "named", {})
<1> DEFINE n == Len(env)  last == locals[Len(locals)]
           new == [name |-> last.name, decl |-> <<id, last.from>>]
           more == Append(env, new)
<1>1. /\ Len(braces) = depth /\ locals[1].name = "" /\ locals[1].depth = 0
      /\ \A j \in 1..n : InEnv(id, locals, env, depth, j)
      /\ \A b \in 1..depth : BraceAt(locals, env, braces[b], b)
      /\ LocalsAt(locals, env, depth, "declared")
  BY Zenon DEF ScopedAs
<1>2. n \in Nat /\ Len(locals) = n + 2 /\ last = locals[n + 2] /\ last.name \in Names
  <2>1. n \in Nat
    OBVIOUS
  <2>2. Len(locals) = n + 2 /\ locals[n + 2].name \in Names
    BY <1>1, Zenon DEF LocalsAt
  <2>3. QED
    BY <2>1, <2>2, Zenon
<1>3. last \in LocalRecord
  BY <1>2
<1>4. new \in EnvRecord
  <2>1. last.from \in Int /\ last.name \in Names
    BY <1>2, <1>3 DEF LocalRecord
  <2> HIDE DEF last
  <2>2. <<id, last.from>> \in Decl
    BY <2>1 DEF Decl
  <2>3. QED
    BY <2>1, <2>2 DEF EnvRecord
<1> HIDE DEF new
<1>5. /\ more \in Seq(EnvRecord) /\ Len(more) = n + 1 /\ more[n + 1] = new
      /\ \A j \in 1..n : more[j] = env[j]
  BY <1>4, AppendFacts
<1> HIDE DEF n, last, more
<1>6. /\ Len(named) = n + 2 /\ named[n + 2].name = last.name /\ named[n + 2].from = last.from
      /\ named[n + 2].depth = depth
  <2>1. n + 2 \in 1..n + 2
    BY <1>2
  <2>2. QED
    BY <1>2, <2>1
<1>7. ASSUME NEW i \in 1..n + 1
      PROVE  /\ named[i].name = locals[i].name /\ named[i].from = locals[i].from
             /\ named[i].depth = locals[i].depth
  <2>1. i \in 1..n + 2 /\ i # n + 2
    BY <1>2
  <2>2. QED
    BY <1>2, <2>1
<1>8. 1 \in 1..n + 1 /\ \A j \in 1..n : j + 1 \in 1..n + 1
  BY <1>2
<1>9. ASSUME NEW j \in 1..n + 1 PROVE InEnv(id, named, more, depth, j)
  <2>1. CASE j = n + 1
    <3>1. (n + 1) + 1 = n + 2 /\ depth \in 0..depth
      BY <1>2
    <3>2. new.name = last.name /\ new.decl = <<id, last.from>>
      BY DEF new
    <3>3. QED
      BY <1>5, <1>6, <2>1, <3>1, <3>2 DEF InEnv
  <2>2. CASE j # n + 1
    <3>1. j \in 1..n
      BY <1>2, <2>2
    <3>2. InEnv(id, locals, env, depth, j)
      BY <1>1, <3>1, Zenon
    <3>3. QED
      BY <1>5, <1>7, <1>8, <3>1, <3>2, Zenon DEF InEnv
  <2>3. QED
    BY <2>1, <2>2
<1>10. ASSUME NEW b \in 1..depth PROVE BraceAt(named, more, braces[b], b)
  <2> DEFINE x == braces[b]
  <2>1. BraceAt(locals, env, x, b)
    BY <1>1, Zenon
  <2>2. x \in Nat
    <3>1. b \in 1..Len(braces)
      BY <1>1, Zenon
    <3>2. QED
      BY <3>1
  <2> HIDE DEF x
  <2>3. x <= n /\ \A j \in 1..n : j > x <=> locals[j + 1].depth >= b
    BY <2>1, Zenon DEF BraceAt, n
  <2>4. x <= n + 1 /\ n + 1 > x /\ depth >= b /\ n + 1 + 1 = n + 2
    BY <1>2, <2>2, <2>3
  <2>5. ASSUME NEW j \in 1..n + 1 PROVE j > x <=> named[j + 1].depth >= b
    <3>1. j = n + 1 \/ j \in 1..n
      BY <1>2
    <3>2. QED
      BY <1>6, <1>7, <1>8, <2>3, <2>4, <3>1, Zenon
  <2>6. QED
    BY <1>5, <2>4, <2>5, Zenon DEF BraceAt, x
<1>11. LocalsAt(named, more, depth, "named")
  <2>1. n + 2 = n + 1 + 1
    BY <1>2
  <2>2. QED
    BY <1>5, <1>6, <2>1 DEF LocalsAt
<1>12. KnowsLocals(id, named, more, {})
  BY DEF KnowsLocals
<1>13. named[1].name = "" /\ named[1].depth = 0
  BY <1>1, <1>7, <1>8
<1>14. ScopedAs(id, named, more, braces, depth, "named", {})
  BY <1>1, <1>5, <1>9, <1>10, <1>11, <1>12, <1>13, Zenon DEF ScopedAs
<1>15. QED
  BY <1>5, <1>14 DEF more, new, last

\* Between these stages the locals are the same.
LEMMA StageAlike ==
  ASSUME NEW id, NEW locals, NEW env, NEW braces, NEW depth, NEW stage, NEW other, NEW knows,
         ScopedAs(id, locals, env, braces, depth, stage, knows),
         stage \notin {"declared", "dropping"}, other \notin {"declared", "dropping"}
  PROVE  ScopedAs(id, locals, env, braces, depth, other, knows)
<1>1. LocalsAt(locals, env, depth, other)
  BY DEF ScopedAs, LocalsAt
<1>2. QED
  BY <1>1, Zenon DEF ScopedAs

-----------------------------------------------------------------------------
(* The calls that change scopes and locals *)

LEMMA ScopedParts ==
  ASSUME NEW c \in CompilerRecord, NEW depth, NEW stage, NEW knows, Scoped(c, depth, stage, knows)
  PROVE  /\ c.id \in Nat /\ c.locals \in Seq(LocalRecord) /\ c.env \in Seq(EnvRecord)
         /\ c.braces \in Seq(Nat) /\ c.scope_depth = depth /\ depth \in Nat
         /\ ScopedAs(c.id, c.locals, c.env, c.braces, depth, stage, knows)
         /\ Len(c.locals) >= Len(c.env) + 1 /\ c.locals # <<>> /\ Len(c.braces) = depth
         /\ LastLocal(c) = c.locals[Len(c.locals)]
<1>1. /\ c.id \in Nat /\ c.locals \in Seq(LocalRecord) /\ c.env \in Seq(EnvRecord)
      /\ c.braces \in Seq(Nat) /\ c.scope_depth \in Nat
  BY CompilerParts
<1>2. c.scope_depth = depth /\ ScopedAs(c.id, c.locals, c.env, c.braces, depth, stage, knows)
  BY DEF Scoped
<1>3. Len(c.locals) >= Len(c.env) + 1 /\ Len(c.env) \in Nat /\ Len(c.locals) \in Nat
  BY ScopedTypes
<1>4. c.locals # <<>>
  BY <1>1, <1>3
<1>5. Len(c.braces) = depth
  BY <1>2 DEF ScopedAs
<1>6. QED
  BY <1>1, <1>2, <1>3, <1>4, <1>5 DEF LastLocal

LEMMA ScopeBegun ==
  ASSUME NEW c \in CompilerRecord, NEW depth, NEW stage, NEW knows,
         Scoped(c, depth, stage, knows), stage # "dropping"
  PROVE  LET e == [c EXCEPT !.scope_depth = @ + 1, !.braces = Append(@, Len(c.env))]
         IN  e \in CompilerRecord /\ Rescoped(c, e) /\ Scoped(e, depth + 1, stage, {})
<1> DEFINE braces == Append(c.braces, Len(c.env))
           e == [c EXCEPT !.scope_depth = c.scope_depth + 1, !.braces = braces]
<1>1. /\ c.locals \in Seq(LocalRecord) /\ c.env \in Seq(EnvRecord) /\ c.braces \in Seq(Nat)
      /\ depth \in Nat /\ c.scope_depth = depth
      /\ ScopedAs(c.id, c.locals, c.env, c.braces, depth, stage, knows)
  BY ScopedParts
<1>2. ScopedAs(c.id, c.locals, c.env, braces, depth + 1, stage, {})
  BY <1>1, ScopeBegins
<1>3. braces \in Seq(Nat) /\ c.scope_depth + 1 = depth + 1 /\ depth + 1 \in Nat
  BY <1>1
<1> HIDE DEF braces
<1>4. e \in CompilerRecord
  BY <1>3 DEF CompilerRecord
<1>5. /\ e.scope_depth = depth + 1 /\ e.braces = braces /\ e.id = c.id /\ e.locals = c.locals
      /\ e.env = c.env /\ e.upvalues = c.upvalues /\ e.code = c.code
  BY <1>3 DEF CompilerRecord
<1> HIDE DEF e
<1>6. e \in CompilerRecord /\ Rescoped(c, e) /\ Scoped(e, depth + 1, stage, {})
  BY <1>2, <1>4, <1>5 DEF Scoped, Rescoped
<1>7. QED
  BY <1>6 DEF e, braces

LEMMA ScopeForgotten ==
  ASSUME NEW c \in CompilerRecord, NEW depth, NEW knows, Scoped(c, depth, "none", knows), depth # 0
  PROVE  LET e == [c EXCEPT !.scope_depth = @ - 1, !.braces = Front(@),
                            !.env = SubSeq(@, 1, Last(c.braces))]
         IN  e \in CompilerRecord /\ Rescoped(c, e) /\ Scoped(e, depth - 1, "dropping", {})
<1> DEFINE braces == Front(c.braces)  env == SubSeq(c.env, 1, Last(c.braces))
           e == [c EXCEPT !.scope_depth = c.scope_depth - 1, !.braces = braces, !.env = env]
<1>1. /\ c.locals \in Seq(LocalRecord) /\ c.env \in Seq(EnvRecord) /\ c.braces \in Seq(Nat)
      /\ depth \in Nat \ {0} /\ c.scope_depth = depth /\ Len(c.braces) = depth
      /\ ScopedAs(c.id, c.locals, c.env, c.braces, depth, "none", knows)
  BY ScopedParts
<1>2. /\ Last(c.braces) \in Nat /\ Last(c.braces) <= Len(c.env)
      /\ ScopedAs(c.id, c.locals, env, braces, depth - 1, "dropping", {})
  BY <1>1, ScopeEnds
<1>3. env \in Seq(EnvRecord)
  BY <1>1, <1>2, PrefixFacts
<1>4. braces \in Seq(Nat) /\ c.scope_depth - 1 = depth - 1 /\ depth - 1 \in Nat
  <2>1. c.braces # <<>>
    BY <1>1
  <2>2. braces \in Seq(Nat)
    BY <1>1, <2>1, FrontFacts
  <2>3. QED
    BY <1>1, <2>2
<1> HIDE DEF braces, env
<1>5. e \in CompilerRecord
  BY <1>3, <1>4 DEF CompilerRecord
<1>6. /\ e.scope_depth = depth - 1 /\ e.braces = braces /\ e.id = c.id /\ e.locals = c.locals
      /\ e.env = env /\ e.upvalues = c.upvalues /\ e.code = c.code
  BY <1>4 DEF CompilerRecord
<1> HIDE DEF e
<1>7. e \in CompilerRecord /\ Rescoped(c, e) /\ Scoped(e, depth - 1, "dropping", {})
  BY <1>2, <1>5, <1>6 DEF Scoped, Rescoped
<1>8. QED
  BY <1>7 DEF e, braces, env

\* A compiler with other locals
LEMMA WithLocals ==
  ASSUME NEW c \in CompilerRecord, NEW depth, c.scope_depth = depth,
         NEW locals \in Seq(LocalRecord), NEW stage, NEW knows,
         ScopedAs(c.id, locals, c.env, c.braces, depth, stage, knows)
  PROVE  LET e == [c EXCEPT !.locals = locals]
         IN  /\ e \in CompilerRecord /\ Rescoped(c, e) /\ Scoped(e, depth, stage, knows)
             /\ e.locals = locals
<1> DEFINE e == [c EXCEPT !.locals = locals]
<1>1. e \in CompilerRecord
  BY DEF CompilerRecord
<1>2. /\ e.scope_depth = c.scope_depth /\ e.braces = c.braces /\ e.id = c.id /\ e.locals = locals
      /\ e.env = c.env /\ e.upvalues = c.upvalues /\ e.code = c.code
  BY DEF CompilerRecord
<1> HIDE DEF e
<1>3. e \in CompilerRecord /\ Rescoped(c, e) /\ Scoped(e, depth, stage, knows) /\ e.locals = locals
  BY <1>1, <1>2 DEF Scoped, Rescoped
<1>4. QED
  BY <1>3 DEF e

LEMMA BeginScopeMatches ==
  ASSUME NEW A \in State, NEW B \in State, Matches(A), Effect(Head(agenda), A, B), BeginScope
  PROVE  Matches(B)'
<1> DEFINE c == Current
           e == [c EXCEPT !.scope_depth = @ + 1, !.braces = Append(@, Len(c.env))]
<1>1. A.alive /\ BeginScopeEffect(A, B)
  BY DEF BeginScope, Making, Doing, Effect
<1>2. c \in CompilerRecord /\ Scoped(c, A.depth, A.stage, A.knows)
  BY <1>1, CurrentLocals
<1>3. /\ B.stage = A.stage /\ A.stage # "dropping" /\ B.depth = A.depth + 1
      /\ B.knows = {} /\ A.knows = {} /\ SameOuter(A, B) /\ SameFrames(A, B)
  BY <1>1 DEF BeginScopeEffect, SamePlaces, SameFrames
<1>4. e \in CompilerRecord /\ Rescoped(c, e) /\ Scoped(e, A.depth + 1, A.stage, {})
  BY <1>2, <1>3, ScopeBegun
<1>5. Update(e) /\ OnlyCompilers /\ UNCHANGED fuel
  BY DEF BeginScope, Making
<1> HIDE DEF e
<1>6. QED
  BY <1>1, <1>3, <1>4, <1>5, ScopingMatches DEF Rescoped

\* end_scope goes on with the locals: what it finds then
Ended(A) == Plain(A, 0, "dropping", A.depth - 1, {})

LEMMA EndScopeMatches ==
  ASSUME NEW A \in State, NEW B \in State, Matches(A), Effect(Head(agenda), A, B), EndScope
  PROVE  /\ Ended(A) \in State /\ Effect(<<"drop_locals">>, Ended(A), B)
         /\ Matches(Ended(A))'
<1> DEFINE c == Current  M == Ended(A)
           e == [c EXCEPT !.scope_depth = @ - 1, !.braces = Front(@),
                          !.env = SubSeq(@, 1, Last(c.braces))]
<1>1. A.alive /\ EndScopeEffect(A, B)
  BY DEF EndScope, Doing, Effect
<1>2. c \in CompilerRecord /\ Scoped(c, A.depth, A.stage, A.knows)
  BY <1>1, CurrentLocals
<1>3. /\ A.stage = "none" /\ A.knows = {} /\ A.depth \in Nat \ {0} /\ Between(B)
      /\ B.depth = A.depth - 1 /\ SameOuter(A, B) /\ B.loop = A.loop /\ SamePlaces(A, B)
      /\ B.cont = A.cont
  BY <1>1 DEF EndScopeEffect, Between, Ending, State
<1>4. IsPlain(A, M, 0, "dropping", A.depth - 1, {})
  <2>1. A.depth - 1 \in Nat /\ "dropping" \in Stages /\ {} \in SUBSET Binding /\ 0 \in Nat
    BY <1>3 DEF Stages
  <2>2. QED
    BY <2>1, PlainState DEF Ended
<1> HIDE DEF M
<1>5. /\ M \in State /\ M.stage = "dropping" /\ M.temps = 0 /\ M.knows = {} /\ M.depth = B.depth
      /\ SameOuter(A, M) /\ SameFrames(A, M) /\ SameAround(M, B) /\ M.alive
  BY <1>1, <1>3, <1>4 DEF IsPlain, SameOuter, SamePlaces, SameFrames, SameAround, SameScopes
<1>6. Effect(<<"drop_locals">>, M, B)
  BY <1>3, <1>5 DEF Effect, DropLocalsEffect, Calls
<1>7. e \in CompilerRecord /\ Rescoped(c, e) /\ Scoped(e, A.depth - 1, "dropping", {})
  BY <1>2, <1>3, ScopeForgotten
<1>8. Update(e) /\ OnlyCompilers /\ UNCHANGED fuel
  BY DEF EndScope
<1> HIDE DEF e
<1>9. Matches(M)'
  BY <1>1, <1>3, <1>5, <1>7, <1>8, ScopingMatches DEF Rescoped
<1>10. QED
  BY <1>5, <1>6, <1>9 DEF M

LEMMA DroppedType ==
  ASSUME NEW c \in CompilerRecord, NEW depth, Scoped(c, depth, "dropping", {})
  PROVE  /\ Left(c) => /\ DropLast(c) \in CompilerRecord /\ DropLast(c).upvalues = c.upvalues
                       /\ Scoped(DropLast(c), depth, "dropping", {})
         /\ ~Left(c) => Scoped(c, depth, "none", {})
<1> DEFINE shorter == [c EXCEPT !.locals = Front(c.locals)]
           op == IF LastLocal(c).is_captured THEN "CLOSE_UPVALUE" ELSE "POP"
           instr == Instruction(shorter, op, 0)
<1>1. /\ c.id \in Nat /\ c.locals \in Seq(LocalRecord) /\ c.env \in Seq(EnvRecord)
      /\ c.braces \in Seq(Nat) /\ c.scope_depth = depth /\ depth \in Nat
      /\ ScopedAs(c.id, c.locals, c.env, c.braces, depth, "dropping", {})
      /\ Len(c.locals) >= Len(c.env) + 1 /\ c.locals # <<>>
      /\ LastLocal(c) = c.locals[Len(c.locals)]
  BY ScopedParts
<1>2. ASSUME ~Left(c) PROVE Scoped(c, depth, "none", {})
  BY <1>1, <1>2, LocalDropped DEF Left, Scoped
<1>3. ASSUME Left(c)
      PROVE  /\ DropLast(c) \in CompilerRecord /\ DropLast(c).upvalues = c.upvalues
             /\ Scoped(DropLast(c), depth, "dropping", {})
  <2>1. ScopedAs(c.id, Front(c.locals), c.env, c.braces, depth, "dropping", {})
    BY <1>1, <1>3, LocalDropped DEF Left
  <2>2. Front(c.locals) \in Seq(LocalRecord)
    BY <1>1, FrontFacts
  <2>3. /\ shorter \in CompilerRecord /\ Rescoped(c, shorter)
        /\ Scoped(shorter, depth, "dropping", {})
    BY <1>1, <2>1, <2>2, WithLocals
  <2> HIDE DEF shorter
  <2>4. shorter.locals # <<>>
    BY <2>3, ScopedParts
  <2>5. op \in AllOps /\ 0 \in Int \cup Seq(UpvalueRecord)
    BY DEF AllOps
  <2> HIDE DEF op
  <2>6. instr \in InstrRecord
    BY <2>3, <2>4, <2>5, InstructionType
  <2> HIDE DEF instr
  <2>7. /\ Written(shorter, instr) \in CompilerRecord
        /\ SameLocals(shorter, Written(shorter, instr))
    BY <2>3, <2>6, WrittenType
  <2>8. DropLast(c) = Written(shorter, instr)
    BY DEF DropLast, Emitted, shorter, instr, op
  <2>9. Scoped(Written(shorter, instr), depth, "dropping", {})
    BY <2>3, <2>7, SameScoped
  <2>10. QED
    BY <2>3, <2>7, <2>8, <2>9 DEF SameLocals, Rescoped
<1>4. QED
  BY <1>2, <1>3

\* One local; the call goes on.
LEMMA DropLocalMatches ==
  ASSUME NEW A \in State, NEW B, Matches(A), Effect(Head(agenda), A, B), DropLocal
  PROVE  Matches(A)'
<1>1. A.alive /\ DropLocalsEffect(A, B)
  BY DEF DropLocal, Doing, Effect
<1>2. A.stage = "dropping" /\ A.knows = {}
  BY <1>1 DEF DropLocalsEffect
<1>3. Current \in CompilerRecord /\ Scoped(Current, A.depth, "dropping", {})
  BY <1>1, <1>2, CurrentLocals
<1>4. Update(DropLast(Current)) /\ Left(Current) /\ OnlyCompilers /\ UNCHANGED fuel
  BY DEF DropLocal
<1>5. SameOuter(A, A) /\ SameFrames(A, A)
  BY DEF SameOuter, SameFrames
<1>6. QED
  BY <1>1, <1>2, <1>3, <1>4, <1>5, DroppedType, ScopingMatches

\* The compiler stays as it is and means something else.
LEMMA RestagedMatches ==
  ASSUME NEW A \in State, NEW B \in State, A.alive, Matches(A), SameOuter(A, B), SameFrames(A, B),
         B.knows \subseteq A.knows, UNCHANGED <<unitVars, fuel>>,
         Scoped(Current, B.depth, B.stage, B.knows)
  PROVE  Matches(B)'
<1>1. Typed /\ Levels(A) /\ Current \in CompilerRecord
  BY CurrentLocals
<1>2. compilers \in Seq(CompilerRecord) /\ Len(compilers) \in Nat \ {0}
  BY <1>1, CurrentType DEF Typed
<1>3. Update(Current) /\ Current.upvalues = Current.upvalues
  BY <1>2 DEF Update, Current, unitVars
<1>4. OnlyCompilers /\ UNCHANGED fuel
  BY DEF OnlyCompilers, unitVars
<1>5. QED
  BY <1>1, <1>3, <1>4, ScopingMatches

LEMMA ScopeEndedMatches ==
  ASSUME NEW A \in State, NEW B \in State, Matches(A), Effect(Head(agenda), A, B), ScopeEnded
  PROVE  Matches(B)'
<1>1. A.alive /\ DropLocalsEffect(A, B)
  BY DEF ScopeEnded, Making, Doing, Effect
<1>2. /\ A.stage = "dropping" /\ A.knows = {} /\ B.stage = "none" /\ B.knows = {}
      /\ B.depth = A.depth /\ SameOuter(A, B) /\ SameFrames(A, B)
  BY <1>1 DEF DropLocalsEffect, Between, SameAround, SameScopes, SamePlaces, SameFrames
<1>3. Current \in CompilerRecord /\ Scoped(Current, A.depth, "dropping", {})
  BY <1>1, <1>2, CurrentLocals
<1>4. Scoped(Current, B.depth, "none", {})
  BY <1>2, <1>3, DroppedType DEF ScopeEnded
<1>5. UNCHANGED <<unitVars, fuel>>
  BY DEF ScopeEnded, Making
<1>6. QED
  BY <1>1, <1>2, <1>4, <1>5, RestagedMatches

\* A new local, not initialized
LEMMA DeclaredType ==
  ASSUME NEW c \in CompilerRecord, NEW depth, NEW stage, Scoped(c, depth, stage, {}),
         stage \notin {"declared", "dropping"},
         NEW name \in Names, NEW from \in Int, NEW to \in Int
  PROVE  LET e == [c EXCEPT !.locals = Append(@, Local(name, Uninitialized, from, to))]
         IN  e \in CompilerRecord /\ Rescoped(c, e) /\ Scoped(e, depth, "declared", {})
<1> DEFINE local == Local(name, Uninitialized, from, to)
<1>1. /\ c.locals \in Seq(LocalRecord) /\ c.env \in Seq(EnvRecord) /\ c.scope_depth = depth
      /\ ScopedAs(c.id, c.locals, c.env, c.braces, depth, stage, {})
  BY ScopedParts
<1>2. local \in LocalRecord /\ local.depth = Uninitialized /\ local.name = name
  <2>1. Uninitialized \in Int
    BY DEF Uninitialized
  <2>2. name \in Names \cup {""}
    BY Zenon
  <2>3. QED
    BY <2>1, <2>2 DEF Local, LocalRecord
<1> HIDE DEF local
<1>3. /\ ScopedAs(c.id, Append(c.locals, local), c.env, c.braces, depth, "declared", {})
      /\ Append(c.locals, local) \in Seq(LocalRecord)
  BY <1>1, <1>2, VariableParsed
<1>4. LET e == [c EXCEPT !.locals = Append(c.locals, local)]
      IN  e \in CompilerRecord /\ Rescoped(c, e) /\ Scoped(e, depth, "declared", {})
  BY <1>1, <1>3, WithLocals
<1>5. QED
  BY <1>4 DEF local

LEMMA InitializedType ==
  ASSUME NEW c \in CompilerRecord, NEW depth, Scoped(c, depth, "declared", {})
  PROVE  /\ Initialized(c) \in CompilerRecord /\ Rescoped(c, Initialized(c))
         /\ Scoped(Initialized(c), depth, "named", {})
<1> DEFINE n == Len(c.locals)  last == c.locals[n]
           named == [c.locals EXCEPT ![n] = [last EXCEPT !.depth = c.scope_depth]]
           new == [name |-> last.name, decl |-> <<c.id, last.from>>]
           env == Append(c.env, new)
           e == [c EXCEPT !.locals = named, !.env = env]
<1>1. /\ c.locals \in Seq(LocalRecord) /\ c.env \in Seq(EnvRecord) /\ c.scope_depth = depth
      /\ c.id \in Nat /\ c.braces \in Seq(Nat) /\ depth \in Nat /\ c.locals # <<>>
      /\ ScopedAs(c.id, c.locals, c.env, c.braces, depth, "declared", {})
      /\ LastLocal(c) = last
  BY ScopedParts
<1>2. n \in Nat \ {0} /\ last \in LocalRecord
  BY <1>1
<1>3. /\ [last EXCEPT !.depth = c.scope_depth] \in LocalRecord
      /\ [last EXCEPT !.depth = c.scope_depth].name = last.name
      /\ [last EXCEPT !.depth = c.scope_depth].from = last.from
      /\ [last EXCEPT !.depth = c.scope_depth].depth = depth
  <2> HIDE DEF last
  <2>1. c.scope_depth \in Int
    BY <1>1
  <2>2. QED
    BY <1>1, <1>2, <2>1 DEF LocalRecord
<1>4. /\ named \in Seq(LocalRecord) /\ Len(named) = n
      /\ \A i \in 1..n : named[i] = IF i = n THEN [last EXCEPT !.depth = c.scope_depth]
                                    ELSE c.locals[i]
  BY <1>1, <1>2, <1>3, ReplacedElement
<1> HIDE DEF named
<1>5. \A i \in 1..n : /\ named[i].name = c.locals[i].name /\ named[i].from = c.locals[i].from
                      /\ named[i].depth = IF i = n THEN depth ELSE c.locals[i].depth
  BY <1>3, <1>4
<1>6. /\ env \in Seq(EnvRecord)
      /\ ScopedAs(c.id, named, env, c.braces, depth, "named", {})
  BY <1>1, <1>4, <1>5, VariableNamed
<1>7. Initialized(c) = e
  BY <1>1 DEF Initialized, named, CompilerRecord
<1> HIDE DEF env
<1>8. /\ e \in CompilerRecord /\ e.locals = named /\ e.env = env /\ e.id = c.id
      /\ e.upvalues = c.upvalues /\ e.code = c.code /\ e.braces = c.braces
      /\ e.scope_depth = c.scope_depth
  BY <1>4, <1>6 DEF CompilerRecord
<1> HIDE DEF e
<1>9. QED
  BY <1>1, <1>6, <1>7, <1>8 DEF Scoped, Rescoped

LEMMA ParseVariableMatches ==
  ASSUME NEW A \in State, NEW B \in State, Matches(A), Effect(Head(agenda), A, B), ParseVariable
  PROVE  Matches(B)'
<1> DEFINE c == Current  name == Arg(1)
           e == [c EXCEPT !.locals = Append(@, Local(name, Uninitialized, Here(c), 0))]
<1>1. A.alive /\ ParseVariableEffect(name, A, B)
  BY DEF ParseVariable, Making, Doing, Effect, Arg
<1>2. /\ name \in Names /\ A.stage = "none" /\ A.knows = {} /\ B.stage = "declared"
      /\ B.knows = {} /\ B.depth = A.depth /\ SameOuter(A, B) /\ SameFrames(A, B)
  BY <1>1 DEF ParseVariableEffect, Between, SameAround, SameScopes, SamePlaces, SameFrames
<1>3. c \in CompilerRecord /\ Scoped(c, A.depth, "none", {}) /\ Here(c) \in Int /\ 0 \in Int
  <2>1. Here(c) \in Nat
    BY <1>1, CurrentLocals
  <2>2. Here(c) \in Int
    BY <2>1
  <2>3. c \in CompilerRecord /\ Scoped(c, A.depth, "none", {})
    BY <1>1, <1>2, CurrentLocals
  <2>4. QED
    BY <2>2, <2>3
<1>4. e \in CompilerRecord /\ Rescoped(c, e) /\ Scoped(e, A.depth, "declared", {})
  BY <1>2, <1>3, DeclaredType
<1>5. Update(e) /\ OnlyCompilers /\ UNCHANGED fuel
  BY DEF ParseVariable, Making
<1> HIDE DEF e
<1>6. QED
  BY <1>1, <1>2, <1>4, <1>5, ScopingMatches DEF Rescoped

LEMMA MarkInitializedMatches ==
  ASSUME NEW A \in State, NEW B \in State, Matches(A), Effect(Head(agenda), A, B), MarkInitialized
  PROVE  Matches(B)'
<1> DEFINE c == Current
<1>1. A.alive /\ MarkInitializedEffect(A, B)
  BY DEF MarkInitialized, Making, Doing, Effect
<1>2. /\ A.stage = "declared" /\ A.knows = {} /\ B.stage = "named"
      /\ B.knows = {} /\ B.depth = A.depth /\ SameOuter(A, B) /\ SameFrames(A, B)
  BY <1>1 DEF MarkInitializedEffect, SameAround, SameScopes, SamePlaces, SameFrames
<1>3. c \in CompilerRecord /\ Scoped(c, A.depth, "declared", {})
  BY <1>1, <1>2, CurrentLocals
<1>4. /\ Initialized(c) \in CompilerRecord /\ Rescoped(c, Initialized(c))
      /\ Scoped(Initialized(c), A.depth, "named", {})
  BY <1>3, InitializedType
<1>5. Update(Initialized(c)) /\ OnlyCompilers /\ UNCHANGED fuel
  BY DEF MarkInitialized, Making
<1>6. QED
  BY <1>1, <1>2, <1>4, <1>5, ScopingMatches DEF Rescoped

LEMMA DefinedType ==
  ASSUME NEW c \in CompilerRecord, NEW depth, Scoped(c, depth, "named", {})
  PROVE  LET e == [c EXCEPT !.locals[Len(c.locals)].to = Len(c.code)]
         IN  e \in CompilerRecord /\ Rescoped(c, e) /\ Scoped(e, depth, "none", {})
<1> DEFINE n == Len(c.locals)  last == c.locals[n]
           done == [last EXCEPT !.to = Len(c.code)]
           locals == [c.locals EXCEPT ![n] = done]
<1>1. /\ c.locals \in Seq(LocalRecord) /\ c.scope_depth = depth /\ c.locals # <<>>
      /\ ScopedAs(c.id, c.locals, c.env, c.braces, depth, "named", {})
      /\ c.env \in Seq(EnvRecord) /\ Len(c.locals) >= Len(c.env) + 1
  BY ScopedParts
<1>2. n \in Nat \ {0} /\ last \in LocalRecord /\ Len(c.code) \in Int
  BY <1>1, CompilerParts
<1>3. /\ done \in LocalRecord /\ done.name = last.name /\ done.from = last.from
      /\ done.depth = last.depth
  <2> HIDE DEF last
  <2>1. QED
    BY <1>2 DEF LocalRecord
<1> HIDE DEF done
<1>4. /\ locals \in Seq(LocalRecord) /\ Len(locals) = n
      /\ \A i \in 1..n : locals[i] = IF i = n THEN done ELSE c.locals[i]
  BY <1>1, <1>2, <1>3, ReplacedElement
<1>5. \A i \in 1..n : /\ locals[i].name = c.locals[i].name
                      /\ locals[i].depth = c.locals[i].depth
                      /\ locals[i].from = c.locals[i].from
  BY <1>3, <1>4
<1> HIDE DEF locals
<1>6. ScopedAs(c.id, locals, c.env, c.braces, depth, "named", {})
  BY <1>1, <1>4, <1>5, LocalsAlike
<1>7. ScopedAs(c.id, locals, c.env, c.braces, depth, "none", {})
  BY <1>6, StageAlike
<1>8. LET e == [c EXCEPT !.locals = locals]
      IN  e \in CompilerRecord /\ Rescoped(c, e) /\ Scoped(e, depth, "none", {})
  BY <1>1, <1>4, <1>7, WithLocals
<1>9. [c EXCEPT !.locals[n].to = Len(c.code)] = [c EXCEPT !.locals = locals]
  BY DEF locals, done
<1>10. QED
  BY <1>8, <1>9

LEMMA DefinedMatches ==
  ASSUME NEW A \in State, NEW B \in State, Matches(A), Effect(Head(agenda), A, B), Defined
  PROVE  Matches(B)'
<1> DEFINE c == Current  e == [c EXCEPT !.locals[Len(c.locals)].to = Len(c.code)]
<1>1. A.alive /\ DefinedEffect(A, B)
  BY DEF Defined, Making, Doing, Effect
<1>2. /\ A.stage = "named" /\ A.knows = {} /\ B.stage = "none"
      /\ B.knows = {} /\ B.depth = A.depth /\ SameOuter(A, B) /\ SameFrames(A, B)
  BY <1>1 DEF DefinedEffect, Between, SameAround, SameScopes, SamePlaces, SameFrames
<1>3. c \in CompilerRecord /\ Scoped(c, A.depth, "named", {})
  BY <1>1, <1>2, CurrentLocals
<1>4. e \in CompilerRecord /\ Rescoped(c, e) /\ Scoped(e, A.depth, "none", {})
  BY <1>3, DefinedType
<1>5. Update(e) /\ OnlyCompilers /\ UNCHANGED fuel
  BY DEF Defined, Making
<1> HIDE DEF e
<1>6. QED
  BY <1>1, <1>2, <1>4, <1>5, ScopingMatches DEF Rescoped

LEMMA ParameterMatches ==
  ASSUME NEW A \in State, NEW B \in State, Matches(A), Effect(Head(agenda), A, B), Parameter
  PROVE  Matches(B)'
<1> DEFINE c == Current  name == Arg(1)  slot == Len(c.locals) + 1
           counted == [c EXCEPT !.arity = @ + 1]
           e == [counted EXCEPT !.locals = Append(@, Local(name, Uninitialized, -slot, -slot))]
<1>1. A.alive /\ ParameterEffect(name, A, B)
  BY DEF Parameter, Making, Doing, Effect, Arg
<1>2. /\ name \in Names /\ A.stage = "parameters" /\ A.knows = {} /\ B.stage = "parameters"
      /\ B.knows = {} /\ B.depth = A.depth /\ SameOuter(A, B) /\ SameFrames(A, B)
  BY <1>1 DEF ParameterEffect, SameAround, SameScopes, SamePlaces, SameFrames
<1>3. c \in CompilerRecord /\ Scoped(c, A.depth, "parameters", {}) /\ Len(c.locals) \in Nat
  BY <1>1, <1>2, CurrentLocals
<1>4. counted \in CompilerRecord /\ SameLocals(c, counted)
  <2>1. c.arity + 1 \in Nat
    BY <1>3, CompilerParts
  <2>2. QED
    BY <1>3, <2>1 DEF CompilerRecord, SameLocals
<1>5. -slot \in Int
  BY <1>3
<1> HIDE DEF slot
<1>6. Scoped(counted, A.depth, "parameters", {})
  BY <1>3, <1>4, SameScoped
<1>7. e = [c EXCEPT !.arity = @ + 1, !.locals = Append(@, Local(name, Uninitialized, -slot, -slot))]
  BY <1>3 DEF CompilerRecord
<1> HIDE DEF counted
<1>8. e \in CompilerRecord /\ Rescoped(counted, e) /\ Scoped(e, A.depth, "declared", {})
  BY <1>2, <1>4, <1>5, <1>6, DeclaredType
<1> HIDE DEF e
<1>9. /\ Initialized(e) \in CompilerRecord /\ Rescoped(e, Initialized(e))
      /\ Scoped(Initialized(e), A.depth, "named", {})
  BY <1>8, InitializedType
<1>10. Scoped(Initialized(e), A.depth, "parameters", {})
  BY <1>9, StageAlike DEF Scoped
<1>11. Update(Initialized(e)) /\ OnlyCompilers /\ UNCHANGED fuel
  BY <1>7 DEF Parameter, Making, slot
<1>12. Initialized(e).upvalues = c.upvalues
  BY <1>4, <1>8, <1>9 DEF SameLocals, Rescoped
<1>13. QED
  BY <1>1, <1>2, <1>9, <1>10, <1>11, <1>12, ScopingMatches

LEMMA NoMoreParametersMatches ==
  ASSUME NEW A \in State, NEW B \in State, Matches(A), Effect(Head(agenda), A, B),
         NoMoreParameters
  PROVE  Matches(B)'
<1>1. A.alive /\ ParametersEffect(A, B)
  BY DEF NoMoreParameters, Making, Doing, Effect
<1>2. /\ A.stage = "parameters" /\ A.knows = {} /\ B.stage = "none" /\ B.knows = {}
      /\ B.depth = A.depth /\ SameOuter(A, B) /\ SameFrames(A, B)
  BY <1>1 DEF ParametersEffect, Between, SameAround, SameScopes, SamePlaces, SameFrames
<1>3. Scoped(Current, A.depth, "parameters", {})
  BY <1>1, <1>2, CurrentLocals
<1>4. Scoped(Current, B.depth, "none", {})
  BY <1>2, <1>3, StageAlike DEF Scoped
<1>5. UNCHANGED <<unitVars, fuel>>
  BY DEF NoMoreParameters, Making
<1>6. QED
  BY <1>1, <1>2, <1>4, <1>5, RestagedMatches

LEMMA BlockEndsMatches ==
  ASSUME NEW A \in State, NEW B \in State, Matches(A), Effect(Head(agenda), A, B), BlockEnds
  PROVE  Matches(B)'
<1>1. A.alive /\ StatementEffect(A, B)
  BY DEF BlockEnds, Making, Doing, Effect
<1>2. UNCHANGED <<unitVars, fuel>> /\ Keeping(A, B)
  BY <1>1, StatementKeeping DEF BlockEnds, Making
<1>3. QED
  BY <1>1, <1>2, NothingMatches

-----------------------------------------------------------------------------
(* Functions *)

LEMMA NewCompilerType ==
  ASSUME NEW id \in Nat, NEW type \in Kinds, NEW amid \in BOOLEAN
  PROVE  /\ NewCompiler(id, type, amid) \in CompilerRecord
         /\ NewCompiler(id, type, amid).upvalues = <<>>
         /\ NewCompiler(id, type, amid).code = <<>>
         /\ NewCompiler(id, type, amid).id = id
         /\ Scoped(NewCompiler(id, type, amid), 0, "parameters", {})
<1> DEFINE c == NewCompiler(id, type, amid)  slot == Local("", 0, -1, -1)
<1>1. slot \in LocalRecord /\ slot.name = "" /\ slot.depth = 0
  <2>1. -1 \in Int /\ 0 \in Int
    OBVIOUS
  <2>2. "" \in Names \cup {""}
    BY Zenon
  <2> DEFINE x == -1
  <2>3. x \in Int
    BY <2>1
  <2> HIDE DEF x
  <2>4. /\ Local("", 0, x, x) \in LocalRecord /\ Local("", 0, x, x).name = ""
        /\ Local("", 0, x, x).depth = 0
    BY <2>1, <2>2, <2>3 DEF Local, LocalRecord
  <2>5. QED
    BY <2>4 DEF x
<1> HIDE DEF slot
<1> DEFINE locals == <<slot>>
<1>2. locals \in Seq(LocalRecord) /\ Len(locals) = 1 /\ locals[1] = slot
  <2>1. \A x \in LocalRecord : <<x>> \in Seq(LocalRecord)
    <3> DEFINE S == LocalRecord
    <3> HIDE DEF S
    <3>1. \A x \in S : <<x>> \in Seq(S)
      OBVIOUS
    <3>2. QED
      BY <3>1 DEF S
  <2>2. Len(<<slot>>) = 1 /\ <<slot>>[1] = slot
    OBVIOUS
  <2>3. <<slot>> \in Seq(LocalRecord)
    BY <1>1, <2>1, Zenon
  <2>4. QED
    BY <2>2, <2>3, Zenon
<1> HIDE DEF locals
<1>3. c = [id |-> id, type |-> type, arity |-> 0, scope_depth |-> 0,
           locals |-> locals, upvalues |-> <<>>, code |-> <<>>,
           env |-> <<>>, braces |-> <<>>, starts |-> {}, amid |-> amid, corrupt |-> FALSE]
  BY Zenon DEF NewCompiler, slot, locals
<1>4. <<>> \in Seq(UpvalueRecord) /\ <<>> \in Seq(InstrRecord) /\ <<>> \in Seq(EnvRecord)
  OBVIOUS
<1>5. <<>> \in Seq(Nat) /\ {} \in SUBSET (Nat \X Scopes)
  OBVIOUS
<1>6. c \in CompilerRecord
  BY <1>2, <1>3, <1>4, <1>5 DEF CompilerRecord
<1>7. /\ c.upvalues = <<>> /\ c.code = <<>> /\ c.scope_depth = 0 /\ c.id = id
      /\ c.locals = locals /\ c.env = <<>> /\ c.braces = <<>>
  BY <1>3
<1> HIDE DEF c
<1>8. Len(<<>>) = 0 /\ 1..0 = {}
  OBVIOUS
<1>9. ScopedAs(id, locals, <<>>, <<>>, 0, "parameters", {})
  <2>1. LocalsAt(locals, <<>>, 0, "parameters")
    BY <1>2, <1>8 DEF LocalsAt
  <2>2. KnowsLocals(id, locals, <<>>, {})
    BY DEF KnowsLocals
  <2>3. locals[1].name = "" /\ locals[1].depth = 0
    BY <1>1, <1>2
  <2>4. \A j \in 1..Len(<<>>) : InEnv(id, locals, <<>>, 0, j)
    BY <1>8
  <2>5. \A b \in 1..0 : BraceAt(locals, <<>>, <<>>[b], b)
    BY <1>8
  <2>6. QED
    BY <1>8, <2>1, <2>2, <2>3, <2>4, <2>5, Zenon DEF ScopedAs
<1>10. Scoped(c, 0, "parameters", {})
  BY <1>7, <1>9 DEF Scoped
<1>11. QED
  BY <1>6, <1>7, <1>10 DEF c

\* The upvalues of the functions around a new one reach what they reached.
LEMMA ReachingMore ==
  ASSUME NEW n \in Nat, n = Len(compilers), NEW d, Reaching(d), NEW new, new.upvalues = <<>>,
         Len(compilers') = n + 1, compilers'[n + 1] = new,
         \A k \in 1..n : compilers'[k] = compilers[k]
  PROVE  \E e : Reaching(e)' /\ \A k \in 1..n : e[k] = d[k]
<1> SUFFICES ASSUME NEW e, e = [k \in 1..n + 1 |-> IF k = n + 1 THEN <<>> ELSE d[k]]
             PROVE  Reaching(e)' /\ \A k \in 1..n : e[k] = d[k]
  OBVIOUS
<1>1. d \in [1..n -> Seq(Decl)]
  BY DEF Reaching
<1>2. e \in [1..n + 1 -> Seq(Decl)] /\ e[n + 1] = <<>> /\ \A k \in 1..n : e[k] = d[k]
  BY <1>1
<1>3. ASSUME NEW k \in 1..n, NEW i, Reaches(k, i, d)
      PROVE  Reaches(k, i, e)'
  <2>1. k - 1 \in 1..n
    BY <1>3 DEF Reaches
  <2>2. e[k] = d[k] /\ e[k - 1] = d[k - 1] /\ compilers'[k] = compilers[k]
        /\ compilers'[k - 1] = compilers[k - 1]
    BY <1>2, <2>1
  <2>3. QED
    BY <1>3, <2>2 DEF Reaches
<1>4. ASSUME NEW k \in 1..n + 1
      PROVE  /\ Len(e[k]) = Len(compilers'[k].upvalues)
             /\ \A i \in 1..Len(compilers'[k].upvalues) : Reaches(k, i, e)'
  <2>1. CASE k = n + 1
    <3>1. Len(<<>>) = 0 /\ 1..0 = {}
      OBVIOUS
    <3>2. compilers'[k].upvalues = <<>> /\ e[k] = <<>>
      BY <1>2, <2>1
    <3>3. QED
      BY <3>1, <3>2
  <2>2. CASE k \in 1..n
    <3>1. /\ Len(d[k]) = Len(compilers[k].upvalues)
          /\ \A i \in 1..Len(compilers[k].upvalues) : Reaches(k, i, d)
      BY <2>2 DEF Reaching
    <3>2. compilers'[k] = compilers[k] /\ e[k] = d[k]
      BY <1>2, <2>2
    <3>3. QED
      BY <1>3, <2>2, <3>1, <3>2
  <2>3. QED
    BY <2>1, <2>2
<1>5. Reaching(e)'
  BY <1>2, <1>4 DEF Reaching
<1>6. QED
  BY <1>2, <1>5

LEMMA CompilerInitMatches ==
  ASSUME NEW A \in State, NEW B \in State, Matches(A), Effect(Head(agenda), A, B), CompilerInit
  PROVE  Matches(B)'
<1> DEFINE n == Len(compilers)
           new == NewCompiler(Len(functions) + n + 1, Arg(1), breaks # <<>>)
<1>1. A.alive /\ CompilerInitEffect(Arg(1), A, B)
  BY DEF CompilerInit, Making, Doing, Effect, Arg
<1>2. /\ Arg(1) \in Kinds /\ A.stage \in Waiting /\ B.alive
      /\ B.outer = Append(A.outer, LevelOf(A)) /\ B.depth = 0 /\ B.stage = "parameters"
      /\ B.knows = {} /\ SameFrames(A, B)
  BY <1>1 DEF CompilerInitEffect, Waiting, SamePlaces, SameFrames
<1>3. /\ Typed /\ Levels(A) /\ Frames(A) /\ Scoped(compilers[n], A.depth, A.stage, A.knows)
      /\ compilers \in Seq(CompilerRecord)
  BY <1>1, CurrentLocals DEF Current, Typed
<1>4. n = Top(A) /\ n \in Nat \ {0} /\ Len(A.outer) = n - 1
  BY <1>3, CurrentType
<1>5. /\ new \in CompilerRecord /\ new.upvalues = <<>> /\ Scoped(new, 0, "parameters", {})
  <2>1. Len(functions) + n + 1 \in Nat
    BY <1>3, <1>4 DEF Typed
  <2>2. (breaks # <<>>) \in BOOLEAN
    OBVIOUS
  <2>3. QED
    BY <1>2, <2>1, <2>2, NewCompilerType, Zenon
<1> HIDE DEF new
<1>6. compilers' = Append(compilers, new)
  BY DEF CompilerInit, new
<1>7. /\ compilers' \in Seq(CompilerRecord) /\ Len(compilers') = n + 1
      /\ compilers'[n + 1] = new /\ \A k \in 1..n : compilers'[k] = compilers[k]
  BY <1>3, <1>5, <1>6, AppendFacts
<1>8. /\ Len(B.outer) = n /\ B.outer[n] = LevelOf(A)
      /\ \A k \in 1..n - 1 : B.outer[k] = A.outer[k]
  <2>1. A.outer \in Seq(Level) /\ LevelOf(A) \in Level
    BY DEF State, LevelOf, Level
  <2>2. QED
    BY <1>2, <1>4, <2>1
<1>9. LevelOf(A).stage = A.stage /\ LevelOf(A).depth = A.depth /\ LevelOf(A).knows = A.knows
  BY DEF LevelOf
<1>10. \A k \in 1..n : k = n \/ k \in 1..n - 1
  BY <1>4
<1> SUFFICES ASSUME NEW m, m = n PROVE Matches(B)'
  OBVIOUS
<1> HIDE DEF n
<1>11. Typed'
  BY <1>3, <1>7 DEF Typed, CompilerInit, Making, OnlyCompilers
<1>12. Frames(B)'
  BY <1>2, <1>3, FramesKept DEF CompilerInit, OnlyCompilers
<1>13. Levels(B)'
  <2>1. Top(B) = m + 1
    BY <1>4, <1>8 DEF Top
  <2>2. ASSUME NEW k \in 1..m
        PROVE  /\ B.outer[k].stage \in Waiting
               /\ Scoped(compilers'[k], B.outer[k].depth, B.outer[k].stage, B.outer[k].knows)
    <3>1. CASE k = m
      BY <1>2, <1>3, <1>7, <1>8, <1>9, <3>1
    <3>2. CASE k \in 1..m - 1
      BY <1>3, <1>4, <1>7, <1>8, <3>2 DEF Levels
    <3>3. QED
      BY <1>10, <3>1, <3>2
  <2>3. Scoped(compilers'[m + 1], B.depth, B.stage, B.knows)
    BY <1>2, <1>5, <1>7
  <2>4. QED
    BY <1>7, <1>8, <2>1, <2>2, <2>3 DEF Levels
<1>14. \E e : Upvalues(B, e)'
  <2>1. PICK d : Upvalues(A, d)
    BY <1>1 DEF Matches
  <2>2. PICK e : Reaching(e)' /\ \A k \in 1..m : e[k] = d[k]
    BY <1>4, <1>5, <1>7, <2>1, ReachingMore DEF Upvalues, n
  <2>3. ASSUME NEW k \in 1..m PROVE KnowsUpvalues(e, k, B.outer[k].knows)
    <3>1. CASE k = m
      <4>1. KnowsUpvalues(d, k, A.knows)
        BY <1>4, <2>1, <3>1 DEF Upvalues
      <4>2. QED
        BY <1>8, <1>9, <2>2, <3>1, <4>1 DEF KnowsUpvalues
    <3>2. CASE k \in 1..m - 1
      <4>1. KnowsUpvalues(d, k, A.outer[k].knows)
        BY <1>4, <2>1, <3>2 DEF Upvalues
      <4>2. QED
        BY <1>8, <2>2, <3>2, <4>1 DEF KnowsUpvalues
    <3>3. QED
      BY <1>10, <3>1, <3>2
  <2>4. KnowsUpvalues(e, Top(B), B.knows)
    BY <1>2 DEF KnowsUpvalues
  <2>5. QED
    BY <1>8, <2>2, <2>3, <2>4 DEF Upvalues
<1>15. QED
  BY <1>2, <1>11, <1>12, <1>13, <1>14 DEF Matches

LEMMA EmittedType ==
  ASSUME NEW c \in CompilerRecord, c.locals # <<>>,
         NEW op \in AllOps, NEW arg \in Int \cup Seq(UpvalueRecord)
  PROVE  /\ Emitted(c, op, arg) \in CompilerRecord /\ SameLocals(c, Emitted(c, op, arg))
         /\ Emitted(c, op, arg).code = Append(c.code, Instruction(c, op, arg))
BY InstructionType, WrittenType DEF Emitted

LEMMA ReturnedType ==
  ASSUME NEW c \in CompilerRecord, c.locals # <<>>
  PROVE  Returned(c) \in CompilerRecord /\ SameLocals(c, Returned(c))
<1> DEFINE s == Started(c)
<1>1. s \in CompilerRecord /\ SameLocals(c, s) /\ s.locals # <<>>
  BY StartedType DEF SameLocals
<1> DEFINE t == Emitted(s, "CONSTANT", 0)
<1> HIDE DEF s
<1>2. 0 \in Int \cup Seq(UpvalueRecord) /\ "CONSTANT" \in AllOps /\ "RETURN" \in AllOps
  BY DEF AllOps
<1>3. t \in CompilerRecord /\ SameLocals(s, t) /\ t.locals # <<>>
  BY <1>1, <1>2, EmittedType DEF SameLocals
<1> DEFINE u == Emitted(t, "RETURN", 0)
<1> HIDE DEF t
<1>4. u \in CompilerRecord /\ SameLocals(t, u)
  BY <1>2, <1>3, EmittedType
<1>5. SameLocals(c, u)
  <2> HIDE DEF u
  <2>1. QED
    BY <1>1, <1>3, <1>4 DEF SameLocals
<1>6. Returned(c) = u
  BY DEF Returned, u, t, s
<1>7. QED
  BY <1>4, <1>5, <1>6

\* The upvalues reach what they reached without the functions inside.
LEMMA ReachingFewer ==
  ASSUME NEW m \in Nat, NEW n \in Nat, n = Len(compilers), m <= n, NEW d, Reaching(d),
         Len(compilers') = m, \A k \in 1..m : SameLocals(compilers[k], compilers'[k])
  PROVE  \E e : Reaching(e)' /\ \A k \in 1..m : e[k] = d[k]
<1> SUFFICES ASSUME NEW e, e = [k \in 1..m |-> d[k]]
             PROVE  Reaching(e)' /\ \A k \in 1..m : e[k] = d[k]
  OBVIOUS
<1>1. d \in [1..n -> Seq(Decl)]
  BY DEF Reaching
<1>2. e \in [1..m -> Seq(Decl)] /\ \A k \in 1..m : e[k] = d[k]
  BY <1>1
<1>3. ASSUME NEW k \in 1..m, NEW i, Reaches(k, i, d)
      PROVE  Reaches(k, i, e)'
  <2>1. k - 1 \in 1..m
    BY <1>3 DEF Reaches
  <2>2. e[k] = d[k] /\ e[k - 1] = d[k - 1] /\ SameLocals(compilers[k], compilers'[k])
        /\ SameLocals(compilers[k - 1], compilers'[k - 1])
    BY <1>2, <2>1
  <2>3. QED
    BY <1>3, <2>2 DEF Reaches, SameLocals
<1>4. ASSUME NEW k \in 1..m
      PROVE  /\ Len(e[k]) = Len(compilers'[k].upvalues)
             /\ \A i \in 1..Len(compilers'[k].upvalues) : Reaches(k, i, e)'
  <2>1. k \in 1..n
    OBVIOUS
  <2>2. /\ Len(d[k]) = Len(compilers[k].upvalues)
        /\ \A i \in 1..Len(compilers[k].upvalues) : Reaches(k, i, d)
    BY <2>1 DEF Reaching
  <2>3. compilers'[k].upvalues = compilers[k].upvalues /\ e[k] = d[k]
    BY <1>2 DEF SameLocals
  <2>4. QED
    BY <1>3, <2>2, <2>3
<1>5. Reaching(e)'
  BY <1>2, <1>4 DEF Reaching
<1>6. QED
  BY <1>2, <1>5

LEMMA EndCompilationMatches ==
  ASSUME NEW A \in State, NEW B \in State, Matches(A), Effect(Head(agenda), A, B),
         EndCompilation
  PROVE  Matches(B)'
<1>1. A.alive /\ EndCompilationEffect(A, B)
  BY DEF EndCompilation, Making, Doing, Effect
<1>2. SameFrames(A, B) /\ A.outer \in Seq(Level)
  BY <1>1 DEF EndCompilationEffect, SamePlaces, SameFrames, State
<1>3. /\ Typed /\ Levels(A) /\ Frames(A) /\ Current \in CompilerRecord /\ Current.locals # <<>>
      /\ compilers \in Seq(CompilerRecord)
  BY <1>1, CurrentLocals DEF Typed
<1> SUFFICES ASSUME NEW n, n = Len(compilers) PROVE Matches(B)'
  OBVIOUS
<1>4. n = Top(A) /\ n \in Nat \ {0} /\ Len(A.outer) = n - 1
  BY <1>3, CurrentType
<1>5. Frames(B)'
  BY <1>2, <1>3, FramesKept DEF EndCompilation
<1> DEFINE c == Returned(Current)
<1>6. c \in CompilerRecord
  BY <1>3, ReturnedType
<1>7. functions' \in Seq(FunctionRecord)
  <2> DEFINE f == [code |-> c.code, starts |-> c.starts, arity |-> c.arity,
                   amid |-> c.amid, corrupt |-> c.corrupt]
  <2>1. f \in FunctionRecord
    <3> HIDE DEF c
    <3>1. QED
      BY <1>6, CompilerParts DEF FunctionRecord
  <2>2. functions' = Append(functions, f) /\ functions \in Seq(FunctionRecord)
    BY <1>3 DEF EndCompilation, Typed
  <2> HIDE DEF f
  <2>3. QED
    BY <2>1, <2>2
<1> DEFINE outer == Front(compilers)
<1>8. compilers' = IF outer = <<>> THEN <<>>
                   ELSE [outer EXCEPT ![Len(outer)] = Emitted(@, "CLOSURE", c.upvalues)]
  BY DEF EndCompilation
<1>9. /\ outer \in Seq(CompilerRecord) /\ Len(outer) = n - 1
      /\ \A k \in 1..n - 1 : outer[k] = compilers[k]
  <2>1. compilers # <<>>
    BY <1>3, <1>4, NotEmpty
  <2>2. QED
    BY <1>3, <2>1, FrontFacts
<1>10. c.upvalues \in Seq(UpvalueRecord)
  BY <1>6, CompilerParts
<1>11. UNCHANGED <<saved, breaks, continueJump, fuel>>
  BY DEF EndCompilation, Making
<1> HIDE DEF c, outer
<1>12. CASE n = 1
  <2>1. outer = <<>> /\ A.outer = <<>>
    BY <1>2, <1>4, <1>9, <1>12, NotEmpty
  <2>2. compilers' = <<>> /\ B.alive = FALSE
    BY <1>1, <1>8, <2>1 DEF EndCompilationEffect
  <2>3. Typed'
    BY <1>3, <1>7, <1>11, <2>2 DEF Typed
  <2>4. QED
    BY <1>5, <2>2, <2>3 DEF Matches
<1>13. CASE n > 1
  <2> DEFINE p == outer[n - 1]
             e == Emitted(p, "CLOSURE", c.upvalues)
  <2>1. outer # <<>> /\ A.outer # <<>> /\ n - 1 \in 1..n - 1 /\ n - 1 \in Nat /\ n - 2 \in Nat
    BY <1>2, <1>4, <1>9, <1>13, NotEmpty
  <2>2. /\ p \in CompilerRecord /\ p = compilers[n - 1] /\ A.outer[n - 1].stage \in Waiting
        /\ Scoped(p, A.outer[n - 1].depth, A.outer[n - 1].stage, A.outer[n - 1].knows)
    BY <1>3, <1>4, <1>9, <2>1 DEF Levels
  <2> HIDE DEF p
  <2>3. p.locals # <<>>
    BY <2>2, ScopedParts
  <2>4. e \in CompilerRecord /\ SameLocals(p, e)
    <3>1. "CLOSURE" \in AllOps /\ c.upvalues \in Int \cup Seq(UpvalueRecord)
      BY <1>10 DEF AllOps
    <3>2. QED
      BY <2>2, <2>3, <3>1, EmittedType
  <2>5. compilers' = [outer EXCEPT ![n - 1] = e]
    BY <1>8, <1>9, <2>1 DEF p
  <2> HIDE DEF e
  <2>6. /\ compilers' \in Seq(CompilerRecord) /\ Len(compilers') = n - 1
        /\ \A k \in 1..n - 1 : compilers'[k] = IF k = n - 1 THEN e ELSE outer[k]
    BY <1>9, <2>1, <2>4, <2>5, ReplacedElement
  <2>7. \A k \in 1..n - 1 : SameLocals(compilers[k], compilers'[k])
    <3>1. \A k \in 1..n - 1 : SameLocals(compilers[k], compilers[k])
      BY DEF SameLocals
    <3>2. QED
      BY <1>9, <2>2, <2>4, <2>6, <3>1
  <2>8. /\ B.alive = TRUE /\ B.outer \in Seq(Level) /\ Len(B.outer) = n - 2
        /\ \A k \in 1..n - 2 : B.outer[k] = A.outer[k]
        /\ B.depth = A.outer[n - 1].depth /\ B.stage = A.outer[n - 1].stage
        /\ B.knows = A.outer[n - 1].knows
    <3>1. /\ Len(Front(A.outer)) = n - 2 /\ Last(A.outer) = A.outer[n - 1]
          /\ \A k \in 1..n - 2 : Front(A.outer)[k] = A.outer[k]
      <4>1. /\ Len(Front(A.outer)) = Len(A.outer) - 1 /\ Last(A.outer) = A.outer[Len(A.outer)]
            /\ \A k \in 1..Len(A.outer) - 1 : Front(A.outer)[k] = A.outer[k]
        BY <1>2, <2>1, FrontFacts
      <4>2. Len(A.outer) - 1 = n - 2
        BY <1>4
      <4>3. QED
        BY <1>4, <4>1, <4>2
    <3>2. B.outer
 \in Seq(Level)
      BY DEF State
    <3>3. QED
      BY <1>1, <2>1, <3>1, <3>2 DEF EndCompilationEffect
  <2>9. Top(B) = n - 1 /\ \A k \in 1..n - 2 : k \in 1..n - 1
    BY <2>1, <2>8 DEF Top
  <2>10. Typed'
    BY <1>3, <1>7, <1>11, <2>6 DEF Typed
  <2>11. Levels(B)'
    <3>1. ASSUME NEW k \in 1..n - 2
          PROVE  /\ B.outer[k].stage \in Waiting
                 /\ Scoped(compilers'[k], B.outer[k].depth, B.outer[k].stage, B.outer[k].knows)
      <4>1. /\ A.outer[k].stage \in Waiting
            /\ Scoped(compilers[k], A.outer[k].depth, A.outer[k].stage, A.outer[k].knows)
        BY <1>3, <1>4, <2>9 DEF Levels
      <4>2. QED
        BY <2>7, <2>8, <2>9, <4>1, SameScoped
    <3>2. Scoped(compilers'[n - 1], B.depth, B.stage, B.knows)
      BY <2>1, <2>2, <2>4, <2>6, <2>8, SameScoped
    <3>3. QED
      BY <2>6, <2>8, <2>9, <3>1, <3>2 DEF Levels
  <2>12. PICK d : Upvalues(A, d)
    BY <1>1 DEF Matches
  <2>13. PICK f : Reaching(f)' /\ \A k \in 1..n - 1 : f[k] = d[k]
    BY <1>4, <2>1, <2>6, <2>7, <2>12, ReachingFewer DEF Upvalues
  <2>14. \A k \in 1..n - 1 : KnowsUpvalues(d, k, A.outer[k].knows)
    BY <1>4, <2>12 DEF Upvalues
  <2>15. \A k \in 1..n - 1 : KnowsUpvalues(f, k, A.outer[k].knows)
    BY <2>13, <2>14 DEF KnowsUpvalues
  <2>16. Upvalues(B, f)'
    BY <2>1, <2>8, <2>9, <2>13, <2>15 DEF Upvalues
  <2>17. QED
    BY <1>5, <2>8, <2>10, <2>11, <2>16 DEF Matches
<1>14. QED
  BY <1>4, <1>12, <1>13

-----------------------------------------------------------------------------
(* Accesses *)

\* What the upvalues reach, one function further in
Reachable(d, k) ==
  [i \in DOMAIN compilers[k].upvalues |->
     IF compilers[k].upvalues[i].is_local
     THEN <<compilers[k - 1].id, compilers[k - 1].locals[compilers[k].upvalues[i].index].from>>
     ELSE d[k - 1][compilers[k].upvalues[i].index]]

LEMMA ReachingEquation ==
  ASSUME compilers \in Seq(CompilerRecord), NEW d, Reaching(d)
  PROVE  d = [k \in DOMAIN compilers |-> Reachable(d, k)]
<1> DEFINE n == Len(compilers)
<1>1. DOMAIN compilers = 1..n /\ d \in [1..n -> Seq(Decl)]
  BY DEF Reaching
<1>2. ASSUME NEW k \in 1..n PROVE d[k] = Reachable(d, k)
  <2>1. Len(d[k]) = Len(compilers[k].upvalues) /\ d[k] \in Seq(Decl)
    BY <1>1 DEF Reaching
  <2>2. compilers[k].upvalues \in Seq(UpvalueRecord)
    BY CompilerParts
  <2> DEFINE m == Len(compilers[k].upvalues)
  <2>3. DOMAIN compilers[k].upvalues = 1..m /\ d[k] = [i \in 1..m |-> d[k][i]]
    BY <2>1, <2>2
  <2>4. ASSUME NEW i \in 1..m
        PROVE  d[k][i] = IF compilers[k].upvalues[i].is_local
               THEN <<compilers[k - 1].id, compilers[k - 1].locals[compilers[k].upvalues[i].index].from>>
               ELSE d[k - 1][compilers[k].upvalues[i].index]
    <3>1. Reaches(k, i, d)
      BY DEF Reaching
    <3>2. QED
      BY <3>1, Zenon DEF Reaches
  <2> HIDE DEF m
  <2>5. QED
    BY <2>3, <2>4, Zenon DEF Reachable
<1> HIDE DEF n
<1>3. QED
  BY <1>1, <1>2

LEMMA ThroughEquation ==
  ASSUME compilers \in Seq(CompilerRecord), NEW d, Reaching(d)
  PROVE  Through = [k \in DOMAIN compilers |-> Reachable(Through, k)]
<1>1. d = [k \in DOMAIN compilers |-> Reachable(d, k)]
  BY ReachingEquation
<1> DEFINE t == CHOOSE t : t = [k \in DOMAIN compilers |-> Reachable(t, k)]
<1>2. Through = t
  BY DEF Through, Reachable
<1>3. t = [k \in DOMAIN compilers |-> Reachable(t, k)]
  BY <1>1, Zenon
<1> HIDE DEF t
<1>4. QED
  BY <1>2, <1>3, Zenon

LEMMA ThroughReaches ==
  ASSUME compilers \in Seq(CompilerRecord), NEW d, Reaching(d)
  PROVE  \A k \in 1..Len(compilers) : Through[k] = d[k]
<1> SUFFICES ASSUME NEW t, t = Through PROVE \A k \in 1..Len(compilers) : t[k] = d[k]
  OBVIOUS
<1> DEFINE n == Len(compilers)  S == {k \in 1..n : t[k] # d[k]}
<1>1. DOMAIN compilers = 1..n /\ n \in Nat
  OBVIOUS
<1>2. \A k \in 1..n : t[k] = Reachable(t, k) /\ d[k] = Reachable(d, k)
  BY <1>1, ReachingEquation, ThroughEquation
<1> SUFFICES ASSUME S # {} PROVE FALSE
  OBVIOUS
<1>3. PICK m \in S : \A k \in S : m <= k
  <2>1. S \in SUBSET Nat
    BY <1>1
  <2> HIDE DEF S
  <2>2. QED
    BY <2>1, LeastNatural
<1>4. m \in 1..n /\ t[m] # d[m]
  OBVIOUS
<1>5. m - 1 \in 1..n => t[m - 1] = d[m - 1]
  <2>1. ~(m <= m - 1)
    BY <1>1, <1>4
  <2>2. QED
    BY <1>3, <2>1
<1>6. ASSUME NEW i \in DOMAIN compilers[m].upvalues
      PROVE  m - 1 \in 1..n
  <2>1. compilers[m].upvalues \in Seq(UpvalueRecord)
    BY <1>4, CompilerParts
  <2>2. i \in 1..Len(compilers[m].upvalues)
    BY <2>1
  <2>3. Reaches(m, i, d)
    BY <1>4, <2>2 DEF Reaching
  <2>4. m > 1
    BY <2>3 DEF Reaches
  <2>5. QED
    BY <1>1, <1>4, <2>4
<1>7. Reachable(t, m) = Reachable(d, m)
  BY <1>5, <1>6, Zenon DEF Reachable
<1>8. QED
  BY <1>2, <1>4, <1>7

LEMMA EmitAccessMatches ==
  ASSUME NEW A \in State, NEW B \in State, Matches(A), Effect(Head(agenda), A, B), EmitAccess
  PROVE  Matches(B)'
<1> DEFINE op == Arg(1)  index == Arg(2)  decl == Arg(3)
           instr == [Instruction(Current, op, index) EXCEPT
                       !.meant = decl, !.found = Reached(op, index)]
<1>1. /\ A.alive /\ EmitAccessEffect(op, index, decl, A, B) /\ OnlyCompilers /\ UNCHANGED fuel
      /\ Update(Written(Current, instr))
  BY DEF EmitAccess, Making, Doing, Effect, Arg
<1>2. /\ Typed /\ Levels(A) /\ Current \in CompilerRecord /\ Current.locals # <<>>
      /\ Scoped(Current, A.depth, A.stage, A.knows)
  BY <1>1, CurrentLocals
<1>3. Keeping(A, B) /\ StaysTyped
  BY <1>1, <1>2 DEF EmitAccessEffect, SameAround, SameScopes, SamePlaces, Keeping, SameFrames,
                   StaysTyped, OnlyCompilers, Typed
<1>4. Len(compilers) = Top(A)
  BY <1>2, CurrentType
<1> SUFFICES op \in AllOps /\ index \in Int /\ decl \in Decl /\ Reached(op, index) = decl
  <2>1. instr \in InstrRecord
    <3> DEFINE plain == Instruction(Current, op, index)
    <3>1. index \in Int \cup Seq(UpvalueRecord)
      OBVIOUS
    <3>2. plain \in AnyInstr
      BY <1>2, <3>1, InstructionType
    <3>3. instr = [plain EXCEPT !.meant = decl, !.found = decl]
      OBVIOUS
    <3> HIDE DEF plain, instr
    <3>4. instr \in AnyInstr /\ instr.meant = instr.found
      BY <3>2, <3>3 DEF AnyInstr
    <3>5. QED
      BY <3>4 DEF InstrRecord
  <2> HIDE DEF instr
  <2>2. QED
    BY <1>1, <1>3, <2>1, WritingMatches
<1> HIDE DEF op, index, decl
<1>5. CASE op \in {"GET_GLOBAL", "SET_GLOBAL"}
  <2>1. decl = Global /\ index = 0
    BY <1>1, <1>5 DEF EmitAccessEffect
  <2>2. QED
    BY <1>5, <2>1 DEF Reached, Global, AllOps, Decl
<1>6. CASE op \in {"GET_LOCAL", "SET_LOCAL", "GET_UPVALUE", "SET_UPVALUE"}
  <2>1. Knowing(op, index, decl) \in A.knows /\ A.knows \in SUBSET Binding
    BY <1>1, <1>6 DEF EmitAccessEffect, State
  <2>2. index \in Nat /\ decl \in Decl
    BY <2>1 DEF Knowing, Binding
  <2>3. CASE op \in {"GET_LOCAL", "SET_LOCAL"}
    <3>1. <<"LOCAL", <<index, decl>>>> \in A.knows
      BY <2>1, <2>3 DEF Knowing
    <3>2. decl = <<Current.id, Current.locals[index].from>>
      BY <1>2, <2>2, <3>1, Zenon DEF Scoped, ScopedAs, KnowsLocals
    <3>3. QED
      BY <2>2, <2>3, <3>2 DEF Reached, AllOps
  <2>4. CASE op \in {"GET_UPVALUE", "SET_UPVALUE"}
    <3>1. <<"UPVALUE", <<index, decl>>>> \in A.knows
      BY <2>1, <2>4 DEF Knowing
    <3>2. PICK d : Upvalues(A, d)
      BY <1>1 DEF Matches
    <3>3. decl = d[Len(compilers)][index]
      BY <1>4, <2>2, <3>1, <3>2, Zenon DEF Upvalues, KnowsUpvalues
    <3>4. Through[Len(compilers)] = d[Len(compilers)]
      <4>1. Len(compilers) \in 1..Len(compilers) /\ compilers \in Seq(CompilerRecord)
        BY <1>2, CurrentType DEF Typed
      <4>2. QED
        BY <3>2, <4>1, ThroughReaches DEF Upvalues
    <3>5. QED
      BY <2>2, <2>4, <3>3, <3>4 DEF Reached, AllOps
  <2>5. QED
    BY <1>6, <2>3, <2>4
<1>7. QED
  BY <1>1, <1>5, <1>6 DEF EmitAccessEffect

-----------------------------------------------------------------------------
(* Names *)

LEMMA MinExists ==
  ASSUME NEW S \in SUBSET Nat, S # {}
  PROVE  Min(S) \in S /\ \A x \in S : Min(S) <= x
<1>1. \E m \in S : \A x \in S : m <= x
  BY LeastNatural
<1>2. QED
  BY <1>1, Zenon DEF Min

LEMMA MaxExists ==
  ASSUME NEW n \in Nat, NEW S \in SUBSET (1..n), S # {}
  PROVE  Max(S) \in S /\ \A x \in S : x <= Max(S)
<1> DEFINE T == {n - x : x \in S}
<1>1. T \in SUBSET Nat /\ T # {}
  <2>1. \A x \in 1..n : n - x \in Nat
    OBVIOUS
  <2>2. \A x \in S : n - x \in Nat /\ n - x \in T
    BY <2>1
  <2>3. T \in SUBSET Nat
    BY <2>2
  <2>4. QED
    BY <2>2, <2>3
<1>2. \E t \in T : \A u \in T : t <= u
  <2> HIDE DEF T
  <2>1. QED
    BY <1>1, LeastNatural
<1>3. PICK m \in S : \A u \in T : n - m <= u
  BY <1>2
<1>4. ASSUME NEW x \in S PROVE m >= x
  <2>1. n - m <= n - x
    BY <1>3
  <2>2. QED
    BY <2>1
<1>5. Max(S) \in S /\ \A x \in S : Max(S) >= x
  BY <1>4, Zenon DEF Max
<1>6. QED
  BY <1>5

\* The latest of the declarations of a name is the last of its locals.
LEMMA VisibleDeclared ==
  ASSUME NEW c \in CompilerRecord, NEW depth, NEW stage \in Waiting, NEW knows,
         Scoped(c, depth, stage, knows), NEW name \in Names
  PROVE  /\ Visible(c, name) = {} <=> DeclaredIn(c, name) = {}
         /\ Visible(c, name) # {} =>
              /\ ResolveLocal(c, name) \in 1..Len(c.env) + 1
              /\ ResolveLocal(c, name) \in 1..Len(c.locals)
              /\ c.env[Max(DeclaredIn(c, name))].decl =
                   <<c.id, c.locals[ResolveLocal(c, name)].from>>
<1> DEFINE V == Visible(c, name)  D == DeclaredIn(c, name)
           m == Len(c.env)  n == Len(c.locals)
<1>1. /\ c.locals \in Seq(LocalRecord) /\ c.env \in Seq(EnvRecord) /\ depth \in Nat
      /\ ScopedAs(c.id, c.locals, c.env, c.braces, depth, stage, knows)
  BY ScopedParts
<1>2. /\ c.locals[1].name = "" /\ LocalsAt(c.locals, c.env, depth, stage)
      /\ \A j \in 1..m : InEnv(c.id, c.locals, c.env, depth, j)
  BY <1>1, Zenon DEF ScopedAs
<1>3. m \in Nat /\ n \in Nat /\ DOMAIN c.env = 1..m /\ DOMAIN c.locals = 1..n
  BY <1>1
<1>4. /\ V = {i \in 1..n : c.locals[i].name = name /\ c.locals[i].depth # Uninitialized}
      /\ D = {j \in 1..m : c.env[j].name = name}
  BY <1>3 DEF Visible, DeclaredIn
<1>5. /\ n >= m + 1
      /\ \A i \in 1..n : i = 1 \/ i - 1 \in 1..m \/ c.locals[i].depth = Uninitialized
  <2>1. n = m + 1 \/ (n = m + 2 /\ c.locals[m + 2].depth = Uninitialized)
    BY <1>2 DEF LocalsAt, Waiting
  <2>2. QED
    BY <1>3, <2>1
<1>6. name # ""
  BY CompilerAssumption DEF CompilerAssumption
<1> HIDE DEF V, D, m, n
<1>7. ASSUME NEW j \in 1..m
      PROVE  /\ c.locals[j + 1].name = c.env[j].name
             /\ c.locals[j + 1].depth # Uninitialized
             /\ c.env[j].decl = <<c.id, c.locals[j + 1].from>>
  <2>1. InEnv(c.id, c.locals, c.env, depth, j)
    BY <1>2
  <2>2. QED
    BY <1>1, <2>1 DEF InEnv, Uninitialized
<1>8. \A j \in D : j \in 1..m /\ j + 1 \in V
  BY <1>3, <1>4, <1>5, <1>7
<1>9. \A i \in V : i \in 1..n /\ i - 1 \in D
  <2>1. SUFFICES ASSUME NEW i \in V PROVE i \in 1..n /\ i - 1 \in D
    OBVIOUS
  <2>2. i \in 1..n /\ c.locals[i].name = name /\ c.locals[i].depth # Uninitialized
    BY <1>4
  <2>3. i - 1 \in 1..m /\ (i - 1) + 1 = i
    <3>1. i # 1
      BY <1>2, <1>6, <2>2
    <3>2. i - 1 \in 1..m
      BY <1>5, <2>2, <3>1
    <3>3. QED
      BY <1>3, <2>2, <3>2

  <2>4. c.env[i - 1].name = name
    BY <1>7, <2>2, <2>3
  <2>5. QED
    BY <1>4, <2>2, <2>3, <2>4
<1>10. V = {} <=> D = {}
  BY <1>8, <1>9
<1>11. ASSUME V # {}
       PROVE  /\ Max(V) \in 1..m + 1 /\ Max(V) \in 1..n
              /\ c.env[Max(D)].decl = <<c.id, c.locals[Max(V)].from>>
  <2>1. D # {} /\ V \in SUBSET (1..n) /\ D \in SUBSET (1..m)
    BY <1>8, <1>9, <1>11
  <2>2. /\ Max(V) \in V /\ (\A x \in V : x <= Max(V)) 
        /\ Max(D) \in D /\ (\A x \in D : x <= Max(D))
    BY <1>3, <1>11, <2>1, MaxExists
  <2>3. Max(D) + 1 \in V /\ Max(V) - 1 \in D /\ Max(V) \in 1..n /\ Max(D) \in 1..m
    BY <1>8, <1>9, <2>2
  <2>4. Max(D) + 1 <= Max(V) /\ Max(V) - 1 <= Max(D)
    BY <2>2, <2>3, Zenon
  <2>5. Max(V) = Max(D) + 1
    BY <1>3, <2>3, <2>4
  <2>6. QED
    BY <1>3, <1>7, <2>3, <2>5
<1>12. QED
  BY <1>10, <1>11 DEF V, D, m, n, ResolveLocal

-----------------------------------------------------------------------------
(* Upvalues *)

LEMMA AddedUpvalue ==
  ASSUME NEW c \in CompilerRecord, NEW u \in UpvalueRecord
  PROVE  LET e == AddUpvalue(c, u)
         IN  /\ e \in CompilerRecord /\ e.code = c.code
             /\ e.id = c.id /\ e.locals = c.locals /\ e.env = c.env /\ e.braces = c.braces
             /\ e.scope_depth = c.scope_depth
             /\ e.upvalues = c.upvalues \/ e.upvalues = Append(c.upvalues, u)
             /\ UpvalueIndex(c, u) \in 1..Len(e.upvalues)
             /\ e.upvalues[UpvalueIndex(c, u)] = u
<1> DEFINE e == AddUpvalue(c, u)  s == c.upvalues
<1>1. s \in Seq(UpvalueRecord) /\ DOMAIN s = 1..Len(s) /\ Len(s) \in Nat
  BY CompilerParts
<1>2. /\ e \in CompilerRecord /\ e.code = c.code
      /\ e.id = c.id /\ e.locals = c.locals /\ e.env = c.env /\ e.braces = c.braces
      /\ e.scope_depth = c.scope_depth
      /\ e.upvalues = IF u \in Range(s) THEN s ELSE Append(s, u)
  <2>1. CASE u \in Range(s)
    BY <2>1 DEF AddUpvalue
  <2>2. CASE u \notin Range(s)
    <3> DEFINE t == Append(s, u)
    <3>1. e = [c EXCEPT !.upvalues = t] /\ t \in Seq(UpvalueRecord)
      BY <1>1, <2>2 DEF AddUpvalue
    <3> HIDE DEF t, e
    <3>2. e \in CompilerRecord /\ e.upvalues = t /\ e.code = c.code
      /\ e.id = c.id /\ e.locals = c.locals /\ e.env = c.env /\ e.braces = c.braces
      /\ e.scope_depth = c.scope_depth
      BY <3>1 DEF CompilerRecord
    <3>3. QED
      BY <2>2, <3>2 DEF t
  <2>3. QED
    BY <2>1, <2>2
<1> HIDE DEF e
<1> DEFINE t == e.upvalues  I == {i \in DOMAIN t : t[i] = u}
<1>3. t \in Seq(UpvalueRecord) /\ DOMAIN t = 1..Len(t) /\ Len(t) \in Nat
  BY <1>2, CompilerParts
<1>4. I # {} /\ I \in SUBSET Nat
  <2>1. CASE u \in Range(s)
    BY <1>1, <1>2, <2>1 DEF Range
  <2>2. CASE u \notin Range(s)
    BY <1>1, <1>2, <2>2
  <2>3. QED
    BY <2>1, <2>2
<1>5. UpvalueIndex(c, u) = Min(I)
  BY DEF UpvalueIndex, e
<1>6. Min(I) \in I
  <2> HIDE DEF I
  <2>1. QED
    BY <1>4, MinExists
<1>7. Min(I) \in 1..Len(t) /\ t[Min(I)] = u
  BY <1>3, <1>6
<1>8. t = s \/ t = Append(s, u)
  BY <1>2
<1>9. QED
  BY <1>2, <1>5, <1>7, <1>8 DEF e

\* The same variables, though perhaps captured
Alike(c, e) ==
  /\ e.id = c.id /\ e.env = c.env /\ e.braces = c.braces /\ e.scope_depth = c.scope_depth
  /\ Len(e.locals) = Len(c.locals)
  /\ \A i \in 1..Len(c.locals) :
       /\ e.locals[i].name = c.locals[i].name /\ e.locals[i].depth = c.locals[i].depth
       /\ e.locals[i].from = c.locals[i].from

LEMMA AlikeScoped ==
  ASSUME NEW c \in CompilerRecord, NEW e, Alike(c, e), NEW depth, NEW stage, NEW knows,
         Scoped(c, depth, stage, knows)
  PROVE  Scoped(e, depth, stage, knows)
<1>1. /\ c.locals \in Seq(LocalRecord) /\ c.env \in Seq(EnvRecord) /\ Len(c.locals) >= Len(c.env) + 1
      /\ ScopedAs(c.id, c.locals, c.env, c.braces, depth, stage, knows) /\ c.scope_depth = depth
  BY ScopedParts
<1>2. ScopedAs(c.id, e.locals, c.env, c.braces, depth, stage, knows)
  BY <1>1, LocalsAlike DEF Alike
<1>3. QED
  BY <1>1, <1>2 DEF Scoped, Alike

LEMMA CapturedLocal ==
  ASSUME NEW c \in CompilerRecord, NEW slot \in 1..Len(c.locals)
  PROVE  LET e == [c EXCEPT !.locals[slot].is_captured = TRUE]
         IN  e \in CompilerRecord /\ e.code = c.code /\ e.upvalues = c.upvalues /\ Alike(c, e)
<1> DEFINE locals == [c.locals EXCEPT ![slot].is_captured = TRUE]
           e == [c EXCEPT !.locals[slot].is_captured = TRUE]
           new == [c.locals[slot] EXCEPT !.is_captured = TRUE]
<1>1. c.locals \in Seq(LocalRecord) /\ Len(c.locals) \in Nat /\ slot \in Nat
  BY CompilerParts
<1>2. c.locals[slot] \in LocalRecord
  BY <1>1
<1>3. /\ new \in LocalRecord /\ new.name = c.locals[slot].name
      /\ new.depth = c.locals[slot].depth /\ new.from = c.locals[slot].from
  BY <1>2 DEF LocalRecord
<1>4. locals = [c.locals EXCEPT ![slot] = new]
  OBVIOUS
<1>5. e = [c EXCEPT !.locals = locals]
  OBVIOUS
<1> HIDE DEF new, e, locals
<1>6. /\ locals \in Seq(LocalRecord) /\ Len(locals) = Len(c.locals)
      /\ \A i \in 1..Len(c.locals) : locals[i] = IF i = slot THEN new ELSE c.locals[i]
  BY <1>1, <1>3, <1>4, ReplacedElement
<1>7. /\ e \in CompilerRecord /\ e.code = c.code /\ e.upvalues = c.upvalues
      /\ e.id = c.id /\ e.env = c.env /\ e.braces = c.braces /\ e.scope_depth = c.scope_depth
      /\ e.locals = locals
  BY <1>5, <1>6 DEF CompilerRecord
<1>8. Alike(c, e)
  BY <1>3, <1>6, <1>7 DEF Alike
<1>9. QED
  BY <1>7, <1>8 DEF e

\* The upvalue of compiler k for index i of the function around it
Upvalue(owner, k, i) == [is_local |-> k = owner + 1, index |-> i]

\* p[k] is the index that the functions inside the owner use in function k.
Passed(owner, slot, p) ==
  p = [k \in owner..Len(compilers) |->
         IF k = owner THEN slot ELSE UpvalueIndex(compilers[k], Upvalue(owner, k, p[k - 1]))]

LEMMA PassedExists ==
  ASSUME compilers \in Seq(CompilerRecord), NEW owner \in 1..Len(compilers), NEW slot \in Nat
  PROVE  \E p : Passed(owner, slot, p)
<1> DEFINE n == Len(compilers)
           X == Nat \X Nat
           F == [x \in X |-> <<x[1] + 1, IF x[1] + 1 \in 1..n
                                         THEN UpvalueIndex(compilers[x[1] + 1],
                                                           Upvalue(owner, x[1] + 1, x[2]))
                                         ELSE 0>>]
<1>1. n \in Nat /\ owner \in Nat
  OBVIOUS
<1>2. ASSUME NEW k \in 1..n, NEW i \in Nat PROVE UpvalueIndex(compilers[k], Upvalue(owner, k, i)) \in Nat
  <2>1. compilers[k] \in CompilerRecord /\ Upvalue(owner, k, i) \in UpvalueRecord
    BY DEF Upvalue, UpvalueRecord
  <2>2. UpvalueIndex(compilers[k], Upvalue(owner, k, i)) \in
          1..Len(AddUpvalue(compilers[k], Upvalue(owner, k, i)).upvalues)
    BY <2>1, AddedUpvalue
  <2>3. QED
    BY <2>2
<1> HIDE DEF n
<1>3. F \in [X -> X]
  <2>1. \A x \in X : x[1] \in Nat /\ x[2] \in Nat
    OBVIOUS
  <2>2. ASSUME NEW x \in X PROVE F[x] \in X
    <3>1. (IF x[1] + 1 \in 1..n
           THEN UpvalueIndex(compilers[x[1] + 1], Upvalue(owner, x[1] + 1, x[2])) ELSE 0) \in Nat
      BY <1>2, <2>1
    <3>2. x[1] + 1 \in Nat
      BY <2>1
    <3>3. QED
      BY <3>1, <3>2
  <2>3. QED
    BY <2>2
<1>4. <<owner, slot>> \in X
  BY <1>1
<1>5. PICK f : Iterates(f, F, X, <<owner, slot>>)
  BY <1>3, <1>4, Iteration
<1>6. f \in [Nat -> X] /\ f[0] = <<owner, slot>> /\ \A j \in Nat : f[j + 1] = F[f[j]]
  BY <1>5 DEF Iterates
<1>7. \A j \in Nat : f[j + 1][1] = f[j][1] + 1 /\
        f[j + 1][2] = IF f[j][1] + 1 \in 1..n
                      THEN UpvalueIndex(compilers[f[j][1] + 1], Upvalue(owner, f[j][1] + 1, f[j][2]))
                      ELSE 0
  <2>1. SUFFICES ASSUME NEW j \in Nat, NEW x \in X, x = f[j]
                 PROVE  f[j + 1][1] = x[1] + 1 /\
                          f[j + 1][2] = IF x[1] + 1 \in 1..n
                            THEN UpvalueIndex(compilers[x[1] + 1], Upvalue(owner, x[1] + 1, x[2]))
                            ELSE 0
    BY <1>6
  <2>2. f[j + 1] = F[x]
    BY <1>6, <2>1
  <2>3. QED
    BY <2>2
<1> HIDE DEF F
<1>8. \A j \in Nat : f[j][1] = owner + j
  <2> DEFINE S == {j \in Nat : f[j][1] # owner + j}
  <2> SUFFICES ASSUME S # {} PROVE FALSE
    OBVIOUS
  <2>1. PICK m \in S : \A j \in S : m <= j
    <3>1. S \in SUBSET Nat
      OBVIOUS
    <3> HIDE DEF S
    <3>2. QED
      BY <3>1, LeastNatural
  <2>2. m # 0
    BY <1>1, <1>6
  <2>3. m - 1 \in Nat /\ ~(m <= m - 1) /\ (m - 1) + 1 = m
    BY <2>2
  <2>4. f[m - 1][1] = owner + (m - 1)
    BY <2>1, <2>3
  <2>5. f[m][1] = f[m - 1][1] + 1
    BY <1>7, <2>3
  <2>6. QED
    BY <1>1, <2>3, <2>4, <2>5
<1> SUFFICES ASSUME NEW p, p = [k \in owner..n |-> f[k - owner][2]]
             PROVE  Passed(owner, slot, p)
  OBVIOUS
<1>9. p[owner] = slot
  <2>1. owner \in owner..n /\ owner - owner = 0
    BY <1>1 DEF n
  <2>2. p[owner] = f[0][2]
    BY <2>1
  <2>3. QED
    BY <1>6, <2>2
<1>10. ASSUME NEW k \in owner..n, k # owner
       PROVE  p[k] = UpvalueIndex(compilers[k], Upvalue(owner, k, p[k - 1]))
  <2>1. /\ k - 1 - owner \in Nat /\ k - 1 \in owner..n /\ k \in 1..n
        /\ (k - 1 - owner) + 1 = k - owner /\ owner + (k - 1 - owner) + 1 = k
    <3>1. k \in Nat /\ owner \in Nat /\ k >= owner + 1 /\ k <= n /\ owner >= 1
      BY <1>1, <1>10 DEF n
    <3>2. k - 1 - owner \in Nat /\ k - 1 \in owner..n /\ k \in 1..n
      BY <1>1, <3>1
    <3>3. QED
      BY <3>1, <3>2

  <2>2. p[k] = f[k - owner][2] /\ p[k - 1] = f[k - 1 - owner][2]
    BY <2>1
  <2>3. f[k - 1 - owner][1] + 1 = k
    BY <1>8, <2>1
  <2>4. QED
    BY <1>7, <2>1, <2>2, <2>3
<1>11. p = [k \in owner..n |->
         IF k = owner THEN slot ELSE UpvalueIndex(compilers[k], Upvalue(owner, k, p[k - 1]))]
  BY <1>9, <1>10
<1>12. QED
  BY <1>11, Zenon DEF Passed, n

\* The compilers after the name has been resolved
Passing(owner, slot, p) ==
  [k \in DOMAIN compilers |->
     IF k < owner THEN compilers[k]
     ELSE IF k = owner THEN [compilers[k] EXCEPT !.locals[slot].is_captured = TRUE]
     ELSE AddUpvalue(compilers[k], Upvalue(owner, k, p[k - 1]))]

LEMMA ResolveUpvalueIs ==
  ASSUME compilers \in Seq(CompilerRecord), NEW name, NEW owner \in 1..Len(compilers),
         owner = Max(EnclosingWith(name)), NEW slot \in Nat,
         slot = ResolveLocal(compilers[owner], name)
  PROVE  \E p : /\ Passed(owner, slot, p)
                /\ ResolveUpvalue(name).index = p[Len(compilers)]
                /\ ResolveUpvalue(name).compilers = Passing(owner, slot, p)
<1> DEFINE p == CHOOSE p : Passed(owner, slot, p)
<1>1. Passed(owner, slot, p)
  BY PassedExists
<1>2. p = CHOOSE q : q = [k \in owner..Len(compilers) |->
         IF k = owner THEN slot ELSE UpvalueIndex(compilers[k], Upvalue(owner, k, q[k - 1]))]
  BY Zenon DEF Passed
<1> HIDE DEF p
<1>3. ResolveUpvalue(name) = [index |-> p[Len(compilers)], compilers |-> Passing(owner, slot, p)]
  BY <1>2 DEF ResolveUpvalue, Passing, Upvalue
<1>4. QED
  BY <1>1, <1>3

LEMMA PassedType ==
  ASSUME compilers \in Seq(CompilerRecord), NEW owner \in 1..Len(compilers), NEW slot \in Nat,
         NEW p, Passed(owner, slot, p)
  PROVE  /\ p[owner] = slot
         /\ \A k \in owner..Len(compilers) : p[k] \in Nat
         /\ \A k \in owner + 1..Len(compilers) :
              /\ k \in 1..Len(compilers) /\ k - 1 \in owner..Len(compilers)
              /\ Upvalue(owner, k, p[k - 1]) \in UpvalueRecord
              /\ p[k] = UpvalueIndex(compilers[k], Upvalue(owner, k, p[k - 1]))
<1> SUFFICES ASSUME NEW n \in Nat, n = Len(compilers)
             PROVE  /\ p[owner] = slot
                    /\ \A k \in owner..n : p[k] \in Nat
                    /\ \A k \in owner + 1..n :
                         /\ k \in 1..n /\ k - 1 \in owner..n
                         /\ Upvalue(owner, k, p[k - 1]) \in UpvalueRecord
                         /\ p[k] = UpvalueIndex(compilers[k], Upvalue(owner, k, p[k - 1]))
  OBVIOUS
<1>1. owner \in Nat /\ owner >= 1 /\ owner <= n
  OBVIOUS
<1>2. p = [k \in owner..n |->
             IF k = owner THEN slot ELSE UpvalueIndex(compilers[k], Upvalue(owner, k, p[k - 1]))]
  BY Zenon DEF Passed
<1>3. p[owner] = slot
  <2>1. owner \in owner..n
    BY <1>1
  <2>2. QED
    BY <1>2, <2>1, Zenon
<1>4. ASSUME NEW k \in owner + 1..n
      PROVE  /\ k \in 1..n /\ k - 1 \in owner..n /\ k \in Nat
             /\ p[k] = UpvalueIndex(compilers[k], Upvalue(owner, k, p[k - 1]))
  <2>1. k \in owner..n /\ k # owner /\ k \in 1..n /\ k - 1 \in owner..n /\ k \in Nat
    BY <1>1
  <2>2. QED
    BY <1>2, <2>1, Zenon
<1>5. ASSUME NEW k \in owner + 1..n, p[k - 1] \in Nat
      PROVE  Upvalue(owner, k, p[k - 1]) \in UpvalueRecord /\ p[k] \in Nat
  <2>1. Upvalue(owner, k, p[k - 1]) \in UpvalueRecord /\ compilers[k] \in CompilerRecord
    BY <1>4, <1>5 DEF Upvalue, UpvalueRecord
  <2>2. p[k] \in 1..Len(AddUpvalue(compilers[k], Upvalue(owner, k, p[k - 1])).upvalues)
    BY <1>4, <2>1, AddedUpvalue
  <2>3. QED
    BY <2>1, <2>2
<1> DEFINE S == {k \in owner..n : p[k] \notin Nat}
<1>6. S = {}
  <2> SUFFICES ASSUME S # {} PROVE FALSE
    OBVIOUS
  <2>1. PICK m \in S : \A k \in S : m <= k
    <3>1. S \in SUBSET Nat
      BY <1>1
    <3> HIDE DEF S
    <3>2. QED
      BY <3>1, LeastNatural
  <2>2. m \in owner..n /\ p[m] \notin Nat
    OBVIOUS
  <2>3. m # owner
    BY <1>3, <2>2
  <2>4. m \in owner + 1..n /\ m - 1 \in owner..n /\ ~(m <= m - 1)
    BY <1>1, <2>2, <2>3
  <2>5. p[m - 1] \in Nat
    BY <2>1, <2>4
  <2>6. QED
    BY <1>5, <2>2, <2>4, <2>5
<1>7. QED
  BY <1>3, <1>4, <1>5, <1>6

\* What the resolution leaves as it was, and what it adds
PassedOn(owner, p, passing) ==
  /\ passing \in Seq(CompilerRecord) /\ Len(passing) = Len(compilers)
  /\ \A k \in 1..Len(compilers) :
       /\ passing[k].code = compilers[k].code /\ Alike(compilers[k], passing[k])
       /\ k <= owner => passing[k].upvalues = compilers[k].upvalues
       /\ k < owner => passing[k] = compilers[k]
  /\ \A k \in owner + 1..Len(compilers) :
       /\ \/ passing[k].upvalues = compilers[k].upvalues
          \/ passing[k].upvalues = Append(compilers[k].upvalues, Upvalue(owner, k, p[k - 1]))
       /\ p[k] \in 1..Len(passing[k].upvalues)
       /\ passing[k].upvalues[p[k]] = Upvalue(owner, k, p[k - 1])

LEMMA PassingParts ==
  ASSUME compilers \in Seq(CompilerRecord), NEW owner \in 1..Len(compilers),
         NEW slot \in 1..Len(compilers[owner].locals),
         NEW p, Passed(owner, slot, p), NEW passing, passing = Passing(owner, slot, p)
  PROVE  PassedOn(owner, p, passing)
<1>0. Len(compilers) \in Nat
  OBVIOUS
<1> SUFFICES ASSUME NEW n \in Nat, n = Len(compilers)
             PROVE  /\ passing \in Seq(CompilerRecord) /\ Len(passing) = n
                    /\ \A k \in 1..n :
                         /\ passing[k].code = compilers[k].code /\ Alike(compilers[k], passing[k])
                         /\ k <= owner => passing[k].upvalues = compilers[k].upvalues
                         /\ k < owner => passing[k] = compilers[k]
                    /\ \A k \in owner + 1..n :
                         /\ \/ passing[k].upvalues = compilers[k].upvalues
                            \/ passing[k].upvalues =
                                 Append(compilers[k].upvalues, Upvalue(owner, k, p[k - 1]))
                         /\ p[k] \in 1..Len(passing[k].upvalues)
                         /\ passing[k].upvalues[p[k]] = Upvalue(owner, k, p[k - 1])
  BY <1>0, Zenon DEF PassedOn
<1>1. owner \in Nat /\ owner >= 1 /\ owner <= n /\ slot \in Nat
  <2>1. compilers[owner].locals \in Seq(LocalRecord)
    BY CompilerParts
  <2>2. QED
    BY <2>1
<1>2. \A k \in 1..n : compilers[k] \in CompilerRecord
  OBVIOUS
<1>3. ASSUME NEW k \in 1..n
      PROVE  passing[k] = IF k < owner THEN compilers[k]
               ELSE IF k = owner THEN [compilers[k] EXCEPT !.locals[slot].is_captured = TRUE]
               ELSE AddUpvalue(compilers[k], Upvalue(owner, k, p[k - 1]))
  <2>1. k \in DOMAIN compilers
    OBVIOUS
  <2>2. QED
    BY <2>1, Zenon DEF Passing
<1>4. ASSUME NEW k \in 1..n, k < owner
      PROVE  /\ passing[k] = compilers[k] /\ Alike(compilers[k], passing[k])
  BY <1>3, <1>4 DEF Alike
<1>5. /\ passing[owner] \in CompilerRecord /\ passing[owner].code = compilers[owner].code
      /\ Alike(compilers[owner], passing[owner])
      /\ passing[owner].upvalues = compilers[owner].upvalues
  <2>1. owner \in 1..n /\ ~(owner < owner)
    BY <1>1
  <2> DEFINE c == compilers[owner]
             e == [c EXCEPT !.locals[slot].is_captured = TRUE]
  <2>2. c \in CompilerRecord /\ slot \in 1..Len(c.locals)
    BY <1>2, <2>1
  <2>3. passing[owner] = e
    BY <1>3, <2>1, Zenon
  <2>4. e \in CompilerRecord /\ e.code = c.code /\ e.upvalues = c.upvalues /\ Alike(c, e)
    <3> HIDE DEF c
    <3>1. QED
      BY <2>2, CapturedLocal
  <2> HIDE DEF e
  <2>5. QED
    BY <2>3, <2>4
<1>6. ASSUME NEW k \in owner + 1..n
      PROVE  /\ k \in 1..n
             /\ passing[k] \in CompilerRecord /\ passing[k].code = compilers[k].code
             /\ Alike(compilers[k], passing[k])
             /\ \/ passing[k].upvalues = compilers[k].upvalues
                \/ passing[k].upvalues = Append(compilers[k].upvalues, Upvalue(owner, k, p[k - 1]))
             /\ p[k] \in 1..Len(passing[k].upvalues)
             /\ passing[k].upvalues[p[k]] = Upvalue(owner, k, p[k - 1])
  <2> DEFINE u == Upvalue(owner, k, p[k - 1])
  <2>1. k \in 1..n /\ u \in UpvalueRecord /\ p[k] = UpvalueIndex(compilers[k], u)
    BY <1>1, PassedType
  <2>2. ~(k < owner) /\ k # owner
    BY <1>1
  <2> HIDE DEF u
  <2>3. passing[k] = AddUpvalue(compilers[k], u)
    BY <1>3, <2>1, <2>2 DEF u
  <2> DEFINE e == AddUpvalue(compilers[k], u)
  <2>4. /\ e \in CompilerRecord /\ e.code = compilers[k].code
        /\ e.id = compilers[k].id /\ e.locals = compilers[k].locals
        /\ e.env = compilers[k].env /\ e.braces = compilers[k].braces
        /\ e.scope_depth = compilers[k].scope_depth
        /\ e.upvalues = compilers[k].upvalues \/ e.upvalues = Append(compilers[k].upvalues, u)
        /\ UpvalueIndex(compilers[k], u) \in 1..Len(e.upvalues)
        /\ e.upvalues[UpvalueIndex(compilers[k], u)] = u
    <3>1. compilers[k] \in CompilerRecord
      BY <1>2, <2>1
    <3>2. QED
      BY <2>1, <3>1, AddedUpvalue
  <2> HIDE DEF e
  <2>5. passing[k] = e
    BY <2>3 DEF e
  <2>6. Alike(compilers[k], passing[k])
    BY <2>4, <2>5 DEF Alike
  <2>7. QED
    BY <2>1, <2>4, <2>5, <2>6 DEF u
<1>7. \A k \in 1..n : k < owner \/ k = owner \/ k \in owner + 1..n
  BY <1>1
<1>8. \A k \in 1..n : passing[k] \in CompilerRecord
  BY <1>2, <1>4, <1>5, <1>6, <1>7
<1>9. DOMAIN passing = 1..n /\ passing = [k \in 1..n |-> passing[k]]
  BY DEF Passing
<1>10. passing \in Seq(CompilerRecord) /\ Len(passing) = n
  BY <1>8, <1>9
<1>11. ASSUME NEW k \in 1..n
       PROVE  /\ passing[k].code = compilers[k].code /\ Alike(compilers[k], passing[k])
              /\ k <= owner => passing[k].upvalues = compilers[k].upvalues
              /\ k < owner => passing[k] = compilers[k]
  <2>1. CASE k < owner
    BY <1>4, <2>1
  <2>2. CASE k = owner
    BY <1>1, <1>5, <2>2
  <2>3. CASE k \in owner + 1..n
    <3>1. ~(k <= owner) /\ ~(k < owner)
      BY <1>1, <2>3
    <3>2. QED
      BY <1>6, <2>3, <3>1
  <2>4. QED
    BY <1>7, <2>1, <2>2, <2>3
<1>12. QED
  BY <1>6, <1>10, <1>11

Extends(d, e, n) ==
  \A k \in 1..n : /\ Len(e[k]) \in Nat /\ Len(d[k]) \in Nat /\ Len(d[k]) <= Len(e[k])
                  /\ \A i \in 1..Len(d[k]) : e[k][i] = d[k][i]

\* A variable of the owner is resolved in the innermost function.
PassesOn(n, owner, slot, p, decl) ==
  /\ compilers \in Seq(CompilerRecord) /\ n \in Nat /\ n = Len(compilers)
  /\ owner \in 1..n - 1
  /\ slot \in 1..Len(compilers[owner].env) + 1 /\ slot \in 1..Len(compilers[owner].locals)
  /\ Passed(owner, slot, p) /\ compilers' = Passing(owner, slot, p)
  /\ decl \in Decl /\ decl = <<compilers[owner].id, compilers[owner].locals[slot].from>>
  /\ \A k \in 1..n : Len(compilers[k].locals) >= Len(compilers[k].env) + 1

\* The new upvalues reach the declaration, the others what they reached.
LEMMA ReachingPassed ==
  ASSUME NEW n, NEW owner, NEW slot, NEW p, NEW decl, PassesOn(n, owner, slot, p, decl),
         NEW d, Reaching(d)
  PROVE  \E e : Reaching(e)' /\ Extends(d, e, n) /\ p[n] \in 1..Len(e[n]) /\ e[n][p[n]] = decl
<1>0. /\ compilers \in Seq(CompilerRecord) /\ n \in Nat /\ n = Len(compilers)
      /\ owner \in 1..n - 1
      /\ slot \in 1..Len(compilers[owner].env) + 1 /\ slot \in 1..Len(compilers[owner].locals)
      /\ Passed(owner, slot, p) /\ compilers' = Passing(owner, slot, p)
      /\ decl \in Decl /\ decl = <<compilers[owner].id, compilers[owner].locals[slot].from>>
      /\ \A k \in 1..n : Len(compilers[k].locals) >= Len(compilers[k].env) + 1
  BY Zenon DEF PassesOn
<1> USE <1>0
<1>1. owner \in Nat /\ owner >= 1 /\ owner < n /\ owner \in 1..n /\ n \in owner + 1..n
  OBVIOUS
<1>2. /\ compilers' \in Seq(CompilerRecord) /\ Len(compilers') = n
      /\ \A k \in 1..n :
           /\ Alike(compilers[k], compilers'[k])
           /\ k <= owner => compilers'[k].upvalues = compilers[k].upvalues
      /\ \A k \in owner + 1..n :
           /\ \/ compilers'[k].upvalues = compilers[k].upvalues
              \/ compilers'[k].upvalues = Append(compilers[k].upvalues, Upvalue(owner, k, p[k - 1]))
           /\ p[k] \in 1..Len(compilers'[k].upvalues)
           /\ compilers'[k].upvalues[p[k]] = Upvalue(owner, k, p[k - 1])
  <2>1. owner \in 1..Len(compilers)
    BY <1>1
  <2>2. PassedOn(owner, p, compilers')
    BY <2>1, PassingParts
  <2>3. QED
    BY <2>2, Zenon DEF PassedOn
<1>3. p[owner] = slot /\ \A k \in owner + 1..n : k \in 1..n /\ k - 1 \in owner..n /\ p[k] \in Nat
  <2>1. slot \in Nat
    BY <1>1, CompilerParts
  <2>2. \A k \in owner + 1..n : k \in owner..n
    BY <1>1
  <2>3. QED
    BY <1>1, <2>1, <2>2, PassedType
<1>4. d \in [1..n -> Seq(Decl)] /\ \A k \in 1..n : Len(d[k]) = Len(compilers[k].upvalues)
  BY DEF Reaching
<1> SUFFICES ASSUME NEW e, e = [k \in 1..n |->
                      IF compilers'[k].upvalues = compilers[k].upvalues THEN d[k]
                      ELSE Append(d[k], decl)]
             PROVE  /\ Reaching(e)' /\ Extends(d, e, n)
                    /\ p[n] \in 1..Len(e[n]) /\ e[n][p[n]] = decl
  OBVIOUS
<1>5. \A k \in 1..n : k <= owner \/ k \in owner + 1..n
  BY <1>1
<1>6. ASSUME NEW k \in 1..n
      PROVE  /\ e[k] \in Seq(Decl) /\ Len(e[k]) = Len(compilers'[k].upvalues)
             /\ Len(e[k]) \in Nat /\ Len(d[k]) \in Nat /\ Len(d[k]) <= Len(e[k])
             /\ \A i \in 1..Len(d[k]) : /\ e[k][i] = d[k][i]
                                        /\ compilers'[k].upvalues[i] = compilers[k].upvalues[i]
             /\ \A i \in 1..Len(e[k]) : i \notin 1..Len(d[k]) =>
                  /\ e[k][i] = decl /\ k \in owner + 1..n
                  /\ compilers'[k].upvalues[i] = Upvalue(owner, k, p[k - 1])
  <2> DEFINE s == compilers[k].upvalues  t == compilers'[k].upvalues
  <2>1. s \in Seq(UpvalueRecord) /\ Len(s) \in Nat
    BY CompilerParts
  <2>2. d[k] \in Seq(Decl) /\ Len(d[k]) = Len(s)
    BY <1>4
  <2>3. CASE t = s
    <3>1. e[k] = d[k]
      BY <2>3
    <3>2. QED
      BY <2>1, <2>2, <2>3, <3>1
  <2>4. CASE t # s
    <3>1. e[k] = Append(d[k], decl)
      BY <2>4
    <3>2. k \in owner + 1..n
      BY <1>2, <1>5, <2>4
    <3> DEFINE u == Upvalue(owner, k, p[k - 1])
    <3>3. t = Append(s, u)
      BY <1>2, <2>4, <3>2
    <3> HIDE DEF u, s, t
    <3>4. /\ Len(t) = Len(s) + 1 /\ t[Len(s) + 1] = u
          /\ \A i \in 1..Len(s) : t[i] = s[i]
      BY <2>1, <3>3
    <3>5. /\ e[k] \in Seq(Decl) /\ Len(e[k]) = Len(d[k]) + 1 /\ e[k][Len(d[k]) + 1] = decl
          /\ \A i \in 1..Len(d[k]) : e[k][i] = d[k][i]
      BY <2>2, <3>1, AppendFacts
    <3>6. \A i \in 1..Len(e[k]) : i \notin 1..Len(d[k]) => i = Len(d[k]) + 1
      BY <2>1, <2>2, <3>5
    <3>7. QED
      <4>1. Len(e[k]) = Len(t) /\ Len(e[k]) \in Nat /\ Len(d[k]) \in Nat /\ Len(d[k]) <= Len(e[k])
        BY <2>1, <2>2, <3>4, <3>5
      <4>2. \A i \in 1..Len(d[k]) : e[k][i] = d[k][i] /\ t[i] = s[i]
        BY <2>2, <3>4, <3>5
      <4>3. \A i \in 1..Len(e[k]) : i \notin 1..Len(d[k]) => e[k][i] = decl /\ t[i] = u
        BY <2>2, <3>4, <3>5, <3>6
      <4>4. QED
        BY <3>2, <3>5, <4>1, <4>2, <4>3 DEF s, t, u
  <2>5. QED
    BY <2>3, <2>4
\* Each function finds the declaration at the index that it passes on.
<1>7. ASSUME NEW k \in owner + 1..n, k - 1 # owner => p[k - 1] \in 1..Len(e[k - 1]) /\ e[k - 1][p[k - 1]] = decl
      PROVE  p[k] \in 1..Len(e[k]) /\ e[k][p[k]] = decl
  <2>1. k \in 1..n /\ k - 1 \in owner..n /\ k - 1 \in 1..n /\ (k - 1 = owner <=> k = owner + 1)
    BY <1>1
  <2>2. p[k] \in 1..Len(e[k])
    BY <1>2, <1>6, <2>1
  <2>3. CASE p[k] \in 1..Len(d[k])
    <3> DEFINE u == Upvalue(owner, k, p[k - 1])
    <3>1. compilers[k].upvalues[p[k]] = u /\ e[k][p[k]] = d[k][p[k]]
      BY <1>2, <1>6, <2>1, <2>3
    <3>2. Reaches(k, p[k], d)
      BY <1>4, <2>1, <2>3 DEF Reaching
    <3>3. u.is_local = (k = owner + 1) /\ u.index = p[k - 1]
      BY DEF Upvalue
    <3> HIDE DEF u
    <3>4. CASE k = owner + 1
      <4>1. d[k][p[k]] = <<compilers[k - 1].id, compilers[k - 1].locals[p[k - 1]].from>>
        BY <3>1, <3>2, <3>3, <3>4 DEF Reaches
      <4>2. k - 1 = owner
        BY <2>1, <3>4
      <4>3. QED
        BY <1>3, <2>2, <3>1, <4>1, <4>2
    <3>5. CASE k # owner + 1
      <4>1. p[k - 1] \in 1..Len(d[k - 1]) /\ d[k][p[k]] = d[k - 1][p[k - 1]]
        BY <3>1, <3>2, <3>3, <3>5 DEF Reaches
      <4>2. e[k - 1][p[k - 1]] = d[k - 1][p[k - 1]]
        BY <1>6, <2>1, <4>1
      <4>3. QED
        BY <1>7, <2>1, <2>2, <3>1, <3>5, <4>1, <4>2
    <3>6. QED
      BY <3>4, <3>5
  <2>4. CASE p[k] \notin 1..Len(d[k])
    BY <1>6, <2>1, <2>2, <2>4
  <2>5. QED
    BY <2>3, <2>4
<1>8. \A k \in owner + 1..n : p[k] \in 1..Len(e[k]) /\ e[k][p[k]] = decl
  <2> DEFINE S == {k \in owner + 1..n : ~(p[k] \in 1..Len(e[k]) /\ e[k][p[k]] = decl)}
  <2> SUFFICES ASSUME S # {} PROVE FALSE
    OBVIOUS
  <2>1. PICK m \in S : \A k \in S : m <= k
    <3>1. S \in SUBSET Nat
      BY <1>1
    <3> HIDE DEF S
    <3>2. QED
      BY <3>1, LeastNatural
  <2>2. m \in owner + 1..n /\ ~(p[m] \in 1..Len(e[m]) /\ e[m][p[m]] = decl)
    OBVIOUS
  <2>3. ~(m <= m - 1) /\ (m - 1 # owner => m - 1 \in owner + 1..n)
    <3>1. m \in owner + 1..n
      BY <2>2, Zenon
    <3> HIDE DEF S
    <3>2. \A j \in owner + 1..n : ~(j <= j - 1) /\ (j - 1 # owner => j - 1 \in owner + 1..n)
      BY <1>1
    <3>3. QED
      BY <3>1, <3>2, Zenon
  <2>4. m - 1 # owner => p[m - 1] \in 1..Len(e[m - 1]) /\ e[m - 1][p[m - 1]] = decl
    BY <2>1, <2>3
  <2>5. QED
    BY <1>7, <2>2, <2>4
<1>9. ASSUME NEW k \in 1..n, NEW i \in 1..Len(compilers'[k].upvalues)
      PROVE  Reaches(k, i, e)'
  <2>1. CASE i \in 1..Len(d[k])
    <3>1. Reaches(k, i, d)
      BY <1>4, <2>1 DEF Reaching
    <3>2. k > 1 /\ k - 1 \in 1..n
      <4>1. k > 1
        BY <3>1 DEF Reaches
      <4>2. QED
        BY <4>1
    <3>3. Alike(compilers[k - 1], compilers'[k - 1])
      BY <1>2, <3>2
    <3>4. /\ compilers'[k].upvalues[i] = compilers[k].upvalues[i] /\ e[k][i] = d[k][i]
          /\ Len(d[k - 1]) <= Len(e[k - 1]) /\ Len(d[k - 1]) \in Nat /\ Len(e[k - 1]) \in Nat
          /\ \A j \in 1..Len(d[k - 1]) : e[k - 1][j] = d[k - 1][j]
      BY <1>6, <2>1, <3>2
    <3> DEFINE u == compilers[k].upvalues[i]
    <3> HIDE DEF u
    <3>5. CASE u.is_local
      <4>1. u.index \in 1..Len(compilers[k - 1].env) + 1
            /\ d[k][i] = <<compilers[k - 1].id, compilers[k - 1].locals[u.index].from>>
        BY <3>1, <3>5, Zenon DEF Reaches, u
      <4>2. u.index \in 1..Len(compilers[k - 1].locals)
        <5>1. /\ Len(compilers[k - 1].locals) >= Len(compilers[k - 1].env) + 1
              /\ Len(compilers[k - 1].env) \in Nat /\ Len(compilers[k - 1].locals) \in Nat
          BY <3>2, CompilerParts
        <5>2. QED
          BY <4>1, <5>1
      <4>3. /\ compilers'[k - 1].env = compilers[k - 1].env
            /\ compilers'[k - 1].id = compilers[k - 1].id
            /\ compilers'[k - 1].locals[u.index].from = compilers[k - 1].locals[u.index].from
        BY <3>3, <4>2, Zenon DEF Alike
      <4>4. QED
        BY <3>2, <3>4, <3>5, <4>1, <4>3, Zenon DEF Reaches, u
    <3>6. CASE ~u.is_local
      <4>1. u.index \in 1..Len(d[k - 1]) /\ d[k][i] = d[k - 1][u.index]
        BY <3>1, <3>6, Zenon DEF Reaches, u
      <4>2. u.index \in 1..Len(e[k - 1]) /\ e[k][i] = e[k - 1][u.index]
        <5>1. e[k - 1][u.index] = d[k - 1][u.index] /\ e[k][i] = d[k][i]
          BY <3>4, <4>1, Zenon
        <5> DEFINE a == Len(d[k - 1])  b == Len(e[k - 1])  j == u.index
        <5>2. a \in Nat /\ b \in Nat /\ a <= b /\ j \in 1..a
          BY <3>4, <4>1
        <5> HIDE DEF a, b, j
        <5>3. j \in 1..b
          BY <5>2
        <5>4. QED
          BY <4>1, <5>1, <5>3 DEF b, j
      <4>3. QED
        BY <3>2, <3>4, <3>6, <4>2, Zenon DEF Reaches, u
    <3>7. QED
      BY <3>5, <3>6
  <2>2. CASE i \notin 1..Len(d[k])
    <3>1. /\ e[k][i] = decl /\ k \in owner + 1..n
          /\ compilers'[k].upvalues[i] = Upvalue(owner, k, p[k - 1])
      BY <1>6, <2>2
    <3>2. /\ k > 1 /\ k - 1 \in 1..n /\ (k - 1 = owner <=> k = owner + 1)
          /\ (k - 1 # owner => k - 1 \in owner + 1..n)
      BY <1>1, <3>1
    <3> DEFINE u == Upvalue(owner, k, p[k - 1])
    <3>3. u.is_local = (k = owner + 1) /\ u.index = p[k - 1]
      BY DEF Upvalue
    <3>4. compilers'[k].upvalues[i] = u
      BY <3>1
    <3> HIDE DEF u
    <3>5. CASE k = owner + 1
      <4>1. k - 1 = owner /\ u.index = slot /\ u.is_local
        BY <1>3, <3>2, <3>3, <3>5
      <4>2. Alike(compilers[owner], compilers'[owner])
        BY <1>1, <1>2
      <4>3. /\ compilers'[owner].env = compilers[owner].env
            /\ compilers'[owner].id = compilers[owner].id
            /\ compilers'[owner].locals[slot].from = compilers[owner].locals[slot].from
        BY <4>2, Zenon DEF Alike
      <4>4. slot \in 1..Len(compilers'[owner].env) + 1
            /\ e[k][i] = <<compilers'[owner].id, compilers'[owner].locals[slot].from>>
        BY <3>1, <4>3
      <4>5. QED
        BY <3>2, <3>4, <4>1, <4>4, Zenon DEF Reaches
    <3>6. CASE k # owner + 1
      <4>1. p[k - 1] \in 1..Len(e[k - 1]) /\ e[k - 1][p[k - 1]] = decl
        BY <1>8, <3>2, <3>6
      <4>2. ~u.is_local /\ u.index = p[k - 1]
        BY <3>3, <3>6
      <4>3. QED
        BY <3>1, <3>2, <3>4, <4>1, <4>2, Zenon DEF Reaches
    <3>7. QED
      BY <3>5, <3>6
  <2>3. QED
    BY <2>1, <2>2
<1>10. Reaching(e)'
  <2>1. e \in [1..n -> Seq(Decl)]
    <3>1. \A k \in 1..n : e[k] \in Seq(Decl)
      BY <1>6
    <3>2. QED
      BY <3>1
  <2>2. \A k \in 1..n : Len(e[k]) = Len(compilers'[k].upvalues)
    BY <1>6
  <2>3. QED
    BY <1>2, <1>9, <2>1, <2>2 DEF Reaching
<1>11. Extends(d, e, n)
  BY <1>6, Zenon DEF Extends
<1>12. QED
  BY <1>1, <1>8, <1>10, <1>11

-----------------------------------------------------------------------------
(* What a name resolves to *)

\* A variable of a function, by the index of its local
Slot(k, name) == ResolveLocal(compilers[k], name)
Declared(k, name) == <<compilers[k].id, compilers[k].locals[Slot(k, name)].from>>

LEMMA VisibleAnywhere ==
  ASSUME Typed, NEW A \in State, Levels(A), A.stage \in Waiting, NEW name \in Names,
         NEW k \in 1..Len(compilers)
  PROVE  /\ Len(compilers[k].locals) >= Len(compilers[k].env) + 1
         /\ Visible(compilers[k], name) = {} <=> DeclaredIn(compilers[k], name) = {}
         /\ Visible(compilers[k], name) # {} =>
              /\ Slot(k, name) \in 1..Len(compilers[k].env) + 1
              /\ Slot(k, name) \in 1..Len(compilers[k].locals)
              /\ compilers[k].env[Max(DeclaredIn(compilers[k], name))].decl = Declared(k, name)
<1>1. compilers[k] \in CompilerRecord
  BY DEF Typed
<1>2. Len(compilers) = Top(A) /\ Len(A.outer) = Len(compilers) - 1 /\ Len(compilers) \in Nat
  BY CurrentType
<1>3. \E stage \in Waiting : \E depth, knows : Scoped(compilers[k], depth, stage, knows)
  <2>1. CASE k \in 1..Len(A.outer)
    BY <2>1 DEF Levels
  <2>2. CASE k = Top(A)
    BY <2>2 DEF Levels
  <2>3. QED
    BY <1>2, <2>1, <2>2
<1>4. QED
  BY <1>1, <1>3, VisibleDeclared, ScopedParts DEF Slot, Declared

LEMMA MeantIs ==
  ASSUME Typed, NEW A \in State, Levels(A), A.stage \in Waiting, NEW name \in Names,
         NEW n, n = Len(compilers)
  PROVE  /\ n \in Nat \ {0}
         /\ Visible(Current, name) # {} => Meant(name) = Declared(n, name)
         /\ Visible(Current, name) = {} /\ EnclosingWith(name) # {} =>
              LET owner == Max(EnclosingWith(name))
              IN  /\ owner \in 1..n - 1 /\ Visible(compilers[owner], name) # {}
                  /\ Meant(name) = Declared(owner, name)
         /\ Visible(Current, name) = {} /\ EnclosingWith(name) = {} => Meant(name) = Global
<1> DEFINE V(k) == Visible(compilers[k], name)
           D(k) == DeclaredIn(compilers[k], name)
           E == EnclosingWith(name)
           declaring == {k \in DOMAIN compilers : D(k) # {}}
<1>1. /\ n \in Nat \ {0} /\ n \in 1..n /\ Current = compilers[n] /\ DOMAIN compilers = 1..n
      /\ 1..n - 1 \subseteq 1..n
  BY CurrentType DEF Typed
<1>2. \A k \in 1..n : /\ V(k) = {} <=> D(k) = {}
                      /\ V(k) # {} => compilers[k].env[Max(D(k))].decl = Declared(k, name)
  BY VisibleAnywhere
<1>3. E = {k \in 1..n - 1 : V(k) # {}}
  BY DEF EnclosingWith
<1>4. Meant(name) = IF declaring = {} THEN Global
                    ELSE compilers[Max(declaring)].env[Max(D(Max(declaring)))].decl
  BY DEF Meant
<1>5. declaring = {k \in 1..n : V(k) # {}}
  BY <1>1, <1>2
<1> HIDE DEF V, D, E, declaring
<1>6. declaring # {} => Max(declaring) \in declaring /\ \A k \in declaring : k <= Max(declaring)
  BY <1>1, <1>5, MaxExists
<1>7. declaring # {} => Meant(name) = Declared(Max(declaring), name) /\ V(Max(declaring)) # {}
  BY <1>2, <1>4, <1>5, <1>6
<1>8. ASSUME V(n) # {} PROVE Meant(name) = Declared(n, name)
  <2>1. n \in declaring
    BY <1>1, <1>5, <1>8
  <2>2. Max(declaring) \in 1..n /\ n <= Max(declaring)
    BY <1>5, <1>6, <2>1
  <2>3. Max(declaring) = n
    BY <1>1, <2>2
  <2>4. QED
    BY <1>7, <2>1, <2>3
<1>9. ASSUME V(n) = {} PROVE declaring = E
  <2>1. \A k \in 1..n : k = n \/ k \in 1..n - 1
    BY <1>1
  <2>2. QED
    BY <1>1, <1>3, <1>5, <1>9, <2>1
<1>10. ASSUME V(n) = {}, E # {}
       PROVE  Max(E) \in 1..n - 1 /\ V(Max(E)) # {} /\ Meant(name) = Declared(Max(E), name)
  <2>1. declaring # {} /\ Max(E) = Max(declaring)
    BY <1>9, <1>10
  <2>2. Max(E) \in E
    BY <1>6, <1>9, <1>10
  <2>3. QED
    BY <1>3, <1>7, <2>1, <2>2
<1>11. ASSUME V(n) = {}, E = {} PROVE Meant(name) = Global
  BY <1>4, <1>9, <1>11
<1>12. V(n) = Visible(Current, name)
  BY <1>1 DEF V
<1>13. QED
  BY <1>1, <1>8, <1>10, <1>11, <1>12 DEF V, E

\* A variable of the function itself is known from now on.
LEMMA LocalKnown ==
  ASSUME NEW A \in State, A.alive, Matches(A), NEW index \in Nat, NEW decl \in Decl,
         index \in 1..Len(Current.env) + 1, decl = <<Current.id, Current.locals[index].from>>,
         NEW bound, bound = {<<"LOCAL", <<index, decl>>>>},
         UNCHANGED unitVars, fuel' \in Nat
  PROVE  Matches(Aware(A, bound))'
<1>1. bound \in SUBSET Binding
  BY DEF Binding
<1> SUFFICES ASSUME NEW B \in State, B = Aware(A, bound) PROVE Matches(B)'
  <2>1. Aware(A, bound) \in State
    BY <1>1, AwareState DEF IsPlain
  <2>2. QED
    BY <2>1
<1>2. /\ B.knows = A.knows \cup bound /\ B.stage = A.stage /\ B.depth = A.depth
      /\ SameOuter(A, B) /\ SameFrames(A, B) /\ B.alive /\ Top(B) = Top(A)
  <2>1. IsPlain(A, B, A.temps, A.stage, A.depth, A.knows \cup bound)
    BY <1>1, AwareState
  <2>2. QED
    BY <2>1 DEF IsPlain, SameOuter, SamePlaces, SameFrames
<1>3. /\ Typed /\ Levels(A) /\ Frames(A) /\ Current \in CompilerRecord
      /\ Scoped(Current, A.depth, A.stage, A.knows)
  BY CurrentLocals
<1>4. Scoped(Current, B.depth, B.stage, B.knows)
  <2> DEFINE id == Current.id  locals == Current.locals  env == Current.env
             braces == Current.braces
  <2>1. Current.scope_depth = A.depth /\ ScopedAs(id, locals, env, braces, A.depth, A.stage, A.knows)
    BY <1>3 DEF Scoped
  <2>2. KnowsLocals(id, locals, env, A.knows)
    BY <2>1, Zenon DEF ScopedAs
  <2> SUFFICES ScopedAs(id, locals, env, braces, B.depth, B.stage, B.knows)
    BY <1>2, <2>1 DEF Scoped
  <2>3. index \in 1..Len(env) + 1 /\ decl = <<id, locals[index].from>>
    OBVIOUS
  <2> HIDE DEF id, locals, env, braces
  <2>4. KnowsLocals(id, locals, env, B.knows)
    BY <1>2, <2>2, <2>3 DEF KnowsLocals
  <2>5. QED
    BY <1>2, <2>1, <2>4, Zenon DEF ScopedAs
<1>5. Typed'
  BY <1>3 DEF Typed, unitVars
<1>6. Frames(B)'
  BY <1>2, <1>3, FramesKept DEF unitVars
<1>7. compilers' = compilers /\ Len(compilers) = Top(A) /\ Current = compilers[Top(A)]
  BY <1>3, CurrentType DEF unitVars
<1>8. Levels(B)'
  BY <1>2, <1>3, <1>4, <1>7 DEF Levels, SameOuter
<1>9. PICK d : Upvalues(A, d)
  BY DEF Matches
<1>10. KnowsUpvalues(d, Top(B), B.knows)
  BY <1>2, <1>9 DEF Upvalues, KnowsUpvalues
<1>11. Reaching(d)'
  BY <1>7, <1>9 DEF Upvalues, Reaching, Reaches
<1>12. Upvalues(B, d)'
  BY <1>2, <1>9, <1>10, <1>11 DEF Upvalues, SameOuter
<1>13. QED
  BY <1>2, <1>5, <1>6, <1>8, <1>12 DEF Matches

\* A variable of a function around it is reached through upvalues.
LEMMA UpvalueKnown ==
  ASSUME NEW A \in State, A.alive, Matches(A), A.stage \in Waiting, NEW name \in Names,
         NEW n, n = Len(compilers), NEW owner \in 1..n - 1, NEW slot,
         slot = Slot(owner, name), Visible(compilers[owner], name) # {},
         NEW p, Passed(owner, slot, p), compilers' = Passing(owner, slot, p),
         NEW index, index = p[n], NEW decl, decl = Declared(owner, name),
         NEW bound, bound = {<<"UPVALUE", <<index, decl>>>>},
         OnlyCompilers, fuel' \in Nat
  PROVE  index \in Nat /\ decl \in Decl /\ Matches(Aware(A, bound))'
<1>1. Typed /\ Levels(A) /\ Frames(A)
  BY CurrentLocals
<1>2. /\ n = Top(A) /\ n \in Nat \ {0} /\ Len(A.outer) = n - 1 /\ compilers \in Seq(CompilerRecord)
      /\ owner \in 1..n
  <2>1. n = Top(A) /\ n \in Nat \ {0} /\ Len(A.outer) = n - 1
    BY <1>1, CurrentType
  <2>2. QED
    BY <1>1, <2>1 DEF Typed
<1>3. /\ slot \in 1..Len(compilers[owner].env) + 1 /\ slot \in 1..Len(compilers[owner].locals)
      /\ \A k \in 1..n : Len(compilers[k].locals) >= Len(compilers[k].env) + 1
  BY <1>1, <1>2, VisibleAnywhere
<1>4. decl = <<compilers[owner].id, compilers[owner].locals[slot].from>> /\ decl \in Decl
  <2>1. decl = <<compilers[owner].id, compilers[owner].locals[slot].from>>
    BY DEF Declared
  <2>2. compilers[owner].id \in Nat /\ compilers[owner].locals \in Seq(LocalRecord)
    <3>1. compilers[owner] \in CompilerRecord
      BY <1>2, ElementType, Zenon
    <3>2. QED
      BY <3>1, CompilerParts
  <2>3. compilers[owner].locals[slot] \in LocalRecord
    BY <1>3, <2>2
  <2>4. compilers[owner].locals[slot].from \in Int
    BY <2>3 DEF LocalRecord
  <2>5. QED
    BY <2>1, <2>2, <2>4 DEF Decl
<1>5. PICK d : Upvalues(A, d)
  BY DEF Matches
<1>6. PICK e : Reaching(e)' /\ Extends(d, e, n) /\ p[n] \in 1..Len(e[n]) /\ e[n][p[n]] = decl
  <2>1. Reaching(d) /\ n \in Nat
    BY <1>2, <1>5 DEF Upvalues
  <2>2. QED
    <3>1. PassesOn(n, owner, slot, p, decl)
      BY <1>2, <1>3, <1>4, <2>1, Zenon DEF PassesOn
    <3>2. QED
      BY <2>1, <3>1, ReachingPassed
<1>7. index \in 1..Len(e[n]) /\ e[n][index] = decl /\ index \in Nat /\ n \in 1..n
  BY <1>2, <1>6
<1>8. PassedOn(owner, p, compilers')
  BY <1>2, <1>3, PassingParts
<1>9. /\ compilers' \in Seq(CompilerRecord) /\ Len(compilers') = n
      /\ \A k \in 1..n : Alike(compilers[k], compilers'[k]) /\ compilers[k] \in CompilerRecord
  <2>1. \A k \in 1..n : compilers[k] \in CompilerRecord
    BY <1>2, ElementType, Zenon
  <2>2. QED
    BY <1>8, <2>1, Zenon DEF PassedOn
<1>10. bound \in SUBSET Binding
  BY <1>4, <1>7 DEF Binding
<1> SUFFICES ASSUME NEW B \in State, B = Aware(A, bound) PROVE Matches(B)'
  <2>1. Aware(A, bound) \in State
    BY <1>10, AwareState DEF IsPlain
  <2>2. QED
    BY <1>4, <1>7, <2>1
<1>11. /\ B.knows = A.knows \cup bound /\ B.stage = A.stage /\ B.depth = A.depth
       /\ SameOuter(A, B) /\ SameFrames(A, B) /\ B.alive /\ Top(B) = n
  <2>1. IsPlain(A, B, A.temps, A.stage, A.depth, A.knows \cup bound)
    BY <1>10, AwareState
  <2>2. QED
    BY <1>2, <2>1 DEF IsPlain, SameOuter, SamePlaces, SameFrames
<1>12. Typed'
  BY <1>1, <1>9 DEF Typed, OnlyCompilers
<1>13. Frames(B)'
  BY <1>1, <1>11, FramesKept DEF OnlyCompilers
<1>14. Scoped(compilers'[n], B.depth, B.stage, B.knows)
  <2>1. Scoped(compilers[n], A.depth, A.stage, A.knows)
    BY <1>1, <1>2 DEF Levels
  <2> DEFINE c == compilers'[n]
  <2>2. Scoped(c, A.depth, A.stage, A.knows)
    BY <1>7, <1>9, <2>1, AlikeScoped
  <2> HIDE DEF c
  <2>3. KnowsLocals(c.id, c.locals, c.env, B.knows)
    <3>1. KnowsLocals(c.id, c.locals, c.env, A.knows)
      BY <2>2, Zenon DEF Scoped, ScopedAs
    <3>2. \A i, x : <<"LOCAL", <<i, x>>>> \in B.knows => <<"LOCAL", <<i, x>>>> \in A.knows
      BY <1>11
    <3>3. QED
      BY <3>1, <3>2, Zenon DEF KnowsLocals
  <2>4. QED
    BY <1>11, <2>2, <2>3, Zenon DEF Scoped, ScopedAs, c
<1>15. Levels(B)'
  <2>1. ASSUME NEW k \in 1..Len(B.outer)
        PROVE  /\ B.outer[k].stage \in Waiting
               /\ Scoped(compilers'[k], B.outer[k].depth, B.outer[k].stage, B.outer[k].knows)
    <3>1. k \in 1..Len(A.outer) /\ B.outer[k] = A.outer[k] /\ k \in 1..n
      BY <1>2, <1>11 DEF SameOuter
    <3>2. A.outer[k].stage \in Waiting
          /\ Scoped(compilers[k], A.outer[k].depth, A.outer[k].stage, A.outer[k].knows)
      BY <1>1, <3>1 DEF Levels
    <3>3. QED
      BY <1>9, <3>1, <3>2, AlikeScoped
  <2>2. QED
    BY <1>9, <1>11, <1>14, <2>1 DEF Levels
<1>16. \A k \in 1..n : \A knows : KnowsUpvalues(d, k, knows) => KnowsUpvalues(e, k, knows)
  <2>1. SUFFICES ASSUME NEW k \in 1..n, NEW knows, KnowsUpvalues(d, k, knows),
                        NEW i \in Nat, NEW x \in Decl, <<"UPVALUE", <<i, x>>>> \in knows
                 PROVE  i \in 1..Len(e[k]) /\ e[k][i] = x
    BY Zenon DEF KnowsUpvalues
  <2>2. i \in 1..Len(d[k]) /\ d[k][i] = x
    BY <2>1, Zenon DEF KnowsUpvalues
  <2>3. QED
    BY <1>6, <2>1, <2>2 DEF Extends
<1>17. KnowsUpvalues(e, n, B.knows)
  <2>1. KnowsUpvalues(d, n, A.knows)
    BY <1>2, <1>5 DEF Upvalues
  <2>2. KnowsUpvalues(e, n, A.knows)
    BY <1>7, <1>16, <2>1
  <2>3. \A i, x : <<"UPVALUE", <<i, x>>>> \in B.knows =>
          <<"UPVALUE", <<i, x>>>> \in A.knows \/ (i = index /\ x = decl)
    BY <1>11
  <2>4. QED
    BY <1>7, <2>2, <2>3, Zenon DEF KnowsUpvalues
<1>18. Upvalues(B, e)'
  <2>1. ASSUME NEW k \in 1..Len(B.outer) PROVE KnowsUpvalues(e, k, B.outer[k].knows)
    <3>1. k \in 1..Len(A.outer) /\ B.outer[k] = A.outer[k] /\ k \in 1..n
      BY <1>2, <1>11 DEF SameOuter
    <3>2. KnowsUpvalues(d, k, A.outer[k].knows)
      BY <1>5, <3>1 DEF Upvalues
    <3>3. QED
      BY <1>16, <3>1, <3>2
  <2>2. QED
    BY <1>6, <1>11, <1>17, <2>1 DEF Upvalues
<1>19. QED
  BY <1>11, <1>12, <1>13, <1>15, <1>18 DEF Matches

\* What named_variable relies on after it has resolved the name
LEMMA ResolveMatches ==
  ASSUME NEW A \in State, A.alive, Matches(A), A.stage \in {"none", "declared"},
         NEW name \in Names, NEW r, r = Resolve(name), NEW decl, decl = Meant(name),
         compilers' = r.compilers, OnlyCompilers, fuel' \in Nat
  PROVE  /\ r.get \in {"GET_LOCAL", "GET_UPVALUE", "GET_GLOBAL"}
         /\ r.set \in {"SET_LOCAL", "SET_UPVALUE", "SET_GLOBAL"}
         /\ \A op \in {r.get, r.set} :
              /\ Resolution(op, r.index, decl)
              /\ Matches(Aware(A, Bound(op, r.index, decl)))'
<1> SUFFICES ASSUME NEW n, n = Len(compilers)
             PROVE  /\ r.get \in {"GET_LOCAL", "GET_UPVALUE", "GET_GLOBAL"}
                    /\ r.set \in {"SET_LOCAL", "SET_UPVALUE", "SET_GLOBAL"}
                    /\ \A op \in {r.get, r.set} :
                         /\ Resolution(op, r.index, decl)
                         /\ Matches(Aware(A, Bound(op, r.index, decl)))'
  OBVIOUS
<1>1. /\ Typed /\ Levels(A) /\ Frames(A) /\ A.stage \in Waiting /\ Current \in CompilerRecord
      /\ compilers \in Seq(CompilerRecord) /\ Current = compilers[n]
  <2>1. Typed /\ Levels(A) /\ Frames(A) /\ Current \in CompilerRecord
    BY CurrentLocals
  <2>2. QED
    BY <2>1 DEF Waiting, Typed, Current
<1>2. /\ n \in Nat \ {0}
      /\ Visible(Current, name) # {} => decl = Declared(n, name)
      /\ Visible(Current, name) = {} /\ EnclosingWith(name) # {} =>
           LET owner == Max(EnclosingWith(name))
           IN  /\ owner \in 1..n - 1 /\ Visible(compilers[owner], name) # {}
               /\ decl = Declared(owner, name)
      /\ Visible(Current, name) = {} /\ EnclosingWith(name) = {} => decl = Global
  BY <1>1, MeantIs
<1>3. CASE Visible(Current, name) # {}
  <2>1. PICK index : index = ResolveLocal(Current, name)
    OBVIOUS
  <2>2. r = [get |-> "GET_LOCAL", set |-> "SET_LOCAL", index |-> index, compilers |-> compilers]
    BY <1>3, <2>1 DEF Resolve
  <2>3. /\ index \in 1..Len(Current.env) + 1 /\ index \in 1..Len(Current.locals)
        /\ decl = <<Current.id, Current.locals[index].from>>
    <3>1. n \in 1..Len(compilers)
      BY <1>2
    <3>2. QED
      BY <1>1, <1>2, <1>3, <2>1, <3>1, VisibleAnywhere DEF Slot, Declared
  <2>4. index \in Nat /\ decl \in Decl
    <3>1. Current.id \in Nat /\ Current.locals \in Seq(LocalRecord) /\ Len(Current.env) \in Nat
      BY <1>1, CompilerParts
    <3>2. Current.locals[index] \in LocalRecord
      BY <2>3, <3>1, ElementType, Zenon
    <3>3. Current.locals[index].from \in Int
      BY <3>2 DEF LocalRecord
    <3>4. index \in Nat
      BY <2>3, <3>1
    <3>5. QED
      BY <2>3, <3>1, <3>3, <3>4 DEF Decl
  <2>5. ASSUME NEW bound, bound = {<<"LOCAL", <<index, decl>>>>}
        PROVE  Matches(Aware(A, bound))'
    <3>1. UNCHANGED unitVars
      BY <2>2 DEF OnlyCompilers, unitVars
    <3>2. QED
      BY <2>3, <2>4, <2>5, <3>1, LocalKnown
  <2>6. ASSUME NEW op \in {"GET_LOCAL", "SET_LOCAL"}
        PROVE  /\ Resolution(op, index, decl)
               /\ Matches(Aware(A, Bound(op, index, decl)))'
    <3>1. Bound(op, index, decl) = {<<"LOCAL", <<index, decl>>>>}
      BY DEF Bound, Knowing
    <3>2. Resolution(op, index, decl)
      BY <2>4 DEF Resolution
    <3>3. QED
      BY <2>5, <3>1, <3>2
  <2>7. QED
    BY <2>2, <2>6
<1>4. CASE Visible(Current, name) = {} /\ EnclosingWith(name) # {}
  <2>1. PICK owner : owner = Max(EnclosingWith(name))
    OBVIOUS
  <2>2. /\ owner \in 1..n - 1 /\ owner \in 1..Len(compilers)
        /\ Visible(compilers[owner], name) # {} /\ decl = Declared(owner, name)
    BY <1>2, <1>4, <2>1
  <2>3. PICK slot : slot = Slot(owner, name)
    OBVIOUS
  <2>4. slot \in Nat /\ slot = ResolveLocal(compilers[owner], name)
    <3>1. slot \in 1..Len(compilers[owner].locals)
      BY <1>1, <2>2, <2>3, VisibleAnywhere
    <3>2. Len(compilers[owner].locals) \in Nat
      <4>1. compilers[owner] \in CompilerRecord
        BY <1>1, <2>2, ElementType, Zenon
      <4>2. QED
        BY <4>1, CompilerParts
    <3>3. QED
      BY <2>3, <3>1, <3>2 DEF Slot
  <2>5. PICK p : /\ Passed(owner, slot, p)
                 /\ ResolveUpvalue(name).index = p[n]
                 /\ ResolveUpvalue(name).compilers = Passing(owner, slot, p)
    BY <1>1, <2>1, <2>2, <2>4, ResolveUpvalueIs
  <2>6. PICK index : index = p[n]
    OBVIOUS
  <2>7. /\ r = [get |-> "GET_UPVALUE", set |-> "SET_UPVALUE", index |-> index,
                compilers |-> Passing(owner, slot, p)]
        /\ compilers' = Passing(owner, slot, p)
    <3>1. r = [get |-> "GET_UPVALUE", set |-> "SET_UPVALUE", index |-> ResolveUpvalue(name).index,
               compilers |-> ResolveUpvalue(name).compilers]
      BY <1>4, Zenon DEF Resolve
    <3>2. QED
      BY <2>5, <2>6, <3>1
  <2>8. ASSUME NEW bound, bound = {<<"UPVALUE", <<index, decl>>>>}
        PROVE  index \in Nat /\ decl \in Decl /\ Matches(Aware(A, bound))'
    BY <1>1, <2>2, <2>3, <2>5, <2>6, <2>7, <2>8, UpvalueKnown
  <2>9. ASSUME NEW op \in {"GET_UPVALUE", "SET_UPVALUE"}
        PROVE  /\ Resolution(op, index, decl)
               /\ Matches(Aware(A, Bound(op, index, decl)))'
    <3>1. Bound(op, index, decl) = {<<"UPVALUE", <<index, decl>>>>}
      BY DEF Bound, Knowing
    <3>2. Resolution(op, index, decl)
      BY <2>8, <3>1 DEF Resolution
    <3>3. QED
      BY <2>8, <3>1, <3>2
  <2>10. QED
    BY <2>7, <2>9
<1>5. CASE Visible(Current, name) = {} /\ EnclosingWith(name) = {}
  <2>1. r = [get |-> "GET_GLOBAL", set |-> "SET_GLOBAL", index |-> 0, compilers |-> compilers]
    BY <1>5, Zenon DEF Resolve
  <2>2. decl = Global
    BY <1>2, <1>5
  <2>3. ASSUME NEW bound, bound = {} PROVE Matches(Aware(A, bound))'
    <3>1. IsPlain(A, Aware(A, bound), A.temps, A.stage, A.depth, A.knows \cup bound)
      BY <2>3, AwareState
    <3>2. PICK B \in State : B = Aware(A, bound)
      BY <3>1 DEF IsPlain
    <3>3. Keeping(A, B)
      BY <2>3, <3>1, <3>2 DEF IsPlain, Keeping, SameFrames, SamePlaces
    <3>4. StaysTyped
      BY <1>1 DEF StaysTyped, OnlyCompilers, Typed
    <3>5. UNCHANGED compilers
      BY <2>1
    <3>6. Matches(B)'
      BY <3>3, <3>4, <3>5, UnchangedMatches
    <3>7. QED
      BY <3>2, <3>6
  <2>4. ASSUME NEW op \in {"GET_GLOBAL", "SET_GLOBAL"}
        PROVE  /\ Resolution(op, 0, decl)
               /\ Matches(Aware(A, Bound(op, 0, decl)))'
    <3>1. Bound(op, 0, decl) = {}
      BY DEF Bound
    <3>2. Resolution(op, 0, decl)
      BY <2>2 DEF Resolution
    <3>3. QED
      BY <2>3, <3>1, <3>2
  <2>5. QED
    BY <2>1, <2>4
<1>6. QED
  BY <1>3, <1>4, <1>5

=============================================================================
