--------------------------------- MODULE Repl ---------------------------------
(***************************************************************************)
(* An interactive session (repl.c): every input line is compiled to the    *)
(* end of one chunk, and the frame of the script, left behind by the line  *)
(* before, goes on in it.                                                  *)
(*                                                                         *)
(* The code of a line is that of a few statements; code, capacity and      *)
(* lines are counted in instructions.  A value on the stack is represented *)
(* by the local it was meant for.  The array the code is in may move when  *)
(* it grows; "place" tells one allocation from another.  Captured          *)
(* variables (Upvalues) and coroutines (Coroutines) are left out.          *)
(***************************************************************************)
EXTENDS LineInfo, SequencesExt

CONSTANTS MinCapacity,   \* the least capacity of an array that has grown
          MaxLines,      \* bound: input lines
          MaxStatements  \* bound: statements on a line

\* The text of an input is on line 1, and ends on line 2.
ASSUME ReplAssumption ==
  /\ MinCapacity \in Nat \ {0} /\ MaxLines \in Nat /\ MaxStatements \in Nat \ {0}
  /\ {1, 2} \subseteq LineNumbers

VARIABLES
  phase,    \* at the prompt, compiling, running, or undefined behaviour
  read,      \* lines read
  todo,      \* code of the line that compile_line has not emitted yet
  locals,    \* compiler.local_count, without the reserved slot
  code,      \* f->chunk.code
  place,     \* which allocation the code is in
  capacity,  \* f->chunk.capacity
  codeSize,  \* where the code of the line begins
  frame,     \* frames[0] of the main coroutine, if frame_count is 1
  stack,     \* the stack of the main coroutine
  displaced, \* history: a line has taken or left values it should not have
  early      \* history: a line was left by a return of its own

chunk == <<code, place, capacity, lineVars>>
replVars  == <<phase, read, todo, locals, chunk, codeSize, frame, stack, displaced, early>>

NoFrame == [place |-> 0, ip |-> 0]
Script  == 0   \* the closure in slot 0, and values meant for no local

ReplInit ==
  /\ phase = "prompt" /\ read = 0 /\ todo = <<>> /\ locals = 0
  /\ code = <<>> /\ place = 0 /\ capacity = 0 /\ codeSize = 0
  /\ frame = NoFrame /\ stack = <<>> /\ displaced = FALSE /\ early = FALSE
  /\ LineInit

-----------------------------------------------------------------------------
(* Compiling *)

Instr(op, arg, line) == [op |-> op, arg |-> arg, line |-> line]

\* The code of a statement that ends on the given line, after n locals.  For a
\* "bad" one, where no expression is found, parse_precedence emits nothing; a
\* "return" is an error in a script, and compiled.
CodeOf(statement, n, end) ==
  LET i == statement[2]
  IN  CASE statement[1] = "var"    -> <<Instr("PUSH", n + 1, 1)>>
        [] statement[1] = "use"    -> <<Instr("GET_LOCAL", i, 1), Instr("POP", 0, end)>>
        [] statement[1] = "assign" -> <<Instr("PUSH", i, 1), Instr("SET_LOCAL", i, 1),
                                        Instr("POP", 0, end)>>
        [] statement[1] = "call"   -> <<Instr("GET_LOCAL", i, 1), Instr("CALL", 0, 1),
                                        Instr("POP", 0, end)>>
        [] statement[1] = "bad"    -> <<Instr("POP", 0, end)>>
        [] statement[1] = "return" -> <<Instr("PUSH", Script, 1), Instr("RETURN", 0, 1)>>

\* What may come next, given the number of locals.
StatementsAfter(n) == ({"var", "bad", "return"} \X {0}) \cup ({"use", "assign", "call"} \X (1..n))

\* Every line is scanned from line 1.  The line feed that ends its last statement,
\* and the end of the text, are on line 2.
Extended(line, statement, end) ==
  [locals |-> IF statement[1] = "var" THEN line.locals + 1 ELSE line.locals,
   code   |-> line.code \o CodeOf(statement, line.locals, end),
   failed |-> line.failed \/ statement[1] \in {"bad", "return"}]

Empty == [locals |-> locals, code |-> <<>>, failed |-> FALSE]

\* The lines of up to n statements
Lines[n \in Nat] ==
  IF n = 0 THEN {Empty}
  ELSE {Empty} \cup UNION {{Extended(line, s, 1) : s \in StatementsAfter(line.locals)} : line \in Lines[n - 1]}

Inputs ==
  UNION {{Extended(line, s, 2) : s \in StatementsAfter(line.locals)} : line \in Lines[MaxStatements - 1]}

\* A variation: the code of a line does not end in a return.
Unreturned(codeOfLine) == codeOfLine
\* emit_return
Returned(codeOfLine) == codeOfLine \o <<Instr("PUSH", Script, 2), Instr("RETURN", 0, 2)>>

\* compile_line; whether there was an error is not asked.
ReadLine(line) ==
  /\ phase = "prompt" /\ read < MaxLines
  /\ read' = read + 1
  /\ codeSize' = Len(code)
  /\ todo' = Returned(line.code)
  /\ locals' = line.locals
  /\ displaced' = (displaced \/ line.failed)
  /\ phase' = "compile"
  /\ UNCHANGED <<chunk, frame, stack, early>>

\* The command ".stack" looks at the slots of the current frame.
StackCommand ==
  /\ phase = "prompt" /\ read = 0
  /\ phase' = "undefined"
  /\ UNCHANGED <<read, todo, locals, chunk, codeSize, frame, stack, displaced, early>>

Grown(n) == IF n < MinCapacity THEN MinCapacity ELSE 2 * n

\* chunk_write: realloc leaves the array where it is or moves it.
EmitInstr ==
  /\ phase = "compile" /\ todo # <<>>
  /\ Write(Head(todo).line)
  /\ code' = Append(code, Head(todo))
  /\ todo' = Tail(todo)
  /\ IF capacity < Len(code) + 1
     THEN /\ capacity' = Grown(capacity)
          /\ place' \in IF capacity = 0 THEN {1} ELSE {place, place + 1}
     ELSE UNCHANGED <<capacity, place>>
  /\ UNCHANGED <<phase, read, locals, codeSize, frame, stack, displaced, early>>

-----------------------------------------------------------------------------
(* Running *)

\* The first line creates the frame.  Later ones find it where the last return
\* left it: after an error there is none, and its ip may point into an array
\* that has moved.
Run ==
  /\ phase = "compile" /\ todo = <<>>
  /\ IF read = 1
     THEN /\ phase' = "run" /\ stack' = <<Script>> /\ frame' = [place |-> place, ip |-> 1]
     ELSE /\ phase' = IF frame.place = place THEN "run" ELSE "undefined"
          /\ UNCHANGED <<stack, frame>>
  /\ UNCHANGED <<read, todo, locals, chunk, codeSize, displaced, early>>

Executing(op) == phase = "run" /\ code[frame.ip].op = op

Slot == code[frame.ip].arg + 1

StepOver == frame' = [frame EXCEPT !.ip = @ + 1]

Silent == UNCHANGED <<read, todo, locals, chunk, codeSize>>

Push ==
  /\ Executing("PUSH")
  /\ stack' = Append(stack, code[frame.ip].arg)
  /\ StepOver /\ Silent /\ UNCHANGED <<phase, displaced, early>>

\* Above the stack there is what was left there.
GetLocal ==
  /\ Executing("GET_LOCAL")
  /\ stack' = Append(stack, IF Slot \in DOMAIN stack THEN stack[Slot] ELSE Script)
  /\ StepOver /\ Silent /\ UNCHANGED <<phase, displaced, early>>

SetLocal ==
  /\ Executing("SET_LOCAL")
  /\ stack' = IF Slot \in DOMAIN stack THEN [stack EXCEPT ![Slot] = Last(stack)] ELSE stack
  /\ StepOver /\ Silent /\ UNCHANGED <<phase, displaced, early>>

Pop ==
  /\ Executing("POP")
  /\ IF stack = <<>> THEN phase' = "undefined" /\ UNCHANGED <<stack, frame>>
     ELSE stack' = Front(stack) /\ StepOver /\ UNCHANGED phase
  /\ Silent /\ UNCHANGED <<displaced, early>>

\* do_return of a function leaves the callee below the result.
CallReturned ==
  /\ Executing("CALL")
  /\ stack' = Append(stack, Script)
  /\ displaced' = TRUE
  /\ StepOver /\ Silent /\ UNCHANGED <<phase, early>>

\* vm_reset, here or in the function that was called; repl goes on.
RuntimeError ==
  /\ Executing("CALL")
  /\ stack' = <<>> /\ frame' = NoFrame
  /\ phase' = "prompt"
  /\ Silent /\ UNCHANGED <<displaced, early>>

\* A variation: the result stays on the stack.
AfterReturnKept == stack
AfterReturn == Front(stack)

\* do_return of the script: frame_count is 1 again and the state READY.
Return ==
  /\ Executing("RETURN")
  /\ stack' = AfterReturn
  /\ phase' = "prompt"
  /\ early' = (early \/ frame.ip # Len(code))
  /\ StepOver /\ Silent /\ UNCHANGED displaced

ReplNext ==
  \/ \E line \in Inputs : ReadLine(line)
  \/ StackCommand \/ EmitInstr \/ Run
  \/ Push \/ GetLocal \/ SetLocal \/ Pop \/ CallReturned \/ RuntimeError \/ Return

ReplSpec == ReplInit /\ [][ReplNext]_replVars

-----------------------------------------------------------------------------
(* Properties *)

\* A line runs its own code, and the next one goes on behind it, with errors in
\* the text or without: the ip left by the last return is where compile_line
\* begins.  That ends with a return at the top level, an error that is compiled
\* and run all the same: from then on a line runs what was left of the one
\* before.  A session whose code moves under the frame is undefined.
RunsOnlyTheLine ==
  ~early =>
    /\ phase = "run"    => frame.ip \in codeSize + 1..Len(code)
    /\ phase = "prompt" => frame = NoFrame \/ frame.ip = Len(code) + 1

\* Between lines the stack holds the locals the compiler has counted, each in
\* its slot, with the value assigned to it, until a line with a syntax error
\* is run all the same or a function that was called leaves itself behind.
SlotsAreLocals ==
  phase = "prompt" /\ frame # NoFrame /\ ~displaced =>
    stack = <<Script>> \o [i \in 1..locals |-> i]

\* chunk.h says of the lines of a chunk: "Info should always be added in sorted
\* order, as this needs to be fast."  All lines of a session go to one chunk.
LinesSorted == \A i, j \in 1..Len(written) : i < j => written[i] <= written[j]

=============================================================================
