------------------------------- MODULE Parser -------------------------------
(***************************************************************************)
(* The scanner and the parser of compiler.c at the level of tokens: one    *)
(* token of lookahead with backtracking over newlines, precedence          *)
(* climbing, panic mode, and the lines the code is attributed to.          *)
(*                                                                         *)
(* A source is a sequence of lexemes.  "NL" is a line feed and "//" starts *)
(* a comment.  "agenda" holds the C calls still to be made.  Of the code,  *)
(* "out" keeps the order in which expressions are compiled; every emission *)
(* extends the line table of the chunk (LineInfo).  Functions, lists and   *)
(* dictionaries are left to Compiler, which starts from valid programs.    *)
(***************************************************************************)
EXTENDS LineInfo, SequencesExt, FiniteSetsExt

CONSTANT Sources  \* source texts, as sequences of lexemes

VARIABLES source,   \* the text being compiled
          tokens,   \* what scanner_next_token makes of it
          current,  \* parser.current: the index of the next token
          hadError, \* parser.had_error
          panic,    \* parser.panic_mode
          agenda,   \* C calls still to be made
          out,      \* operands and operators compiled, in order
          status    \* running, done, hung in a loop, or undefined behaviour

parserVars == <<source, tokens, current, hadError, panic, agenda, out, status>>
vars == <<parserVars, lineVars>>

\* Line feeds are lexemes: a text has at most one line more than lexemes.
ASSUME SourcesAssumption ==
  /\ Sources \subseteq Seq(STRING)
  /\ \A text \in Sources : 1..Len(text) + 1 \subseteq LineNumbers

-----------------------------------------------------------------------------
(* The scanner *)

Token(type, line) == [type |-> type, line |-> line]

\* scanner_next_token for the next lexeme.  "newline" is the flag of
\* skip_whitespace, which a comment ends without looking at the line feed
\* behind it: unless a line feed came before, that character starts a token
\* and is rejected, and the line is not counted.
ScanLexeme(s, lexeme) ==
  CASE s.comment /\ lexeme # "NL" -> s
    [] s.comment /\ lexeme = "NL" /\ s.newline ->
         [s EXCEPT !.comment = FALSE, !.tokens = Append(@, Token("NEWLINE", s.line)),
                   !.line = @ + 1]
    [] s.comment /\ lexeme = "NL" /\ ~s.newline ->
         [s EXCEPT !.comment = FALSE, !.tokens = Append(@, Token("ERROR", s.line))]
    [] ~s.comment /\ lexeme = "NL" -> [s EXCEPT !.newline = TRUE, !.line = @ + 1]
    [] ~s.comment /\ lexeme = "//" -> [s EXCEPT !.comment = TRUE]
    [] OTHER ->
         [s EXCEPT !.newline = FALSE, !.tokens =
            @ \o (IF s.newline THEN <<Token("NEWLINE", s.line)>> ELSE <<>>)
              \o <<Token(lexeme, s.line)>>]

StartOfText == [tokens |-> <<>>, newline |-> FALSE, comment |-> FALSE, line |-> 1]

\* The scanner after each number of lexemes
Scanned(text) ==
  LET after[n \in 0..Len(text)] ==
        IF n = 0 THEN StartOfText ELSE ScanLexeme(after[n - 1], text[n])
  IN  after

Scan(text) ==
  LET s == Scanned(text)[Len(text)]
  IN  s.tokens \o (IF s.newline THEN <<Token("NEWLINE", s.line)>> ELSE <<>>)
               \o <<Token("EOF", s.line)>>

-----------------------------------------------------------------------------
(* The token buffer *)

\* current_token(): the end of the file is returned again and again.
Type(i) == IF i <= Len(tokens) THEN tokens[i].type ELSE "EOF"

\* prev_token() and error() read the buffer without that check.
Read(i) == i \in DOMAIN tokens

\* skip_newlines
Skipped(i) == Min({j \in i..Max({i, Len(tokens)}) : Type(j) # "NEWLINE"})

\* check(type): where the token is found, or 0 after backtracking.  A newline
\* does for a semicolon.
Found(i, type) ==
  LET next == Skipped(i)
  IN  IF next # i /\ type \in {"NEWLINE", ";"} THEN i
      ELSE IF Type(next) = type THEN next
      ELSE 0

Matches(type) == Found(current, type) # 0
AfterMatch(type) == Found(current, type) + 1

\* advance() does not return from an error token, and skip_newlines advances.
Rejected(i) == i # current /\ Type(i) = "ERROR"
SkipHangs == Rejected(Skipped(current))

-----------------------------------------------------------------------------
(* The agenda *)

Doing(name) == status = "running" /\ agenda # <<>> /\ Head(agenda)[1] = name

Then(calls) == agenda' = calls \o Tail(agenda)

Call(name)           == <<name>>
Expression           == <<"precedence", 1>>
Precedence(level)    == <<"precedence", level>>
Consume(type)        == <<"consume", type>>
Emit(op)             == <<"emit", op>>
Code                 == Emit("")
Patch(op)            == <<"patch", op>>

\* A compilation that comes to its end, hangs, or reads what was never written.
Stop(why) ==
  /\ status' = why
  /\ agenda' = <<>>
  /\ hadError' = (hadError \/ why = "hung")
  /\ UNCHANGED <<current, panic>>

Quiet == UNCHANGED <<source, tokens, out, lineVars>>

Advance(i, calls) ==
  /\ IF Rejected(i) THEN Stop("hung")
     ELSE current' = i /\ Then(calls) /\ UNCHANGED <<hadError, panic, status>>
  /\ Quiet

Continue(calls) == Advance(current, calls)

\* The parser has looked behind the newlines and goes on at token i.
Move(i, calls) == IF SkipHangs THEN Stop("hung") /\ Quiet ELSE Advance(i, calls)

\* error_at(tokens[at]), reported once until the parser synchronizes
Error(i, at) ==
  /\ IF SkipHangs \/ Rejected(i) THEN Stop("hung")
     ELSE IF ~panic /\ ~Read(at) THEN Stop("undefined")
     ELSE current' = i /\ Then(<<>>) /\ hadError' = TRUE /\ panic' = TRUE /\ UNCHANGED status
  /\ Quiet

Expect ==
  /\ Doing("consume")
  /\ LET type == Head(agenda)[2]
     IN  IF Matches(type) THEN Move(AfterMatch(type), <<>>) ELSE Error(current, current)

\* A variation: a call is attributed to the line its statement starts on.
LineOfStart(op) == tokens[IF op = "call" THEN 1 ELSE current - 1].line

\* emit_byte: the line is that of prev_token().
LineOf(op) == tokens[current - 1].line

EmitCode ==
  /\ Doing("emit")
  /\ IF Read(current - 1)
     THEN /\ Write(LineOf(Head(agenda)[2]))
          /\ out' = IF Head(agenda)[2] = "" THEN out ELSE Append(out, Head(agenda)[2])
          /\ Then(<<>>)
          /\ UNCHANGED <<current, hadError, panic, status>>
     ELSE Stop("undefined") /\ UNCHANGED <<out, lineVars>>
  /\ UNCHANGED <<source, tokens>>

\* patch_jump: the end of what a jump skips; mark_initialized: the end of a
\* declaration.  Nothing is written.
PatchJump ==
  /\ Doing("patch")
  /\ out' = Append(out, Head(agenda)[2])
  /\ Then(<<>>)
  /\ UNCHANGED <<source, tokens, current, hadError, panic, status, lineVars>>

-----------------------------------------------------------------------------
(* Expressions *)

Levels == [or |-> 2, and |-> 3, equality |-> 4, comparison |-> 5, term |-> 6,
           factor |-> 7, unary |-> 8, call |-> 9]

\* The precedence of a token as an infix operator; PREC_NONE is 0 and
\* PREC_ASSIGNMENT 1.  The compound assignments have it, but no function.
InfixLevel(type) ==
  CASE type = "or"            -> Levels.or
    [] type = "and"           -> Levels.and
    [] type = "=="            -> Levels.equality
    [] type = "<"             -> Levels.comparison
    [] type \in {"+", "-"}    -> Levels.term
    [] type = "*"             -> Levels.factor
    [] type \in {"(", "."}    -> Levels.call
    [] type = "+="            -> 1
    [] OTHER                  -> 0

\* The functions of the prefix and infix rules, up to their first choice.
Prefix(type, can_assign) ==
  CASE type = "a" -> <<<<"variable", can_assign>>>>
    [] type = "1" -> <<Emit("1")>>
    [] type = "-" -> <<Precedence(Levels.unary), Emit("negate")>>
    [] type = "(" -> <<Expression, Consume(")")>>
    [] OTHER      -> <<>>

\* A variation: binary() parses its right operand at its own precedence.
InfixToTheRight(type, can_assign) ==
  CASE type = "or"  -> <<Code, Precedence(Levels.or), Patch("or")>>
    [] type = "and" -> <<Code, Precedence(Levels.and), Patch("and")>>
    [] type = "("   -> <<Call("arguments"), Emit("call")>>
    [] type = "."   -> <<Consume("a"), Code, <<"dot", can_assign>>>>
    [] OTHER        -> <<Precedence(InfixLevel(type)), Emit(type)>>

Infix(type, can_assign) ==
  CASE type = "or"  -> <<Code, Precedence(Levels.or), Patch("or")>>
    [] type = "and" -> <<Code, Precedence(Levels.and), Patch("and")>>
    [] type = "("   -> <<Call("arguments"), Emit("call")>>
    [] type = "."   -> <<Consume("a"), Code, <<"dot", can_assign>>>>
    [] OTHER        -> <<Precedence(InfixLevel(type) + 1), Emit(type)>>

\* A variation: the token that starts no expression is not consumed.
NotAnExpressionHere(at) == Error(at, at)

NotAnExpression(at) == Error(at + 1, at)

ParsePrecedence ==
  /\ Doing("precedence")
  /\ LET level  == Head(agenda)[2]
         at     == Skipped(current)
         prefix == Prefix(Type(at), level <= 1)
     IN  IF ~Read(at) THEN Stop("undefined") /\ Quiet
         ELSE IF prefix = <<>> THEN NotAnExpression(at)
         ELSE Move(at + 1, prefix \o <<<<"infix", level>>>>)

ParseInfix ==
  /\ Doing("infix")
  /\ LET level == Head(agenda)[2]
         type  == Type(current)
     IN  IF level <= InfixLevel(type)
         THEN IF type = "+=" /\ ~Rejected(current + 1) THEN Stop("undefined") /\ Quiet
              ELSE Advance(current + 1, Infix(type, level <= 1) \o <<<<"infix", level>>>>)
         ELSE Continue(IF level <= 1 THEN <<Call("target")>> ELSE <<>>)

InvalidTarget ==
  /\ Doing("target")
  /\ IF Matches("=") THEN Error(AfterMatch("="), Found(current, "="))
     ELSE Move(current, <<>>)

\* named_variable and dot: an assignment where the context allows one
Assignable(name, get, set) ==
  /\ Doing(name)
  /\ LET can_assign == Head(agenda)[2]
     IN  IF ~can_assign THEN Continue(<<Emit(get)>>)
         ELSE IF Matches("=") THEN Move(AfterMatch("="), <<Expression, Emit(set)>>)
         ELSE Move(current, <<Emit(get)>>)

Variable == Assignable("variable", "a", "a=")
Dot      == Assignable("dot", ".a", ".a=")

\* argument_list
Arguments ==
  /\ Doing("arguments")
  /\ IF Matches(")") THEN Move(Found(current, ")"), <<Consume(")")>>)
     ELSE Move(current, <<Expression, Call("more_arguments")>>)

MoreArguments ==
  /\ Doing("more_arguments")
  /\ IF Matches(",") THEN Move(AfterMatch(","), <<Expression, Call("more_arguments")>>)
     ELSE Move(current, <<Consume(")")>>)

-----------------------------------------------------------------------------
(* Declarations and statements *)

Declaration ==
  /\ Doing("declaration")
  /\ IF Matches("var")
     THEN Move(AfterMatch("var"),
               <<Consume("a"), Call("initializer"), Consume(";"), Patch("var"),
                 Call("synchronize")>>)
     ELSE Move(current, <<Call("statement"), Call("synchronize")>>)

Initializer ==
  /\ Doing("initializer")
  /\ IF Matches("=") THEN Move(AfterMatch("="), <<Expression>>) ELSE Move(current, <<Code>>)

Keywords == {"if", "while", "{"}

StatementCalls(keyword) ==
  CASE keyword = "if" ->
         <<Expression, Code, Call("statement"), Code, Call("else"), Patch("if")>>
    [] keyword = "while" ->
         <<Expression, Code, Consume("{"), Call("block"), Code, Patch("while")>>
    [] keyword = "{" -> <<Call("block"), Call("drop")>>

Statement ==
  /\ Doing("statement")
  /\ IF \E keyword \in Keywords : Matches(keyword)
     THEN LET keyword == CHOOSE k \in Keywords : Matches(k)
          IN  Move(AfterMatch(keyword), StatementCalls(keyword))
     ELSE Move(current, <<Expression, Consume(";"), Emit("pop")>>)

Else ==
  /\ Doing("else")
  /\ IF Matches("else") THEN Move(AfterMatch("else"), <<Call("statement")>>)
     ELSE Move(current, <<>>)

Block ==
  /\ Doing("block")
  /\ IF \E end \in {"}", "EOF"} : Matches(end)
     THEN Move(Skipped(current), <<Consume("}")>>)
     ELSE Move(current, <<Call("declaration"), Call("block")>>)

\* end_scope: whether there are locals to drop is left open.
DropLocals ==
  /\ Doing("drop")
  /\ \E calls \in {<<>>, <<Code>>} : Continue(calls)

\* synchronize: on to the end of a statement or the start of one.
Starters == {"fun", "var", "for", "if", "while", "return"}

Resumes(i) == Type(i) = "EOF" \/ Type(i - 1) = ";" \/ Type(i) \in Starters

Synchronized == Min({i \in current..Max({current, Len(tokens)}) : Resumes(i)})

Synchronize ==
  /\ Doing("synchronize")
  /\ IF ~panic THEN Then(<<>>) /\ UNCHANGED <<current, hadError, panic, status>>
     ELSE IF \E i \in current + 1..Synchronized : Type(i) = "ERROR" THEN Stop("hung")
     ELSE panic' = FALSE /\ current' = Synchronized /\ Then(<<>>) /\ UNCHANGED <<hadError, status>>
  /\ Quiet

-----------------------------------------------------------------------------
(* A compilation *)

Init ==
  /\ source \in Sources /\ tokens = Scan(source)
  /\ current = 1 /\ hadError = FALSE /\ panic = FALSE
  /\ agenda = <<Call("program")>> /\ out = <<>> /\ status = "running"
  /\ LineInit

\* The loop of compile and compile_line, and emit_return.
Program ==
  /\ Doing("program")
  /\ IF Matches("EOF") THEN Move(AfterMatch("EOF"), <<Code, Call("end")>>)
     ELSE Move(current, <<Call("declaration"), Call("program")>>)

EndProgram ==
  /\ Doing("end")
  /\ Stop("done") /\ Quiet

Next ==
  \/ Expect \/ EmitCode \/ PatchJump
  \/ ParsePrecedence \/ ParseInfix \/ InvalidTarget \/ Variable \/ Dot
  \/ Arguments \/ MoreArguments
  \/ Declaration \/ Initializer
  \/ Statement \/ Else \/ Block \/ DropLocals \/ Synchronize
  \/ Program \/ EndProgram

\* The compiler is a single thread of C calls: it never stops between two.
Spec == Init /\ [][Next]_vars /\ WF_vars(Next)

-----------------------------------------------------------------------------
(* Properties; the grammar is that of the module MCParser *)

ScansCleanly == \A i \in DOMAIN tokens : tokens[i].type # "ERROR"

\* compile() comes to an end for every text without a rejected character: each
\* loop of the parser, also when it recovers from an error, consumes a token.
CompileEnds == (status = "running" /\ ScansCleanly) ~> (status \in {"done", "undefined"})

\* The lines code is attributed to never decrease while one text is compiled,
\* which is what line_info_inc relies on.
LinesInOrder == LineSpec

=============================================================================
