------------------------------ MODULE MCParser ------------------------------
(***************************************************************************)
(* The parser on every short text over three vocabularies, against the     *)
(* grammar it is meant to accept, written as a recognizer that follows all *)
(* derivations at once.                                                    *)
(*                                                                         *)
(* A line feed may stand before any lexeme but an infix operator, and      *)
(* stands for the semicolon that ends a statement.                         *)
(***************************************************************************)
EXTENDS Parser

Texts(fragments, n) ==
  {FlattenSeq(text) : text \in UNION {[1..k -> fragments] : k \in 0..n}}

\* Operators, calls and fields within one statement
ExpressionTexts ==
  {<<"a">> \o text \o <<"NL">> : text \in Texts(
     {<<"-", "a">>, <<"*", "a">>, <<"or", "a">>, <<"=", "a">>, <<".", "a">>, <<"(", "a">>, <<")">>,
      <<",">>, <<"NL">>}, 4)}
  \cup {<<"-">> \o text \o <<";">> : text \in Texts(
     {<<"a">>, <<"-", "1">>, <<"<", "a">>, <<"==", "a">>, <<"and", "a">>, <<"(">>, <<")">>,
      <<"+=">>}, 4)}

\* Statements, blocks and comments
StatementTexts ==
  Texts({<<"a">>, <<";">>, <<"NL">>, <<"{">>, <<"}">>, <<"while", "a">>, <<"var", "a">>,
         <<"=", "a">>, <<"//", "a">>}, 4)

\* Statements within statements
NestedTexts ==
  Texts({<<"a", "NL">>, <<"if", "a">>, <<"else">>, <<"while", "a", "{", "var", "a", "NL">>,
         <<"}">>}, 5)

AllTexts == ExpressionTexts \cup StatementTexts \cup NestedTexts

Lines == 1..31

-----------------------------------------------------------------------------
(* The grammar: a derivation is where it ends and the code it stands for. *)

Lexeme(t, i) == IF i <= Len(t) THEN t[i] ELSE "EOF"

AfterNewlines(t, i) ==
  CHOOSE j \in i..Len(t) + 1 : Lexeme(t, j) # "NL" /\ \A k \in i..j - 1 : t[k] = "NL"

Derives(i, code) == {[at |-> i, code |-> code]}

\* The lexeme x, where line feeds may come first
Terminal(t, i, x) ==
  LET j == AfterNewlines(t, i) IN IF Lexeme(t, j) = x THEN Derives(j + 1, <<>>) ELSE {}

Optionally(t, i, more) == Derives(i, <<>>) \cup more

\* ds, then what Rest(i) derives from where they end, then the operation op
Followed(ds, Rest(_), op) ==
  UNION {{[at |-> e.at, code |-> d.code \o e.code \o op] : e \in Rest(d.at)} : d \in ds}

RECURSIVE Expressions(_, _), Level(_, _, _), Chain(_, _, _), Operands(_, _), Selectors(_, _),
          ArgumentsFrom(_, _), Statements(_, _), Declarations(_, _)

Expressions(t, i) ==
  LET AssignedAt(j) == Followed(Terminal(t, j, "="), LAMBDA k : Expressions(t, k), <<>>)
      Fields == UNION {IF Lexeme(t, d.at) = "."
                       THEN Followed({[d EXCEPT !.at = @ + 1]}, LAMBDA k : Terminal(t, k, "a"), <<>>)
                       ELSE {} : d \in Operands(t, i)}
  IN  Level(t, i, 2)
      \cup Followed(Terminal(t, i, "a"), AssignedAt, <<"a=">>)
      \cup Followed(Fields, AssignedAt, <<".a=">>)

Operators(n) ==
  CASE n = 2 -> {"or"} [] n = 3 -> {"and"} [] n = 4 -> {"=="} [] n = 5 -> {"<"}
    [] n = 6 -> {"+", "-"} [] n = 7 -> {"*"}

\* Levels 2 and 3 associate to the right, 4 to 7 to the left; 8 is unary.
Level(t, i, n) ==
  IF n = 8 THEN Operands(t, i)
                \cup Followed(Terminal(t, i, "-"), LAMBDA j : Level(t, j, 8), <<"negate">>)
  ELSE Chain(t, Level(t, i, n + 1), n)

Chain(t, ds, n) ==
  LET right(i) == Level(t, i, IF n <= 3 THEN n ELSE n + 1)
      longer == UNION {Followed({[d EXCEPT !.at = @ + 1]}, right, <<t[d.at]>>) :
                         d \in {e \in ds : Lexeme(t, e.at) \in Operators(n)}}
  IN  IF longer = {} THEN ds ELSE ds \cup (IF n <= 3 THEN longer ELSE Chain(t, longer, n))

Operands(t, i) ==
  Selectors(t, Followed(Terminal(t, i, "a"), LAMBDA j : Derives(j, <<>>), <<"a">>)
              \cup Followed(Terminal(t, i, "1"), LAMBDA j : Derives(j, <<>>), <<"1">>)
              \cup Followed(Followed(Terminal(t, i, "("), LAMBDA j : Expressions(t, j), <<>>),
                            LAMBDA j : Terminal(t, j, ")"), <<>>))

Selectors(t, ds) ==
  LET suffix(d, x, Rest(_), op) ==
        IF Lexeme(t, d.at) = x THEN Followed({[d EXCEPT !.at = @ + 1]}, Rest, op) ELSE {}
      longer == UNION {suffix(d, ".", LAMBDA j : Terminal(t, j, "a"), <<".a">>)
                       \cup suffix(d, "(", LAMBDA j : Terminal(t, j, ")"), <<"call">>)
                       \cup suffix(d, "(", LAMBDA j : ArgumentsFrom(t, j), <<"call">>) : d \in ds}
  IN  IF longer = {} THEN ds ELSE ds \cup Selectors(t, longer)

ArgumentsFrom(t, i) ==
  LET first == Expressions(t, i)
  IN  Followed(first, LAMBDA j : Terminal(t, j, ")"), <<>>)
      \cup Followed(Followed(first, LAMBDA j : Terminal(t, j, ","), <<>>),
                    LAMBDA j : ArgumentsFrom(t, j), <<>>)

Ended(t, ds, op) ==
  {[at |-> d.at + 1, code |-> d.code \o op] : d \in {e \in ds : Lexeme(t, e.at) \in {";", "NL"}}}

BlockFrom(t, i) == Followed(Declarations(t, i), LAMBDA j : Terminal(t, j, "}"), <<>>)

Statements(t, i) ==
  LET condition(keyword) ==
        Followed(Terminal(t, i, keyword), LAMBDA j : Expressions(t, j), <<>>)
      otherwise(j) ==
        Optionally(t, j, Followed(Terminal(t, j, "else"), LAMBDA k : Statements(t, k), <<>>))
  IN  Ended(t, Expressions(t, i), <<"pop">>)
      \cup Followed(Terminal(t, i, "{"), LAMBDA j : BlockFrom(t, j), <<>>)
      \cup Followed(Followed(condition("if"), LAMBDA j : Statements(t, j), <<>>),
                    otherwise, <<"if">>)
      \cup Followed(Followed(condition("while"), LAMBDA j : Terminal(t, j, "{"), <<>>),
                    LAMBDA j : BlockFrom(t, j), <<"while">>)

\* Any number of declarations
Declarations(t, i) ==
  LET named == Followed(Terminal(t, i, "var"), LAMBDA j : Terminal(t, j, "a"), <<>>)
      value(j) == Optionally(t, j, Followed(Terminal(t, j, "="), LAMBDA k : Expressions(t, k), <<>>))
      one == Ended(t, Followed(named, value, <<>>), <<"var">>) \cup Statements(t, i)
  IN  Derives(i, <<>>) \cup Followed(one, LAMBDA j : Declarations(t, j), <<>>)

\* What the grammar makes of a text: a comment reaches to the end of its line.
WithoutComments(text) ==
  FoldLeft(LAMBDA s, x : [comment |-> (s.comment /\ x # "NL") \/ x = "//",
                          text |-> IF x = "//" \/ (s.comment /\ x # "NL") THEN s.text
                                   ELSE Append(s.text, x)],
           [comment |-> FALSE, text |-> <<>>], text).text

Derivations(text) ==
  LET t == WithoutComments(text)
  IN  {d.code : d \in {e \in Declarations(t, 1) : Lexeme(t, AfterNewlines(t, e.at)) = "EOF"}}

-----------------------------------------------------------------------------
\* The parser accepts the texts of the grammar and no others, and compiles an
\* accepted text in the order of a derivation of it: precedence climbing with
\* one can_assign flag, and newlines that are tokens, agree with the grammar.
\* It reads no token that was never scanned unless the text is wrong.
AcceptsGrammar ==
  status \in {"done", "undefined"} /\ ScansCleanly =>
    IF status = "done" /\ ~hadError THEN out \in Derivations(source)
    ELSE Derivations(source) = {}

=============================================================================
