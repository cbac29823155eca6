------------------------------ MODULE LineInfo ------------------------------
(***************************************************************************)
(* The line table of a chunk (chunk.c): which source line each byte of the *)
(* code came from, kept as runs of bytes with the same line.               *)
(*                                                                         *)
(* The table relies on its caller to add lines "in sorted order"; that the *)
(* parser does so while it compiles one source is a property of Parser.    *)
(***************************************************************************)
EXTENDS Integers, Sequences

CONSTANTS LineNumbers, \* lines of the source text
          MaxBytes     \* bytes in the chunk

ASSUME LinesAssumption == LineNumbers \subseteq Nat \ {0} /\ MaxBytes \in Nat

VARIABLES runs,    \* the array of Line: a line, its first byte and how many there are
          written  \* the lines given so far, one for each byte

lineVars == <<runs, written>>

End(rs) == IF rs = <<>> THEN 0 ELSE rs[Len(rs)].start + rs[Len(rs)].len

\* Whether line_info_inc starts a new run.
StartsRun(rs, line) == rs = <<>> \/ rs[Len(rs)].line < line

\* line_info_inc
Inc(rs, line) ==
  IF StartsRun(rs, line)
  THEN Append(rs, [line |-> line, start |-> End(rs), len |-> 1])
  ELSE [rs EXCEPT ![Len(rs)].len = @ + 1]

\* A variation: the byte after the run counts as one of it.
CoversEnd(run, offset) == offset \in run.start..(run.start + run.len)
Covers(run, offset) == offset \in run.start..(run.start + run.len - 1)

\* line_info_get: the first run that covers the offset, or the last run, or 0.
Get(rs, offset) ==
  IF rs = <<>> THEN 0
  ELSE IF \E i \in DOMAIN rs : Covers(rs[i], offset)
  THEN rs[CHOOSE i \in DOMAIN rs :
            Covers(rs[i], offset) /\ \A j \in 1..i - 1 : ~Covers(rs[j], offset)].line
  ELSE rs[Len(rs)].line

LineInit == runs = <<>> /\ written = <<>>

\* chunk_write
Write(line) ==
  /\ Len(written) < MaxBytes
  /\ runs' = Inc(runs, line)
  /\ written' = Append(written, line)

InOrder(line) == written = <<>> \/ written[Len(written)] <= line

WriteInOrder(line) == InOrder(line) /\ Write(line)

\* Lines in any order, and in the order the table relies on
AnyLineSpec == LineInit /\ [][\E line \in LineNumbers : Write(line)]_lineVars

LineSpec == LineInit /\ [][\E line \in LineNumbers : WriteInOrder(line)]_lineVars

-----------------------------------------------------------------------------
\* The line reported for a byte, when an error is raised at it, is the line the
\* byte was written with.
LineFound == \A i \in 1..Len(written) : Get(runs, i - 1) = written[i]

\* Whatever the order of the lines: the line reported for a byte is the highest of
\* those written up to it.  In a session, where every input starts at line 1,
\* that is not the byte's own.
HighestFound ==
  \A i \in 1..Len(written) :
    LET line == Get(runs, i - 1)
    IN  /\ \A j \in 1..i : written[j] <= line
        /\ \E j \in 1..i : written[j] = line

=============================================================================
