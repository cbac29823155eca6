--------------------------- MODULE LineInfoProofs ---------------------------
(***************************************************************************)
(* Proofs about LineInfo and the modules that extend it.                   *)
(*                                                                         *)
(* LineInfo: for every set of lines and every size of the chunk, the line  *)
(* table finds the line of each byte, as long as lines are added in sorted *)
(* order, and otherwise the highest line so far.                           *)
(*                                                                         *)
(* Parser: for every text, however it is tokenized and whatever errors are *)
(* found in it, the bytes of the code are written in the order of their    *)
(* lines, so the line found for each is its own.  A byte gets the line of  *)
(* the token before the next one.  So what has to hold is that lines do    *)
(* not fall from one token to a later one, which is a matter of the        *)
(* scanner, and that the parser, which looks behind newlines and returns,  *)
(* never goes back behind a token it has consumed.                         *)
(*                                                                         *)
(* Repl: for every number of lines and of statements on a line, a session  *)
(* runs the code of each line once, in its place; between lines the stack  *)
(* holds the locals; and the line table finds the highest line.            *)
(***************************************************************************)
EXTENDS Parser, Repl, Minimum

LineRun == [line : LineNumbers, start : Nat, len : Nat \ {0}]

LineTypeOK == runs \in Seq(LineRun) /\ written \in Seq(LineNumbers)

\* The runs follow each other up to the last byte written.
Disjoint ==
  \A i \in 1..Len(runs) : \A j \in i + 1..Len(runs) :
    runs[i].start + runs[i].len <= runs[j].start

Bounded == \A i \in 1..Len(runs) : runs[i].start + runs[i].len <= Len(written)

Complete == End(runs) = Len(written)

Covered == \A k \in 1..Len(written) : \E i \in 1..Len(runs) : Covers(runs[i], k - 1)

Right ==
  \A i \in 1..Len(runs) : \A k \in 1..Len(written) :
    Covers(runs[i], k - 1) => written[k] = runs[i].line

\* The highest of the first k
HighestOf(lines, k, line) ==
  (\A j \in 1..k : lines[j] <= line) /\ (\E j \in 1..k : lines[j] = line)

Highest ==
  \A i \in 1..Len(runs) : \A k \in 1..Len(written) :
    Covers(runs[i], k - 1) => HighestOf(written, k, runs[i].line)

\* How the runs lie does not depend on the order of the lines; what they say does.
Layout == LineTypeOK /\ Disjoint /\ Bounded /\ Complete /\ Covered

LineInv    == Layout /\ Right
AnyLineInv == Layout /\ Highest

-----------------------------------------------------------------------------
(* A write that starts a new run appends one that covers the new byte; a     *)
(* write that does not extends the last run by it, whose line it has.        *)

\* The last run covers the byte last written.
LEMMA LastRun ==
  ASSUME Layout, runs # <<>>
  PROVE  /\ Len(runs) \in Nat \ {0} /\ runs[Len(runs)] \in LineRun
         /\ Len(written) \in Nat \ {0} /\ Covers(runs[Len(runs)], Len(written) - 1)
<1> DEFINE n == Len(runs)  last == runs[n]
<1>1. n \in Nat \ {0} /\ last \in LineRun
  BY DEF Layout, LineTypeOK
<1>2. last.start + last.len = Len(written)
  BY <1>1 DEF Layout, Complete, End
<1>3. QED
  BY <1>1, <1>2 DEF Covers, LineRun

\* A write that starts a new run leaves the others where they are.
LEMMA NewRunLayout ==
  ASSUME Layout, NEW line \in LineNumbers, Write(line), StartsRun(runs, line)
  PROVE  /\ Layout'
         /\ Len(runs) \in Nat /\ Len(runs') = Len(runs) + 1
         /\ Len(written) \in Nat /\ Len(written') = Len(written) + 1
         /\ runs'[Len(runs) + 1].line = line
         /\ runs'[Len(runs) + 1].start = Len(written) /\ runs'[Len(runs) + 1].len = 1
         /\ written'[Len(written) + 1] = line
         /\ \A i \in 1..Len(runs) : runs'[i] = runs[i] /\ runs[i] \in LineRun
         /\ \A k \in 1..Len(written) : written'[k] = written[k]
<1> DEFINE n == Len(runs)  m == Len(written)
           run == [line |-> line, start |-> m, len |-> 1]
<1>1. runs' = Append(runs, run) /\ written' = Append(written, line)
  BY DEF Write, Inc, Layout, Complete
<1>2. n \in Nat /\ m \in Nat /\ run \in LineRun
  BY DEF Layout, LineTypeOK, LineRun
<1>3. LineTypeOK'
  <2>1. runs \in Seq(LineRun) /\ written \in Seq(LineNumbers)
    BY DEF Layout, LineTypeOK
  <2> HIDE DEF run
  <2>2. runs' \in Seq(LineRun) /\ written' \in Seq(LineNumbers)
    BY <1>1, <1>2, <2>1
  <2>3. QED
    BY <2>2 DEF LineTypeOK
<1>4. /\ Len(runs') = n + 1 /\ Len(written') = m + 1
      /\ runs'[n + 1] = run /\ written'[m + 1] = line
      /\ \A i \in 1..n : runs'[i] = runs[i] /\ runs[i] \in LineRun
      /\ \A k \in 1..m : written'[k] = written[k]
  BY <1>1, <1>2 DEF Layout, LineTypeOK
<1>5. Disjoint'
  <2> SUFFICES ASSUME NEW i \in 1..n + 1, NEW j \in i + 1..n + 1
               PROVE  runs'[i].start + runs'[i].len <= runs'[j].start
    BY <1>4 DEF Disjoint
  <2>1. i \in 1..n /\ runs'[i] = runs[i]
    BY <1>2, <1>4
  <2>2. CASE j = n + 1
    BY <1>2, <1>4, <2>1, <2>2 DEF Layout, Bounded
  <2>3. CASE j # n + 1
    <3>1. j \in i + 1..n /\ runs'[j] = runs[j]
      BY <1>2, <1>4, <2>1, <2>3
    <3>2. QED
      BY <2>1, <3>1 DEF Layout, Disjoint
  <2>4. QED
    BY <2>2, <2>3
<1>6. Bounded'
  <2> SUFFICES ASSUME NEW i \in 1..n + 1
               PROVE  runs'[i].start + runs'[i].len <= m + 1
    BY <1>4 DEF Bounded
  <2>1. CASE i = n + 1
    BY <1>4, <2>1, <1>2
  <2>2. CASE i # n + 1
    <3>1. i \in 1..n /\ runs'[i] = runs[i] /\ runs[i] \in LineRun
      BY <1>2, <1>4, <2>2
    <3>2. runs[i].start + runs[i].len <= m
      BY <3>1 DEF Layout, Bounded
    <3>3. QED
      BY <1>2, <3>1, <3>2 DEF LineRun
  <2>3. QED
    BY <2>1, <2>2
<1>7. Complete'
  BY <1>2, <1>4 DEF Complete, End
<1>8. Covered'
  <2> SUFFICES ASSUME NEW k \in 1..m + 1
               PROVE  \E i \in 1..n + 1 : Covers(runs'[i], k - 1)
    BY <1>4 DEF Covered
  <2>1. CASE k = m + 1
    <3>1. Covers(runs'[n + 1], k - 1)
      BY <2>1, <1>2, <1>4 DEF Covers
    <3>2. QED
      BY <3>1, <1>2
  <2>2. CASE k \in 1..m
    <3>1. PICK i \in 1..n : Covers(runs[i], k - 1)
      BY <2>2 DEF Layout, Covered
    <3>2. QED
      BY <3>1, <1>2, <1>4
  <2>3. QED
    BY <2>1, <2>2, <1>2
<1>9. QED
  BY <1>2, <1>3, <1>4, <1>5, <1>6, <1>7, <1>8 DEF Layout

\* The byte written is covered by the new run alone, which covers no other.
LEMMA NewRunCovers ==
  ASSUME Layout, NEW line \in LineNumbers, Write(line), StartsRun(runs, line),
         NEW i \in 1..Len(runs'), NEW k \in 1..Len(written'), Covers(runs'[i], k - 1)
  PROVE  \/ i = Len(runs) + 1 /\ k = Len(written) + 1
         \/ i \in 1..Len(runs) /\ k \in 1..Len(written) /\ Covers(runs[i], k - 1)
<1> DEFINE n == Len(runs)  m == Len(written)
<1>1. /\ n \in Nat /\ m \in Nat /\ i \in 1..n + 1 /\ k \in 1..m + 1
      /\ runs'[n + 1].start = m /\ runs'[n + 1].len = 1
      /\ \A j \in 1..n : runs'[j] = runs[j] /\ runs[j] \in LineRun
  BY NewRunLayout
<1>2. CASE i = n + 1
  <2>1. k = m + 1
    BY <1>1, <1>2 DEF Covers
  <2>2. QED
    BY <1>2, <2>1
<1>3. CASE i \in 1..n
  <2>1. runs'[i] = runs[i] /\ runs[i] \in LineRun /\ runs[i].start + runs[i].len <= m
    BY <1>1, <1>3 DEF Layout, Bounded
  <2>2. k \in 1..m
    BY <1>1, <2>1 DEF Covers, LineRun
  <2>3. QED
    BY <1>3, <2>1, <2>2
<1>4. QED
  BY <1>1, <1>2, <1>3

LEMMA NewRun ==
  ASSUME LineInv, NEW line \in LineNumbers, Write(line), StartsRun(runs, line)
  PROVE  LineInv'
<1>1. Right'
  <2> SUFFICES ASSUME NEW i \in 1..Len(runs'), NEW k \in 1..Len(written'), Covers(runs'[i], k - 1)
               PROVE  written'[k] = runs'[i].line
    BY DEF Right
  <2>1. CASE i = Len(runs) + 1 /\ k = Len(written) + 1
    BY <2>1, NewRunLayout DEF LineInv
  <2>2. CASE i \in 1..Len(runs) /\ k \in 1..Len(written) /\ Covers(runs[i], k - 1)
    BY <2>2, NewRunLayout DEF LineInv, Right
  <2>3. QED
    BY <2>1, <2>2, NewRunCovers DEF LineInv
<1>2. QED
  BY <1>1, NewRunLayout DEF LineInv

\* A new run has a line above the highest so far, which is that of the last run.
LEMMA NewRunHighest ==
  ASSUME LinesAssumption, AnyLineInv, NEW line \in LineNumbers, Write(line), StartsRun(runs, line)
  PROVE  AnyLineInv'
<1> DEFINE n == Len(runs)  m == Len(written)
<1>1. Layout /\ Highest
  BY DEF AnyLineInv
<1>2. /\ Layout' /\ n \in Nat /\ m \in Nat /\ written'[m + 1] = line
      /\ runs'[n + 1].line = line
      /\ \A i \in 1..n : runs'[i] = runs[i]
      /\ \A j \in 1..m : written'[j] = written[j] /\ written[j] \in LineNumbers
  BY <1>1, NewRunLayout DEF Layout, LineTypeOK
<1>3. ASSUME NEW j \in 1..m
      PROVE  written[j] <= line
  <2>1. n # 0
    BY <1>1, <1>2, <1>3 DEF Layout, Complete, End, LineTypeOK
  <2>2. runs # <<>>
    BY <2>1
  <2>3. HighestOf(written, m, runs[n].line)
    BY <1>1, <1>2, <2>2, LastRun DEF Highest
  <2>4. written[j] <= runs[n].line /\ runs[n].line < line
    BY <1>2, <1>3, <2>2, <2>3 DEF HighestOf, StartsRun
  <2>5. runs[n] \in LineRun /\ written[j] \in LineNumbers
    BY <1>1, <1>2, <1>3, <2>2, LastRun DEF Layout, LineTypeOK
  <2>6. written[j] \in Nat /\ runs[n].line \in Nat /\ line \in Nat
    BY <2>5 DEF LinesAssumption, LineRun
  <2>7. QED
    BY <2>4, <2>6
<1>4. Highest'
  <2> SUFFICES ASSUME NEW i \in 1..Len(runs'), NEW k \in 1..Len(written'), Covers(runs'[i], k - 1)
               PROVE  HighestOf(written', k, runs'[i].line)
    BY DEF Highest
  <2>1. CASE i = n + 1 /\ k = m + 1
    <3>1. ASSUME NEW j \in 1..k PROVE written'[j] <= line
      <4>1. CASE j = m + 1
        <5>1. line \in Nat
          BY DEF LinesAssumption
        <5>2. QED
          BY <1>2, <4>1, <5>1
      <4>2. CASE j \in 1..m
        BY <1>2, <1>3, <4>2
      <4>3. QED
        BY <1>2, <2>1, <4>1, <4>2
    <3>2. QED
      BY <1>2, <2>1, <3>1 DEF HighestOf
  <2>2. CASE i \in 1..n /\ k \in 1..m /\ Covers(runs[i], k - 1)
    <3>1. HighestOf(written, k, runs[i].line)
      BY <1>1, <2>2 DEF Highest
    <3>2. \A j \in 1..k : written'[j] = written[j]
      BY <1>2, <2>2
    <3>3. QED
      BY <1>2, <2>2, <3>1, <3>2 DEF HighestOf
  <2>3. QED
    BY <1>1, <2>1, <2>2, NewRunCovers
<1>5. QED
  BY <1>2, <1>4 DEF AnyLineInv

-----------------------------------------------------------------------------

\* A write that does not start one makes the last run longer by its byte.
LEMMA SameRunLayout ==
  ASSUME Layout, NEW line \in LineNumbers, Write(line), ~StartsRun(runs, line)
  PROVE  /\ Layout'
         /\ Len(runs) \in Nat \ {0} /\ Len(runs') = Len(runs)
         /\ Len(written) \in Nat /\ Len(written') = Len(written) + 1
         /\ runs'[Len(runs)].line = runs[Len(runs)].line
         /\ runs'[Len(runs)].start = runs[Len(runs)].start
         /\ runs'[Len(runs)].len = runs[Len(runs)].len + 1
         /\ \A i \in 1..Len(runs) : runs[i] \in LineRun
         /\ \A i \in 1..Len(runs) - 1 : runs'[i] = runs[i]
         /\ runs[Len(runs)].start + runs[Len(runs)].len = Len(written)
         /\ written'[Len(written) + 1] = line
         /\ \A k \in 1..Len(written) : written'[k] = written[k]
<1> DEFINE n == Len(runs)  m == Len(written)  last == runs[n]
<1>1. runs # <<>> /\ n \in Nat \ {0} /\ m \in Nat /\ last \in LineRun
  BY DEF Layout, LineTypeOK, StartsRun
<1> DEFINE longer == [line |-> last.line, start |-> last.start, len |-> last.len + 1]
<1>3. /\ longer \in LineRun /\ last.start \in Nat /\ last.len \in Nat \ {0}
      /\ longer.line = last.line /\ longer.start = last.start /\ longer.len = last.len + 1
  BY <1>1 DEF LineRun
<1>4. runs' = [runs EXCEPT ![n] = longer] /\ written' = Append(written, line)
  <2>1. [last EXCEPT !.len = last.len + 1] = longer
    BY <1>1 DEF LineRun
  <2>2. runs' = [runs EXCEPT ![n] = [last EXCEPT !.len = last.len + 1]]
    BY DEF Write, Inc
  <2>3. QED
    BY <2>1, <2>2 DEF Write
<1>5. /\ Len(runs') = n /\ Len(written') = m + 1
      /\ \A i \in 1..n : runs[i] \in LineRun
      /\ \A i \in 1..n - 1 : runs'[i] = runs[i]
      /\ runs'[n] = longer
      /\ \A k \in 1..m : written'[k] = written[k]
      /\ written'[m + 1] = line
  BY <1>1, <1>4 DEF Layout, LineTypeOK
<1>6. LineTypeOK'
  BY <1>1, <1>3, <1>4 DEF Layout, LineTypeOK
<1>7. last.start + last.len = m
  BY <1>1 DEF Layout, Complete, End
<1> HIDE DEF longer
<1>8. Disjoint'
  <2> SUFFICES ASSUME NEW i \in 1..n, NEW j \in i + 1..n
               PROVE  runs'[i].start + runs'[i].len <= runs'[j].start
    BY <1>5 DEF Disjoint
  <2>1. runs'[i] = runs[i] /\ runs'[j].start = runs[j].start
    BY <1>1, <1>3, <1>5
  <2>2. QED
    BY <2>1, <1>1 DEF Layout, Disjoint
<1>9. Bounded'
  <2> SUFFICES ASSUME NEW i \in 1..n
               PROVE  runs'[i].start + runs'[i].len <= m + 1
    BY <1>5 DEF Bounded
  <2>1. CASE i = n
    BY <2>1, <1>1, <1>3, <1>5, <1>7
  <2>2. CASE i # n
    <3>1. runs'[i] = runs[i] /\ runs[i] \in LineRun
      BY <2>2, <1>1, <1>5
    <3>2. QED
      BY <3>1, <1>1 DEF Layout, Bounded, LineRun
  <2>3. QED
    BY <2>1, <2>2
<1>10. Complete'
  <2>1. runs' # <<>> /\ End(runs') = longer.start + longer.len
    BY <1>1, <1>5 DEF End
  <2>2. longer.start + longer.len = m + 1
    BY <1>1, <1>3, <1>7
  <2>3. QED
    BY <1>5, <2>1, <2>2 DEF Complete
<1>11. Covered'
  <2> SUFFICES ASSUME NEW k \in 1..m + 1
               PROVE  \E i \in 1..n : Covers(runs'[i], k - 1)
    BY <1>5 DEF Covered
  <2>1. CASE k = m + 1
    BY <2>1, <1>1, <1>3, <1>5, <1>7 DEF Covers
  <2>2. CASE k \in 1..m
    <3>1. PICK i \in 1..n : Covers(runs[i], k - 1)
      BY <2>2 DEF Layout, Covered
    <3>2. CASE i = n
      BY <3>1, <3>2, <1>1, <1>3, <1>5 DEF Covers
    <3>3. CASE i # n
      BY <3>1, <3>3, <1>1, <1>5
    <3>4. QED
      BY <3>2, <3>3
  <2>3. QED
    BY <2>1, <2>2, <1>1
<1>12. QED
  BY <1>1, <1>3, <1>5, <1>6, <1>7, <1>8, <1>9, <1>10, <1>11 DEF Layout

\* The byte written is covered by the last run; every other byte by the run it was.
LEMMA SameRunCovers ==
  ASSUME Layout, NEW line \in LineNumbers, Write(line), ~StartsRun(runs, line),
         NEW i \in 1..Len(runs'), NEW k \in 1..Len(written'), Covers(runs'[i], k - 1)
  PROVE  \/ i = Len(runs) /\ k = Len(written) + 1
         \/ i \in 1..Len(runs) /\ k \in 1..Len(written) /\ Covers(runs[i], k - 1)
<1> DEFINE n == Len(runs)  m == Len(written)  last == runs[n]
<1>1. /\ n \in Nat \ {0} /\ m \in Nat /\ i \in 1..n /\ k \in 1..m + 1
      /\ runs[i] \in LineRun /\ last \in LineRun
      /\ runs'[n].start = last.start /\ runs'[n].len = last.len + 1
      /\ last.start + last.len = m
      /\ \A j \in 1..n - 1 : runs'[j] = runs[j]
  <2>1. /\ n \in Nat \ {0} /\ m \in Nat /\ Len(runs') = n /\ Len(written') = m + 1
        /\ runs'[n].start = last.start /\ runs'[n].len = last.len + 1
        /\ last.start + last.len = m
        /\ (\A j \in 1..n : runs[j] \in LineRun) /\ (\A j \in 1..n - 1 : runs'[j] = runs[j])
    BY SameRunLayout
  <2>2. i \in 1..n /\ k \in 1..m + 1 /\ n \in 1..n
    BY <2>1
  <2>3. QED
    BY <2>1, <2>2
<1>2. CASE i = n /\ k = m + 1
  BY <1>2
<1>3. CASE i = n /\ k \in 1..m
  <2>1. Covers(runs[n], k - 1)
    BY <1>1, <1>3 DEF Covers, LineRun
  <2>2. QED
    BY <1>1, <1>3, <2>1
<1>4. CASE i # n
  <2>1. runs'[i] = runs[i] /\ runs[i].start + runs[i].len <= m
    BY <1>1, <1>4 DEF Layout, Bounded
  <2>2. k \in 1..m
    BY <1>1, <2>1 DEF Covers, LineRun
  <2>3. QED
    BY <1>1, <2>1, <2>2
<1>5. QED
  BY <1>1, <1>2, <1>3, <1>4

\* The line of every run stays.
LEMMA SameRunLines ==
  ASSUME Layout, NEW line \in LineNumbers, Write(line), ~StartsRun(runs, line),
         NEW i \in 1..Len(runs)
  PROVE  runs'[i].line = runs[i].line
<1>1. CASE i = Len(runs)
  BY <1>1, SameRunLayout
<1>2. CASE i \in 1..Len(runs) - 1
  BY <1>2, SameRunLayout
<1>3. QED
  BY <1>1, <1>2, SameRunLayout

\* In sorted order, the line written is that of the last run.
LEMMA SameRun ==
  ASSUME LinesAssumption, LineInv, NEW line \in LineNumbers, WriteInOrder(line),
         ~StartsRun(runs, line)
  PROVE  LineInv'
<1> DEFINE n == Len(runs)  m == Len(written)
<1>1. Layout /\ Right /\ Write(line)
  BY DEF LineInv, WriteInOrder
<1>2. /\ Layout' /\ n \in Nat \ {0} /\ m \in Nat
      /\ written'[m + 1] = line
      /\ \A k \in 1..m : written'[k] = written[k]
  BY <1>1, SameRunLayout
<1>3. runs[n].line = line
  <2>1. runs # <<>>
    BY DEF StartsRun
  <2>2. runs[n] \in LineRun /\ m \in Nat \ {0} /\ written[m] = runs[n].line
    BY <1>1, <1>2, <2>1, LastRun DEF Right
  <2>3. written # <<>>
    BY <2>2
  <2>4. runs[n].line <= line
    BY <2>2, <2>3 DEF WriteInOrder, InOrder
  <2>5. ~(runs[n].line < line)
    BY DEF StartsRun
  <2>6. runs[n].line \in Nat /\ line \in Nat
    BY <2>2 DEF LinesAssumption, LineRun
  <2>7. QED
    BY <2>4, <2>5, <2>6
<1>4. Right'
  <2> SUFFICES ASSUME NEW i \in 1..Len(runs'), NEW k \in 1..Len(written'), Covers(runs'[i], k - 1)
               PROVE  written'[k] = runs'[i].line
    BY DEF Right
  <2>1. CASE i = n /\ k = m + 1
    BY <1>1, <1>2, <1>3, <2>1, SameRunLines
  <2>2. CASE i \in 1..n /\ k \in 1..m /\ Covers(runs[i], k - 1)
    BY <1>1, <1>2, <2>2, SameRunLines DEF Right
  <2>3. QED
    BY <1>1, <2>1, <2>2, SameRunCovers
<1>5. QED
  BY <1>2, <1>4 DEF LineInv

\* In any order, the line written is at most that of the last run.
LEMMA SameRunHighest ==
  ASSUME LinesAssumption, AnyLineInv, NEW line \in LineNumbers, Write(line), ~StartsRun(runs, line)
  PROVE  AnyLineInv'
<1> DEFINE n == Len(runs)  m == Len(written)
<1>1. Layout /\ Highest
  BY DEF AnyLineInv
<1>2. /\ Layout' /\ n \in Nat \ {0} /\ m \in Nat
      /\ written'[m + 1] = line
      /\ \A k \in 1..m : written'[k] = written[k]
  BY <1>1, SameRunLayout
<1>3. runs # <<>> /\ ~(runs[n].line < line)
  BY DEF StartsRun
<1>4. line <= runs[n].line
  <2>1. runs[n] \in LineRun
    BY <1>1, <1>3, LastRun
  <2>2. runs[n].line \in Nat /\ line \in Nat
    BY <2>1 DEF LinesAssumption, LineRun
  <2>3. QED
    BY <1>3, <2>2
<1>5. HighestOf(written, m, runs[n].line) /\ m # 0
  BY <1>1, <1>2, <1>3, LastRun DEF Highest
<1>6. Highest'
  <2> SUFFICES ASSUME NEW i \in 1..Len(runs'), NEW k \in 1..Len(written'), Covers(runs'[i], k - 1)
               PROVE  HighestOf(written', k, runs'[i].line)
    BY DEF Highest
  <2>1. CASE i = n /\ k = m + 1
    <3>1. runs'[n].line = runs[n].line
      BY <1>1, <1>2, SameRunLines
    <3>2. \A j \in 1..m + 1 : written'[j] <= runs[n].line
      <4> SUFFICES ASSUME NEW j \in 1..m + 1
                   PROVE  written'[j] <= runs[n].line
        OBVIOUS
      <4>1. CASE j = m + 1
        BY <1>2, <1>4, <4>1
      <4>2. CASE j \in 1..m
        BY <1>2, <1>5, <4>2 DEF HighestOf
      <4>3. j = m + 1 \/ j \in 1..m
        BY <1>2
      <4>4. QED
        BY <4>1, <4>2, <4>3, Zenon
    <3>3. \E j \in 1..m + 1 : written'[j] = runs[n].line
      BY <1>2, <1>5 DEF HighestOf
    <3>4. QED
      BY <2>1, <3>1, <3>2, <3>3 DEF HighestOf
  <2>2. CASE i \in 1..n /\ k \in 1..m /\ Covers(runs[i], k - 1)
    <3>1. HighestOf(written, k, runs[i].line) /\ runs'[i].line = runs[i].line
      BY <1>1, <2>2, SameRunLines DEF Highest
    <3>2. \A j \in 1..k : written'[j] = written[j]
      BY <1>2, <2>2
    <3>3. QED
      BY <3>1, <3>2 DEF HighestOf
  <2>3. QED
    BY <1>1, <2>1, <2>2, SameRunCovers
<1>7. QED
  BY <1>2, <1>6 DEF AnyLineInv

-----------------------------------------------------------------------------
\* Runs are disjoint, so the first one that covers a byte is the only one: the
\* line found for a byte is that of a run which covers it.
LEMMA GetFinds ==
  ASSUME Layout, NEW k \in 1..Len(written)
  PROVE  \E i \in 1..Len(runs) : Covers(runs[i], k - 1) /\ Get(runs, k - 1) = runs[i].line
<1>1. PICK i \in 1..Len(runs) : Covers(runs[i], k - 1)
  BY DEF Layout, Covered
<1>2. Len(runs) \in Nat /\ Len(written) \in Nat /\ DOMAIN runs = 1..Len(runs)
      /\ \A j \in 1..Len(runs) : runs[j] \in LineRun
  BY DEF Layout, LineTypeOK
<1>3. ASSUME NEW j \in 1..i - 1
      PROVE  ~Covers(runs[j], k - 1)
  <2>1. j \in 1..Len(runs) /\ i \in j + 1..Len(runs) /\ runs[j] \in LineRun /\ runs[i] \in LineRun
    BY <1>2
  <2>2. runs[j].start + runs[j].len <= runs[i].start
    BY <2>1 DEF Layout, Disjoint
  <2>3. QED
    BY <1>1, <1>2, <2>1, <2>2 DEF Covers, LineRun
<1> DEFINE First(j) == Covers(runs[j], k - 1) /\ \A h \in 1..j - 1 : ~Covers(runs[h], k - 1)
           first == CHOOSE j \in DOMAIN runs : First(j)
<1>4. first \in DOMAIN runs /\ First(first)
  BY <1>1, <1>2, <1>3
<1>5. Get(runs, k - 1) = runs[first].line
  BY <1>1, <1>2 DEF Get
<1>6. QED
  BY <1>2, <1>4, <1>5

LEMMA LineInvFinds == LineInv => LineFound
  BY GetFinds DEF LineInv, Right, LineFound

LEMMA AnyLineInvFinds == AnyLineInv => HighestFound
<1> SUFFICES ASSUME AnyLineInv, NEW k \in 1..Len(written)
             PROVE  HighestOf(written, k, Get(runs, k - 1))
  BY DEF HighestFound, HighestOf
<1>1. QED
  BY GetFinds DEF AnyLineInv, Highest

\* line_info_get returns, for the offset of every byte of a chunk, the line that
\* chunk_write was given for it, whatever sorted sequence of lines was given.
THEOREM LineFoundAlways == LineSpec => []LineFound
<1> USE LinesAssumption
<1>1. LineInit => LineInv
  BY DEF LineInit, LineInv, Layout, LineTypeOK, Disjoint, Bounded, Complete, End, Covered, Right
<1>2. LineInv /\ [\E line \in LineNumbers : WriteInOrder(line)]_lineVars => LineInv'
  <2> SUFFICES ASSUME LineInv, [\E line \in LineNumbers : WriteInOrder(line)]_lineVars
               PROVE  LineInv'
    OBVIOUS
  <2>1. CASE UNCHANGED lineVars
    BY <2>1 DEF lineVars, LineInv, Layout, LineTypeOK, Disjoint, Bounded, Complete, Covered, Right
  <2>2. ASSUME NEW line \in LineNumbers, WriteInOrder(line)
        PROVE  LineInv'
    <3>1. CASE StartsRun(runs, line)
      BY <2>2, <3>1, NewRun DEF WriteInOrder
    <3>2. CASE ~StartsRun(runs, line)
      BY <2>2, <3>2, SameRun
    <3>3. QED
      BY <3>1, <3>2
  <2>3. QED
    BY <2>1, <2>2
<1>3. QED
  BY <1>1, <1>2, LineInvFinds, PTL DEF LineSpec

\* line_info_get returns, for the offset of every byte of a chunk, the highest line
\* that chunk_write was given up to it, whatever lines were given: what a session
\* reports, in which every input starts again at line 1.
THEOREM HighestFoundAlways == AnyLineSpec => []HighestFound
<1> USE LinesAssumption
<1>1. LineInit => AnyLineInv
  BY DEF LineInit, AnyLineInv, Layout, LineTypeOK, Disjoint, Bounded, Complete, End, Covered, Highest
<1>2. AnyLineInv /\ [\E line \in LineNumbers : Write(line)]_lineVars => AnyLineInv'
  <2> SUFFICES ASSUME AnyLineInv, [\E line \in LineNumbers : Write(line)]_lineVars
               PROVE  AnyLineInv'
    OBVIOUS
  <2>1. CASE UNCHANGED lineVars
    BY <2>1 DEF lineVars, AnyLineInv, Layout, LineTypeOK, Disjoint, Bounded, Complete, Covered,
                Highest, HighestOf
  <2>2. ASSUME NEW line \in LineNumbers, Write(line)
        PROVE  AnyLineInv'
    BY <2>2, NewRunHighest, SameRunHighest
  <2>3. QED
    BY <2>1, <2>2
<1>3. QED
  BY <1>1, <1>2, AnyLineInvFinds, PTL DEF AnyLineSpec

-----------------------------------------------------------------------------
(* Parser *)

(* The scanner.                                                              *)

TokenType == STRING \cup {"NEWLINE", "ERROR", "EOF"}
TokenRecord == [type : TokenType, line : Nat]

\* The lines do not fall, and none is above the last.
Rising(ts, last) ==
  /\ \A i \in DOMAIN ts : ts[i].line \in 1..last
  /\ \A i, j \in DOMAIN ts : i <= j => ts[i].line <= ts[j].line

ScanState == [tokens : Seq(TokenRecord), newline : BOOLEAN, comment : BOOLEAN, line : Nat]

\* What the scanner has made of n lexemes
Proper(s, n) == s \in ScanState /\ s.line \in 1..n + 1 /\ Rising(s.tokens, s.line)

LEMMA TokensAppend ==
  ASSUME NEW ts \in Seq(TokenRecord), NEW last \in Nat \ {0}, Rising(ts, last), NEW type \in TokenType
  PROVE  /\ Append(ts, Token(type, last)) \in Seq(TokenRecord)
         /\ Rising(Append(ts, Token(type, last)), last)
<1> DEFINE us == Append(ts, Token(type, last))
<1>1. Token(type, last) \in TokenRecord /\ Token(type, last).line = last
  BY DEF Token, TokenRecord
<1>2. /\ us \in Seq(TokenRecord) /\ Len(us) = Len(ts) + 1 /\ Len(ts) \in Nat
      /\ DOMAIN us = 1..Len(ts) + 1 /\ DOMAIN ts = 1..Len(ts)
      /\ us[Len(ts) + 1] = Token(type, last)
      /\ \A i \in 1..Len(ts) : us[i] = ts[i]
  BY <1>1
<1> HIDE DEF us
<1>3. \A i \in 1..Len(ts) + 1 : i \in 1..Len(ts) \/ i = Len(ts) + 1
  BY <1>2
<1>4. \A i \in 1..Len(ts) : ts[i].line \in 1..last
  BY <1>2 DEF Rising
<1>5. \A i \in DOMAIN us : us[i].line \in 1..last
  BY <1>1, <1>2, <1>3, <1>4
<1>6. ASSUME NEW i \in DOMAIN us, NEW j \in DOMAIN us, i <= j PROVE us[i].line <= us[j].line
  <2>1. CASE j = Len(ts) + 1
    BY <1>1, <1>2, <1>5, <2>1
  <2>2. CASE j \in 1..Len(ts)
    <3>1. i \in 1..Len(ts)
      BY <1>2, <1>6, <2>2
    <3>2. QED
      BY <1>2, <1>6, <2>2, <3>1 DEF Rising
  <2>3. QED
    BY <1>2, <1>3, <2>1, <2>2
<1>7. QED
  BY <1>2, <1>5, <1>6 DEF us, Rising

LEMMA RisingHigher ==
  ASSUME NEW ts, NEW last \in Nat, Rising(ts, last)
  PROVE  Rising(ts, last + 1)
BY DEF Rising

\* What the scanner appends for a lexeme, and at the end
WithLexeme(ts, newline, type, last) ==
  ts \o (IF newline THEN <<Token("NEWLINE", last)>> ELSE <<>>) \o <<Token(type, last)>>

\* A line feed, where there was one, becomes a token before the lexeme.
LEMMA NewlineBefore ==
  ASSUME NEW ts \in Seq(TokenRecord), NEW last \in Nat \ {0}, Rising(ts, last), NEW newline \in BOOLEAN,
         NEW type \in TokenType
  PROVE  LET us == WithLexeme(ts, newline, type, last)
         IN  /\ us \in Seq(TokenRecord) /\ Rising(us, last)
             /\ us # <<>> /\ us[Len(us)].type = type
<1> DEFINE us == WithLexeme(ts, newline, type, last)
           vs == IF newline THEN Append(ts, Token("NEWLINE", last)) ELSE ts
<1>1. vs \in Seq(TokenRecord) /\ Rising(vs, last)
  <2>1. "NEWLINE" \in TokenType
    BY DEF TokenType
  <2>2. CASE newline
    BY <2>1, <2>2, TokensAppend
  <2>3. CASE ~newline
    BY <2>3
  <2>4. QED
    BY <2>2, <2>3
<1>2. \A t \in TokenType : Token(t, last) \in TokenRecord /\ Token(t, last).type = t
  BY DEF Token, TokenRecord
<1>3. us = Append(vs, Token(type, last))
  <2>1. CASE newline
    BY <1>2, <2>1 DEF WithLexeme
  <2>2. CASE ~newline
    BY <1>2, <2>2 DEF WithLexeme
  <2>3. QED
    BY <2>1, <2>2
<1> HIDE DEF us, vs
<1>4. us \in Seq(TokenRecord) /\ Rising(us, last)
  BY <1>1, <1>3, TokensAppend
<1>5. us # <<>> /\ us[Len(us)] = Token(type, last)
  BY <1>1, <1>2, <1>3
<1>6. QED
  BY <1>2, <1>4, <1>5 DEF us

LEMMA StartProper == Proper(StartOfText, 0)
<1>1. <<>> \in Seq(TokenRecord) /\ DOMAIN <<>> = {}
  OBVIOUS
<1>2. StartOfText \in ScanState
  BY <1>1 DEF StartOfText, ScanState
<1>3. QED
  BY <1>1, <1>2 DEF Proper, Rising, StartOfText

ScannerAt(ts, newline, comment, line) ==
  [tokens |-> ts, newline |-> newline, comment |-> comment, line |-> line]

LEMMA MadeProper ==
  ASSUME NEW n \in Nat, NEW ts \in Seq(TokenRecord), NEW newline \in BOOLEAN, NEW comment \in BOOLEAN,
         NEW line \in 1..n + 1, Rising(ts, line)
  PROVE  Proper(ScannerAt(ts, newline, comment, line), n)
BY DEF Proper, ScanState, ScannerAt

\* One lexeme adds at most one line, and tokens on the last line.
LEMMA LexemeProper ==
  ASSUME NEW n \in Nat, NEW s, Proper(s, n), NEW lexeme \in STRING
  PROVE  Proper(ScanLexeme(s, lexeme), n + 1)
<1> DEFINE r == ScanLexeme(s, lexeme)
           ts == s.tokens
           l == s.line
           us == WithLexeme(ts, s.newline, lexeme, l)
<1> SUFFICES Proper(r, n + 1)
  OBVIOUS
<1>1. /\ ts \in Seq(TokenRecord) /\ s.newline \in BOOLEAN /\ s.comment \in BOOLEAN
      /\ l \in Nat \ {0} /\ l <= n + 1 /\ Rising(ts, l)
      /\ s = ScannerAt(ts, s.newline, s.comment, l)
  BY DEF Proper, ScanState, ScannerAt
<1>2. /\ n + 1 \in Nat /\ l \in 1..(n + 1) + 1 /\ l + 1 \in 1..(n + 1) + 1 /\ Rising(ts, l + 1)
      /\ lexeme \in TokenType /\ "NEWLINE" \in TokenType /\ "ERROR" \in TokenType
  BY <1>1, RisingHigher DEF TokenType
<1>3. ASSUME NEW m \in 1..(n + 1) + 1, NEW vs \in Seq(TokenRecord), Rising(vs, m),
             NEW newline \in BOOLEAN, NEW comment \in BOOLEAN
      PROVE  Proper(ScannerAt(vs, newline, comment, m), n + 1)
  BY <1>2, <1>3, MadeProper
<1>4. CASE s.comment /\ lexeme # "NL"
  <2>1. r = ScannerAt(ts, s.newline, s.comment, l)
    BY <1>1, <1>4, Zenon DEF ScanLexeme
  <2>2. QED
    BY <1>1, <1>2, <1>3, <2>1
<1>5. CASE s.comment /\ lexeme = "NL" /\ s.newline
  <2> DEFINE vs == Append(ts, Token("NEWLINE", l))
  <2>1. vs \in Seq(TokenRecord) /\ Rising(vs, l)
    BY <1>1, <1>2, TokensAppend
  <2>2. r = [s EXCEPT !.comment = FALSE, !.tokens = Append(@, Token("NEWLINE", s.line)), !.line = @ + 1]
    BY <1>5, Zenon DEF ScanLexeme
  <2> HIDE DEF r
  <2>3. r = ScannerAt(vs, s.newline, FALSE, l + 1)
    BY <1>1, <2>2 DEF ScannerAt
  <2>4. Rising(vs, l + 1)
    BY <1>1, <2>1, RisingHigher
  <2>5. QED
    BY <1>1, <1>2, <1>3, <2>1, <2>3, <2>4, Zenon
<1>6. CASE s.comment /\ lexeme = "NL" /\ ~s.newline
  <2> DEFINE vs == Append(ts, Token("ERROR", l))
  <2>1. vs \in Seq(TokenRecord) /\ Rising(vs, l)
    BY <1>1, <1>2, TokensAppend
  <2>2. r = [s EXCEPT !.comment = FALSE, !.tokens = Append(@, Token("ERROR", s.line))]
    BY <1>6, Zenon DEF ScanLexeme
  <2> HIDE DEF r
  <2>3. r = ScannerAt(vs, s.newline, FALSE, l)
    BY <1>1, <2>2 DEF ScannerAt
  <2>4. QED
    BY <1>1, <1>2, <1>3, <2>1, <2>3, Zenon
<1>7. CASE ~s.comment /\ lexeme = "NL"
  <2>1. r = [s EXCEPT !.newline = TRUE, !.line = l + 1]
    BY <1>7 DEF ScanLexeme
  <2> HIDE DEF r
  <2>2. r = ScannerAt(ts, TRUE, s.comment, l + 1)
    BY <1>1, <2>1 DEF ScannerAt
  <2>3. QED
    BY <1>1, <1>2, <1>3, <2>2, Zenon
<1>8. CASE ~s.comment /\ lexeme = "//"
  <2>1. r = [s EXCEPT !.comment = TRUE]
    BY <1>8 DEF ScanLexeme
  <2> HIDE DEF r
  <2>2. r = ScannerAt(ts, s.newline, TRUE, l)
    BY <1>1, <2>1 DEF ScannerAt
  <2>3. QED
    BY <1>1, <1>2, <1>3, <2>2, Zenon
<1>9. CASE ~s.comment /\ lexeme # "NL" /\ lexeme # "//"
  <2>1. us \in Seq(TokenRecord) /\ Rising(us, l)
    BY <1>1, <1>2, NewlineBefore
  <2>2. r = [s EXCEPT !.newline = FALSE, !.tokens = us]
    BY <1>9 DEF ScanLexeme, WithLexeme
  <2> HIDE DEF r, us
  <2>3. r = ScannerAt(us, FALSE, s.comment, l)
    BY <1>1, <2>2 DEF ScannerAt
  <2>4. QED
    BY <1>1, <1>2, <1>3, <2>1, <2>3, Zenon
<1>10. QED
  BY <1>4, <1>5, <1>6, <1>7, <1>8, <1>9

\* The scanner's states are those its equation describes.
LEMMA ScannedEquation ==
  ASSUME NEW text \in Seq(STRING)
  PROVE  Scanned(text) = [n \in 0..Len(text) |->
           IF n = 0 THEN StartOfText ELSE ScanLexeme(Scanned(text)[n - 1], text[n])]
<1> DEFINE Fits(f, m) == f = [n \in 0..m |->
                           IF n = 0 THEN StartOfText ELSE ScanLexeme(f[n - 1], text[n])]
           S == {m \in Nat : ~\E f : Fits(f, m)}
<1>1. S = {}
  <2> SUFFICES ASSUME S # {} PROVE FALSE
    OBVIOUS
  <2>1. PICK m \in S : \A k \in S : m <= k
    <3>1. S \in SUBSET Nat
      OBVIOUS
    <3> HIDE DEF S
    <3>2. QED
      BY <3>1, LeastNatural
  <2>2. m # 0
    <3> DEFINE f == [n \in 0..0 |-> StartOfText]
    <3>1. Fits(f, 0)
      OBVIOUS
    <3> HIDE DEF Fits
    <3>2. QED
      BY <2>1, <3>1
  <2>3. m \in Nat /\ m - 1 \in Nat /\ m - 1 \notin S
    <3>1. m \in Nat
      OBVIOUS
    <3> HIDE DEF S
    <3>2. m - 1 \in Nat /\ ~(m <= m - 1)
      BY <2>2, <3>1
    <3>3. QED
      BY <2>1, <3>1, <3>2
  <2>4. PICK g : Fits(g, m - 1)
    BY <2>3
  <2> DEFINE h == [n \in 0..m |-> IF n = 0 THEN StartOfText ELSE ScanLexeme(g[n - 1], text[n])]
  <2>5. \A n \in 0..m - 1 : h[n] = g[n]
    BY <2>3, <2>4
  <2>6. \A n \in 0..m : n # 0 => ScanLexeme(g[n - 1], text[n]) = ScanLexeme(h[n - 1], text[n])
    <3> HIDE DEF h
    <3> QED
      BY <2>3, <2>5
  <2>7. Fits(h, m)
    BY <2>6
  <2>8. QED
    BY <2>1, <2>7
<1>2. Len(text) \in Nat
  OBVIOUS
<1>3. \E f : Fits(f, Len(text))
  BY <1>1, <1>2
<1>4. Scanned(text) = CHOOSE f : Fits(f, Len(text))
  BY DEF Scanned
<1>5. Fits(Scanned(text), Len(text))
  <2> HIDE DEF Fits
  <2> QED
    BY <1>3, <1>4
<1>6. QED
  BY <1>5

LEMMA ScannedProper ==
  ASSUME NEW text \in Seq(STRING)
  PROVE  \A n \in 0..Len(text) : Proper(Scanned(text)[n], n)
<1> DEFINE S == {n \in 0..Len(text) : ~Proper(Scanned(text)[n], n)}
<1> SUFFICES ASSUME S # {} PROVE FALSE
  OBVIOUS
<1>1. PICK m \in S : \A k \in S : m <= k
  <2>1. S \in SUBSET Nat
    OBVIOUS
  <2> HIDE DEF S
  <2>2. QED
    BY <2>1, LeastNatural
<1>2. m \in 0..Len(text) /\ ~Proper(Scanned(text)[m], m) /\ Len(text) \in Nat
  BY <1>1
<1>3. Scanned(text)[m] = IF m = 0 THEN StartOfText ELSE ScanLexeme(Scanned(text)[m - 1], text[m])
  BY <1>2, ScannedEquation
<1>4. m # 0
  BY <1>2, <1>3, StartProper
<1>5. m - 1 \in 0..Len(text) /\ m - 1 \in Nat /\ m - 1 \notin S /\ (m - 1) + 1 = m /\ text[m] \in STRING
  BY <1>1, <1>2, <1>4
<1>6. Proper(Scanned(text)[m - 1], m - 1)
  BY <1>5
<1>7. QED
  BY <1>2, <1>3, <1>4, <1>5, <1>6, LexemeProper

\* The tokens are in the order of their lines, and EOF is the last.
Tokenized ==
  /\ tokens \in Seq(TokenRecord) /\ tokens # <<>> /\ tokens[Len(tokens)].type = "EOF"
  /\ \A i \in DOMAIN tokens : tokens[i].line \in LineNumbers
  /\ \A i, j \in DOMAIN tokens : i <= j => tokens[i].line <= tokens[j].line

LEMMA ScanTokenizes ==
  ASSUME NEW text \in Sources, tokens = Scan(text)
  PROVE  Tokenized
<1> DEFINE s == Scanned(text)[Len(text)]
<1>1. text \in Seq(STRING) /\ Len(text) \in Nat /\ 1..Len(text) + 1 \subseteq LineNumbers
  BY SourcesAssumption
<1>2. Proper(s, Len(text))
  BY <1>1, ScannedProper
<1>3. tokens = WithLexeme(s.tokens, s.newline, "EOF", s.line)
  BY DEF Scan, WithLexeme
<1> HIDE DEF s
<1>4. /\ s.tokens \in Seq(TokenRecord) /\ s.line \in Nat \ {0} /\ Rising(s.tokens, s.line)
      /\ s.newline \in BOOLEAN /\ s.line <= Len(text) + 1
  BY <1>1, <1>2 DEF Proper, ScanState
<1>5. /\ tokens \in Seq(TokenRecord) /\ Rising(tokens, s.line)
      /\ tokens # <<>> /\ tokens[Len(tokens)].type = "EOF"
  <2>1. "EOF" \in TokenType
    BY DEF TokenType
  <2>2. QED
    BY <1>3, <1>4, <2>1, NewlineBefore
<1>6. 1..s.line \subseteq LineNumbers
  BY <1>1, <1>4
<1>7. QED
  BY <1>5, <1>6 DEF Tokenized, Rising

-----------------------------------------------------------------------------
(* The parser.                                                               *)

\* The last byte has the line of a token that has been consumed.
Behind ==
  written # <<>> =>
    \E i \in DOMAIN tokens : i < current /\ written[Len(written)] = tokens[i].line

ParserInv == Tokenized /\ current \in Nat \ {0} /\ written \in Seq(LineNumbers) /\ Behind

\* A step writes nothing, and goes on at the current token or a later one.
Onward == UNCHANGED <<tokens, lineVars>> /\ current' \in Nat /\ current <= current'

LEMMA MinIsIn ==
  ASSUME NEW S \in SUBSET Nat, S # {}
  PROVE  Min(S) \in S
BY LeastNatural DEF Min

LEMMA MaxOfTwo ==
  ASSUME NEW i \in Nat, NEW j \in Nat
  PROVE  Max({i, j}) = IF i >= j THEN i ELSE j
<1> DEFINE m == IF i >= j THEN i ELSE j
<1>1. m \in {i, j} /\ \A y \in {i, j} : m >= y
  OBVIOUS
<1>2. \A x \in {i, j} : (\A y \in {i, j} : x >= y) => x = m
  OBVIOUS
<1> HIDE DEF m
<1>3. Max({i, j}) = m
  BY <1>1, <1>2 DEF Max
<1>4. QED
  BY <1>3 DEF m

\* From any place there is a token to go on with, EOF in the end.
LEMMA EndReached ==
  ASSUME Tokenized, NEW i \in Nat \ {0}
  PROVE  LET end == Max({i, Len(tokens)})
         IN  end \in Nat /\ end \in i..end /\ Type(end) = "EOF"
<1>1. Len(tokens) \in Nat \ {0} /\ tokens[Len(tokens)].type = "EOF"
  BY DEF Tokenized
<1>2. Max({i, Len(tokens)}) = IF i >= Len(tokens) THEN i ELSE Len(tokens)
  BY <1>1, MaxOfTwo
<1>3. QED
  BY <1>1, <1>2 DEF Type

LEMMA SkipsOnward ==
  ASSUME Tokenized, NEW i \in Nat \ {0}
  PROVE  Skipped(i) \in Nat /\ i <= Skipped(i)
<1> DEFINE S == {j \in i..Max({i, Len(tokens)}) : Type(j) # "NEWLINE"}
<1>1. S \in SUBSET Nat
  BY EndReached
<1>2. S # {}
  BY EndReached
<1>3. \A j \in S : i <= j
  BY EndReached
<1> HIDE DEF S
<1>4. Min(S) \in Nat /\ i <= Min(S)
  BY <1>1, <1>2, <1>3, MinIsIn
<1>5. QED
  BY <1>4 DEF S, Skipped

LEMMA SynchronizesOnward ==
  ASSUME Tokenized, current \in Nat \ {0}
  PROVE  Synchronized \in Nat /\ current <= Synchronized
<1> DEFINE S == {i \in current..Max({current, Len(tokens)}) : Resumes(i)}
<1>1. S \in SUBSET Nat
  BY EndReached
<1>2. S # {}
  BY EndReached DEF Resumes
<1>3. \A j \in S : current <= j
  BY EndReached
<1> HIDE DEF S
<1>4. Min(S) \in Nat /\ current <= Min(S)
  BY <1>1, <1>2, <1>3, MinIsIn
<1>5. QED
  BY <1>4 DEF S, Synchronized

\* Where a token is found is not before the current one.
LEMMA FindsOnward ==
  ASSUME Tokenized, current \in Nat \ {0}, NEW type
  PROVE  /\ Found(current, type) \in Nat
         /\ Matches(type) => current <= Found(current, type)
         /\ Matches(type) => AfterMatch(type) \in Nat /\ current <= AfterMatch(type)
<1>1. Skipped(current) \in Nat /\ current <= Skipped(current)
  BY SkipsOnward
<1>2. Found(current, type) \in {current, Skipped(current), 0}
  BY DEF Found
<1>3. QED
  BY <1>1, <1>2 DEF Matches, AfterMatch

LEMMA MovesOnward ==
  ASSUME current \in Nat \ {0}, NEW i \in Nat, current <= i, NEW calls
  PROVE  /\ Advance(i, calls) => Onward
         /\ Move(i, calls) => Onward
         /\ \A at : Error(i, at) => Onward
<1>1. \A why : Stop(why) /\ Quiet => Onward
  BY DEF Stop, Quiet, Onward
<1>2. current' = i /\ Quiet => Onward
  BY DEF Quiet, Onward
<1>3. Advance(i, calls) => Onward
  BY <1>1, <1>2 DEF Advance
<1>4. Move(i, calls) => Onward
  BY <1>1, <1>3 DEF Move
<1>5. ASSUME NEW at, Error(i, at) PROVE Onward
  BY <1>1, <1>2, <1>5 DEF Error
<1>6. QED
  BY <1>3, <1>4, <1>5

LEMMA ExpressionOnward ==
  ASSUME Tokenized, current \in Nat \ {0},
         ParsePrecedence \/ ParseInfix \/ InvalidTarget \/ Variable \/ Dot \/ Arguments \/ MoreArguments
  PROVE  Onward
<1>1. /\ \A i \in Nat : current <= i => \A calls : (Advance(i, calls) => Onward) /\ (Move(i, calls) => Onward)
      /\ \A i \in Nat : current <= i => \A at : Error(i, at) => Onward
  BY MovesOnward
<1>2. \A type : Matches(type) =>
        /\ Found(current, type) \in Nat /\ current <= Found(current, type)
        /\ AfterMatch(type) \in Nat /\ current <= AfterMatch(type)
  BY FindsOnward
<1>3. current \in Nat /\ current <= current /\ current + 1 \in Nat /\ current <= current + 1
  OBVIOUS
<1>4. /\ Skipped(current) \in Nat /\ current <= Skipped(current)
      /\ Skipped(current) + 1 \in Nat /\ current <= Skipped(current) + 1
  BY SkipsOnward
<1>5. \A why : Stop(why) /\ Quiet => Onward
  BY <1>3 DEF Stop, Quiet, Onward
<1>6. CASE ParsePrecedence
  BY <1>1, <1>4, <1>5, <1>6, Zenon DEF ParsePrecedence, NotAnExpression
<1>7. CASE ParseInfix
  BY <1>1, <1>3, <1>5, <1>7, Zenon DEF ParseInfix, Continue
<1>8. CASE InvalidTarget
  BY <1>1, <1>2, <1>3, <1>8, Zenon DEF InvalidTarget
<1>9. ASSUME NEW name, NEW get, NEW set, Assignable(name, get, set) PROVE Onward
  BY <1>1, <1>2, <1>3, <1>9, Zenon DEF Assignable, Continue
<1>10. CASE Variable \/ Dot
  BY <1>9, <1>10 DEF Variable, Dot
<1>11. CASE Arguments
  BY <1>1, <1>2, <1>3, <1>11, Zenon DEF Arguments
<1>12. CASE MoreArguments
  BY <1>1, <1>2, <1>3, <1>12, Zenon DEF MoreArguments
<1>13. QED
  BY <1>6, <1>7, <1>8, <1>10, <1>11, <1>12

LEMMA StatementOnward ==
  ASSUME Tokenized, current \in Nat \ {0},
         \/ Expect \/ PatchJump \/ Declaration \/ Initializer \/ Statement \/ Else \/ Block
         \/ DropLocals \/ Synchronize \/ Program \/ EndProgram
  PROVE  Onward
<1>1. /\ \A i \in Nat : current <= i => \A calls : (Advance(i, calls) => Onward) /\ (Move(i, calls) => Onward)
      /\ \A i \in Nat : current <= i => \A at : Error(i, at) => Onward
  BY MovesOnward
<1>2. \A type : Matches(type) =>
        /\ Found(current, type) \in Nat /\ current <= Found(current, type)
        /\ AfterMatch(type) \in Nat /\ current <= AfterMatch(type)
  BY FindsOnward
<1>3. /\ current \in Nat /\ current <= current
      /\ Skipped(current) \in Nat /\ current <= Skipped(current)
  BY SkipsOnward
<1>4. \A why : Stop(why) /\ Quiet => Onward
  BY <1>3 DEF Stop, Quiet, Onward
<1>5. CASE Expect
  BY <1>1, <1>2, <1>3, <1>5, Zenon DEF Expect
<1>6. CASE PatchJump
  BY <1>6 DEF PatchJump, Onward, lineVars
<1>7. CASE Declaration
  BY <1>1, <1>2, <1>3, <1>7, Zenon DEF Declaration
<1>8. CASE Initializer
  BY <1>1, <1>2, <1>3, <1>8, Zenon DEF Initializer
<1>9. CASE Statement
  <2>1. CASE \E keyword \in Keywords : Matches(keyword)
    <3> DEFINE keyword == CHOOSE k \in Keywords : Matches(k)
    <3>1. Matches(keyword)
      BY <2>1
    <3>2. \E calls : Move(AfterMatch(keyword), calls)
      BY <1>9, <2>1 DEF Statement
    <3> HIDE DEF keyword
    <3>3. QED
      BY <1>1, <1>2, <3>1, <3>2
  <2>2. CASE ~\E keyword \in Keywords : Matches(keyword)
    BY <1>1, <1>3, <1>9, <2>2, Zenon DEF Statement
  <2>3. QED
    BY <2>1, <2>2
<1>10. CASE Else
  BY <1>1, <1>2, <1>3, <1>10, Zenon DEF Else
<1>11. CASE Block
  BY <1>1, <1>3, <1>11, Zenon DEF Block
<1>12. CASE DropLocals
  BY <1>1, <1>3, <1>12, Zenon DEF DropLocals, Continue
<1>13. CASE Synchronize
  <2>1. Synchronized \in Nat /\ current <= Synchronized
    BY SynchronizesOnward
  <2>2. Quiet /\ ((\E why : Stop(why)) \/ current' \in {current, Synchronized})
    BY <1>13 DEF Synchronize
  <2>3. QED
    BY <1>3, <1>4, <2>1, <2>2 DEF Quiet, Onward
<1>14. CASE Program
  BY <1>1, <1>2, <1>3, <1>14, Zenon DEF Program
<1>15. CASE EndProgram
  BY <1>4, <1>15 DEF EndProgram
<1>16. QED
  BY <1>5, <1>6, <1>7, <1>8, <1>9, <1>10, <1>11, <1>12, <1>13, <1>14, <1>15

LEMMA OnwardKeeps == ParserInv /\ Onward => ParserInv' /\ UNCHANGED lineVars
<1> SUFFICES ASSUME ParserInv, Onward PROVE ParserInv' /\ UNCHANGED lineVars
  OBVIOUS
<1>1. tokens' = tokens /\ runs' = runs /\ written' = written /\ current' \in Nat /\ current <= current'
  BY DEF Onward, lineVars
<1>2. current \in Nat \ {0} /\ \A i \in DOMAIN tokens : i \in Nat
  BY DEF ParserInv, Tokenized
<1>3. current' \in Nat \ {0} /\ \A i \in DOMAIN tokens : i < current => i < current'
  BY <1>1, <1>2
<1>4. Tokenized' /\ Behind'
  BY <1>1, <1>3 DEF ParserInv, Tokenized, Behind
<1>5. QED
  BY <1>1, <1>3, <1>4 DEF ParserInv, lineVars

\* A byte gets the line of the token before the current one, and those of the
\* bytes before it are lines of that token or of earlier ones.
LEMMA EmitKeeps ==
  ASSUME ParserInv, EmitCode
  PROVE  ParserInv' /\ (UNCHANGED lineVars \/ \E line \in LineNumbers : WriteInOrder(line))
<1>1. Tokenized /\ current \in Nat \ {0} /\ written \in Seq(LineNumbers) /\ Behind
  BY DEF ParserInv
<1>2. CASE Read(current - 1)
  <2> DEFINE line == tokens[current - 1].line
  <2>1. Write(line) /\ UNCHANGED <<tokens, current>>
    BY <1>2 DEF EmitCode, LineOf
  <2>2. current - 1 \in DOMAIN tokens /\ line \in LineNumbers /\ current - 1 < current
    BY <1>1, <1>2 DEF Read, Tokenized
  <2>3. ASSUME NEW i \in DOMAIN tokens, i < current PROVE tokens[i].line <= line
    <3>1. i <= current - 1
      <4>1. i \in Int
        BY <1>1 DEF Tokenized
      <4>2. QED
        BY <1>1, <2>3, <4>1
    <3>2. QED
      BY <1>1, <2>2, <2>3, <3>1 DEF Tokenized
  <2> HIDE DEF line
  <2>4. InOrder(line)
    BY <1>1, <2>3 DEF Behind, InOrder
  <2>5. /\ written' = Append(written, line) /\ written' \in Seq(LineNumbers)
        /\ written'[Len(written')] = line
    BY <1>1, <2>1, <2>2 DEF Write
  <2>6. Tokenized' /\ Behind'
    BY <1>1, <2>1, <2>2, <2>5 DEF Tokenized, Behind, line
  <2>7. QED
    BY <1>1, <2>1, <2>2, <2>4, <2>5, <2>6 DEF ParserInv, WriteInOrder
<1>3. CASE ~Read(current - 1)
  <2>1. UNCHANGED <<tokens, current>> /\ UNCHANGED lineVars
    BY <1>3 DEF EmitCode, Stop
  <2>2. Onward
    BY <1>1, <2>1 DEF Onward
  <2>3. QED
    BY <2>2, OnwardKeeps
<1>4. QED
  BY <1>2, <1>3

-----------------------------------------------------------------------------
(* The theorems.                                                             *)

LEMMA ParserStarts == Init => ParserInv /\ LineInit
<1> SUFFICES ASSUME Init PROVE ParserInv /\ LineInit
  OBVIOUS
<1>1. Tokenized
  BY ScanTokenizes DEF Init
<1>2. current = 1 /\ written = <<>> /\ LineInit
  BY DEF Init, LineInit
<1>3. QED
  BY <1>1, <1>2 DEF ParserInv, Behind

LEMMA ParserSteps ==
  ParserInv /\ [Next]_vars =>
    ParserInv' /\ [\E line \in LineNumbers : WriteInOrder(line)]_lineVars
<1> SUFFICES ASSUME ParserInv, [Next]_vars
             PROVE  ParserInv' /\ (UNCHANGED lineVars \/ \E line \in LineNumbers : WriteInOrder(line))
  OBVIOUS
<1>1. Tokenized /\ current \in Nat \ {0}
  BY DEF ParserInv
<1>2. CASE EmitCode
  BY <1>2, EmitKeeps
<1>3. CASE Next /\ ~EmitCode
  <2>1. Onward
    BY <1>1, <1>3, ExpressionOnward, StatementOnward DEF Next
  <2>2. QED
    BY <2>1, OnwardKeeps
<1>4. CASE UNCHANGED vars
  <2>1. Onward
    BY <1>1, <1>4 DEF vars, parserVars, lineVars, Onward
  <2>2. QED
    BY <2>1, OnwardKeeps
<1>5. QED
  BY <1>2, <1>3, <1>4

\* Whatever the text and whatever errors it has, the code compiled from it is
\* written to the chunk in the order of its lines: the backtracking over newlines
\* and the recovery from errors never take the compiler back to an earlier line.
THEOREM LinesAlwaysInOrder == Spec => LinesInOrder
<1>1. Init => ParserInv /\ LineInit
  BY ParserStarts
<1>2. ParserInv /\ [Next]_vars =>
        ParserInv' /\ [\E line \in LineNumbers : WriteInOrder(line)]_lineVars
  BY ParserSteps
<1>3. QED
  BY <1>1, <1>2, PTL DEF Spec, LinesInOrder, LineSpec

\* So line_info_get returns, for every byte of the code compiled from any text, the
\* line of the token the compiler attributed the byte to.
THEOREM ParserFindsLines == Spec => []LineFound
BY LinesAlwaysInOrder, LineFoundAlways, PTL DEF LinesInOrder

-----------------------------------------------------------------------------
(* Repl *)

Instruction ==
  [op : {"PUSH", "GET_LOCAL", "SET_LOCAL", "POP", "CALL", "RETURN"}, arg : Nat, line : {1, 2}]

-----------------------------------------------------------------------------
(* What the code of a line does to the stack *)

\* The stack between statements, with n locals
Kept(n) == <<Script>> \o [i \in 1..n |-> i]

\* What an instruction makes of the stack before it.  After a call nothing is
\* asked, and a return has no place in a line without errors.
Effect(i, before, after) ==
  /\ i.op = "PUSH" => after = Append(before, i.arg)
  /\ i.op = "GET_LOCAL" => i.arg + 1 \in DOMAIN before /\ after = Append(before, before[i.arg + 1])
  /\ i.op = "SET_LOCAL" => /\ i.arg + 1 \in DOMAIN before
                           /\ after = [before EXCEPT ![i.arg + 1] = Last(before)]
  /\ i.op = "POP" => before # <<>> /\ after = Front(before)
  /\ i.op # "RETURN"

\* h are the stacks before each of the n instructions after the first c, and behind them.
Takes(h, is, c, n) ==
  /\ h \in [1..n + 1 -> Seq(Nat)]
  /\ \A p \in 1..n : Effect(is[c + p], h[p], h[p + 1])

\* Code that takes the stack of m locals to that of n
Balanced(is, m, n) ==
  \E h : Takes(h, is, 0, Len(is)) /\ h[1] = Kept(m) /\ h[Len(is) + 1] = Kept(n)

LEMMA KeptStack ==
  ASSUME NEW m \in Nat
  PROVE  /\ Kept(m) \in Seq(Nat) /\ Len(Kept(m)) = m + 1
         /\ \A i \in 0..m : Kept(m)[i + 1] = i
         /\ Kept(m + 1) = Append(Kept(m), m + 1)
<1> DEFINE ones(n) == [i \in 1..n |-> i]
<1>1. \A n \in Nat : ones(n) \in Seq(Nat) /\ Len(ones(n)) = n /\ \A i \in 1..n : ones(n)[i] = i
  OBVIOUS
<1>2. <<Script>> \in Seq(Nat) /\ Len(<<Script>>) = 1 /\ <<Script>>[1] = 0
  BY DEF Script
<1> HIDE DEF ones
<1>3. ASSUME NEW n \in Nat
      PROVE  Kept(n) \in Seq(Nat) /\ Len(Kept(n)) = n + 1 /\ \A i \in 1..n + 1 : Kept(n)[i] = i - 1
  <2>1. Kept(n) = <<Script>> \o ones(n)
    BY DEF Kept, ones
  <2>2. Kept(n) \in Seq(Nat) /\ Len(Kept(n)) = n + 1
    BY <1>1, <1>2, <2>1
  <2>3. ASSUME NEW i \in 1..n + 1 PROVE Kept(n)[i] = i - 1
    <3>1. CASE i = 1
      BY <1>1, <1>2, <2>1, <3>1
    <3>2. CASE i # 1
      <4>1. i - 1 \in 1..n
        BY <3>2
      <4>2. Kept(n)[i] = ones(n)[i - 1]
        BY <1>1, <1>2, <2>1, <3>2
      <4>3. QED
        BY <1>1, <4>1, <4>2
    <3>3. QED
      BY <3>1, <3>2
  <2>4. QED
    BY <2>2, <2>3
<1> DEFINE s == Kept(m)  a == Append(s, m + 1)  t == Kept(m + 1)
<1>4. s \in Seq(Nat) /\ Len(s) = m + 1 /\ \A i \in 1..m + 1 : s[i] = i - 1
  BY <1>3
<1>5. t \in Seq(Nat) /\ Len(t) = m + 2 /\ \A i \in 1..m + 2 : t[i] = i - 1
  <2>1. m + 1 \in Nat /\ (m + 1) + 1 = m + 2
    OBVIOUS
  <2>2. QED
    BY <1>3, <2>1
<1> HIDE DEF s, t
<1>6. a \in Seq(Nat) /\ Len(a) = m + 2 /\ \A i \in 1..m + 2 : a[i] = i - 1
  BY <1>4
<1>7. t = a
  BY <1>5, <1>6
<1>8. \A i \in 0..m : s[i + 1] = i
  BY <1>4
<1>9. QED
  BY <1>4, <1>7, <1>8 DEF s, t

LEMMA BalancedBy ==
  ASSUME NEW is, NEW h, NEW k, NEW m, NEW n,
         Len(is) = k, Takes(h, is, 0, k), h[1] = Kept(m), h[k + 1] = Kept(n)
  PROVE  Balanced(is, m, n)
BY Zenon DEF Balanced

\* What comes after code begins with the stack that the code leaves.
LEMMA BalancedConcat ==
  ASSUME NEW a \in Seq(Instruction), NEW b \in Seq(Instruction),
         NEW m \in Nat, NEW n \in Nat, NEW k \in Nat, Balanced(a, m, n), Balanced(b, n, k)
  PROVE  Balanced(a \o b, m, k)
<1>1. PICK g : Takes(g, a, 0, Len(a)) /\ g[1] = Kept(m) /\ g[Len(a) + 1] = Kept(n)
  BY DEF Balanced
<1>2. PICK h : Takes(h, b, 0, Len(b)) /\ h[1] = Kept(n) /\ h[Len(b) + 1] = Kept(k)
  BY DEF Balanced
<1> DEFINE is == a \o b  x == Len(a)  y == Len(b)
           f == [p \in 1..x + y + 1 |-> IF p <= x THEN g[p] ELSE h[p - x]]
<1>3. /\ x \in Nat /\ y \in Nat /\ Len(is) = x + y
      /\ \A p \in 1..x : is[p] = a[p]
      /\ \A p \in x + 1..x + y : is[p] = b[p - x]
  OBVIOUS
<1>4. /\ g \in [1..x + 1 -> Seq(Nat)] /\ h \in [1..y + 1 -> Seq(Nat)]
      /\ \A p \in 1..x : Effect(a[p], g[p], g[p + 1])
      /\ \A p \in 1..y : Effect(b[p], h[p], h[p + 1])
  BY <1>1, <1>2, <1>3 DEF Takes
<1>5. f \in [1..x + y + 1 -> Seq(Nat)]
  BY <1>3, <1>4
<1>6. /\ \A p \in 1..x : f[p] = g[p]
      /\ \A p \in x + 1..x + y + 1 : f[p] = h[p - x]
  BY <1>3
<1>7. f[x + 1] = g[x + 1]
  BY <1>1, <1>2, <1>3, <1>6
<1> HIDE DEF f, is, x, y
<1>8. ASSUME NEW p \in 1..x + y PROVE Effect(is[p], f[p], f[p + 1])
  <2>1. CASE p \in 1..x
    <3>1. f[p + 1] = g[p + 1]
      BY <1>3, <1>6, <1>7, <2>1
    <3>2. QED
      BY <1>3, <1>4, <1>6, <2>1, <3>1
  <2>2. CASE p \in x + 1..x + y
    <3>1. p - x \in 1..y /\ (p + 1) - x = (p - x) + 1
      BY <1>3, <2>2
    <3>2. is[p] = b[p - x] /\ f[p] = h[p - x] /\ f[p + 1] = h[(p - x) + 1]
      BY <1>3, <1>6, <2>2, <3>1
    <3>3. QED
      BY <1>4, <3>1, <3>2
  <2>3. QED
    BY <1>3, <2>1, <2>2
<1>9. Takes(f, is, 0, x + y)
  BY <1>3, <1>5, <1>8 DEF Takes
<1>10. f[1] = Kept(m)
  <2>1. CASE x = 0
    BY <1>1, <1>3, <1>7, <2>1 DEF x
  <2>2. CASE x # 0
    BY <1>1, <1>3, <1>6, <2>2
  <2>3. QED
    BY <2>1, <2>2
<1>11. f[(x + y) + 1] = Kept(k)
  <2>1. ((x + y) + 1) - x = y + 1
    BY <1>3
  <2>2. (x + y) + 1 \in x + 1..x + y + 1
    BY <1>3
  <2>3. QED
    BY <1>2, <1>6, <2>1, <2>2 DEF y
<1>12. Balanced(is, m, k)
  BY <1>3, <1>9, <1>10, <1>11 DEF Balanced
<1>13. QED
  BY <1>12 DEF is

LEMMA FrontOfAppend ==
  ASSUME NEW s \in Seq(Nat), NEW x \in Nat
  PROVE  Front(Append(s, x)) = s /\ Last(Append(s, x)) = x /\ Append(s, x) # <<>>
<1> DEFINE t == Append(s, x)
<1>1. t \in Seq(Nat) /\ Len(t) = Len(s) + 1 /\ t[Len(t)] = x /\ \A i \in 1..Len(s) : t[i] = s[i]
  OBVIOUS
<1>2. Len(s) \in Nat /\ Len(t) # 0
  BY <1>1
<1> HIDE DEF t
<1>3. /\ SubSeq(t, 1, Len(s)) \in Seq(Nat) /\ Len(SubSeq(t, 1, Len(s))) = Len(s)
      /\ \A i \in 1..Len(s) : SubSeq(t, 1, Len(s))[i] = s[i]
  BY <1>1, <1>2
<1>4. SubSeq(t, 1, Len(s)) = s
  BY <1>2, <1>3
<1>5. Len(t) - 1 = Len(s)
  BY <1>1, <1>2
<1>6. QED
  BY <1>1, <1>2, <1>4, <1>5 DEF t, Front, Last

\* The statements that a line without errors is made of
Sound(n) == ({"var"} \X {0}) \cup ({"use", "assign", "call"} \X (1..n))

LocalsAfter(s, n) == IF s[1] = "var" THEN n + 1 ELSE n

\* A statement leaves the stack as it was, or adds the local that it declares.
LEMMA BalancedStatement ==
  ASSUME NEW n \in Nat, NEW s \in Sound(n), NEW end \in {1, 2}
  PROVE  Balanced(CodeOf(s, n, end), n, LocalsAfter(s, n))
<1> DEFINE K == Kept(n)  i == s[2]  M == Append(K, i)
<1>1. K \in Seq(Nat) /\ Len(K) = n + 1 /\ Kept(n + 1) = Append(K, n + 1)
  BY KeptStack
<1>2. CASE s[1] = "var"
  <2> DEFINE is == <<Instr("PUSH", n + 1, 1)>>
             h == [p \in 1..2 |-> IF p = 1 THEN K ELSE Append(K, n + 1)]
  <2>1. CodeOf(s, n, end) = is /\ LocalsAfter(s, n) = n + 1
    BY <1>2 DEF CodeOf, LocalsAfter
  <2>2. Len(is) = 1 /\ is[1].op = "PUSH" /\ is[1].arg = n + 1
    BY DEF Instr
  <2>3. h \in [1..1 + 1 -> Seq(Nat)] /\ h[1] = K /\ h[2] = Append(K, n + 1)
    BY <1>1
  <2> HIDE DEF is, h, K
  <2>4. Takes(h, is, 0, 1)
    BY <2>2, <2>3 DEF Takes, Effect
  <2>5. Balanced(is, n, n + 1)
    <3>1. h[2] = Kept(n + 1) /\ h[1] = Kept(n)
      BY <1>1, <2>3, Zenon DEF K
    <3>2. h[1 + 1] = h[2]
      OBVIOUS
    <3>3. Len(is) = 1 /\ h[1] = Kept(n) /\ h[1 + 1] = Kept(n + 1)
      BY <2>2, <3>1, <3>2, Zenon
    <3>4. QED
      BY <2>4, <3>3, BalancedBy, Zenon
  <2>6. QED
    BY <2>1, <2>5
<1>3. ASSUME s[1] # "var"
      PROVE  /\ s[1] \in {"use", "assign", "call"} /\ i \in 1..n /\ LocalsAfter(s, n) = n
             /\ K[i + 1] = i /\ M \in Seq(Nat) /\ Len(M) = n + 2 /\ M[i + 1] = i
             /\ Front(M) = K /\ Last(M) = i /\ M # <<>>
             /\ [M EXCEPT ![i + 1] = i] = M
  <2>1. s[1] \in {"use", "assign", "call"} /\ i \in 1..n
    BY <1>3 DEF Sound
  <2>2. K[i + 1] = i
    <3>1. \A j \in 0..n : Kept(n)[j + 1] = j
      BY KeptStack
    <3>2. i \in 0..n
      BY <2>1
    <3>3. QED
      BY <3>1, <3>2
  <2>3. M \in Seq(Nat) /\ Len(M) = n + 2 /\ M[i + 1] = K[i + 1]
    BY <1>1, <2>1
  <2>4. Front(M) = K /\ Last(M) = i /\ M # <<>>
    BY <1>1, <2>1, FrontOfAppend
  <2> HIDE DEF K, M, i
  <2>5. [M EXCEPT ![i + 1] = i] = M
    BY <2>1, <2>2, <2>3
  <2>6. QED
    BY <1>3, <2>1, <2>2, <2>3, <2>4, <2>5 DEF LocalsAfter
<1>4. CASE s[1] = "use"
  <2> DEFINE is == <<Instr("GET_LOCAL", i, 1), Instr("POP", 0, end)>>
             h == [p \in 1..3 |-> IF p = 2 THEN M ELSE K]
  <2>1. CodeOf(s, n, end) = is
    BY <1>4 DEF CodeOf
  <2>2. Len(is) = 2 /\ is[1].op = "GET_LOCAL" /\ is[1].arg = i /\ is[2].op = "POP"
    BY DEF Instr
  <2>3. i \in 1..n /\ LocalsAfter(s, n) = n /\ K[i + 1] = i /\ M \in Seq(Nat) /\ Front(M) = K /\ M # <<>>
    BY <1>3, <1>4
  <2>4. h \in [1..2 + 1 -> Seq(Nat)] /\ h[1] = K /\ h[2] = M /\ h[3] = K
    BY <1>1, <2>3
  <2>5. M = Append(K, i) /\ i + 1 \in DOMAIN K
    BY <1>1, <2>3
  <2> HIDE DEF is, h, K, M, i
  <2>6. Effect(is[1], h[1], h[2]) /\ Effect(is[2], h[2], h[3])
    BY <2>2, <2>3, <2>4, <2>5 DEF Effect
  <2>7. Takes(h, is, 0, 2)
    BY <2>4, <2>6 DEF Takes
  <2>8. Balanced(is, n, n)
    <3>1. Len(is) = 2 /\ h[1] = Kept(n) /\ h[2 + 1] = Kept(n)
      BY <2>2, <2>4 DEF K
    <3>2. QED
      BY <2>7, <3>1, BalancedBy, Zenon
  <2>9. QED
    BY <2>1, <2>3, <2>8
<1>5. CASE s[1] = "assign"
  <2> DEFINE is == <<Instr("PUSH", i, 1), Instr("SET_LOCAL", i, 1), Instr("POP", 0, end)>>
             h == [p \in 1..4 |-> IF p \in {2, 3} THEN M ELSE K]
  <2>1. CodeOf(s, n, end) = is
    BY <1>5 DEF CodeOf
  <2>2. /\ Len(is) = 3 /\ is[1].op = "PUSH" /\ is[1].arg = i
        /\ is[2].op = "SET_LOCAL" /\ is[2].arg = i /\ is[3].op = "POP"
    BY DEF Instr
  <2>3. /\ i \in 1..n /\ LocalsAfter(s, n) = n /\ M \in Seq(Nat) /\ Len(M) = n + 2
        /\ Front(M) = K /\ Last(M) = i /\ M # <<>> /\ [M EXCEPT ![i + 1] = i] = M
    BY <1>3, <1>5
  <2>4. h \in [1..3 + 1 -> Seq(Nat)] /\ h[1] = K /\ h[2] = M /\ h[3] = M /\ h[4] = K
    BY <1>1, <2>3
  <2>5. M = Append(K, i) /\ i + 1 \in DOMAIN M
    BY <2>3
  <2> HIDE DEF is, h, K, M, i
  <2>6. Effect(is[1], h[1], h[2]) /\ Effect(is[2], h[2], h[3]) /\ Effect(is[3], h[3], h[4])
    BY <2>2, <2>3, <2>4, <2>5 DEF Effect
  <2>7. Takes(h, is, 0, 3)
    BY <2>4, <2>6 DEF Takes
  <2>8. Balanced(is, n, n)
    <3>1. Len(is) = 3 /\ h[1] = Kept(n) /\ h[3 + 1] = Kept(n)
      BY <2>2, <2>4 DEF K
    <3>2. QED
      BY <2>7, <3>1, BalancedBy, Zenon
  <2>9. QED
    BY <2>1, <2>3, <2>8
<1>6. CASE s[1] = "call"
  <2> DEFINE is == <<Instr("GET_LOCAL", i, 1), Instr("CALL", 0, 1), Instr("POP", 0, end)>>
             h == [p \in 1..4 |-> IF p \in {2, 3} THEN M ELSE K]
  <2>1. CodeOf(s, n, end) = is
    BY <1>6 DEF CodeOf
  <2>2. /\ Len(is) = 3 /\ is[1].op = "GET_LOCAL" /\ is[1].arg = i
        /\ is[2].op = "CALL" /\ is[3].op = "POP"
    BY DEF Instr
  <2>3. /\ i \in 1..n /\ LocalsAfter(s, n) = n /\ K[i + 1] = i /\ M \in Seq(Nat)
        /\ Front(M) = K /\ M # <<>>
    BY <1>3, <1>6
  <2>4. h \in [1..3 + 1 -> Seq(Nat)] /\ h[1] = K /\ h[2] = M /\ h[3] = M /\ h[4] = K
    BY <1>1, <2>3
  <2>5. M = Append(K, i) /\ i + 1 \in DOMAIN K
    BY <1>1, <2>3
  <2> HIDE DEF is, h, K, M, i
  <2>6. Effect(is[1], h[1], h[2]) /\ Effect(is[2], h[2], h[3]) /\ Effect(is[3], h[3], h[4])
    BY <2>2, <2>3, <2>4, <2>5 DEF Effect
  <2>7. Takes(h, is, 0, 3)
    BY <2>4, <2>6 DEF Takes
  <2>8. Balanced(is, n, n)
    <3>1. Len(is) = 3 /\ h[1] = Kept(n) /\ h[3 + 1] = Kept(n)
      BY <2>2, <2>4 DEF K
    <3>2. QED
      BY <2>7, <3>1, BalancedBy, Zenon
  <2>9. QED
    BY <2>1, <2>3, <2>8
<1>7. QED
  BY <1>2, <1>3, <1>4, <1>5, <1>6

\* The code of a statement is made of instructions.
LEMMA CodeType ==
  ASSUME NEW n \in Nat, NEW s \in StatementsAfter(n), NEW end \in {1, 2}
  PROVE  CodeOf(s, n, end) \in Seq(Instruction)
<1>1. ASSUME NEW op \in {"PUSH", "GET_LOCAL", "SET_LOCAL", "POP", "CALL", "RETURN"},
             NEW arg \in Nat, NEW line \in {1, 2}
      PROVE  Instr(op, arg, line) \in Instruction
  BY DEF Instr, Instruction
<1>2. s[1] \in {"use", "assign", "call"} => s[2] \in Nat
  BY DEF StatementsAfter
<1> DEFINE i == s[2]
<1>3. CASE s[1] = "var"
  <2>1. Instr("PUSH", n + 1, 1) \in Instruction
    BY <1>1
  <2>2. QED
    BY <1>3, <2>1 DEF CodeOf
<1>4. CASE s[1] = "use"
  <2>1. Instr("GET_LOCAL", i, 1) \in Instruction /\ Instr("POP", 0, end) \in Instruction
    BY <1>1, <1>2, <1>4
  <2>2. QED
    BY <1>4, <2>1 DEF CodeOf
<1>5. CASE s[1] = "assign"
  <2>1. /\ Instr("PUSH", i, 1) \in Instruction /\ Instr("SET_LOCAL", i, 1) \in Instruction
        /\ Instr("POP", 0, end) \in Instruction
    BY <1>1, <1>2, <1>5
  <2>2. QED
    BY <1>5, <2>1 DEF CodeOf
<1>6. CASE s[1] = "call"
  <2>1. /\ Instr("GET_LOCAL", i, 1) \in Instruction /\ Instr("CALL", 0, 1) \in Instruction
        /\ Instr("POP", 0, end) \in Instruction
    BY <1>1, <1>2, <1>6
  <2>2. QED
    BY <1>6, <2>1 DEF CodeOf
<1>7. CASE s[1] = "bad"
  <2>1. Instr("POP", 0, end) \in Instruction
    BY <1>1
  <2>2. QED
    BY <1>7, <2>1 DEF CodeOf
<1>8. CASE s[1] = "return"
  <2>1. Instr("PUSH", Script, 1) \in Instruction /\ Instr("RETURN", 0, 1) \in Instruction
    BY <1>1 DEF Script
  <2>2. QED
    BY <1>8, <2>1 DEF CodeOf
<1>9. QED
  BY <1>3, <1>4, <1>5, <1>6, <1>7, <1>8 DEF StatementsAfter

Line == [locals : Nat, code : Seq(Instruction), failed : BOOLEAN]

LEMMA ExtendedLine ==
  ASSUME NEW line \in Line, NEW s \in StatementsAfter(line.locals), NEW end \in {1, 2}
  PROVE  Extended(line, s, end) \in Line
<1>1. line.locals \in Nat /\ line.code \in Seq(Instruction) /\ line.failed \in BOOLEAN
  BY DEF Line
<1>2. CodeOf(s, line.locals, end) \in Seq(Instruction)
  BY <1>1, CodeType
<1>3. line.code \o CodeOf(s, line.locals, end) \in Seq(Instruction)
  BY <1>1, <1>2
<1>4. (IF s[1] = "var" THEN line.locals + 1 ELSE line.locals) \in Nat
  BY <1>1
<1>5. (line.failed \/ s[1] \in {"bad", "return"}) \in BOOLEAN
  OBVIOUS
<1>6. QED
  BY <1>3, <1>4, <1>5 DEF Extended, Line

\* A statement without an error leaves a line that leaves its locals.
LEMMA ExtendedBalanced ==
  ASSUME NEW m \in Nat, NEW line \in Line, ~line.failed => Balanced(line.code, m, line.locals),
         NEW s \in StatementsAfter(line.locals), NEW end \in {1, 2},
         NEW longer, longer = Extended(line, s, end), ~longer.failed
  PROVE  Balanced(longer.code, m, longer.locals)
<1>1. /\ longer.locals = LocalsAfter(s, line.locals)
      /\ longer.code = line.code \o CodeOf(s, line.locals, end)
      /\ ~line.failed /\ s[1] \notin {"bad", "return"}
  BY DEF Extended, LocalsAfter
<1>2. line.locals \in Nat /\ line.code \in Seq(Instruction)
  BY DEF Line
<1>3. s \in Sound(line.locals)
  BY <1>1 DEF StatementsAfter, Sound
<1>4. CodeOf(s, line.locals, end) \in Seq(Instruction)
  BY <1>2, CodeType
<1>5. Balanced(CodeOf(s, line.locals, end), line.locals, LocalsAfter(s, line.locals))
  BY <1>2, <1>3, BalancedStatement
<1>6. LocalsAfter(s, line.locals) \in Nat
  BY <1>2 DEF LocalsAfter
<1>7. Balanced(line.code \o CodeOf(s, line.locals, end), m, LocalsAfter(s, line.locals))
  BY <1>1, <1>2, <1>4, <1>5, <1>6, BalancedConcat
<1>8. QED
  BY <1>1, <1>7

\* The lines with one statement more than those in a set
Longer(ls, end) == UNION {{Extended(line, s, end) : s \in StatementsAfter(line.locals)} : line \in ls}

LEMMA LongerLines ==
  ASSUME NEW ls \in SUBSET Line, NEW end \in {1, 2}
  PROVE  Longer(ls, end) \in SUBSET Line
BY ExtendedLine DEF Longer

LEMMA EmptyLine ==
  ASSUME locals \in Nat
  PROVE  /\ Empty \in Line
         /\ Balanced(Empty.code, locals, Empty.locals)
<1>1. Empty \in Line
  BY DEF Empty, Line
<1> DEFINE h == [p \in 1..1 |-> Kept(locals)]
<1>2. h \in [1..0 + 1 -> Seq(Nat)] /\ h[1] = Kept(locals)
  BY KeptStack
<1>3. Takes(h, <<>>, 0, 0)
  BY <1>2 DEF Takes
<1>4. h[0 + 1] = Kept(locals) /\ Len(<<>>) = 0
  BY <1>2
<1>5. Balanced(<<>>, locals, locals)
  BY <1>2, <1>3, <1>4, BalancedBy
<1>6. QED
  BY <1>1, <1>5 DEF Empty

\* Lines is what its equation says.
LEMMA LinesEquation ==
  ASSUME locals \in Nat
  PROVE  \A n \in Nat : Lines[n] = IF n = 0 THEN {Empty} ELSE {Empty} \cup Longer(Lines[n - 1], 1)
<1> DEFINE F == [ls \in SUBSET Line |-> {Empty} \cup Longer(ls, 1)]
           Fits(f) == f = [n \in Nat |-> IF n = 0 THEN {Empty} ELSE {Empty} \cup Longer(f[n - 1], 1)]
<1>1. F \in [SUBSET Line -> SUBSET Line] /\ {Empty} \in SUBSET Line
  BY LongerLines, EmptyLine
<1> HIDE DEF F
<1>2. PICK f : Iterates(f, F, SUBSET Line, {Empty})
  BY <1>1, Iteration, Zenon
<1>3. ASSUME NEW n \in Nat, n # 0 PROVE f[n] = {Empty} \cup Longer(f[n - 1], 1)
  <2>1. n - 1 \in Nat /\ (n - 1) + 1 = n
    BY <1>3
  <2>2. f[n] = F[f[n - 1]] /\ f[n - 1] \in SUBSET Line
    BY <1>2, <2>1 DEF Iterates
  <2>3. QED
    BY <2>2 DEF F
<1>4. Fits(f)
  BY <1>2, <1>3 DEF Iterates
<1>5. Lines = CHOOSE g : Fits(g)
  BY DEF Lines, Longer
<1>6. Fits(Lines)
  BY <1>4, <1>5
<1> DEFINE body == [n \in Nat |-> IF n = 0 THEN {Empty} ELSE {Empty} \cup Longer(Lines[n - 1], 1)]
<1>7. \A n \in Nat : body[n] = IF n = 0 THEN {Empty} ELSE {Empty} \cup Longer(Lines[n - 1], 1)
  OBVIOUS
<1>8. Lines = body
  BY <1>6
<1> HIDE DEF body, Fits
<1>9. QED
  BY <1>7, <1>8

\* Every input is a line; one without errors leaves its locals on the stack.
LEMMA InputsAreLines ==
  ASSUME locals \in Nat, ReplAssumption, NEW line \in Inputs
  PROVE  line \in Line /\ (~line.failed => Balanced(line.code, locals, line.locals))
<1> DEFINE Good(l) == l \in Line /\ (~l.failed => Balanced(l.code, locals, l.locals))
           S == {n \in Nat : \E l \in Lines[n] : ~Good(l)}
<1>1. ASSUME NEW ls, \A l \in ls : Good(l), NEW end \in {1, 2}
      PROVE  \A l \in Longer(ls, end) : Good(l)
  <2> SUFFICES ASSUME NEW l \in ls, NEW s \in StatementsAfter(l.locals)
               PROVE  Good(Extended(l, s, end))
    BY DEF Longer
  <2>1. l \in Line /\ (~l.failed => Balanced(l.code, locals, l.locals))
    BY <1>1
  <2>2. Extended(l, s, end) \in Line
    BY <2>1, ExtendedLine
  <2>3. ASSUME ~Extended(l, s, end).failed
        PROVE  Balanced(Extended(l, s, end).code, locals, Extended(l, s, end).locals)
    BY <2>1, <2>3, ExtendedBalanced
  <2>4. QED
    BY <2>2, <2>3
<1>2. Good(Empty)
  BY EmptyLine
<1>3. ASSUME NEW n \in Nat PROVE \A l \in Lines[n] : Good(l)
  <2> SUFFICES ASSUME S # {} PROVE FALSE
    OBVIOUS
  <2>1. PICK m \in S : \A k \in S : m <= k
    <3>1. S \in SUBSET Nat
      OBVIOUS
    <3> HIDE DEF S
    <3>2. QED
      BY <3>1, LeastNatural
  <2> HIDE DEF Good
  <2>2. m # 0
    BY <1>2, <2>1, LinesEquation
  <2>3. m - 1 \in Nat /\ m - 1 \notin S
    BY <2>1, <2>2
  <2>4. \A l \in Lines[m - 1] : Good(l)
    BY <2>3
  <2>5. Lines[m] = {Empty} \cup Longer(Lines[m - 1], 1)
    BY <2>1, <2>2, LinesEquation
  <2>6. \A l \in Longer(Lines[m - 1], 1) : Good(l)
    BY <1>1, <2>4
  <2>7. QED
    BY <1>2, <2>1, <2>5, <2>6
<1>4. line \in Longer(Lines[MaxStatements - 1], 2)
  BY DEF Inputs, Longer
<1>5. MaxStatements - 1 \in Nat
  BY DEF ReplAssumption
<1>6. \A l \in Lines[MaxStatements - 1] : Good(l)
  BY <1>3, <1>5
<1> HIDE DEF Good
<1>7. Good(line)
  BY <1>1, <1>4, <1>6
<1>8. QED
  BY <1>7 DEF Good

-----------------------------------------------------------------------------
(* The session.  Its code, with what is still to be emitted, ends with the   *)
(* code of the line: without errors in it, that takes the stack of the       *)
(* locals before to that of the locals after it.                             *)

Whole == code \o todo

Types ==
  /\ phase \in {"prompt", "compile", "run", "undefined"}
  /\ read \in Nat /\ locals \in Nat /\ codeSize \in Nat /\ place \in Nat /\ capacity \in Nat
  /\ code \in Seq(Instruction) /\ todo \in Seq(Instruction)
  /\ frame \in [place : Nat, ip : Nat]
  /\ displaced \in BOOLEAN /\ early \in BOOLEAN

Progress ==
  /\ phase # "compile" => todo = <<>>
  /\ read = 0 => /\ phase \in {"prompt", "undefined"}
                 /\ code = <<>> /\ locals = 0 /\ frame = NoFrame
  /\ read = 1 /\ phase = "compile" => codeSize = 0
  /\ place = 0 => capacity = 0 /\ code = <<>>

\* The code of the line that is compiled or run ends with emit_return.
Ended ==
  phase \in {"compile", "run"} =>
    /\ codeSize + 2 <= Len(Whole)
    /\ Whole[Len(Whole) - 1].op = "PUSH" /\ Whole[Len(Whole) - 1].arg = Script
    /\ Whole[Len(Whole)].op = "RETURN"

InPlace ==
  ~early =>
    /\ phase = "compile" => frame = NoFrame \/ frame.ip = codeSize + 1
    /\ phase = "run" => frame.ip \in codeSize + 1..Len(code)
    /\ phase = "prompt" => frame = NoFrame \/ frame.ip = Len(code) + 1

\* h are the stacks before each instruction of the line, up to emit_return.
Stacks(h, is, c, n) ==
  Takes(h, is, c, Len(is) - c - 2) /\ h[Len(is) - c - 1] = Kept(n)

\* emit_return pushes a value, and returns.
StackAt(h, is, c, n, ip) == IF ip = Len(is) THEN Append(Kept(n), Script) ELSE h[ip - c]

InStep ==
  ~displaced =>
    /\ ~early
    /\ phase = "compile" =>
         \E h : /\ Stacks(h, Whole, codeSize, locals)
                /\ read = 1 => h[1] = <<Script>>
                /\ frame # NoFrame => stack = h[1]
    /\ phase = "run" =>
         \E h : /\ Stacks(h, code, codeSize, locals)
                /\ stack = StackAt(h, code, codeSize, locals, frame.ip)
    /\ phase = "prompt" /\ frame # NoFrame => stack = Kept(locals)

SessionInv == Types /\ Progress /\ Ended /\ InPlace /\ InStep

LEMMA ConcatAt ==
  ASSUME NEW a \in Seq(Instruction), NEW b \in Seq(Instruction)
  PROVE  /\ a \o b \in Seq(Instruction) /\ Len(a \o b) = Len(a) + Len(b)
         /\ \A p \in 1..Len(a) : (a \o b)[p] = a[p]
         /\ \A p \in 1..Len(b) : (a \o b)[Len(a) + p] = b[p]
<1>1. a \o b \in Seq(Instruction) /\ Len(a \o b) = Len(a) + Len(b) /\ Len(a) \in Nat /\ Len(b) \in Nat
  OBVIOUS
<1>2. \A p \in 1..Len(a) : (a \o b)[p] = a[p]
  OBVIOUS
<1>3. ASSUME NEW p \in 1..Len(b) PROVE (a \o b)[Len(a) + p] = b[p]
  <2>1. Len(a) + p \in Len(a) + 1..Len(a) + Len(b) /\ (Len(a) + p) - Len(a) = p
    BY <1>1
  <2>2. \A q \in Len(a) + 1..Len(a) + Len(b) : (a \o b)[q] = b[q - Len(a)]
    OBVIOUS
  <2>3. QED
    BY <2>1, <2>2
<1>4. QED
  BY <1>1, <1>2, <1>3

LEMMA SessionInit == ReplInit => SessionInv
<1> SUFFICES ASSUME ReplInit PROVE SessionInv
  OBVIOUS
<1>1. Types
  <2>1. <<>> \in Seq(Instruction) /\ [place |-> 0, ip |-> 0] \in [place : Nat, ip : Nat]
    OBVIOUS
  <2>2. QED
    BY <2>1 DEF ReplInit, Types, NoFrame
<1>2. Progress /\ Ended /\ InPlace /\ InStep
  BY DEF ReplInit, Progress, Ended, InPlace, InStep
<1>3. QED
  BY <1>1, <1>2 DEF SessionInv

\* A line is read: what it begins with is what the last one left.
LEMMA ReadLineStep ==
  ASSUME ReplAssumption, SessionInv, NEW line \in Inputs, ReadLine(line)
  PROVE  SessionInv'
<1>1. Types /\ Progress /\ Ended /\ InPlace /\ InStep
  BY DEF SessionInv
<1>2. /\ phase = "prompt" /\ phase' = "compile" /\ read' = read + 1
      /\ codeSize' = Len(code) /\ locals' = line.locals
      /\ todo' = line.code \o <<Instr("PUSH", Script, 2), Instr("RETURN", 0, 2)>>
      /\ displaced' = (displaced \/ line.failed)
      /\ code' = code /\ place' = place /\ capacity' = capacity
      /\ frame' = frame /\ stack' = stack /\ early' = early
  BY DEF ReadLine, Returned, chunk
<1>3. /\ line.locals \in Nat /\ line.code \in Seq(Instruction) /\ line.failed \in BOOLEAN
      /\ ~line.failed => Balanced(line.code, locals, line.locals)
  BY <1>1, InputsAreLines DEF Types, Line
<1> DEFINE x == line.code  r == <<Instr("PUSH", Script, 2), Instr("RETURN", 0, 2)>>
           c == Len(code)  n == Len(x)  w == code \o (x \o r)
<1>4. /\ r \in Seq(Instruction) /\ Len(r) = 2
      /\ r[1].op = "PUSH" /\ r[1].arg = Script /\ r[2].op = "RETURN"
  BY DEF Instr, Instruction, Script
<1>5. c \in Nat /\ n \in Nat /\ code \in Seq(Instruction)
  BY <1>1, <1>3 DEF Types
<1> HIDE DEF r
<1>6. /\ x \o r \in Seq(Instruction) /\ Len(x \o r) = n + 2
      /\ \A p \in 1..n : (x \o r)[p] = x[p]
      /\ (x \o r)[n + 1] = r[1] /\ (x \o r)[n + 2] = r[2]
  <2>1. x \in Seq(Instruction)
    BY <1>3
  <2> HIDE DEF x
  <2>2. /\ x \o r \in Seq(Instruction) /\ Len(x \o r) = Len(x) + Len(r)
        /\ \A p \in 1..Len(x) : (x \o r)[p] = x[p]
        /\ \A p \in 1..Len(r) : (x \o r)[Len(x) + p] = r[p]
    BY <1>4, <2>1, ConcatAt
  <2>3. QED
    BY <1>4, <2>2
<1> DEFINE y == x \o r
<1> HIDE DEF y
<1>7. /\ Len(code \o y) = c + n + 2
      /\ \A p \in 1..n + 2 : (code \o y)[c + p] = y[p]
  <2>1. y \in Seq(Instruction) /\ Len(y) = n + 2
    BY <1>6 DEF y
  <2>2. /\ Len(code \o y) = Len(code) + Len(y)
        /\ \A p \in 1..Len(y) : (code \o y)[Len(code) + p] = y[p]
    BY <1>5, <2>1, ConcatAt
  <2>3. QED
    BY <1>5, <2>1, <2>2
<1>8. /\ Len(w) = c + n + 2 /\ \A p \in 1..n : w[c + p] = x[p]
      /\ w[c + n + 1] = r[1] /\ w[c + n + 2] = r[2]
  <2>1. Len(w) = c + n + 2
    BY <1>7 DEF y
  <2>2. \A p \in 1..n + 2 : w[c + p] = y[p]
    BY <1>7 DEF y
  <2>3. /\ \A p \in 1..n : y[p] = x[p]
        /\ y[n + 1] = r[1] /\ y[n + 2] = r[2]
    BY <1>6 DEF y
  <2> HIDE DEF w, x
  <2>4. \A p \in 1..n : w[c + p] = x[p]
    BY <1>5, <2>2, <2>3
  <2>5. w[c + (n + 1)] = r[1] /\ w[c + (n + 2)] = r[2]
    BY <1>5, <2>2, <2>3
  <2>6. c + (n + 1) = c + n + 1 /\ c + (n + 2) = c + n + 2
    BY <1>5
  <2>7. QED
    BY <2>1, <2>4, <2>5, <2>6
<1>9. Whole' = w
  BY <1>2 DEF Whole, r
<1> HIDE DEF w
<1>10. Types'
  BY <1>1, <1>2, <1>3, <1>5, <1>6 DEF Types, r
<1>11. Progress'
  BY <1>1, <1>2, <1>5 DEF Progress, Types
<1>12. Ended'
  <2>1. Len(w) - 1 = c + n + 1 /\ c + 2 <= Len(w)
    BY <1>5, <1>8
  <2>2. QED
    BY <1>2, <1>4, <1>8, <1>9, <2>1 DEF Ended
<1>13. InPlace'
  BY <1>1, <1>2 DEF InPlace
<1>14. InStep'
  <2> SUFFICES ASSUME ~displaced'
               PROVE  /\ ~early'
                      /\ \E h : /\ Stacks(h, w, c, line.locals)
                                /\ read' = 1 => h[1] = <<Script>>
                                /\ frame # NoFrame => stack = h[1]
    BY <1>2, <1>9 DEF InStep
  <2>1. ~displaced /\ ~line.failed
    BY <1>2
  <2>2. ~early /\ (frame # NoFrame => stack = Kept(locals))
    BY <1>1, <1>2, <2>1 DEF InStep
  <2>3. PICK h : Takes(h, x, 0, n) /\ h[1] = Kept(locals) /\ h[n + 1] = Kept(line.locals)
    BY <1>3, <2>1 DEF Balanced
  <2>4. Len(w) - c - 2 = n /\ Len(w) - c - 1 = n + 1
    BY <1>5, <1>8
  <2>5. Takes(h, w, c, n)
    <3>1. h \in [1..n + 1 -> Seq(Nat)] /\ \A p \in 1..n : Effect(x[0 + p], h[p], h[p + 1])
      BY <2>3 DEF Takes
    <3>2. \A p \in 1..n : 0 + p = p /\ w[c + p] = x[p]
      BY <1>8
    <3>3. \A p \in 1..n : Effect(w[c + p], h[p], h[p + 1])
      BY <3>1, <3>2
    <3>4. QED
      BY <3>1, <3>3 DEF Takes
  <2>6. Stacks(h, w, c, line.locals)
    BY <2>3, <2>4, <2>5 DEF Stacks
  <2>7. read' = 1 => h[1] = <<Script>>
    <3> SUFFICES ASSUME read' = 1 PROVE h[1] = <<Script>>
      OBVIOUS
    <3>1. locals = 0
      BY <1>1, <1>2 DEF Types, Progress
    <3>2. Kept(0) = <<Script>>
      <4>1. Kept(0) \in Seq(Nat) /\ Len(Kept(0)) = 1 /\ Kept(0)[1] = 0
        <5>1. 0 \in Nat /\ 0 \in 0..0 /\ 0 + 1 = 1
          OBVIOUS
        <5>2. QED
          BY <5>1, KeptStack
      <4>2. QED
        BY <4>1 DEF Script
    <3>3. QED
      BY <2>3, <3>1, <3>2
  <2>8. QED
    BY <1>2, <2>2, <2>3, <2>6, <2>7
<1>15. QED
  BY <1>10, <1>11, <1>12, <1>13, <1>14 DEF SessionInv

LEMMA StackCommandStep ==
  ASSUME SessionInv, StackCommand
  PROVE  SessionInv'
<1>1. Types /\ Progress /\ Ended /\ InPlace /\ InStep
  BY DEF SessionInv
<1>2. /\ phase = "prompt" /\ phase' = "undefined" /\ read' = read /\ todo' = todo
      /\ locals' = locals /\ code' = code /\ place' = place /\ capacity' = capacity
      /\ codeSize' = codeSize /\ frame' = frame /\ stack' = stack
      /\ displaced' = displaced /\ early' = early
  BY DEF StackCommand, chunk
<1>3. Types' /\ Progress' /\ Ended' /\ InPlace' /\ InStep'
  BY <1>1, <1>2 DEF Types, Progress, Ended, InPlace, InStep
<1>4. QED
  BY <1>3 DEF SessionInv

\* An instruction goes from what is to be emitted to what is emitted.
LEMMA EmitStep ==
  ASSUME ReplAssumption, SessionInv, EmitInstr
  PROVE  SessionInv'
<1>1. Types /\ Progress /\ Ended /\ InPlace /\ InStep
  BY DEF SessionInv
<1>2. /\ phase = "compile" /\ todo # <<>>
      /\ code' = Append(code, Head(todo)) /\ todo' = Tail(todo)
      /\ phase' = phase /\ read' = read /\ locals' = locals /\ codeSize' = codeSize
      /\ frame' = frame /\ stack' = stack /\ displaced' = displaced /\ early' = early
  BY DEF EmitInstr
<1>3. code \in Seq(Instruction) /\ todo \in Seq(Instruction)
  BY <1>1 DEF Types
<1>4. /\ code' \in Seq(Instruction) /\ todo' \in Seq(Instruction)
      /\ Head(todo) \in Instruction
  BY <1>2, <1>3
<1>5. Whole' = Whole
  <2>1. todo = <<Head(todo)>> \o Tail(todo)
    BY <1>2, <1>3
  <2>2. code' = code \o <<Head(todo)>>
    BY <1>2, <1>3
  <2>3. (code \o <<Head(todo)>>) \o Tail(todo) = code \o (<<Head(todo)>> \o Tail(todo))
    <3> DEFINE one == <<Head(todo)>>  rest == Tail(todo)
    <3>1. one \in Seq(Instruction) /\ rest \in Seq(Instruction)
      BY <1>2, <1>3, <1>4
    <3> HIDE DEF one, rest
    <3>2. (code \o one) \o rest = code \o (one \o rest)
      BY <1>3, <3>1
    <3>3. QED
      BY <3>2 DEF one, rest
  <2>4. QED
    BY <1>2, <2>1, <2>2, <2>3, Zenon DEF Whole
<1>6. place' \in Nat /\ capacity' \in Nat /\ place' # 0
  <2>1. Grown(capacity) \in Nat
    BY <1>1 DEF Grown, ReplAssumption, Types
  <2>2. CASE capacity < Len(code) + 1
    BY <1>1, <2>1, <2>2 DEF EmitInstr, Types, Progress
  <2>3. CASE ~(capacity < Len(code) + 1)
    <3>1. capacity # 0
      BY <1>1, <1>3, <2>3 DEF Types
    <3>2. QED
      BY <1>1, <2>3, <3>1 DEF EmitInstr, Types, Progress
  <2>4. QED
    BY <2>2, <2>3
<1>7. Types'
  BY <1>1, <1>2, <1>4, <1>6 DEF Types
<1>8. Progress'
  BY <1>1, <1>2, <1>6 DEF Progress
<1>9. Ended'
  BY <1>1, <1>2, <1>5 DEF Ended
<1>10. InPlace'
  BY <1>1, <1>2 DEF InPlace
<1>11. InStep'
  BY <1>1, <1>2, <1>5 DEF InStep
<1>12. QED
  BY <1>7, <1>8, <1>9, <1>10, <1>11 DEF SessionInv

LEMMA NothingToEmit ==
  ASSUME Types, todo = <<>>
  PROVE  Whole = code /\ Len(code) \in Nat
BY DEF Types, Whole

\* The frame of the first line is at the first instruction; that of a later one is
\* where the line begins.
LEMMA RunStep ==
  ASSUME SessionInv, Run
  PROVE  SessionInv'
<1>1. Types /\ Progress /\ Ended /\ InPlace /\ InStep
  BY DEF SessionInv
<1>2. /\ phase = "compile" /\ todo = <<>> /\ todo' = todo /\ read' = read
      /\ locals' = locals /\ code' = code /\ place' = place /\ capacity' = capacity
      /\ codeSize' = codeSize /\ displaced' = displaced /\ early' = early
      /\ \/ /\ read = 1 /\ phase' = "run" /\ stack' = <<Script>>
            /\ frame' = [place |-> place, ip |-> 1]
         \/ /\ read # 1 /\ phase' \in {"run", "undefined"}
            /\ phase' = "run" => frame.place = place
            /\ stack' = stack /\ frame' = frame
  BY DEF Run, chunk
<1>3. Whole = code /\ Whole' = code /\ Len(code) \in Nat
  <2>1. Types /\ todo = <<>>
    BY <1>1, <1>2
  <2>2. code' = code /\ todo' = todo
    BY <1>2
  <2>3. Whole' = Whole
    BY <2>2 DEF Whole
  <2>4. QED
    BY <2>1, <2>3, NothingToEmit
<1>4. /\ codeSize \in Nat /\ codeSize + 2 <= Len(code) /\ place # 0
      /\ code[Len(code) - 1].op = "PUSH" /\ code[Len(code) - 1].arg = Script
      /\ code[Len(code)].op = "RETURN"
  <2>1. codeSize \in Nat /\ codeSize + 2 <= Len(code)
    BY <1>1, <1>2, <1>3 DEF Types, Ended
  <2>2. code # <<>>
    BY <1>3, <2>1
  <2>3. QED
    BY <1>1, <1>2, <1>3, <2>1, <2>2 DEF Progress, Ended
<1>5. Types'
  BY <1>1, <1>2 DEF Types
<1>6. Progress'
  BY <1>1, <1>2 DEF Progress
<1>7. Ended'
  BY <1>2, <1>3, <1>4 DEF Ended
<1>8. CASE phase' # "run"
  <2>1. InPlace' /\ InStep'
    BY <1>1, <1>2, <1>8 DEF InPlace, InStep
  <2>2. QED
    BY <1>5, <1>6, <1>7, <2>1 DEF SessionInv
<1>9. CASE phase' = "run"
  <2>1. frame'.ip = codeSize + 1 \/ early
    <3>1. CASE read = 1
      BY <1>1, <1>2, <3>1 DEF Progress
    <3>2. CASE read # 1
      <4>1. frame # NoFrame
        BY <1>2, <1>4, <1>9, <3>2 DEF NoFrame
      <4>2. QED
        BY <1>1, <1>2, <3>2, <4>1 DEF InPlace
    <3>3. QED
      BY <3>1, <3>2
  <2>2. InPlace'
    BY <1>2, <1>3, <1>4, <1>9, <2>1 DEF InPlace
  <2>3. InStep'
    <3> SUFFICES ASSUME ~displaced
                 PROVE  /\ ~early
                        /\ \E h : /\ Stacks(h, code, codeSize, locals)
                                  /\ stack' = StackAt(h, code, codeSize, locals, frame'.ip)
      BY <1>2, <1>9 DEF InStep
    <3>1. ~early
      BY <1>1 DEF InStep
    <3>2. PICK h : /\ Stacks(h, code, codeSize, locals)
                   /\ read = 1 => h[1] = <<Script>>
                   /\ frame # NoFrame => stack = h[1]
      BY <1>1, <1>2, <1>3 DEF InStep
    <3>3. stack' = h[1]
      <4>1. CASE read = 1
        BY <1>2, <3>2, <4>1
      <4>2. CASE read # 1
        <5>1. frame # NoFrame
          BY <1>2, <1>4, <1>9, <4>2 DEF NoFrame
        <5>2. QED
          BY <1>2, <3>2, <4>2, <5>1
      <4>3. QED
        BY <4>1, <4>2
    <3>4. frame'.ip # Len(code) /\ frame'.ip - codeSize = 1
      BY <1>3, <1>4, <2>1, <3>1
    <3>5. stack' = StackAt(h, code, codeSize, locals, frame'.ip)
      BY <3>3, <3>4 DEF StackAt
    <3>6. QED
      BY <3>1, <3>2, <3>5
  <2>4. QED
    BY <1>5, <1>6, <1>7, <2>2, <2>3 DEF SessionInv
<1>10. QED
  BY <1>8, <1>9

-----------------------------------------------------------------------------
(* Running: the ip goes through the code of the line up to its last          *)
(* instruction, which returns.                                               *)

LEMMA Running ==
  ASSUME SessionInv, phase = "run"
  PROVE  /\ todo = <<>> /\ Whole = code /\ Len(code) \in Nat
         /\ codeSize \in Nat /\ codeSize + 2 <= Len(code)
         /\ code[Len(code) - 1].op = "PUSH" /\ code[Len(code) - 1].arg = Script
         /\ code[Len(code)].op = "RETURN"
         /\ frame \in [place : Nat, ip : Nat] /\ frame.ip \in Nat
         /\ read # 0
<1>1. Types /\ Progress /\ Ended
  BY DEF SessionInv
<1>2. todo = <<>> /\ read # 0
  BY <1>1 DEF Progress
<1>3. Whole = code /\ Len(code) \in Nat
  BY <1>1, <1>2, NothingToEmit
<1>4. QED
  BY <1>1, <1>2, <1>3 DEF Types, Ended

LEMMA QuietStep ==
  ASSUME SessionInv, phase = "run", Silent, phase' \in {"prompt", "run", "undefined"},
         frame' \in [place : Nat, ip : Nat], displaced' \in BOOLEAN, early' \in BOOLEAN
  PROVE  Types' /\ Progress' /\ Ended' /\ Whole' = code /\ code' = code
         /\ codeSize' = codeSize /\ locals' = locals /\ read' = read
<1>1. Types /\ Progress /\ Ended
  BY DEF SessionInv
<1>2. /\ read' = read /\ todo' = todo /\ locals' = locals /\ codeSize' = codeSize
      /\ code' = code /\ place' = place /\ capacity' = capacity
  BY DEF Silent, chunk
<1>3. todo = <<>> /\ Whole = code /\ read # 0
  BY Running
<1>4. Whole' = Whole
  BY <1>2 DEF Whole
<1>5. Types'
  BY <1>1, <1>2 DEF Types
<1>6. Progress'
  BY <1>1, <1>2, <1>3 DEF Progress
<1>7. Ended'
  BY <1>1, <1>2, <1>4 DEF Ended
<1>8. QED
  BY <1>2, <1>3, <1>4, <1>5, <1>6, <1>7

\* An instruction that does what is expected of it
LEMMA Executed ==
  ASSUME SessionInv, phase = "run", phase' = "run", Silent, StepOver,
         early' = early, displaced' \in {displaced, TRUE}, code[frame.ip].op # "RETURN",
         ~displaced' => \A after : Effect(code[frame.ip], stack, after) => stack' = after
  PROVE  SessionInv'
<1>1. Types /\ InPlace /\ InStep
  BY DEF SessionInv
<1>2. /\ Len(code) \in Nat /\ codeSize \in Nat /\ codeSize + 2 <= Len(code)
      /\ code[Len(code) - 1].op = "PUSH" /\ code[Len(code) - 1].arg = Script
      /\ code[Len(code)].op = "RETURN" /\ frame \in [place : Nat, ip : Nat]
      /\ frame.ip \in Nat
  BY Running
<1>3. frame'.ip = frame.ip + 1 /\ frame' \in [place : Nat, ip : Nat]
  BY <1>2 DEF StepOver
<1>4. /\ Types' /\ Progress' /\ Ended' /\ Whole' = code /\ code' = code
      /\ codeSize' = codeSize /\ locals' = locals
  BY <1>1, <1>3, QuietStep DEF Types
<1>5. ~early => frame.ip \in codeSize + 1..Len(code) - 1
  <2>1. ~early => frame.ip \in codeSize + 1..Len(code)
    BY <1>1 DEF InPlace
  <2>2. frame.ip # Len(code)
    BY <1>2
  <2>3. QED
    BY <1>2, <2>1, <2>2
<1>6. InPlace'
  BY <1>2, <1>3, <1>4, <1>5 DEF InPlace
<1>7. InStep'
  <2> SUFFICES ASSUME ~displaced'
               PROVE  /\ ~early
                      /\ \E h : /\ Stacks(h, code, codeSize, locals)
                                /\ stack' = StackAt(h, code, codeSize, locals, frame'.ip)
    BY <1>4 DEF InStep
  <2>1. ~early
    BY <1>1 DEF InStep
  <2>2. PICK h : /\ Stacks(h, code, codeSize, locals)
                 /\ stack = StackAt(h, code, codeSize, locals, frame.ip)
    BY <1>1 DEF InStep
  <2> DEFINE p == frame.ip - codeSize
  <2>3. /\ frame.ip \in codeSize + 1..Len(code) - 1 /\ frame.ip # Len(code)
        /\ stack = h[p]
    BY <1>2, <1>5, <2>1, <2>2 DEF StackAt
  <2>4. CASE frame.ip = Len(code) - 1
    <3>1. stack = Kept(locals)
      BY <1>2, <2>2, <2>3, <2>4 DEF Stacks
    <3>2. Effect(code[frame.ip], stack, Append(stack, Script))
      BY <1>2, <2>4 DEF Effect
    <3>3. stack' = Append(Kept(locals), Script)
      BY <3>1, <3>2
    <3>4. frame'.ip = Len(code)
      BY <1>2, <1>3, <2>4
    <3>5. stack' = StackAt(h, code, codeSize, locals, frame'.ip)
      BY <3>3, <3>4 DEF StackAt
    <3>6. QED
      BY <2>1, <2>2, <3>5
  <2>5. CASE frame.ip # Len(code) - 1
    <3>1. /\ p \in 1..Len(code) - codeSize - 2 /\ codeSize + p = frame.ip
          /\ frame'.ip # Len(code) /\ frame'.ip - codeSize = p + 1
      <4> DEFINE x == frame.ip  y == Len(code)  c == codeSize
      <4>1. x \in Nat /\ y \in Nat /\ c \in Nat /\ x \in c + 1..y - 1 /\ x # y - 1
        BY <1>2, <2>3, <2>5
      <4> HIDE DEF x, y, c
      <4>2. x - c \in 1..y - c - 2 /\ c + (x - c) = x /\ x + 1 # y /\ (x + 1) - c = (x - c) + 1
        BY <4>1
      <4>3. frame'.ip = x + 1
        BY <1>3 DEF x
      <4> USE DEF x, y, c
      <4>4. QED
        BY <4>2, <4>3
    <3>2. Effect(code[codeSize + p], h[p], h[p + 1])
      BY <2>2, <3>1 DEF Stacks, Takes
    <3>3. stack' = h[p + 1]
      BY <2>3, <3>1, <3>2
    <3>4. stack' = StackAt(h, code, codeSize, locals, frame'.ip)
      BY <3>1, <3>3 DEF StackAt
    <3>5. QED
      BY <2>1, <2>2, <3>4
  <2>6. QED
    BY <2>4, <2>5
<1>8. QED
  BY <1>4, <1>6, <1>7 DEF SessionInv

LEMMA PopStep ==
  ASSUME SessionInv, Pop
  PROVE  SessionInv'
<1>1. /\ phase = "run" /\ Silent /\ code[frame.ip].op = "POP"
      /\ displaced' = displaced /\ early' = early
  BY DEF Pop, Executing
<1>2. CASE stack = <<>>
  <2>1. phase' = "undefined" /\ frame' = frame /\ stack' = stack
    BY <1>2 DEF Pop
  <2>2. Types /\ InStep
    BY DEF SessionInv
  <2>3. Types' /\ Progress' /\ Ended'
    BY <1>1, <2>1, <2>2, QuietStep DEF Types
  <2>4. InPlace' /\ InStep'
    BY <1>1, <2>1, <2>2 DEF InPlace, InStep
  <2>5. QED
    BY <2>3, <2>4 DEF SessionInv
<1>3. CASE stack # <<>>
  <2>1. phase' = phase /\ StepOver /\ stack' = Front(stack)
    BY <1>3 DEF Pop
  <2>2. \A after : Effect(code[frame.ip], stack, after) => stack' = after
    BY <1>1, <2>1 DEF Effect
  <2>3. QED
    BY <1>1, <2>1, <2>2, Executed
<1>4. QED
  BY <1>2, <1>3

LEMMA RuntimeErrorStep ==
  ASSUME SessionInv, RuntimeError
  PROVE  SessionInv'
<1>1. /\ phase = "run" /\ Silent /\ stack' = <<>> /\ frame' = NoFrame /\ phase' = "prompt"
      /\ displaced' = displaced /\ early' = early
  BY DEF RuntimeError, Executing
<1>2. Types /\ InStep
  BY DEF SessionInv
<1>3. NoFrame \in [place : Nat, ip : Nat]
  BY DEF NoFrame
<1>4. Types' /\ Progress' /\ Ended'
  BY <1>1, <1>2, <1>3, QuietStep DEF Types
<1>5. InPlace' /\ InStep'
  BY <1>1, <1>2 DEF InPlace, InStep
<1>6. QED
  BY <1>4, <1>5 DEF SessionInv

\* The return of a line without errors is its last instruction.
LEMMA ReturnStep ==
  ASSUME SessionInv, Return
  PROVE  SessionInv'
<1>1. /\ phase = "run" /\ Silent /\ StepOver /\ code[frame.ip].op = "RETURN"
      /\ stack' = Front(stack) /\ phase' = "prompt"
      /\ early' = (early \/ frame.ip # Len(code)) /\ displaced' = displaced
  BY DEF Return, Executing, AfterReturn
<1>2. Types /\ InPlace /\ InStep
  BY DEF SessionInv
<1>3. /\ Len(code) \in Nat /\ codeSize \in Nat /\ codeSize + 2 <= Len(code)
      /\ code[Len(code) - 1].op = "PUSH" /\ frame \in [place : Nat, ip : Nat]
      /\ frame.ip \in Nat
  BY <1>1, Running
<1>4. frame'.ip = frame.ip + 1 /\ frame' \in [place : Nat, ip : Nat]
  BY <1>1, <1>3 DEF StepOver
<1>5. /\ Types' /\ Progress' /\ Ended' /\ code' = code /\ codeSize' = codeSize /\ locals' = locals
  BY <1>1, <1>2, <1>4, QuietStep DEF Types
<1>6. InPlace'
  BY <1>1, <1>4, <1>5 DEF InPlace
<1>7. InStep'
  <2> SUFFICES ASSUME ~displaced
               PROVE  ~early' /\ stack' = Kept(locals)
    BY <1>1, <1>5 DEF InStep
  <2>1. ~early
    BY <1>2 DEF InStep
  <2>2. PICK h : /\ Stacks(h, code, codeSize, locals)
                 /\ stack = StackAt(h, code, codeSize, locals, frame.ip)
    BY <1>1, <1>2 DEF InStep
  <2> DEFINE p == frame.ip - codeSize
  <2>3. frame.ip \in codeSize + 1..Len(code)
    BY <1>1, <1>2, <2>1 DEF InPlace
  <2>4. frame.ip = Len(code)
    <3> SUFFICES ASSUME frame.ip # Len(code) PROVE FALSE
      OBVIOUS
    <3>1. frame.ip # Len(code) - 1
      BY <1>1, <1>3
    <3>2. p \in 1..Len(code) - codeSize - 2 /\ codeSize + p = frame.ip
      BY <1>3, <2>3, <3>1
    <3>3. Effect(code[codeSize + p], h[p], h[p + 1])
      BY <2>2, <3>2 DEF Stacks, Takes
    <3>4. QED
      BY <1>1, <3>2, <3>3 DEF Effect
  <2>5. stack = Append(Kept(locals), Script)
    BY <2>2, <2>4 DEF StackAt
  <2>6. Front(Append(Kept(locals), Script)) = Kept(locals)
    <3>1. Kept(locals) \in Seq(Nat) /\ Script \in Nat
      BY <1>2, KeptStack DEF Types, Script
    <3>2. QED
      BY <3>1, FrontOfAppend
  <2>7. QED
    BY <1>1, <2>1, <2>4, <2>5, <2>6
<1>8. QED
  BY <1>5, <1>6, <1>7 DEF SessionInv

LEMMA SessionStep ==
  ASSUME ReplAssumption, SessionInv, [ReplNext]_replVars
  PROVE  SessionInv'
<1>1. Types /\ Progress /\ Ended /\ InPlace /\ InStep
  BY DEF SessionInv
<1>2. ASSUME NEW line \in Inputs, ReadLine(line) PROVE SessionInv'
  BY <1>2, ReadLineStep
<1>3. CASE StackCommand
  BY <1>3, StackCommandStep
<1>4. CASE EmitInstr
  BY <1>4, EmitStep
<1>5. CASE Run
  BY <1>5, RunStep
<1>6. CASE Push
  <2>1. /\ phase = "run" /\ phase' = phase /\ Silent /\ StepOver /\ code[frame.ip].op = "PUSH"
        /\ stack' = Append(stack, code[frame.ip].arg) /\ displaced' = displaced /\ early' = early
    BY <1>6 DEF Push, Executing
  <2>2. \A after : Effect(code[frame.ip], stack, after) => stack' = after
    BY <2>1 DEF Effect
  <2>3. QED
    BY <2>1, <2>2, Executed
<1>7. CASE GetLocal
  <2>1. /\ phase = "run" /\ phase' = phase /\ Silent /\ StepOver
        /\ code[frame.ip].op = "GET_LOCAL" /\ displaced' = displaced /\ early' = early
    BY <1>7 DEF GetLocal, Executing
  <2>2. \A after : Effect(code[frame.ip], stack, after) => stack' = after
    BY <1>7, <2>1 DEF Effect, GetLocal, Slot
  <2>3. QED
    BY <2>1, <2>2, Executed
<1>8. CASE SetLocal
  <2>1. /\ phase = "run" /\ phase' = phase /\ Silent /\ StepOver
        /\ code[frame.ip].op = "SET_LOCAL" /\ displaced' = displaced /\ early' = early
    BY <1>8 DEF SetLocal, Executing
  <2>2. \A after : Effect(code[frame.ip], stack, after) => stack' = after
    BY <1>8, <2>1 DEF Effect, SetLocal, Slot
  <2>3. QED
    BY <2>1, <2>2, Executed
<1>9. CASE Pop
  BY <1>9, PopStep
<1>10. CASE CallReturned
  <2>1. /\ phase = "run" /\ phase' = phase /\ Silent /\ StepOver
        /\ code[frame.ip].op = "CALL" /\ displaced' = TRUE /\ early' = early
    BY <1>10 DEF CallReturned, Executing
  <2>2. QED
    BY <2>1, Executed
<1>11. CASE RuntimeError
  BY <1>11, RuntimeErrorStep
<1>12. CASE Return
  BY <1>12, ReturnStep
<1>13. CASE UNCHANGED replVars
  <2>1. /\ phase' = phase /\ read' = read /\ todo' = todo /\ locals' = locals /\ code' = code
        /\ place' = place /\ capacity' = capacity /\ codeSize' = codeSize /\ frame' = frame
        /\ stack' = stack /\ displaced' = displaced /\ early' = early
    BY <1>13 DEF replVars, chunk
  <2>2. Whole' = Whole
    BY <2>1 DEF Whole
  <2>3. Types' /\ Progress' /\ Ended' /\ InPlace' /\ InStep'
    BY <1>1, <2>1, <2>2 DEF Types, Progress, Ended, InPlace, InStep
  <2>4. QED
    BY <2>3 DEF SessionInv
<1>14. QED
  BY <1>2, <1>3, <1>4, <1>5, <1>6, <1>7, <1>8, <1>9, <1>10, <1>11, <1>12, <1>13 DEF ReplNext

LEMMA SessionAlways == ReplSpec => []SessionInv
<1>1. SessionInv /\ [ReplNext]_replVars => SessionInv'
  BY ReplAssumption, SessionStep
<1>2. QED
  BY <1>1, SessionInit, PTL DEF ReplSpec

\* However many lines there are, and whatever is on them: a line runs its own code
\* from where it begins to where it ends, and the next one goes on behind it,
\* until a line is left by a return of its own (repl, do_return).
THEOREM LinesRunInPlace == ReplSpec => []RunsOnlyTheLine
<1>1. SessionInv => RunsOnlyTheLine
  BY DEF SessionInv, InPlace, RunsOnlyTheLine
<1>2. QED
  BY <1>1, SessionAlways, PTL

\* Between lines the stack holds each local in its slot, with its own value, however
\* the lines declare, use and assign them, until one with a syntax error is run all
\* the same or a function that was called leaves itself behind.
THEOREM LocalsKeepTheirSlots == ReplSpec => []SlotsAreLocals
<1>1. SessionInv => SlotsAreLocals
  BY DEF SessionInv, InStep, SlotsAreLocals, Kept
<1>2. QED
  BY <1>1, SessionAlways, PTL

\* The session uses the line table: each byte that a line emits is given a line, in
\* an order that starts again at 1 with every input.  So the line reported for a
\* byte is the highest of those before it in the session.
THEOREM SessionFindsHighest == ReplSpec => []HighestFound
<1>1. ReplInit => LineInit
  BY DEF ReplInit
<1>2. SessionInv /\ [ReplNext]_replVars => [\E line \in LineNumbers : Write(line)]_lineVars
  <2> SUFFICES ASSUME SessionInv, [ReplNext]_replVars
               PROVE  (\E line \in LineNumbers : Write(line)) \/ UNCHANGED lineVars
    OBVIOUS
  <2>1. CASE EmitInstr
    <3>1. todo \in Seq(Instruction) /\ todo # <<>>
      BY <2>1 DEF EmitInstr, SessionInv, Types
    <3>2. Head(todo) \in Instruction
      BY <3>1
    <3>3. Head(todo).line \in LineNumbers
      BY <3>2, ReplAssumption DEF Instruction, ReplAssumption
    <3>4. QED
      BY <2>1, <3>3 DEF EmitInstr
  <2>2. CASE ~EmitInstr
    BY <2>2 DEF ReplNext, ReadLine, StackCommand, Run, Push, GetLocal, SetLocal, Pop, CallReturned,
                RuntimeError, Return, Silent, chunk, replVars
  <2>3. QED
    BY <2>1, <2>2
<1>3. ReplSpec => AnyLineSpec
  BY <1>1, <1>2, SessionAlways, PTL DEF ReplSpec, AnyLineSpec
<1>4. QED
  BY <1>3, HighestFoundAlways, PTL

=============================================================================
