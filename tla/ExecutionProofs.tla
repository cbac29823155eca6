-------------------------- MODULE ExecutionProofs --------------------------
(***************************************************************************)
(* Two facts about every program, with any number of functions, scopes and *)
(* loops: each use of a name reaches the declaration that lexical scoping  *)
(* means, and in a program that uses break and continue in while loops     *)
(* only, and compiles no function between a break and the end of its loop, *)
(* each jump of a finished function has a target in it.                    *)
(*                                                                         *)
(* A State that Matches the compilers Agrees with them if, in a regular    *)
(* program, it also tells which jumps still wait for a target and where    *)
(* the address of each is kept.  The lemmas ...Agrees show that what a     *)
(* call does to the code is its Effect.  CompilerInv says that the agenda  *)
(* leads from a State that Agrees to the end of the script.                *)
(***************************************************************************)
EXTENDS Execution, CompilerProofs

-----------------------------------------------------------------------------
(* Jumps that are patched *)

JumpOps == {"JUMP", "JUMP_IF_FALSE", "LOOP"}

\* The programs of which JumpsPatched speaks
Regular ==
  \A c \in Range(compilers) \cup Range(functions) :
    ~c.amid /\ \A instr \in Range(c.code) : instr.meant # Stray

\* The frame of the i-th C function that keeps addresses; there is none at 0.
FrameAt(A, i) == IF i = Len(A.below) THEN FrameOf(A) ELSE A.below[i + 1]

\* The functions created so far have the ids up to this number, the function
\* at level 0 does not exist and has the id of NoPlace.
Created == Len(functions) + Len(compilers)

IdAt(k) == IF k = 0 THEN 0 ELSE compilers[k].id

Ids ==
  \A k \in 1..Len(compilers) :
    /\ compilers[k].id \in 1..Created
    /\ \A j \in 1..k - 1 : compilers[j].id < compilers[k].id

\* A place is in the code of its function, if that is still being compiled.
PlaceIn(place) ==
  /\ place.id <= Created
  /\ \A k \in 1..Len(compilers) :
       compilers[k].id = place.id => place.addr \in 1..Here(compilers[k])

\* The frames belong to functions that are still being compiled, those of the
\* inner functions last.
Nested(A) ==
  /\ A.level <= Top(A) /\ A.cont[1] <= Top(A)
  /\ \A i \in 0..Len(A.below) :
       /\ FrameAt(A, i).kept[1] <= FrameAt(A, i).level
       /\ \A j \in 0..i : FrameAt(A, j).level <= FrameAt(A, i).level

\* The C function keeps the addresses its frame says, in its own function.
FrameIn(i, frame) ==
  /\ \A name \in Addresses : PlaceIn(saved[i][name])
  /\ saved[i]["cont"].id = IdAt(frame.kept[1])
  /\ "cont" \notin frame.starts
  /\ \A name \in frame.starts : saved[i][name].id = IdAt(frame.level)

PlacesIn(A) ==
  /\ PlaceIn(continueJump) /\ continueJump.id = IdAt(A.cont[1])
  /\ \A i \in 1..Len(A.below) : FrameIn(i, FrameAt(A, i))

\* The breaks that wait are those of the function being compiled.
BreaksOwn(A) ==
  \A j \in 1..Len(breaks) :
    breaks[j].id = compilers[Top(A)].id /\ A.loop # -1 /\ breaks[j].depth > A.loop

\* A jump that is not patched waits for a C function to do it, or is a break.
WaitsFor(i, frame, k, a) ==
  frame.level = k /\ \E p \in frame.pend : saved[i][p[1]].addr = a

BreakAt(k, a) ==
  \E j \in 1..Len(breaks) : breaks[j].id = compilers[k].id /\ breaks[j].addr = a

Waits(A, k, a) ==
  BreakAt(k, a) \/ \E i \in 1..Len(A.below) : WaitsFor(i, FrameAt(A, i), k, a)

Aimed(A) ==
  \A k \in 1..Len(compilers) :
    /\ ~compilers[k].corrupt
    /\ \A a \in 1..Len(compilers[k].code) :
         compilers[k].code[a].op \in JumpOps =>
           compilers[k].code[a].arg \in 1..Here(compilers[k]) \/ Waits(A, k, a)

Finished ==
  \A f \in Range(functions) :
    /\ ~f.corrupt
    /\ \A a \in 1..Len(f.code) : f.code[a].op \in JumpOps => f.code[a].arg \in 1..Len(f.code)

Open(A) == Ids /\ Nested(A) /\ PlacesIn(A) /\ BreaksOwn(A) /\ Aimed(A)

Jumps(A) == Finished /\ (A.alive => Open(A))

Agrees(A) == Matches(A) /\ (Regular => Jumps(A))

-----------------------------------------------------------------------------
(* Steps that add to the code *)

\* What writing and patching instructions leaves of a function
Grown(c, d) ==
  /\ d.id = c.id /\ d.corrupt = c.corrupt /\ d.amid = c.amid
  /\ Len(c.code) <= Len(d.code)
  /\ \A a \in 1..Len(c.code) : d.code[a].meant = c.code[a].meant

\* The jumps that are new, or are changed, have a target.
Aims(c, d) ==
  \A a \in 1..Len(d.code) :
    d.code[a].op \in JumpOps =>
      d.code[a].arg \in 1..Here(d) \/ (a \in 1..Len(c.code) /\ d.code[a] = c.code[a])

SameCode(c, d) == d.id = c.id /\ d.corrupt = c.corrupt /\ d.amid = c.amid /\ d.code = c.code

AllGrown ==
  /\ Created <= Created'
  /\ \A k \in 1..Len(compilers') :
       IF k <= Len(compilers) THEN Grown(compilers[k], compilers'[k])
       ELSE compilers'[k].id > Created

LEMMA SameCodeGrown ==
  ASSUME NEW c \in CompilerRecord, NEW d, SameCode(c, d)
  PROVE  Grown(c, d) /\ Aims(c, d)
<1>1. Len(c.code) \in Nat
  BY DEF CompilerRecord
<1>2. QED
  BY <1>1 DEF SameCode, Grown, Aims

LEMMA GrownThen ==
  ASSUME NEW c, NEW d, NEW e, SameCode(c, d), Grown(d, e), Aims(d, e)
  PROVE  Grown(c, e) /\ Aims(c, e)
BY Zenon DEF SameCode, Grown, Aims

\* A jump that is written has a target unless it is the last instruction.
LEMMA WrittenGrown ==
  ASSUME NEW c \in CompilerRecord, NEW instr \in InstrRecord
  PROVE  /\ Grown(c, Written(c, instr))
         /\ (instr.op \in JumpOps => instr.arg \in 1..Here(c)) => Aims(c, Written(c, instr))
<1> DEFINE d == Written(c, instr)
<1>1. c.code \in Seq(InstrRecord) /\ d.code = Append(c.code, instr)
  BY WrittenType DEF CompilerRecord
<1>2. d.id = c.id /\ d.corrupt = c.corrupt /\ d.amid = c.amid
  BY DEF Written, CompilerRecord
<1>3. /\ Len(d.code) = Len(c.code) + 1 /\ Len(c.code) \in Nat
      /\ d.code[Len(c.code) + 1] = instr /\ \A i \in 1..Len(c.code) : d.code[i] = c.code[i]
  BY <1>1, AppendFacts
<1> HIDE DEF d
<1>4. Grown(c, d)
  BY <1>2, <1>3 DEF Grown
<1>5. ASSUME instr.op \in JumpOps => instr.arg \in 1..Here(c)
      PROVE  Aims(c, d)
  BY <1>3, <1>5 DEF Aims, Here
<1>6. QED
  BY <1>4, <1>5 DEF d

LEMMA PatchedGrown ==
  ASSUME NEW c \in CompilerRecord, NEW addr \in Nat, NEW clean \in BOOLEAN
  PROVE  LET d == Patched(c, addr, Here(c), clean)
         IN  /\ Grown(c, d) /\ Aims(c, d) /\ Len(d.code) = Len(c.code)
             /\ \A a \in 1..Len(c.code) :
                  IF a = addr THEN d.code[a].arg \in 1..Here(d) ELSE d.code[a] = c.code[a]
<1> DEFINE d == Patched(c, addr, Here(c), clean)
<1>1. Here(c) \in Nat \ {0} /\ Len(c.code) \in Nat /\ c.code \in Seq(InstrRecord)
      /\ Here(c) = Len(c.code) + 1
  BY DEF CompilerRecord, Here
<1>2. /\ Len(d.code) = Len(c.code)
      /\ \A i \in 1..Len(c.code) :
           IF i = addr THEN Repatched(c.code[i], d.code[i], Here(c), clean)
           ELSE d.code[i] = c.code[i]
  <2>1. \A target \in Nat :
          LET e == Patched(c, addr, target, clean)
          IN  /\ Len(e.code) = Len(c.code)
              /\ \A i \in 1..Len(c.code) :
                   IF i = addr THEN Repatched(c.code[i], e.code[i], target, clean)
                   ELSE e.code[i] = c.code[i]
    BY PatchedType
  <2>2. Here(c) \in Nat
    BY <1>1
  <2>3. QED
    BY <2>1, <2>2
<1>3. d.id = c.id /\ d.corrupt = c.corrupt /\ d.amid = c.amid
  BY DEF Patched, CompilerRecord
<1> HIDE DEF d
<1>5. \A i \in 1..Len(c.code) :
        /\ d.code[i].meant = c.code[i].meant
        /\ IF i = addr THEN d.code[i].arg = Here(c) ELSE d.code[i] = c.code[i]
  BY <1>2 DEF Repatched
<1>6. Here(d) = Here(c)
  BY <1>2 DEF Here
<1>7. Grown(c, d)
  <2>1. Len(c.code) <= Len(d.code)
    <3> DEFINE m == Len(c.code)  n == Len(d.code)
    <3>1. m \in Nat /\ n = m
      BY <1>1, <1>2, Zenon
    <3> HIDE DEF m, n
    <3>2. m <= n
      BY <3>1
    <3>3. QED
      BY <3>2 DEF m, n

  <2>2. QED
    BY <1>3, <1>5, <2>1, Zenon DEF Grown

<1>8. \A a \in 1..Len(c.code) :
        IF a = addr THEN d.code[a].arg \in 1..Here(d) ELSE d.code[a] = c.code[a]
  <2>1. Here(c) \in 1..Here(d)
    BY <1>1, <1>6
  <2>2. QED
    BY <1>5, <2>1
<1>9. Aims(c, d)
  BY <1>2, <1>8 DEF Aims
<1>10. QED
  BY <1>2, <1>7, <1>8, <1>9 DEF d

Sized ==
  /\ Len(functions) \in Nat /\ Len(compilers) \in Nat /\ Created \in Nat
  /\ Len(saved) \in Nat /\ Len(breaks) \in Nat
  /\ \A k \in 1..Len(compilers) :
       /\ compilers[k] \in CompilerRecord /\ compilers[k].id \in Nat
       /\ compilers[k].code \in Seq(InstrRecord) /\ Len(compilers[k].code) \in Nat
       /\ Here(compilers[k]) = Len(compilers[k].code) + 1
  /\ \A i \in 1..Len(saved) : \A name \in Addresses :
       /\ saved[i][name] \in PlaceRecord /\ saved[i][name].id \in Nat
       /\ saved[i][name].addr \in Nat

LEMMA Sizes == Typed => Sized
<1> SUFFICES ASSUME Typed
             PROVE  Sized
  OBVIOUS
<1>1. /\ compilers \in Seq(CompilerRecord) /\ functions \in Seq(FunctionRecord)
      /\ saved \in Seq([Addresses -> PlaceRecord]) /\ breaks \in Seq(BreakRecord)
  BY DEF Typed
<1>2. /\ Len(functions) \in Nat /\ Len(compilers) \in Nat /\ Len(saved) \in Nat
      /\ Len(breaks) \in Nat
  BY <1>1
<1>3. Created \in Nat
  BY <1>2 DEF Created
<1>4. ASSUME NEW k \in 1..Len(compilers)
      PROVE  /\ compilers[k] \in CompilerRecord /\ compilers[k].id \in Nat
             /\ compilers[k].code \in Seq(InstrRecord) /\ Len(compilers[k].code) \in Nat
             /\ Here(compilers[k]) = Len(compilers[k].code) + 1
  <2>1. compilers[k] \in CompilerRecord
    BY <1>1, ElementType, Zenon
  <2>2. compilers[k].id \in Nat /\ compilers[k].code \in Seq(InstrRecord)
    BY <2>1 DEF CompilerRecord
  <2>3. QED
    BY <2>1, <2>2 DEF Here
<1>5. ASSUME NEW i \in 1..Len(saved), NEW name \in Addresses
      PROVE  /\ saved[i][name] \in PlaceRecord /\ saved[i][name].id \in Nat
             /\ saved[i][name].addr \in Nat
  <2>1. saved[i] \in [Addresses -> PlaceRecord]
    BY <1>1, ElementType, Zenon
  <2>2. saved[i][name] \in PlaceRecord
    BY <2>1
  <2>3. QED
    BY <2>2 DEF PlaceRecord
<1>6. QED
  BY <1>2, <1>3, <1>4, <1>5 DEF Sized

LEMMA SizesAfter == Typed' => Sized'
BY Sizes, PTL

LEMMA FrameAtType ==
  ASSUME NEW A \in State
  PROVE  /\ Len(A.below) \in Nat /\ Top(A) \in Nat \ {0}
         /\ \A i \in 0..Len(A.below) : /\ FrameAt(A, i) \in Frame /\ FrameAt(A, i).level \in Nat
                                       /\ FrameAt(A, i).kept[1] \in Nat
<1>1. A.below \in Seq(Frame) /\ A.outer \in Seq(Level)
  BY DEF State
<1>2. Len(A.below) \in Nat /\ Top(A) \in Nat \ {0}
  BY <1>1 DEF Top
<1>3. FrameOf(A) \in Frame
  BY DEF State, Frame, FrameOf
<1>4. \A i \in 1..Len(A.below) : A.below[i] \in Frame
  BY <1>1
<1>5. ASSUME NEW i \in 0..Len(A.below)
      PROVE  FrameAt(A, i) \in Frame
  <2>1. i # Len(A.below) => i + 1 \in 1..Len(A.below)
    BY <1>2
  <2>2. QED
    BY <1>3, <1>4, <2>1 DEF FrameAt
<1>6. \A f \in Frame : f.level \in Nat /\ f.kept[1] \in Nat
  BY DEF Frame
<1>7. QED
  BY <1>2, <1>5, <1>6

LEMMA SameFrameAt ==
  ASSUME NEW A, NEW B, SamePlaces(A, B)
  PROVE  B.below = A.below /\ \A i : FrameAt(B, i) = FrameAt(A, i)
BY DEF SamePlaces, FrameAt, FrameOf

\* The levels of the frames are among those of the compilers.
LEMMA NestedLevels ==
  ASSUME NEW A \in State, Nested(A)
  PROVE  \A i \in 0..Len(A.below) :
           /\ FrameAt(A, i).level \in 0..A.level /\ FrameAt(A, i).kept[1] \in 0..A.level
           /\ FrameAt(A, i).level \in 0..Top(A) /\ FrameAt(A, i).kept[1] \in 0..Top(A)
<1> SUFFICES ASSUME NEW i \in 0..Len(A.below)
             PROVE  /\ FrameAt(A, i).level \in 0..A.level /\ FrameAt(A, i).kept[1] \in 0..A.level
                    /\ FrameAt(A, i).level \in 0..Top(A) /\ FrameAt(A, i).kept[1] \in 0..Top(A)
  OBVIOUS
<1> DEFINE m == Len(A.below)
<1>1. /\ m \in Nat /\ Top(A) \in Nat /\ FrameAt(A, i).level \in Nat
      /\ FrameAt(A, i).kept[1] \in Nat /\ A.level \in Nat
  BY FrameAtType DEF State
<1>2. FrameAt(A, m).level = A.level
  BY DEF FrameAt, FrameOf
<1>3. m \in 0..m
  BY <1>1
<1>4. FrameAt(A, i).level <= FrameAt(A, m).level
  BY <1>1, <1>3, Zenon DEF Nested
<1>5. FrameAt(A, i).kept[1] <= FrameAt(A, i).level /\ A.level <= Top(A)
  BY Zenon DEF Nested
<1> HIDE DEF m
<1>6. QED
  BY <1>1, <1>2, <1>4, <1>5

LEMMA GrownIds ==
  ASSUME Typed, Typed', AllGrown, Ids, Len(compilers') <= Len(compilers) + 1,
         Len(compilers') = Len(compilers) + 1 => compilers'[Len(compilers')].id <= Created'
  PROVE  /\ Ids'
         /\ \A k \in 0..Len(compilers') : k <= Len(compilers) => IdAt(k)' = IdAt(k)
<1>1. /\ Len(compilers) \in Nat /\ Len(compilers') \in Nat /\ Created \in Nat /\ Created' \in Nat
      /\ \A k \in 1..Len(compilers) : compilers[k].id \in Nat
      /\ \A k \in 1..Len(compilers') : compilers'[k].id \in Nat
  <2>1. Sized /\ Sized'
    BY Sizes, SizesAfter
  <2>2. QED
    BY <2>1 DEF Sized
<1>2. \A k \in 1..Len(compilers') :
        IF k <= Len(compilers) THEN compilers'[k].id = compilers[k].id
        ELSE compilers'[k].id > Created
  BY DEF AllGrown, Grown
<1>3. /\ \A k \in 1..Len(compilers) :
           compilers[k].id \in 1..Created /\ \A j \in 1..k - 1 : compilers[j].id < compilers[k].id
      /\ Created <= Created'
  BY DEF Ids, AllGrown
<1>4. ASSUME NEW k \in 1..Len(compilers')
      PROVE  /\ compilers'[k].id \in 1..Created'
             /\ \A j \in 1..k - 1 : compilers'[j].id < compilers'[k].id
  <2>1. CASE k <= Len(compilers)
    <3>1. k \in 1..Len(compilers)
      BY <1>1, <2>1
    <3>2. compilers'[k].id = compilers[k].id /\ compilers[k].id \in 1..Created
      BY <1>2, <1>3, <3>1, <2>1
    <3>3. ASSUME NEW j \in 1..k - 1
          PROVE  compilers'[j].id < compilers'[k].id
      <4>1. j \in 1..Len(compilers') /\ j <= Len(compilers)
        BY <1>1, <2>1
      <4>2. compilers'[j].id = compilers[j].id /\ compilers[j].id < compilers[k].id
        BY <1>2, <1>3, <3>1, <4>1
      <4>3. QED
        BY <3>2, <4>2
    <3>4. QED
      BY <1>1, <1>3, <3>2, <3>3
  <2>2. CASE ~(k <= Len(compilers))
    <3>1. k = Len(compilers') /\ Len(compilers') = Len(compilers) + 1
      BY <1>1, <2>2
    <3>2. compilers'[k].id > Created /\ compilers'[k].id <= Created'
      BY <1>2, <2>2, <3>1
    <3>3. ASSUME NEW j \in 1..k - 1
          PROVE  compilers'[j].id <= Created
      <4>1. j \in 1..Len(compilers) /\ j \in 1..Len(compilers') /\ j <= Len(compilers)
        BY <1>1, <3>1
      <4>2. compilers'[j].id = compilers[j].id /\ compilers[j].id \in 1..Created
        BY <1>2, <1>3, <4>1
      <4>3. QED
        BY <1>1, <4>2
    <3>4. ASSUME NEW j \in 1..k - 1
          PROVE  compilers'[j].id < compilers'[k].id
      <4>1. j \in 1..Len(compilers')
        BY <1>1
      <4>2. QED
        BY <1>1, <3>2, <3>3, <4>1
    <3>5. QED
      BY <1>1, <3>2, <3>4
  <2>3. QED
    BY <2>1, <2>2
<1>5. ASSUME NEW k \in 0..Len(compilers'), k <= Len(compilers)
      PROVE  IdAt(k)' = IdAt(k)
  <2>1. k # 0 => k \in 1..Len(compilers')
    BY <1>1
  <2>2. QED
    BY <1>2, <1>5, <2>1 DEF IdAt
<1>6. QED
  BY <1>4, <1>5 DEF Ids

LEMMA GrownPlaceIn ==
  ASSUME Typed, Typed', AllGrown, NEW place \in PlaceRecord, PlaceIn(place)
  PROVE  PlaceIn(place)'
<1>1. Sized /\ Sized' /\ place.id \in Nat /\ place.addr \in Nat
  BY Sizes, SizesAfter DEF PlaceRecord
<1>2. place.id <= Created' /\ place.id <= Created
  BY <1>1 DEF Sized, PlaceIn, AllGrown
<1>3. ASSUME NEW k \in 1..Len(compilers'), compilers'[k].id = place.id
      PROVE  place.addr \in 1..Here(compilers'[k])
  <2>1. k <= Len(compilers)
    <3>1. ~(k <= Len(compilers)) => compilers'[k].id > Created
      BY DEF AllGrown
    <3>2. QED
      BY <1>1, <1>2, <1>3, <3>1 DEF Sized
  <2>2. k \in 1..Len(compilers) /\ Grown(compilers[k], compilers'[k])
    BY <1>1, <2>1 DEF Sized, AllGrown
  <2>3. compilers[k].id = place.id /\ Len(compilers[k].code) <= Len(compilers'[k].code)
    BY <1>3, <2>2 DEF Grown
  <2>4. place.addr \in 1..Here(compilers[k])
    BY <2>2, <2>3 DEF PlaceIn
  <2>5. /\ Here(compilers[k]) = Len(compilers[k].code) + 1
        /\ Here(compilers'[k]) = Len(compilers'[k].code) + 1
        /\ Len(compilers[k].code) \in Nat /\ Len(compilers'[k].code) \in Nat
    BY <1>1, <2>2 DEF Sized
  <2>6. QED
    BY <1>1, <2>3, <2>4, <2>5
<1>4. QED
  BY <1>2, <1>3 DEF PlaceIn

LEMMA GrownFrameIn ==
  ASSUME Typed, Typed', AllGrown, NEW i \in 1..Len(saved), saved'[i] = saved[i],
         NEW frame \in Frame, FrameIn(i, frame),
         \A k \in {frame.level, frame.kept[1]} : IdAt(k)' = IdAt(k)
  PROVE  FrameIn(i, frame)'
<1>1. \A name \in Addresses : saved[i][name] \in PlaceRecord /\ PlaceIn(saved[i][name])
  BY Sizes DEF Sized, FrameIn
<1>2. \A name \in Addresses : PlaceIn(saved[i][name])'
  <2> SUFFICES ASSUME NEW name \in Addresses
               PROVE  PlaceIn(saved[i][name])'
    OBVIOUS
  <2>1. PICK place : place = saved[i][name]
    OBVIOUS
  <2>2. PlaceIn(place)'
    BY <1>1, <2>1, GrownPlaceIn
  <2>3. QED
    BY <2>1, <2>2
<1>3. QED
  BY <1>2 DEF FrameIn

\* The step was allowed only if the state before was Regular as well.
\* A function has no other instructions, and was begun at the same time.
Marks(c, d) ==
  /\ d.amid = c.amid /\ d.code \in Seq(InstrRecord) /\ Len(c.code) <= Len(d.code)
  /\ \A a \in 1..Len(c.code) : d.code[a].meant = c.code[a].meant

\* If the program is regular after a step, it was so before.
LEMMA RegularBefore ==
  ASSUME Typed, Range(functions) \subseteq Range(functions)', Regular',
         \A k \in 1..Len(compilers) :
           \E d \in Range(compilers)' \cup Range(functions)' : Marks(compilers[k], d)
  PROVE  Regular
<1>1. Sized
  BY Sizes
<1>2. ASSUME NEW k \in 1..Len(compilers)
      PROVE  ~compilers[k].amid /\ \A a \in 1..Len(compilers[k].code) :
                                     compilers[k].code[a].meant # Stray
  <2>1. PICK d \in Range(compilers)' \cup Range(functions)' : Marks(compilers[k], d)
    BY <1>2
  <2>2. ~d.amid /\ \A instr \in Range(d.code) : instr.meant # Stray
    BY <2>1 DEF Regular
  <2>3. ASSUME NEW a \in 1..Len(compilers[k].code)
        PROVE  compilers[k].code[a].meant # Stray
    <3>1. a \in 1..Len(d.code) /\ d.code \in Seq(InstrRecord)
      BY <1>1, <2>1 DEF Sized, Marks
    <3>2. d.code[a] \in Range(d.code)
      BY <3>1 DEF Range
    <3>3. QED
      BY <2>1, <2>2, <3>2 DEF Marks
  <2>4. QED
    BY <2>1, <2>2, <2>3 DEF Marks
<1>3. ASSUME NEW c \in Range(compilers)
      PROVE  ~c.amid /\ \A instr \in Range(c.code) : instr.meant # Stray
  <2>1. PICK k \in 1..Len(compilers) : c = compilers[k]
    BY DEF Typed, Range
  <2>2. c.code \in Seq(InstrRecord)
    BY <1>1, <2>1 DEF Sized
  <2>3. \A instr \in Range(c.code) : \E a \in 1..Len(c.code) : instr = c.code[a]
    BY <2>2 DEF Range
  <2>4. QED
    BY <1>2, <2>1, <2>3
<1>4. \A f \in Range(functions) : ~f.amid /\ \A instr \in Range(f.code) : instr.meant # Stray
  BY DEF Regular
<1>5. QED
  BY <1>3, <1>4 DEF Regular

LEMMA GrownRegular ==
  ASSUME Typed, Typed', AllGrown, Len(compilers') >= Len(compilers), functions' = functions, Regular'
  PROVE  Regular
<1>1. Sized /\ Sized'
  BY Sizes, SizesAfter
<1>2. ASSUME NEW k \in 1..Len(compilers)
      PROVE  \E d \in Range(compilers)' \cup Range(functions)' : Marks(compilers[k], d)
  <2>1. k \in 1..Len(compilers') /\ Grown(compilers[k], compilers'[k])
    BY <1>1 DEF AllGrown, Sized
  <2>2. compilers'[k] \in Range(compilers)' /\ compilers'[k].code \in Seq(InstrRecord)
    BY <1>1, <2>1 DEF Sized, Range, Typed
  <2>3. QED
    BY <2>1, <2>2 DEF Grown, Marks
<1>3. QED
  BY <1>2, RegularBefore

\* An instruction is the old one, and waits if that did; or it has a target or
\* waits for one.
StillAims(A, B, k, a) ==
  \/ compilers'[k].code[a].op \notin JumpOps
  \/ compilers'[k].code[a].arg \in 1..Here(compilers'[k])
  \/ Waits(B, k, a)'
  \/ /\ a \in 1..Len(compilers[k].code)
     /\ compilers'[k].code[a] = compilers[k].code[a]
     /\ Waits(A, k, a) => Waits(B, k, a)'

LEMMA GrownAimed ==
  ASSUME Typed, Typed', AllGrown, NEW A, NEW B, Aimed(A),
         \A k \in 1..Len(compilers') :
           IF k <= Len(compilers)
           THEN \A a \in 1..Len(compilers'[k].code) : StillAims(A, B, k, a)
           ELSE ~compilers'[k].corrupt /\ compilers'[k].code = <<>>
  PROVE  Aimed(B)'
<1>1. Sized /\ Sized'
  BY Sizes, SizesAfter
<1>2. ASSUME NEW k \in 1..Len(compilers')
      PROVE  /\ ~compilers'[k].corrupt
             /\ \A a \in 1..Len(compilers'[k].code) :
                  compilers'[k].code[a].op \in JumpOps =>
                    compilers'[k].code[a].arg \in 1..Here(compilers'[k]) \/ Waits(B, k, a)'
  <2>1. CASE k <= Len(compilers)
    <3>1. k \in 1..Len(compilers) /\ Grown(compilers[k], compilers'[k])
      BY <1>1, <2>1 DEF AllGrown, Sized
    <3>2. /\ ~compilers[k].corrupt
          /\ \A a \in 1..Len(compilers[k].code) :
               compilers[k].code[a].op \in JumpOps =>
                 compilers[k].code[a].arg \in 1..Here(compilers[k]) \/ Waits(A, k, a)
      BY <3>1 DEF Aimed
    <3>3. ASSUME NEW a \in 1..Len(compilers'[k].code), compilers'[k].code[a].op \in JumpOps,
                 a \in 1..Len(compilers[k].code), compilers'[k].code[a] = compilers[k].code[a],
                 Waits(A, k, a) => Waits(B, k, a)'
          PROVE  compilers'[k].code[a].arg \in 1..Here(compilers'[k]) \/ Waits(B, k, a)'
      <4>1. /\ Here(compilers[k]) = Len(compilers[k].code) + 1
            /\ Here(compilers'[k]) = Len(compilers'[k].code) + 1
            /\ Len(compilers[k].code) \in Nat /\ Len(compilers'[k].code) \in Nat
            /\ Len(compilers[k].code) <= Len(compilers'[k].code)
        BY <1>1, <3>1 DEF Sized, Grown
      <4>2. compilers[k].code[a].arg \in 1..Here(compilers[k]) \/ Waits(A, k, a)
        BY <3>2, <3>3
      <4>3. \A x : x \in 1..Here(compilers[k]) => x \in 1..Here(compilers'[k])
        BY <4>1
      <4>4. QED
        BY <3>3, <4>2, <4>3
    <3>4. \A a \in 1..Len(compilers'[k].code) : StillAims(A, B, k, a)
      BY <2>1
    <3>5. QED
      BY <3>1, <3>2, <3>3, <3>4 DEF StillAims, Grown
  <2>2. CASE ~(k <= Len(compilers))
    <3>1. Len(compilers'[k].code) = 0 /\ 1..0 = {}
      BY <2>2
    <3>2. QED
      BY <2>2, <3>1
  <2>3. QED
    BY <2>1, <2>2
<1>3. QED
  BY <1>2 DEF Aimed

LEMMA WaitsStill ==
  ASSUME NEW A, NEW B, SamePlaces(A, B), NEW k, NEW a, Waits(A, k, a), UNCHANGED <<saved, breaks>>,
         compilers'[k].id = compilers[k].id
  PROVE  Waits(B, k, a)'
<1>1. B.below = A.below /\ \A i : FrameAt(B, i) = FrameAt(A, i)
  BY SameFrameAt
<1>2. CASE BreakAt(k, a)
  BY <1>2 DEF BreakAt, Waits
<1>3. CASE \E i \in 1..Len(A.below) : WaitsFor(i, FrameAt(A, i), k, a)
  <2>1. PICK i \in 1..Len(A.below) : WaitsFor(i, FrameAt(A, i), k, a)
    BY <1>3
  <2>2. WaitsFor(i, FrameAt(B, i), k, a)' /\ i \in 1..Len(B.below)
    BY <1>1, <2>1 DEF WaitsFor
  <2>3. QED
    BY <2>2 DEF Waits
<1>4. QED
  BY <1>2, <1>3 DEF Waits

\* The step writes or patches instructions that have a target, or changes
\* the locals, and no place.
LEMMA GrownJumps ==
  ASSUME NEW A \in State, NEW B \in State, A.alive, Matches(A), Matches(B)', Jumps(A),
         SameOuter(A, B), SamePlaces(A, B), B.cont = A.cont, B.loop = A.loop,
         AllGrown, Len(compilers') = Len(compilers),
         \A k \in 1..Len(compilers) : Aims(compilers[k], compilers'[k]),
         UNCHANGED <<functions, saved, breaks, continueJump>>
  PROVE  Jumps(B)'
<1>1. /\ Typed /\ Typed' /\ Levels(A) /\ Frames(A) /\ Sized /\ Len(compilers) = Top(A)
      /\ Top(B) = Top(A)
  BY Sizes DEF Matches, Levels, SameOuter, Top
<1>2. /\ B.below = A.below /\ B.level = A.level /\ \A i : FrameAt(B, i) = FrameAt(A, i)
      /\ Len(saved) = Len(A.below)
  BY <1>1, SameFrameAt DEF SamePlaces, Frames
<1>3. Ids /\ Nested(A) /\ PlacesIn(A) /\ BreaksOwn(A) /\ Aimed(A) /\ Finished
  BY DEF Jumps, Open
<1>4. Ids' /\ \A k \in 0..Top(A) : IdAt(k)' = IdAt(k)
  <2>1. /\ Ids' /\ \A k \in 0..Len(compilers') : k <= Len(compilers) => IdAt(k)' = IdAt(k)
    <3>1. Len(compilers') <= Len(compilers) + 1 /\ Len(compilers') # Len(compilers) + 1
      BY <1>1 DEF Sized
    <3>2. QED
      BY <1>1, <1>3, <3>1, GrownIds
  <2>2. QED
    BY <1>1, <2>1 DEF Sized
<1>5. Nested(B)
  BY <1>1, <1>2, <1>3 DEF Nested
<1>6. PlacesIn(B)'
  <2>1. PlaceIn(continueJump)'
    <3>1. PICK place : place = continueJump
      OBVIOUS
    <3>2. place \in PlaceRecord /\ PlaceIn(place)
      BY <1>1, <1>3, <3>1 DEF Typed, PlacesIn
    <3>3. PlaceIn(place)'
      BY <1>1, <3>2, GrownPlaceIn
    <3>4. QED
      BY <3>1, <3>3
  <2>2. continueJump'.id = IdAt(B.cont[1])'
    <3>1. A.cont[1] \in 0..Top(A)
      BY <1>3, FrameAtType DEF Nested, State
    <3>2. QED
      BY <1>3, <1>4, <3>1 DEF PlacesIn
  <2>3. ASSUME NEW i \in 1..Len(A.below)
        PROVE  FrameIn(i, FrameAt(B, i))'
    <3>1. PICK frame : frame = FrameAt(A, i)
      OBVIOUS
    <3>2. frame \in Frame /\ frame.level \in 0..Top(A) /\ frame.kept[1] \in 0..Top(A)
      BY <1>3, <3>1, FrameAtType, NestedLevels
    <3>3. i \in 1..Len(saved) /\ saved'[i] = saved[i] /\ FrameIn(i, frame)
      BY <1>2, <1>3, <3>1 DEF PlacesIn
    <3>4. FrameIn(i, frame)'
      BY <1>1, <1>4, <3>2, <3>3, GrownFrameIn
    <3>5. QED
      BY <1>2, <3>1, <3>4
  <2>4. QED
    BY <1>2, <2>1, <2>2, <2>3 DEF PlacesIn
<1>7. BreaksOwn(B)'
  <2>1. compilers'[Top(A)].id = compilers[Top(A)].id
    BY <1>1, FrameAtType DEF AllGrown, Grown
  <2>2. QED
    BY <1>1, <1>3, <2>1 DEF BreaksOwn
<1>8. Aimed(B)'
  <2>1. ASSUME NEW k \in 1..Len(compilers'), NEW a \in 1..Len(compilers'[k].code)
        PROVE  StillAims(A, B, k, a)
    <3>1. k \in 1..Len(compilers) /\ Aims(compilers[k], compilers'[k])
      OBVIOUS
    <3>2. compilers'[k].id = compilers[k].id
      BY <1>1, <3>1 DEF AllGrown, Grown, Sized
    <3>3. Waits(A, k, a) => Waits(B, k, a)'
      BY <3>2, WaitsStill
    <3>4. QED
      BY <3>1, <3>3 DEF Aims, StillAims
  <2>2. \A k \in 1..Len(compilers') : k <= Len(compilers)
    BY <1>1 DEF Sized
  <2>3. QED
    BY <1>1, <1>3, <2>1, <2>2, GrownAimed
<1>9. Finished'
  BY <1>3 DEF Finished
<1>10. QED
  BY <1>4, <1>5, <1>6, <1>7, <1>8, <1>9 DEF Jumps, Open

LEMMA GrownAgrees ==
  ASSUME NEW A \in State, NEW B \in State, A.alive, Agrees(A), Matches(B)',
         SameOuter(A, B), SamePlaces(A, B), B.cont = A.cont, B.loop = A.loop,
         AllGrown, Len(compilers') = Len(compilers),
         \A k \in 1..Len(compilers) : Aims(compilers[k], compilers'[k]), OnlyCompilers
  PROVE  Agrees(B)'
<1>1. Matches(A) /\ Typed /\ Typed'
  BY DEF Agrees, Matches
<1>2. ASSUME Regular'
      PROVE  Jumps(B)'
  <2>1. Regular
    BY <1>1, <1>2, GrownRegular DEF OnlyCompilers
  <2>2. Jumps(A)
    BY <2>1 DEF Agrees
  <2>3. QED
    BY <1>1, <2>2, GrownJumps DEF OnlyCompilers
<1>3. QED
  BY <1>2 DEF Agrees

\* The code of every function stays as it is.
LEMMA SameCodeAgrees ==
  ASSUME NEW A \in State, NEW B \in State, A.alive, Agrees(A), Matches(B)', SameAround(A, B),
         Len(compilers') = Len(compilers), OnlyCompilers,
         \A k \in 1..Len(compilers) : SameCode(compilers[k], compilers'[k])
  PROVE  Agrees(B)'
<1>1. Typed /\ Sized /\ Sized'
  <2>1. Typed /\ Typed'
    BY DEF Agrees, Matches
  <2>2. QED
    BY <2>1, Sizes, SizesAfter
<1>2. \A k \in 1..Len(compilers) :
        Grown(compilers[k], compilers'[k]) /\ Aims(compilers[k], compilers'[k])
  BY <1>1, SameCodeGrown DEF Sized
<1>3. AllGrown
  <2>1. Created' = Created
    BY DEF OnlyCompilers, Created
  <2>2. QED
    BY <1>1, <1>2, <2>1 DEF AllGrown, Sized
<1>4. QED
  BY <1>2, <1>3, GrownAgrees DEF SameAround, SameScopes

LEMMA UnchangedAgrees ==
  ASSUME NEW A \in State, NEW B \in State, A.alive, Agrees(A), Matches(B)', SameAround(A, B),
         UNCHANGED unitVars
  PROVE  Agrees(B)'
<1>1. OnlyCompilers /\ \A k \in 1..Len(compilers) : SameCode(compilers[k], compilers'[k])
  BY DEF unitVars, OnlyCompilers, SameCode
<1>2. QED
  BY <1>1, SameCodeAgrees DEF unitVars

\* One instruction of the current function is written or patched, or its
\* locals change.
LEMMA CurrentAgrees ==
  ASSUME NEW A \in State, NEW B \in State, A.alive, Agrees(A), Matches(B)',
         SameOuter(A, B), SamePlaces(A, B), B.cont = A.cont, B.loop = A.loop,
         NEW c, Update(c), Grown(Current, c), Aims(Current, c), OnlyCompilers
  PROVE  Agrees(B)'
<1>1. Typed /\ Sized /\ Levels(A)
  BY Sizes DEF Agrees, Matches
<1>2. /\ Len(compilers') = Len(compilers) /\ Len(compilers) \in Nat \ {0}
      /\ \A k \in 1..Len(compilers) :
           compilers'[k] = IF k = Len(compilers) THEN c ELSE compilers[k]
  <2>1. compilers' = [compilers EXCEPT ![Len(compilers)] = c] /\ compilers \in Seq(CompilerRecord)
        /\ Len(compilers) \in Nat \ {0}
    BY <1>1, CurrentType DEF Update, Typed
  <2>2. QED
    BY <2>1
<1>3. ASSUME NEW k \in 1..Len(compilers)
      PROVE  Grown(compilers[k], compilers'[k]) /\ Aims(compilers[k], compilers'[k])
  <2>1. CASE k = Len(compilers)
    BY <1>2, <2>1 DEF Current
  <2>2. CASE k # Len(compilers)
    <3>1. compilers[k] \in CompilerRecord /\ SameCode(compilers[k], compilers[k])
      BY <1>1 DEF Sized, SameCode
    <3>2. QED
      BY <1>2, <2>2, <3>1, SameCodeGrown
  <2>3. QED
    BY <2>1, <2>2
<1>4. AllGrown
  <2>1. Created' = Created /\ Created \in Nat
    BY <1>1, <1>2 DEF OnlyCompilers, Created, Sized
  <2>2. QED
    BY <1>2, <1>3, <2>1 DEF AllGrown
<1>5. QED
  BY <1>2, <1>3, <1>4, GrownAgrees

-----------------------------------------------------------------------------
(* Steps that change the places *)

LEMMA CurrentId ==
  ASSUME NEW A \in State, A.alive, Matches(A), Ids
  PROVE  /\ Len(compilers) = Top(A) /\ Top(A) \in Nat \ {0} /\ IdAt(Top(A)) = Current.id
         /\ Current = compilers[Top(A)] /\ Current.id \in 1..Created
         /\ \A k \in 1..Len(compilers) : compilers[k].id = Current.id => k = Top(A)
         /\ \A k \in 0..Top(A) : IdAt(k) = Current.id => k = Top(A)
<1>1. Typed /\ Levels(A) /\ Sized
  BY Sizes DEF Matches
<1>2. Len(compilers) = Top(A) /\ Top(A) \in Nat \ {0} /\ Current = compilers[Top(A)]
  BY <1>1, CurrentType
<1>3. IdAt(Top(A)) = Current.id /\ Current.id \in 1..Created /\ Current.id \in Nat
  BY <1>1, <1>2 DEF IdAt, Ids, Sized
<1>4. ASSUME NEW k \in 1..Len(compilers), compilers[k].id = Current.id
      PROVE  k = Top(A)
  <2>1. Top(A) \in 1..Len(compilers)
    BY <1>2
  <2>2. \A j \in 1..Top(A) - 1 : compilers[j].id < compilers[Top(A)].id
    BY <2>1 DEF Ids
  <2>3. k \in 1..Top(A) - 1 => compilers[k].id < Current.id
    BY <1>2, <2>2
  <2>4. k \in 1..Top(A) - 1 \/ k = Top(A)
    BY <1>2
  <2>5. QED
    BY <1>3, <1>4, <2>3, <2>4
<1>5. ASSUME NEW k \in 0..Top(A), IdAt(k) = Current.id
      PROVE  k = Top(A)
  <2>1. k # 0
    BY <1>3, <1>5 DEF IdAt
  <2>2. k \in 1..Len(compilers) /\ compilers[k].id = Current.id
    BY <1>2, <1>5, <2>1 DEF IdAt
  <2>3. QED
    BY <1>4, <2>2
<1>6. QED
  BY <1>2, <1>3, <1>4, <1>5

PlacesStay(A) ==
  /\ \A k \in 0..Top(A) : IdAt(k)' = IdAt(k)
  /\ \A place \in PlaceRecord : PlaceIn(place) => PlaceIn(place)'
  /\ \A i \in 1..Len(A.below) : saved'[i] = saved[i] => FrameIn(i, FrameAt(A, i))'

LEMMA GrownPlaces ==
  ASSUME NEW A \in State, A.alive, Matches(A), Typed', Open(A),
         AllGrown, Len(compilers') = Len(compilers)
  PROVE  PlacesStay(A) /\ Ids'
<1>1. Typed /\ Levels(A) /\ Frames(A) /\ Sized /\ Len(compilers) = Top(A)
  BY Sizes DEF Matches, Levels
<1>2. Ids /\ Nested(A) /\ PlacesIn(A)
  BY DEF Open
<1>3. Ids' /\ \A k \in 0..Top(A) : IdAt(k)' = IdAt(k)
  <2>1. /\ Ids' /\ \A k \in 0..Len(compilers') : k <= Len(compilers) => IdAt(k)' = IdAt(k)
    <3>1. Len(compilers') <= Len(compilers) + 1 /\ Len(compilers') # Len(compilers) + 1
      BY <1>1 DEF Sized
    <3>2. QED
      BY <1>1, <1>2, <3>1, GrownIds
  <2>2. QED
    BY <1>1, <2>1 DEF Sized
<1>4. ASSUME NEW i \in 1..Len(A.below), saved'[i] = saved[i]
      PROVE  FrameIn(i, FrameAt(A, i))'
  <2>1. PICK frame : frame = FrameAt(A, i)
    OBVIOUS
  <2>2. frame \in Frame /\ frame.level \in 0..Top(A) /\ frame.kept[1] \in 0..Top(A)
    BY <1>2, <2>1, FrameAtType, NestedLevels
  <2>3. i \in 1..Len(saved) /\ FrameIn(i, frame)
    BY <1>1, <1>2, <2>1 DEF PlacesIn, Frames
  <2>4. FrameIn(i, frame)'
    BY <1>1, <1>3, <1>4, <2>2, <2>3, GrownFrameIn
  <2>5. QED
    BY <2>1, <2>4
<1>5. \A place \in PlaceRecord : PlaceIn(place) => PlaceIn(place)'
  BY <1>1, GrownPlaceIn
<1>6. QED
  BY <1>3, <1>4, <1>5 DEF PlacesStay

\* What is left to show of a call that changes places or writes jumps
Rearranged(A, B) ==
  /\ Nested(B) /\ PlacesIn(B)' /\ BreaksOwn(B)'
  /\ \A k \in 1..Len(compilers') : \A a \in 1..Len(compilers'[k].code) : StillAims(A, B, k, a)

LEMMA RearrangedAgrees ==
  ASSUME NEW A \in State, NEW B \in State, A.alive, Agrees(A), Matches(B)',
         AllGrown, Len(compilers') = Len(compilers), functions' = functions,
         Regular' /\ Open(A) => Rearranged(A, B)
  PROVE  Agrees(B)'
<1>1. Matches(A) /\ Typed /\ Typed' /\ Sized
  BY Sizes DEF Agrees, Matches
<1>2. ASSUME Regular'
      PROVE  Jumps(B)'
  <2>1. Regular
    BY <1>1, <1>2, GrownRegular
  <2>2. Finished /\ Open(A)
    BY <2>1 DEF Agrees, Jumps
  <2>3. Rearranged(A, B)
    BY <1>2, <2>2
  <2>4. Ids'
    BY <1>1, <2>2, GrownPlaces
  <2>5. Aimed(B)'
    <3>1. \A k \in 1..Len(compilers') : k <= Len(compilers)
      BY <1>1 DEF Sized
    <3>2. QED
      BY <1>1, <2>2, <2>3, <3>1, GrownAimed DEF Rearranged, Open
  <2>6. Finished'
    BY <2>2 DEF Finished
  <2>7. QED
    BY <2>3, <2>4, <2>5, <2>6 DEF Rearranged, Jumps, Open
<1>3. QED
  BY <1>2 DEF Agrees

\* The compilers stay as they are.
LEMMA StillGrown ==
  ASSUME Typed, UNCHANGED <<compilers, functions>>
  PROVE  AllGrown /\ Len(compilers') = Len(compilers)
<1>1. Sized
  BY Sizes
<1>2. \A k \in 1..Len(compilers) : Grown(compilers[k], compilers[k])
  BY <1>1, SameCodeGrown DEF Sized, SameCode
<1>3. Created' = Created /\ Created \in Nat
  BY <1>1 DEF Created, Sized
<1>4. QED
  BY <1>1, <1>2, <1>3 DEF AllGrown, Sized

\* An instruction of the current compiler is written or patched.
LEMMA CurrentGrown ==
  ASSUME NEW A \in State, A.alive, Matches(A), NEW c, Update(c), Grown(Current, c),
         functions' = functions
  PROVE  /\ AllGrown /\ Len(compilers') = Len(compilers)
         /\ \A k \in 1..Len(compilers) :
              compilers'[k] = IF k = Top(A) THEN c ELSE compilers[k]
<1>1. Typed /\ Sized /\ Levels(A)
  BY Sizes DEF Matches
<1>2. /\ Len(compilers') = Len(compilers) /\ Len(compilers) \in Nat \ {0} /\ Len(compilers) = Top(A)
      /\ \A k \in 1..Len(compilers) :
           compilers'[k] = IF k = Len(compilers) THEN c ELSE compilers[k]
  <2>1. compilers' = [compilers EXCEPT ![Len(compilers)] = c] /\ compilers \in Seq(CompilerRecord)
        /\ Len(compilers) \in Nat \ {0} /\ Len(compilers) = Top(A)
    BY <1>1, CurrentType DEF Update, Typed
  <2>2. QED
    BY <2>1
<1>3. ASSUME NEW k \in 1..Len(compilers)
      PROVE  Grown(compilers[k], compilers'[k])
  <2>1. CASE k = Len(compilers)
    BY <1>2, <2>1 DEF Current
  <2>2. CASE k # Len(compilers)
    <3>1. compilers[k] \in CompilerRecord /\ SameCode(compilers[k], compilers[k])
      BY <1>1 DEF Sized, SameCode
    <3>2. QED
      BY <1>2, <2>2, <3>1, SameCodeGrown
  <2>3. QED
    BY <2>1, <2>2
<1>4. AllGrown
  <2>1. Created' = Created /\ Created \in Nat
    BY <1>1, <1>2 DEF Created, Sized
  <2>2. QED
    BY <1>2, <1>3, <2>1 DEF AllGrown
<1>5. QED
  BY <1>2, <1>4

LEMMA KeepFacts ==
  ASSUME NEW A \in State, Typed, Frames(A), A.level = Top(A), NEW name \in Addresses,
         NEW place, Keep(name, place)
  PROVE  /\ Len(saved) = Len(A.below) /\ Len(saved') = Len(saved) /\ Len(A.below) \in Nat \ {0}
         /\ \A i \in 1..Len(A.below) : i # Len(A.below) => saved'[i] = saved[i]
         /\ \A x \in Addresses :
              saved'[Len(A.below)][x] = IF x = name THEN place ELSE saved[Len(A.below)][x]
<1>1. Len(saved) = Len(A.below) /\ Len(saved) \in Nat \ {0}
      /\ saved \in Seq([Addresses -> PlaceRecord])
  BY KeptType DEF Frames, Typed
<1> DEFINE m == Len(saved)  v == [saved[m] EXCEPT ![name] = place]
<1>2. saved[m] \in [Addresses -> PlaceRecord]
  BY <1>1, ElementType
<1>3. \A x \in Addresses : v[x] = IF x = name THEN place ELSE saved[m][x]
  BY <1>2
<1>4. saved' = [saved EXCEPT ![m] = v]
  BY DEF Keep
<1> HIDE DEF v
<1>5. Len(saved') = m /\ saved'[m] = v /\ \A i \in 1..m : i # m => saved'[i] = saved[i]
  BY <1>1, <1>4
<1>6. QED
  BY <1>1, <1>3, <1>5

LEMMA PlaceHere ==
  ASSUME NEW A \in State, A.alive, Matches(A), Ids
  PROVE  PlaceIn(Place(Current)) /\ Place(Current).id = Current.id /\ Place(Current) \in PlaceRecord
<1>1. Place(Current).id = Current.id /\ Place(Current).addr = Here(Current)
  BY DEF Place
<1>2. Current.id <= Created
  <2>1. Sized
    BY Sizes DEF Matches
  <2>2. QED
    BY <2>1, CurrentId DEF Sized
<1>3. Current = compilers[Top(A)] /\ Here(Current) \in 1..Here(Current)
  <2>1. Sized /\ Top(A) \in 1..Len(compilers) /\ Current = compilers[Top(A)]
    BY CurrentId, Sizes DEF Matches
  <2>2. Here(Current) = Len(Current.code) + 1 /\ Len(Current.code) \in Nat
    BY <2>1 DEF Sized
  <2>3. QED
    BY <2>1, <2>2
<1>4. ASSUME NEW k \in 1..Len(compilers), compilers[k].id = Current.id
      PROVE  Here(Current) \in 1..Here(compilers[k])
  BY <1>3, <1>4, CurrentId
<1>5. QED
  BY <1>1, <1>2, <1>4, PlaceType DEF PlaceIn

\* An address is kept in the innermost frame.
LEMMA KeptFrames ==
  ASSUME NEW A \in State, NEW B \in State, A.alive, Matches(A), Open(A), PlacesStay(A),
         A.level = Top(A), B.level = A.level, B.below = A.below,
         NEW name \in Addresses, NEW place \in PlaceRecord, Keep(name, place), PlaceIn(place),
         IF name = "cont" THEN place.id = IdAt(B.kept[1]) ELSE B.kept = A.kept,
         "cont" \notin B.starts, B.kept[1] <= A.level,
         B.starts \subseteq A.starts \cup {name}, name \in B.starts => place.id = Current.id
  PROVE  \A i \in 1..Len(B.below) : FrameIn(i, FrameAt(B, i))'
<1> DEFINE m == Len(A.below)
<1>1. Typed /\ Frames(A) /\ PlacesIn(A) /\ Ids
  BY DEF Matches, Open
<1>2. /\ m \in Nat \ {0} /\ \A i \in 1..m : i # m => saved'[i] = saved[i]
      /\ \A x \in Addresses : saved'[m][x] = IF x = name THEN place ELSE saved[m][x]
  BY <1>1, KeepFacts
<1>3. FrameIn(m, FrameOf(A)) /\ m \in 1..m
  BY <1>1, <1>2 DEF PlacesIn, FrameAt
<1>4. \A k \in 0..Top(A) : IdAt(k)' = IdAt(k)
  BY DEF PlacesStay
<1>5. B.kept[1] \in 0..Top(A) /\ B.level \in 0..Top(A) /\ IdAt(B.level) = Current.id
  <2>1. B.kept[1] \in Nat /\ Top(A) \in Nat
    BY FrameAtType DEF State
  <2>2. QED
    BY <1>1, <2>1, CurrentId
<1>6. FrameIn(m, FrameOf(B))'
  <2>1. ASSUME NEW x \in Addresses
        PROVE  PlaceIn(saved[m][x])'
    <3>1. PICK q : q = saved'[m][x]
      OBVIOUS
    <3>2. q \in PlaceRecord /\ PlaceIn(q)
      <4>1. m \in 1..Len(saved)
        BY <1>1, <1>3 DEF Frames
      <4>2. saved[m][x] \in PlaceRecord /\ PlaceIn(saved[m][x])
        BY <1>1, <1>3, <4>1, Sizes DEF Sized, FrameIn
      <4>3. QED
        BY <1>2, <3>1, <4>2
    <3>3. PlaceIn(q)'
      BY <3>2 DEF PlacesStay
    <3>4. QED
      BY <3>1, <3>3
  <2>2. saved'[m]["cont"].id = IdAt(B.kept[1])'
    <3>1. "cont" \in Addresses /\ saved[m]["cont"].id = IdAt(A.kept[1])
      BY <1>3 DEF FrameIn, FrameOf, Addresses
    <3>2. saved'[m]["cont"].id = IdAt(B.kept[1])
      BY <1>2, <3>1
    <3>3. QED
      BY <1>4, <1>5, <3>2
  <2>3. ASSUME NEW x \in B.starts
        PROVE  saved'[m][x].id = IdAt(B.level)'
    <3>1. x \in Addresses /\ (x # name => x \in A.starts)
      BY DEF State
    <3>2. x # name => saved[m][x].id = IdAt(A.level)
      BY <1>3, <3>1 DEF FrameIn, FrameOf
    <3>3. saved'[m][x].id = IdAt(B.level)
      BY <1>2, <1>5, <3>1, <3>2
    <3>4. QED
      BY <1>4, <1>5, <3>3
  <2>4. FrameOf(B).kept = B.kept /\ FrameOf(B).starts = B.starts /\ FrameOf(B).level = B.level
    BY DEF FrameOf
  <2>5. QED
    BY <2>1, <2>2, <2>3, <2>4 DEF FrameIn
<1>7. ASSUME NEW i \in 1..Len(B.below)
      PROVE  FrameIn(i, FrameAt(B, i))'
  <2>1. CASE i = m
    BY <1>6, <2>1 DEF FrameAt
  <2>2. CASE i # m
    <3>1. FrameAt(B, i) = FrameAt(A, i) /\ saved'[i] = saved[i]
      BY <1>2, <2>2 DEF FrameAt
    <3>2. FrameIn(i, FrameAt(A, i))'
      BY <3>1 DEF PlacesStay
    <3>3. QED
      BY <3>1, <3>2
  <2>3. QED
    BY <2>1, <2>2
<1>8. QED
  BY <1>7

\* The jumps that wait go on waiting.
LEMMA KeptWaits ==
  ASSUME NEW A \in State, NEW B \in State, A.alive, Matches(A), Open(A),
         A.level = Top(A), B.level = A.level, B.below = A.below,
         NEW name \in Addresses, NEW place, Keep(name, place),
         \A p \in A.pend : p[1] # name, A.pend \subseteq B.pend, breaks' = breaks,
         NEW k \in 1..Len(compilers), compilers'[k].id = compilers[k].id, NEW a, Waits(A, k, a)
  PROVE  Waits(B, k, a)'
<1> DEFINE m == Len(A.below)
<1>1. Typed /\ Frames(A)
  BY DEF Matches
<1>2. /\ m \in Nat \ {0} /\ \A i \in 1..m : i # m => saved'[i] = saved[i]
      /\ \A x \in Addresses : saved'[m][x] = IF x = name THEN place ELSE saved[m][x]
  BY <1>1, KeepFacts
<1>3. CASE BreakAt(k, a)
  BY <1>3 DEF BreakAt, Waits
<1>4. CASE \E i \in 1..m : WaitsFor(i, FrameAt(A, i), k, a)
  <2>1. PICK i \in 1..m : WaitsFor(i, FrameAt(A, i), k, a)
    BY <1>4
  <2>2. PICK p \in FrameAt(A, i).pend : saved[i][p[1]].addr = a
    BY <2>1 DEF WaitsFor
  <2>3. FrameAt(A, i).level = k
    BY <2>1 DEF WaitsFor
  <2>4. FrameAt(B, i).level = k /\ p \in FrameAt(B, i).pend /\ saved'[i][p[1]].addr = a
    <3>1. CASE i = m
      <4>1. FrameAt(A, i) = FrameOf(A) /\ FrameAt(B, i) = FrameOf(B)
        BY <3>1 DEF FrameAt
      <4>2. p \in A.pend /\ FrameOf(A).level = A.level /\ FrameOf(B).level = B.level
            /\ FrameOf(B).pend = B.pend
        BY <2>2, <4>1 DEF FrameOf
      <4>3. p[1] \in Addresses
        BY <4>2 DEF State
      <4>4. saved'[i][p[1]] = saved[i][p[1]]
        BY <1>2, <3>1, <4>2, <4>3
      <4>5. QED
        BY <2>2, <2>3, <4>1, <4>2, <4>4
    <3>2. CASE i # m
      <4>1. FrameAt(B, i) = FrameAt(A, i) /\ saved'[i] = saved[i]
        BY <1>2, <3>2 DEF FrameAt
      <4>2. QED
        BY <2>2, <2>3, <4>1
    <3>3. QED
      BY <3>1, <3>2
  <2>5. WaitsFor(i, FrameAt(B, i), k, a)'
    BY <2>4 DEF WaitsFor
  <2>6. QED
    BY <2>5 DEF Waits
<1>5. QED
  BY <1>3, <1>4 DEF Waits

LEMMA NestedAlike ==
  ASSUME NEW A \in State, NEW B \in State, Nested(A), Top(B) = Top(A), B.below = A.below,
         B.level = A.level, B.kept[1] <= A.level, B.cont[1] <= Top(A)
  PROVE  Nested(B)
<1> DEFINE m == Len(A.below)
<1>1. \A i \in 0..m : FrameAt(B, i).level = FrameAt(A, i).level
  BY DEF FrameAt, FrameOf
<1>2. \A i \in 0..m : FrameAt(B, i).kept[1] <= FrameAt(B, i).level
  <2>1. FrameAt(B, m).kept = B.kept /\ FrameAt(B, m).level = A.level
    BY DEF FrameAt, FrameOf
  <2>2. ASSUME NEW i \in 0..m, i # m
        PROVE  FrameAt(B, i) = FrameAt(A, i)
    BY <2>2 DEF FrameAt
  <2>3. QED
    BY <2>1, <2>2 DEF Nested
<1>3. QED
  BY <1>1, <1>2 DEF Nested

LEMMA EmittedGrown ==
  ASSUME NEW c \in CompilerRecord, NEW instr \in InstrRecord
  PROVE  /\ Grown(c, Written(c, instr)) /\ Len(c.code) \in Nat /\ Here(c) = Len(c.code) + 1
         /\ Len(Written(c, instr).code) = Here(c) /\ Written(c, instr).code[Here(c)] = instr
         /\ \A a \in 1..Len(c.code) : Written(c, instr).code[a] = c.code[a]
<1>1. c.code \in Seq(InstrRecord) /\ Written(c, instr).code = Append(c.code, instr)
  BY WrittenType DEF CompilerRecord
<1>2. QED
  BY <1>1, WrittenGrown, AppendFacts DEF Here

\* Each jump of the function that the call has not written goes on waiting.
LEMMA OthersAim ==
  ASSUME NEW A \in State, NEW B \in State, A.alive, Matches(A), Typed', AllGrown,
         Len(compilers') = Len(compilers), NEW c, Grown(Current, c),
         \A k \in 1..Len(compilers) : compilers'[k] = IF k = Top(A) THEN c ELSE compilers[k],
         \A k \in 1..Len(compilers) : \A a \in 1..Len(compilers[k].code) :
           k # Top(A) => (Waits(A, k, a) => Waits(B, k, a)'),
         \A a \in 1..Len(c.code) :
           \/ /\ a \in 1..Len(Current.code) /\ c.code[a] = Current.code[a]
              /\ Waits(A, Top(A), a) => Waits(B, Top(A), a)'
           \/ c.code[a].op \notin JumpOps \/ c.code[a].arg \in 1..Here(c)
           \/ Waits(B, Top(A), a)'
  PROVE  \A k \in 1..Len(compilers') : \A a \in 1..Len(compilers'[k].code) : StillAims(A, B, k, a)
<1>1. Typed /\ Levels(A) /\ Current = compilers[Top(A)]
  BY CurrentType DEF Matches
<1>2. ASSUME NEW k \in 1..Len(compilers), NEW a \in 1..Len(compilers'[k].code)
      PROVE  StillAims(A, B, k, a)
  <2>1. CASE k = Top(A)
    <3>1. compilers'[k] = c /\ compilers[k] = Current /\ a \in 1..Len(c.code)
      BY <1>1, <1>2, <2>1
    <3>2. CASE /\ a \in 1..Len(Current.code) /\ c.code[a] = Current.code[a]
               /\ Waits(A, Top(A), a) => Waits(B, Top(A), a)'
      <4>1. a \in 1..Len(compilers[k].code) /\ Waits(A, k, a) => Waits(B, k, a)'
        BY <2>1, <3>1, <3>2
      <4>2. QED
        BY <3>1, <3>2, <4>1 DEF StillAims
    <3>3. CASE \/ c.code[a].op \notin JumpOps \/ c.code[a].arg \in 1..Here(c)
               \/ Waits(B, Top(A), a)'
      BY <2>1, <3>1, <3>3 DEF StillAims
    <3>4. QED
      BY <3>1, <3>2, <3>3
  <2>2. CASE k # Top(A)
    <3>1. compilers'[k] = compilers[k] /\ a \in 1..Len(compilers[k].code)
      BY <1>2, <2>2
    <3>2. Waits(A, k, a) => Waits(B, k, a)'
      BY <2>2, <3>1
    <3>3. QED
      BY <3>1, <3>2 DEF StillAims
  <2>3. QED
    BY <2>1, <2>2
<1>3. QED
  BY <1>2

LEMMA SameBreaks ==
  ASSUME NEW A \in State, NEW B \in State, A.alive, Matches(A), BreaksOwn(A), AllGrown,
         Len(compilers') = Len(compilers), SameOuter(A, B), B.loop = A.loop, breaks' = breaks
  PROVE  BreaksOwn(B)'
<1>1. Len(compilers) = Top(A) /\ Top(A) \in Nat \ {0} /\ Top(B) = Top(A)
  BY CurrentType DEF Matches, SameOuter, Top
<1>2. compilers'[Top(A)].id = compilers[Top(A)].id
  BY <1>1 DEF AllGrown, Grown
<1>3. QED
  BY <1>1, <1>2 DEF BreaksOwn

LEMMA EmitJumpAgrees ==
  ASSUME NEW A \in State, NEW B \in State, Agrees(A), Effect(Head(agenda), A, B), EmitJump
  PROVE  Agrees(B)'
<1>1. PICK op, name : op = Arg(1) /\ name = Arg(2)
  OBVIOUS
<1> DEFINE c == Current  instr == Instruction(c, op, Unpatched)  d == Written(c, instr)
<1>2. A.alive /\ EmitJumpEffect(op, name, A, B)
  BY <1>1 DEF EmitJump, Making, Doing, Effect, Arg
<1>3. Matches(A) /\ Matches(B)' /\ Typed' /\ Typed
  BY EmitJumpMatches DEF Agrees, Matches
<1>4. c \in CompilerRecord /\ instr \in InstrRecord
  <2>1. op \in AllOps /\ Unpatched \in Int \cup Seq(UpvalueRecord)
    BY <1>2 DEF EmitJumpEffect, AllOps, Unpatched
  <2>2. QED
    BY <1>2, <1>3, <2>1, CurrentLocals, InstructionType
<1>5. Update(d) /\ Keep(name, Place(c)) /\ UNCHANGED <<functions, breaks, continueJump>>
  BY <1>1 DEF EmitJump, Emitted
<1>6. /\ Grown(c, d) /\ Len(c.code) \in Nat /\ Here(c) = Len(c.code) + 1
      /\ Len(d.code) = Here(c) /\ d.code[Here(c)] = instr
      /\ \A a \in 1..Len(c.code) : d.code[a] = c.code[a]
  BY <1>4, EmittedGrown
<1> HIDE DEF d, instr
<1>7. /\ AllGrown /\ Len(compilers') = Len(compilers)
      /\ \A k \in 1..Len(compilers) : compilers'[k] = IF k = Top(A) THEN d ELSE compilers[k]
  BY <1>2, <1>3, <1>5, <1>6, CurrentGrown
<1>8. /\ name \in Addresses \ {"cont"} /\ A.level = Top(A) /\ name \notin A.starts
      /\ \A p \in A.pend : p[1] # name
      /\ B.pend = A.pend \cup {<<name, A.temps>>} /\ Top(B) = Top(A) /\ SameOuter(A, B)
      /\ B.loop = A.loop /\ B.cont = A.cont /\ B.below = A.below /\ B.level = A.level
      /\ B.starts = A.starts /\ B.kept = A.kept
  BY <1>2 DEF EmitJumpEffect, SameOuter, SameScopes, Top
<1>9. ASSUME Open(A)
      PROVE  Rearranged(A, B)
  <2>1. Ids /\ Nested(A) /\ PlacesIn(A) /\ BreaksOwn(A) /\ Frames(A) /\ PlacesStay(A)
    BY <1>2, <1>3, <1>7, <1>9, GrownPlaces DEF Open, Matches
  <2>2. PICK place : place = Place(c)
    OBVIOUS
  <2>3. place \in PlaceRecord /\ PlaceIn(place) /\ place.id = c.id /\ place.addr = Here(c)
    BY <1>2, <1>3, <2>1, <2>2, PlaceHere DEF Place
  <2>4. "cont" \notin A.starts /\ A.kept[1] <= A.level
    <3> DEFINE m == Len(A.below)
    <3>1. m \in 0..m /\ m \in 1..m /\ FrameAt(A, m) = FrameOf(A)
      <4>1. m \in Nat \ {0}
        BY <1>3, <1>5, <1>8, <2>1, KeepFacts
      <4>2. QED
        BY <4>1 DEF FrameAt
    <3>2. FrameIn(m, FrameOf(A)) /\ FrameOf(A).kept[1] <= FrameOf(A).level
      BY <2>1, <3>1 DEF PlacesIn, Nested
    <3>3. QED
      BY <3>2 DEF FrameIn, FrameOf
  <2>5. \A i \in 1..Len(B.below) : FrameIn(i, FrameAt(B, i))'
    BY <1>2, <1>3, <1>5, <1>8, <1>9, <2>1, <2>2, <2>3, <2>4, KeptFrames
  <2>6. PlacesIn(B)'
    <3>1. continueJump \in PlaceRecord /\ PlaceIn(continueJump) /\ A.cont[1] \in 0..Top(A)
      BY <1>3, <2>1, FrameAtType DEF Typed, PlacesIn, Nested, State
    <3>2. PICK q : q = continueJump
      OBVIOUS
    <3>3. PlaceIn(q)'
      BY <2>1, <3>1, <3>2 DEF PlacesStay
    <3>4. PlaceIn(continueJump)' /\ continueJump'.id = IdAt(B.cont[1])'
      BY <1>5, <1>8, <2>1, <3>1, <3>2, <3>3 DEF PlacesStay, PlacesIn
    <3>5. QED
      BY <2>5, <3>4 DEF PlacesIn
  <2>7. Nested(B)
    BY <1>8, <2>1, <2>4, NestedAlike DEF Nested
  <2>8. BreaksOwn(B)'
    BY <1>2, <1>3, <1>5, <1>7, <1>8, <2>1, SameBreaks
  <2>9. ASSUME NEW k \in 1..Len(compilers), NEW a, Waits(A, k, a)
        PROVE  Waits(B, k, a)'
    <3>1. compilers'[k].id = compilers[k].id /\ name \in Addresses /\ A.pend \subseteq B.pend
      BY <1>7, <1>8, <1>3, Sizes DEF AllGrown, Grown, Sized
    <3>2. QED
      BY <1>2, <1>3, <1>5, <1>8, <1>9, <2>9, <3>1, KeptWaits
  <2>10. ASSUME NEW h, h = Here(c)
         PROVE  Waits(B, Top(A), h)'
    <3> DEFINE m == Len(A.below)
    <3>1. m \in Nat \ {0} /\ saved'[m][name] = Place(c)
      BY <1>3, <1>5, <1>8, <2>1, KeepFacts
    <3>2. FrameAt(B, m) = FrameOf(B) /\ m \in 1..Len(B.below)
      BY <1>8, <3>1 DEF FrameAt
    <3>3. <<name, A.temps>> \in FrameOf(B).pend /\ FrameOf(B).level = Top(A)
          /\ <<name, A.temps>>[1] = name
      BY <1>8 DEF FrameOf
    <3>4. saved'[m][name].addr = h
      BY <2>2, <2>3, <2>10, <3>1
    <3>5. WaitsFor(m, FrameAt(B, m), Top(A), h)'
      BY <3>2, <3>3, <3>4 DEF WaitsFor
    <3>6. QED
      BY <3>2, <3>5 DEF Waits
  <2>11. \A k \in 1..Len(compilers') : \A a \in 1..Len(compilers'[k].code) : StillAims(A, B, k, a)
    <3>1. ASSUME NEW a \in 1..Len(d.code)
          PROVE  \/ /\ a \in 1..Len(c.code) /\ d.code[a] = c.code[a]
                    /\ Waits(A, Top(A), a) => Waits(B, Top(A), a)'
                 \/ Waits(B, Top(A), a)'
      <4>1. a \in 1..Len(c.code) \/ a = Here(c)
        BY <1>6
      <4>2. Top(A) \in 1..Len(compilers)
        BY <1>2, <1>3, <2>1, CurrentId
      <4>3. Waits(A, Top(A), a) => Waits(B, Top(A), a)'
        BY <2>9, <4>2
      <4>4. QED
        BY <1>6, <2>10, <4>1, <4>3
    <3>2. QED
      BY <1>2, <1>3, <1>6, <1>7, <2>9, <3>1, OthersAim
  <2>12. QED
    BY <2>6, <2>7, <2>8, <2>11 DEF Rearranged
<1>10. QED
  BY <1>2, <1>3, <1>5, <1>7, <1>9, RearrangedAgrees

LEMMA Innermost ==
  ASSUME NEW A \in State, A.alive, Matches(A), Open(A), A.level = Top(A)
  PROVE  /\ Len(A.below) \in Nat \ {0} /\ Len(saved) = Len(A.below)
         /\ FrameIn(Len(A.below), FrameOf(A)) /\ A.kept[1] <= A.level
         /\ "cont" \notin A.starts /\ saved[Len(A.below)]["cont"].id = IdAt(A.kept[1])
         /\ \A x \in Addresses : Kept(x) = saved[Len(A.below)][x] /\ PlaceIn(Kept(x))
         /\ \A x \in A.starts : saved[Len(A.below)][x].id = Current.id
<1> DEFINE m == Len(A.below)
<1>1. Typed /\ Frames(A) /\ Nested(A) /\ PlacesIn(A) /\ Ids
  BY DEF Matches, Open
<1>2. m \in Nat \ {0} /\ Len(saved) = m
  <2>1. "cont" \in Addresses
    BY DEF Addresses
  <2>2. QED
    BY <1>1, <2>1, KeptType DEF Frames
<1>3. m \in 0..m /\ m \in 1..m /\ FrameAt(A, m) = FrameOf(A)
  BY <1>2 DEF FrameAt
<1>4. FrameIn(m, FrameOf(A)) /\ FrameOf(A).kept[1] <= FrameOf(A).level
  BY <1>1, <1>3 DEF PlacesIn, Nested
<1>5. IdAt(A.level) = Current.id
  BY <1>1, CurrentId
<1>6. QED
  BY <1>2, <1>4, <1>5 DEF FrameIn, FrameOf, Kept

LEMMA ContinueStays ==
  ASSUME NEW A \in State, NEW B \in State, A.alive, Matches(A), Open(A), PlacesStay(A),
         B.cont = A.cont, continueJump' = continueJump
  PROVE  PlaceIn(continueJump)' /\ continueJump'.id = IdAt(B.cont[1])'
<1>1. continueJump \in PlaceRecord /\ PlaceIn(continueJump) /\ A.cont[1] \in 0..Top(A)
      /\ continueJump.id = IdAt(A.cont[1])
  <2>1. Typed /\ PlacesIn(A) /\ Nested(A)
    BY DEF Matches, Open
  <2>2. QED
    BY <2>1, FrameAtType DEF Typed, PlacesIn, Nested, State
<1>2. PICK q : q = continueJump
  OBVIOUS
<1>3. PlaceIn(q)'
  BY <1>1, <1>2 DEF PlacesStay
<1>4. QED
  BY <1>1, <1>2, <1>3 DEF PlacesStay

\* The compilers stay as they are, and the jumps that wait go on waiting.
LEMMA StillAiming ==
  ASSUME NEW A \in State, NEW B \in State, Typed, UNCHANGED compilers,
         \A k \in 1..Len(compilers) : \A a \in 1..Len(compilers[k].code) :
           Waits(A, k, a) => Waits(B, k, a)'
  PROVE  \A k \in 1..Len(compilers') : \A a \in 1..Len(compilers'[k].code) : StillAims(A, B, k, a)
BY DEF StillAims

LEMMA LoopStartAgrees ==
  ASSUME NEW A \in State, NEW B \in State, Agrees(A), Effect(Head(agenda), A, B), LoopStart
  PROVE  Agrees(B)'
<1>1. PICK name, place : name = Arg(1) /\ place = Place(Current)
  OBVIOUS
<1>2. A.alive /\ LoopStartEffect(name, A, B)
  BY <1>1 DEF LoopStart, Making, Doing, Effect, Arg
<1>3. Matches(A) /\ Matches(B)' /\ Typed' /\ Typed
  BY LoopStartMatches DEF Agrees, Matches
<1>4. Keep(name, place) /\ UNCHANGED <<compilers, functions, breaks, continueJump>>
  BY <1>1 DEF LoopStart
<1>5. AllGrown /\ Len(compilers') = Len(compilers)
  BY <1>3, <1>4, StillGrown
<1>6. /\ name \in Addresses \ {"cont"} /\ A.level = Top(A) /\ \A p \in A.pend : p[1] # name
      /\ B.pend = A.pend /\ Top(B) = Top(A) /\ SameOuter(A, B)
      /\ B.loop = A.loop /\ B.cont = A.cont /\ B.below = A.below /\ B.level = A.level
      /\ B.starts = A.starts \cup {name} /\ B.kept = A.kept
  BY <1>2 DEF LoopStartEffect, SameOuter, SameScopes, Top
<1>7. ASSUME Open(A)
      PROVE  Rearranged(A, B)
  <2>1. Ids /\ Nested(A) /\ BreaksOwn(A) /\ PlacesStay(A)
    BY <1>2, <1>3, <1>5, <1>7, GrownPlaces DEF Open
  <2>2. place \in PlaceRecord /\ PlaceIn(place) /\ place.id = Current.id
    BY <1>1, <1>2, <1>3, <2>1, PlaceHere
  <2>3. "cont" \notin A.starts /\ A.kept[1] <= A.level
    BY <1>2, <1>3, <1>6, <1>7, Innermost
  <2>4. \A i \in 1..Len(B.below) : FrameIn(i, FrameAt(B, i))'
    BY <1>2, <1>3, <1>4, <1>6, <1>7, <2>1, <2>2, <2>3, KeptFrames
  <2>5. PlacesIn(B)'
    BY <1>2, <1>3, <1>4, <1>6, <1>7, <2>1, <2>4, ContinueStays DEF PlacesIn
  <2>6. Nested(B)
    BY <1>6, <2>1, <2>3, NestedAlike DEF Nested
  <2>7. BreaksOwn(B)'
    BY <1>2, <1>3, <1>4, <1>5, <1>6, <2>1, SameBreaks
  <2>8. ASSUME NEW k \in 1..Len(compilers), NEW a, Waits(A, k, a)
        PROVE  Waits(B, k, a)'
    <3>1. compilers'[k].id = compilers[k].id /\ name \in Addresses /\ A.pend \subseteq B.pend
      BY <1>4, <1>6
    <3>2. QED
      BY <1>2, <1>3, <1>4, <1>6, <1>7, <2>8, <3>1, KeptWaits
  <2>9. QED
    BY <1>3, <1>4, <2>5, <2>6, <2>7, <2>8, StillAiming DEF Rearranged
<1>8. QED
  BY <1>2, <1>3, <1>4, <1>5, <1>7, RearrangedAgrees

LEMMA EnterLoopAgrees ==
  ASSUME NEW A \in State, NEW B \in State, Agrees(A), Effect(Head(agenda), A, B), EnterLoop
  PROVE  Agrees(B)'
<1>1. PICK place, start : place = continueJump /\ start = Kept("loop_start")
  OBVIOUS
<1>2. A.alive /\ EnterLoopEffect(A, B)
  BY DEF EnterLoop, Making, Doing, Effect
<1>3. Matches(A) /\ Matches(B)' /\ Typed' /\ Typed
  BY EnterLoopMatches DEF Agrees, Matches
<1>4. Keep("cont", place) /\ continueJump' = start /\ UNCHANGED <<compilers, functions, breaks>>
  BY <1>1 DEF EnterLoop
<1>5. AllGrown /\ Len(compilers') = Len(compilers)
  BY <1>3, <1>4, StillGrown
<1>6. /\ A.level = Top(A) /\ \A p \in A.pend : p[1] # "cont"
      /\ "loop_start" \in A.starts
      /\ B.pend = A.pend /\ Top(B) = Top(A) /\ SameOuter(A, B)
      /\ B.loop = IF A.loop = -1 THEN A.depth ELSE A.loop
      /\ B.below = A.below /\ B.level = A.level /\ B.starts = A.starts
      /\ B.kept = A.cont /\ B.cont[1] = Top(A)
  BY <1>2 DEF EnterLoopEffect, SameOuter, Top
<1>7. ASSUME Open(A)
      PROVE  Rearranged(A, B)
  <2>1. Ids /\ Nested(A) /\ BreaksOwn(A) /\ PlacesIn(A) /\ PlacesStay(A)
    BY <1>2, <1>3, <1>5, <1>7, GrownPlaces DEF Open
  <2>2. place \in PlaceRecord /\ PlaceIn(place) /\ place.id = IdAt(A.cont[1])
    BY <1>1, <1>3, <2>1 DEF PlacesIn, Typed
  <2>3. "cont" \notin A.starts /\ "cont" \in Addresses /\ A.cont[1] <= A.level
    BY <1>2, <1>3, <1>6, <1>7, <2>1, Innermost DEF Nested, Addresses
  <2>4. \A i \in 1..Len(B.below) : FrameIn(i, FrameAt(B, i))'
    <3>1. B.starts \subseteq A.starts \cup {"cont"} /\ B.kept[1] <= A.level
          /\ "cont" \notin B.starts /\ place.id = IdAt(B.kept[1])
      BY <1>6, <2>2, <2>3
    <3>2. QED
      BY <1>2, <1>3, <1>4, <1>6, <1>7, <2>1, <2>2, <2>3, <3>1, KeptFrames
  <2>5. PlacesIn(B)'
    <3>1. "loop_start" \in Addresses
      BY DEF Addresses
    <3>2. start \in PlaceRecord /\ PlaceIn(start) /\ start.id = Current.id
      BY <1>1, <1>2, <1>3, <1>6, <1>7, <3>1, Innermost, KeptType DEF Matches
    <3>3. PlaceIn(start)'
      BY <2>1, <3>2 DEF PlacesStay
    <3>4. start.id = IdAt(Top(A))' /\ Top(A) \in 0..Top(A)
      BY <1>2, <1>3, <2>1, <3>2, CurrentId DEF PlacesStay
    <3>5. QED
      BY <1>4, <1>6, <2>4, <3>3, <3>4 DEF PlacesIn
  <2>6. Nested(B)
    <3>1. Top(A) <= Top(A)
      BY FrameAtType
    <3>2. QED
      BY <1>6, <2>1, <2>3, <3>1, NestedAlike
  <2>7. BreaksOwn(B)'
    <3>1. Top(B) = Top(A) /\ compilers' = compilers /\ breaks' = breaks
      BY <1>4, <1>6
    <3>2. A.loop = -1 => Len(breaks) = 0
      <4>1. Len(breaks) \in Nat
        BY <1>3, Sizes DEF Sized
      <4>2. A.loop = -1 => \A j \in 1..Len(breaks) : FALSE
        BY <2>1 DEF BreaksOwn
      <4>3. QED
        BY <4>1, <4>2
    <3>3. A.loop # -1 => B.loop = A.loop
      BY <1>6
    <3>4. Len(breaks) = 0 => 1..Len(breaks) = {}
      OBVIOUS
    <3>5. QED
      BY <2>1, <3>1, <3>2, <3>3, <3>4 DEF BreaksOwn
  <2>8. ASSUME NEW k \in 1..Len(compilers), NEW a, Waits(A, k, a)
        PROVE  Waits(B, k, a)'
    <3>1. compilers'[k].id = compilers[k].id /\ A.pend \subseteq B.pend
      BY <1>4, <1>6
    <3>2. QED
      BY <1>2, <1>3, <1>4, <1>6, <1>7, <2>3, <2>8, <3>1, KeptWaits
  <2>9. QED
    BY <1>3, <1>4, <2>5, <2>6, <2>7, <2>8, StillAiming DEF Rearranged
<1>8. QED
  BY <1>2, <1>3, <1>4, <1>5, <1>7, RearrangedAgrees

LEMMA SameFramesIn ==
  ASSUME NEW A \in State, NEW B \in State, PlacesStay(A), SamePlaces(A, B), saved' = saved
  PROVE  \A i \in 1..Len(B.below) : FrameIn(i, FrameAt(B, i))'
BY SameFrameAt DEF PlacesStay

LEMMA LeaveLoopAgrees ==
  ASSUME NEW A \in State, NEW B \in State, Agrees(A), Effect(Head(agenda), A, B), LeaveLoop
  PROVE  Agrees(B)'
<1>1. PICK place : place = Kept("cont")
  OBVIOUS
<1>2. A.alive /\ LeaveLoopEffect(A, B)
  BY DEF LeaveLoop, Making, Doing, Effect
<1>3. Matches(A) /\ Matches(B)' /\ Typed' /\ Typed
  BY LeaveLoopMatches DEF Agrees, Matches
<1>4. continueJump' = place /\ UNCHANGED <<compilers, functions, saved, breaks>>
  BY <1>1 DEF LeaveLoop
<1>5. AllGrown /\ Len(compilers') = Len(compilers)
  BY <1>3, <1>4, StillGrown
<1>6. /\ A.level = Top(A) /\ SamePlaces(A, B) /\ Top(B) = Top(A) /\ SameOuter(A, B)
      /\ B.loop = A.loop /\ B.cont = A.kept /\ A.kept[1] <= Top(A)
      /\ B.below = A.below /\ B.level = A.level /\ B.kept = A.kept
  BY <1>2 DEF LeaveLoopEffect, SameOuter, SameScopes, SamePlaces, Top
<1>7. ASSUME Open(A)
      PROVE  Rearranged(A, B)
  <2>1. Nested(A) /\ BreaksOwn(A) /\ PlacesStay(A)
    BY <1>2, <1>3, <1>5, <1>7, GrownPlaces DEF Open
  <2>2. \A i \in 1..Len(B.below) : FrameIn(i, FrameAt(B, i))'
    BY <1>4, <1>6, <2>1, SameFramesIn
  <2>3. PlacesIn(B)'
    <3>1. "cont" \in Addresses
      BY DEF Addresses
    <3>2. place \in PlaceRecord /\ PlaceIn(place) /\ place.id = IdAt(A.kept[1])
      BY <1>1, <1>2, <1>3, <1>6, <1>7, <3>1, Innermost, KeptType DEF Matches
    <3>3. PlaceIn(place)'
      BY <2>1, <3>2 DEF PlacesStay
    <3>4. place.id = IdAt(A.kept[1])'
      <4>1. A.kept[1] \in 0..Top(A)
        BY <1>6, FrameAtType DEF State
      <4>2. QED
        BY <2>1, <3>2, <4>1 DEF PlacesStay
    <3>5. QED
      BY <1>4, <1>6, <2>2, <3>3, <3>4 DEF PlacesIn
  <2>4. Nested(B)
    <3>1. A.kept[1] <= A.level
      BY <1>2, <1>3, <1>6, <1>7, Innermost
    <3>2. QED
      BY <1>6, <2>1, <3>1, NestedAlike
  <2>5. BreaksOwn(B)'
    BY <1>2, <1>3, <1>4, <1>5, <1>6, <2>1, SameBreaks
  <2>6. ASSUME NEW k \in 1..Len(compilers), NEW a, Waits(A, k, a)
        PROVE  Waits(B, k, a)'
    BY <1>4, <1>6, <2>6, WaitsStill
  <2>7. QED
    BY <1>3, <1>4, <2>3, <2>4, <2>5, <2>6, StillAiming DEF Rearranged
<1>8. QED
  BY <1>2, <1>3, <1>4, <1>5, <1>7, RearrangedAgrees

LEMMA PatchJumpAgrees ==
  ASSUME NEW A \in State, NEW B \in State, Agrees(A), Effect(Head(agenda), A, B), PatchJump
  PROVE  Agrees(B)'
<1>1. PICK name, jump, clean :
        name = Arg(1) /\ jump = Kept(name) /\ clean = (jump.locals = Len(Current.locals))
  OBVIOUS
<1> DEFINE c == Current  d == Patched(c, jump.addr, Here(c), clean)
<1>2. A.alive /\ PatchJumpEffect(name, A, B)
  BY <1>1 DEF PatchJump, Making, Doing, Effect, Arg
<1>3. Matches(A) /\ Matches(B)' /\ Typed' /\ Typed /\ Frames(A) /\ c \in CompilerRecord
  BY <1>2, PatchJumpMatches, CurrentLocals DEF Agrees, Matches
<1>4. name \in Addresses /\ A.level = Top(A)
  <2>1. A.pend \in SUBSET (Addresses \X Nat) /\ <<name, A.temps>> \in A.pend
    BY <1>2 DEF State, PatchJumpEffect
  <2>2. QED
    BY <1>2, <2>1 DEF PatchJumpEffect
<1>5. jump.addr \in Nat /\ clean \in BOOLEAN
  BY <1>1, <1>3, <1>4, KeptType DEF PlaceRecord
<1>6. Update(d) /\ UNCHANGED <<functions, saved, breaks, continueJump>>
  <2>1. LET e == Current  j == Kept(Arg(1))
        IN  Update(Patched(e, j.addr, JumpTarget(e), j.locals = Len(e.locals))) /\ OnlyCompilers
    BY DEF PatchJump
  <2>2. QED
    BY <1>1, <2>1 DEF JumpTarget, OnlyCompilers
<1>7. /\ Grown(c, d) /\ Len(d.code) = Len(c.code)
      /\ \A a \in 1..Len(c.code) :
           IF a = jump.addr THEN d.code[a].arg \in 1..Here(d) ELSE d.code[a] = c.code[a]
  BY <1>3, <1>5, PatchedGrown
<1> HIDE DEF d
<1>8. /\ AllGrown /\ Len(compilers') = Len(compilers)
      /\ \A k \in 1..Len(compilers) : compilers'[k] = IF k = Top(A) THEN d ELSE compilers[k]
  BY <1>2, <1>3, <1>6, <1>7, CurrentGrown
<1>9. /\ B.pend = A.pend \ {<<name, A.temps>>} /\ Top(B) = Top(A) /\ SameOuter(A, B)
      /\ B.loop = A.loop /\ B.cont = A.cont /\ B.below = A.below /\ B.level = A.level
      /\ B.starts = A.starts /\ B.kept = A.kept
  BY <1>2 DEF PatchJumpEffect, SameOuter, SameScopes, Top
<1>10. ASSUME Open(A)
       PROVE  Rearranged(A, B)
  <2> DEFINE m == Len(A.below)
  <2>1. Ids /\ Nested(A) /\ BreaksOwn(A) /\ PlacesStay(A)
    BY <1>2, <1>3, <1>8, <1>10, GrownPlaces DEF Open
  <2>2. /\ m \in Nat \ {0} /\ A.kept[1] <= A.level /\ jump = saved[m][name]
        /\ Top(A) \in 1..Len(compilers) /\ Current = compilers[Top(A)]
    BY <1>1, <1>2, <1>3, <1>4, <1>10, <2>1, Innermost, CurrentId
  <2>3. \A i \in 1..m : IF i = m THEN FrameAt(A, i) = FrameOf(A) /\ FrameAt(B, i) = FrameOf(B)
                        ELSE FrameAt(B, i) = FrameAt(A, i)
    BY <1>9 DEF FrameAt
  <2>4. ASSUME NEW i \in 1..Len(B.below)
        PROVE  FrameIn(i, FrameAt(B, i))'
    <3>1. FrameIn(i, FrameAt(A, i))' /\ i \in 1..m
      BY <1>6, <1>9, <2>1 DEF PlacesStay
    <3>2. CASE i = m
      <4>1. FrameIn(i, FrameOf(A))'
        BY <2>3, <3>1, <3>2
      <4>2. FrameIn(i, FrameOf(B))'
        BY <1>9, <4>1 DEF FrameIn, FrameOf
      <4>3. QED
        BY <2>3, <3>1, <3>2, <4>2
    <3>3. CASE i # m
      BY <2>3, <3>1, <3>3
    <3>4. QED
      BY <3>2, <3>3
  <2>5. PlacesIn(B)'
    BY <1>2, <1>3, <1>6, <1>9, <1>10, <2>1, <2>4, ContinueStays DEF PlacesIn
  <2>6. Nested(B)
    BY <1>9, <2>1, <2>2, NestedAlike DEF Nested
  <2>7. BreaksOwn(B)'
    BY <1>2, <1>3, <1>6, <1>8, <1>9, <2>1, SameBreaks
  <2>8. ASSUME NEW k \in 1..Len(compilers), NEW a, Waits(A, k, a), k # Top(A) \/ a # jump.addr
        PROVE  Waits(B, k, a)'
    <3>1. CASE BreakAt(k, a)
      <4>1. compilers'[k].id = compilers[k].id
        BY <1>3, <1>8, Sizes DEF AllGrown, Grown, Sized
      <4>2. QED
        BY <1>6, <3>1, <4>1 DEF BreakAt, Waits
    <3>2. CASE \E i \in 1..m : WaitsFor(i, FrameAt(A, i), k, a)
      <4>1. PICK i \in 1..m : WaitsFor(i, FrameAt(A, i), k, a)
        BY <3>2
      <4>2. WaitsFor(i, FrameAt(B, i), k, a)'
        <5>1. CASE i = m
          <6>1. PICK p \in A.pend : saved[m][p[1]].addr = a
            BY <2>3, <4>1, <5>1 DEF WaitsFor, FrameOf
          <6>2. A.level = k
            BY <2>3, <4>1, <5>1 DEF WaitsFor, FrameOf
          <6>3. p # <<name, A.temps>>
            <7>1. <<name, A.temps>>[1] = name
              OBVIOUS
            <7>2. QED
              BY <1>4, <2>2, <2>8, <6>1, <6>2, <7>1
          <6>4. FrameOf(B).level = k /\ p \in FrameOf(B).pend
            BY <1>9, <6>1, <6>2, <6>3 DEF FrameOf
          <6>5. QED
            BY <1>6, <2>3, <5>1, <6>1, <6>4 DEF WaitsFor
        <5>2. CASE i # m
          BY <1>6, <2>3, <4>1, <5>2 DEF WaitsFor
        <5>3. QED
          BY <5>1, <5>2
      <4>3. QED
        BY <1>9, <4>1, <4>2 DEF Waits
    <3>3. QED
      BY <2>8, <3>1, <3>2 DEF Waits
  <2>9. \A k \in 1..Len(compilers') : \A a \in 1..Len(compilers'[k].code) : StillAims(A, B, k, a)
    <3>1. ASSUME NEW a \in 1..Len(d.code)
          PROVE  \/ /\ a \in 1..Len(c.code) /\ d.code[a] = c.code[a]
                    /\ Waits(A, Top(A), a) => Waits(B, Top(A), a)'
                 \/ d.code[a].arg \in 1..Here(d)
      <4>1. a \in 1..Len(c.code)
        BY <1>7
      <4>2. a # jump.addr => (Waits(A, Top(A), a) => Waits(B, Top(A), a)')
        BY <2>2, <2>8
      <4>3. QED
        BY <1>7, <4>1, <4>2
    <3>2. QED
      BY <1>2, <1>3, <1>7, <1>8, <2>8, <3>1, OthersAim
  <2>10. QED
    BY <2>5, <2>6, <2>7, <2>9 DEF Rearranged
<1>11. QED
  BY <1>2, <1>3, <1>6, <1>8, <1>10, RearrangedAgrees

\* The frames of a call that begins, and of one that returns
LEMMA EnterFrames ==
  ASSUME NEW A \in State, NEW B \in State, EnterEffect(A, B)
  PROVE  /\ Len(A.below) \in Nat /\ Len(B.below) = Len(A.below) + 1
         /\ \A i \in 0..Len(A.below) : FrameAt(B, i) = FrameAt(A, i)
         /\ FrameAt(B, Len(A.below) + 1) = FrameOf(B)
<1> DEFINE m == Len(A.below)
<1>1. A.below \in Seq(Frame) /\ FrameOf(A) \in Frame /\ B.below = Append(A.below, FrameOf(A))
  BY DEF State, Frame, FrameOf, EnterEffect
<1>2. m \in Nat /\ Len(B.below) = m + 1 /\ B.below[m + 1] = FrameOf(A)
      /\ \A i \in 1..m : B.below[i] = A.below[i]
  BY <1>1, AppendFacts
<1>3. ASSUME NEW i \in 0..m
      PROVE  FrameAt(B, i) = FrameAt(A, i)
  <2>1. i # m + 1 /\ FrameAt(B, i) = B.below[i + 1]
    BY <1>2 DEF FrameAt
  <2>2. CASE i = m
    BY <1>2, <2>1, <2>2 DEF FrameAt
  <2>3. CASE i # m
    <3>1. i + 1 \in 1..m
      BY <1>2, <2>3
    <3>2. QED
      BY <1>2, <2>1, <2>3, <3>1 DEF FrameAt
  <2>4. QED
    BY <2>2, <2>3
<1>4. QED
  BY <1>2, <1>3 DEF FrameAt

LEMMA LeaveFrames ==
  ASSUME NEW A \in State, NEW B \in State, LeaveEffect(A, B)
  PROVE  /\ Len(A.below) \in Nat \ {0} /\ Len(B.below) = Len(A.below) - 1
         /\ \A i \in 0..Len(A.below) - 1 : FrameAt(B, i) = FrameAt(A, i)
         /\ FrameAt(A, Len(A.below)) = FrameOf(A)
<1> DEFINE m == Len(A.below)
<1>1. A.below \in Seq(Frame) /\ A.below # <<>> /\ B.below = Front(A.below)
      /\ FrameOf(B) = Last(A.below)
  BY DEF State, LeaveEffect
<1>2. /\ m \in Nat \ {0} /\ Len(B.below) = m - 1 /\ FrameOf(B) = A.below[m]
      /\ \A i \in 1..m - 1 : B.below[i] = A.below[i]
  BY <1>1, FrontFacts
<1>3. ASSUME NEW i \in 0..m - 1
      PROVE  FrameAt(B, i) = FrameAt(A, i)
  <2>1. i # m /\ FrameAt(A, i) = A.below[i + 1]
    BY <1>2 DEF FrameAt
  <2>2. CASE i = m - 1
    BY <1>2, <2>1, <2>2 DEF FrameAt
  <2>3. CASE i # m - 1
    <3>1. i + 1 \in 1..m - 1
      BY <1>2, <2>3
    <3>2. QED
      BY <1>2, <2>1, <2>3, <3>1 DEF FrameAt
  <2>4. QED
    BY <2>2, <2>3
<1>4. QED
  BY <1>2, <1>3 DEF FrameAt

LEMMA EnterAgrees ==
  ASSUME NEW A \in State, NEW B \in State, Agrees(A), Effect(Head(agenda), A, B), EnterCall
  PROVE  Agrees(B)'
<1> DEFINE m == Len(A.below)
<1>1. A.alive /\ EnterEffect(A, B)
  BY DEF EnterCall, Making, Doing, Effect
<1>2. Matches(A) /\ Matches(B)' /\ Typed' /\ Typed /\ Frames(A)
  BY EnterMatches DEF Agrees, Matches
<1>3. UNCHANGED <<compilers, functions, breaks, continueJump>>
  BY DEF EnterCall
<1>4. AllGrown /\ Len(compilers') = Len(compilers)
  BY <1>2, <1>3, StillGrown
<1>5. /\ Len(saved) = m /\ \A i \in 1..m : saved'[i] = saved[i]
      /\ \A x \in Addresses : saved'[m + 1][x] = NoPlace
  <2> DEFINE places == [name \in Addresses |-> NoPlace]
  <2>1. NoPlace \in PlaceRecord
    BY DEF NoPlace, PlaceRecord
  <2>2. places \in [Addresses -> PlaceRecord] /\ \A x \in Addresses : places[x] = NoPlace
    BY <2>1
  <2>3. saved' = Append(saved, places) /\ saved \in Seq([Addresses -> PlaceRecord])
    BY <1>2 DEF EnterCall, Typed
  <2> HIDE DEF places
  <2>4. Len(saved) = m
    BY <1>2 DEF Frames
  <2>5. QED
    BY <2>2, <2>3, <2>4, AppendFacts
<1>6. /\ Top(B) = Top(A) /\ SameOuter(A, B) /\ B.loop = A.loop /\ B.cont = A.cont
      /\ B.level = Top(A) /\ B.starts = {} /\ B.kept = <<0, 0>>
  BY <1>1 DEF EnterEffect, SameOuter, SameScopes, Top
<1>7. ASSUME Open(A)
      PROVE  Rearranged(A, B)
  <2>1. Ids /\ Ids' /\ Nested(A) /\ BreaksOwn(A) /\ PlacesStay(A)
    BY <1>1, <1>2, <1>4, <1>7, GrownPlaces DEF Open
  <2>2. /\ m \in Nat /\ Len(B.below) = m + 1 /\ FrameAt(B, m + 1) = FrameOf(B)
        /\ \A i \in 0..m : FrameAt(B, i) = FrameAt(A, i)
    BY <1>1, EnterFrames
  <2>3. FrameOf(B).level = Top(A) /\ FrameOf(B).kept[1] = 0 /\ FrameOf(B).starts = {}
    <3>1. <<0, 0>>[1] = 0
      OBVIOUS
    <3>2. QED
      BY <1>6, <3>1 DEF FrameOf
  <2>4. FrameIn(m + 1, FrameOf(B))'
    <3>1. PlaceIn(NoPlace)'
      <4>1. Created' \in Nat /\ NoPlace.id = 0
        BY <1>2, SizesAfter DEF Sized, NoPlace
      <4>2. \A k \in 1..Len(compilers') : compilers'[k].id # 0
        BY <2>1 DEF Ids
      <4>3. QED
        BY <4>1, <4>2 DEF PlaceIn
    <3>2. IdAt(0)' = 0 /\ NoPlace.id = 0 /\ "cont" \in Addresses
      BY DEF IdAt, NoPlace, Addresses
    <3>3. ASSUME NEW x \in Addresses
          PROVE  PlaceIn(saved[m + 1][x])'
      BY <1>5, <3>1
    <3>4. QED
      BY <1>5, <2>3, <3>2, <3>3 DEF FrameIn
  <2>5. ASSUME NEW i \in 1..Len(B.below)
        PROVE  FrameIn(i, FrameAt(B, i))'
    <3>1. CASE i = m + 1
      BY <2>2, <2>4, <3>1
    <3>2. CASE i # m + 1
      <4>1. i \in 1..m
        BY <2>2, <3>2
      <4>2. FrameIn(i, FrameAt(A, i))'
        BY <1>5, <2>1, <4>1 DEF PlacesStay
      <4>3. QED
        BY <2>2, <4>1, <4>2
    <3>3. QED
      BY <3>1, <3>2
  <2>6. PlacesIn(B)'
    BY <1>1, <1>2, <1>3, <1>6, <1>7, <2>1, <2>5, ContinueStays DEF PlacesIn
  <2>7. Nested(B)
    <3>1. /\ Top(A) \in Nat
          /\ \A i \in 0..m : FrameAt(A, i).level \in 0..Top(A)
      BY <2>1, FrameAtType, NestedLevels
    <3>2. ASSUME NEW i \in 0..Len(B.below)
          PROVE  /\ FrameAt(B, i).kept[1] <= FrameAt(B, i).level
                 /\ \A j \in 0..i : FrameAt(B, j).level <= FrameAt(B, i).level
      <4>1. CASE i = m + 1
        <5>1. \A j \in 0..i : j = m + 1 \/ j \in 0..m
          BY <2>2, <4>1
        <5>2. FrameAt(B, i).level = Top(A) /\ FrameAt(B, i).kept[1] = 0
          BY <2>2, <2>3, <4>1
        <5>3. \A j \in 0..m : FrameAt(B, j).level <= Top(A)
          BY <2>2, <3>1
        <5>4. QED
          BY <3>1, <4>1, <5>1, <5>2, <5>3
      <4>2. CASE i # m + 1
        <5>1. i \in 0..m /\ \A j \in 0..i : j \in 0..m
          BY <2>2, <4>2
        <5>2. QED
          BY <2>1, <2>2, <5>1 DEF Nested
      <4>3. QED
        BY <4>1, <4>2
    <3>3. B.level <= Top(B) /\ B.cont[1] <= Top(B)
      BY <1>6, <2>1, <3>1 DEF Nested
    <3>4. QED
      BY <3>2, <3>3 DEF Nested
  <2>8. BreaksOwn(B)'
    BY <1>1, <1>2, <1>3, <1>4, <1>6, <2>1, SameBreaks
  <2>9. ASSUME NEW k \in 1..Len(compilers), NEW a, Waits(A, k, a)
        PROVE  Waits(B, k, a)'
    <3>1. CASE BreakAt(k, a)
      BY <1>3, <3>1 DEF BreakAt, Waits
    <3>2. CASE \E i \in 1..m : WaitsFor(i, FrameAt(A, i), k, a)
      <4>1. PICK i \in 1..m : WaitsFor(i, FrameAt(A, i), k, a)
        BY <3>2
      <4>2. i \in 1..Len(B.below) /\ FrameAt(B, i) = FrameAt(A, i) /\ saved'[i] = saved[i]
        BY <1>5, <2>2
      <4>3. WaitsFor(i, FrameAt(B, i), k, a)'
        BY <4>1, <4>2 DEF WaitsFor
      <4>4. QED
        BY <4>2, <4>3 DEF Waits
    <3>3. QED
      BY <2>9, <3>1, <3>2 DEF Waits
  <2>10. QED
    BY <1>2, <1>3, <2>6, <2>7, <2>8, <2>9, StillAiming DEF Rearranged
<1>8. QED
  BY <1>1, <1>2, <1>3, <1>4, <1>7, RearrangedAgrees

LEMMA LeaveAgrees ==
  ASSUME NEW A \in State, NEW B \in State, Agrees(A), Effect(Head(agenda), A, B), LeaveCall
  PROVE  Agrees(B)'
<1> DEFINE m == Len(A.below)
<1>1. A.alive /\ LeaveEffect(A, B)
  BY DEF LeaveCall, Making, Doing, Effect
<1>2. Matches(A) /\ Matches(B)' /\ Typed' /\ Typed /\ Frames(A)
  BY LeaveMatches DEF Agrees, Matches
<1>3. UNCHANGED <<compilers, functions, breaks, continueJump>>
  BY DEF LeaveCall
<1>4. AllGrown /\ Len(compilers') = Len(compilers)
  BY <1>2, <1>3, StillGrown
<1>5. /\ m \in Nat \ {0} /\ Len(B.below) = m - 1 /\ FrameAt(A, m) = FrameOf(A)
      /\ \A i \in 0..m - 1 : FrameAt(B, i) = FrameAt(A, i)
  BY <1>1, LeaveFrames
<1>6. /\ Len(saved) = m /\ \A i \in 1..m - 1 : saved'[i] = saved[i]
  <2>1. saved' = Front(saved) /\ saved \in Seq([Addresses -> PlaceRecord]) /\ Len(saved) = m
    BY <1>2 DEF LeaveCall, Typed, Frames
  <2>2. saved # <<>>
    BY <1>5, <2>1
  <2>3. QED
    BY <2>1, <2>2, FrontFacts
<1>7. /\ Top(B) = Top(A) /\ SameOuter(A, B) /\ B.loop = A.loop /\ B.cont = A.cont
      /\ FrameOf(A).pend = {}
  BY <1>1 DEF LeaveEffect, SameOuter, SameScopes, Top, FrameOf
<1>8. ASSUME Open(A)
      PROVE  Rearranged(A, B)
  <2>1. Nested(A) /\ BreaksOwn(A) /\ PlacesStay(A)
    BY <1>1, <1>2, <1>4, <1>8, GrownPlaces DEF Open
  <2>2. \A i \in 1..Len(B.below) : i \in 1..m /\ i \in 0..m - 1 /\ i \in 1..m - 1
    BY <1>5
  <2>3. ASSUME NEW i \in 1..Len(B.below)
        PROVE  FrameIn(i, FrameAt(B, i))'
    <3>1. FrameIn(i, FrameAt(A, i))'
      BY <1>6, <2>1, <2>2 DEF PlacesStay
    <3>2. QED
      BY <1>5, <2>2, <3>1
  <2>4. PlacesIn(B)'
    BY <1>1, <1>2, <1>3, <1>7, <1>8, <2>1, <2>3, ContinueStays DEF PlacesIn
  <2>5. Nested(B)
    <3>1. ASSUME NEW i \in 0..Len(B.below)
          PROVE  /\ FrameAt(B, i).kept[1] <= FrameAt(B, i).level
                 /\ \A j \in 0..i : FrameAt(B, j).level <= FrameAt(B, i).level
      <4>1. i \in 0..m /\ \A j \in 0..i : j \in 0..m - 1
        BY <1>5
      <4>2. i \in 0..i
        BY <1>5
      <4>3. QED
        BY <1>5, <2>1, <4>1, <4>2 DEF Nested
    <3>2. B.level <= Top(B)
      <4>1. FrameAt(B, m - 1) = FrameOf(B) /\ m - 1 \in 0..m - 1 /\ m - 1 \in 0..m
        BY <1>5 DEF FrameAt
      <4>2. B.level = FrameAt(A, m - 1).level
        BY <1>5, <4>1 DEF FrameOf
      <4>3. FrameAt(A, m - 1).level \in 0..Top(A) /\ Top(A) \in Nat
        BY <2>1, <4>1, NestedLevels, FrameAtType
      <4>4. QED
        BY <1>7, <4>2, <4>3
    <3>3. QED
      BY <1>7, <2>1, <3>1, <3>2 DEF Nested
  <2>6. BreaksOwn(B)'
    BY <1>1, <1>2, <1>3, <1>4, <1>7, <2>1, SameBreaks
  <2>7. ASSUME NEW k \in 1..Len(compilers), NEW a, Waits(A, k, a)
        PROVE  Waits(B, k, a)'
    <3>1. CASE BreakAt(k, a)
      BY <1>3, <3>1 DEF BreakAt, Waits
    <3>2. CASE \E i \in 1..m : WaitsFor(i, FrameAt(A, i), k, a)
      <4>1. PICK i \in 1..m : WaitsFor(i, FrameAt(A, i), k, a)
        BY <3>2
      <4>2. i # m
        BY <1>5, <1>7, <4>1 DEF WaitsFor
      <4>3. i \in 1..Len(B.below) /\ FrameAt(B, i) = FrameAt(A, i) /\ saved'[i] = saved[i]
        BY <1>5, <1>6, <4>2
      <4>4. WaitsFor(i, FrameAt(B, i), k, a)'
        BY <4>1, <4>3 DEF WaitsFor
      <4>5. QED
        BY <4>3, <4>4 DEF Waits
    <3>3. QED
      BY <2>7, <3>1, <3>2 DEF Waits
  <2>8. QED
    BY <1>2, <1>3, <2>4, <2>5, <2>6, <2>7, StillAiming DEF Rearranged
<1>9. QED
  BY <1>1, <1>2, <1>3, <1>4, <1>8, RearrangedAgrees

\* One instruction of the current function is written or patched; that it has
\* a target may depend on what is open.
LEMMA AimingAgrees ==
  ASSUME NEW A \in State, NEW B \in State, A.alive, Agrees(A), Matches(B)', SameAround(A, B),
         NEW c, Update(c), Grown(Current, c), OnlyCompilers,
         Regular' /\ Open(A) => Aims(Current, c)
  PROVE  Agrees(B)'
<1>1. Matches(A) /\ Typed /\ Typed' /\ Levels(A) /\ Sized
  BY Sizes DEF Agrees, Matches
<1>2. /\ AllGrown /\ Len(compilers') = Len(compilers) /\ functions' = functions
      /\ \A k \in 1..Len(compilers) : compilers'[k] = IF k = Top(A) THEN c ELSE compilers[k]
  BY <1>1, CurrentGrown DEF OnlyCompilers
<1>3. ASSUME Regular'
      PROVE  Jumps(B)'
  <2>1. Regular
    BY <1>1, <1>2, <1>3, GrownRegular
  <2>2. Jumps(A) /\ Open(A)
    BY <2>1 DEF Agrees, Jumps
  <2>3. Aims(Current, c) /\ Current = compilers[Top(A)]
    BY <1>1, <1>3, <2>2, CurrentType
  <2>4. ASSUME NEW k \in 1..Len(compilers)
        PROVE  Aims(compilers[k], compilers'[k])
    <3>1. CASE k = Top(A)
      BY <1>2, <2>3, <3>1
    <3>2. CASE k # Top(A)
      <4>1. compilers[k] \in CompilerRecord /\ SameCode(compilers[k], compilers[k])
        BY <1>1 DEF Sized, SameCode
      <4>2. QED
        BY <1>2, <3>2, <4>1, SameCodeGrown
    <3>3. QED
      BY <3>1, <3>2
  <2>5. QED
    BY <1>1, <1>2, <2>2, <2>4, GrownJumps DEF OnlyCompilers, SameAround, SameScopes
<1>4. QED
  BY <1>3 DEF Agrees

\* The innermost places of the function are in its code.
LEMMA OwnPlace ==
  ASSUME NEW A \in State, A.alive, Matches(A), Ids, NEW place, PlaceIn(place),
         place.id = Current.id
  PROVE  place.addr \in 1..Here(Current)
BY CurrentId DEF PlaceIn

LEMMA WritingAgrees ==
  ASSUME NEW A \in State, NEW B \in State, A.alive, Agrees(A), Matches(B)', SameAround(A, B),
         NEW instr \in InstrRecord, Update(Written(Current, instr)), OnlyCompilers,
         Regular' /\ Open(A) => (instr.op \in JumpOps => instr.arg \in 1..Here(Current))
  PROVE  Agrees(B)'
<1>1. Current \in CompilerRecord
  BY CurrentLocals DEF Agrees
<1>2. PICK c : c = Written(Current, instr)
  OBVIOUS
<1>3. Grown(Current, c) /\ Update(c) /\ (Regular' /\ Open(A) => Aims(Current, c))
  BY <1>1, <1>2, WrittenGrown
<1>4. QED
  BY <1>3, AimingAgrees

LEMMA InstructionOp ==
  ASSUME NEW c, NEW op, NEW arg
  PROVE  Instruction(c, op, arg).op = op /\ Instruction(c, op, arg).arg = arg
BY DEF Instruction

LEMMA EmitByteAgrees ==
  ASSUME NEW A \in State, NEW B \in State, Agrees(A), Effect(Head(agenda), A, B), EmitByte
  PROVE  Agrees(B)'
<1>1. PICK op, arg : op = Arg(1) /\ arg = Arg(2)
  OBVIOUS
<1>2. A.alive /\ EmitByteEffect(op, arg, A, B) /\ Matches(A) /\ Matches(B)'
  BY <1>1, EmitByteMatches DEF EmitByte, Making, Doing, Effect, Arg, Agrees
<1>3. op \in AllOps /\ op \notin JumpOps /\ arg \in Int \cup Seq(UpvalueRecord) /\ SameAround(A, B)
  BY <1>2 DEF EmitByteEffect, ByteOps, AllOps, JumpOps
<1>4. PICK instr : instr = Instruction(Current, op, arg)
  OBVIOUS
<1>5. instr \in InstrRecord /\ instr.op \notin JumpOps
  BY <1>2, <1>3, <1>4, CurrentLocals, InstructionType, InstructionOp
<1>6. Update(Written(Current, instr)) /\ OnlyCompilers
  BY <1>1, <1>4 DEF EmitByte, Emitted
<1>7. QED
  BY <1>2, <1>3, <1>5, <1>6, WritingAgrees

LEMMA LoopToOp ==
  ASSUME NEW c \in CompilerRecord, c.locals # <<>>, NEW to, to.addr \in Nat
  PROVE  LoopTo(c, to).arg = to.addr
<1> DEFINE instr == Instruction(c, "LOOP", to.addr)  clean == to.locals = Len(c.locals)
<1>1. "LOOP" \in AllOps /\ to.addr \in Int \cup Seq(UpvalueRecord)
  BY DEF AllOps
<1>2. instr \in AnyInstr /\ instr.arg = to.addr
  BY <1>1, InstructionType, InstructionOp
<1>3. LoopTo(c, to) = [instr EXCEPT !.clean = clean]
  BY DEF LoopTo
<1> HIDE DEF instr, clean
<1>4. QED
  BY <1>2, <1>3 DEF AnyInstr

LEMMA EmitLoopAgrees ==
  ASSUME NEW A \in State, NEW B \in State, Agrees(A), Effect(Head(agenda), A, B), EmitLoop
  PROVE  Agrees(B)'
<1>1. PICK name, to : name = Arg(1) /\ to = Kept(name)
  OBVIOUS
<1>2. A.alive /\ EmitLoopEffect(name, A, B) /\ Matches(A) /\ Matches(B)'
  BY <1>1, EmitLoopMatches DEF EmitLoop, Making, Doing, Effect, Arg, Agrees
<1>3. name \in A.starts /\ name \in Addresses /\ A.level = Top(A) /\ SameAround(A, B)
  BY <1>2 DEF EmitLoopEffect, State
<1>4. Current \in CompilerRecord /\ Current.locals # <<>> /\ to.addr \in Nat
  BY <1>1, <1>2, <1>3, CurrentLocals, KeptType DEF PlaceRecord
<1>5. PICK instr : instr = LoopTo(Current, to)
  OBVIOUS
<1>6. instr \in InstrRecord /\ instr.arg = to.addr
  BY <1>4, <1>5, LoopToType, LoopToOp
<1>7. Update(Written(Current, instr)) /\ OnlyCompilers
  BY <1>1, <1>5 DEF EmitLoop
<1>8. ASSUME Open(A)
      PROVE  instr.arg \in 1..Here(Current)
  <2>1. PlaceIn(to) /\ to.id = Current.id
    BY <1>1, <1>2, <1>3, <1>8, Innermost
  <2>2. QED
    BY <1>2, <1>6, <1>8, <2>1, OwnPlace DEF Open
<1>9. QED
  BY <1>2, <1>3, <1>6, <1>7, <1>8, WritingAgrees

LEMMA EmitAccessAgrees ==
  ASSUME NEW A \in State, NEW B \in State, Agrees(A), Effect(Head(agenda), A, B), EmitAccess
  PROVE  Agrees(B)'
<1>1. PICK op, index, decl : op = Arg(1) /\ index = Arg(2) /\ decl = Arg(3)
  OBVIOUS
<1>2. A.alive /\ EmitAccessEffect(op, index, decl, A, B) /\ Matches(A) /\ Matches(B)'
  BY <1>1, EmitAccessMatches DEF EmitAccess, Making, Doing, Effect, Arg, Agrees
<1>3. SameAround(A, B) /\ op \notin JumpOps
  BY <1>2 DEF EmitAccessEffect, JumpOps
<1>4. PICK c : c = Written(Current, [Instruction(Current, op, index) EXCEPT
                              !.meant = decl, !.found = Reached(op, index)])
  OBVIOUS
<1>5. Update(c) /\ OnlyCompilers
  BY <1>1, <1>4 DEF EmitAccess
<1>6. Current \in CompilerRecord /\ Current.code \in Seq(InstrRecord)
  BY <1>2, CurrentLocals DEF CompilerRecord
<1>7. Grown(Current, c) /\ Aims(Current, c)
  <2> DEFINE e == Current  instr == [Instruction(e, op, index) EXCEPT
                                     !.meant = decl, !.found = Reached(op, index)]
  <2>1. instr.op = op
    BY DEF Instruction
  <2>0. c = Written(e, instr)
    BY <1>4
  <2> HIDE DEF instr
  <2>2. /\ c.id = e.id /\ c.corrupt = e.corrupt /\ c.amid = e.amid
        /\ c.code = Append(e.code, instr)
    BY <1>6, <2>0 DEF Written, CompilerRecord
  <2>3. /\ Len(c.code) = Len(e.code) + 1 /\ Len(e.code) \in Nat
        /\ c.code[Len(e.code) + 1] = instr /\ \A i \in 1..Len(e.code) : c.code[i] = e.code[i]
    BY <1>6, <2>2
  <2>4. Grown(e, c)
    BY <2>2, <2>3 DEF Grown
  <2>5. Aims(e, c)
    BY <1>3, <2>1, <2>3 DEF Aims
  <2>6. QED
    BY <2>4, <2>5
<1>8. QED
  BY <1>2, <1>3, <1>5, <1>7, AimingAgrees

-----------------------------------------------------------------------------
(* Breaks and continues *)

\* A break or a continue of a regular program is in a while loop.
LEMMA MarkedRegular ==
  ASSUME NEW A \in State, A.alive, Matches(A), NEW instr \in InstrRecord,
         Update(Written(Current, Marked(Current, instr))), Regular'
  PROVE  continueJump.id = Current.id
<1> DEFINE stray == [instr EXCEPT !.meant = Stray]
<1>1. Current \in CompilerRecord /\ Typed /\ Levels(A) /\ instr \in AnyInstr
  BY CurrentLocals DEF InstrRecord
<1>2. stray.meant = Stray
  BY <1>1 DEF AnyInstr
<1> HIDE DEF stray
<1>3. SUFFICES ASSUME continueJump.id # Current.id
               PROVE  FALSE
  OBVIOUS
<1>4. Marked(Current, instr) = stray
  BY <1>3 DEF Marked, stray
<1>5. PICK d : d = Written(Current, stray)
  OBVIOUS
<1>6. stray \in InstrRecord /\ Update(d)
  BY <1>4, <1>5, MarkedType
<1>7. d \in CompilerRecord /\ d.code \in Seq(InstrRecord) /\ Here(Current) \in 1..Len(d.code)
      /\ d.code[Here(Current)] = stray
  <2>1. /\ d \in CompilerRecord /\ Len(Current.code) \in Nat /\ Here(Current) = Len(Current.code) + 1
        /\ Len(d.code) = Here(Current) /\ d.code[Here(Current)] = stray
    BY <1>1, <1>5, <1>6, WrittenType, EmittedGrown
  <2>2. d.code \in Seq(InstrRecord)
    BY <2>1 DEF CompilerRecord
  <2>3. QED
    BY <2>1, <2>2
<1>8. stray \in Range(d.code)
  BY <1>7 DEF Range
<1>9. d \in Range(compilers)'
  <2>1. compilers' \in Seq(CompilerRecord) /\ compilers'[Top(A)] = d
        /\ Top(A) \in 1..Len(compilers')
    BY <1>1, <1>6, <1>7, UpdateType, CurrentType
  <2>2. QED
    BY <2>1 DEF Range
<1>10. QED
  BY <1>2, <1>8, <1>9 DEF Regular

LEMMA MarkedOwn ==
  ASSUME NEW c, NEW instr, continueJump.id = c.id
  PROVE  Marked(c, instr) = instr
BY DEF Marked

LEMMA ContinueAgrees ==
  ASSUME NEW A \in State, NEW B \in State, Agrees(A), Effect(Head(agenda), A, B), Continue
  PROVE  Agrees(B)'
<1>1. PICK c, to : c = Current /\ to = IF continueJump.id = c.id THEN continueJump
                                       ELSE [addr |-> Unpatched, locals |-> -1]
  OBVIOUS
<1>2. A.alive /\ StatementEffect(A, B) /\ SameAround(A, B)
  BY DEF Continue, Making, Doing, Effect, BreakEffect, StatementEffect
<1>3. Matches(A) /\ Matches(B)' /\ Typed /\ c \in CompilerRecord /\ c.locals # <<>>
  BY <1>1, <1>2, ContinueMatches, CurrentLocals DEF Agrees
<1>4. to.addr \in Nat
  BY <1>1, <1>3 DEF Typed, PlaceRecord, Unpatched
<1>5. PICK jump, instr : jump = LoopTo(c, to) /\ instr = Marked(c, jump)
  OBVIOUS
<1>6. Update(Written(Current, instr)) /\ OnlyCompilers
  BY <1>1, <1>5 DEF Continue
<1>7. jump \in InstrRecord /\ instr \in InstrRecord /\ jump.arg = to.addr
  BY <1>3, <1>4, <1>5, LoopToType, MarkedType, LoopToOp
<1>8. ASSUME Regular', Open(A)
      PROVE  instr.arg \in 1..Here(Current)
  <2>1. continueJump.id = c.id
    BY <1>1, <1>2, <1>3, <1>5, <1>6, <1>7, <1>8, MarkedRegular
  <2>2. instr = jump /\ to = continueJump
    BY <1>1, <1>5, <2>1, MarkedOwn
  <2>3. PlaceIn(to) /\ Ids
    BY <1>8, <2>2 DEF Open, PlacesIn
  <2>4. QED
    BY <1>1, <1>2, <1>3, <1>7, <2>1, <2>2, <2>3, OwnPlace
<1>9. QED
  BY <1>2, <1>3, <1>6, <1>7, <1>8, WritingAgrees

\* The jumps that wait for a C function go on waiting.
LEMMA FrameWaits ==
  ASSUME NEW A \in State, NEW B \in State, SamePlaces(A, B), saved' = saved, NEW k, NEW a,
         Waits(A, k, a), BreakAt(k, a) => Waits(B, k, a)'
  PROVE  Waits(B, k, a)'
<1>1. CASE \E i \in 1..Len(A.below) : WaitsFor(i, FrameAt(A, i), k, a)
  <2>1. PICK i \in 1..Len(A.below) : WaitsFor(i, FrameAt(A, i), k, a)
    BY <1>1
  <2>2. i \in 1..Len(B.below) /\ FrameAt(B, i) = FrameAt(A, i)
    BY <2>1, SameFrameAt
  <2>3. WaitsFor(i, FrameAt(B, i), k, a)'
    BY <2>1, <2>2 DEF WaitsFor
  <2>4. QED
    BY <2>2, <2>3 DEF Waits
<1>2. QED
  BY <1>1 DEF Waits

\* What a call that leaves the places alone leaves to show
LEMMA SamePlacesIn ==
  ASSUME NEW A \in State, NEW B \in State, A.alive, Matches(A), Open(A), PlacesStay(A),
         SameOuter(A, B), SamePlaces(A, B), B.cont = A.cont, UNCHANGED <<saved, continueJump>>
  PROVE  PlacesIn(B)' /\ Nested(B)
<1>1. \A i \in 1..Len(B.below) : FrameIn(i, FrameAt(B, i))'
  BY SameFramesIn
<1>2. PlacesIn(B)'
  BY <1>1, ContinueStays DEF PlacesIn
<1>3. Top(B) = Top(A) /\ B.level = A.level /\ Nested(A)
  BY DEF SameOuter, SamePlaces, Top, Open
<1>4. Nested(B)
  BY <1>3, SameFrameAt DEF Nested
<1>5. QED
  BY <1>2, <1>4

LEMMA BreakAgrees ==
  ASSUME NEW A \in State, NEW B \in State, Agrees(A), Effect(Head(agenda), A, B), Break
  PROVE  Agrees(B)'
<1>1. PICK c, jump, instr, break :
        /\ c = Current /\ jump = Instruction(c, "JUMP", Unpatched) /\ instr = Marked(c, jump)
        /\ break = [depth |-> c.scope_depth, addr |-> Here(c), id |-> c.id]
  OBVIOUS
<1> DEFINE d == Written(c, instr)  n == Len(breaks)
<1>2. A.alive /\ StatementEffect(A, B) /\ SameAround(A, B) /\ InLoop(A)
  BY DEF Break, Making, Doing, Effect, BreakEffect, StatementEffect
<1>3. Matches(A) /\ Matches(B)' /\ Typed /\ Typed' /\ c \in CompilerRecord /\ c.locals # <<>>
      /\ c.scope_depth = A.depth
  BY <1>1, <1>2, BreakMatches, CurrentLocals DEF Agrees, Matches, Scoped
<1>4. jump \in InstrRecord /\ instr \in InstrRecord
  <2>1. Unpatched \in Int \cup Seq(UpvalueRecord) /\ "JUMP" \in AllOps
    BY DEF Unpatched, AllOps
  <2>2. QED
    BY <1>1, <1>3, <2>1, InstructionType, MarkedType
<1>5. /\ breaks' = Append(breaks, break) /\ UNCHANGED <<functions, saved, continueJump>>
      /\ Update(Written(Current, Marked(Current, jump))) /\ Update(d)
  BY <1>1 DEF Break
<1>6. /\ Grown(c, d) /\ Len(c.code) \in Nat /\ Here(c) = Len(c.code) + 1
      /\ Len(d.code) = Here(c) /\ \A a \in 1..Len(c.code) : d.code[a] = c.code[a]
  BY <1>3, <1>4, EmittedGrown
<1> HIDE DEF d
<1>7. /\ AllGrown /\ Len(compilers') = Len(compilers)
      /\ \A k \in 1..Len(compilers) : compilers'[k] = IF k = Top(A) THEN d ELSE compilers[k]
  BY <1>1, <1>2, <1>3, <1>5, <1>6, CurrentGrown
<1>8. /\ n \in Nat /\ Len(breaks') = n + 1 /\ breaks'[n + 1] = break
      /\ \A j \in 1..n : breaks'[j] = breaks[j]
  <2>1. break \in BreakRecord
    BY <1>1, <1>3, <1>6 DEF BreakRecord, CompilerRecord
  <2>2. breaks \in Seq(BreakRecord)
    BY <1>3 DEF Typed
  <2>3. QED
    BY <1>5, <2>1, <2>2, AppendFacts
<1>9. break.id = c.id /\ break.depth = A.depth /\ break.addr = Here(c)
  BY <1>1, <1>3
<1>10. SameOuter(A, B) /\ SamePlaces(A, B) /\ B.cont = A.cont /\ B.loop = A.loop
       /\ Top(B) = Top(A)
  BY <1>2 DEF SameAround, SameScopes, SameOuter, Top
<1>11. ASSUME Regular', Open(A)
       PROVE  Rearranged(A, B)
  <2>1. Ids /\ BreaksOwn(A) /\ PlacesStay(A) /\ Nested(A) /\ PlacesIn(A)
    BY <1>2, <1>3, <1>7, <1>11, GrownPlaces DEF Open
  <2>2. PlacesIn(B)' /\ Nested(B)
    BY <1>2, <1>3, <1>5, <1>10, <1>11, <2>1, SamePlacesIn
  <2>3. Current = compilers[Top(A)] /\ Top(A) \in 1..Len(compilers)
    BY <1>2, <1>3, <2>1, CurrentId
  <2>4. A.loop # -1 /\ A.depth > A.loop
    <3>1. continueJump.id = Current.id
      BY <1>2, <1>3, <1>4, <1>5, <1>11, MarkedRegular
    <3>2. A.cont[1] \in 0..Top(A) /\ IdAt(A.cont[1]) = Current.id
      BY <2>1, <3>1, FrameAtType DEF PlacesIn, Nested, State
    <3>3. A.cont[1] = Top(A)
      BY <1>2, <1>3, <2>1, <3>2, CurrentId
    <3>4. QED
      BY <1>2, <3>3 DEF InLoop
  <2>5. compilers'[Top(B)].id = compilers[Top(A)].id /\ compilers[Top(A)].id = c.id
    BY <1>1, <1>6, <1>7, <1>10, <2>3 DEF Grown
  <2>6. BreaksOwn(B)'
    <3>1. ASSUME NEW j \in 1..Len(breaks')
          PROVE  /\ breaks'[j].id = compilers'[Top(B)].id
                 /\ B.loop # -1 /\ breaks'[j].depth > B.loop
      <4>1. j \in 1..n \/ j = n + 1
        BY <1>8
      <4>2. CASE j \in 1..n
        BY <1>8, <1>10, <2>1, <2>5, <4>2 DEF BreaksOwn
      <4>3. CASE j = n + 1
        BY <1>8, <1>9, <1>10, <2>4, <2>5, <4>3
      <4>4. QED
        BY <4>1, <4>2, <4>3
    <3>2. QED
      BY <3>1 DEF BreaksOwn
  <2>7. ASSUME NEW k \in 1..Len(compilers), NEW a, BreakAt(k, a)
        PROVE  BreakAt(k, a)'
    <3>1. PICK j \in 1..n : breaks[j].id = compilers[k].id /\ breaks[j].addr = a
      BY <2>7 DEF BreakAt
    <3>2. compilers'[k].id = compilers[k].id
      BY <1>1, <1>6, <1>7, <2>3 DEF Grown
    <3>3. j \in 1..Len(breaks') /\ breaks'[j] = breaks[j]
      BY <1>8
    <3>4. QED
      BY <3>1, <3>2, <3>3 DEF BreakAt
  <2>8. ASSUME NEW k \in 1..Len(compilers), NEW a, Waits(A, k, a)
        PROVE  Waits(B, k, a)'
    <3>1. BreakAt(k, a) => Waits(B, k, a)'
      BY <2>7 DEF Waits
    <3>2. QED
      BY <1>5, <1>10, <2>8, <3>1, FrameWaits
  <2>9. ASSUME NEW h, h = Here(c)
        PROVE  Waits(B, Top(A), h)'
    <3>1. n + 1 \in 1..Len(breaks') /\ breaks'[n + 1].id = compilers'[Top(A)].id
          /\ breaks'[n + 1].addr = h
      BY <1>8, <1>9, <1>10, <2>5, <2>9
    <3>2. BreakAt(Top(A), h)'
      BY <3>1 DEF BreakAt
    <3>3. QED
      BY <3>2 DEF Waits
  <2>10. \A k \in 1..Len(compilers') : \A a \in 1..Len(compilers'[k].code) : StillAims(A, B, k, a)
    <3>1. ASSUME NEW a \in 1..Len(d.code)
          PROVE  \/ /\ a \in 1..Len(c.code) /\ d.code[a] = c.code[a]
                    /\ Waits(A, Top(A), a) => Waits(B, Top(A), a)'
                 \/ Waits(B, Top(A), a)'
      <4>1. a \in 1..Len(c.code) \/ a = Here(c)
        BY <1>6
      <4>2. Waits(A, Top(A), a) => Waits(B, Top(A), a)'
        BY <2>3, <2>8
      <4>3. QED
        BY <1>6, <2>9, <4>1, <4>2
    <3>2. QED
      BY <1>1, <1>2, <1>3, <1>6, <1>7, <2>8, <3>1, OthersAim
  <2>11. QED
    BY <2>2, <2>6, <2>10 DEF Rearranged
<1>12. QED
  BY <1>2, <1>3, <1>5, <1>7, <1>11, RearrangedAgrees

LEMMA AroundItself ==
  ASSUME NEW A
  PROVE  SameAround(A, A) /\ SameOuter(A, A) /\ SamePlaces(A, A)
BY DEF SameAround, SameOuter, SameScopes, SamePlaces

\* The break that is taken is one of the function being compiled.
LEMMA TakenBreak ==
  ASSUME NEW A \in State, A.alive, Matches(A), PatchBreak
  PROVE  /\ Last(breaks) \in BreakRecord /\ Len(breaks) \in Nat \ {0}
         /\ Last(breaks) = breaks[Len(breaks)] /\ Len(breaks') = Len(breaks) - 1
         /\ \A j \in 1..Len(breaks) - 1 : breaks'[j] = breaks[j]
         /\ BreaksOwn(A) => Last(breaks).id = Current.id
<1>1. Typed /\ Levels(A)
  BY DEF Matches
<1>2. breaks \in Seq(BreakRecord) /\ breaks # <<>> /\ breaks' = Front(breaks)
  BY <1>1 DEF Typed, PatchBreak, BreaksLoop
<1>3. Current = compilers[Top(A)]
  BY <1>1, CurrentType
<1>4. /\ Last(breaks) \in BreakRecord /\ Len(breaks) \in Nat \ {0}
      /\ Last(breaks) = breaks[Len(breaks)] /\ Len(breaks') = Len(breaks) - 1
      /\ \A j \in 1..Len(breaks) - 1 : breaks'[j] = breaks[j]
  BY <1>2, FrontFacts
<1>5. BreaksOwn(A) => Last(breaks).id = Current.id
  BY <1>3, <1>4 DEF BreaksOwn
<1>6. QED
  BY <1>4, <1>5

LEMMA OwnBreakAgrees ==
  ASSUME NEW A \in State, A.alive, Agrees(A), PatchBreak, Last(breaks).id = Current.id
  PROVE  Agrees(A)'
<1>1. PICK c, addr : c = Current /\ addr = Last(breaks).addr
  OBVIOUS
<1> DEFINE d == Patched(c, addr, Here(c), FALSE)  n == Len(breaks)
<1>2. Matches(A) /\ Matches(A)' /\ Typed /\ Typed' /\ c \in CompilerRecord
  BY <1>1, PatchBreakMatches, CurrentLocals DEF Agrees, Matches
<1>3. /\ addr \in Nat /\ n \in Nat \ {0} /\ breaks[n].addr = addr /\ breaks[n].id = c.id
      /\ Len(breaks') = n - 1 /\ \A j \in 1..n - 1 : breaks'[j] = breaks[j]
  BY <1>1, <1>2, TakenBreak DEF BreakRecord
<1>4. Update(d) /\ UNCHANGED <<functions, saved, continueJump>>
  BY <1>1 DEF PatchBreak
<1>5. /\ Grown(c, d) /\ Len(d.code) = Len(c.code)
      /\ \A a \in 1..Len(c.code) :
           IF a = addr THEN d.code[a].arg \in 1..Here(d) ELSE d.code[a] = c.code[a]
  BY <1>2, <1>3, PatchedGrown
<1> HIDE DEF d
<1>6. /\ AllGrown /\ Len(compilers') = Len(compilers)
      /\ \A k \in 1..Len(compilers) : compilers'[k] = IF k = Top(A) THEN d ELSE compilers[k]
  BY <1>1, <1>2, <1>4, <1>5, CurrentGrown
<1>7. ASSUME Open(A)
      PROVE  Rearranged(A, A)
  <2>1. Ids /\ BreaksOwn(A) /\ PlacesStay(A)
    BY <1>2, <1>6, <1>7, GrownPlaces DEF Open
  <2>2. PlacesIn(A)' /\ Nested(A)
    BY <1>2, <1>4, <1>7, <2>1, AroundItself, SamePlacesIn
  <2>3. Current = compilers[Top(A)] /\ Top(A) \in 1..Len(compilers)
        /\ \A k \in 1..Len(compilers) : compilers[k].id = Current.id => k = Top(A)
    BY <1>2, <2>1, CurrentId
  <2>4. BreaksOwn(A)'
    <3>1. compilers'[Top(A)].id = compilers[Top(A)].id
      BY <1>1, <1>5, <1>6, <2>3 DEF Grown
    <3>2. \A j \in 1..Len(breaks') : j \in 1..n /\ breaks'[j] = breaks[j]
      BY <1>3
    <3>3. QED
      BY <2>1, <3>1, <3>2 DEF BreaksOwn
  <2>5. ASSUME NEW k \in 1..Len(compilers), NEW a, Waits(A, k, a), k # Top(A) \/ a # addr
        PROVE  Waits(A, k, a)'
    <3>1. ASSUME BreakAt(k, a)
          PROVE  BreakAt(k, a)'
      <4>1. PICK j \in 1..n : breaks[j].id = compilers[k].id /\ breaks[j].addr = a
        BY <3>1 DEF BreakAt
      <4>2. j # n
        BY <1>1, <1>3, <2>3, <2>5, <4>1
      <4>3. j \in 1..Len(breaks') /\ breaks'[j] = breaks[j]
        BY <1>3, <4>2
      <4>4. compilers'[k].id = compilers[k].id
        BY <1>1, <1>5, <1>6, <2>3 DEF Grown
      <4>5. QED
        BY <4>1, <4>3, <4>4 DEF BreakAt
    <3>2. BreakAt(k, a) => Waits(A, k, a)'
      BY <3>1 DEF Waits
    <3>3. QED
      BY <1>4, <2>5, <3>2, AroundItself, FrameWaits
  <2>6. \A k \in 1..Len(compilers') : \A a \in 1..Len(compilers'[k].code) : StillAims(A, A, k, a)
    <3>1. ASSUME NEW a \in 1..Len(d.code)
          PROVE  \/ /\ a \in 1..Len(c.code) /\ d.code[a] = c.code[a]
                    /\ Waits(A, Top(A), a) => Waits(A, Top(A), a)'
                 \/ d.code[a].arg \in 1..Here(d)
      <4>1. a \in 1..Len(c.code)
        BY <1>5
      <4>2. a # addr => (Waits(A, Top(A), a) => Waits(A, Top(A), a)')
        BY <2>3, <2>5
      <4>3. QED
        BY <1>5, <4>1, <4>2
    <3>2. QED
      BY <1>1, <1>2, <1>5, <1>6, <2>5, <3>1, OthersAim
  <2>7. QED
    BY <2>2, <2>4, <2>6 DEF Rearranged
<1>8. QED
  BY <1>2, <1>4, <1>6, <1>7, RearrangedAgrees

LEMMA PatchBreakAgrees ==
  ASSUME NEW A \in State, A.alive, Agrees(A), PatchBreak
  PROVE  Agrees(A)'
<1>1. Matches(A) /\ Matches(A)' /\ Typed /\ Typed' /\ Levels(A) /\ Current \in CompilerRecord
  BY PatchBreakMatches, CurrentLocals DEF Agrees, Matches
<1>2. CASE Last(breaks).id = Current.id
  BY <1>2, OwnBreakAgrees
<1>3. CASE Last(breaks).id # Current.id
  <2>1. SUFFICES ASSUME Regular'
                 PROVE  FALSE
    BY <1>1 DEF Agrees
  <2>2. PICK d : d = [Current EXCEPT !.corrupt = TRUE]
    OBVIOUS
  <2>3. d.amid = Current.amid /\ d.code = Current.code /\ d \in CompilerRecord
    BY <1>1, <2>2 DEF CompilerRecord
  <2>4. Update(d) /\ functions' = functions
    BY <1>3, <2>2 DEF PatchBreak
  <2>5. Regular
    <3>1. ASSUME NEW k \in 1..Len(compilers)
          PROVE  \E e \in Range(compilers)' \cup Range(functions)' : Marks(compilers[k], e)
      <4>1. compilers \in Seq(CompilerRecord) /\ compilers' \in Seq(CompilerRecord)
            /\ Len(compilers') = Len(compilers)
        BY <1>1, <2>3, <2>4, UpdateType DEF Typed
      <4>2. compilers[k] \in CompilerRecord /\ Len(compilers[k].code) \in Nat
            /\ compilers[k].code \in Seq(InstrRecord)
        BY <1>1, Sizes DEF Sized
      <4>3. compilers'[k].amid = compilers[k].amid /\ compilers'[k].code = compilers[k].code
        <5>1. compilers' = [compilers EXCEPT ![Len(compilers)] = d]
          BY <2>4 DEF Update
        <5>2. compilers'[k] = IF k = Len(compilers) THEN d ELSE compilers[k]
          BY <4>1, <5>1
        <5>3. QED
          BY <2>3, <5>2 DEF Current

      <4>4. compilers'[k] \in Range(compilers)'
        BY <4>1 DEF Range
      <4>5. Marks(compilers[k], compilers'[k])
        BY <4>2, <4>3 DEF Marks
      <4>6. QED
        BY <4>4, <4>5
    <3>2. QED
      BY <1>1, <2>1, <2>4, <3>1, RegularBefore
  <2>6. BreaksOwn(A)
    BY <2>5 DEF Agrees, Jumps, Open
  <2>7. QED
    BY <1>1, <1>3, <2>6, TakenBreak
<1>4. QED
  BY <1>2, <1>3

LEMMA BreaksPatchedAgrees ==
  ASSUME NEW A \in State, NEW B \in State, Agrees(A), Effect(Head(agenda), A, B), BreaksPatched
  PROVE  Agrees(B)'
<1>1. A.alive /\ PatchBreaksEffect(A, B)
  BY DEF BreaksPatched, Making, Doing, Effect
<1>2. Matches(A) /\ Matches(B)' /\ Typed /\ Typed' /\ Levels(A) /\ Current.scope_depth = A.depth
  BY <1>1, BreaksPatchedMatches, CurrentLocals DEF Agrees, Matches, Scoped
<1>3. UNCHANGED <<compilers, functions, saved, breaks, continueJump>> /\ ~BreaksLoop
  BY DEF BreaksPatched, unitVars
<1>4. AllGrown /\ Len(compilers') = Len(compilers)
  BY <1>2, <1>3, StillGrown
<1>5. SameOuter(A, B) /\ SamePlaces(A, B) /\ B.cont = A.cont /\ Top(B) = Top(A)
      /\ A.loop # -1 /\ B.loop = (IF A.loop = A.depth THEN -1 ELSE A.loop)
  BY <1>1 DEF PatchBreaksEffect, SameOuter, Top
<1>6. ASSUME Open(A)
      PROVE  Rearranged(A, B)
  <2>1. BreaksOwn(A) /\ PlacesStay(A)
    BY <1>1, <1>2, <1>4, <1>6, GrownPlaces DEF Open
  <2>2. PlacesIn(B)' /\ Nested(B)
    BY <1>1, <1>2, <1>3, <1>5, <1>6, <2>1, SamePlacesIn
  <2>3. A.loop = A.depth => Len(breaks) = 0
    <3>1. SUFFICES ASSUME A.loop = A.depth, breaks # <<>>
                   PROVE  FALSE
      BY <1>2 DEF Typed
    <3>2. breaks \in Seq(BreakRecord)
      BY <1>2 DEF Typed
    <3>3. Len(breaks) \in Nat \ {0} /\ Last(breaks) = breaks[Len(breaks)]
          /\ Last(breaks) \in BreakRecord
      BY <3>1, <3>2, FrontFacts
    <3>4. Last(breaks).depth > A.depth
      BY <2>1, <3>1, <3>3 DEF BreaksOwn
    <3>5. Last(breaks).depth \in Nat /\ A.depth \in Nat
      BY <3>3 DEF BreakRecord, State
    <3>6. Last(breaks).depth >= Current.scope_depth + 1
      BY <1>2, <3>4, <3>5
    <3>7. QED
      BY <1>3, <3>1, <3>6 DEF BreaksLoop
  <2>4. BreaksOwn(B)'
    <3>1. 1..0 = {}
      OBVIOUS
    <3>2. CASE A.loop = A.depth
      BY <1>3, <2>3, <3>1, <3>2 DEF BreaksOwn
    <3>3. CASE A.loop # A.depth
      BY <1>3, <1>5, <2>1, <3>3 DEF BreaksOwn
    <3>4. QED
      BY <3>2, <3>3
  <2>5. ASSUME NEW k \in 1..Len(compilers), NEW a, Waits(A, k, a)
        PROVE  Waits(B, k, a)'
    BY <1>3, <1>5, <2>5, WaitsStill
  <2>6. QED
    BY <1>2, <1>3, <2>2, <2>4, <2>5, StillAiming DEF Rearranged
<1>7. QED
  BY <1>1, <1>2, <1>3, <1>4, <1>5, <1>6, RearrangedAgrees

-----------------------------------------------------------------------------
(* Scopes, and calls that write no instruction *)

LEMMA ScopingAgrees ==
  ASSUME NEW A \in State, NEW B \in State, A.alive, Agrees(A), Matches(B)',
         SameOuter(A, B), SamePlaces(A, B), B.cont = A.cont, B.loop = A.loop,
         NEW c, Update(c), SameCode(Current, c), OnlyCompilers
  PROVE  Agrees(B)'
<1>1. Current \in CompilerRecord
  BY CurrentLocals DEF Agrees
<1>2. Grown(Current, c) /\ Aims(Current, c)
  BY <1>1, SameCodeGrown
<1>3. QED
  BY <1>2, CurrentAgrees

LEMMA BeginScopeAgrees ==
  ASSUME NEW A \in State, NEW B \in State, Agrees(A), Effect(Head(agenda), A, B), BeginScope
  PROVE  Agrees(B)'
<1> DEFINE c == Current
           e == [c EXCEPT !.scope_depth = @ + 1, !.braces = Append(@, Len(c.env))]
<1>1. A.alive /\ BeginScopeEffect(A, B)
  BY DEF BeginScope, Making, Doing, Effect
<1>2. c \in CompilerRecord /\ Matches(B)'
  BY <1>1, CurrentLocals, BeginScopeMatches DEF Agrees
<1>3. SameOuter(A, B) /\ SamePlaces(A, B) /\ B.cont = A.cont /\ B.loop = A.loop
  BY <1>1 DEF BeginScopeEffect
<1>4. SameCode(c, e)
  BY <1>2 DEF CompilerRecord, SameCode
<1>5. Update(e) /\ OnlyCompilers
  BY DEF BeginScope
<1> HIDE DEF e
<1>6. QED
  BY <1>1, <1>2, <1>3, <1>4, <1>5, ScopingAgrees

LEMMA EndScopeAgrees ==
  ASSUME NEW A \in State, NEW B \in State, Agrees(A), Effect(Head(agenda), A, B), EndScope
  PROVE  Agrees(Ended(A))'
<1> DEFINE c == Current  M == Ended(A)
           e == [c EXCEPT !.scope_depth = @ - 1, !.braces = Front(@),
                          !.env = SubSeq(@, 1, Last(c.braces))]
<1>1. A.alive /\ EndScopeEffect(A, B)
  BY DEF EndScope, Doing, Effect
<1>2. c \in CompilerRecord /\ M \in State /\ Matches(M)'
  BY <1>1, CurrentLocals, EndScopeMatches DEF Agrees
<1>3. SameOuter(A, M) /\ SamePlaces(A, M) /\ M.cont = A.cont /\ M.loop = A.loop
  <2>1. A.depth \in Nat \ {0}
    BY <1>1 DEF EndScopeEffect, Ending, State
  <2>2. A.depth - 1 \in Nat /\ "dropping" \in Stages /\ {} \in SUBSET Binding /\ 0 \in Nat
    BY <2>1 DEF Stages
  <2>3. IsPlain(A, M, 0, "dropping", A.depth - 1, {})
    BY <2>2, PlainState DEF Ended
  <2> HIDE DEF M
  <2>4. QED
    BY <2>3 DEF IsPlain
<1>4. SameCode(c, e)
  BY <1>2 DEF CompilerRecord, SameCode
<1>5. Update(e) /\ OnlyCompilers
  BY DEF EndScope
<1> HIDE DEF e, M
<1>6. Agrees(M)'
  BY <1>1, <1>2, <1>3, <1>4, <1>5, ScopingAgrees
<1>7. QED
  BY <1>6 DEF M

LEMMA DropLocalAgrees ==
  ASSUME NEW A \in State, NEW B, Agrees(A), Effect(Head(agenda), A, B), DropLocal
  PROVE  Agrees(A)'
<1> DEFINE c == Current  shorter == [c EXCEPT !.locals = Front(@)]
           op == IF LastLocal(c).is_captured THEN "CLOSE_UPVALUE" ELSE "POP"
           instr == Instruction(shorter, op, 0)
           d == [c EXCEPT !.locals = Front(@), !.code = Append(@, instr)]
<1>1. A.alive /\ DropLocalsEffect(A, B) /\ Matches(A)'
  BY DropLocalMatches DEF DropLocal, Doing, Effect, Agrees
<1>2. c \in CompilerRecord /\ c.code \in Seq(InstrRecord)
  BY <1>1, CurrentLocals, CompilerParts DEF Agrees
<1>3. instr.op \notin JumpOps
  BY InstructionOp DEF JumpOps
<1>4. Update(DropLast(c)) /\ OnlyCompilers
  BY DEF DropLocal
<1>5. /\ DropLast(c).id = c.id /\ DropLast(c).corrupt = c.corrupt /\ DropLast(c).amid = c.amid
      /\ DropLast(c).code = Append(c.code, instr)
  <2>1. DropLast(c) = Written(shorter, instr)
    BY DEF DropLast, Emitted
  <2> HIDE DEF instr
  <2>2. QED
    BY <1>2, <2>1 DEF Written, CompilerRecord
<1> HIDE DEF instr
<1>6. /\ Len(Append(c.code, instr)) = Len(c.code) + 1 /\ Len(c.code) \in Nat
      /\ Append(c.code, instr)[Len(c.code) + 1] = instr
      /\ \A i \in 1..Len(c.code) : Append(c.code, instr)[i] = c.code[i]
  BY <1>2
<1>7. Grown(c, DropLast(c)) /\ Aims(c, DropLast(c))
  <2>1. Grown(c, DropLast(c))
    BY <1>5, <1>6 DEF Grown
  <2>2. Aims(c, DropLast(c))
    BY <1>3, <1>5, <1>6 DEF Aims
  <2>3. QED
    BY <2>1, <2>2
<1>8. SameOuter(A, A) /\ SamePlaces(A, A)
  BY AroundItself
<1>9. QED
  BY <1>1, <1>4, <1>7, <1>8, CurrentAgrees

LEMMA ParseVariableAgrees ==
  ASSUME NEW A \in State, NEW B \in State, Agrees(A), Effect(Head(agenda), A, B), ParseVariable
  PROVE  Agrees(B)'
<1> DEFINE c == Current
           e == [c EXCEPT !.locals = Append(@, Local(Arg(1), Uninitialized, Here(c), 0))]
<1>1. A.alive /\ SameAround(A, B)
  BY DEF ParseVariable, Making, Doing, Effect, Arg, ParseVariableEffect
<1>2. c \in CompilerRecord /\ Matches(B)'
  BY <1>1, CurrentLocals, ParseVariableMatches DEF Agrees
<1>3. SameOuter(A, B) /\ SamePlaces(A, B) /\ B.cont = A.cont /\ B.loop = A.loop
  BY <1>1 DEF SameAround, SameScopes
<1>4. SameCode(c, e)
  BY <1>2 DEF CompilerRecord, SameCode
<1>5. Update(e) /\ OnlyCompilers
  BY DEF ParseVariable
<1> HIDE DEF e
<1>6. QED
  BY <1>1, <1>2, <1>3, <1>4, <1>5, ScopingAgrees

LEMMA InitializedCode ==
  ASSUME NEW c \in CompilerRecord
  PROVE  SameCode(c, Initialized(c))
BY DEF CompilerRecord, SameCode, Initialized

LEMMA MarkInitializedAgrees ==
  ASSUME NEW A \in State, NEW B \in State, Agrees(A), Effect(Head(agenda), A, B), MarkInitialized
  PROVE  Agrees(B)'
<1>1. A.alive /\ SameAround(A, B)
  BY DEF MarkInitialized, Making, Doing, Effect, MarkInitializedEffect
<1>2. SameCode(Current, Initialized(Current)) /\ Matches(B)'
  BY <1>1, CurrentLocals, InitializedCode, MarkInitializedMatches DEF Agrees
<1>3. SameOuter(A, B) /\ SamePlaces(A, B) /\ B.cont = A.cont /\ B.loop = A.loop
  BY <1>1 DEF SameAround, SameScopes
<1>4. Update(Initialized(Current)) /\ OnlyCompilers
  BY DEF MarkInitialized
<1>5. QED
  BY <1>1, <1>2, <1>3, <1>4, ScopingAgrees

LEMMA DefinedAgrees ==
  ASSUME NEW A \in State, NEW B \in State, Agrees(A), Effect(Head(agenda), A, B), Defined
  PROVE  Agrees(B)'
<1> DEFINE c == Current  e == [c EXCEPT !.locals[Len(c.locals)].to = Len(c.code)]
<1>1. A.alive /\ SameAround(A, B)
  BY DEF Defined, Making, Doing, Effect, DefinedEffect
<1>2. c \in CompilerRecord /\ Matches(B)'
  BY <1>1, CurrentLocals, DefinedMatches DEF Agrees
<1>3. SameOuter(A, B) /\ SamePlaces(A, B) /\ B.cont = A.cont /\ B.loop = A.loop
  BY <1>1 DEF SameAround, SameScopes
<1>4. SameCode(c, e)
  BY <1>2 DEF CompilerRecord, SameCode
<1>5. Update(e) /\ OnlyCompilers
  BY DEF Defined
<1> HIDE DEF e
<1>6. QED
  BY <1>1, <1>2, <1>3, <1>4, <1>5, ScopingAgrees

LEMMA ParameterAgrees ==
  ASSUME NEW A \in State, NEW B \in State, Agrees(A), Effect(Head(agenda), A, B), Parameter
  PROVE  Agrees(B)'
<1> DEFINE c == Current  slot == Len(c.locals) + 1
           e == [c EXCEPT !.arity = @ + 1,
                          !.locals = Append(@, Local(Arg(1), Uninitialized, -slot, -slot))]
<1>1. A.alive /\ SameAround(A, B)
  BY DEF Parameter, Making, Doing, Effect, Arg, ParameterEffect
<1>2. c \in CompilerRecord /\ Matches(B)'
  BY <1>1, CurrentLocals, ParameterMatches DEF Agrees
<1>3. SameOuter(A, B) /\ SamePlaces(A, B) /\ B.cont = A.cont /\ B.loop = A.loop
  BY <1>1 DEF SameAround, SameScopes
<1>4. /\ Initialized(e).id = e.id /\ Initialized(e).corrupt = e.corrupt
      /\ Initialized(e).amid = e.amid /\ Initialized(e).code = e.code
  BY <1>2 DEF CompilerRecord, Initialized
<1>5. SameCode(c, Initialized(e))
  <2>1. e.id = c.id /\ e.corrupt = c.corrupt /\ e.amid = c.amid /\ e.code = c.code
    BY <1>2 DEF CompilerRecord
  <2> HIDE DEF e
  <2>2. QED
    BY <1>4, <2>1 DEF SameCode
<1>6. Update(Initialized(e)) /\ OnlyCompilers
  BY DEF Parameter
<1> HIDE DEF e
<1>7. QED
  BY <1>1, <1>2, <1>3, <1>5, <1>6, ScopingAgrees

LEMMA ScopeEndedAgrees ==
  ASSUME NEW A \in State, NEW B \in State, Agrees(A), Effect(Head(agenda), A, B), ScopeEnded
  PROVE  Agrees(B)'
<1>1. A.alive /\ SameAround(A, B) /\ UNCHANGED unitVars
  BY DEF ScopeEnded, Making, Doing, Effect, DropLocalsEffect
<1>2. Matches(B)'
  BY ScopeEndedMatches DEF Agrees
<1>3. QED
  BY <1>1, <1>2, UnchangedAgrees

LEMMA NoMoreParametersAgrees ==
  ASSUME NEW A \in State, NEW B \in State, Agrees(A), Effect(Head(agenda), A, B),
         NoMoreParameters
  PROVE  Agrees(B)'
<1>1. A.alive /\ SameAround(A, B) /\ UNCHANGED unitVars
  BY DEF NoMoreParameters, Making, Doing, Effect, ParametersEffect
<1>2. Matches(B)'
  BY NoMoreParametersMatches DEF Agrees
<1>3. QED
  BY <1>1, <1>2, UnchangedAgrees

LEMMA BlockEndsAgrees ==
  ASSUME NEW A \in State, NEW B \in State, Agrees(A), Effect(Head(agenda), A, B), BlockEnds
  PROVE  Agrees(B)'
<1>1. A.alive /\ SameAround(A, B) /\ UNCHANGED unitVars
  BY DEF BlockEnds, Making, Doing, Effect, StatementEffect
<1>2. Matches(B)'
  BY BlockEndsMatches DEF Agrees
<1>3. QED
  BY <1>1, <1>2, UnchangedAgrees

-----------------------------------------------------------------------------
(* Functions and the jumps around them *)

\* The places stay while a function starts or ends.
LEMMA PlacesKept ==
  ASSUME NEW A \in State, NEW B \in State, Typed, Typed', AllGrown, PlacesIn(A), Frames(A),
         SamePlaces(A, B), B.cont = A.cont, UNCHANGED <<saved, continueJump>>,
         NEW m \in Nat, \A k \in 0..m : IdAt(k)' = IdAt(k), A.cont[1] \in 0..m,
         \A i \in 0..Len(A.below) : FrameAt(A, i).level \in 0..m /\ FrameAt(A, i).kept[1] \in 0..m
  PROVE  PlacesIn(B)'
<1>1. B.below = A.below /\ \A i : FrameAt(B, i) = FrameAt(A, i)
  BY SameFrameAt
<1>2. PlaceIn(continueJump)'
  <2>1. PICK place : place = continueJump
    OBVIOUS
  <2>2. place \in PlaceRecord /\ PlaceIn(place)
    BY <2>1 DEF Typed, PlacesIn
  <2>3. PlaceIn(place)'
    BY <2>2, GrownPlaceIn
  <2>4. QED
    BY <2>1, <2>3
<1>3. continueJump'.id = IdAt(B.cont[1])'
  BY DEF PlacesIn
<1>4. ASSUME NEW i \in 1..Len(A.below)
      PROVE  FrameIn(i, FrameAt(B, i))'
  <2>1. PICK frame : frame = FrameAt(A, i)
    OBVIOUS
  <2>2. i \in 0..Len(A.below) /\ Len(A.below) \in Nat
    BY FrameAtType
  <2>3. frame \in Frame /\ frame.level \in 0..m /\ frame.kept[1] \in 0..m
    BY <2>1, <2>2, FrameAtType
  <2>4. i \in 1..Len(saved) /\ saved'[i] = saved[i] /\ FrameIn(i, frame)
    BY <2>1 DEF PlacesIn, Frames
  <2>5. FrameIn(i, frame)'
    BY <2>3, <2>4, GrownFrameIn
  <2>6. QED
    BY <1>1, <2>1, <2>5
<1>5. QED
  BY <1>1, <1>2, <1>3, <1>4 DEF PlacesIn

LEMMA CompilerInitAgrees ==
  ASSUME NEW A \in State, NEW B \in State, Agrees(A), Effect(Head(agenda), A, B), CompilerInit
  PROVE  Agrees(B)'
<1> DEFINE n == Len(compilers)
           new == NewCompiler(Created + 1, Arg(1), breaks # <<>>)
<1>1. A.alive /\ CompilerInitEffect(Arg(1), A, B)
  BY DEF CompilerInit, Making, Doing, Effect, Arg
<1>2. /\ Matches(A) /\ Matches(B)' /\ Typed /\ Typed' /\ Sized /\ Levels(A) /\ Frames(A)
  BY <1>1, CompilerInitMatches, Sizes DEF Agrees, Matches
<1>3. n = Top(A) /\ n \in Nat \ {0} /\ Len(A.outer) = n - 1 /\ compilers \in Seq(CompilerRecord)
  BY <1>2, CurrentType DEF Typed
<1>4. /\ new \in CompilerRecord /\ new.code = <<>> /\ new.id = Created + 1
      /\ new.amid = (breaks # <<>>) /\ ~new.corrupt
  <2>1. Created + 1 \in Nat /\ (breaks # <<>>) \in BOOLEAN /\ Arg(1) \in Kinds
    BY <1>1, <1>2 DEF Sized, CompilerInitEffect
  <2>2. /\ new \in CompilerRecord /\ new.code = <<>> /\ new.id = Created + 1
    BY <2>1, NewCompilerType, Zenon
  <2>3. new.amid = (breaks # <<>>) /\ ~new.corrupt
    BY Zenon DEF NewCompiler
  <2>4. QED
    BY <2>2, <2>3
<1>5. compilers' = Append(compilers, new) /\ OnlyCompilers
  <2>1. Len(functions) + Len(compilers) + 1 = Created + 1
    BY DEF Created
  <2>2. QED
    BY <2>1, Zenon DEF CompilerInit
<1> HIDE DEF new
<1>6. /\ Len(compilers') = n + 1
      /\ compilers'[n + 1] = new /\ \A k \in 1..n : compilers'[k] = compilers[k]
  BY <1>3, <1>4, <1>5, AppendFacts
<1>7. Created' = Created + 1 /\ Created \in Nat
  BY <1>2, <1>3, <1>5, <1>6 DEF Created, OnlyCompilers, Sized
<1>8. AllGrown
  <2>1. ASSUME NEW k \in 1..n PROVE Grown(compilers[k], compilers'[k])
    <3>1. compilers[k] \in CompilerRecord /\ SameCode(compilers[k], compilers'[k])
      BY <1>2, <1>6 DEF Sized, SameCode
    <3>2. QED
      BY <3>1, SameCodeGrown
  <2>2. compilers'[n + 1].id > Created
    BY <1>4, <1>6, <1>7
  <2>3. \A k \in 1..n + 1 : k <= n => k \in 1..n
    BY <1>3
  <2>4. \A k \in 1..n + 1 : ~(k <= n) => k = n + 1
    BY <1>3
  <2>5. QED
    BY <1>6, <1>7, <2>1, <2>2, <2>3, <2>4 DEF AllGrown
<1>9. B.alive = TRUE /\ SamePlaces(A, B) /\ B.cont = A.cont /\ B.loop = -1
  BY <1>1 DEF CompilerInitEffect
<1>10. Top(B) = n + 1
  <2>1. A.outer \in Seq(Level) /\ B.outer = Append(A.outer, LevelOf(A))
    BY <1>1 DEF CompilerInitEffect, State
  <2>2. QED
    BY <1>3, <2>1 DEF Top
<1>11. ASSUME Regular'
       PROVE  Jumps(B)'
  <2>1. Regular
    BY <1>2, <1>3, <1>5, <1>6, <1>8, <1>11, GrownRegular DEF OnlyCompilers
  <2>2. Finished /\ Open(A)
    BY <1>1, <2>1 DEF Agrees, Jumps
  <2>3. breaks' = <<>>
    <3>1. compilers'[n + 1] \in Range(compilers)'
      <4>1. n + 1 \in DOMAIN compilers'
        BY <1>2, <1>3, <1>6 DEF Typed
      <4>2. QED
        BY <4>1 DEF Range
    <3>2. ~new.amid
      BY <1>6, <1>11, <3>1 DEF Regular
    <3>3. QED
      BY <1>4, <1>5, <3>2 DEF OnlyCompilers
  <2>4. Ids' /\ \A k \in 0..n : IdAt(k)' = IdAt(k)
    <3>1. Ids
      BY <2>2 DEF Open
    <3>2. compilers'[Len(compilers')].id <= Created' /\ Len(compilers') <= n + 1
      BY <1>3, <1>4, <1>6, <1>7
    <3>3. /\ Ids' /\ \A k \in 0..Len(compilers') : k <= n => IdAt(k)' = IdAt(k)
      BY <1>2, <1>8, <3>1, <3>2, GrownIds
    <3>4. QED
      BY <1>3, <1>6, <3>3
  <2>5. A.level \in 0..n /\ A.cont[1] \in 0..n
    BY <1>3, <2>2 DEF Open, Nested, State
  <2>6. B.below = A.below /\ B.level = A.level /\ \A i : FrameAt(B, i) = FrameAt(A, i)
    BY <1>9, SameFrameAt DEF SamePlaces
  <2>7. Nested(B)
    <3>1. B.level <= n + 1 /\ B.cont[1] <= n + 1
      BY <1>3, <1>9, <2>5, <2>6
    <3>2. QED
      BY <1>10, <2>2, <2>6, <3>1 DEF Open, Nested
  <2>8. PlacesIn(B)'
    <3>1. \A i \in 0..Len(A.below) : FrameAt(A, i).level \in 0..n /\ FrameAt(A, i).kept[1] \in 0..n
      BY <1>3, <2>2, NestedLevels DEF Open
    <3>2. PlacesIn(A) /\ UNCHANGED <<saved, continueJump>>
      BY <1>5, <2>2 DEF Open, OnlyCompilers
    <3>3. n \in Nat
      BY <1>3
    <3> HIDE DEF n
    <3>4. QED
      BY <1>2, <1>8, <1>9, <2>4, <2>5, <3>1, <3>2, <3>3, PlacesKept
  <2>9. BreaksOwn(B)'
    <3>1. Len(<<>>) = 0 /\ 1..0 = {}
      OBVIOUS
    <3>2. QED
      BY <2>3, <3>1 DEF BreaksOwn
  <2>10. Aimed(B)'
    <3>1. ASSUME NEW k \in 1..n, NEW a \in 1..Len(compilers'[k].code)
          PROVE  StillAims(A, B, k, a)
      <4>1. compilers'[k] = compilers[k] /\ UNCHANGED <<saved, breaks>>
        BY <1>5, <1>6 DEF OnlyCompilers
      <4>2. Waits(A, k, a) => Waits(B, k, a)'
        BY <1>9, <4>1, WaitsStill
      <4>3. QED
        BY <4>1, <4>2 DEF StillAims
    <3>2. \A k \in 1..Len(compilers') :
            IF k <= n THEN \A a \in 1..Len(compilers'[k].code) : StillAims(A, B, k, a)
            ELSE ~compilers'[k].corrupt /\ compilers'[k].code = <<>>
      <4>1. \A k \in 1..n + 1 : k \in 1..n \/ k = n + 1
        BY <1>3
      <4>2. ~(n + 1 <= n) /\ \A k \in 1..n : k <= n
        BY <1>3
      <4>3. QED
        BY <1>4, <1>6, <3>1, <4>1, <4>2
    <3>3. QED
      BY <1>2, <1>8, <2>2, <3>2, GrownAimed DEF Open
  <2>11. Finished'
    BY <1>5, <2>2 DEF Finished, OnlyCompilers
  <2>12. QED
    BY <2>4, <2>7, <2>8, <2>9, <2>10, <2>11 DEF Jumps, Open
<1>12. QED
  BY <1>2, <1>11 DEF Agrees

LEMMA StartedCode ==
  ASSUME NEW c \in CompilerRecord, c.locals # <<>>
  PROVE  Started(c) \in CompilerRecord /\ SameCode(c, Started(c)) /\ Started(c).locals = c.locals
<1>1. Started(c) \in CompilerRecord /\ SameLocals(c, Started(c)) /\ Started(c).code = c.code
  BY StartedType
<1>2. /\ Started(c).id = c.id /\ Started(c).corrupt = c.corrupt /\ Started(c).amid = c.amid
      /\ Started(c).locals = c.locals
  BY DEF Started, CompilerRecord
<1>3. QED
  BY <1>1, <1>2 DEF SameCode

\* The code of a finished function: what was there, and the two instructions
\* of emit_return.
Completed(c, d) ==
  /\ d.amid = c.amid /\ d.corrupt = c.corrupt /\ d.code \in Seq(InstrRecord)
  /\ Len(c.code) \in Nat /\ Len(d.code) = Len(c.code) + 2
  /\ \A a \in 1..Len(c.code) : d.code[a] = c.code[a]
  /\ \A a \in Len(c.code) + 1..Len(c.code) + 2 : d.code[a].op \notin JumpOps

LEMMA ReturnedCode ==
  ASSUME NEW c \in CompilerRecord, c.locals # <<>>
  PROVE  Completed(c, Returned(c))
<1> DEFINE s == Started(c)
<1>1. s \in CompilerRecord /\ SameCode(c, s) /\ s.locals # <<>>
  BY StartedCode
<1> DEFINE i == Instruction(s, "CONSTANT", 0)  t == Written(s, i)
<1> HIDE DEF s
<1>2. 0 \in Int \cup Seq(UpvalueRecord) /\ "CONSTANT" \in AllOps /\ "RETURN" \in AllOps
  BY DEF AllOps
<1>3. i \in InstrRecord /\ i.op \notin JumpOps
  BY <1>1, <1>2, InstructionType DEF Instruction, JumpOps
<1> HIDE DEF i
<1>4. /\ t \in CompilerRecord /\ SameLocals(s, t) /\ Grown(s, t) /\ Len(s.code) \in Nat
      /\ Len(t.code) = Len(s.code) + 1 /\ t.code[Len(s.code) + 1] = i
      /\ \A a \in 1..Len(s.code) : t.code[a] = s.code[a]
  BY <1>1, <1>3, WrittenType, EmittedGrown
<1> DEFINE j == Instruction(t, "RETURN", 0)  u == Written(t, j)
<1> HIDE DEF t
<1>5. t.locals # <<>>
  BY <1>1, <1>4 DEF SameLocals
<1>6. j \in InstrRecord /\ j.op \notin JumpOps
  BY <1>2, <1>4, <1>5, InstructionType DEF Instruction, JumpOps
<1> HIDE DEF j
<1>7. /\ u \in CompilerRecord /\ Grown(t, u)
      /\ Len(u.code) = Len(t.code) + 1 /\ u.code[Len(t.code) + 1] = j
      /\ \A a \in 1..Len(t.code) : u.code[a] = t.code[a]
  <2>1. u \in CompilerRecord
    BY <1>4, <1>6, WrittenType
  <2>2. /\ Grown(t, u) /\ Here(t) = Len(t.code) + 1 /\ Len(u.code) = Here(t)
        /\ u.code[Here(t)] = j /\ \A a \in 1..Len(t.code) : u.code[a] = t.code[a]
    BY <1>4, <1>6, EmittedGrown
  <2>3. QED
    BY <2>1, <2>2
<1> HIDE DEF u
<1>8. Returned(c) = u
  BY DEF Returned, Emitted, u, j, t, i, s
<1>9. u.amid = c.amid /\ u.corrupt = c.corrupt /\ u.code \in Seq(InstrRecord)
  BY <1>1, <1>4, <1>7, CompilerParts DEF SameCode, Grown
<1> DEFINE m == Len(c.code)
<1>10. s.code = c.code
  BY <1>1 DEF SameCode
<1>11. m \in Nat /\ Len(t.code) = m + 1 /\ Len(u.code) = m + 2
  BY <1>4, <1>7, <1>10
<1>12. t.code[m + 1] = i /\ \A a \in 1..m : t.code[a] = c.code[a]
  BY <1>4, <1>10
<1>13. u.code[m + 2] = j /\ \A a \in 1..m + 1 : u.code[a] = t.code[a]
  BY <1>7, <1>11
<1> HIDE DEF m
<1>14. (\A a \in 1..m : a \in 1..m + 1) /\ m + 1 \in 1..m + 1
       /\ \A a \in m + 1..m + 2 : a = m + 1 \/ a = m + 2
  BY <1>11
<1>15. \A a \in 1..m : u.code[a] = c.code[a]
  BY <1>12, <1>13, <1>14
<1>16. \A a \in m + 1..m + 2 : u.code[a].op \notin JumpOps
  BY <1>3, <1>6, <1>12, <1>13, <1>14
<1>17. QED
  BY <1>8, <1>9, <1>11, <1>15, <1>16 DEF Completed, m

\* The function ends: it is recorded, and the closure is written into the code
\* of the one around it.
LEMMA FunctionEnds ==
  ASSUME NEW A \in State, A.alive, Matches(A), EndCompilation, NEW n, n = Len(compilers)
  PROVE  /\ Len(compilers') = n - 1
         /\ \A k \in 1..n - 1 : /\ Grown(compilers[k], compilers'[k])
                                /\ Aims(compilers[k], compilers'[k])
         /\ \E f \in FunctionRecord : functions' = Append(functions, f) /\ Completed(Current, f)
<1>1. /\ Typed /\ Levels(A) /\ Current \in CompilerRecord /\ Current.locals # <<>>
      /\ compilers \in Seq(CompilerRecord)
  BY CurrentLocals DEF Typed
<1>2. n = Top(A) /\ n \in Nat \ {0} /\ Len(A.outer) = n - 1
  BY <1>1, CurrentType
<1> DEFINE c == Returned(Current)
<1>3. c \in CompilerRecord /\ Completed(Current, c)
  BY <1>1, ReturnedType, ReturnedCode
<1> HIDE DEF c
<1>4. \E f \in FunctionRecord : functions' = Append(functions, f) /\ Completed(Current, f)
  <2> DEFINE f == [code |-> c.code, starts |-> c.starts, arity |-> c.arity,
                   amid |-> c.amid, corrupt |-> c.corrupt]
  <2>1. f \in FunctionRecord
    BY <1>3, CompilerParts DEF FunctionRecord
  <2>2. functions' = Append(functions, f)
    BY DEF EndCompilation, c
  <2>3. f.code = c.code /\ f.amid = c.amid /\ f.corrupt = c.corrupt
    OBVIOUS
  <2> HIDE DEF f
  <2>4. Completed(Current, f)
    BY <1>3, <2>3 DEF Completed
  <2>5. QED
    BY <2>1, <2>2, <2>4
<1> DEFINE outer == Front(compilers)
<1>5. compilers' = IF outer = <<>> THEN <<>>
                   ELSE [outer EXCEPT ![Len(outer)] = Emitted(@, "CLOSURE", c.upvalues)]
  BY DEF EndCompilation, c
<1>6. /\ outer \in Seq(CompilerRecord) /\ Len(outer) = n - 1
      /\ \A k \in 1..n - 1 : outer[k] = compilers[k]
  <2>1. compilers # <<>>
    BY <1>1, <1>2, NotEmpty
  <2>2. QED
    BY <1>1, <2>1, FrontFacts
<1>7. c.upvalues \in Seq(UpvalueRecord)
  BY <1>3, CompilerParts
<1> HIDE DEF outer
<1>8. CASE n = 1
  <2>1. outer = <<>> /\ Len(<<>>) = 0 /\ 1..0 = {}
    BY <1>2, <1>6, <1>8, NotEmpty
  <2>2. QED
    BY <1>4, <1>5, <1>8, <2>1
<1>9. CASE n > 1
  <2> DEFINE p == outer[n - 1]
             i == Instruction(p, "CLOSURE", c.upvalues)
             e == Written(p, i)
  <2>1. outer # <<>> /\ n - 1 \in 1..n - 1 /\ n - 1 \in Nat
    BY <1>2, <1>6, <1>9, NotEmpty
  <2>2. p \in CompilerRecord /\ p = compilers[n - 1] /\ p.locals # <<>>
    <3>1. p \in CompilerRecord /\ p = compilers[n - 1]
      BY <1>1, <1>6, <2>1
    <3>2. Scoped(p, A.outer[n - 1].depth, A.outer[n - 1].stage, A.outer[n - 1].knows)
      BY <1>1, <1>2, <2>1, <3>1 DEF Levels
    <3>3. QED
      BY <3>1, <3>2, ScopedParts
  <2> HIDE DEF p
  <2>3. i \in InstrRecord /\ i.op \notin JumpOps
    <3>1. "CLOSURE" \in AllOps /\ c.upvalues \in Int \cup Seq(UpvalueRecord)
      BY <1>7 DEF AllOps
    <3>2. QED
      BY <2>2, <3>1, InstructionType DEF Instruction, JumpOps
  <2>4. compilers' = [outer EXCEPT ![n - 1] = e]
    BY <1>5, <1>6, <2>1 DEF p, Emitted
  <2> HIDE DEF i
  <2>5. e \in CompilerRecord /\ Grown(p, e) /\ Aims(p, e)
    BY <2>2, <2>3, WrittenType, WrittenGrown
  <2> HIDE DEF e
  <2>6. /\ Len(compilers') = n - 1
        /\ \A k \in 1..n - 1 : compilers'[k] = IF k = n - 1 THEN e ELSE outer[k]
    BY <1>6, <2>1, <2>4, <2>5, ReplacedElement
  <2>7. \A k \in 1..n - 1 : Grown(compilers[k], compilers[k]) /\ Aims(compilers[k], compilers[k])
    <3>1. ASSUME NEW k \in 1..n - 1
          PROVE  Grown(compilers[k], compilers[k]) /\ Aims(compilers[k], compilers[k])
      <4>1. compilers[k] \in CompilerRecord /\ SameCode(compilers[k], compilers[k])
        <5>1. k \in 1..n
          BY <1>2
        <5>2. QED
          BY <1>1, <5>1, ElementType DEF SameCode
      <4>2. QED
        BY <4>1, SameCodeGrown
    <3>2. QED
      BY <3>1
  <2>8. QED
    BY <1>4, <1>6, <2>2, <2>5, <2>6, <2>7
<1>10. QED
  BY <1>2, <1>8, <1>9

LEMMA EndCompilationAgrees ==
  ASSUME NEW A \in State, NEW B \in State, Agrees(A), Effect(Head(agenda), A, B), EndCompilation
  PROVE  Agrees(B)'
<1>1. A.alive /\ EndCompilationEffect(A, B)
  BY DEF EndCompilation, Making, Doing, Effect
<1>2. /\ Matches(A) /\ Matches(B)' /\ Typed /\ Typed' /\ Sized /\ Sized' /\ Levels(A) /\ Frames(A)
  BY <1>1, EndCompilationMatches, Sizes, SizesAfter DEF Agrees, Matches
<1> DEFINE n == Len(compilers)
<1>3. n = Top(A) /\ n \in Nat \ {0} /\ Len(A.outer) = n - 1 /\ Current = compilers[n]
  BY <1>2, CurrentType
<1>4. /\ Len(compilers') = n - 1 /\ UNCHANGED <<saved, breaks, continueJump>>
      /\ \A k \in 1..n - 1 : Grown(compilers[k], compilers'[k]) /\ Aims(compilers[k], compilers'[k])
  BY <1>1, <1>2, FunctionEnds DEF EndCompilation
<1>5. PICK f \in FunctionRecord : functions' = Append(functions, f) /\ Completed(Current, f)
  BY <1>1, <1>2, FunctionEnds
<1>6. /\ Len(functions') = Len(functions) + 1 /\ Len(functions) \in Nat
      /\ functions'[Len(functions) + 1] = f
      /\ \A i \in 1..Len(functions) : functions'[i] = functions[i]
  BY <1>2, <1>5, AppendFacts DEF Typed
<1>7. Range(functions)' = Range(functions) \cup {f}
  <2>1. DOMAIN functions' = 1..Len(functions) + 1 /\ DOMAIN functions = 1..Len(functions)
    BY <1>2, <1>6 DEF Typed
  <2>2. \A i \in 1..Len(functions) + 1 : i \in 1..Len(functions) \/ i = Len(functions) + 1
    BY <1>6
  <2>3. \A i \in 1..Len(functions) : i \in 1..Len(functions) + 1
    BY <1>6
  <2>4. Len(functions) + 1 \in 1..Len(functions) + 1
    BY <1>6
  <2>5. QED
    BY <1>6, <2>1, <2>2, <2>3, <2>4 DEF Range
<1>8. Created' = Created /\ Created \in Nat
  BY <1>2, <1>3, <1>4, <1>6 DEF Created, Sized
<1>9. AllGrown
  <2>1. \A k \in 1..n - 1 : k <= n
    BY <1>3
  <2>2. QED
    BY <1>4, <1>8, <2>1 DEF AllGrown
<1>10. ASSUME Regular'
       PROVE  Regular
  <2>1. ASSUME NEW k \in 1..n
        PROVE  \E d \in Range(compilers)' \cup Range(functions)' : Marks(compilers[k], d)
    <3>1. CASE k = n
      <4>1. /\ f.amid = compilers[k].amid /\ f.code \in Seq(InstrRecord)
            /\ Len(compilers[k].code) <= Len(f.code)
            /\ \A a \in 1..Len(compilers[k].code) : f.code[a].meant = compilers[k].code[a].meant
        BY <1>3, <1>5, <3>1 DEF Completed
      <4>2. QED
        BY <1>7, <4>1 DEF Marks
    <3>2. CASE k \in 1..n - 1
      <4>1. k \in 1..Len(compilers') /\ Grown(compilers[k], compilers'[k])
        BY <1>4, <3>2
      <4>2. compilers'[k] \in Range(compilers)' /\ compilers'[k].code \in Seq(InstrRecord)
        BY <1>2, <4>1 DEF Sized, Range, Typed
      <4>3. QED
        BY <4>1, <4>2 DEF Grown, Marks
    <3>3. QED
      BY <1>3, <3>1, <3>2
  <2>2. QED
    BY <1>2, <1>7, <1>10, <2>1, RegularBefore
<1>11. SamePlaces(A, B) /\ B.cont = A.cont
  BY <1>1 DEF EndCompilationEffect
<1>12. B.below = A.below /\ B.level = A.level /\ \A i : FrameAt(B, i) = FrameAt(A, i)
  BY <1>11, SameFrameAt DEF SamePlaces
<1> SUFFICES ASSUME Regular'
             PROVE  Jumps(B)'
  BY <1>2 DEF Agrees
<1>13. Finished /\ Open(A)
  BY <1>1, <1>10 DEF Agrees, Jumps
<1>14. breaks = <<>>
  <2>1. A.loop = -1
    BY <1>1 DEF EndCompilationEffect
  <2>2. \A j \in 1..Len(breaks) : A.loop # -1
    BY <1>13 DEF Open, BreaksOwn
  <2>3. breaks \in Seq(BreakRecord)
    BY <1>2 DEF Typed
  <2>4. QED
    BY <2>1, <2>2, <2>3
<1>15. A.level \in 0..n - 1 /\ A.cont[1] \in 0..n - 1
  <2>1. A.level < Top(A) /\ A.cont[1] < Top(A) /\ A.level \in Nat /\ A.cont[1] \in Nat
    BY <1>1 DEF EndCompilationEffect, State
  <2>2. QED
    BY <1>3, <2>1
<1>16. \A i \in 0..Len(A.below) :
         FrameAt(A, i).level \in 0..n - 1 /\ FrameAt(A, i).kept[1] \in 0..n - 1
  <2>1. \A i \in 0..Len(A.below) :
          FrameAt(A, i).level \in 0..A.level /\ FrameAt(A, i).kept[1] \in 0..A.level
    BY <1>13, NestedLevels DEF Open
  <2>2. \A x : x \in 0..A.level => x \in 0..n - 1
    BY <1>3, <1>15
  <2>3. QED
    BY <2>1, <2>2
<1>17. Finished'
  <2>1. \A g \in Range(functions) :
          /\ ~g.corrupt
          /\ \A a \in 1..Len(g.code) : g.code[a].op \in JumpOps => g.code[a].arg \in 1..Len(g.code)
    BY <1>13 DEF Finished
  <2>2. /\ ~Current.corrupt
        /\ \A a \in 1..Len(Current.code) :
             Current.code[a].op \in JumpOps =>
               Current.code[a].arg \in 1..Here(Current) \/ Waits(A, n, a)
    BY <1>3, <1>13 DEF Open, Aimed
  <2>3. ASSUME NEW a, Waits(A, n, a)
        PROVE  FALSE
    <3>1. Len(<<>>) = 0 /\ 1..0 = {}
      OBVIOUS
    <3>2. ~BreakAt(n, a)
      BY <1>14, <3>1 DEF BreakAt
    <3>3. PICK i \in 1..Len(A.below) : WaitsFor(i, FrameAt(A, i), n, a)
      BY <2>3, <3>2 DEF Waits
    <3>4. FrameAt(A, i).level = n
      BY <3>3 DEF WaitsFor
    <3>5. i \in 0..Len(A.below) /\ n \notin 0..n - 1
      BY <1>3, FrameAtType
    <3>6. QED
      BY <1>16, <3>4, <3>5
  <2>4. ASSUME NEW a \in 1..Len(f.code), f.code[a].op \in JumpOps
        PROVE  f.code[a].arg \in 1..Len(f.code)
    <3> DEFINE m == Len(Current.code)
    <3>1. /\ m \in Nat /\ Len(f.code) = m + 2 /\ \A i \in 1..m : f.code[i] = Current.code[i]
          /\ \A i \in m + 1..m + 2 : f.code[i].op \notin JumpOps
      BY <1>5 DEF Completed
    <3>2. Here(Current) = m + 1
      BY DEF Here
    <3> HIDE DEF m
    <3>3. a \in 1..m
      <4>1. a \in 1..m \/ a \in m + 1..m + 2
        BY <3>1
      <4>2. QED
        BY <2>4, <3>1, <4>1
    <3>4. Current.code[a].arg \in 1..m + 1
      BY <2>2, <2>3, <2>4, <3>1, <3>2, <3>3 DEF m
    <3>5. \A x : x \in 1..m + 1 => x \in 1..m + 2
      BY <3>1
    <3>6. QED
      BY <3>1, <3>3, <3>4, <3>5
  <2>5. ~f.corrupt
    BY <1>5, <2>2 DEF Completed
  <2>6. QED
    BY <1>7, <2>1, <2>4, <2>5 DEF Finished
<1>18. ASSUME B.alive
       PROVE  Open(B)'
  <2>1. n > 1 /\ Top(B) = n - 1
    <3>1. A.outer # <<>> /\ A.outer \in Seq(Level) /\ B.outer = Front(A.outer)
      BY <1>1, <1>18 DEF EndCompilationEffect, State
    <3>2. Len(A.outer) \in Nat \ {0} /\ Len(B.outer) = Len(A.outer) - 1
      BY <3>1, FrontFacts
    <3>3. QED
      BY <1>3, <3>2 DEF Top
  <2>2. Ids' /\ \A k \in 0..n - 1 : IdAt(k)' = IdAt(k)
    <3>1. Ids
      BY <1>13 DEF Open
    <3>2. Len(compilers') <= n + 1 /\ Len(compilers') # n + 1
      BY <1>3, <1>4
    <3>3. /\ Ids' /\ \A k \in 0..Len(compilers') : k <= n => IdAt(k)' = IdAt(k)
      BY <1>2, <1>9, <3>1, <3>2, GrownIds
    <3>4. \A k \in 0..n - 1 : k <= n
      BY <1>3
    <3>5. QED
      BY <1>4, <3>3, <3>4
  <2>3. Nested(B)
    <3>1. B.level <= n - 1 /\ B.cont[1] <= n - 1
      BY <1>3, <1>11, <1>12, <1>15
    <3>2. QED
      BY <1>12, <1>13, <2>1, <3>1 DEF Open, Nested
  <2>4. PlacesIn(B)'
    <3>1. PlacesIn(A) /\ UNCHANGED <<saved, continueJump>>
      BY <1>4, <1>13 DEF Open
    <3>2. n - 1 \in Nat
      BY <1>3
    <3> HIDE DEF n
    <3>3. QED
      BY <1>2, <1>9, <1>11, <1>15, <1>16, <2>2, <3>1, <3>2, PlacesKept
  <2>5. BreaksOwn(B)'
    <3>1. Len(<<>>) = 0 /\ 1..0 = {} /\ breaks' = <<>>
      BY <1>4, <1>14
    <3>2. QED
      BY <3>1 DEF BreaksOwn
  <2>6. Aimed(B)'
    <3>1. ASSUME NEW k \in 1..n - 1, NEW a \in 1..Len(compilers'[k].code)
          PROVE  StillAims(A, B, k, a)
      <4>1. Grown(compilers[k], compilers'[k]) /\ Aims(compilers[k], compilers'[k])
        BY <1>4
      <4>2. Waits(A, k, a) => Waits(B, k, a)'
        BY <1>4, <1>11, <4>1, WaitsStill DEF Grown
      <4>3. QED
        BY <4>1, <4>2 DEF StillAims, Aims
    <3>2. \A k \in 1..n - 1 : k <= n
      BY <1>3
    <3>3. QED
      BY <1>2, <1>4, <1>9, <1>13, <3>1, <3>2, GrownAimed DEF Open
  <2>7. QED
    BY <2>2, <2>3, <2>4, <2>5, <2>6 DEF Open
<1>19. QED
  BY <1>17, <1>18 DEF Jumps

LEMMA CapturedCode ==
  ASSUME NEW c \in CompilerRecord, NEW slot
  PROVE  SameCode(c, [c EXCEPT !.locals[slot].is_captured = TRUE])
<1> DEFINE locals == [c.locals EXCEPT ![slot].is_captured = TRUE]
           e == [c EXCEPT !.locals[slot].is_captured = TRUE]
<1>1. e = [c EXCEPT !.locals = locals]
  OBVIOUS
<1> HIDE DEF e, locals
<1>2. e.id = c.id /\ e.corrupt = c.corrupt /\ e.amid = c.amid /\ e.code = c.code
  BY <1>1 DEF CompilerRecord
<1>3. QED
  BY <1>2 DEF SameCode, e

LEMMA AddedCode ==
  ASSUME NEW c \in CompilerRecord, NEW u
  PROVE  SameCode(c, AddUpvalue(c, u))
<1> DEFINE e == AddUpvalue(c, u)  upvalues == Append(c.upvalues, u)
<1>1. e = c \/ e = [c EXCEPT !.upvalues = upvalues]
  BY DEF AddUpvalue
<1> HIDE DEF e, upvalues
<1>2. e.id = c.id /\ e.corrupt = c.corrupt /\ e.amid = c.amid /\ e.code = c.code
  BY <1>1 DEF CompilerRecord
<1>3. QED
  BY <1>2 DEF SameCode, e

\* named_variable changes no code.
LEMMA ResolvedCode ==
  ASSUME NEW A \in State, A.alive, Matches(A), A.stage \in {"none", "declared"},
         NEW name \in Names, compilers' = Resolve(name).compilers
  PROVE  /\ Len(compilers') = Len(compilers)
         /\ \A k \in 1..Len(compilers) : SameCode(compilers[k], compilers'[k])
<1> SUFFICES ASSUME NEW n, n = Len(compilers)
             PROVE  Len(compilers') = n /\ \A k \in 1..n : SameCode(compilers[k], compilers'[k])
  OBVIOUS
<1>1. /\ Typed /\ Levels(A) /\ A.stage \in Waiting /\ compilers \in Seq(CompilerRecord)
  BY CurrentLocals DEF Waiting, Typed
<1>2. \A k \in 1..n : compilers[k] \in CompilerRecord
  BY <1>1, ElementType
<1>3. CASE compilers' = compilers
  BY <1>3 DEF SameCode
<1>4. CASE Visible(Current, name) = {} /\ EnclosingWith(name) # {}
  <2>1. PICK owner : owner = Max(EnclosingWith(name))
    OBVIOUS
  <2>2. /\ n \in Nat /\ owner \in 1..n - 1 /\ Visible(compilers[owner], name) # {}
    BY <1>1, <1>4, <2>1, MeantIs
  <2>3. PICK slot : slot = Slot(owner, name)
    OBVIOUS
  <2>4. owner \in 1..n
    BY <2>2
  <2>5. slot \in Nat /\ slot = ResolveLocal(compilers[owner], name)
    <3>1. slot \in 1..Len(compilers[owner].locals)
      BY <1>1, <2>2, <2>3, <2>4, VisibleAnywhere
    <3>2. Len(compilers[owner].locals) \in Nat
      BY <1>2, <2>4, CompilerParts
    <3>3. QED
      BY <2>3, <3>1, <3>2 DEF Slot
  <2>6. PICK p : ResolveUpvalue(name).compilers = Passing(owner, slot, p)
    BY <1>1, <2>1, <2>4, <2>5, ResolveUpvalueIs
  <2>7. compilers' = Passing(owner, slot, p)
    <3>1. Resolve(name).compilers = ResolveUpvalue(name).compilers
      BY <1>4 DEF Resolve
    <3>2. QED
      BY <2>6, <3>1
  <2>8. DOMAIN compilers = 1..n
    BY <1>1
  <2>9. Len(compilers') = n
    <3>1. DOMAIN compilers' = 1..n /\ compilers' = [k \in 1..n |-> compilers'[k]]
      BY <2>7, <2>8 DEF Passing
    <3>2. QED
      BY <2>2, <3>1
  <2>10. ASSUME NEW k \in 1..n
         PROVE  SameCode(compilers[k], compilers'[k])
    <3>1. compilers'[k] = IF k < owner THEN compilers[k]
            ELSE IF k = owner THEN [compilers[k] EXCEPT !.locals[slot].is_captured = TRUE]
            ELSE AddUpvalue(compilers[k], Upvalue(owner, k, p[k - 1]))
      BY <2>7, <2>8, Zenon DEF Passing
    <3>2. SameCode(compilers[k], compilers[k])
      BY DEF SameCode
    <3>3. /\ SameCode(compilers[k], [compilers[k] EXCEPT !.locals[slot].is_captured = TRUE])
          /\ SameCode(compilers[k], AddUpvalue(compilers[k], Upvalue(owner, k, p[k - 1])))
      BY <1>2, AddedCode, CapturedCode
    <3>4. QED
      BY <3>1, <3>2, <3>3, Zenon
  <2>11. QED
    BY <2>9, <2>10
<1>5. Visible(Current, name) # {} \/ EnclosingWith(name) = {} => compilers' = compilers
  BY DEF Resolve
<1>6. QED
  BY <1>3, <1>4, <1>5

LEMMA ResolveAgrees ==
  ASSUME NEW A \in State, A.alive, Agrees(A), A.stage \in {"none", "declared"},
         NEW name \in Names, NEW r, r = Resolve(name), NEW decl, decl = Meant(name),
         compilers' = r.compilers, OnlyCompilers, fuel' \in Nat
  PROVE  /\ r.get \in {"GET_LOCAL", "GET_UPVALUE", "GET_GLOBAL"}
         /\ r.set \in {"SET_LOCAL", "SET_UPVALUE", "SET_GLOBAL"}
         /\ \A op \in {r.get, r.set} :
              /\ Resolution(op, r.index, decl)
              /\ Agrees(Aware(A, Bound(op, r.index, decl)))'
<1>1. Matches(A)
  BY DEF Agrees
<1>2. /\ r.get \in {"GET_LOCAL", "GET_UPVALUE", "GET_GLOBAL"}
      /\ r.set \in {"SET_LOCAL", "SET_UPVALUE", "SET_GLOBAL"}
      /\ \A op \in {r.get, r.set} :
           /\ Resolution(op, r.index, decl)
           /\ Matches(Aware(A, Bound(op, r.index, decl)))'
  BY <1>1, ResolveMatches
<1>3. /\ Len(compilers') = Len(compilers)
      /\ \A k \in 1..Len(compilers) : SameCode(compilers[k], compilers'[k])
  BY <1>1, ResolvedCode
<1>4. ASSUME NEW op \in {r.get, r.set}
      PROVE  Agrees(Aware(A, Bound(op, r.index, decl)))'
  <2>1. PICK bound : bound = Bound(op, r.index, decl)
    OBVIOUS
  <2>2. bound \in SUBSET Binding
    <3>1. Resolution(op, r.index, decl)
      BY <1>2
    <3>2. QED
      BY <2>1, <3>1 DEF Resolution, Bound, Knowing, Binding
  <2>3. IsPlain(A, Aware(A, bound), A.temps, A.stage, A.depth, A.knows \cup bound)
    BY <2>2, AwareState
  <2>4. PICK B \in State : B = Aware(A, bound)
    BY <2>3 DEF IsPlain
  <2>5. SameAround(A, B)
    BY <2>3, <2>4 DEF IsPlain, SameAround, SameScopes
  <2>6. Matches(B)'
    BY <1>2, <2>1, <2>4
  <2>7. Agrees(B)'
    BY <1>3, <2>5, <2>6, SameCodeAgrees
  <2>8. QED
    BY <2>1, <2>4, <2>7
<1>5. QED
  BY <1>2, <1>4

-----------------------------------------------------------------------------
(* The steps *)

\* The compiler is in a state that the calls still to be made lead on from.
CompilerInv ==
  \E A \in State, B \in State : Leads(agenda, A, B) /\ Agrees(A) /\ ~B.alive

LEMMA LeadsState ==
  ASSUME NEW calls, NEW A, NEW B, Leads(calls, A, B)
  PROVE  A \in State /\ B \in State
<1>1. PICK S, path : /\ calls \in Seq(S)
                     /\ Path(calls, path) /\ path[1] = A /\ path[Len(calls) + 1] = B
  BY DEF Leads
<1>2. Len(calls) \in Nat /\ path \in [1..Len(calls) + 1 -> State]
  BY <1>1 DEF Path
<1>3. QED
  BY <1>1, <1>2

\* The first call of the agenda leads from A to B, the others from there to
\* the end, C, of the compilation.
Ahead(A, B, C) ==
  /\ A.alive /\ Agrees(A) /\ Effect(Head(agenda), A, B)
  /\ Leads(Tail(agenda), B, C) /\ Leads(agenda, A, C) /\ ~C.alive

LEMMA AheadExists ==
  ASSUME CompilerInv, agenda # <<>>
  PROVE  \E A \in State, B \in State, C \in State : Ahead(A, B, C)
<1>1. PICK A \in State, C \in State : Leads(agenda, A, C) /\ Agrees(A) /\ ~C.alive
  BY DEF CompilerInv
<1>2. PICK B : Effect(Head(agenda), A, B) /\ Leads(Tail(agenda), B, C)
  BY <1>1, LeadsHead
<1>3. B \in State /\ A.alive
  BY <1>2 DEF Effect
<1>4. QED
  BY <1>1, <1>2, <1>3 DEF Ahead

LEMMA Continued ==
  ASSUME NEW A \in State, NEW B \in State, NEW C \in State, Ahead(A, B, C),
         NEW D \in State, Agrees(D)', NEW calls, Leads(calls, D, B),
         agenda' = calls \o Tail(agenda)
  PROVE  CompilerInv'
<1>1. Leads(agenda', D, C)
  BY LeadsThen DEF Ahead
<1>2. ~C.alive
  BY DEF Ahead
<1>3. QED
  BY <1>1, <1>2 DEF CompilerInv

LEMMA Made ==
  ASSUME NEW A \in State, NEW B \in State, NEW C \in State, Ahead(A, B, C),
         Agrees(B)', agenda' = Tail(agenda)
  PROVE  CompilerInv'
BY DEF Ahead, CompilerInv

LEMMA Stays ==
  ASSUME NEW A \in State, NEW B \in State, NEW C \in State, Ahead(A, B, C),
         Agrees(A)', agenda' = agenda
  PROVE  CompilerInv'
BY DEF Ahead, CompilerInv

LEMMA MakeCallKeeps ==
  ASSUME CompilerInv, MakeCall
  PROVE  CompilerInv'
<1>1. agenda # <<>>
  BY DEF MakeCall, Making, Doing, EmitByte, EnterCall, LeaveCall, EmitJump, PatchJump, LoopStart,
         EmitLoop, EnterLoop, LeaveLoop, Break, PatchBreak, BreaksPatched, Continue, BeginScope,
         EndScope, DropLocal, ScopeEnded, ParseVariable, MarkInitialized, Defined, Parameter,
         CompilerInit, EndCompilation, EmitAccess
<1>2. PICK A \in State, B \in State, C \in State : Ahead(A, B, C)
  BY <1>1, AheadExists
<1>3. Agrees(A) /\ A.alive /\ Effect(Head(agenda), A, B)
  BY <1>2 DEF Ahead
<1>4. CASE EmitByte \/ EnterCall \/ LeaveCall \/ EmitJump \/ PatchJump \/ LoopStart \/ EmitLoop
           \/ EnterLoop \/ LeaveLoop
  <2>1. agenda' = Tail(agenda)
    BY <1>4 DEF Making, EmitByte, EnterCall, LeaveCall, EmitJump, PatchJump, LoopStart, EmitLoop,
                EnterLoop, LeaveLoop
  <2>2. Agrees(B)'
    BY <1>3, <1>4, EmitByteAgrees, EnterAgrees, LeaveAgrees, EmitJumpAgrees, PatchJumpAgrees,
       LoopStartAgrees, EmitLoopAgrees, EnterLoopAgrees, LeaveLoopAgrees
  <2>3. QED
    BY <1>2, <2>1, <2>2, Made
<1>5. CASE Break \/ BreaksPatched \/ Continue \/ BeginScope \/ ScopeEnded
           \/ ParseVariable \/ MarkInitialized \/ Defined \/ Parameter
           \/ CompilerInit \/ EndCompilation \/ EmitAccess
  <2>1. agenda' = Tail(agenda)
    BY <1>5 DEF Making, Break, BreaksPatched, Continue, BeginScope, ScopeEnded,
                ParseVariable, MarkInitialized, Defined, Parameter, CompilerInit, EndCompilation,
                EmitAccess
  <2>2. Agrees(B)'
    BY <1>3, <1>5, BreakAgrees, BreaksPatchedAgrees, ContinueAgrees, BeginScopeAgrees,
       ScopeEndedAgrees, ParseVariableAgrees, MarkInitializedAgrees, DefinedAgrees,
       ParameterAgrees, CompilerInitAgrees, EndCompilationAgrees, EmitAccessAgrees
  <2>3. QED
    BY <1>2, <2>1, <2>2, Made
<1>6. CASE PatchBreak
  <2>1. agenda' = agenda
    BY <1>6 DEF PatchBreak
  <2>2. QED
    BY <1>2, <1>3, <1>6, <2>1, PatchBreakAgrees, Stays
<1>7. CASE DropLocal
  <2>1. agenda' = agenda
    BY <1>7 DEF DropLocal
  <2>2. QED
    BY <1>2, <1>3, <1>7, <2>1, DropLocalAgrees, Stays
<1>8. CASE EndScope
  <2>1. PICK D : D = Ended(A)
    OBVIOUS
  <2>2. D \in State /\ Effect(<<"drop_locals">>, D, B) /\ Agrees(D)'
    BY <1>3, <1>8, <2>1, EndScopeMatches, EndScopeAgrees DEF Agrees
  <2>3. Leads(<<<<"drop_locals">>>>, D, B)
    BY <2>2, LeadsOne
  <2>4. agenda' = <<<<"drop_locals">>>> \o Tail(agenda)
    BY <1>8 DEF EndScope
  <2>5. QED
    BY <1>2, <2>2, <2>3, <2>4, Continued
<1>9. QED
  BY <1>4, <1>5, <1>6, <1>7, <1>8, Zenon DEF MakeCall

-----------------------------------------------------------------------------
(* Decisions *)

LEMMA SpendType ==
  ASSUME Typed, NEW construct \in Constructs, Spend(construct)
  PROVE  fuel' \in Nat
<1>1. Cost[construct] \in Nat
  BY CompilerAssumption DEF CompilerAssumption
<1>2. QED
  BY <1>1 DEF Typed, Spend

\* A decision leaves the compilers as they are, or records a declaration.
LEMMA DecisionMatches ==
  ASSUME NEW A \in State, A.alive, Matches(A), fuel' \in Nat, OnlyCompilers,
         UNCHANGED compilers \/ Update(Started(Current))
  PROVE  Matches(A)'
<1>1. Typed /\ Current \in CompilerRecord /\ Current.locals # <<>>
  BY CurrentLocals
<1>2. StaysTyped
  BY <1>1 DEF StaysTyped, OnlyCompilers, Typed
<1>3. Keeping(A, A)
  BY KeepingItself
<1>4. CASE UNCHANGED compilers
  BY <1>2, <1>3, <1>4, UnchangedMatches
<1>5. CASE Update(Started(Current))
  <2>1. Started(Current) \in CompilerRecord /\ SameLocals(Current, Started(Current))
    BY <1>1, StartedType
  <2>2. QED
    BY <1>2, <1>3, <1>5, <2>1, KeepingMatches
<1>6. QED
  BY <1>4, <1>5

LEMMA DecisionAgrees ==
  ASSUME NEW A \in State, A.alive, Agrees(A), fuel' \in Nat, OnlyCompilers,
         UNCHANGED compilers \/ Update(Started(Current))
  PROVE  Agrees(A)'
<1>1. Matches(A) /\ Matches(A)'
  BY DecisionMatches DEF Agrees
<1>2. SameAround(A, A) /\ SameOuter(A, A) /\ SamePlaces(A, A)
  BY AroundItself
<1>3. CASE UNCHANGED compilers
  <2>1. UNCHANGED unitVars
    BY <1>3 DEF OnlyCompilers, unitVars
  <2>2. QED
    BY <1>1, <1>2, <2>1, UnchangedAgrees
<1>4. CASE Update(Started(Current))
  <2>1. SameCode(Current, Started(Current))
    BY <1>1, CurrentLocals, StartedCode
  <2>2. QED
    BY <1>1, <1>2, <1>4, <2>1, ScopingAgrees
<1>5. QED
  BY <1>3, <1>4

ExpressionCalls(calls) ==
  \A A \in State, B \in State : A.alive /\ ExpressionEffect(A, B) => Leads(calls, A, B)

StatementCalls(calls) ==
  \A A \in State, B \in State : A.alive /\ StatementEffect(A, B) => Leads(calls, A, B)

LEMMA ExpressionDecided ==
  ASSUME CompilerInv, NEW calls, ExpressionCalls(calls),
         Doing("expression"), Instead(calls), UNCHANGED unitVars, Typed => fuel' \in Nat
  PROVE  CompilerInv'
<1>1. PICK A \in State, B \in State, C \in State : Ahead(A, B, C)
  BY AheadExists DEF Doing
<1>2. A.alive /\ Agrees(A) /\ ExpressionEffect(A, B)
  BY <1>1 DEF Ahead, Effect, Doing
<1>3. Agrees(A)'
  <2>1. Typed
    BY <1>2 DEF Agrees, Matches
  <2>2. QED
    BY <1>2, <2>1, DecisionAgrees DEF unitVars, OnlyCompilers
<1>4. Leads(calls, A, B)
  BY <1>2 DEF ExpressionCalls
<1>5. QED
  BY <1>1, <1>3, <1>4, Continued DEF Instead

LEMMA ExpressionKeeps ==
  ASSUME CompilerInv, NEW construct \in Constructs, NEW calls, ExpressionCalls(calls),
         ExpressionIs(construct, calls)
  PROVE  CompilerInv'
<1>1. Typed => fuel' \in Nat
  BY SpendType DEF ExpressionIs
<1>2. QED
  BY <1>1, ExpressionDecided DEF ExpressionIs

LEMMA StatementDecided ==
  ASSUME CompilerInv, NEW calls, StatementCalls(calls),
         Doing("statement"), Instead(calls), UNCHANGED unitVars, Typed => fuel' \in Nat
  PROVE  CompilerInv'
<1>1. PICK A \in State, B \in State, C \in State : Ahead(A, B, C)
  BY AheadExists DEF Doing
<1>2. A.alive /\ Agrees(A) /\ StatementEffect(A, B)
  BY <1>1 DEF Ahead, Effect, Doing
<1>3. Agrees(A)'
  <2>1. Typed
    BY <1>2 DEF Agrees, Matches
  <2>2. QED
    BY <1>2, <2>1, DecisionAgrees DEF unitVars, OnlyCompilers
<1>4. Leads(calls, A, B)
  BY <1>2 DEF StatementCalls
<1>5. QED
  BY <1>1, <1>3, <1>4, Continued DEF Instead

LEMMA DeclarationKeeps ==
  ASSUME CompilerInv, NEW construct \in Constructs, NEW calls, StatementCalls(calls),
         DeclarationIs(construct, calls)
  PROVE  CompilerInv'
<1>1. PICK A \in State, B \in State, C \in State : Ahead(A, B, C)
  BY AheadExists DEF DeclarationIs, Doing
<1>2. A.alive /\ Agrees(A) /\ StatementEffect(A, B)
  BY <1>1 DEF Ahead, Effect, DeclarationIs, Doing
<1>3. Agrees(A)'
  <2>1. Typed
    BY <1>2 DEF Agrees, Matches
  <2>2. fuel' \in Nat
    BY <2>1, SpendType DEF DeclarationIs
  <2>3. QED
    BY <1>2, <2>2, DecisionAgrees DEF DeclarationIs
<1>4. Leads(calls \o <<Block>>, A, B)
  <2>1. Leads(calls, A, B)
    BY <1>2 DEF StatementCalls
  <2>2. Effect(Block, B, B)
    <3>1. StatementEffect(B, B) /\ SameAround(A, B)
      BY <1>2, StatementState
    <3>2. B.alive
      BY <1>2, <3>1 DEF SameAround, SameOuter
    <3>3. QED
      BY <3>1, <3>2 DEF Effect, Block, Calls
  <2>3. QED
    BY <2>1, <2>2, LeadsOne, LeadsThen
<1>5. agenda' = (calls \o <<Block>>) \o Tail(agenda)
  BY DEF DeclarationIs, Instead
<1>6. QED
  BY <1>1, <1>3, <1>4, <1>5, Continued

LEMMA StatementKeeps ==
  ASSUME CompilerInv, NEW construct \in Constructs, NEW calls, StatementCalls(calls),
         StatementIs(construct, calls)
  PROVE  CompilerInv'
<1>1. CASE DeclarationIs(construct, calls)
  BY <1>1, DeclarationKeeps
<1>2. CASE Doing("statement") /\ Spend(construct) /\ Instead(calls) /\ UNCHANGED unitVars
  <2>1. Typed => fuel' \in Nat
    BY <1>2, SpendType
  <2>2. QED
    BY <1>2, <2>1, StatementDecided
<1>3. QED
  BY <1>1, <1>2 DEF StatementIs

-----------------------------------------------------------------------------
(* Every construct *)

LEMMA StatementsKeep ==
  ASSUME CompilerInv,
         ExpressionStatement \/ BlockStatement \/ IfStatement \/ WhileStatement
           \/ ReturnStatement \/ YieldStatement \/ BreakStatement \/ ContinueStatement
  PROVE  CompilerInv'
<1>1. {"expression", "block", "if", "while", "return", "yield", "break", "continue"} \subseteq Constructs
  BY DEF Constructs
<1>2. CASE ExpressionStatement
  <2> DEFINE calls == <<Expression, Emit("POP")>>
  <2>1. StatementCalls(calls)
    BY ExpressionStatementCalls DEF StatementCalls
  <2>2. CASE DeclarationIs("expression", calls)
    BY <1>1, <2>1, <2>2, DeclarationKeeps
  <2>3. CASE Doing("statement") /\ Instead(calls) /\ UNCHANGED <<unitVars, fuel>>
    <3>1. Typed => fuel' \in Nat
      BY <2>3 DEF Typed
    <3>2. QED
      BY <2>1, <2>3, <3>1, StatementDecided
  <2>4. QED
    BY <1>2, <2>2, <2>3 DEF ExpressionStatement
<1>3. CASE BlockStatement
  <2>1. StatementCalls(<<<<"begin_scope">>, Block, <<"end_scope">>>>)
    BY BlockCalls DEF StatementCalls
  <2>2. QED
    BY <1>1, <1>3, <2>1, StatementKeeps DEF BlockStatement
<1>4. CASE IfStatement
  <2>1. PICK otherwise \in {<<>>, <<Statement>>} : StatementIs("if", If(otherwise))
    BY <1>4 DEF IfStatement
  <2>2. StatementCalls(If(otherwise))
    BY IfCalls DEF StatementCalls
  <2>3. QED
    BY <1>1, <2>1, <2>2, StatementKeeps
<1>5. CASE WhileStatement
  <2>1. StatementCalls(While)
    BY WhileCalls DEF StatementCalls
  <2>2. QED
    BY <1>1, <1>5, <2>1, StatementKeeps DEF WhileStatement
<1>6. CASE ReturnStatement
  <2>1. PICK value \in Initializers : StatementIs("return", <<value, Emit("RETURN")>>)
    BY <1>6 DEF ReturnStatement
  <2>2. StatementCalls(<<value, Emit("RETURN")>>)
    BY ResultCalls DEF StatementCalls
  <2>3. QED
    BY <1>1, <2>1, <2>2, StatementKeeps
<1>7. CASE YieldStatement
  <2>1. PICK value \in Initializers : StatementIs("yield", <<value, Emit("YIELD")>>)
    BY <1>7 DEF YieldStatement
  <2>2. StatementCalls(<<value, Emit("YIELD")>>)
    BY ResultCalls DEF StatementCalls
  <2>3. QED
    BY <1>1, <2>1, <2>2, StatementKeeps
<1>8. CASE BreakStatement
  <2>1. StatementCalls(<<<<"break">>>>)
    BY JumpOutCalls DEF StatementCalls
  <2>2. QED
    BY <1>1, <1>8, <2>1, StatementKeeps DEF BreakStatement
<1>9. CASE ContinueStatement
  <2>1. StatementCalls(<<<<"continue">>>>)
    BY JumpOutCalls DEF StatementCalls
  <2>2. QED
    BY <1>1, <1>9, <2>1, StatementKeeps DEF ContinueStatement
<1>10. QED
  BY <1>2, <1>3, <1>4, <1>5, <1>6, <1>7, <1>8, <1>9

LEMMA Joined ==
  ASSUME NEW a, NEW b
  PROVE  <<a>> \o <<b>> = <<a, b>>
<1>1. <<a, b>> = Append(<<a>>, b) /\ Append(<<a>>, b) = <<a>> \o <<b>>
  OBVIOUS
<1>2. QED
  BY <1>1

LEMMA DeclarationsKeep ==

  ASSUME CompilerInv, NEW name \in Names,
         VarDeclaration(name) \/ FunDeclaration(name) \/ CoroutineDeclaration(name)
           \/ ForStatement(name)
  PROVE  CompilerInv'
<1>1. {"variable", "function", "coroutine", "for"} \subseteq Constructs
  BY DEF Constructs
<1>2. CASE VarDeclaration(name)
  <2>1. PICK init \in Initializers : DeclarationIs("variable", Variable(name, init))
    BY <1>2 DEF VarDeclaration
  <2>2. StatementCalls(Variable(name, init))
    BY VariableCalls DEF StatementCalls
  <2>3. QED
    BY <1>1, <2>1, <2>2, DeclarationKeeps
<1>3. CASE FunDeclaration(name)
  <2> DEFINE calls == NamedFunction(name) \o <<<<"defined">>>>
  <2>1. <<>> \o <<<<"defined">>>> = <<<<"defined">>>>
    OBVIOUS
  <2>2. StatementCalls(calls)
    BY <2>1, NamedFunctionCalls DEF StatementCalls
  <2>3. QED
    BY <1>1, <1>3, <2>2, DeclarationKeeps DEF FunDeclaration
<1>4. CASE CoroutineDeclaration(name)
  <2> DEFINE calls == NamedFunction(name) \o <<Emit("COROUTINE"), <<"defined">>>>
  <2>1. <<Emit("COROUTINE")>> \o <<<<"defined">>>> = <<Emit("COROUTINE"), <<"defined">>>>
    BY Joined
  <2>2. StatementCalls(calls)
    BY <2>1, NamedFunctionCalls DEF StatementCalls
  <2>3. QED
    BY <1>1, <1>4, <2>2, DeclarationKeeps DEF CoroutineDeclaration
<1>5. CASE ForStatement(name)
  <2>1. PICK init \in {<<>>, <<Expression, Emit("POP")>>} \cup {Variable(name, i) : i \in Initializers},
             cond \in BOOLEAN, incr \in BOOLEAN : StatementIs("for", For(init, cond, incr))
    BY <1>5, Zenon DEF ForStatement
  <2>2. StatementCalls(For(init, cond, incr))
    BY ForCalls DEF StatementCalls
  <2>3. QED
    BY <1>1, <2>1, <2>2, StatementKeeps
<1>6. QED
  BY <1>2, <1>3, <1>4, <1>5

LEMMA ExpressionsKeep ==
  ASSUME CompilerInv,
         Literal \/ AnonymousFunction \/ Operator \/ And \/ Or \/ Coroutine \/ Await
           \/ Call \/ List \/ Dict \/ Field
  PROVE  CompilerInv'
<1>1. {"function", "operator", "logic", "coroutine", "await", "call", "collection", "field"}
        \subseteq Constructs
  BY DEF Constructs
<1>2. CASE Literal
  <2>1. ExpressionCalls(<<Emit("CONSTANT")>>)
    BY ValueCalls DEF ExpressionCalls
  <2>2. Typed => fuel' \in Nat
    BY <1>2 DEF Literal, Typed
  <2>3. QED
    BY <1>2, <2>1, <2>2, ExpressionDecided DEF Literal
<1>3. CASE AnonymousFunction
  <2>1. ExpressionCalls(Function("ANONYMOUS"))
    BY AnonymousFunctionCalls DEF ExpressionCalls
  <2>2. QED
    BY <1>1, <1>3, <2>1, ExpressionKeeps DEF AnonymousFunction
<1>4. CASE Operator \/ Coroutine \/ Await
  <2>1. /\ ExpressionCalls(<<Expression, Emit("UNARY")>>)
        /\ ExpressionCalls(<<Expression, Expression, Emit("BINARY")>>)
        /\ ExpressionCalls(<<Expression, Emit("COROUTINE")>>)
        /\ ExpressionCalls(<<Expression, Emit("AWAIT")>>)
    BY ValueCalls DEF ExpressionCalls
  <2>2. QED
    BY <1>1, <1>4, <2>1, ExpressionKeeps DEF Operator, Coroutine, Await
<1>5. CASE And \/ Or
  <2>1. ExpressionCalls(Conjunction) /\ ExpressionCalls(Disjunction)
    BY LogicCalls DEF ExpressionCalls
  <2>2. QED
    BY <1>1, <1>5, <2>1, ExpressionKeeps DEF And, Or
<1>6. CASE Call \/ List \/ Dict
  <2>1. PICK n \in 0..MaxItems :
          \/ ExpressionIs("call", <<Expression>> \o Expressions(n) \o <<EmitArg("CALL", n)>>)
          \/ ExpressionIs("collection", Expressions(n) \o <<EmitArg("LIST", n)>>)
          \/ ExpressionIs("collection",
               [i \in 1..2 * n |-> IF i % 2 = 1 THEN Emit("CONSTANT") ELSE Expression]
               \o <<EmitArg("DICT", n)>>)
    BY <1>6, Zenon DEF Call, List, Dict
  <2>2. n \in Nat
    <3>1. MaxItems \in Nat
      BY CompilerAssumption DEF CompilerAssumption
    <3>2. QED
      BY <3>1
  <2>3. /\ ExpressionCalls(<<Expression>> \o Expressions(n) \o <<EmitArg("CALL", n)>>)
        /\ ExpressionCalls(Expressions(n) \o <<EmitArg("LIST", n)>>)
        /\ ExpressionCalls([i \in 1..2 * n |-> IF i % 2 = 1 THEN Emit("CONSTANT") ELSE Expression]
                           \o <<EmitArg("DICT", n)>>)
    BY <2>2, CollectionCalls, Zenon DEF ExpressionCalls
  <2>4. QED
    BY <1>1, <2>1, <2>3, ExpressionKeeps
<1>7. CASE Field
  <2>1. PICK key \in {Emit("CONSTANT"), Expression} :
          \/ ExpressionIs("field", <<Expression, key, Emit("GET_FIELD")>>)
          \/ ExpressionIs("field", <<Expression, key, Expression, Emit("SET_FIELD")>>)
    BY <1>7, Zenon DEF Field
  <2>2. /\ ExpressionCalls(<<Expression, key, Emit("GET_FIELD")>>)
        /\ ExpressionCalls(<<Expression, key, Expression, Emit("SET_FIELD")>>)
    BY FieldCalls DEF ExpressionCalls
  <2>3. QED
    BY <1>1, <2>1, <2>2, ExpressionKeeps
<1>8. QED
  BY <1>2, <1>3, <1>4, <1>5, <1>6, <1>7

LEMMA VariablesKeep ==
  ASSUME CompilerInv, NEW name \in Names, GetVariable(name) \/ SetVariable(name)
  PROVE  CompilerInv'
<1>1. PICK r, decl : r = Resolve(name) /\ decl = Meant(name)
  OBVIOUS
<1>2. PICK A \in State, B \in State, C \in State : Ahead(A, B, C)
  BY AheadExists DEF GetVariable, SetVariable, Resolved, Doing
<1>3. A.alive /\ Agrees(A) /\ ExpressionEffect(A, B) /\ A.stage \in {"none", "declared"}
  <2>1. Head(agenda)[1] = "expression"
    BY DEF GetVariable, SetVariable, Resolved, Doing
  <2>2. QED
    BY <1>2, <2>1 DEF Ahead, Effect, ExpressionEffect
<1>4. fuel' \in Nat
  <2>1. Typed
    BY <1>3 DEF Agrees, Matches
  <2>2. "get" \in Constructs /\ "set" \in Constructs
    BY DEF Constructs
  <2>3. QED
    BY <2>1, <2>2, SpendType DEF GetVariable, SetVariable
<1>5. /\ OnlyCompilers /\ compilers' = r.compilers
      /\ \/ Instead(<<Access(r.get, r.index, decl)>>)
         \/ Instead(<<Expression, Access(r.set, r.index, decl)>>)
  BY <1>1 DEF GetVariable, SetVariable, Resolved
<1>6. /\ r.get \in {"GET_LOCAL", "GET_UPVALUE", "GET_GLOBAL"}
      /\ r.set \in {"SET_LOCAL", "SET_UPVALUE", "SET_GLOBAL"}
      /\ \A op \in {r.get, r.set} :
           /\ Resolution(op, r.index, decl)
           /\ Agrees(Aware(A, Bound(op, r.index, decl)))'
  BY <1>1, <1>3, <1>4, <1>5, ResolveAgrees
<1>7. CASE Instead(<<Access(r.get, r.index, decl)>>)
  <2>1. PICK D : D = Aware(A, Bound(r.get, r.index, decl))
    OBVIOUS
  <2>2. /\ Bound(r.get, r.index, decl) \in SUBSET Binding
        /\ Leads(<<Access(r.get, r.index, decl)>>, D, B)
    BY <1>3, <1>6, <2>1, AccessCalls
  <2>3. D \in State /\ Agrees(D)'
    BY <1>6, <2>1, <2>2, LeadsState
  <2>4. QED
    BY <1>2, <1>7, <2>2, <2>3, Continued DEF Instead
<1>8. CASE Instead(<<Expression, Access(r.set, r.index, decl)>>)
  <2>1. PICK D : D = Aware(A, Bound(r.set, r.index, decl))
    OBVIOUS
  <2>2. /\ Bound(r.set, r.index, decl) \in SUBSET Binding
        /\ Leads(<<Expression, Access(r.set, r.index, decl)>>, D, B)
    BY <1>3, <1>6, <2>1, AssignmentCalls
  <2>3. D \in State /\ Agrees(D)'
    BY <1>6, <2>1, <2>2, LeadsState
  <2>4. QED
    BY <1>2, <1>8, <2>2, <2>3, Continued DEF Instead
<1>9. QED
  BY <1>5, <1>7, <1>8

LEMMA ParametersKeep ==
  ASSUME CompilerInv, NEW name \in Names, OneParameter(name)
  PROVE  CompilerInv'
<1>1. PICK A \in State, B \in State, C \in State : Ahead(A, B, C)
  BY AheadExists DEF OneParameter, Doing
<1>2. A.alive /\ Agrees(A) /\ ParametersEffect(A, B)
  BY <1>1 DEF Ahead, Effect, OneParameter, Doing
<1>3. Agrees(A)'
  <2>1. Typed
    BY <1>2 DEF Agrees, Matches
  <2>2. fuel' \in Nat
    BY <2>1, SpendType DEF OneParameter, Constructs
  <2>3. QED
    BY <1>2, <2>2, DecisionAgrees DEF OneParameter, unitVars, OnlyCompilers
<1>4. Effect(<<"parameter", name>>, A, A)
  BY <1>2 DEF Effect, Calls, ParametersEffect, ParameterEffect, SameAround, SameOuter, SameScopes,
              SamePlaces
<1>5. Leads(agenda', A, C)
  <2>1. Leads(agenda, A, C)
    BY <1>1 DEF Ahead
  <2>2. QED
    BY <1>4, <2>1, LeadsFirst DEF OneParameter
<1>6. QED
  BY <1>1, <1>3, <1>5 DEF Ahead, CompilerInv

LEMMA EndsKeep ==
  ASSUME CompilerInv, NoMoreParameters \/ BlockEnds
  PROVE  CompilerInv'
<1>1. PICK A \in State, B \in State, C \in State : Ahead(A, B, C)
  BY AheadExists DEF NoMoreParameters, BlockEnds, Making, Doing
<1>2. Agrees(B)'
  BY <1>1, NoMoreParametersAgrees, BlockEndsAgrees DEF Ahead
<1>3. QED
  BY <1>1, <1>2, Made DEF NoMoreParameters, BlockEnds, Making

LEMMA CompileStepKeeps ==
  ASSUME CompilerInv, CompileStep
  PROVE  CompilerInv'
<1>1. CASE \E name \in Names :
             \/ OneParameter(name) \/ VarDeclaration(name) \/ FunDeclaration(name)
             \/ CoroutineDeclaration(name) \/ ForStatement(name) \/ GetVariable(name)
             \/ SetVariable(name)
  BY <1>1, ParametersKeep, DeclarationsKeep, VariablesKeep
<1>2. QED
  BY <1>1, MakeCallKeeps, EndsKeep, StatementsKeep, ExpressionsKeep DEF CompileStep

LEMMA CompilerStutters ==
  ASSUME CompilerInv, UNCHANGED compileVars
  PROVE  CompilerInv'
<1>1. PICK A \in State, B \in State : Leads(agenda, A, B) /\ Agrees(A) /\ ~B.alive
  BY DEF CompilerInv
<1>2. UNCHANGED <<unitVars, fuel>>
  BY DEF compileVars
<1>3. Agrees(A)'
  <2>1. CASE A.alive
    <3>1. Matches(A)'
      BY <1>1, <1>2, <2>1, KeepingItself, NothingMatches DEF Agrees
    <3>2. UNCHANGED unitVars /\ SameAround(A, A)
      BY <1>2, AroundItself
    <3>3. QED
      BY <1>1, <2>1, <3>1, <3>2, UnchangedAgrees
  <2>2. CASE ~A.alive
    <3>1. Matches(A)' /\ UNCHANGED <<compilers, functions>>
      BY <1>1, <1>2, <2>2 DEF Agrees, Matches, Typed, Frames, unitVars
    <3>2. Regular' => Regular /\ Finished
      BY <1>1, <3>1 DEF Regular, Agrees, Jumps
    <3>3. Regular' => Finished'
      BY <3>1, <3>2 DEF Finished
    <3>4. QED
      BY <2>2, <3>1, <3>3 DEF Agrees, Jumps
  <2>3. QED
    BY <2>1, <2>2
<1>4. QED
  BY <1>1, <1>3 DEF compileVars, CompilerInv

-----------------------------------------------------------------------------
(* What always holds *)

\* What the script is compiled from: nothing is open, nothing is known.
Script ==
  [alive |-> TRUE, outer |-> <<>>,
   depth |-> 0, stage |-> "none", temps |-> 0, loop |-> -1, knows |-> {},
   below |-> <<>>, level |-> 0, floor |-> 0, pend |-> {}, starts |-> {}, kept |-> <<0, 0>>,
   cont |-> <<0, 0>>]

LEMMA ScriptState ==
  /\ Script \in State /\ Script.alive /\ Script.outer = <<>> /\ Script.depth = 0
  /\ Between(Script) /\ Script.below = <<>> /\ Script.level = 0 /\ Top(Script) = 1
  /\ Script.loop = -1 /\ Script.cont = <<0, 0>> /\ Proper(Script) /\ InLoop(Script)
<1>1. <<>> \in Seq(Level) /\ <<>> \in Seq(Frame) /\ <<0, 0>> \in Nat \X Nat /\ <<0, 0>>[1] = 0
  OBVIOUS
<1>2. {} \in SUBSET Binding /\ {} \in SUBSET (Addresses \X Nat) /\ {} \in SUBSET Addresses
  OBVIOUS
<1>3. -1 \in Nat \cup {-1} /\ 0 \in Nat /\ "none" \in Stages
  BY DEF Stages
<1> DEFINE empty == <<>>  zeros == <<0, 0>>  m == -1
<1>4. empty \in Seq(Level) /\ empty \in Seq(Frame) /\ zeros \in Nat \X Nat /\ m \in Nat \cup {-1}
  BY <1>1, <1>3
<1>5. Script = [alive |-> TRUE, outer |-> empty,
                depth |-> 0, stage |-> "none", temps |-> 0, loop |-> m, knows |-> {},
                below |-> empty, level |-> 0, floor |-> 0, pend |-> {}, starts |-> {},
                kept |-> zeros, cont |-> zeros]
  BY Zenon DEF Script
<1> HIDE DEF empty, zeros, m
<1>6. Script \in State
  BY <1>2, <1>3, <1>4, <1>5 DEF State
<1>7. /\ Script.alive /\ Script.outer = empty /\ Script.depth = 0 /\ Script.stage = "none"
      /\ Script.temps = 0 /\ Script.knows = {} /\ Script.below = empty /\ Script.level = 0
      /\ Script.loop = m /\ Script.cont = zeros
  BY <1>5
<1>8. empty = <<>> /\ zeros = <<0, 0>> /\ m = -1 /\ Len(empty) = 0 /\ zeros[1] = 0
  BY <1>1 DEF empty, zeros, m
<1>9. Top(Script) = 1 /\ Between(Script)
  BY <1>7, <1>8 DEF Top, Between
<1>10. Proper(Script) /\ InLoop(Script)
  BY <1>7, <1>8, <1>9 DEF Proper, InLoop
<1>11. QED
  BY <1>6, <1>7, <1>8, <1>9, <1>10

\* The end of the script
LEMMA ScriptCalls ==
  \E B : Leads(<<Block, <<"end_compilation">>>>, Script, B) /\ ~B.alive
<1> SUFFICES ASSUME NEW B, B = [Script EXCEPT !.alive = FALSE]
             PROVE  Leads(<<Block, <<"end_compilation">>>>, Script, B) /\ ~B.alive
  OBVIOUS
<1> DEFINE S == Script
<1>1. S \in State
  BY ScriptState
<1> HIDE DEF S
<1>2. /\ B \in State /\ ~B.alive /\ B.below = S.below /\ B.level = S.level /\ B.floor = S.floor
      /\ B.pend = S.pend /\ B.starts = S.starts /\ B.kept = S.kept /\ B.cont = S.cont
  <2>1. B = [S EXCEPT !.alive = FALSE]
    BY DEF S
  <2>2. QED
    BY <1>1, <2>1 DEF State
<1>3. Effect(Block, S, S)
  <2>1. S.alive /\ Between(S) /\ Proper(S) /\ InLoop(S)
    BY ScriptState DEF S
  <2>2. Block[1] = "block"
    BY DEF Block
  <2>3. StatementEffect(S, S)
    BY <2>1 DEF StatementEffect, SameAround, SameOuter, SameScopes, SamePlaces
  <2>4. QED
    BY <1>1, <2>1, <2>2, <2>3 DEF Effect, Calls
<1>4. Effect(<<"end_compilation">>, S, B)
  <2>1. S.alive /\ Between(S) /\ S.loop = -1 /\ S.level < Top(S) /\ S.cont[1] < Top(S)
        /\ S.outer = <<>>
    <3>1. <<0, 0>>[1] = 0
      OBVIOUS
    <3>2. QED
      BY <3>1, ScriptState DEF S
  <2>2. EndCompilationEffect(S, B)
    BY <1>2, <2>1 DEF EndCompilationEffect, SamePlaces
  <2>3. QED
    BY <1>1, <1>2, <2>1, <2>2 DEF Effect, Calls
<1>5. Leads(<<Block, <<"end_compilation">>>>, S, B)
  BY <1>3, <1>4, LeadsTwo
<1>6. QED
  BY <1>2, <1>5 DEF S

LEMMA InitMatches ==
  ASSUME CompileInit
  PROVE  Matches(Script)
<1> DEFINE c == NewCompiler(1, "SCRIPT", FALSE)
<1>1. c \in CompilerRecord /\ c.upvalues = <<>> /\ Scoped(c, 0, "parameters", {})
  BY NewCompilerType DEF Kinds
<1> HIDE DEF c
<1>2. Scoped(c, 0, "none", {})
  <2>1. c.scope_depth = 0 /\ ScopedAs(c.id, c.locals, c.env, c.braces, 0, "parameters", {})
    BY <1>1, Zenon DEF Scoped
  <2>2. "parameters" \notin {"declared", "dropping"} /\ "none" \notin {"declared", "dropping"}
    OBVIOUS
  <2>3. ScopedAs(c.id, c.locals, c.env, c.braces, 0, "none", {})
    BY <2>1, <2>2, StageAlike
  <2>4. QED
    BY <2>1, <2>3, Zenon DEF Scoped
<1>3. compilers = <<c>>
  BY DEF CompileInit, c
<1>4. compilers \in Seq(CompilerRecord) /\ Len(compilers) = 1 /\ compilers[1] = c
  BY <1>1, <1>3
<1>5. NoPlace \in PlaceRecord
  BY DEF NoPlace, PlaceRecord
<1>6. Typed
  <2>1. <<>> \in Seq(FunctionRecord) /\ <<>> \in Seq([Addresses -> PlaceRecord])
        /\ <<>> \in Seq(BreakRecord)
    OBVIOUS
  <2>2. QED
    BY <1>4, <1>5, <2>1, CompilerAssumption DEF Typed, CompileInit, CompilerAssumption
<1>7. Frames(Script)
  BY ScriptState DEF Frames, CompileInit
<1>8. Levels(Script)
  <2>1. Len(Script.outer) = 0 /\ 1..0 = {} /\ Top(Script) = 1 /\ Script.depth = 0
        /\ Script.stage = "none" /\ Script.knows = {}
    BY ScriptState DEF Between
  <2>2. QED
    BY <1>2, <1>4, <2>1 DEF Levels
<1>9. \E d : Upvalues(Script, d)
  <2> SUFFICES ASSUME NEW d, d = [k \in 1..1 |-> <<>>]
               PROVE  Upvalues(Script, d)
    OBVIOUS
  <2>1. d \in [1..1 -> Seq(Decl)] /\ d[1] = <<>> /\ 1 \in 1..1
    OBVIOUS
  <2>2. Len(<<>>) = 0 /\ 1..0 = {} /\ \A k \in 1..1 : k = 1
    OBVIOUS
  <2>3. Reaching(d)
    BY <1>1, <1>4, <2>1, <2>2 DEF Reaching
  <2>4. Len(Script.outer) = 0 /\ Top(Script) = 1 /\ Script.knows = {}
    BY ScriptState DEF Between
  <2>5. KnowsUpvalues(d, 1, {})
    BY DEF KnowsUpvalues
  <2>6. QED
    BY <2>2, <2>3, <2>4, <2>5 DEF Upvalues
<1>10. QED
  BY <1>6, <1>7, <1>8, <1>9, ScriptState DEF Matches

LEMMA InitAgrees ==
  ASSUME CompileInit
  PROVE  Agrees(Script)
<1> DEFINE c == NewCompiler(1, "SCRIPT", FALSE)
<1>1. c \in CompilerRecord /\ c.code = <<>> /\ c.id = 1 /\ ~c.corrupt
  <2>1. c \in CompilerRecord /\ c.code = <<>> /\ c.id = 1
    BY NewCompilerType DEF Kinds
  <2>2. ~c.corrupt
    BY Zenon DEF NewCompiler
  <2>3. QED
    BY <2>1, <2>2
<1>2. compilers = <<c>> /\ functions = <<>> /\ breaks = <<>> /\ continueJump = NoPlace
  BY DEF CompileInit
<1> HIDE DEF c
<1>3. Len(compilers) = 1 /\ compilers[1] = c /\ Len(functions) = 0 /\ Created = 1
  BY <1>2 DEF Created
<1>4. /\ Len(<<>>) = 0 /\ 1..0 = {} /\ 1..1 = {1} /\ 0..0 = {0} /\ 0 <= 0 /\ 0 <= 1 /\ 1 \in 1..1
      /\ <<0, 0>>[1] = 0 /\ 1..1 - 1 = {}
  OBVIOUS
<1>5. /\ Script.below = <<>> /\ Script.level = 0 /\ Top(Script) = 1 /\ Script.cont[1] = 0
      /\ Script.kept[1] = 0 /\ FrameAt(Script, 0).kept[1] = 0 /\ FrameAt(Script, 0).level = 0
  <2>1. /\ Script.below = <<>> /\ Script.level = 0 /\ Top(Script) = 1 /\ Script.cont = <<0, 0>>
    BY ScriptState
  <2>2. Script.kept = <<0, 0>>
    BY Zenon DEF Script
  <2>3. FrameAt(Script, 0) = FrameOf(Script)
    BY <1>4, <2>1 DEF FrameAt
  <2>4. FrameOf(Script).kept = Script.kept /\ FrameOf(Script).level = Script.level
    BY DEF FrameOf
  <2>5. QED
    BY <1>4, <2>1, <2>2, <2>3, <2>4
<1>6. Ids
  BY <1>1, <1>3, <1>4 DEF Ids
<1>7. Nested(Script)
  BY <1>4, <1>5 DEF Nested
<1>8. PlacesIn(Script)
  <2>1. NoPlace.id = 0
    BY DEF NoPlace
  <2>2. PlaceIn(continueJump)
    BY <1>1, <1>2, <1>3, <1>4, <2>1 DEF PlaceIn
  <2>3. QED
    BY <1>2, <1>4, <1>5, <2>1, <2>2 DEF PlacesIn, IdAt
<1>9. BreaksOwn(Script)
  BY <1>2, <1>4 DEF BreaksOwn
<1>10. Aimed(Script)
  BY <1>1, <1>3, <1>4 DEF Aimed
<1>11. Finished
  <2>1. Range(functions) = {}
    BY <1>2 DEF Range
  <2>2. QED
    BY <2>1 DEF Finished
<1>12. QED
  BY <1>6, <1>7, <1>8, <1>9, <1>10, <1>11, InitMatches DEF Agrees, Jumps, Open

\* The compiler starts in a state from which the calls on its agenda lead to
\* the end of the script.
THEOREM InitLeads == CompileInit => CompilerInv
<1> SUFFICES ASSUME CompileInit
             PROVE  CompilerInv
  OBVIOUS
<1>1. PICK B : Leads(<<Block, <<"end_compilation">>>>, Script, B) /\ ~B.alive
  BY ScriptCalls
<1>2. Script \in State /\ B \in State
  BY <1>1, LeadsState
<1>3. Leads(agenda, Script, B)
  BY <1>1 DEF CompileInit
<1>4. QED
  BY <1>1, <1>2, <1>3, InitAgrees DEF CompilerInv

\* Each step of the compiler, whatever branch the parser takes, leaves calls
\* that still lead there.
THEOREM StepLeads == CompilerInv /\ [CompileStep]_compileVars => CompilerInv'
BY CompileStepKeeps, CompilerStutters

LEMMA CompilerInvResolves == CompilerInv => NamesResolve
<1> SUFFICES ASSUME CompilerInv
             PROVE  NamesResolve
  OBVIOUS
<1>1. Typed
  BY DEF CompilerInv, Agrees, Matches
<1>2. \A c \in Range(compilers) \cup Range(functions) : c.code \in Seq(InstrRecord)
  <2>1. \A c \in CompilerRecord : c.code \in Seq(InstrRecord)
    BY Zenon DEF CompilerRecord
  <2>2. \A f \in FunctionRecord : f.code \in Seq(InstrRecord)
    BY Zenon DEF FunctionRecord
  <2>3. \A c \in Range(compilers) : c \in CompilerRecord
    BY <1>1 DEF Typed, Range
  <2>4. \A f \in Range(functions) : f \in FunctionRecord
    BY <1>1 DEF Typed, Range
  <2>5. QED
    BY <2>1, <2>2, <2>3, <2>4
<1>3. \A code \in Codes : \A instr \in Range(code) : instr \in InstrRecord
  <2>1. \A code \in Seq(InstrRecord) : \A instr \in Range(code) : instr \in InstrRecord
    <3> DEFINE S == InstrRecord
    <3> HIDE DEF S
    <3>1. \A code \in Seq(S) : \A instr \in Range(code) : instr \in S
      BY DEF Range
    <3>2. QED
      BY <3>1 DEF S
  <2>2. QED
    BY <1>2, <2>1, Zenon DEF Codes
<1>4. \A instr \in InstrRecord : instr.meant # Stray => instr.found = instr.meant
  BY Zenon DEF InstrRecord
<1>5. QED
  BY <1>3, <1>4 DEF NamesResolve

\* named_variable finds, for every use of every name, the declaration that
\* lexical scoping means, through shadowing, nested functions and upvalues.
THEOREM CompilerNamesResolve == CompileSpec => []NamesResolve
<1>1. CompileInit => CompilerInv
  BY InitLeads
<1>2. CompilerInv /\ [CompileStep]_compileVars => CompilerInv'
  BY StepLeads
<1>3. CompilerInv => NamesResolve
  BY CompilerInvResolves
<1>4. QED
  BY <1>1, <1>2, <1>3, PTL DEF CompileSpec

LEMMA CompilerInvPatches == CompilerInv => JumpsPatched
<1> SUFFICES ASSUME CompilerInv, Regular
             PROVE  \A f \in Range(functions) :
                      /\ ~f.corrupt
                      /\ \A instr \in Range(f.code) :
                           instr.op \in {"JUMP", "JUMP_IF_FALSE", "LOOP"} =>
                             instr.arg \in DOMAIN f.code
  BY DEF JumpsPatched, Regular
<1>1. Typed /\ Finished
  BY DEF CompilerInv, Agrees, Matches, Jumps
<1> TAKE f \in Range(functions)
<1>2. f \in FunctionRecord
  BY <1>1 DEF Typed, Range
<1>3. f.code \in Seq(InstrRecord)
  BY <1>2 DEF FunctionRecord
<1>4. DOMAIN f.code = 1..Len(f.code)
  BY <1>3
<1>5. /\ ~f.corrupt
      /\ \A a \in 1..Len(f.code) : f.code[a].op \in JumpOps => f.code[a].arg \in 1..Len(f.code)
  BY <1>1 DEF Finished
<1>6. \A instr \in Range(f.code) : \E a \in 1..Len(f.code) : instr = f.code[a]
  BY <1>4 DEF Range
<1>7. QED
  BY <1>4, <1>5, <1>6 DEF JumpOps

\* If break and continue are used in while loops only, and no function is
\* compiled between a break and the end of its loop, every jump of a finished
\* function has a target in it: each address that emit_jump returns is patched
\* once, in the code it belongs to.
THEOREM CompilerJumpsPatched == CompileSpec => []JumpsPatched
<1>1. CompileInit => CompilerInv
  BY InitLeads
<1>2. CompilerInv /\ [CompileStep]_compileVars => CompilerInv'
  BY StepLeads
<1>3. CompilerInv => JumpsPatched
  BY CompilerInvPatches
<1>4. QED
  BY <1>1, <1>2, <1>3, PTL DEF CompileSpec

-----------------------------------------------------------------------------
(* The compiler, whatever is run afterwards *)

LEMMA StartKeeps ==
  ASSUME CompilerInv, NEW f, Start(f)
  PROVE  CompilerInv'
<1>1. PICK A \in State, B \in State : Leads(agenda, A, B) /\ Agrees(A) /\ ~B.alive
  BY DEF CompilerInv
<1>2. A = B
  <2>1. agenda = <<>>
    BY DEF Start
  <2>2. PICK path : path[1] = A /\ path[Len(agenda) + 1] = B
    BY <1>1 DEF Leads
  <2>3. Len(agenda) + 1 = 1
    BY <2>1
  <2>4. QED
    BY <2>2, <2>3
<1>3. Typed /\ Frames(A) /\ ~A.alive /\ compilers = <<>>
  BY <1>1, <1>2 DEF Agrees, Matches
<1>4. Typed'
  <2>1. <<>> \in Seq(FunctionRecord) /\ 0 \in Nat
    OBVIOUS
  <2>2. QED
    BY <1>3, <2>1 DEF Typed, Start
<1>5. Frames(A)'
  BY <1>3 DEF Frames, Start
<1>6. Matches(A)'
  BY <1>3, <1>4, <1>5 DEF Matches, Start
<1>7. Finished'
  <2>1. functions' = <<>>
    BY DEF Start
  <2>2. Range(functions)' = {}
    BY <2>1 DEF Range
  <2>3. QED
    BY <2>2 DEF Finished
<1>8. Agrees(A)'
  BY <1>3, <1>6, <1>7 DEF Agrees, Jumps
<1>9. QED
  BY <1>1, <1>2, <1>3, <1>8 DEF CompilerInv, Start

LEMMA FrameKeeps ==
  ASSUME CompilerInv, Next, ~Compile, \A f : ~Start(f)
  PROVE  CompilerInv'
<1>1. UNCHANGED compileVars
  BY DEF Next, Push, Assign, Closure, CloseUpvalue, TakeJump, CallReplaced, CallReturned, Suspend,
         Return, RuntimeError, Leave, UnchangedCompiler
<1>2. QED
  BY <1>1, CompilerStutters

LEMMA NextKeeps == CompilerInv /\ [Next]_vars => CompilerInv'
<1> SUFFICES ASSUME CompilerInv, [Next]_vars
             PROVE  CompilerInv'
  OBVIOUS
<1>1. CASE Compile
  BY <1>1, CompileStepKeeps DEF Compile
<1>2. CASE \E f : Start(f)
  BY <1>2, StartKeeps
<1>3. CASE UNCHANGED vars
  BY <1>3, CompilerStutters DEF vars
<1>4. CASE Next /\ ~Compile /\ \A f : ~Start(f)
  BY <1>4, FrameKeeps
<1>5. QED
  BY <1>1, <1>2, <1>3, <1>4

\* named_variable finds the declarations that lexical scoping means, also in a
\* compiler whose functions are run.
THEOREM ExecutionNamesResolve == Spec => []NamesResolve
<1>1. Init => CompilerInv
  BY InitLeads DEF Init
<1>2. CompilerInv /\ [Next]_vars => CompilerInv'
  BY NextKeeps
<1>3. CompilerInv => NamesResolve
  BY CompilerInvResolves
<1>4. QED
  BY <1>1, <1>2, <1>3, PTL DEF Spec

\* The jumps of the finished functions, one of which a frame runs, have a
\* target in them, be it that of the loop they leave or of another.
THEOREM ExecutionJumpsPatched == Spec => []JumpsPatched
<1>1. Init => CompilerInv
  BY InitLeads DEF Init
<1>2. CompilerInv /\ [Next]_vars => CompilerInv'
  BY NextKeeps
<1>3. CompilerInv => JumpsPatched
  BY CompilerInvPatches
<1>4. QED
  BY <1>1, <1>2, <1>3, PTL DEF Spec

=============================================================================
