---------------------------- MODULE MCExecution ----------------------------
(* Small programs, among them functions in functions: what the constructs *)
(* cost decides which programs fit.                                       *)
EXTENDS Execution, TLC

CONSTANTS Cheap,   \* constructs that use one unit of fuel
          Dear     \* those that use two; the others use three

ConstructCost == [c \in Constructs |-> IF c \in Cheap THEN 1 ELSE IF c \in Dear THEN 2 ELSE 3]

Symmetry == Permutations(Names)

=============================================================================
