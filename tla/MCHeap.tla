--------------------------------- MODULE MCHeap ---------------------------------
(* A small instance of Heap: all objects are model values.                   *)
EXTENDS Heap, TLC

CONSTANTS c1, s1, s2, l1
=============================================================================
