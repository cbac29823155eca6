-------------------------------- MODULE MCTable --------------------------------
(* Four strings.  In an array of four or eight, a and b collide at the last  *)
(* slot, so that the probe for the second wraps around to the home of c, and *)
(* d is their neighbour; in an array of sixteen none of them collide.        *)
EXTENDS Table, TLC

CONSTANTS a, b, c, d

CollidingHash == (a :> 15) @@ (b :> 7) @@ (c :> 8) @@ (d :> 22)
=============================================================================
