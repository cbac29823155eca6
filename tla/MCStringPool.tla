----------------------------- MODULE MCStringPool -----------------------------
(* Two addresses for each of four strings of characters.  In arrays of four  *)
(* or eight slots x and y collide at the last one, so that the probe for the *)
(* second wraps around to the home of z; v is their neighbour.               *)
EXTENDS StringPool, TLC

CONSTANTS x1, x2, y1, y2, z1, z2, v1, v2, x, y, z, v

Characters == (x1 :> x) @@ (x2 :> x) @@ (y1 :> y) @@ (y2 :> y) @@ (z1 :> z)
  @@ (z2 :> z) @@ (v1 :> v) @@ (v2 :> v)
CollidingTexts == (x :> 15) @@ (y :> 7) @@ (z :> 8) @@ (v :> 22)
StringHash == [k \in Keys |-> CollidingTexts[Characters[k]]]

\* Addresses of strings with the same characters are interchangeable.
Addresses ==
  UNION {Permutations({x1, x2}), Permutations({y1, y2}),
         Permutations({z1, z2}), Permutations({v1, v2})}
=============================================================================
