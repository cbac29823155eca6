----------------------------- MODULE MCCoroutines -----------------------------
(* Small instances of Coroutines: coroutines and functions are model values. *)
EXTENDS Coroutines, TLC

CONSTANTS c1, c2, fn

\* One function of one parameter, and two coroutines that can run it.
OneCoro == {c1}
TwoCoros == {c1, c2}
OneFunction == {fn}
UnaryArity == [g \in {fn, Script} |-> IF g = fn THEN 1 ELSE 0]
NullaryArity == [g \in {fn, Script} |-> 0]

Symmetry == Permutations({c1, c2})
=============================================================================
