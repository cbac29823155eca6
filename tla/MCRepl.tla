-------------------------------- MODULE MCRepl --------------------------------
(* Sessions of a few lines, in an array that has to grow *)
EXTENDS Repl

TwoLines == 1..2

=============================================================================
