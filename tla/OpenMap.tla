------------------------------- MODULE OpenMap -------------------------------
(***************************************************************************)
(* What the interpreter relies on from the list of open upvalues: a        *)
(* partial function from stack slots to upvalues.                          *)
(***************************************************************************)
EXTENDS Naturals

CONSTANTS Slots, Upvalues

VARIABLES open,  \* the open upvalue of a slot
          made   \* the upvalues created so far

Init == open = << >> /\ made = {}

\* A slot that has no open upvalue gets a new one; one that has keeps it.
Capture(slot, u) ==
  /\ slot \notin DOMAIN open /\ u \notin made
  /\ open' = [s \in DOMAIN open \cup {slot} |-> IF s = slot THEN u ELSE open[s]]
  /\ made' = made \cup {u}

CloseFrom(last) ==
  /\ open' = [s \in {t \in DOMAIN open : t < last} |-> open[s]]
  /\ UNCHANGED made

Next ==
  \E slot \in Slots : CloseFrom(slot) \/ \E u \in Upvalues : Capture(slot, u)

Spec == Init /\ [][Next]_<<open, made>>
=============================================================================
