-------------------------------- MODULE MapSpec --------------------------------
(***************************************************************************)
(* What the users of a table rely on: a partial function from strings to   *)
(* values, with the answers of table.h.                                    *)
(***************************************************************************)
CONSTANTS Keys, Values

VARIABLES map, answer

With(k, v) == [l \in DOMAIN map \cup {k} |-> IF l = k THEN v ELSE map[l]]
Without(k) == [l \in DOMAIN map \ {k} |-> map[l]]

Init == DOMAIN map = {} /\ answer = "absent"

Define(k, v) ==
  /\ map' = With(k, v)
  /\ answer' = IF k \in DOMAIN map THEN "old" ELSE "new"

\* OP_SET_GLOBAL
Assign(k, v) ==
  \/ k \in DOMAIN map /\ map' = With(k, v) /\ answer' = "old"
  \/ k \notin DOMAIN map /\ map' = map /\ answer' = "undefined"

Lookup(k) ==
  /\ answer' = IF k \in DOMAIN map THEN map[k] ELSE "absent"
  /\ UNCHANGED map

Remove(k) ==
  /\ map' = Without(k)
  /\ answer' = IF k \in DOMAIN map THEN map[k] ELSE "absent"

Next ==
  \E k \in Keys :
    \/ \E v \in Values : Define(k, v) \/ Assign(k, v)
    \/ Lookup(k)
    \/ Remove(k)

Spec == Init /\ [][Next]_<<map, answer>>
=============================================================================
