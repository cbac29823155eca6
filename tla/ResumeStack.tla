------------------------------ MODULE ResumeStack ------------------------------
(***************************************************************************)
(* What the coroutines of vm.c promise: asymmetric, one-shot continuations.*)
(* The coroutines that have been entered and not left form a stack with    *)
(* the main coroutine at the bottom.  A coroutine is entered from the top  *)
(* of the stack only, while it waits with a continuation, and leaving it   *)
(* always gives control to the one below.                                  *)
(***************************************************************************)
EXTENDS Sequences, SequencesExt

CONSTANTS Main, Coros

VARIABLES
  active,   \* the stack of entered coroutines, main first; empty when all is lost
  waiting,  \* coroutines that can be resumed
  created   \* coroutines that exist

vars == <<active, waiting, created>>

Init == active = <<Main>> /\ waiting = {} /\ created = {}

\* A new coroutine waits for its first resumption.
Create(c) ==
  /\ active # <<>>
  /\ c \notin created
  /\ created' = created \cup {c}
  /\ waiting' = waiting \cup {c}
  /\ UNCHANGED active

\* The top of the stack resumes a waiting coroutine, which stops waiting.
Resume(c) ==
  /\ active # <<>>
  /\ c \in waiting
  /\ active' = Append(active, c)
  /\ waiting' = waiting \ {c}
  /\ UNCHANGED created

\* The coroutine on top gives control back, and keeps its continuation.
Suspend ==
  /\ Len(active) > 1
  /\ active' = Front(active)
  /\ waiting' = waiting \cup {Last(active)}
  /\ UNCHANGED created

\* The coroutine on top gives control back for good.
Finish ==
  /\ Len(active) > 1
  /\ active' = Front(active)
  /\ UNCHANGED <<waiting, created>>

\* A coroutine loses its continuation, wherever it is.
Reset(c) ==
  /\ active # <<>>
  /\ waiting' = waiting \ {c}
  /\ UNCHANGED <<active, created>>

\* A runtime error leaves every coroutine but main where it was, for nobody to come back to.
Unwind ==
  /\ active # <<>>
  /\ active' = <<Main>>
  /\ UNCHANGED <<waiting, created>>

\* Control is lost.
Lose ==
  /\ active # <<>>
  /\ active' = <<>>
  /\ \/ UNCHANGED waiting
     \/ \E c \in waiting : waiting' = waiting \ {c}
  /\ UNCHANGED created

Next ==
  \/ \E c \in Coros : Create(c) \/ Resume(c) \/ Reset(c)
  \/ Suspend \/ Finish \/ Unwind \/ Lose

Spec == Init /\ [][Next]_vars
=============================================================================
