----------------------------- MODULE UpdateCalls -----------------------------
(***************************************************************************)
(* What the eager DSU of Graph::update promises the threads that call it,  *)
(* with no DSU in it.  A call returns, unless the parents have a cycle.    *)
(* Only a call that another one overlapped can close a cycle, no call ever *)
(* opens it again, and only in a cycle can get_parent run out of stack,    *)
(* which ends the process.  EagerDSU implements this.                      *)
(***************************************************************************)
CONSTANT Threads

VARIABLES
  inside,   \* the threads in the DSU part of a call
  met,      \* those of them that were inside together with another one
  cyclic,   \* the parents have a cycle
  dead      \* the threads that ran out of stack

vars == <<inside, met, cyclic, dead>>

Init == inside = {} /\ met = {} /\ cyclic = FALSE /\ dead = {}

Enter(t) ==
  /\ t \notin inside
  /\ inside' = inside \cup {t}
  /\ met' = IF inside = {} THEN {} ELSE inside \cup {t}
  /\ UNCHANGED <<cyclic, dead>>

Return(t) ==
  /\ t \in inside \ dead
  /\ inside' = inside \ {t}
  /\ met' = met \ {t}
  /\ UNCHANGED <<cyclic, dead>>

CloseCycle(t) ==
  /\ t \in (inside \cap met) \ dead
  /\ cyclic' = TRUE
  /\ UNCHANGED <<inside, met, dead>>

Overflow(t) ==
  /\ t \in inside \ dead /\ cyclic
  /\ dead' = dead \cup {t}
  /\ UNCHANGED <<inside, met, cyclic>>

Next == \E t \in Threads : Enter(t) \/ Return(t) \/ CloseCycle(t) \/ Overflow(t)

Spec == Init /\ [][Next]_vars
=============================================================================
