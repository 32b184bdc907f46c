-------------------------------- MODULE Ingest --------------------------------
(***************************************************************************)
(* What ingestion promises to the queries of a Graph, with no thread, flag *)
(* or queue in it: updates are pending until each is added to the sketches *)
(* once; a query reads the sketches only when nothing is pending, and      *)
(* nothing is added while it reads.  GraphWorker implements this.          *)
(***************************************************************************)
CONSTANT Updates

VARIABLES
  pending,   \* inserted, not yet in the sketches
  done,      \* in the sketches
  reading    \* a query or write_binary is reading the sketches

vars == <<pending, done, reading>>

Init == pending = {} /\ done = {} /\ reading = FALSE

Insert(u) ==
  /\ ~reading
  /\ u \notin pending \cup done
  /\ pending' = pending \cup {u}
  /\ UNCHANGED <<done, reading>>

Apply(u) ==
  /\ ~reading
  /\ u \in pending
  /\ pending' = pending \ {u}
  /\ done' = done \cup {u}
  /\ UNCHANGED reading

BeginRead == pending = {} /\ ~reading /\ reading' = TRUE /\ UNCHANGED <<pending, done>>

EndRead == reading /\ reading' = FALSE /\ UNCHANGED <<pending, done>>

\* The Graph is destroyed, with what is still pending, and another one
\* constructed.
Renew == ~reading /\ pending' = {} /\ done' = {} /\ UNCHANGED reading

Next == (\E u \in Updates : Insert(u) \/ Apply(u)) \/ BeginRead \/ EndRead \/ Renew

Spec == Init /\ [][Next]_vars
=============================================================================
