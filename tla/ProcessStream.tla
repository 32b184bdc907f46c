---------------------------- MODULE ProcessStream ----------------------------
(***************************************************************************)
(* tools/process_stream.cpp: reader threads that take updates from one     *)
(* BinaryGraphStream_MT and insert them into one Graph, a thread that      *)
(* shows the progress, and main, which joins the readers, queries the      *)
(* Graph and ends.  It composes BinaryGraphStream (what the readers do)    *)
(* with Ingest (what the Graph promises about its updates) and UpdateCalls *)
(* (what its eager DSU promises the threads that call update).             *)
(*                                                                         *)
(* Graph::update inserts an edge at either end, so an update x of the      *)
(* stream is two of the Graph: <<x, 1>> and <<x, 2>>.                      *)
(*                                                                         *)
(* Two things end the process early: a reader that runs out of stack in    *)
(* get_parent, and an exception of the query, which main does not catch.   *)
(***************************************************************************)
EXTENDS BinaryGraphStream, FiniteSets

VARIABLES
  pending, done, reading,         \* Ingest
  inside, met, cyclic, dead,      \* UpdateCalls
  hand,        \* what the update call of each reader has yet to insert
  main,        \* control state of main
  tracker,     \* control state of track_insertions
  shutdown,
  counted      \* the updates in num_updates

GraphUpdates == (0..(NumEdges - 1)) \X {1, 2}

Graph == INSTANCE Ingest WITH Updates <- GraphUpdates
Calls == INSTANCE UpdateCalls WITH Threads <- Readers

streamVars == vars
graphVars == <<pending, done, reading>>
callVars == <<inside, met, cyclic, dead>>
processVars == <<streamVars, graphVars, callVars, hand, main, tracker, shutdown, counted>>

ProcessInit ==
  /\ Init /\ Graph!Init /\ Calls!Init
  /\ hand = [r \in Readers |-> {}]
  /\ main = "start" /\ tracker = "sleep" /\ shutdown = FALSE
  /\ counted = {}

\* Neither a stack overflow nor std::terminate has ended the process.
Running == dead = {} /\ main # "aborted"

-----------------------------------------------------------------------------
(***************************************************************************)
(* The task of a reader thread.                                            *)
(***************************************************************************)
Ends(x) == {<<x, 1>>, <<x, 2>>}

\* The last call of g.update has returned.
Ready(r) == hand[r] = {} /\ r \notin inside

TakeEdge(r) ==
  /\ Ready(r)
  /\ GetEdge(r)
  /\ hand' = [hand EXCEPT ![r] = Ends(lo[r])]
  /\ UNCHANGED <<graphVars, callVars, main, tracker, shutdown, counted>>

\* The steps of read_data; the last one may be a BREAKPOINT, which ends the task.
ReadData(r) ==
  /\ Ready(r)
  /\ rpc[r] # "ready" \/ lo[r] >= hi[r]
  /\ Reader(r)
  /\ UNCHANGED <<graphVars, callVars, hand, main, tracker, shutdown, counted>>

\* g.update: the end that is named first comes first; after the second one the
\* call goes on with the DSU, unless it finds dsu_valid unset.
Update(r, u) ==
  /\ u \in hand[r] /\ \A v \in hand[r] : u[2] <= v[2]
  /\ Graph!Insert(u)
  /\ hand' = [hand EXCEPT ![r] = hand[r] \ {u}]
  /\ (u[2] = 2 /\ Calls!Enter(r)) \/ UNCHANGED callVars
  /\ UNCHANGED <<streamVars, main, tracker, shutdown, counted>>

\* The rest of g.update: the eager DSU.
UpdateDSU(r) ==
  /\ Calls!Return(r) \/ Calls!CloseCycle(r) \/ Calls!Overflow(r)
  /\ UNCHANGED <<streamVars, graphVars, hand, main, tracker, shutdown, counted>>

ReaderTask(r) ==
  /\ Running
  /\ TakeEdge(r) \/ ReadData(r) \/ UpdateDSU(r) \/ \E u \in GraphUpdates : Update(r, u)

-----------------------------------------------------------------------------
(***************************************************************************)
(* The Graph's workers, and main.                                          *)
(***************************************************************************)
\* batch_update counts an update before it is in the sketch.
Count(u) ==
  /\ u \in pending \ counted
  /\ counted' = counted \cup {u}
  /\ UNCHANGED <<streamVars, graphVars, callVars, hand, main, tracker, shutdown>>

Apply(u) ==
  /\ u \in counted
  /\ Graph!Apply(u)
  /\ UNCHANGED <<streamVars, callVars, hand, main, tracker, shutdown, counted>>

Work == Running /\ \E u \in GraphUpdates : Count(u) \/ Apply(u)

StartReaders ==
  /\ main = "start"
  /\ Start
  /\ main' = "join"
  /\ UNCHANGED <<graphVars, callVars, hand, tracker, shutdown, counted>>

\* Mutant: main waits for the first reader only.
Joined_One == \E r \in Readers : rpc[r] = "stopped" /\ Ready(r)

Joined == \A r \in Readers : rpc[r] = "stopped" /\ Ready(r)

JoinReaders ==
  /\ main = "join" /\ Joined
  /\ main' = "flush"
  /\ UNCHANGED <<streamVars, graphVars, callVars, hand, tracker, shutdown, counted>>

\* connected_components flushes, waits for the workers and reads the sketches.
BeginQuery ==
  /\ main = "flush" /\ Graph!BeginRead
  /\ main' = "query"
  /\ UNCHANGED <<streamVars, callVars, hand, tracker, shutdown, counted>>

EndQuery ==
  /\ main = "query" /\ Graph!EndRead
  /\ main' = "querier" /\ shutdown' = TRUE
  /\ UNCHANGED <<streamVars, callVars, hand, tracker, counted>>

\* OutOfQueriesException leaves main: std::terminate.
QueryThrows ==
  /\ main = "query"
  /\ main' = "aborted"
  /\ UNCHANGED <<streamVars, graphVars, callVars, hand, tracker, shutdown, counted>>

JoinQuerier ==
  /\ main = "querier" /\ tracker = "done"
  /\ main' = "exit"
  /\ UNCHANGED <<streamVars, graphVars, callVars, hand, tracker, shutdown, counted>>

Main ==
  /\ Running
  /\ StartReaders \/ JoinReaders \/ BeginQuery \/ EndQuery \/ QueryThrows \/ JoinQuerier

-----------------------------------------------------------------------------
(***************************************************************************)
(* track_insertions.  It reads num_updates and then shutdown, which is no   *)
(* atomic: the read may find the old value, and nothing bounds how long.   *)
(***************************************************************************)
\* Mutant: the total is doubled once more than the updates are.
Total_Twice == 2 * 2 * NumEdges

Total == 2 * NumEdges

Look ==
  /\ tracker = "sleep"
  /\ tracker' = IF Cardinality(counted) >= Total THEN "done" ELSE "look"
  /\ UNCHANGED <<streamVars, graphVars, callVars, hand, main, shutdown, counted>>

SeeShutdown ==
  /\ tracker = "look"
  /\ \E seen \in {FALSE, shutdown} : tracker' = IF seen THEN "done" ELSE "sleep"
  /\ UNCHANGED <<streamVars, graphVars, callVars, hand, main, shutdown, counted>>

Tracker == Running /\ (Look \/ SeeShutdown)

Ended == main = "exit" \/ ~Running
Exited == Ended /\ UNCHANGED processVars

ProcessNext == (\E r \in Readers : ReaderTask(r)) \/ Work \/ Main \/ Tracker \/ Exited

\* Every thread of the process is scheduled.
ProcessSpec ==
  /\ ProcessInit /\ [][ProcessNext]_processVars
  /\ \A r \in Readers : WF_processVars(ReaderTask(r))
  /\ WF_processVars(Work) /\ WF_processVars(Main) /\ WF_processVars(Tracker)

-----------------------------------------------------------------------------
\* No update of the file is inserted twice: what a reader is about to insert
\* is in no other hand and not in the Graph.
EachUpdateOnce ==
  \A r \in Readers : /\ hand[r] \cap (pending \cup done) = {}
                     /\ \A s \in Readers \ {r} : hand[r] \cap hand[s] = {}

\* The components that main prints are those of the whole file: while the
\* query reads the sketches, every update of the file is in them, at both ends
\* of its edge, and no thread has one left.
QueryIsOfWholeFile == reading => done = GraphUpdates /\ \A r \in Readers : hand[r] = {}

\* The process ends, also if track_insertions never sees shutdown: by then it
\* counts all updates.  It exits, unless the query throws or a reader is in a
\* cycle of the DSU that calls of update made together.
ProcessEnds == <>Ended
=============================================================================
