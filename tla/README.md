# A TLA+ model of GraphZeppelin

GraphZeppelin answers connectivity queries on a graph that arrives as a stream
of edge insertions and deletions. This directory holds TLA+ modules for the
parts of it where order, concurrency or failure matter, the TLC configurations
that check them, and TLAPS proofs. Paths below are relative to the root of the
repository (`src/graph.cpp`, `include/graph.h`); `PROJECT.json` puts `src/` in
front of them.

## 1. The system and its parts

| part | state | operations that change it | code |
|---|---|---|---|
| GraphWorker | `shutdown`, `paused`, `thr_paused`, `pause_lock`, `pause_condition` | `start_workers`, `stop_workers`, `pause_workers`, `unpause_workers`, `do_work` | `src/graph_worker.cpp` |
| Guttering system, work queue (external) | gutters, DataNodes, non-blocking flag | `insert`, `force_flush`, `get_data`, `get_data_callback`, `set_non_block` | used in `graph.h`, `graph.cpp`, `graph_worker.cpp` |
| Graph, ingestion | `update_locked`, supernodes | constructors, destructor, `update`, `batch_update` | `include/graph.h`, `src/graph.cpp` |
| Graph, queries | supernodes, `parent`, `size`, `modified`, copies | `connected_components`, `point_query`, `boruvka_emulation` and its helpers, `backup_to_disk`, `restore_from_disk` | `src/graph.cpp` |
| Eager DSU | `parent`, `size`, `dsu_valid`, `spanning_forest` | `update`, both queries | `include/graph.h`, `src/graph.cpp` |
| Saving and loading | the file | `write_binary`, constructor from a file | `src/graph.cpp` |
| Supernode | sketches, `sample_idx`, `merged_sketches` | `sample`, `merge`, `range_merge`, `apply_delta_update`, `reset_query_state`, serialization | `src/supernode.cpp` |
| Sketch, Bucket | buckets, `already_queried` | `update`, `query`, `+=`, serialization | `src/l0_sampling/sketch.cpp`, `include/l0_sampling/bucket.h` |
| Streams | `stream_off`, `query_index`, `query_block`, buffers | `get_edge`, `read_data`, `register_query`, `on_demand_query`, `post_query_resume` | `include/binary_graph_stream.h` |
| Standalone DSU | `parent`, `size` | `find_root`, `merge`, `reset` | `include/dsu.h` |
| Edge encodings | none | pairing functions and inverses | `src/util.cpp` |
| process_stream | reader threads, `shutdown` | `main`, `track_insertions` | `tools/process_stream.cpp` |
| Stream files | the file, `adj_mat` | the loops of `to_binary_format` and `validate_binary_stream` | `tools/` |
| Configuration, benchmarks, tests | | | `src/graph_configuration.cpp`, `tools/`, `test/` |

How they interact. `update` inserts both directions of an edge into the
guttering system, which moves full gutters into the work queue. Each worker
takes DataNodes from the queue and adds their updates to supernodes. A query
flushes the gutters, pauses the workers (which drain the queue first, because
`get_data` returns nothing only when the queue is empty and non-blocking), runs
Boruvka's algorithm over the sketches, puts copies back and resumes the
workers. While `dsu_valid` holds, `connected_components(true)` and
`point_query` answer from the eager DSU without any of this.

What is hard about it: the pause protocol and its condition variable; static
flags that outlive a Graph; a full work queue; exceptions out of a query whose
supernodes are half merged; failed sketches that are retried; the DSU that has
to be exact whenever `dsu_valid` says so; the parallel loops over supernodes;
and clients that go on after a call that leaves the Graph in a special state.
`PROJECT.json` lists these hazards with the lines where they bite.

## 2. Modules

| module | models |
|---|---|
| `Ingest` | abstract: updates are pending, then done; a read starts only when none is pending and nothing is applied during it |
| `UpdateCalls` | abstract: the calls of `update` by several threads; a call returns unless calls that overlapped have closed a cycle of parents |
| `GraphWorker` | the worker threads and the client thread that pauses, resumes and stops them |
| `DSU` | `get_parent`, union by size, and the reference definition of connected components: two nodes are connected if no set of nodes that no edge leaves separates them |
| `Graph` | the calls of the Graph as its one client thread sees them |
| `EagerDSU` | `update` called by several threads, one access to shared memory per step |
| `Supernode` | supernodes, sketches and buckets: every operation and the three file formats |
| `BinaryGraphStream` | the threads that read a `BinaryGraphStream_MT`, and its client |
| `ProcessStream` | `process_stream`: extends `BinaryGraphStream` and composes it with instances of `Ingest` and `UpdateCalls` |
| `StreamTools` | `to_binary_format`, `validate_binary_stream` and the sequential `BinaryGraphStream` |
| `MCGraph`, `MCEagerDSU`, `MCSupernode`, `MCStreamTools` | the instances for TLC |
| `GraphWorkerProofs`, `EagerDSUProofs`, `SupernodeProofs`, `StreamToolsProofs` | theorems about the module of that name |
| `ProcessStreamProofs` | theorems about `BinaryGraphStream`, and from them about `ProcessStream` |
| `GraphLemmas`, `GraphRoundProofs`, `GraphProofs` | theorems about `Graph`: lemmas about `DSU` and the operators of `Graph`; the inductive invariant through the rounds of Boruvka; the other calls and the theorems |

Four facts link the modules. `GraphWorker` is shown to implement `Ingest`, and
both `Graph` (whose updates are applied at once) and `ProcessStream` rest on
what `Ingest` promises; `ProcessStream` is proved to call it as it asks. In the
same way `EagerDSU` is shown to implement `UpdateCalls`, and `ProcessStream`
proved to call it as it asks. `Supernode` shows of real buckets what `Graph`
assumes of a sketch: the unused ones hold the vector, and a query returns ZERO
on the empty vector, a member of it, or FAIL if it has two members or more.
`EagerDSU` has the DSU of `Graph` at the grain of memory accesses.

**GraphWorker.** One action per step between which another thread can run. The
variables carry the names of the code; `wpc` and `mpc` are the control states
of the workers and of the client. `gutter`, `queue` and `hold` are where an
update is on its way to `applied`, the sketches. The waits of `pause_workers`
and `unpause_workers` have a timeout and re-read `thr_paused`, so they are
guards (`PauseReturn`, `UnpauseReturn`). The wait of `do_work` has none: the
predicate (`WaitPredicate`), the start of the wait (`Block`), the wake-up and
the relocking (`Relock`) are separate steps, because `paused` and `shutdown`
change without the mutex. An exception out of `batch_update` leaves the thread
function and ends the process: control state `terminated`. Loads and stores of
the plain `bool` flags are taken to be atomic and in program order.
The destructor frees the supernodes before it joins the workers, and may come
whenever no other call runs, also with updates in gutters and queue. A worker
that then adds a batch to a freed supernode writes memory that is not its own:
the write may do no harm (`ApplyDelta`) or end the process (`WriteFreed`, control
state `crashed`). `synced` is history: the updates that the last query that
flushed has covered. One thing is assumed of the client: when `UpdateAfterSave` is
false, it makes no update between `write_binary` and the next query. There is one
Graph at a time, so `open_graph` and the `MultipleGraphsException` of a second
one are left out.

**Graph.** One client thread; the workers are quiescent during a query, which
is what `GraphWorker` shows. A supernode is a record of sketches, their marks
and `sample_idx`; a sketch is the set of edges in it. `SampleSupernodes`,
`ScanRep`, `ScanEnd` and `MergeSupernodes` are one round of
`boruvka_emulation`; `BoruvkaReturns`, `BoruvkaThrows` and `Resume` are its end
and that of the calling query. `edges`, `failed` and `answer` are history: the
graph the client built, whether a sketch of this query failed, and what the
last call returned. The client stops after `connected_components(false)`, which
merges the supernodes in place; `PointResumes` says whether it goes on after a
`point_query` that ran Boruvka. `merged_sketches` always equals the number of
sketches here, since only `range_merge` and partial files change it and Graph
uses neither. `Update` is that of a build with `USE_EAGER_DSU`, which
`CMakeLists.txt` defines for both libraries; without it every update only clears
`dsu_valid`.

**DSU.** `Root` follows the parents as often as there are nodes; `Compress` is
the path compression of `get_parent`.

**EagerDSU.** Each thread is somewhere in `update`: before the mutex, in the
recursion of `get_parent` (down with a stack, up with one store per node
passed), at one of the two loads that compare sizes, before the
compare-and-swap, or at one of the loads or the store of `size[a] += size[b]`.
The operands of `!=` and `<` are evaluated from left to right, which C++ leaves
to the compiler, and those of `+=` from right to left. The mutex is that of the
edge's smaller end and protects only its list of spanning edges. `dsu_valid` is
read before the lock, as in the code. The compare-and-swap is weak: `CasFails`
is possible at any time and leaves what it found in `b`. A recursion deeper than
there are nodes is in a cycle; it ends in `overflow`, where the process has run
out of stack. `ever` and `met` are history: every edge the client ever updated,
and the threads whose call overlapped another one. `ImplementsCalls` maps the
threads inside a call, `met`, whether parents have a cycle and the threads in
`overflow` to the variables of `UpdateCalls`: only a thread whose call
overlapped another closes a cycle, nothing opens it again, and no thread
overflows without one.

**Supernode.** A bucket is the set of edge ids it is the sum of; it is good if
it holds one. The depth to which a column hashes an id is an arbitrary function,
the same for all supernodes, since they share a seed. What is left out is a
collision of checksums. `vec` is history: the vector a supernode stands for.
Edge ids are made and taken apart by `concat_pairing_fn` and its inverse. A
supernode's `sk` has only the sketches whose memory is initialized. The client
keeps to what the callers do: it range-merges a range both supernodes can be
sampled in ("we trust the caller"), and resets or saves a supernode when the
sketches concerned still hold its vector.

**BinaryGraphStream.** Offsets count updates from the end of the header, and an
update is its offset, so `buf_size`, `end_of_file` and `query_index` are numbers
of updates. Each access of `read_data` to `stream_off` or `query_block` is a
step: the loads of the first test, `fetch_add`, the two stores that move the
offset back. `lo` and `hi` are the block a reader claims, reads and hands out.
`query_index = -1` is the constant `Never`, not below the length of the stream.
The client does what the comments in the header ask: it registers a query only
before the readers start or between `post_query_resume` and the next `get_edge`,
and a reader that has returned BREAKPOINT waits for the resume. `stream_reset`
is called in the same state. `delivered` is history: what `get_edge` has
returned. Left out: an error of `pread` (an exception that ends the reader), a
short `pread` before the end of the file, and overflow of the index in
`register_query`.

**ProcessStream.** A reader takes an update from the stream and inserts it into
the Graph at both ends (`hand` is what is left to insert); the rest of the call
is the eager DSU, as `UpdateCalls` promises it (`UpdateDSU`), and is skipped
when `dsu_valid` is not set. Two things end the process before its time: a
reader that runs out of stack in a cycle, and an exception of the query, which
`main` does not catch (`QueryThrows`). The query itself meets no cycle, because
it resets `parent` first. `Count` and `Apply` are a worker's `num_updates +=
...` and its change of the sketches; `main` joins the readers, queries and joins
the progress thread. `shutdown` is a plain `bool`: a read of it may find the old
value any number of times.

**StreamTools.** Either the converter writes a file from an ascii stream, and
may be stopped before the end, or the file is a foreign one; then the validator
reads it through the buffer of the sequential reader. A read at the end of the
file fills part of the buffer and leaves the rest; before the first read the
buffer holds garbage, legal and illegal.

## 3. Runs

Passing runs:

| run | instance | what it shows |
|---|---|---|
| `worker` | 2 workers, 3 inserts, queue of 2, 1 spurious wake-up, fair | `TypeOK`, `QuerySeesAllUpdates`, `ExactlyOnce`, `WorkersAreSafe`, `PauseProtocol`, `ImplementsIngest`, `CallReturns`, `QueuedIsApplied` |
| `graph_calls` | 3 nodes, 3 edges, 2 sketches, copies in memory, files, fair | `TypeOK`, `AnswerIsCorrect`, `DSUIsCurrent`, `SupernodesRestored`, `QueryReturns` |
| `graph_rounds` | 4 nodes on a cycle, 3 sketches, copies on disk | `AnswerIsCorrect`, `SupernodesRestored`, `RootSketchesAreCuts`, `ParallelMergeSafe`, `EnoughSketches`, `BackupIsThere` over several rounds |
| `eager_dsu` | 2 threads, 3 nodes, 3 edges, 5 updates, fair | `JoinsOnlyConnected`, `QuietIsExact`, `OneEdgePerJoin`, `ImplementsCalls`, `UpdateReturns` |
| `supernode` | 2 supernodes, 2 sketches of 2 columns, 2 edges, 2 hash functions, 6 calls | `TypeOK`, `WindowIsExact`, `SampleIsInCut`, `SampleIsAnEdge` |
| `stream_readers` | 3 readers, blocks of 2, 5 updates, fair | `TypeOK`, `NoUpdateTwice`, `StopsAtPrefix`, `NothingPastQuery`, `StreamInv`, `ReadersStop`, no deadlock |
| `process_stream` | 2 readers, blocks of 2, 3 updates, fair | `EachUpdateOnce`, `QueryIsOfWholeFile`, `ProcessEnds`, no deadlock |
| `stream_tools` | 3 nodes, header of 4 updates, buffer of 2 | `ConvertedToggles`, `ReadsInOrder`, `VerdictIsRight` |

Runs that TLC is expected to refute, each a place where the code and what is
written about it disagree (details under `findings` in `PROJECT.json`):

| run | what happens |
|---|---|
| `worker_update_after_save` | `write_binary` leaves the workers paused; the next query misses the updates made since |
| `worker_destroy_unsynced` | the destructor frees the supernodes while a worker still has a batch for one of them |
| `graph_point_twice` | `point_query` resets the DSU and leaves `dsu_valid` set; the next answer is wrong |
| `eager_dsu_cycle` | two threads with trees of equal size hang two roots below each other: the compare-and-swap looks at the child alone, and the next `get_parent` of either node has no end |

`QuietIsExact` and `UpdateReturns` say what concurrent updates keep as long as
no such cycle exists; `JoinsOnlyConnected` and `OneEdgePerJoin` hold with cycles
too. `WorkersAreSafe` is the other side of `worker_destroy_unsynced`: a worker
writes a freed supernode only if the Graph was destroyed with updates that no
query had flushed. `CallReturns` and `QueuedIsApplied` hold unless such a write
has ended the process, and `ProcessEnds` counts a process that ran out of stack
or whose query threw as ended. `VerdictIsRight` says what
`validate_binary_stream` does get right.

Four more things the modules show with other constants or properties.

- A wake-up can be lost, because `paused` is cleared and notified without
  `pause_lock`: a worker woken spuriously is between its predicate and its wait
  when the notification passes. With two workers another one's `notify_all`
  wakes it, since only one worker at a time can be there, owning `pause_lock`;
  with a single worker the call never returns (`Workers = {w1}`,
  `MaxSpurious = 1` violates `CallReturns`).
- With two nodes, `Supernode::configure` gives one sketch, and a query on the
  one edge throws OutOfQueriesException (`Graph` with `NumNodes = 2`,
  `NumSketches = 1` violates `EnoughSketches`).
- On a file shorter than its header says, `read_data` of `BinaryGraphStream_MT`
  calls `pread` for ever (`FileEdges < NumEdges` violates `ReadersStop`).
- The sequential reader returns its last block again on such a file, so
  `validate_binary_stream`, which is to "ensure there are enough of them"
  (`tools/validate_binary_stream.cpp:19`), may report it as valid: the run
  `stream_tools` reaches `pc = "done"` with `~err` and `Len(file) < NumEdges`.

Bounds. Three inserts and a queue of two DataNodes fill the queue while workers
hold nodes, let both workers hold one at once and let a gutter be flushed in
parts; with two workers one can be parked or on its way into the wait while the
other works. A spurious wake-up makes a worker re-evaluate its predicate.
Sequences of calls are not bounded: the Graph is queried, saved, destroyed and
constructed again without limit. Three nodes with two sketches let a query
succeed, fail in the second round and retry; four nodes are the smallest number
at which a list of nodes to merge is itself moved to another root. `NumSketches`
is what `Supernode::configure` computes for the number of nodes. Five updates of
three edges on three nodes let two threads join, delete a spanning edge and go
on with a DSU that is not valid. Six calls on two supernodes are enough to
update both, sample, merge, reset, save and load; of the two hash functions one
makes a sketch of two edges FAIL. Five updates in blocks of two give the stream
a last block that the end cuts, queries inside and at the border of a block, and
three readers can be past the first test together, so that two overshoot a query
that the third meets inside its block. Four updates in a buffer of two give the
validator two full blocks, and shorter files a block that is cut and one that is
empty.

Fairness. `WF` of the client thread's steps inside a call and of each worker,
reader or inserting thread: the operating system schedules threads that can
run. The client need never make a call, and a spurious wake-up need never
occur. `ReadersStop` needs a thread that got BREAKPOINT for the others to go on
calling `get_edge` until it gets its own. `UpdateReturns` also assumes `SF` of
`CasJoins`: a weak compare-and-swap does not fail for ever without cause.
`ProcessEnds` has `WF` of the readers (for the DSU part of a call this is
`UpdateReturns`), the workers, main and the progress
thread, and assumes nothing about when `shutdown` is seen.

Deadlock is not checked where the system may stop: where calls are bounded
(`eager_dsu`, `supernode`), programs end (`stream_tools`), a write to a freed
supernode may end the process (`worker`, `worker_update_after_save`), or the
client's polling loop is a guard (`worker`; a poll that never ends shows there
as a call that does not return).

## 4. Proofs

`GraphWorkerProofs` proves for every set of workers and updates and every queue
length:

| theorem | statement |
|---|---|
| `TypeCorrect` | `Spec => []TypeOK` |
| `NothingLostOrDoubled` | `Spec => []ExactlyOnce` |
| `PauseProtocolHolds` | `Spec => []PauseProtocol` |
| `QueriesSeeAllUpdates` | `Spec => []QuerySeesAllUpdates` |
| `WorkersStaySafe` | `Spec => []WorkersAreSafe` |
| `Refinement` | `Spec => ImplementsIngest` |

The last four assume `~UpdateAfterSave`; without it the second of them is false
(run `worker_update_after_save`). None assumes anything about when the Graph is
destroyed: `WorkersStaySafe` says that a worker writes a freed supernode only if
an update was left that no query had covered, and not that it never does. All
use the assumptions on the constants: there is a worker, and `Free` is none.

`ExactlyOnce` is inductive together with the fact that a worker holds updates
only while it works on a DataNode. The others are not inductive. They rest on
`PauseProtocol`, which says for each control state of the client what the flags
are and where the workers may be. Its heart is the state `pausing`: a worker
that has got nothing from the queue, or is on its way into the wait, proves that
the queue is empty, and it stays empty because the client, the only one to fill
it, is waiting. The other half is that a call returns to the client only with
every worker back at work or every worker parked; so no `thr_paused` of an
earlier pause is left when the next begins. `Refinement` follows: an `Apply`
happens in `ApplyDelta` only, and a read begins with `PauseReturn`, where
`PauseProtocol` gives `applied = inserted`.

`ProcessStreamProofs` proves of `BinaryGraphStream`, for every set of readers
(not empty), every buffer size above zero and every length of stream and file:

| theorem | statement |
|---|---|
| `TypeCorrect` | `Spec => []TypeOK` |
| `AccountIsKept` | `Spec => []StreamInv` |
| `NoReaderRepeats` | `Spec => []NoUpdateTwice` |
| `StopsAreComplete` | `Spec => []StopsAtPrefix` |
| `QueriesCutTheStream` | `Spec => []NothingPastQuery` |

None of the last three is inductive: `stream_off` runs beyond a query and is
moved back by several readers in any order. `StreamInv` keeps the account that
survives this. Only the part of `stream_off` below the query and the end counts
(`Given`), and that part never shrinks while readers run (`Covered`). Every
update below it is handed out or owned by a reader. Whenever `stream_off` is
beyond a query, some reader between `fetch_add` and the cut has a block that ends
beyond the query, and will move it back (`Overshoot`). A reader that stops by itself
has seen the query or the end (`StopInv`). When all have stopped, nobody owns an
update and nobody is left to move the offset, which gives `StopsAtPrefix`.

Of `ProcessStream` it proves, for the same constants:

| theorem | statement |
|---|---|
| `ProcessReadsStream` | `ProcessSpec => Spec` |
| `ProcessUsesGraph` | `ProcessSpec => Graph!Spec` |
| `ProcessUsesCalls` | `ProcessSpec => Calls!Spec` |
| `UpdatesAreAccounted` | `ProcessSpec => []ProcessInv` |
| `InsertedOnce` | `ProcessSpec => []EachUpdateOnce` |
| `WholeFileIsQueried` | `ProcessSpec => []QueryIsOfWholeFile` |

`Spec` is that of `BinaryGraphStream`, `Graph!Spec` that of `Ingest` and
`Calls!Spec` that of `UpdateCalls`, so the first three say that each part is
used as it asks to be. What is proved of the stream then holds in the process:
`ProcessInv` says that the Graph and the hands of the readers share out exactly
the updates `get_edge` delivered, and `StopsAtPrefix`, once main has joined the
readers, that these are all updates of the file.

`EagerDSUProofs` proves for every set of threads, nodes and edges:

| theorem | statement |
|---|---|
| `TypeCorrect` | `Spec => []TypeOK` |
| `NeverJoinsUnconnected` | `Spec => []JoinsOnlyConnected` |
| `JoinsAreCounted` | `Spec => []OneEdgePerJoin` |
| `QuietDSUIsExact` | `Spec => []QuietIsExact` |

The argument for the second is about one set `S` of nodes at a time (`SideInv`):
as long as no edge updated leaves it, everything a thread holds (its roots, the
argument of `get_parent`, the stack) is on the same side of `S` as the edge it
works on, so every store into `parent` stays on one side. It needs no forest,
and so covers the cycles too. Nor does `JoinsAreCounted`: a store of path
compression never makes a root of a node or takes one away, so only the
compare-and-swap changes the number of roots, and the thread that made it owns
one edge that is not yet in `spanning_forest` until it inserts it. That it is a
new one follows from the mutex of the edge.

`QuietIsExact` is not inductive, and the argument for `Graph` does not carry
over: with several threads sizes do not grow along parents, since they are added
after the link is made and by stores that overwrite each other. Instead there is
(`ColoursExist`) a colouring of the nodes in which a union gives all nodes of
one colour the other. Links, stacks and stale roots stay inside a colour, cycle
or not; no colour has two roots; and no set closed under the joining edges
separates nodes of a colour. A colour joined with itself loses its root for
good: that is the cycle of `eager_dsu_cycle`, and what `QuietIsExact` excludes.
While every colour has a root, an edge that joins has ends of two colours, so no
call on it has returned; as calls on one edge exclude each other, the edge is in
the graph, or a call that deleted it still waits for the mutex and will give up
the DSU (`EdgeInv`). Between calls there is no such call, and colours, trees and
components are the same.

`SupernodeProofs` proves for every number of supernodes, sketches, columns and
guesses, every set of edges and every hash function:

| theorem | statement |
|---|---|
| `TypeCorrect` | `Spec => []TypeOK` |
| `WindowsStayExact` | `Spec => []WindowIsExact` |
| `SamplesAreRight` | `Spec => []SampleIsInCut` |
| `SamplesAreEdges` | `Spec => []SampleIsAnEdge` |

The first three are inductive together. The lemmas say that a sketch is linear
(`PlusAdds`, `BatchAdds`), also when `operator+=` skips a vector that is zero,
because the last bucket takes every id; that the sparse format loses nothing
(`SparseRoundTrip`); and, for each operation, that the window it leaves is exact
(`UpdatesAreExact`, `MergesAreExact`, `RangeIsExact` and so on). The last theorem
rests on `PairingInverse`: `inv_concat_pairing_fn` undoes `concat_pairing_fn` and
gives the smaller end first.

`StreamToolsProofs` proves for every number of nodes, header, buffer size, input
and file:

| theorem | statement |
|---|---|
| `ReaderIsFaithful` | `Spec => []ReadsInOrder` |
| `ValidatorIsRight` | `Spec => []VerdictIsRight` |
| `ConverterToggles` | `Spec => []ConvertedToggles` |

The inductive invariant adds to `ReadsInOrder` where the buffer is in the file
(`BlockInv`) and that `err` says whether an update returned so far was illegal
(`VerdictInv`); `TypeOK` of this module is part of it. `ConverterToggles` needs
more (`ToggleInv`): an edge is in `adj_mat` exactly if the file has an odd number
of its updates.

`GraphLemmas`, `GraphRoundProofs` and `GraphProofs` prove for every number of nodes
(not zero) and sketches, every set of edges, copies in memory or on disk, and
with or without files:

| theorem | statement | from |
|---|---|---|
| `GraphInvariant` | `Spec => []Inv` | |
| `TypeCorrect` | `Spec => []TypeOK` | |
| `RestoredForUpdates` | `Spec => []SupernodesRestored` | |
| `RoundsStartWithCuts` | `Spec => []RootSketchesAreCuts` | |
| `MergesAreSafe` | `Spec => []ParallelMergeSafe` | |
| `SketchesSuffice` | `Spec => []EnoughSketches` | `NumNodes < 2^NumSketches` |
| `BackupAlwaysThere` | `Spec => []BackupIsThere` | `NumSketches > 0` |
| `AnswersAreCorrect` | `Spec => []AnswerIsCorrect` | `~PointResumes` |
| `ValidDSUIsExact` | `Spec => []DSUIsCurrent` | `~PointResumes` |

The assumptions are those of the code. `Supernode::configure` makes
`log2(n) / (log2(3) - 1)` sketches, rounded down (`include/supernode.h`), and 2
to that number exceeds `n` from three nodes on; with one node there is no sketch
and with two there is one, and `EnoughSketches` fails (section 3). With
`PointResumes` the last two are false (run `graph_point_twice`).

`Inv`, the inductive invariant, has six parts. `TypeInv` and `RepsInv` are the
types and that no list of representatives names a node twice. `ForestInv` says
that sizes grow along parents, that a root's size is that of its tree, and that
no set closed under `spanning_forest` separates a node from its parent; this is
what makes `get_parent` end, and its trees lie inside components. `CallInv` ties
the flags to the control state. `RestoreInv` says where the sketches of the
single nodes are: in the supernodes, in their copies or in the file. `RoundInv`
is the argument about Boruvka's algorithm, and has a form for each phase of a
round. When a round starts, the sketches from `c` on of a root that is a
representative hold the edges that leave its tree, and no edge leaves the tree
of any other root; if no sketch failed, a representative's tree has at least
`2^c` nodes. During the round, `r0` is the forest it started with. The lists
`to_merge` of the present roots are exactly the roots of `r0` that were hung
below them, and a representative that was looked at failed and is kept, or has
both ends of its sample in one tree. `MergeSupernodes` then adds cuts of
disjoint trees, which gives the cut of their union (`CutOfUnion`).

Why it takes all this: none of the eight properties is inductive. That an answer
is right needs that a round without `modified` leaves no edge between two trees,
which needs the cuts, which need the lists, and these need that a union moves
the whole list of the root that loses. A representative that failed stays in the
list although another tree may have taken it in, so a representative need not be
a root, and the statements about cuts are made for roots alone.

`Root` follows recursive functions over the natural numbers. The prover has no
induction over operators, but the set form of it (`NatInd`: a set of numbers
with 0 and successors is `Nat`) and the library's facts about finite sets are
within reach, and give what is needed: that a function defined by recursion
equals its defining equation, that following parents ends in a root, and what
compression and union do to the roots.

Only model-checked:

- liveness under fairness, which this prover does not do: `CallReturns`,
  `QueuedIsApplied`, `QueryReturns`, `UpdateReturns`, `ReadersStop`,
  `ProcessEnds`;
- `ImplementsCalls`, that `EagerDSU` implements `UpdateCalls`;
- the properties that are expected to fail, since they do.

## 5. Not modelled

- The standalone DSU (`include/dsu.h`): only tests and a benchmark use it.
- The triangular pairing functions of `src/util.cpp`: nothing calls them.
- `Supernode::write_binary` of a sparse supernode or of one with fewer sketches
  than `max_sketches`: the reader could not read it, and nothing calls it so.
- The hashing of ids and checksums, and with it the probability that a sketch
  fails; the models let a sketch fail whenever it can.
- The guttering system, except for what the code here uses of it: it is a
  library of its own.
- Bytes: the layout of headers, files and buffers; failures of `open`, `read`,
  `write`; a `pread` that returns less than was asked for before the end of the
  file.
- Configuration setters, printing, timing, command-line arguments.
- Benchmarks, statistical tests, and the generators and verifiers of the tests.
