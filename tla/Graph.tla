-------------------------------- MODULE Graph --------------------------------
(***************************************************************************)
(* Graph as its client sees it (src/graph.cpp, include/graph.h): update    *)
(* with the eager DSU, connected_components and point_query with Boruvka   *)
(* over the sketches, the copies that let a query continue, and            *)
(* write_binary with the constructor that reads the file back.             *)
(*                                                                         *)
(* A query runs with the workers paused and every update applied: that is  *)
(* what GraphWorker establishes.  So update adds the edge to both          *)
(* supernodes at once here, and the rest is one thread.  The parallel      *)
(* loops over supernodes are single steps; ParallelMergeSafe says why.     *)
(*                                                                         *)
(* A supernode keeps NumSketches sketches of one set of edges.  A sketch   *)
(* is the set itself, addition is symmetric difference, and a query gives  *)
(* ZERO exactly on the empty set, GOOD with any member, or FAIL when       *)
(* there are two members or more (the bucket of depth 0 always recovers a  *)
(* single one).  Checksum collisions are left out.                         *)
(***************************************************************************)
EXTENDS DSU, Sequences, Functions

CONSTANTS
  NumNodes,      \* num_nodes
  NumSketches,   \* Supernode::max_sketches for num_nodes
  Pairs,         \* the edges the client inserts and deletes
  BackupInMem,   \* config._backup_in_mem
  Saves,         \* does the client use write_binary?
  PointResumes   \* does the client go on after a point_query through Boruvka?

Nodes == 0..(NumNodes - 1)

ASSUME GraphAssumption ==
  /\ NumNodes \in Nat \ {0} /\ NumSketches \in Nat
  /\ \A e \in Pairs : e[1] \in Nodes /\ e[2] \in Nodes /\ e[1] < e[2]
  /\ BackupInMem \in BOOLEAN /\ Saves \in BOOLEAN
  /\ PointResumes \in BOOLEAN

VARIABLES
  edges,                       \* history: the graph the client built
  supernodes,                  \* [Nodes -> [sk, queried, sample_idx]]
  parent, size, dsu_valid,     \* the DSU
  spanning_forest,             \* edges that joined two trees of the DSU
  update_locked,
  paused,                      \* GraphWorker::paused
  phase, call,                 \* where the client thread is, in which call
  reps, query, to_merge, new_reps, todo, modified, first_round,
  failed,                      \* history: a sketch of this query returned FAIL
  backed_up, copies,           \* copies made for a query that continues
  disk,                        \* does the backup file exist?
  file,                        \* the file written by write_binary
  answer,                      \* what the last call returned or threw
  spent                        \* the client made a call it ends with

dsuVars   == <<parent, size, dsu_valid, spanning_forest>>
queryVars == <<reps, query, to_merge, new_reps, todo, modified, first_round,
               failed, backed_up, copies>>
vars == <<edges, supernodes, dsuVars, update_locked, paused, phase, call, queryVars,
          disk, file, answer, spent>>

SketchIdx == 0..(NumSketches - 1)
Singletons == [i \in Nodes |-> i]
AllNodes == [i \in 1..NumNodes |-> i - 1]
NoCall == [op |-> "none", a |-> 0, b |-> 0]
Calls == {[op |-> o, a |-> 0, b |-> 0] : o \in {"cont", "final"}}
           \cup {c \in [op : {"point"}, a : Nodes, b : Nodes] : c.a < c.b}

NoAnswer == [kind |-> "none"]
NoSample == [ret |-> "ZERO", edge |-> <<0, 0>>]

-----------------------------------------------------------------------------
(***************************************************************************)
(* Supernodes (src/supernode.cpp).                                         *)
(***************************************************************************)
\* A supernode as the constructors leave it, with the same set in all of
\* its sketches or with the contents read from a file.
Fresh(sk) == [sk |-> sk, queried |-> [i \in SketchIdx |-> FALSE], sample_idx |-> 0]
EmptySupernode == Fresh([i \in SketchIdx |-> {}])

\* The sum of two sketches: their buckets are xored.
SymDiff(A, B) == (A \ B) \cup (B \ A)

\* Supernode::apply_delta_update with the delta of one edge.
ApplyEdge(s, e) == [s EXCEPT !.sk = [i \in SketchIdx |-> SymDiff(@[i], {e})]]

\* Mutant: the last sketch is never used.
OutOfQueries_OffByOne(s) == s.sample_idx + 1 >= NumSketches

OutOfQueries(s) == s.sample_idx >= NumSketches

\* Mutant: a sketch that fails reports ZERO.
QueryResults_FailIsZero(set) ==
  IF set = {} THEN {NoSample}
  ELSE [ret : {"GOOD"}, edge : set] \cup {NoSample : e \in {x \in set : set # {x}}}

\* Sketch::query, by what it may return.
QueryResults(set) ==
  IF set = {} THEN {NoSample}
  ELSE [ret : {"GOOD"}, edge : set]
         \cup {[ret |-> "FAIL", edge |-> <<0, 0>>] : e \in {x \in set : set # {x}}}

\* Supernode::sample marks the sketch it queried and moves to the next.
Sampled(s) == [s EXCEPT !.queried[s.sample_idx] = TRUE, !.sample_idx = @ + 1]

\* Mutant: the indices are added up.
Merge_AddsIndex(s, other) ==
  LET idx == s.sample_idx + other.sample_idx
  IN [sk |-> [i \in SketchIdx |-> SymDiff(s.sk[i], other.sk[i])],
      queried |-> s.queried, sample_idx |-> idx]

\* Supernode::merge adds the sketches that neither has used up.
Merge(s, other) ==
  LET idx == IF s.sample_idx >= other.sample_idx THEN s.sample_idx ELSE other.sample_idx
      used(i) == i < idx
  IN [sk |-> [i \in SketchIdx |->
                IF used(i) THEN s.sk[i] ELSE SymDiff(s.sk[i], other.sk[i])],
      queried |-> [i \in SketchIdx |->
                IF used(i) THEN s.queried[i] ELSE s.queried[i] \/ other.queried[i]],
      sample_idx |-> idx]

\* Mutant: the marks of the queried sketches stay.
ResetQueryState_KeepsMarks(s) == [s EXCEPT !.sample_idx = 0]

ResetQueryState(s) ==
  [s EXCEPT !.queried = [i \in SketchIdx |-> @[i] /\ i >= s.sample_idx],
            !.sample_idx = 0]

\* A copy in memory keeps sample_idx but not the marks of its sketches;
\* one on disk is written by write_binary and read back.
CopyOf(s) == IF BackupInMem THEN [Fresh(s.sk) EXCEPT !.sample_idx = s.sample_idx]
             ELSE Fresh(s.sk)

-----------------------------------------------------------------------------
Init ==
  /\ edges = {}
  /\ supernodes = [i \in Nodes |-> EmptySupernode]
  /\ parent = Singletons /\ size = [i \in Nodes |-> 1]
  /\ dsu_valid = TRUE /\ spanning_forest = {}
  /\ update_locked = FALSE /\ paused = FALSE
  /\ phase = "idle" /\ call = NoCall
  /\ reps = <<>> /\ new_reps = <<>> /\ todo = <<>>
  /\ query = [i \in Nodes |-> NoSample]
  /\ to_merge = [i \in Nodes |-> <<>>]
  /\ modified = FALSE /\ first_round = FALSE /\ failed = FALSE
  /\ backed_up = {} /\ copies = [i \in Nodes |-> EmptySupernode]
  /\ disk = FALSE
  /\ file = [saved |-> FALSE, of |-> {}, supernodes |-> [i \in Nodes |-> EmptySupernode]]
  /\ answer = NoAnswer
  /\ spent = FALSE

\* A client that ends with connected_components(false), or with the first
\* point_query that runs Boruvka, makes no call after it.
MayCall == phase = "idle" /\ ~spent

\* Mutant: toggling an edge of the spanning forest does not end the DSU.
StaysValid_Always(e) == dsu_valid

\* The DSU survives the update of an edge that is not in its spanning forest.
StaysValid(e) == dsu_valid /\ e \notin spanning_forest

(***************************************************************************)
(* Graph::update: both supernodes get the edge; while the DSU is valid it  *)
(* is kept up to date, unless the edge is one of its spanning forest.      *)
(* This is the build with USE_EAGER_DSU, which CMakeLists.txt defines for  *)
(* both libraries; without it every update clears dsu_valid, and nothing   *)
(* else of the DSU changes.                                                *)
(* As in GraphWorker, the client does not update while write_binary has    *)
(* left the workers paused.                                                *)
(***************************************************************************)
Update(e) ==
  /\ MayCall /\ ~update_locked /\ ~paused
  /\ edges' = SymDiff(edges, {e})
  /\ supernodes' = [i \in Nodes |-> IF i \in {e[1], e[2]} THEN ApplyEdge(supernodes[i], e)
                                    ELSE supernodes[i]]
  /\ LET a == Root(parent, e[1])
         b == Root(parent, e[2])
         joins == StaysValid(e) /\ a # b
         w == Winner(size, a, b)
         l == Loser(size, a, b)
         flat == Compress(Compress(parent, e[1]), e[2])
     IN /\ dsu_valid' = StaysValid(e)
        /\ parent' = IF ~dsu_valid' THEN parent
                     ELSE IF joins THEN [flat EXCEPT ![l] = w] ELSE flat
        /\ size' = IF joins THEN [size EXCEPT ![w] = @ + size[l]] ELSE size
        /\ spanning_forest' = IF joins THEN spanning_forest \cup {e} ELSE spanning_forest
  /\ answer' = NoAnswer
  /\ UNCHANGED <<update_locked, paused, phase, call, queryVars, disk, file, spent>>

(***************************************************************************)
(* Queries the DSU answers: connected_components(true) and point_query     *)
(* while dsu_valid.                                                        *)
(***************************************************************************)
ComponentsAnswer(p) == [kind |-> "components", parts |-> Partition(p)]
PointAnswer(p, c) ==
  [kind |-> "point", a |-> c.a, b |-> c.b, same |-> Root(p, c.a) = Root(p, c.b)]

AnswerFromDSU(c) ==
  /\ MayCall /\ dsu_valid /\ c.op # "final"
  /\ IF c.op = "cont"
     THEN /\ parent' = [i \in Nodes |-> Root(parent, i)]
          /\ answer' = ComponentsAnswer(parent)
     ELSE /\ parent' = Compress(Compress(parent, c.a), c.b)
          /\ answer' = PointAnswer(parent, c)
  /\ UNCHANGED <<edges, supernodes, size, dsu_valid, spanning_forest, update_locked,
                 paused, phase, call, queryVars, disk, file, spent>>

(***************************************************************************)
(* The other queries flush, pause the workers and start boruvka_emulation. *)
(***************************************************************************)
MakeCopy == call.op # "final"

StartBoruvka(c) ==
  /\ MayCall /\ (dsu_valid => c.op = "final")
  /\ paused' = TRUE
  /\ update_locked' = TRUE
  /\ phase' = "sample" /\ call' = c
  /\ reps' = AllNodes
  /\ size' = [i \in Nodes |-> 1]
  /\ parent' = Singletons
  /\ spanning_forest' = {}
  /\ first_round' = TRUE /\ backed_up' = {}
  /\ answer' = NoAnswer
  /\ UNCHANGED <<edges, supernodes, dsu_valid, query, to_merge, new_reps, todo,
                 modified, failed, copies, disk, file, spent>>

Throw(what) ==
  /\ phase' = "throw"
  /\ answer' = [kind |-> "exception", what |-> what, after_fail |-> failed]

(***************************************************************************)
(* One round.  sample_supernodes samples every representative in parallel; *)
(* an exception of one lets the others finish and is rethrown.             *)
(***************************************************************************)
SampleSupernodes ==
  /\ phase = "sample"
  /\ modified' = FALSE
  /\ LET R == Range(reps)
         out == {i \in R : OutOfQueries(supernodes[i])}
         twice == {i \in R \ out : supernodes[i].queried[supernodes[i].sample_idx]}
         good == R \ (out \cup twice)
         next(i) == supernodes[i].sk[supernodes[i].sample_idx]
     IN /\ supernodes' = [i \in Nodes |->
             IF i \in good THEN Sampled(supernodes[i])
             ELSE IF i \in twice THEN [supernodes[i] EXCEPT !.sample_idx = @ + 1]
             ELSE supernodes[i]]
        /\ IF good = R
           THEN /\ query' \in {q \in [Nodes -> {NoSample} \cup UNION {QueryResults(next(i)) : i \in R}] :
                                 \A i \in Nodes : IF i \in R THEN q[i] \in QueryResults(next(i))
                                                  ELSE q[i] = NoSample}
                /\ failed' = (failed \/ \E i \in R : query'[i].ret = "FAIL")
                /\ phase' = "scan" /\ todo' = reps /\ new_reps' = <<>>
                /\ UNCHANGED answer
           ELSE /\ \E what \in {"OutOfQueries" : i \in out} \cup {"MultipleQuery" : i \in twice} :
                     Throw(what)
                /\ UNCHANGED <<query, todo, new_reps, failed>>
  /\ UNCHANGED <<edges, dsuVars, update_locked, paused, call, reps, to_merge,
                 first_round, backed_up, copies, disk, file, spent>>

\* Mutant: what was to be merged into b is forgotten.
MergeList_Shallow(a, b) == [to_merge EXCEPT ![a] = Append(@, b), ![b] = <<>>]

\* b and everything to be merged with b go to the list of a.
MergeList(a, b) == [to_merge EXCEPT ![a] = @ \o <<b>> \o to_merge[b], ![b] = <<>>]

(***************************************************************************)
(* supernodes_to_merge, one representative of the loop per step: try a     *)
(* failed one again, drop one with no edges, otherwise union the ends.     *)
(***************************************************************************)
ScanRep ==
  /\ phase = "scan" /\ todo # <<>>
  /\ todo' = Tail(todo)
  /\ LET i == Head(todo)
         e == query[i].edge
         good == query[i].ret = "GOOD"
         a == Root(parent, e[1])
         b == Root(parent, e[2])
         joins == good /\ a # b
         w == Winner(size, a, b)
         l == Loser(size, a, b)
         flat == IF good THEN Compress(Compress(parent, e[1]), e[2]) ELSE parent
     IN /\ new_reps' = IF query[i].ret = "FAIL" THEN Append(new_reps, i) ELSE new_reps
        /\ modified' = (modified \/ joins \/ query[i].ret = "FAIL")
        /\ parent' = IF joins THEN [flat EXCEPT ![l] = w] ELSE flat
        /\ size' = IF joins THEN [size EXCEPT ![w] = @ + size[l]] ELSE size
        /\ to_merge' = IF joins THEN MergeList(w, l) ELSE to_merge
        /\ spanning_forest' = IF joins THEN spanning_forest \cup {e} ELSE spanning_forest
  /\ UNCHANGED <<edges, supernodes, dsu_valid, update_locked, paused, phase, call, reps,
                 query, first_round, failed, backed_up, copies, disk, file, answer, spent>>

\* The elements of s that are in T, pushed back in order.
Filter(s, T) ==
  LET kept[k \in 0..Len(s)] ==
        IF k = 0 THEN <<>>
        ELSE IF s[k] \in T THEN Append(kept[k - 1], s[k]) ELSE kept[k - 1]
  IN kept[Len(s)]

MergedInto == {i \in Nodes : to_merge[i] # <<>>}

\* Mutant: a failed representative that others were merged into is kept too.
ScanEnd_KeepsFailed ==
  /\ phase = "scan" /\ todo = <<>>
  /\ phase' = "merge"
  /\ reps' = new_reps \o Filter(AllNodes, MergedInto)
  /\ UNCHANGED <<edges, supernodes, dsuVars, update_locked, paused, call, query, to_merge,
                 new_reps, todo, modified, first_round, failed, backed_up, copies, disk,
                 file, answer, spent>>

\* The end of supernodes_to_merge: the failed ones nothing was merged into,
\* then every node something is merged into, in order.
ScanEnd ==
  /\ phase = "scan" /\ todo = <<>>
  /\ phase' = "merge"
  /\ reps' = Filter(new_reps, Nodes \ MergedInto) \o Filter(AllNodes, MergedInto)
  /\ UNCHANGED <<edges, supernodes, dsuVars, update_locked, paused, call, query, to_merge,
                 new_reps, todo, modified, first_round, failed, backed_up, copies, disk,
                 file, answer, spent>>

\* Mutant: the loop has no end.
LoopAgain_Always == TRUE

\* The condition of boruvka_emulation's do ... while.
LoopAgain == modified

\* Mutant: first_round is cleared before it is looked at.
Backup_Cleared == MakeCopy /\ ~first_round

\* Is this the round whose merges the copies are for?
Backup == MakeCopy /\ first_round

BackupToDisk == disk' = (disk \/ (Backup /\ ~BackupInMem))

\* Supernode a after the supernodes to be merged into it were added in turn.
Merged(a) ==
  LET sum[k \in 0..Len(to_merge[a])] ==
        IF k = 0 THEN supernodes[a] ELSE Merge(sum[k - 1], supernodes[to_merge[a][k]])
  IN sum[Len(to_merge[a])]

(***************************************************************************)
(* Copy what the first round is about to change, and merge_supernodes.     *)
(***************************************************************************)
MergeSupernodes ==
  /\ phase = "merge"
  /\ BackupToDisk
  /\ backed_up' = IF Backup THEN Range(reps) ELSE backed_up
  /\ copies' = [i \in Nodes |-> IF Backup /\ i \in Range(reps) THEN CopyOf(supernodes[i])
                                ELSE copies[i]]
  /\ supernodes' = [i \in Nodes |-> IF i \in Range(reps) THEN Merged(i) ELSE supernodes[i]]
  /\ first_round' = FALSE
  /\ phase' = IF LoopAgain THEN "sample" ELSE "done"
  /\ query' = [i \in Nodes |-> NoSample]
  /\ to_merge' = [i \in Nodes |-> <<>>]
  /\ new_reps' = <<>>
  /\ UNCHANGED <<edges, dsuVars, update_locked, paused, call, reps, todo, modified, failed,
                 file, answer, spent>>

-----------------------------------------------------------------------------
(***************************************************************************)
(* The end of boruvka_emulation.  cleanup_copy puts the copies back; from  *)
(* disk it needs the backup file, or the process exits.                    *)
(***************************************************************************)
CleanupCopy ==
  /\ supernodes' = [i \in Nodes |-> IF MakeCopy /\ i \in backed_up THEN copies[i]
                                    ELSE supernodes[i]]
  /\ backed_up' = {} /\ copies' = [i \in Nodes |-> EmptySupernode]
  /\ reps' = <<>> /\ failed' = FALSE
  /\ UNCHANGED <<query, to_merge, new_reps, todo, modified, first_round>>

NoBackupFile == MakeCopy /\ ~BackupInMem /\ ~disk

AfterBoruvka == IF NoBackupFile THEN "exit" ELSE IF MakeCopy THEN "resume" ELSE "idle"

\* boruvka_emulation returns; connected_components(false) returns with it,
\* the supernodes merged in place.
BoruvkaReturns ==
  /\ phase = "done"
  /\ CleanupCopy
  /\ dsu_valid' = TRUE
  /\ parent' = [i \in Nodes |-> Root(parent, i)]
  /\ answer' = IF call.op = "point" THEN PointAnswer(parent, call) ELSE ComponentsAnswer(parent)
  /\ phase' = AfterBoruvka
  /\ call' = IF MakeCopy THEN call ELSE NoCall
  /\ spent' = ~MakeCopy
  /\ UNCHANGED <<edges, size, spanning_forest, update_locked, paused, disk, file>>

\* Mutant: the copies are not put back when an exception passes.
BoruvkaThrows_NoCleanup ==
  /\ phase = "throw"
  /\ phase' = IF MakeCopy THEN "resume" ELSE "idle"
  /\ call' = IF MakeCopy THEN call ELSE NoCall
  /\ spent' = ~MakeCopy
  /\ UNCHANGED <<edges, supernodes, dsuVars, update_locked, paused, queryVars, disk, file,
                 answer>>

\* An exception leaves boruvka_emulation, and connected_components(false).
BoruvkaThrows ==
  /\ phase = "throw"
  /\ CleanupCopy
  /\ phase' = AfterBoruvka
  /\ call' = IF MakeCopy THEN call ELSE NoCall
  /\ spent' = ~MakeCopy
  /\ UNCHANGED <<edges, dsuVars, update_locked, paused, disk, file, answer>>

\* The other queries reset the supernodes for more updates, unlock updates
\* and unpause the workers; point_query resets the DSU too.
Resume ==
  /\ phase = "resume"
  /\ supernodes' = [i \in Nodes |-> ResetQueryState(supernodes[i])]
  /\ IF call.op = "point"
     THEN parent' = Singletons /\ size' = [i \in Nodes |-> 1]
     ELSE UNCHANGED <<parent, size>>
  /\ update_locked' = FALSE /\ paused' = FALSE
  /\ phase' = "idle" /\ call' = NoCall
  /\ spent' = (call.op = "point" /\ ~PointResumes)
  /\ UNCHANGED <<edges, dsu_valid, spanning_forest, queryVars, disk, file, answer>>

-----------------------------------------------------------------------------
(***************************************************************************)
(* write_binary, and the two ways the next Graph is constructed once this  *)
(* one is destroyed: empty, or from the file.                              *)
(***************************************************************************)
WriteBinary ==
  /\ MayCall /\ Saves
  /\ paused' = TRUE
  /\ file' = [saved |-> TRUE, of |-> edges,
              supernodes |-> [i \in Nodes |-> Fresh(supernodes[i].sk)]]
  /\ answer' = NoAnswer
  /\ UNCHANGED <<edges, supernodes, dsuVars, update_locked, phase, call, queryVars,
                 disk, spent>>

NewGraph(e, s, valid) ==
  /\ phase = "idle"
  /\ edges' = e /\ supernodes' = s /\ dsu_valid' = valid
  /\ parent' = Singletons /\ size' = [i \in Nodes |-> 1] /\ spanning_forest' = {}
  /\ update_locked' = FALSE /\ paused' = FALSE /\ spent' = FALSE
  /\ answer' = NoAnswer
  /\ UNCHANGED <<phase, call, queryVars, disk, file>>

ConstructEmpty == NewGraph({}, [i \in Nodes |-> EmptySupernode], TRUE)

\* Mutant: the constructor from a file calls its DSU valid.
ConstructFromFile_Valid == file.saved /\ NewGraph(file.of, file.supernodes, TRUE)

ConstructFromFile == file.saved /\ NewGraph(file.of, file.supernodes, FALSE)

Query ==
  \/ SampleSupernodes \/ ScanRep \/ ScanEnd \/ MergeSupernodes
  \/ BoruvkaReturns \/ BoruvkaThrows \/ Resume

Next ==
  \/ \E e \in Pairs : Update(e)
  \/ \E c \in Calls : AnswerFromDSU(c) \/ StartBoruvka(c)
  \/ Query
  \/ WriteBinary \/ ConstructEmpty \/ ConstructFromFile

Spec == Init /\ [][Next]_vars

\* A call that has begun runs on: it is one thread that waits for nothing.
FairSpec == Spec /\ WF_vars(Query)

-----------------------------------------------------------------------------
SupernodeType ==
  [sk : [SketchIdx -> SUBSET Pairs], queried : [SketchIdx -> BOOLEAN],
   sample_idx : 0..NumSketches]

TypeOK ==
  /\ edges \subseteq Pairs
  /\ supernodes \in [Nodes -> SupernodeType]
  /\ copies \in [Nodes -> SupernodeType]
  /\ parent \in [Nodes -> Nodes]
  /\ size \in [Nodes -> 1..NumNodes]
  /\ dsu_valid \in BOOLEAN /\ update_locked \in BOOLEAN /\ paused \in BOOLEAN
  /\ spanning_forest \subseteq Pairs
  /\ phase \in {"idle", "sample", "scan", "merge", "done", "throw", "resume", "exit"}
  /\ call \in Calls \cup {NoCall}
  /\ \A s \in {reps, new_reps, todo} : Range(s) \subseteq Nodes /\ Len(s) <= NumNodes
  /\ query \in [Nodes -> [ret : {"GOOD", "ZERO", "FAIL"}, edge : Pairs \cup {<<0, 0>>}]]
  /\ \A i \in Nodes : Range(to_merge[i]) \subseteq Nodes
  /\ modified \in BOOLEAN /\ first_round \in BOOLEAN /\ failed \in BOOLEAN
  /\ backed_up \subseteq Nodes
  /\ disk \in BOOLEAN /\ spent \in BOOLEAN

\* A query that returns gives the connected components of the graph the
\* client built ("@return a vector of the connected components in the
\* graph", include/graph.h:171; "@return true if a and b are in the same
\* connected component", include/graph.h:179), whether the DSU or the
\* sketches answered it.
AnswerIsCorrect ==
  /\ answer.kind = "components" => answer.parts = Components(Nodes, edges)
  /\ answer.kind = "point" =>
       (answer.same <=> answer.b \in Reachable(Nodes, edges, answer.a))

\* The eager DSU, kept up to date by update and left behind by queries, is
\* exact whenever dsu_valid lets a query use it, and spanning_forest spans it.
DSUIsCurrent ==
  phase = "idle" /\ dsu_valid /\ ~spent =>
    /\ Partition(parent) = Components(Nodes, edges)
    /\ spanning_forest \subseteq edges
    /\ Components(Nodes, spanning_forest) = Components(Nodes, edges)

\* Whenever updates are allowed, also after a query that threw in the middle
\* of its rounds, each supernode is what ingestion alone would have made it:
\* all its sketches hold the edges of its node and all may be queried.
SupernodesRestored ==
  phase = "idle" /\ ~update_locked =>
    \A i \in Nodes : supernodes[i] = Fresh([j \in SketchIdx |-> Cut(edges, {i})])

Tree(r) == {x \in Nodes : Root(parent, x) = r}

\* Boruvka's loop invariant: at the start of a round the unused sketches of a
\* representative that is a root hold exactly the edges leaving its tree, no
\* tree is larger than a component, and a root dropped from the
\* representatives has no edge leaving it.
RootSketchesAreCuts ==
  phase = "sample" /\ ~spent =>
    \A r \in {x \in Nodes : parent[x] = x} :
      /\ Tree(r) \subseteq Reachable(Nodes, edges, r)
      /\ r \in Range(reps) =>
           \A j \in SketchIdx : j >= supernodes[r].sample_idx =>
             supernodes[r].sk[j] = Cut(edges, Tree(r))
      /\ r \notin Range(reps) => Cut(edges, Tree(r)) = {}

\* The parallel loop of merge_supernodes is free of races: no representative
\* occurs twice, and a supernode that is read is not written, nor read for
\* another representative.
ParallelMergeSafe ==
  phase = "merge" =>
    /\ Cardinality(Range(reps)) = Len(reps)
    /\ \A a \in Range(reps) : \A b \in Range(to_merge[a]) :
         /\ to_merge[b] = <<>>
         /\ \A c \in Nodes \ {a} : b \notin Range(to_merge[c])

\* Supernode::configure gives a supernode enough sketches: a query returns its
\* answer, and runs out of sketches only if one of them failed on the way.  It
\* never throws because it met a sketch that was queried before ("we can't
\* query from one sketch more than once", include/supernode.h:43).
EnoughSketches ==
  answer.kind = "exception" => answer.what = "OutOfQueries" /\ answer.after_fail

\* Whenever a query ends or throws with its copies on disk, the backup file is
\* there: restore_from_disk does not end the process (src/graph.cpp:337).
BackupIsThere == phase # "exit"

\* Every query ends: the rounds run out of merges or out of sketches.
QueryReturns == phase # "idle" ~> phase = "idle"
=============================================================================
