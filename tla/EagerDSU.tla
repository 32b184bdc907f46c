------------------------------ MODULE EagerDSU ------------------------------
(***************************************************************************)
(* Graph::update called by several threads at once (include/graph.h, built *)
(* with USE_EAGER_DSU): after its inserts into the guttering system, each  *)
(* call keeps the DSU up to date under the mutex of the edge's smaller     *)
(* end.  That mutex protects spanning_forest[src] and nothing else: parent *)
(* is an array of atomics, size and dsu_valid are plain variables.         *)
(*                                                                         *)
(* A step is one access to shared memory.  get_parent is its recursion:    *)
(* down to a root, keeping the nodes it passed, then one store for each of *)
(* them on the way up.  Its two loads of parent[node] are one step: a node *)
(* with a parent other than itself never becomes a root again.  The data   *)
(* race on size is loads and a store that others may come between.  The    *)
(* operands of != and < are evaluated from left to right, which C++ leaves *)
(* open, and those of += from right to left.                               *)
(***************************************************************************)
EXTENDS DSU, Sequences

CONSTANTS
  NumNodes,     \* num_nodes
  Threads,      \* the inserting threads
  Free,         \* the value of a mutex that no thread owns
  Pairs,        \* the edges the client inserts and deletes
  MaxUpdates    \* bound on the number of update calls

Nodes == 0..(NumNodes - 1)

ASSUME EagerAssumption ==
  /\ NumNodes \in Nat \ {0} /\ MaxUpdates \in Nat
  /\ Free \notin Threads
  /\ Pairs \subseteq Nodes \X Nodes
  /\ \A e \in Pairs : e[1] < e[2]

VARIABLES
  parent, size, dsu_valid,
  spanning_forest,        \* the pairs <<src, dst>> with dst in spanning_forest[src]
  spanning_forest_mtx,    \* [Nodes -> Threads \cup {Free}]
  tpc, edge,              \* where each thread is, and the edge it updates
  a, b,                   \* the two roots of its loop
  cur, stack,             \* get_parent: its argument, and those of its callers
  sum,                    \* what it has loaded of size; 0 when that is not needed
  edges,                  \* history: the graph the client built
  ever, updates,          \* history: every edge updated; how many updates
  met                     \* history: the threads whose last call overlapped another

dsuVars    == <<parent, size, dsu_valid, spanning_forest, spanning_forest_mtx>>
threadVars == <<tpc, edge, a, b, cur, stack, sum>>
client     == <<edges, ever, updates, met>>
vars == <<dsuVars, threadVars, client>>

\* A thread is between the lock and the unlock of update.
Locked == {"down_a", "up_a", "down_b", "up_b", "compare", "compare_b", "cas",
           "load", "load_a", "store", "insert"}

Init ==
  /\ parent = [i \in Nodes |-> i] /\ size = [i \in Nodes |-> 1]
  /\ dsu_valid = TRUE /\ spanning_forest = {}
  /\ spanning_forest_mtx = [i \in Nodes |-> Free]
  /\ tpc = [t \in Threads |-> "idle"]
  /\ edge = [t \in Threads |-> <<0, 0>>]
  /\ a = [t \in Threads |-> 0] /\ b = [t \in Threads |-> 0]
  /\ cur = [t \in Threads |-> 0] /\ stack = [t \in Threads |-> <<>>]
  /\ sum = [t \in Threads |-> 0]
  /\ edges = {} /\ ever = {} /\ updates = 0 /\ met = {}

Set(f, t, x) == [f EXCEPT ![t] = x]

Inside == {t \in Threads : tpc[t] # "idle"}

\* The call has inserted both updates and finds the DSU valid, or returns.
Update(t, e) ==
  /\ tpc[t] = "idle" /\ updates < MaxUpdates
  /\ updates' = updates + 1
  /\ edges' = IF e \in edges THEN edges \ {e} ELSE edges \cup {e}
  /\ ever' = ever \cup {e}
  /\ IF dsu_valid
     THEN /\ tpc' = Set(tpc, t, "lock") /\ edge' = Set(edge, t, e)
          /\ met' = IF Inside = {} THEN met \ {t} ELSE met \cup Inside \cup {t}
     ELSE UNCHANGED <<tpc, edge, met>>
  /\ UNCHANGED <<dsuVars, a, b, cur, stack, sum>>

\* Mutant: an update of a spanning edge is taken for one that joins nothing.
IsSpanning_Ignored(e) == FALSE

IsSpanning(e) == e \in spanning_forest

\* The toggled edge is one of the spanning forest: the DSU is given up.
Invalidate(t) ==
  /\ tpc[t] = "lock" /\ spanning_forest_mtx[edge[t][1]] = Free
  /\ IsSpanning(edge[t])
  /\ dsu_valid' = FALSE
  /\ tpc' = Set(tpc, t, "idle")
  /\ UNCHANGED <<parent, size, spanning_forest, spanning_forest_mtx, edge, a, b, cur,
                 stack, sum, client>>

\* Mutant: b is left from the last call.
StartAtEnds_KeepsB(t) == a' = Set(a, t, edge[t][1]) /\ UNCHANGED b

StartAtEnds(t) == a' = Set(a, t, edge[t][1]) /\ b' = Set(b, t, edge[t][2])

Lock(t) ==
  /\ tpc[t] = "lock" /\ spanning_forest_mtx[edge[t][1]] = Free
  /\ ~IsSpanning(edge[t])
  /\ spanning_forest_mtx' = Set(spanning_forest_mtx, edge[t][1], t)
  /\ StartAtEnds(t)
  /\ cur' = Set(cur, t, edge[t][1]) /\ stack' = Set(stack, t, <<>>)
  /\ tpc' = Set(tpc, t, "down_a")
  /\ UNCHANGED <<parent, size, dsu_valid, spanning_forest, edge, sum, client>>

-----------------------------------------------------------------------------
(***************************************************************************)
(* get_parent(a), then get_parent(b).                                      *)
(***************************************************************************)
\* A recursion as deep as there are nodes is in a cycle: it has no end, and
\* the process overflows its stack.
Descend(t, down, up) ==
  /\ tpc[t] = down
  /\ IF parent[cur[t]] = cur[t]
     THEN tpc' = Set(tpc, t, up) /\ UNCHANGED <<cur, stack>>
     ELSE IF Len(stack[t]) = NumNodes
     THEN tpc' = Set(tpc, t, "overflow") /\ UNCHANGED <<cur, stack>>
     ELSE /\ stack' = Set(stack, t, Append(stack[t], cur[t]))
          /\ cur' = Set(cur, t, parent[cur[t]])
          /\ UNCHANGED tpc
  /\ UNCHANGED <<dsuVars, edge, a, b, sum, client>>

\* Mutant: the store goes the wrong way.
Compressed_Swapped(t) == Set(parent, cur[t], stack[t][Len(stack[t])])

Compressed(t) == Set(parent, stack[t][Len(stack[t])], cur[t])

Ascend(t) ==
  /\ tpc[t] \in {"up_a", "up_b"} /\ stack[t] # <<>>
  /\ parent' = Compressed(t)
  /\ stack' = Set(stack, t, SubSeq(stack[t], 1, Len(stack[t]) - 1))
  /\ UNCHANGED <<size, dsu_valid, spanning_forest, spanning_forest_mtx, tpc, edge, a, b,
                 cur, sum, client>>

FoundA(t) ==
  /\ tpc[t] = "up_a" /\ stack[t] = <<>>
  /\ a' = Set(a, t, cur[t])
  /\ cur' = Set(cur, t, b[t])
  /\ tpc' = Set(tpc, t, "down_b")
  /\ UNCHANGED <<dsuVars, edge, b, stack, sum, client>>

\* Mutant: the mutex stays locked.
Unlock_Forgotten(t) == UNCHANGED spanning_forest_mtx /\ tpc' = Set(tpc, t, "idle")

Unlock(t) ==
  /\ spanning_forest_mtx' = Set(spanning_forest_mtx, edge[t][1], Free)
  /\ tpc' = Set(tpc, t, "idle")

\* The loop ends when both ends have the same root.
FoundSame(t) ==
  /\ tpc[t] = "up_b" /\ stack[t] = <<>> /\ a[t] = cur[t]
  /\ Unlock(t)
  /\ UNCHANGED <<parent, size, dsu_valid, spanning_forest, edge, a, b, cur, stack, sum,
                 client>>

FoundB(t) ==
  /\ tpc[t] = "up_b" /\ stack[t] = <<>> /\ a[t] # cur[t]
  /\ b' = Set(b, t, cur[t])
  /\ tpc' = Set(tpc, t, "compare")
  /\ UNCHANGED <<dsuVars, edge, a, cur, stack, sum, client>>

-----------------------------------------------------------------------------
(***************************************************************************)
(* The union.                                                              *)
(***************************************************************************)
\* size[a] < size[b]: a load of each, and the swap.
LoadSize(t) ==
  /\ tpc[t] = "compare"
  /\ sum' = Set(sum, t, size[a[t]])
  /\ tpc' = Set(tpc, t, "compare_b")
  /\ UNCHANGED <<dsuVars, edge, a, b, cur, stack, client>>

Compare(t) ==
  /\ tpc[t] = "compare_b"
  /\ IF sum[t] < size[b[t]] THEN a' = Set(a, t, b[t]) /\ b' = Set(b, t, a[t])
     ELSE UNCHANGED <<a, b>>
  /\ sum' = Set(sum, t, 0)
  /\ tpc' = Set(tpc, t, "cas")
  /\ UNCHANGED <<dsuVars, edge, cur, stack, client>>

\* Mutant: a plain store instead of the CAS.
CanJoin_Always(t) == TRUE

CanJoin(t) == parent[b[t]] = b[t]

CasJoins(t) ==
  /\ tpc[t] = "cas" /\ CanJoin(t)
  /\ parent' = Set(parent, b[t], a[t])
  /\ tpc' = Set(tpc, t, "load")
  /\ UNCHANGED <<size, dsu_valid, spanning_forest, spanning_forest_mtx, edge, a, b, cur,
                 stack, sum, client>>

\* atomic_compare_exchange_weak fails, spuriously perhaps, and leaves what it
\* found in b; the loop looks for the roots again.
CasFails(t) ==
  /\ tpc[t] = "cas"
  /\ b' = Set(b, t, parent[b[t]])
  /\ cur' = Set(cur, t, a[t])
  /\ tpc' = Set(tpc, t, "down_a")
  /\ UNCHANGED <<dsuVars, edge, a, stack, sum, client>>

\* size[a] += size[b]: two loads and a store.
LoadAddend(t) ==
  /\ tpc[t] = "load"
  /\ sum' = Set(sum, t, size[b[t]])
  /\ tpc' = Set(tpc, t, "load_a")
  /\ UNCHANGED <<dsuVars, edge, a, b, cur, stack, client>>

AddSizes(t) ==
  /\ tpc[t] = "load_a"
  /\ sum' = Set(sum, t, size[a[t]] + sum[t])
  /\ tpc' = Set(tpc, t, "store")
  /\ UNCHANGED <<dsuVars, edge, a, b, cur, stack, client>>

StoreSize(t) ==
  /\ tpc[t] = "store"
  /\ size' = Set(size, a[t], sum[t])
  /\ sum' = Set(sum, t, 0)
  /\ tpc' = Set(tpc, t, "insert")
  /\ UNCHANGED <<parent, dsu_valid, spanning_forest, spanning_forest_mtx, edge, a, b, cur,
                 stack, client>>

Spanning(e) == spanning_forest \cup {e}

InsertSpanning(t) ==
  /\ tpc[t] = "insert"
  /\ spanning_forest' = Spanning(edge[t])
  /\ Unlock(t)
  /\ UNCHANGED <<parent, size, dsu_valid, edge, a, b, cur, stack, sum, client>>

Step(t) ==
  \/ Invalidate(t) \/ Lock(t)
  \/ Descend(t, "down_a", "up_a") \/ Descend(t, "down_b", "up_b")
  \/ Ascend(t) \/ FoundA(t) \/ FoundSame(t) \/ FoundB(t)
  \/ LoadSize(t) \/ Compare(t) \/ CasJoins(t) \/ CasFails(t)
  \/ LoadAddend(t) \/ AddSizes(t) \/ StoreSize(t) \/ InsertSpanning(t)

Next == \E t \in Threads : Step(t) \/ \E e \in Pairs : Update(t, e)

Spec == Init /\ [][Next]_vars

\* Threads are scheduled, and a weak CAS does not fail for ever without cause.
FairSpec == Spec /\ \A t \in Threads : WF_vars(Step(t)) /\ SF_vars(CasJoins(t))

-----------------------------------------------------------------------------
TypeOK ==
  /\ parent \in [Nodes -> Nodes] /\ size \in [Nodes -> Nat]
  /\ dsu_valid \in BOOLEAN
  /\ spanning_forest \subseteq Pairs
  /\ spanning_forest_mtx \in [Nodes -> Threads \cup {Free}]
  /\ tpc \in [Threads -> Locked \cup {"idle", "lock", "overflow"}]
  /\ edge \in [Threads -> Nodes \X Nodes]
  /\ a \in [Threads -> Nodes] /\ b \in [Threads -> Nodes] /\ cur \in [Threads -> Nodes]
  /\ stack \in [Threads -> Seq(Nodes)]
  /\ sum \in [Threads -> Nat]
  /\ edges \subseteq ever /\ ever \subseteq Pairs
  /\ updates \in Nat
  /\ met \subseteq Threads

\* A set of nodes that no edge the client ever updated leaves.
Closed(S) == \A e \in ever : e[1] \in S <=> e[2] \in S

\* However the threads race, the DSU never joins nodes that no edge connects:
\* every link of parent stays inside each closed set.
JoinsOnlyConnected ==
  \A S \in SUBSET Nodes : Closed(S) => \A x \in Nodes : x \in S <=> parent[x] \in S

\* Following parent from any node ends in a root: get_parent returns.
ParentsAreForest == \A x \in Nodes : parent[Root(parent, x)] = Root(parent, x)

Quiet == \A t \in Threads : tpc[t] = "idle"

\* When every call has returned and the DSU is still called valid, it is what
\* a query takes it for ("DSU representation of supernode relationship",
\* include/graph.h:50): the connected components of the graph, spanned by
\* edges the graph has.  It takes a forest for granted; see ParentsAreForest.
QuietIsExact ==
  Quiet /\ dsu_valid /\ ParentsAreForest =>
    /\ Partition(parent) = Components(Nodes, edges)
    /\ spanning_forest \subseteq edges
    /\ Components(Nodes, spanning_forest) = Components(Nodes, edges)

\* Each union takes one root away and leaves one spanning edge, cycle or not:
\* no compare-and-swap of two threads takes the same root, and no compression
\* makes a root of a node or takes a root away.
OneEdgePerJoin ==
  Cardinality({x \in Nodes : parent[x] # x})
    = Cardinality(spanning_forest)
        + Cardinality({t \in Threads : tpc[t] \in {"load", "load_a", "store", "insert"}})

\* Seen through the calls that are inside, the threads do what UpdateCalls
\* promises: the compare-and-swap of a call that no other one overlapped makes
\* no cycle, path compression makes and breaks none, and get_parent recurses
\* without end in a cycle only.
Calls == INSTANCE UpdateCalls WITH
           inside <- Inside,
           met <- met \cap Inside,
           cyclic <- ~ParentsAreForest,
           dead <- {t \in Threads : tpc[t] = "overflow"}
ImplementsCalls == Calls!Spec

\* The loop of update ends, unless the parents have lost their roots: a
\* compare-and-swap fails because another one succeeded.
UpdateReturns ==
  \A t \in Threads : tpc[t] # "idle" ~> (tpc[t] = "idle" \/ ~ParentsAreForest)
=============================================================================
