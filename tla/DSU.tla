--------------------------------- MODULE DSU ---------------------------------
(***************************************************************************)
(* The disjoint set union of Graph as operators: a forest is a function    *)
(* parent from nodes to nodes, a root is its own parent (src/graph.cpp,    *)
(* get_parent and the union code of supernodes_to_merge and update), and   *)
(* the reference definition of connected components they are checked       *)
(* against.  An edge is a pair <<u, v>> with u < v.                        *)
(***************************************************************************)
EXTENDS Naturals, FiniteSets

\* The node k links above x.
Up(parent, x, k) ==
  LET up[i \in Nat] == IF i = 0 THEN x ELSE parent[up[i - 1]] IN up[k]

Root(parent, x) == Up(parent, x, Cardinality(DOMAIN parent))

Path(parent, x) == {Up(parent, x, k) : k \in 0..Cardinality(DOMAIN parent)}

\* get_parent returns the root and points every node it passed to it.
Compress(parent, x) ==
  [y \in DOMAIN parent |-> IF y \in Path(parent, x) THEN Root(parent, x) ELSE parent[y]]

\* The larger of two roots becomes the parent; a keeps its place on a tie.
Winner(size, a, b) == IF size[a] < size[b] THEN b ELSE a
Loser(size, a, b)  == IF size[a] < size[b] THEN a ELSE b

\* The components a forest describes.
Partition(parent) ==
  {{y \in DOMAIN parent : Root(parent, y) = Root(parent, x)} : x \in DOMAIN parent}

-----------------------------------------------------------------------------
\* No edge leaves S.
ClosedUnder(edges, S) == \A e \in edges : e[1] \in S <=> e[2] \in S

\* Reference: the nodes reachable from x along edges are the ones that no set
\* closed under the edges separates from x.
Reachable(nodes, edges, x) ==
  {y \in nodes : \A S \in SUBSET nodes : ClosedUnder(edges, S) /\ x \in S => y \in S}

Components(nodes, edges) == {Reachable(nodes, edges, x) : x \in nodes}

\* The edges with exactly one end in S.
Cut(edges, S) == {e \in edges : (e[1] \in S) # (e[2] \in S)}
=============================================================================
