------------------------------ MODULE Supernode ------------------------------
(***************************************************************************)
(* Supernodes and their sketches (src/supernode.cpp, include/supernode.h,  *)
(* src/l0_sampling/sketch.cpp, include/l0_sampling/): the buckets, the two *)
(* kinds of query, addition, copies, the three file formats, and the       *)
(* window [sample_idx, merged_sketches) of sketches that may still be      *)
(* sampled.  Edges enter and leave as pairs of nodes and are sketched as   *)
(* edge ids (src/util.cpp).                                                *)
(*                                                                         *)
(* A bucket is the set of edge ids it is the sum of: a sum modulo 2 is a   *)
(* symmetric difference, and a bucket is good when it holds one id.        *)
(* Checksum collisions are left out.  The depth at which a column hashes   *)
(* an id is any function of the sketch, the column and the id: all         *)
(* supernodes of a Graph have one seed, so they share it.                  *)
(***************************************************************************)
EXTENDS Naturals

CONSTANTS
  Names,         \* the supernodes of the client
  NumNodes,      \* n
  NodeBits,      \* num_bits of a node id
  MaxSketches,   \* Supernode::max_sketches
  NumColumns, NumGuesses,   \* of Sketch
  Hashes,        \* the depth functions a seed may give
  Edges,         \* the edges the client updates, as pairs in either order
  MaxCalls       \* bound: how many calls the client makes

SketchIdx == 0..(MaxSketches - 1)
Columns == 0..(NumColumns - 1)

\* Sketch::num_elems: one bucket per column and guess, and the last one, of
\* depth 0, that takes every id.
NumElems == NumColumns * NumGuesses + 1
Elems == 0..(NumElems - 1)
Last == NumElems - 1

-----------------------------------------------------------------------------
\* Mutant: the ends of the edge are not put in order.
concat_pairing_fn_Unordered(i, j) == i * 2^NodeBits + j

concat_pairing_fn(i, j) ==
  IF i > j THEN j * 2^NodeBits + i ELSE i * 2^NodeBits + j

inv_concat_pairing_fn(idx) == <<idx \div 2^NodeBits, idx % 2^NodeBits>>

Id(e) == concat_pairing_fn(e[1], e[2])
Ids == {Id(e) : e \in Edges}

ASSUME SupernodeAssumption ==
  /\ MaxCalls \in Nat /\ MaxSketches \in Nat \ {0} /\ NumColumns \in Nat /\ NumGuesses \in Nat
  /\ NodeBits \in Nat /\ NumNodes \in 1..2^NodeBits
  /\ Edges \subseteq (0..(NumNodes - 1)) \X (0..(NumNodes - 1))
  /\ \A e \in Edges : e[1] # e[2]
  /\ Hashes \subseteq [SketchIdx -> [Columns -> [Ids -> 0..NumGuesses]]]

VARIABLES
  depth,     \* Bucket_Boruvka::get_index_depth for the seed of this Graph
  node,      \* [Names -> supernode]
  vec,       \* history: the edge ids each supernode stands for
  result,    \* what the last sample or exhaustive_sample returned
  calls      \* how many calls were made

vars == <<depth, node, vec, result, calls>>

SymDiff(S, T) == (S \ T) \cup (T \ S)

-----------------------------------------------------------------------------
(***************************************************************************)
(* Sketches.                                                               *)
(***************************************************************************)
EmptySketch == [bucket |-> [k \in Elems |-> {}], queried |-> FALSE]

\* Sketch::update of sketch i adds x to bucket k.
Takes(i, k, x) ==
  \/ k = Last
  \/ \E c \in Columns :
       depth[i][c][x] < NumGuesses /\ k = c * NumGuesses + depth[i][c][x]

\* batch_update, with the set of ids that occur an odd number of times.
BatchUpdate(i, s, X) ==
  [bucket |-> [k \in Elems |-> SymDiff(s.bucket[k], {x \in X : Takes(i, k, x)})],
   queried |-> s.queried]

IsGood(bucket) == \E x \in bucket : bucket = {x}

GoodIds(s) == {x \in UNION {s.bucket[k] : k \in Elems} : \E k \in Elems : s.bucket[k] = {x}}

\* The first good bucket in the order of query's loops.
FirstGood(s) ==
  CHOOSE k \in Elems : IsGood(s.bucket[k]) /\ \A j \in 0..(k - 1) : ~IsGood(s.bucket[j])

Returns(code, ids) == [ret |-> code, edges |-> {inv_concat_pairing_fn(x) : x \in ids}]

\* Mutant: a single id is not recovered from the deterministic bucket.
Query_NoShortcut(s) ==
  IF s.bucket[Last] = {} THEN Returns("ZERO", {})
  ELSE IF \E k \in Elems \ {Last} : IsGood(s.bucket[k]) THEN Returns("GOOD", s.bucket[FirstGood(s)])
  ELSE Returns("FAIL", {})

\* Sketch::query.
Query(s) ==
  IF s.bucket[Last] = {} THEN Returns("ZERO", {})
  ELSE IF IsGood(s.bucket[Last]) THEN Returns("GOOD", s.bucket[Last])
  ELSE IF \E k \in Elems : IsGood(s.bucket[k]) THEN Returns("GOOD", s.bucket[FirstGood(s)])
  ELSE Returns("FAIL", {})

\* Sketch::exhaustive_query returns what every good bucket holds; it marks the
\* sketch only when it had to look beyond the deterministic bucket.
ExhaustiveQuery(s) ==
  IF s.bucket[Last] = {} THEN Returns("ZERO", {})
  ELSE IF IsGood(s.bucket[Last]) THEN Returns("GOOD", s.bucket[Last])
  ELSE IF GoodIds(s) # {} THEN Returns("GOOD", GoodIds(s))
  ELSE Returns("FAIL", {})

Marks(s, exhaustive) == ~exhaustive \/ (s.bucket[Last] # {} /\ ~IsGood(s.bucket[Last]))

\* Sketch::operator+= has nothing to add when the other vector is zero.
Plus(s, t) ==
  [bucket |-> IF t.bucket[Last] = {} THEN s.bucket
              ELSE [k \in Elems |-> SymDiff(s.bucket[k], t.bucket[k])],
   queried |-> s.queried \/ t.queried]

\* The copy constructor, and write_binary read back: only the buckets.
CopySketch(s) == [bucket |-> s.bucket, queried |-> FALSE]

\* Mutant: the deterministic bucket alone is written.
SparseData_LastOnly(s) == [k \in {Last} |-> s.bucket[k]]

\* write_sparse_binary keeps the buckets that are not zero and the last one,
\* and the constructor fills in the others.
SparseData(s) == [k \in {j \in Elems : s.bucket[j] # {} \/ j = Last} |-> s.bucket[k]]
ReadSparse(data) ==
  [bucket |-> [k \in Elems |-> IF k \in DOMAIN data THEN data[k] ELSE {}], queried |-> FALSE]

-----------------------------------------------------------------------------
(***************************************************************************)
(* Supernodes.                                                             *)
(***************************************************************************)
Snode(sk, sample_idx, num_sketches, merged_sketches) ==
  [sk |-> sk, sample_idx |-> sample_idx, num_sketches |-> num_sketches,
   merged_sketches |-> merged_sketches]

NewSupernode == Snode([i \in SketchIdx |-> EmptySketch], 0, MaxSketches, MaxSketches)

\* delta_supernode, and apply_delta_update under node_mt.
Delta(X) == [i \in SketchIdx |-> BatchUpdate(i, EmptySketch, X)]
ApplyDeltaUpdate(s, delta) ==
  Snode([i \in DOMAIN s.sk |-> IF i < s.num_sketches THEN Plus(s.sk[i], delta[i]) ELSE s.sk[i]],
        s.sample_idx, s.num_sketches, s.merged_sketches)

UpdateAll(s, x) ==
  Snode([i \in DOMAIN s.sk |-> IF i < s.num_sketches THEN BatchUpdate(i, s.sk[i], {x}) ELSE s.sk[i]],
        s.sample_idx, s.num_sketches, s.merged_sketches)

Larger(x, y) == IF x < y THEN y ELSE x
Smaller(x, y) == IF x < y THEN x ELSE y

\* Both merges: the sketches from sample_idx up to an end are added.
AddUpTo(s, other, end) ==
  LET beg == Larger(s.sample_idx, other.sample_idx)
  IN Snode([i \in DOMAIN s.sk |-> IF beg <= i /\ i < end THEN Plus(s.sk[i], other.sk[i]) ELSE s.sk[i]],
           beg, s.num_sketches, end)

\* Mutant: the window of the other supernode is not looked at.
Merge_OwnWindow(s, other) == AddUpTo(s, other, s.merged_sketches)

Merge(s, other) == AddUpTo(s, other, Smaller(s.merged_sketches, other.merged_sketches))

\* Mutant: one sketch past the range.
RangeMerge_OneMore(s, other, start_idx, num_merge) ==
  AddUpTo(s, other, start_idx + num_merge + 1)

RangeMerge(s, other, start_idx, num_merge) == AddUpTo(s, other, start_idx + num_merge)

OutOfQueries(s) == s.sample_idx >= s.merged_sketches

Mark(sketch, queried) == [bucket |-> sketch.bucket, queried |-> queried]

\* sample_idx moves on, and the query marks its sketch.
Sampled(s, exhaustive) ==
  Snode([i \in DOMAIN s.sk |-> IF i = s.sample_idx /\ Marks(s.sk[i], exhaustive)
                               THEN Mark(s.sk[i], TRUE) ELSE s.sk[i]],
        s.sample_idx + 1, s.num_sketches, s.merged_sketches)

\* Mutant: the sketch that was sampled last keeps its mark.
ResetQueryState_OffByOne(s) ==
  Snode([i \in DOMAIN s.sk |-> IF i + 1 < s.sample_idx THEN Mark(s.sk[i], FALSE) ELSE s.sk[i]],
        0, s.num_sketches, s.merged_sketches)

ResetQueryState(s) ==
  Snode([i \in DOMAIN s.sk |-> IF i < s.sample_idx THEN Mark(s.sk[i], FALSE) ELSE s.sk[i]],
        0, s.num_sketches, s.merged_sketches)

\* The copy constructor copies num_sketches sketches; the memory of the others
\* is not initialized and so not in the domain of sk.
CopySupernode(s) ==
  Snode([i \in 0..(s.num_sketches - 1) |-> CopySketch(s.sk[i])],
        s.sample_idx, s.num_sketches, s.merged_sketches)

\* The constructor that reads a file with the sketches from beg on.
Restored(beg, num, data) ==
  Snode([i \in SketchIdx |-> IF beg <= i /\ i < beg + num THEN data[i] ELSE EmptySketch],
        beg, beg + num, beg + num)

\* write_binary, read back: all sketches, from 0 on.
FullCopy(s) == Restored(0, MaxSketches, [i \in SketchIdx |-> CopySketch(s.sk[i])])

\* write_binary_range puts its arguments in bounds and writes one sketch at least.
RangeBeg(s, beg) == IF beg >= s.num_sketches THEN s.num_sketches - 1 ELSE beg
RangeNum(s, beg, num) ==
  Larger(IF beg + num > s.num_sketches THEN s.num_sketches - beg ELSE num, 1)

RangeCopy(s, beg, num, sparse) ==
  Restored(beg, num, [i \in beg..(beg + num - 1) |->
                        IF sparse THEN ReadSparse(SparseData(s.sk[i])) ELSE CopySketch(s.sk[i])])

-----------------------------------------------------------------------------
(***************************************************************************)
(* What the client does with its supernodes.                               *)
(***************************************************************************)
\* What sketch i of a supernode with the vector X contains.
Content(i, X) == [k \in Elems |-> {x \in X : Takes(i, k, x)}]
Holds(s, i, X) == s.sk[i].bucket = Content(i, X)

NoResult == [ret |-> "none", edges |-> {}, of |-> {}]

Init ==
  /\ depth \in Hashes
  /\ node = [n \in Names |-> NewSupernode]
  /\ vec = [n \in Names |-> {}]
  /\ result = NoResult
  /\ calls = 0

Becomes(n, s, v) ==
  /\ node' = [node EXCEPT ![n] = s]
  /\ vec' = [vec EXCEPT ![n] = v]
  /\ result' = NoResult
  /\ UNCHANGED depth

Update(n, e) == Becomes(n, UpdateAll(node[n], Id(e)), SymDiff(vec[n], {Id(e)}))

\* Graph::batch_update: generate_delta_node makes the ids and the delta.
ApplyBatch(n, E) ==
  LET X == {Id(e) : e \in E}
  IN Becomes(n, ApplyDeltaUpdate(node[n], Delta(X)), SymDiff(vec[n], X))

MergeInto(n, m) ==
  /\ n # m
  /\ Becomes(n, Merge(node[n], node[m]), SymDiff(vec[n], vec[m]))

\* "we trust the caller": the range is one both can be sampled in.
RangeMergeInto(n, m, start, num) ==
  /\ n # m
  /\ start + num <= Smaller(node[n].merged_sketches, node[m].merged_sketches)
  /\ Becomes(n, RangeMerge(node[n], node[m], start, num), SymDiff(vec[n], vec[m]))

\* sample and exhaustive_sample: sample_idx moves on even if the sketch throws.
Sample(n, exhaustive) ==
  LET s == node[n]
      sketch == s.sk[s.sample_idx]
      found == IF exhaustive THEN ExhaustiveQuery(sketch) ELSE Query(sketch)
  IN /\ result' = IF OutOfQueries(s) THEN [NoResult EXCEPT !.ret = "OutOfQueries"]
                  ELSE IF sketch.queried THEN [NoResult EXCEPT !.ret = "MultipleQuery"]
                  ELSE [ret |-> found.ret, edges |-> found.edges, of |-> vec[n]]
     /\ node' = IF OutOfQueries(s) THEN node ELSE [node EXCEPT ![n] = Sampled(s, exhaustive)]
     /\ UNCHANGED <<depth, vec>>

\* A Graph resets only supernodes that were not merged, or were restored from
\* their copies: the sketches that were sampled still hold the vector.
Reset(n) ==
  /\ \A i \in 0..(node[n].merged_sketches - 1) : Holds(node[n], i, vec[n])
  /\ Becomes(n, ResetQueryState(node[n]), vec[n])

Copy(n, m) == n # m /\ Becomes(m, CopySupernode(node[n]), vec[n])

\* write_binary and the constructor from a file, of a supernode that has all
\* its sketches.
SaveFull(n, m) ==
  /\ node[n].num_sketches = MaxSketches
  /\ \A i \in SketchIdx : Holds(node[n], i, vec[n])
  /\ Becomes(m, FullCopy(node[n]), vec[n])

\* write_binary_range of sketches that hold the vector, and the constructor.
SaveRange(n, m, b, k, sparse) ==
  LET beg == RangeBeg(node[n], b)
      num == RangeNum(node[n], beg, k)
  IN /\ \A i \in beg..(beg + num - 1) : i \in DOMAIN node[n].sk => Holds(node[n], i, vec[n])
     /\ Becomes(m, RangeCopy(node[n], beg, num, sparse), vec[n])

Next ==
  /\ calls < MaxCalls /\ calls' = calls + 1
  /\ \E n \in Names :
       \/ \E e \in Edges : Update(n, e)
       \/ \E E \in SUBSET Edges : ApplyBatch(n, E)
       \/ \E exhaustive \in BOOLEAN : Sample(n, exhaustive)
       \/ Reset(n)
       \/ \E m \in Names :
            \/ MergeInto(n, m) \/ Copy(n, m) \/ SaveFull(n, m)
            \/ \E i \in 0..MaxSketches, k \in 0..MaxSketches :
                 \/ RangeMergeInto(n, m, i, k)
                 \/ \E sparse \in BOOLEAN : SaveRange(n, m, i, k, sparse)

Spec == Init /\ [][Next]_vars

-----------------------------------------------------------------------------
Sketches == [bucket : [Elems -> SUBSET Ids], queried : BOOLEAN]

Supernodes ==
  {s \in [sk : UNION {[D -> Sketches] : D \in SUBSET SketchIdx}, sample_idx : 0..MaxSketches,
          num_sketches : 1..MaxSketches, merged_sketches : 0..MaxSketches] :
     s.merged_sketches <= s.num_sketches /\ 0..(s.num_sketches - 1) \subseteq DOMAIN s.sk}

TypeOK ==
  /\ depth \in Hashes /\ calls \in 0..MaxCalls
  /\ node \in [Names -> Supernodes]
  /\ vec \in [Names -> SUBSET Ids]

Exact(s, X) ==
  \A i \in s.sample_idx..(s.merged_sketches - 1) : Holds(s, i, X) /\ ~s.sk[i].queried

\* "This variable tells us which sketches are good for queries post merge"
\* (include/supernode.h:40): whatever was updated, merged, copied or read from
\* a file, every sketch between sample_idx and merged_sketches is unqueried
\* and holds exactly the vector its supernode stands for.
WindowIsExact == \A n \in Names : Exact(node[n], vec[n])

\* What sample and exhaustive_sample return is right about the vector of the
\* supernode: GOOD returns edges of the cut, ZERO says that it is empty, only a
\* cut of two edges or more can FAIL (include/l0_sampling/sketch.h:18-22), and
\* no legal sequence of calls ends in a MultipleQueryException, though "a
\* sketch may only be queried once" (sketch.h:26).
SampleIsInCut ==
  /\ result.ret # "MultipleQuery"
  /\ result.ret = "GOOD" =>
       result.edges # {} /\ result.edges \subseteq {inv_concat_pairing_fn(x) : x \in result.of}
  /\ result.ret = "ZERO" => result.of = {}
  /\ result.ret = "FAIL" => \A x \in result.of : result.of # {x}

\* The edge id a sketch returns is decoded to an edge the client gave, "with
\* LHS <= RHS" (include/supernode.h:142) whichever end the client named first.
SampleIsAnEdge ==
  \A e \in result.edges : e[1] <= e[2] /\ (e \in Edges \/ <<e[2], e[1]>> \in Edges)
=============================================================================
