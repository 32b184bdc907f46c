--------------------------- MODULE SupernodeProofs ---------------------------
(***************************************************************************)
(* The window of a supernode is exact, for any number of supernodes,       *)
(* sketches, columns and guesses, any set of edges and any hash functions. *)
(***************************************************************************)
EXTENDS Supernode, FiniteSetTheorems, WellFoundedInduction, TLAPS

(***************************************************************************)
(* Sketches.                                                               *)
(***************************************************************************)
\* The deterministic bucket is there.
LEMMA LastIsBucket == NumElems \in Nat \ {0} /\ Last \in Elems
<1>1. NumColumns * NumGuesses \in Nat
  BY SupernodeAssumption
<1>2. QED
  BY <1>1 DEF NumElems, Last, Elems

\* The deterministic bucket takes every id.
LEMMA LastTakesAll ==
  ASSUME NEW i, NEW X
  PROVE  Content(i, X)[Last] = X
BY LastIsBucket DEF Content, Takes

\* The sketch of a sum is the sum of the sketches.
LEMMA ContentOfSum ==
  ASSUME NEW i, NEW X, NEW Y
  PROVE  Content(i, SymDiff(X, Y)) = [k \in Elems |-> SymDiff(Content(i, X)[k], Content(i, Y)[k])]
<1>1. \A k \in Elems : {x \in SymDiff(X, Y) : Takes(i, k, x)}
                         = SymDiff({x \in X : Takes(i, k, x)}, {x \in Y : Takes(i, k, x)})
  BY DEF SymDiff
<1>2. \A Z : \A k \in Elems : Content(i, Z)[k] = {x \in Z : Takes(i, k, x)}
  BY DEF Content
<1>3. \A k \in Elems : {x \in SymDiff(X, Y) : Takes(i, k, x)}
                         = SymDiff(Content(i, X)[k], Content(i, Y)[k])
  BY <1>1, <1>2
<1>4. QED
  BY <1>3 DEF Content

\* operator+= adds the vectors, also when it returns early.
LEMMA PlusAdds ==
  ASSUME NEW i, NEW X, NEW Y, NEW s, NEW t, s.bucket = Content(i, X), t.bucket = Content(i, Y)
  PROVE  Plus(s, t).bucket = Content(i, SymDiff(X, Y))
<1>1. CASE t.bucket[Last] = {}
  <2>1. Y = {}
    BY <1>1, t.bucket = Content(i, Y), LastTakesAll
  <2>2. SymDiff(X, Y) = X
    BY <2>1 DEF SymDiff
  <2>3. QED
    BY <1>1, <2>2, s.bucket = Content(i, X) DEF Plus
<1>2. CASE t.bucket[Last] # {}
  BY <1>2, ContentOfSum, s.bucket = Content(i, X), t.bucket = Content(i, Y) DEF Plus
<1>3. QED
  BY <1>1, <1>2

\* A batch of updates adds its vector.
LEMMA BatchAdds ==
  ASSUME NEW i, NEW X, NEW Y, NEW s, s.bucket = Content(i, X)
  PROVE  BatchUpdate(i, s, Y).bucket = Content(i, SymDiff(X, Y))
<1>1. \A k \in Elems : Content(i, Y)[k] = {x \in Y : Takes(i, k, x)}
  BY DEF Content
<1>2. [k \in Elems |-> SymDiff(s.bucket[k], {x \in Y : Takes(i, k, x)})]
        = [k \in Elems |-> SymDiff(Content(i, X)[k], Content(i, Y)[k])]
  BY <1>1, s.bucket = Content(i, X)
<1>3. QED
  BY <1>2, ContentOfSum DEF BatchUpdate

\* Updates and additions of unqueried sketches give unqueried ones.
LEMMA StaysUnqueried ==
  /\ ~EmptySketch.queried
  /\ \A s, t : ~s.queried /\ ~t.queried => ~Plus(s, t).queried
  /\ \A i, s, X : ~s.queried => ~BatchUpdate(i, s, X).queried
BY Zenon DEF EmptySketch, Plus, BatchUpdate

\* What is read back from the sparse format is what was written.
LEMMA SparseRoundTrip ==
  ASSUME NEW s \in Sketches
  PROVE  ReadSparse(SparseData(s)) = CopySketch(s)
<1>1. s.bucket \in [Elems -> SUBSET Ids]
  BY DEF Sketches
<1>2. \A k \in Elems : (IF k \in DOMAIN SparseData(s) THEN SparseData(s)[k] ELSE {}) = s.bucket[k]
  BY DEF SparseData
<1>3. [k \in Elems |-> IF k \in DOMAIN SparseData(s) THEN SparseData(s)[k] ELSE {}] = s.bucket
  BY <1>1, <1>2
<1>4. QED
  BY Zenon, <1>3 DEF ReadSparse, CopySketch

\* The operations on sketches make sketches.
LEMMA SketchTypes ==
  /\ EmptySketch \in Sketches
  /\ \A s \in Sketches : CopySketch(s) \in Sketches /\ \A q \in BOOLEAN : Mark(s, q) \in Sketches
  /\ \A s, t \in Sketches : Plus(s, t) \in Sketches
  /\ \A s \in Sketches, X \in SUBSET Ids : \A i : BatchUpdate(i, s, X) \in Sketches
<1>1. EmptySketch \in Sketches
  BY DEF EmptySketch, Sketches
<1>2. \A s \in Sketches : s.bucket \in [Elems -> SUBSET Ids] /\ s.queried \in BOOLEAN
  BY DEF Sketches
<1>3. \A s \in Sketches : CopySketch(s) \in Sketches /\ \A q \in BOOLEAN : Mark(s, q) \in Sketches
  BY <1>2 DEF CopySketch, Mark, Sketches
<1>4. ASSUME NEW s \in Sketches, NEW t \in Sketches PROVE Plus(s, t) \in Sketches
  <2>1. \A k \in Elems : SymDiff(s.bucket[k], t.bucket[k]) \in SUBSET Ids
    BY <1>2 DEF SymDiff
  <2>2. [k \in Elems |-> SymDiff(s.bucket[k], t.bucket[k])] \in [Elems -> SUBSET Ids]
    BY <2>1
  <2>3. Plus(s, t).bucket \in [Elems -> SUBSET Ids] /\ Plus(s, t).queried \in BOOLEAN
    BY <1>2, <2>2 DEF Plus
  <2>4. QED
    BY <1>2, <2>2 DEF Plus, Sketches
<1>5. ASSUME NEW s \in Sketches, NEW X \in SUBSET Ids, NEW i PROVE BatchUpdate(i, s, X) \in Sketches
  <2>1. \A k \in Elems : SymDiff(s.bucket[k], {x \in X : Takes(i, k, x)}) \in SUBSET Ids
    BY <1>2 DEF SymDiff
  <2>2. QED
    BY <1>2, <2>1 DEF BatchUpdate, Sketches
<1>6. QED
  BY <1>1, <1>3, <1>4, <1>5

(***************************************************************************)
(* Supernodes.                                                             *)
(***************************************************************************)
\* The parts of a supernode.
LEMMA SupernodeParts ==
  ASSUME NEW s \in Supernodes
  PROVE  /\ s.sample_idx \in 0..MaxSketches /\ s.num_sketches \in 1..MaxSketches
         /\ s.merged_sketches \in 0..s.num_sketches
         /\ 0..(s.num_sketches - 1) \subseteq DOMAIN s.sk
         /\ DOMAIN s.sk \subseteq SketchIdx
         /\ \A i \in DOMAIN s.sk : s.sk[i] \in Sketches
<1>1. PICK D \in SUBSET SketchIdx : s.sk \in [D -> Sketches]
  BY DEF Supernodes
<1>2. DOMAIN s.sk \subseteq SketchIdx /\ \A i \in DOMAIN s.sk : s.sk[i] \in Sketches
  BY <1>1
<1>3. /\ s.sample_idx \in 0..MaxSketches /\ s.num_sketches \in 1..MaxSketches
      /\ s.merged_sketches \in 0..MaxSketches /\ s.merged_sketches <= s.num_sketches
      /\ 0..(s.num_sketches - 1) \subseteq DOMAIN s.sk
  BY DEF Supernodes
<1>4. s.merged_sketches \in 0..s.num_sketches
  BY <1>3, SupernodeAssumption
<1>5. QED
  BY <1>2, <1>3, <1>4

\* A supernode is made of its parts.
LEMMA SnodeType ==
  ASSUME NEW D \in SUBSET SketchIdx, NEW sk \in [D -> Sketches], NEW idx \in 0..MaxSketches,
         NEW num \in 1..MaxSketches, NEW merged \in 0..num, 0..(num - 1) \subseteq D
  PROVE  Snode(sk, idx, num, merged) \in Supernodes
<1>1. merged \in 0..MaxSketches /\ merged <= num
  BY SupernodeAssumption
<1>2. sk \in UNION {[E -> Sketches] : E \in SUBSET SketchIdx}
  OBVIOUS
<1>3. DOMAIN sk = D
  OBVIOUS
<1>4. QED
  BY <1>1, <1>2, <1>3, 0..(num - 1) \subseteq D DEF Snode, Supernodes

\* The fields of a supernode that was put together.
LEMMA SnodeFields ==
  ASSUME NEW sk, NEW idx, NEW num, NEW merged
  PROVE  LET s == Snode(sk, idx, num, merged)
         IN s.sk = sk /\ s.sample_idx = idx /\ s.num_sketches = num /\ s.merged_sketches = merged
BY DEF Snode

\* The sketches of the window are there and hold the vector.
LEMMA InWindow ==
  ASSUME NEW s \in Supernodes, NEW X, Exact(s, X),
         NEW i \in s.sample_idx..(s.merged_sketches - 1)
  PROVE  /\ i \in DOMAIN s.sk /\ i < s.num_sketches /\ i \in SketchIdx
         /\ s.sk[i].bucket = Content(i, X) /\ ~s.sk[i].queried
<1>1. i \in 0..(s.num_sketches - 1)
  BY SupernodeParts
<1>2. QED
  BY <1>1, SupernodeParts, Exact(s, X) DEF Exact, Holds

\* Updates keep the type of a supernode and add to all its sketches.
LEMMA UpdatesAreExact ==
  ASSUME NEW s \in Supernodes, NEW X \in SUBSET Ids, NEW Y \in SUBSET Ids, Exact(s, X)
  PROVE  /\ ApplyDeltaUpdate(s, Delta(Y)) \in Supernodes
         /\ Exact(ApplyDeltaUpdate(s, Delta(Y)), SymDiff(X, Y))
         /\ \A y \in Ids : Y = {y} => UpdateAll(s, y) \in Supernodes /\ Exact(UpdateAll(s, y), SymDiff(X, Y))
<1> USE SupernodeParts
<1>1. ASSUME NEW i \in s.sample_idx..(s.merged_sketches - 1)
      PROVE  /\ i \in DOMAIN s.sk /\ i < s.num_sketches /\ i \in SketchIdx
             /\ s.sk[i].bucket = Content(i, X) /\ ~s.sk[i].queried
  BY Exact(s, X), InWindow
<1>2. \A i \in SketchIdx : /\ Delta(Y)[i] \in Sketches
                           /\ Delta(Y)[i].bucket = Content(i, Y) /\ ~Delta(Y)[i].queried
  <2>1. \A i \in SketchIdx : Delta(Y)[i] = BatchUpdate(i, EmptySketch, Y)
    BY DEF Delta
  <2>2. \A i : EmptySketch.bucket = Content(i, {})
    BY DEF EmptySketch, Content
  <2>3. SymDiff({}, Y) = Y
    BY DEF SymDiff
  <2>4. \A i \in SketchIdx : BatchUpdate(i, EmptySketch, Y).bucket = Content(i, Y)
    BY <2>2, <2>3, BatchAdds
  <2>5. \A i \in SketchIdx : BatchUpdate(i, EmptySketch, Y) \in Sketches
    BY SketchTypes
  <2>6. \A i \in SketchIdx : ~BatchUpdate(i, EmptySketch, Y).queried
    BY StaysUnqueried
  <2>7. QED
    BY <2>1, <2>4, <2>5, <2>6
<1>3. DEFINE d == ApplyDeltaUpdate(s, Delta(Y))
             dsk == [i \in DOMAIN s.sk |-> IF i < s.num_sketches THEN Plus(s.sk[i], Delta(Y)[i])
                                           ELSE s.sk[i]]
<1>4. dsk \in [DOMAIN s.sk -> Sketches]
  BY <1>2, SketchTypes
<1>5. d = Snode(dsk, s.sample_idx, s.num_sketches, s.merged_sketches)
  BY DEF ApplyDeltaUpdate
<1> HIDE DEF d, dsk
<1>6. d \in Supernodes
  BY <1>4, <1>5, SnodeType
<1>7. Exact(d, SymDiff(X, Y))
  <2>1. SUFFICES ASSUME NEW i \in s.sample_idx..(s.merged_sketches - 1)
                 PROVE  dsk[i].bucket = Content(i, SymDiff(X, Y)) /\ ~dsk[i].queried
    BY <1>5, SnodeFields DEF Exact, Holds
  <2>2. dsk[i] = Plus(s.sk[i], Delta(Y)[i])
    BY <1>1 DEF dsk
  <2>3. dsk[i].bucket = Content(i, SymDiff(X, Y))
    BY <1>1, <1>2, <2>2, PlusAdds
  <2>4. ~dsk[i].queried
    BY <1>1, <1>2, <2>2, StaysUnqueried
  <2>5. QED
    BY <2>3, <2>4
<1>8. ASSUME NEW y \in Ids, Y = {y}
      PROVE  UpdateAll(s, y) \in Supernodes /\ Exact(UpdateAll(s, y), SymDiff(X, Y))
  <2> DEFINE usk == [i \in DOMAIN s.sk |-> IF i < s.num_sketches THEN BatchUpdate(i, s.sk[i], {y})
                                           ELSE s.sk[i]]
  <2>1. usk \in [DOMAIN s.sk -> Sketches]
    BY <1>8, SketchTypes
  <2>2. UpdateAll(s, y) = Snode(usk, s.sample_idx, s.num_sketches, s.merged_sketches)
    BY DEF UpdateAll
  <2> HIDE DEF usk
  <2>3. UpdateAll(s, y) \in Supernodes
    BY <2>1, <2>2, SnodeType
  <2>4. ASSUME NEW i \in s.sample_idx..(s.merged_sketches - 1)
        PROVE  usk[i].bucket = Content(i, SymDiff(X, Y)) /\ ~usk[i].queried
    <3>1. usk[i] = BatchUpdate(i, s.sk[i], Y)
      BY <1>1, <1>8 DEF usk
    <3>2. QED
      BY <1>1, <3>1, BatchAdds, StaysUnqueried
  <2>5. QED
    BY <2>2, <2>3, <2>4, SnodeFields DEF Exact, Holds
<1>9. QED
  BY <1>6, <1>7, <1>8 DEF d

\* A merge up to an end that is in both windows adds the vectors.
LEMMA MergesAreExact ==
  ASSUME NEW s \in Supernodes, NEW t \in Supernodes, NEW X, NEW Y, Exact(s, X), Exact(t, Y),
         NEW end \in Nat, end <= s.merged_sketches, end <= t.merged_sketches
  PROVE  AddUpTo(s, t, end) \in Supernodes /\ Exact(AddUpTo(s, t, end), SymDiff(X, Y))
<1> DEFINE beg == Larger(s.sample_idx, t.sample_idx)
           sk == [i \in DOMAIN s.sk |-> IF beg <= i /\ i < end THEN Plus(s.sk[i], t.sk[i])
                                        ELSE s.sk[i]]
<1>1. beg \in 0..MaxSketches /\ s.sample_idx <= beg /\ t.sample_idx <= beg
  BY SupernodeParts, SupernodeAssumption DEF Larger
<1>2. AddUpTo(s, t, end) = Snode(sk, beg, s.num_sketches, end)
  BY DEF AddUpTo
<1> HIDE DEF beg
<1>3. ASSUME NEW i \in SketchIdx, beg <= i, i < end
      PROVE  i \in s.sample_idx..(s.merged_sketches - 1) /\ i \in t.sample_idx..(t.merged_sketches - 1)
  BY <1>1, <1>3, SupernodeParts, end <= s.merged_sketches, end <= t.merged_sketches,
     SupernodeAssumption DEF SketchIdx
<1>4. sk \in [DOMAIN s.sk -> Sketches]
  <2>1. ASSUME NEW i \in DOMAIN s.sk PROVE sk[i] \in Sketches
    <3>1. i \in SketchIdx /\ s.sk[i] \in Sketches
      BY SupernodeParts
    <3>2. CASE beg <= i /\ i < end
      <4>1. t.sk[i] \in Sketches
        BY <3>1, <3>2, <1>3, InWindow, SupernodeParts, Exact(t, Y)
      <4>2. QED
        BY <3>1, <3>2, <4>1, SketchTypes
    <3>3. QED
      BY <3>1, <3>2
  <2>2. QED
    BY Zenon, <2>1
<1>5. end \in 0..s.num_sketches
  BY SupernodeParts, end <= s.merged_sketches
<1>6. AddUpTo(s, t, end) \in Supernodes
  BY <1>1, <1>2, <1>4, <1>5, SnodeType, SupernodeParts
<1>7. ASSUME NEW i \in beg..(end - 1)
      PROVE  sk[i].bucket = Content(i, SymDiff(X, Y)) /\ ~sk[i].queried
  <2>1. beg <= i /\ i < end /\ i \in SketchIdx
    <3>1. s.merged_sketches \in Nat /\ s.merged_sketches <= MaxSketches /\ beg \in Nat
      BY <1>1, SupernodeParts, SupernodeAssumption
    <3>2. QED
      BY <3>1, SupernodeAssumption, end <= s.merged_sketches DEF SketchIdx
  <2>2. i \in s.sample_idx..(s.merged_sketches - 1) /\ i \in t.sample_idx..(t.merged_sketches - 1)
    BY <2>1, <1>3
  <2>3. /\ i \in DOMAIN s.sk /\ s.sk[i].bucket = Content(i, X) /\ ~s.sk[i].queried
        /\ t.sk[i].bucket = Content(i, Y) /\ ~t.sk[i].queried
    BY <2>2, InWindow, Exact(s, X), Exact(t, Y)
  <2>4. sk[i] = Plus(s.sk[i], t.sk[i])
    BY <2>1, <2>3
  <2>5. QED
    BY <2>3, <2>4, PlusAdds, StaysUnqueried
<1> HIDE DEF sk
<1>8. QED
  BY <1>2, <1>6, <1>7, SnodeFields DEF Exact, Holds

\* Sampling takes a sketch out of the window.
LEMMA SampledIsExact ==
  ASSUME NEW s \in Supernodes, NEW X, Exact(s, X), ~OutOfQueries(s), NEW exhaustive \in BOOLEAN
  PROVE  Sampled(s, exhaustive) \in Supernodes /\ Exact(Sampled(s, exhaustive), X)
<1> DEFINE sk == [i \in DOMAIN s.sk |-> IF i = s.sample_idx /\ Marks(s.sk[i], exhaustive)
                                        THEN Mark(s.sk[i], TRUE) ELSE s.sk[i]]
<1>1. Sampled(s, exhaustive) = Snode(sk, s.sample_idx + 1, s.num_sketches, s.merged_sketches)
  BY DEF Sampled
<1>2. sk \in [DOMAIN s.sk -> Sketches]
  BY Zenon, SupernodeParts, SketchTypes
<1>3. s.sample_idx + 1 \in 0..MaxSketches
  BY SupernodeParts, SupernodeAssumption, ~OutOfQueries(s) DEF OutOfQueries
<1>4. ASSUME NEW i \in (s.sample_idx + 1)..(s.merged_sketches - 1)
      PROVE  sk[i].bucket = Content(i, X) /\ ~sk[i].queried
  <2>1. i \in s.sample_idx..(s.merged_sketches - 1) /\ i # s.sample_idx
    BY SupernodeParts
  <2>2. i \in DOMAIN s.sk /\ s.sk[i].bucket = Content(i, X) /\ ~s.sk[i].queried
    BY <2>1, InWindow, Exact(s, X)
  <2>3. QED
    BY <2>1, <2>2
<1> HIDE DEF sk
<1>5. Sampled(s, exhaustive) \in Supernodes
  BY <1>1, <1>2, <1>3, SnodeType, SupernodeParts
<1>6. QED
  BY <1>1, <1>4, <1>5, SnodeFields DEF Exact, Holds

\* A reset opens the window down to sketch 0.
LEMMA ResetIsExact ==
  ASSUME NEW s \in Supernodes, NEW X, Exact(s, X),
         \A i \in 0..(s.merged_sketches - 1) : Holds(s, i, X)
  PROVE  ResetQueryState(s) \in Supernodes /\ Exact(ResetQueryState(s), X)
<1> DEFINE sk == [i \in DOMAIN s.sk |-> IF i < s.sample_idx THEN Mark(s.sk[i], FALSE) ELSE s.sk[i]]
<1>1. ResetQueryState(s) = Snode(sk, 0, s.num_sketches, s.merged_sketches)
  BY DEF ResetQueryState
<1>2. sk \in [DOMAIN s.sk -> Sketches]
  BY Zenon, SupernodeParts, SketchTypes
<1>3. ASSUME NEW i \in 0..(s.merged_sketches - 1)
      PROVE  sk[i].bucket = Content(i, X) /\ ~sk[i].queried
  <2>1. i \in 0..(s.num_sketches - 1)
    BY SupernodeParts
  <2>2. i \in DOMAIN s.sk /\ s.sk[i].bucket = Content(i, X)
    BY <2>1, SupernodeParts, \A j \in 0..(s.merged_sketches - 1) : Holds(s, j, X) DEF Holds
  <2>3. CASE i < s.sample_idx
    BY <2>2, <2>3 DEF Mark
  <2>4. CASE ~(i < s.sample_idx)
    <3>1. i \in s.sample_idx..(s.merged_sketches - 1)
      BY <2>4, SupernodeParts
    <3>2. QED
      BY Zenon, <2>2, <2>4, <3>1, InWindow, Exact(s, X)
  <2>5. QED
    BY Zenon, <2>3, <2>4
<1> HIDE DEF sk
<1>4. ResetQueryState(s) \in Supernodes
  <2>1. 0 \in 0..MaxSketches
    BY SupernodeAssumption
  <2>2. QED
    BY <1>1, <1>2, <2>1, SnodeType, SupernodeParts
<1>5. QED
  BY <1>1, <1>3, <1>4, SnodeFields DEF Exact, Holds

\* The copy constructor, and reading back what was written: exact supernodes.
LEMMA CopyIsExact ==
  ASSUME NEW s \in Supernodes, NEW X, Exact(s, X)
  PROVE  CopySupernode(s) \in Supernodes /\ Exact(CopySupernode(s), X)
<1> DEFINE sk == [i \in 0..(s.num_sketches - 1) |-> CopySketch(s.sk[i])]
<1>1. CopySupernode(s) = Snode(sk, s.sample_idx, s.num_sketches, s.merged_sketches)
  BY DEF CopySupernode
<1>2. sk \in [0..(s.num_sketches - 1) -> Sketches] /\ 0..(s.num_sketches - 1) \in SUBSET SketchIdx
  BY SupernodeParts, SketchTypes
<1>3. ASSUME NEW i \in s.sample_idx..(s.merged_sketches - 1)
      PROVE  sk[i].bucket = Content(i, X) /\ ~sk[i].queried
  <2>1. i \in 0..(s.num_sketches - 1)
    BY SupernodeParts
  <2>2. s.sk[i].bucket = Content(i, X)
    BY InWindow, Exact(s, X)
  <2>3. QED
    BY <2>1, <2>2 DEF CopySketch
<1> HIDE DEF sk
<1>4. CopySupernode(s) \in Supernodes
  <2>1. /\ s.sample_idx \in 0..MaxSketches /\ s.num_sketches \in 1..MaxSketches
        /\ s.merged_sketches \in 0..s.num_sketches
    BY Zenon, SupernodeParts
  <2>2. QED
    BY Zenon, <1>1, <1>2, <2>1, SnodeType
<1>5. QED
  BY <1>1, <1>3, <1>4, SnodeFields DEF Exact, Holds

\* What the constructor from a file makes of sketches that hold X is exact.
LEMMA RestoredIsExact ==
  ASSUME NEW X, NEW beg \in Nat, NEW num \in Nat \ {0}, beg + num <= MaxSketches, NEW data,
         \A i \in beg..(beg + num - 1) :
           data[i] \in Sketches /\ data[i].bucket = Content(i, X) /\ ~data[i].queried
  PROVE  Restored(beg, num, data) \in Supernodes /\ Exact(Restored(beg, num, data), X)
<1> DEFINE sk == [i \in SketchIdx |-> IF beg <= i /\ i < beg + num THEN data[i] ELSE EmptySketch]
<1>1. Restored(beg, num, data) = Snode(sk, beg, beg + num, beg + num)
  BY DEF Restored
<1>2. sk \in [SketchIdx -> Sketches]
  <2>1. \A i \in SketchIdx : beg <= i /\ i < beg + num => i \in beg..(beg + num - 1)
    BY SupernodeAssumption DEF SketchIdx
  <2>2. QED
    BY <2>1, SketchTypes, \A i \in beg..(beg + num - 1) : data[i] \in Sketches
<1>3. ASSUME NEW i \in beg..(beg + num - 1)
      PROVE  sk[i].bucket = Content(i, X) /\ ~sk[i].queried
  <2>1. i \in SketchIdx /\ beg <= i /\ i < beg + num
    BY SupernodeAssumption, beg + num <= MaxSketches DEF SketchIdx
  <2>2. QED
    BY <2>1, data[i].bucket = Content(i, X), ~data[i].queried
<1> HIDE DEF sk
<1>4. /\ beg \in 0..MaxSketches /\ beg + num \in 1..MaxSketches /\ beg + num \in 0..(beg + num)
      /\ 0..(beg + num - 1) \subseteq SketchIdx
  BY SupernodeAssumption, beg + num <= MaxSketches DEF SketchIdx
<1>5. Restored(beg, num, data) \in Supernodes
  BY <1>1, <1>2, <1>4, SnodeType
<1>6. QED
  BY <1>1, <1>3, <1>5, SnodeFields DEF Exact, Holds

\* A full file.
LEMMA FullIsExact ==
  ASSUME NEW s \in Supernodes, NEW X, s.num_sketches = MaxSketches,
         \A i \in SketchIdx : Holds(s, i, X)
  PROVE  FullCopy(s) \in Supernodes /\ Exact(FullCopy(s), X)
<1>1. ASSUME NEW i \in 0..(0 + MaxSketches - 1)
      PROVE  LET data == [j \in SketchIdx |-> CopySketch(s.sk[j])]
             IN data[i] \in Sketches /\ data[i].bucket = Content(i, X) /\ ~data[i].queried
  <2>1. i \in SketchIdx /\ i \in DOMAIN s.sk
    BY SupernodeParts, SupernodeAssumption, s.num_sketches = MaxSketches DEF SketchIdx
  <2>2. QED
    BY <2>1, SupernodeParts, SketchTypes, \A j \in SketchIdx : Holds(s, j, X) DEF Holds, CopySketch
<1>2. MaxSketches \in Nat \ {0} /\ 0 \in Nat /\ 0 + MaxSketches <= MaxSketches
  BY SupernodeAssumption
<1>3. QED
  BY <1>1, <1>2, RestoredIsExact DEF FullCopy

\* A range of sketches, put in bounds, in either format.
LEMMA RangeIsExact ==
  ASSUME NEW s \in Supernodes, NEW X, NEW b \in Nat, NEW k \in Nat, NEW sparse \in BOOLEAN,
         \A i \in RangeBeg(s, b)..(RangeBeg(s, b) + RangeNum(s, RangeBeg(s, b), k) - 1) :
           i \in DOMAIN s.sk => Holds(s, i, X)
  PROVE  LET beg == RangeBeg(s, b)
             num == RangeNum(s, beg, k)
         IN RangeCopy(s, beg, num, sparse) \in Supernodes /\ Exact(RangeCopy(s, beg, num, sparse), X)
<1> DEFINE beg == RangeBeg(s, b)
           num == RangeNum(s, beg, k)
           data == [i \in beg..(beg + num - 1) |->
                      IF sparse THEN ReadSparse(SparseData(s.sk[i])) ELSE CopySketch(s.sk[i])]
<1>1. s.num_sketches \in Nat \ {0} /\ s.num_sketches <= MaxSketches /\ MaxSketches \in Nat
  BY SupernodeParts, SupernodeAssumption
<1>2. beg \in Nat /\ beg < s.num_sketches
  BY <1>1 DEF RangeBeg
<1>3. num \in Nat \ {0} /\ beg + num <= s.num_sketches
  <2> HIDE DEF beg
  <2> QED
    BY <1>1, <1>2 DEF RangeNum, Larger
<1>4. \A i \in beg..(beg + num - 1) : i \in DOMAIN s.sk => Holds(s, i, X)
  OBVIOUS
<1> HIDE DEF beg, num
<1>5. ASSUME NEW i \in beg..(beg + num - 1)
      PROVE  data[i] \in Sketches /\ data[i].bucket = Content(i, X) /\ ~data[i].queried
  <2>1. i \in 0..(s.num_sketches - 1)
    BY <1>1, <1>2, <1>3
  <2>2. s.sk[i] \in Sketches /\ Holds(s, i, X)
    BY <2>1, <1>4, SupernodeParts
  <2>3. data[i] = CopySketch(s.sk[i])
    BY <2>2, SparseRoundTrip
  <2>4. QED
    BY <2>2, <2>3, SketchTypes DEF Holds, CopySketch
<1>6. beg + num <= MaxSketches
  BY <1>1, <1>2, <1>3
<1>7. RangeCopy(s, beg, num, sparse) = Restored(beg, num, data)
  BY DEF RangeCopy
<1> HIDE DEF data
<1>8. RangeCopy(s, beg, num, sparse) \in Supernodes /\ Exact(RangeCopy(s, beg, num, sparse), X)
  BY <1>2, <1>3, <1>5, <1>6, <1>7, RestoredIsExact
<1>9. QED
  BY <1>8 DEF beg, num

(***************************************************************************)
(* Queries.                                                                *)
(***************************************************************************)
\* The loops of query stop at a good bucket, if there is one.
LEMMA FirstGoodIsGood ==
  ASSUME NEW s, NEW g \in Elems, IsGood(s.bucket[g])
  PROVE  FirstGood(s) \in Elems /\ IsGood(s.bucket[FirstGood(s)])
<1> DEFINE T == {k \in Elems : IsGood(s.bucket[k])}
<1>1. T \in SUBSET Nat /\ T # {}
  BY LastIsBucket, IsGood(s.bucket[g]) DEF Elems
<1>2. PICK k \in T : \A j \in T : k <= j
  <2> DEFINE R == OpToRel(<, Nat)
  <2>1. IsWellFoundedOn(R, Nat)
    BY Zenon, NatLessThanWellFounded
  <2>2. \A x, y \in Nat : x < y => <<x, y>> \in R
    BY DEF OpToRel
  <2> HIDE DEF R
  <2>3. PICK k \in T : \A j \in T : <<j, k>> \notin R
    BY Zenon, <1>1, <2>1, WFMin
  <2>4. ASSUME NEW j \in T PROVE k <= j
    <3>1. j \in Nat /\ k \in Nat /\ ~(j < k)
      BY Zenon, <1>1, <2>2, <2>3
    <3>2. QED
      BY <3>1
  <2>5. QED
    BY <2>4
<1>3. ASSUME NEW j \in 0..(k - 1) PROVE ~IsGood(s.bucket[j])
  <2>1. k \in Nat /\ k \in Elems /\ j \in Elems /\ ~(k <= j)
    BY LastIsBucket DEF Elems
  <2>2. QED
    BY <1>2, <2>1
<1>4. \E h \in Elems : IsGood(s.bucket[h]) /\ \A j \in 0..(h - 1) : ~IsGood(s.bucket[j])
  BY <1>2, <1>3
<1>5. QED
  BY <1>4 DEF FirstGood

\* What a query of an exact sketch returns.
Right(found, X) ==
  /\ found.ret \in {"GOOD", "ZERO", "FAIL"}
  /\ found.ret = "GOOD" => found.edges # {} /\ found.edges \subseteq {inv_concat_pairing_fn(x) : x \in X}
  /\ found.ret = "ZERO" => X = {}
  /\ found.ret = "FAIL" => \A x \in X : X # {x}

\* A nonempty set of ids of the vector is a right answer.
LEMMA GoodIsRight ==
  ASSUME NEW X, NEW G \in SUBSET X, G # {}
  PROVE  Right(Returns("GOOD", G), X)
<1>1. Returns("GOOD", G).ret = "GOOD" /\ Returns("GOOD", G).edges = {inv_concat_pairing_fn(x) : x \in G}
  BY DEF Returns
<1>2. QED
  BY <1>1, G # {} DEF Right

\* query and exhaustive_query of a sketch that holds X.
LEMMA QueriesAreRight ==
  ASSUME NEW i, NEW X, NEW s, s.bucket = Content(i, X)
  PROVE  Right(Query(s), X) /\ Right(ExhaustiveQuery(s), X)
<1>1. s.bucket[Last] = X
  BY s.bucket = Content(i, X), LastTakesAll
<1>2. \A k \in Elems : s.bucket[k] \subseteq X
  BY s.bucket = Content(i, X) DEF Content
<1>3. CASE X = {}
  <2>1. Query(s) = Returns("ZERO", {}) /\ ExhaustiveQuery(s) = Returns("ZERO", {})
    BY <1>1, <1>3 DEF Query, ExhaustiveQuery
  <2>2. QED
    BY <1>3, <2>1 DEF Right, Returns
<1>4. CASE X # {} /\ IsGood(X)
  <2>1. Query(s) = Returns("GOOD", X) /\ ExhaustiveQuery(s) = Returns("GOOD", X)
    BY <1>1, <1>4 DEF Query, ExhaustiveQuery
  <2>2. QED
    BY <1>4, <2>1, GoodIsRight
<1>5. CASE X # {} /\ ~IsGood(X)
  <2>1. \A x \in X : X # {x}
    BY <1>5 DEF IsGood
  <2>2. Right(Returns("FAIL", {}), X)
    BY <2>1 DEF Right, Returns
  <2>3. CASE \E k \in Elems : IsGood(s.bucket[k])
    <3>1. PICK k \in Elems : IsGood(s.bucket[k])
      BY <2>3
    <3>2. FirstGood(s) \in Elems /\ IsGood(s.bucket[FirstGood(s)])
      BY <3>1, FirstGoodIsGood
    <3>3. s.bucket[FirstGood(s)] # {} /\ s.bucket[FirstGood(s)] \in SUBSET X
      BY <3>2, <1>2 DEF IsGood
    <3>4. Right(Query(s), X)
      BY <3>3, <2>3, <1>1, <1>5, GoodIsRight DEF Query
    <3>5. GoodIds(s) # {} /\ GoodIds(s) \in SUBSET X
      BY <3>1, <1>2 DEF GoodIds, IsGood
    <3>6. Right(ExhaustiveQuery(s), X)
      BY <3>5, <1>1, <1>5, GoodIsRight DEF ExhaustiveQuery
    <3>7. QED
      BY <3>4, <3>6
  <2>4. CASE ~\E k \in Elems : IsGood(s.bucket[k])
    <3>1. GoodIds(s) = {}
      BY Zenon, <2>4 DEF GoodIds, IsGood
    <3>2. QED
      BY <3>1, <2>4, <2>2, <1>1, <1>5 DEF Query, ExhaustiveQuery
  <2>5. QED
    BY <2>3, <2>4
<1>6. QED
  BY <1>3, <1>4, <1>5

(***************************************************************************)
(* The client's calls.                                                     *)
(***************************************************************************)
\* The seed of a Graph never changes, so what is exact before a call is exact
\* after it.
LEMMA ExactStays ==
  ASSUME depth' = depth, \A m \in Names : Exact(node'[m], vec'[m])
  PROVE  WindowIsExact'
  BY SMTT(30) DEF WindowIsExact, Exact, Holds, Content, Takes

\* A call that makes an exact supernode of n leaves the others as they are.
LEMMA BecomesIsExact ==
  ASSUME TypeOK, WindowIsExact, NEW n \in Names, NEW s \in Supernodes, NEW X \in SUBSET Ids,
         Exact(s, X), Becomes(n, s, X)
  PROVE  /\ node' \in [Names -> Supernodes] /\ vec' \in [Names -> SUBSET Ids] /\ depth' = depth
         /\ WindowIsExact' /\ SampleIsInCut'
<1>1. node' \in [Names -> Supernodes] /\ vec' \in [Names -> SUBSET Ids] /\ depth' = depth
  BY TypeOK, Becomes(n, s, X) DEF TypeOK, Becomes
<1>2. \A m \in Names : Exact(node'[m], vec'[m])
  <2>1. ASSUME NEW m \in Names PROVE Exact(node'[m], vec'[m])
    <3>1. CASE m = n
      <4>1. node'[m] = s /\ vec'[m] = X
        BY <3>1, TypeOK, Becomes(n, s, X) DEF TypeOK, Becomes
      <4>2. QED
        BY <4>1, Exact(s, X)
    <3>2. CASE m # n
      <4>1. node'[m] = node[m] /\ vec'[m] = vec[m]
        BY <3>2, TypeOK, Becomes(n, s, X) DEF TypeOK, Becomes
      <4>2. QED
        BY <4>1, WindowIsExact DEF WindowIsExact
    <3>3. QED
      BY <3>1, <3>2
  <2>2. QED
    BY <2>1
<1>3. WindowIsExact'
  BY Zenon, <1>1, <1>2, ExactStays
<1>4. SampleIsInCut'
  BY Becomes(n, s, X) DEF Becomes, NoResult, SampleIsInCut
<1>5. QED
  BY <1>1, <1>3, <1>4

\* A sample shrinks the window and returns a right answer.
LEMMA SampleIsExact ==
  ASSUME TypeOK, WindowIsExact, NEW n \in Names, NEW exhaustive \in BOOLEAN, Sample(n, exhaustive)
  PROVE  /\ node' \in [Names -> Supernodes] /\ vec' \in [Names -> SUBSET Ids] /\ depth' = depth
         /\ WindowIsExact' /\ SampleIsInCut'
<1> DEFINE s == node[n]
           sketch == s.sk[s.sample_idx]
<1>1. s \in Supernodes /\ Exact(s, vec[n]) /\ vec' = vec /\ depth' = depth
  BY Zenon, TypeOK, WindowIsExact, Sample(n, exhaustive) DEF TypeOK, WindowIsExact, Sample
<1>2. CASE OutOfQueries(s)
  <2>1. node' = node /\ result' = [NoResult EXCEPT !.ret = "OutOfQueries"]
    BY <1>2, Sample(n, exhaustive) DEF Sample
  <2>2. SampleIsInCut'
    BY <2>1 DEF NoResult, SampleIsInCut
  <2>3. WindowIsExact'
    BY Zenon, <1>1, <2>1, WindowIsExact, ExactStays DEF WindowIsExact
  <2>4. QED
    BY <1>1, <2>1, <2>2, <2>3, TypeOK DEF TypeOK
<1>3. CASE ~OutOfQueries(s)
  <2>1. s.sample_idx \in s.sample_idx..(s.merged_sketches - 1)
    BY <1>1, <1>3, SupernodeParts DEF OutOfQueries
  <2>2. sketch.bucket = Content(s.sample_idx, vec[n]) /\ ~sketch.queried
    BY <1>1, <2>1, InWindow
  <2>3. Right(Query(sketch), vec[n]) /\ Right(ExhaustiveQuery(sketch), vec[n])
    BY <2>2, QueriesAreRight
  <2>4. PICK found : Right(found, vec[n])
                     /\ result' = [ret |-> found.ret, edges |-> found.edges, of |-> vec[n]]
    BY Zenon, <1>3, <2>2, <2>3, Sample(n, exhaustive) DEF Sample
  <2>5. SampleIsInCut'
    BY <2>4 DEF Right, SampleIsInCut
  <2>6. Sampled(s, exhaustive) \in Supernodes /\ Exact(Sampled(s, exhaustive), vec[n])
    BY <1>1, <1>3, SampledIsExact
  <2>7. node' = [node EXCEPT ![n] = Sampled(s, exhaustive)]
    BY Zenon, <1>3, Sample(n, exhaustive) DEF Sample
  <2>8. node' \in [Names -> Supernodes] /\ vec' \in [Names -> SUBSET Ids]
    BY <1>1, <2>6, <2>7, TypeOK DEF TypeOK
  <2>9. \A m \in Names : Exact(node'[m], vec[m])
    BY <2>6, <2>7, WindowIsExact, TypeOK DEF WindowIsExact, TypeOK
  <2>10. WindowIsExact'
    BY Zenon, <1>1, <2>9, ExactStays
  <2>11. QED
    BY <1>1, <2>5, <2>8, <2>10
<1>4. QED
  BY <1>2, <1>3

\* Every call keeps the types, the windows and the last answer right.
LEMMA CallsAreExact ==
  TypeOK /\ WindowIsExact /\ SampleIsInCut /\ [Next]_vars
    => TypeOK' /\ WindowIsExact' /\ SampleIsInCut'
<1> SUFFICES ASSUME TypeOK, WindowIsExact, SampleIsInCut, [Next]_vars
             PROVE  TypeOK' /\ WindowIsExact' /\ SampleIsInCut'
  OBVIOUS
<1>1. CASE UNCHANGED vars
  <2>1. UNCHANGED <<depth, node, vec, result, calls>>
    BY Zenon, <1>1 DEF vars
  <2>2. TypeOK'
    BY Zenon, <2>1, TypeOK DEF TypeOK
  <2>3. WindowIsExact'
    BY Zenon, <2>1, WindowIsExact, ExactStays DEF WindowIsExact
  <2>4. SampleIsInCut'
    BY Zenon, <2>1, SampleIsInCut DEF SampleIsInCut
  <2>5. QED
    BY Zenon, <2>2, <2>3, <2>4
<1>2. CASE Next
  <2>1. calls' \in 0..MaxCalls
    BY <1>2, TypeOK, SupernodeAssumption DEF Next, TypeOK
  <2>2. \A n \in Names : node[n] \in Supernodes /\ vec[n] \in SUBSET Ids /\ Exact(node[n], vec[n])
    BY TypeOK, WindowIsExact DEF TypeOK, WindowIsExact
  <2>3. \A X, Y \in SUBSET Ids : SymDiff(X, Y) \in SUBSET Ids
    BY DEF SymDiff
  <2> DEFINE Goal == /\ node' \in [Names -> Supernodes] /\ vec' \in [Names -> SUBSET Ids]
                     /\ depth' = depth /\ WindowIsExact' /\ SampleIsInCut'
  <2>4. ASSUME NEW n \in Names, NEW s \in Supernodes, NEW X \in SUBSET Ids, Exact(s, X),
               Becomes(n, s, X)
        PROVE  Goal
    BY <2>4, TypeOK, WindowIsExact, BecomesIsExact
  <2> HIDE DEF Goal
  <2>5. ASSUME NEW n \in Names, NEW e \in Edges, Update(n, e) PROVE Goal
    <3>1. Id(e) \in Ids /\ {Id(e)} \in SUBSET Ids
      BY DEF Ids
    <3>2. QED
      BY <2>2, <2>3, <2>4, <2>5, <3>1, UpdatesAreExact DEF Update
  <2>6. ASSUME NEW n \in Names, NEW E \in SUBSET Edges, ApplyBatch(n, E) PROVE Goal
    <3>1. {Id(e) : e \in E} \in SUBSET Ids
      BY DEF Ids
    <3>2. QED
      BY <2>2, <2>3, <2>4, <2>6, <3>1, UpdatesAreExact DEF ApplyBatch
  <2>7. ASSUME NEW n \in Names, NEW exhaustive \in BOOLEAN, Sample(n, exhaustive) PROVE Goal
    BY <2>7, TypeOK, WindowIsExact, SampleIsExact DEF Goal
  <2>8. ASSUME NEW n \in Names, Reset(n) PROVE Goal
    BY <2>2, <2>4, <2>8, ResetIsExact DEF Reset
  <2>9. ASSUME NEW n \in Names, NEW m \in Names, NEW end \in Nat,
               end <= node[n].merged_sketches, end <= node[m].merged_sketches,
               Becomes(n, AddUpTo(node[n], node[m], end), SymDiff(vec[n], vec[m]))
        PROVE  Goal
    BY <2>2, <2>3, <2>4, <2>9, MergesAreExact
  <2>10. ASSUME NEW n \in Names, NEW m \in Names, MergeInto(n, m) PROVE Goal
    <3>1. node[n].merged_sketches \in Nat /\ node[m].merged_sketches \in Nat
      BY <2>2, SupernodeParts
    <3>2. QED
      BY <2>9, <2>10, <3>1 DEF MergeInto, Merge, Smaller
  <2>11. ASSUME NEW n \in Names, NEW m \in Names, NEW i \in Nat, NEW k \in Nat,
                RangeMergeInto(n, m, i, k)
         PROVE  Goal
    <3>1. node[n].merged_sketches \in Nat /\ node[m].merged_sketches \in Nat
      BY <2>2, SupernodeParts
    <3>2. i + k \in Nat /\ i + k <= node[n].merged_sketches /\ i + k <= node[m].merged_sketches
      BY <2>11, <3>1 DEF RangeMergeInto, Smaller
    <3>3. QED
      BY <2>9, <2>11, <3>2 DEF RangeMergeInto, RangeMerge
  <2>12. ASSUME NEW n \in Names, NEW m \in Names, Copy(n, m) PROVE Goal
    BY <2>2, <2>4, <2>12, CopyIsExact DEF Copy
  <2>13. ASSUME NEW n \in Names, NEW m \in Names, SaveFull(n, m) PROVE Goal
    BY <2>2, <2>4, <2>13, FullIsExact DEF SaveFull
  <2>14. ASSUME NEW n \in Names, NEW m \in Names, NEW i \in Nat, NEW k \in Nat,
                NEW sparse \in BOOLEAN, SaveRange(n, m, i, k, sparse)
         PROVE  Goal
    <3> DEFINE beg == RangeBeg(node[n], i)
               num == RangeNum(node[n], beg, k)
    <3>1. /\ \A j \in beg..(beg + num - 1) : j \in DOMAIN node[n].sk => Holds(node[n], j, vec[n])
          /\ Becomes(m, RangeCopy(node[n], beg, num, sparse), vec[n])
      BY <2>14 DEF SaveRange
    <3>2. /\ RangeCopy(node[n], beg, num, sparse) \in Supernodes
          /\ Exact(RangeCopy(node[n], beg, num, sparse), vec[n])
      BY Zenon, <2>2, <3>1, RangeIsExact
    <3>3. QED
      BY Zenon, <2>2, <2>4, <3>1, <3>2
  <2>15. 0..MaxSketches \subseteq Nat
    BY SupernodeAssumption
  <2>16. Goal
    BY <1>2, <2>5, <2>6, <2>7, <2>8, <2>10, <2>11, <2>12, <2>13, <2>14, <2>15 DEF Next
  <2>17. QED
    BY <2>1, <2>16, TypeOK DEF Goal, TypeOK
<1>3. QED
  BY <1>1, <1>2

\* New supernodes are exact.
LEMMA InitIsExact == Init => TypeOK /\ WindowIsExact /\ SampleIsInCut
<1> SUFFICES ASSUME Init PROVE TypeOK /\ WindowIsExact /\ SampleIsInCut
  OBVIOUS
<1>1. [i \in SketchIdx |-> EmptySketch] \in [SketchIdx -> Sketches]
  BY SketchTypes
<1>2. /\ 0 \in 0..MaxSketches /\ MaxSketches \in 1..MaxSketches /\ MaxSketches \in 0..MaxSketches
      /\ 0..(MaxSketches - 1) \subseteq SketchIdx
  BY SupernodeAssumption DEF SketchIdx
<1>3. NewSupernode \in Supernodes
  BY <1>1, <1>2, SnodeType DEF NewSupernode
<1>4. TypeOK
  BY <1>3, SupernodeAssumption DEF Init, TypeOK
<1>5. Exact(NewSupernode, {})
  <2>1. \A i : EmptySketch.bucket = Content(i, {}) /\ ~EmptySketch.queried
    BY DEF EmptySketch, Content
  <2>2. \A i \in 0..(MaxSketches - 1) : NewSupernode.sk[i] = EmptySketch
    <3>1. NewSupernode.sk = [i \in SketchIdx |-> EmptySketch]
      BY SnodeFields DEF NewSupernode
    <3>2. QED
      BY <3>1 DEF SketchIdx
  <2>3. NewSupernode.sample_idx = 0 /\ NewSupernode.merged_sketches = MaxSketches
    BY SnodeFields DEF NewSupernode
  <2>4. QED
    BY <2>1, <2>2, <2>3 DEF Exact, Holds
<1>6. WindowIsExact
  BY Zenon, <1>5 DEF Init, WindowIsExact
<1>7. SampleIsInCut
  BY DEF Init, NoResult, SampleIsInCut
<1>8. QED
  BY <1>4, <1>6, <1>7

\* For any supernodes, hash functions and sequence of calls: supernodes and
\* sketches stay well formed.
THEOREM TypeCorrect == Spec => []TypeOK
<1>1. QED
  BY InitIsExact, CallsAreExact, PTL DEF Spec

\* The sketches from sample_idx to merged_sketches are unqueried and hold the
\* vector of their supernode, after any updates, merges, copies and files.
THEOREM WindowsStayExact == Spec => []WindowIsExact
<1>1. QED
  BY InitIsExact, CallsAreExact, PTL DEF Spec

\* sample and exhaustive_sample answer rightly about the cut, and never throw
\* MultipleQueryException.
THEOREM SamplesAreRight == Spec => []SampleIsInCut
<1>1. QED
  BY InitIsExact, CallsAreExact, PTL DEF Spec

-----------------------------------------------------------------------------
(***************************************************************************)
(* Edge ids.                                                               *)
(***************************************************************************)
\* 2^n counts the subsets of 1..n, and so is a natural number.
LEMMA PowerOfTwo ==
  ASSUME NEW n \in Nat
  PROVE  2^n \in Nat
<1>1. IsFiniteSet(1..n) /\ Cardinality(1..n) = n
  BY FS_Interval
<1>2. IsFiniteSet(SUBSET (1..n)) /\ Cardinality(SUBSET (1..n)) = 2^n
  BY Zenon, <1>1, FS_SUBSET
<1>3. QED
  BY <1>2, FS_CardinalityType

\* Two numbers below P are recovered from i * P + j.
LEMMA Unpair ==
  ASSUME NEW P \in Nat, P > 0, NEW i \in Nat, NEW j \in 0..(P - 1)
  PROVE  (i * P + j) \div P = i /\ (i * P + j) % P = j
<1>1. i * P \in Nat
  OBVIOUS
<1>2. (i * P + j) \div P = i
  OBVIOUS
<1>3. QED
  BY <1>1, <1>2

\* inv_concat_pairing_fn undoes concat_pairing_fn, up to the order of the ends.
LEMMA PairingInverse ==
  ASSUME NEW e \in Edges
  PROVE  inv_concat_pairing_fn(Id(e)) = IF e[1] > e[2] THEN <<e[2], e[1]>> ELSE <<e[1], e[2]>>
<1> DEFINE P == 2^NodeBits
<1>1. P \in Nat /\ NumNodes \in 1..P
  BY SupernodeAssumption, PowerOfTwo
<1> HIDE DEF P
<1>2. P > 0 /\ e[1] \in 0..(P - 1) /\ e[2] \in 0..(P - 1)
  BY <1>1, SupernodeAssumption
<1>3. \A i, j \in 0..(P - 1) : (i * P + j) \div P = i /\ (i * P + j) % P = j
  BY <1>1, <1>2, Unpair
<1>4. QED
  BY <1>2, <1>3 DEF P, Id, concat_pairing_fn, inv_concat_pairing_fn

\* What is decoded is asked of ids of the vector, and only GOOD returns some.
ResultInv ==
  /\ result.of \subseteq Ids
  /\ result.ret # "GOOD" => result.edges = {}

\* Every call keeps this.
LEMMA ResultStep == TypeOK /\ ResultInv /\ [Next]_vars => ResultInv'
<1> SUFFICES ASSUME TypeOK, ResultInv, [Next]_vars PROVE ResultInv'
  OBVIOUS
<1>1. CASE UNCHANGED vars
  BY <1>1 DEF vars, ResultInv
<1>2. ASSUME result' = NoResult PROVE ResultInv'
  BY <1>2 DEF NoResult, ResultInv
<1>3. ASSUME NEW n \in Names, NEW exhaustive \in BOOLEAN, Sample(n, exhaustive) PROVE ResultInv'
  <2> DEFINE s == node[n]
             sketch == s.sk[s.sample_idx]
             found == IF exhaustive THEN ExhaustiveQuery(sketch) ELSE Query(sketch)
  <2>1. found.ret # "GOOD" => found.edges = {}
    BY Zenon DEF ExhaustiveQuery, Query, Returns
  <2>2. vec[n] \subseteq Ids
    BY DEF TypeOK
  <2>3. \/ result' = [NoResult EXCEPT !.ret = "OutOfQueries"]
        \/ result' = [NoResult EXCEPT !.ret = "MultipleQuery"]
        \/ result' = [ret |-> found.ret, edges |-> found.edges, of |-> vec[n]]
    BY Zenon, <1>3 DEF Sample
  <2> HIDE DEF found
  <2>4. QED
    BY <2>1, <2>2, <2>3 DEF NoResult, ResultInv
<1>4. ASSUME NEW n, NEW s, NEW X, Becomes(n, s, X) PROVE ResultInv'
  BY <1>2, <1>4 DEF Becomes
<1>5. CASE Next
  <2>1. PICK n \in Names :
          \/ \E e \in Edges : Update(n, e)
          \/ \E E \in SUBSET Edges : ApplyBatch(n, E)
          \/ \E exhaustive \in BOOLEAN : Sample(n, exhaustive)
          \/ Reset(n)
          \/ \E m \in Names :
               \/ MergeInto(n, m) \/ Copy(n, m) \/ SaveFull(n, m)
               \/ \E i \in 0..MaxSketches, k \in 0..MaxSketches :
                    \/ RangeMergeInto(n, m, i, k)
                    \/ \E sparse \in BOOLEAN : SaveRange(n, m, i, k, sparse)
    BY <1>5 DEF Next
  <2>2. CASE \/ \E e \in Edges : Update(n, e)
             \/ \E E \in SUBSET Edges : ApplyBatch(n, E)
             \/ Reset(n)
    BY Zenon, <1>4, <2>2 DEF Update, ApplyBatch, Reset
  <2>3. ASSUME NEW m \in Names,
               \/ MergeInto(n, m) \/ Copy(n, m) \/ SaveFull(n, m)
               \/ \E i \in 0..MaxSketches, k \in 0..MaxSketches :
                    \/ RangeMergeInto(n, m, i, k)
                    \/ \E sparse \in BOOLEAN : SaveRange(n, m, i, k, sparse)
        PROVE  ResultInv'
    BY Zenon, <1>4, <2>3 DEF MergeInto, Copy, SaveFull, RangeMergeInto, SaveRange
  <2>4. QED
    BY <1>3, <2>1, <2>2, <2>3
<1>6. QED
  BY <1>1, <1>5

\* The pair that sample and exhaustive_sample decode is an edge the client
\* gave, with its smaller end first: no id is decoded to a pair that was never
\* updated.
THEOREM SamplesAreEdges == Spec => []SampleIsAnEdge
<1>1. Init => ResultInv
  BY DEF Init, NoResult, ResultInv
<1>2. SampleIsInCut /\ ResultInv => SampleIsAnEdge
  <2> SUFFICES ASSUME SampleIsInCut, ResultInv, NEW p \in result.edges
               PROVE  p[1] <= p[2] /\ (p \in Edges \/ <<p[2], p[1]>> \in Edges)
    BY Zenon DEF SampleIsAnEdge
  <2>1. PICK x \in Ids : p = inv_concat_pairing_fn(x)
    BY DEF SampleIsInCut, ResultInv
  <2>2. PICK e \in Edges : x = Id(e)
    BY DEF Ids
  <2>3. e[1] \in Nat /\ e[2] \in Nat /\ e = <<e[1], e[2]>>
    BY SupernodeAssumption
  <2>4. QED
    BY <2>1, <2>2, <2>3, PairingInverse
<1>3. QED
  BY <1>1, <1>2, ResultStep, TypeCorrect, SamplesAreRight, PTL DEF Spec
=============================================================================
