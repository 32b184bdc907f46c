---------------------------- MODULE GraphProofs ------------------------------
(***************************************************************************)
(* Safety of Graph for any number of nodes and of sketches and any set of  *)
(* edges: the actions outside of the rounds keep the inductive invariant,  *)
(* and what follows from it.                                               *)
(***************************************************************************)
EXTENDS GraphRoundProofs

-----------------------------------------------------------------------------
(***************************************************************************)
(* Supernodes.                                                             *)
(***************************************************************************)
\* The edges of one node, in each of its sketches.
LEMMA OwnType ==
  ASSUME NEW E \in SUBSET Pairs, NEW i
  PROVE  Own(E, i) \in [SketchIdx -> SUBSET Pairs] /\ \A j \in SketchIdx : Own(E, i)[j] = Cut(E, {i})
BY DEF Own, Cut

\* An empty supernode holds the edges of its node in the empty graph.
LEMMA EmptyIsOwn ==
  \A i \in Nodes : EmptySupernode = Fresh(Own({}, i)) /\ EmptySupernode \in SupernodeState
<1>1. \A i : [j \in SketchIdx |-> {}] = Own({}, i)
  BY DEF Own, Cut
<1>2. [j \in SketchIdx |-> {}] \in [SketchIdx -> SUBSET Pairs]
  OBVIOUS
<1> QED BY Zenon, <1>1, <1>2, FreshState DEF EmptySupernode

\* Replacing the sketches of a new supernode.
LEMMA FreshExcept ==
  ASSUME NEW a, NEW b
  PROVE  [Fresh(a) EXCEPT !.sk = b] = Fresh(b)
<1> DEFINE q == [i \in SketchIdx |-> FALSE]
<1>1. \A x : Fresh(x) = [sk |-> x, queried |-> q, sample_idx |-> 0]
  BY DEF Fresh
<1> HIDE DEF q
<1> QED BY <1>1

\* Updating both supernodes of an edge toggles it in both cuts.
LEMMA ApplyToOwn ==
  ASSUME NEW E \in SUBSET Pairs, NEW e \in Pairs, NEW i \in Nodes
  PROVE  Fresh(Own(SymDiff(E, {e}), i)) =
           IF i \in {e[1], e[2]} THEN ApplyEdge(Fresh(Own(E, i)), e) ELSE Fresh(Own(E, i))
<1>1. e[1] # e[2]
  BY EdgeEnds
<1>2. CASE i \in {e[1], e[2]}
  <2>1. Cut(SymDiff(E, {e}), {i}) = SymDiff(Cut(E, {i}), {e})
    BY <1>1, <1>2 DEF Cut, SymDiff
  <2>2. Own(SymDiff(E, {e}), i) = [j \in SketchIdx |-> SymDiff(Own(E, i)[j], {e})]
    BY <2>1 DEF Own
  <2>3. Fresh(Own(E, i)).sk = Own(E, i)
    BY DEF Fresh
  <2> DEFINE f == Fresh(Own(E, i))
             new == [j \in SketchIdx |-> SymDiff(Own(E, i)[j], {e})]
  <2>4. ApplyEdge(f, e) = [f EXCEPT !.sk = new]
    BY <2>3 DEF ApplyEdge
  <2>5. [f EXCEPT !.sk = new] = Fresh(new)
    BY FreshExcept
  <2> QED BY <1>2, <2>2, <2>4, <2>5
<1>3. CASE i \notin {e[1], e[2]}
  <2>1. Cut(SymDiff(E, {e}), {i}) = Cut(E, {i})
    BY <1>3 DEF Cut, SymDiff
  <2> QED BY Zenon, <1>3, <2>1 DEF Own
<1> QED BY <1>2, <1>3

\* apply_delta_update leaves a supernode.
LEMMA ApplyState ==
  ASSUME NEW s \in SupernodeState, NEW e \in Pairs
  PROVE  ApplyEdge(s, e) \in SupernodeState
<1>1. s \in SupernodeType /\ Marked(s)
  BY DEF SupernodeState
<1>2. [i \in SketchIdx |-> SymDiff(s.sk[i], {e})] \in [SketchIdx -> SUBSET Pairs]
  BY <1>1 DEF SupernodeType, SymDiff
<1>3. ApplyEdge(s, e) = [s EXCEPT !.sk = [i \in SketchIdx |-> SymDiff(s.sk[i], {e})]]
  BY DEF ApplyEdge
<1>4. ApplyEdge(s, e) \in SupernodeType
  BY Zenon, <1>1, <1>2, <1>3 DEF SupernodeType
<1>5. ApplyEdge(s, e).queried = s.queried /\ ApplyEdge(s, e).sample_idx = s.sample_idx
  BY <1>1, <1>3 DEF SupernodeType
<1> QED BY <1>1, <1>4, <1>5 DEF SupernodeState, Marked

\* The marks of a supernode are all below sample_idx: the reset clears them.
LEMMA ResetIsFresh ==
  ASSUME NEW s \in SupernodeState
  PROVE  ResetQueryState(s) = Fresh(s.sk)
<1>1. s \in SupernodeType /\ Marked(s) /\ NumSketches \in Nat
  BY GraphAssumption DEF SupernodeState
<1>2. /\ s.sk \in [SketchIdx -> SUBSET Pairs] /\ s.queried \in [SketchIdx -> BOOLEAN]
      /\ s.sample_idx \in 0..NumSketches
  BY <1>1 DEF SupernodeType
<1>3. \A j \in SketchIdx : ~(s.queried[j] /\ j >= s.sample_idx)
  BY <1>1, <1>2 DEF Marked, SketchIdx
<1>4. \A j \in SketchIdx : (s.queried[j] /\ j >= s.sample_idx) = FALSE
  BY <1>3
<1>5. [i \in SketchIdx |-> s.queried[i] /\ i >= s.sample_idx] = [i \in SketchIdx |-> FALSE]
  BY Zenon, <1>4
<1>6. ResetQueryState(s) = [s EXCEPT !.queried = [i \in SketchIdx |-> s.queried[i] /\ i >= s.sample_idx],
                                     !.sample_idx = 0]
  BY DEF ResetQueryState
<1> QED BY Zenon, <1>1, <1>5, <1>6 DEF Fresh, SupernodeType

\* The DSU the constructors and boruvka_emulation start from.
LEMMA SinglesForest ==
  /\ Ranked(Nodes, Singletons, [i \in Nodes |-> 1])
  /\ Sized(Nodes, Singletons, [i \in Nodes |-> 1])
  /\ \A F : LinksInside(Nodes, Singletons, F)
  /\ \A x \in Nodes : Root(Singletons, x) = x
<1>1. IsFiniteSet(Nodes)
  BY NodesFinite
<1>2. /\ Ranked(Nodes, Singletons, [i \in Nodes |-> 1])
      /\ Sized(Nodes, Singletons, [i \in Nodes |-> 1])
      /\ \A x \in Nodes : Root(Singletons, x) = x
  BY <1>1, SinglesAreRanked DEF Singletons
<1>3. \A F : LinksInside(Nodes, Singletons, F)
  BY DEF LinksInside, Singletons
<1> QED BY <1>2, <1>3

-----------------------------------------------------------------------------
(***************************************************************************)
(* The actions outside of the rounds.                                      *)
(***************************************************************************)
\* The constructor.
LEMMA InitInv == Init => Inv
<1> SUFFICES ASSUME Init PROVE Inv
  OBVIOUS
<1>e. \A i \in Nodes : EmptySupernode = Fresh(Own({}, i)) /\ EmptySupernode \in SupernodeState
  BY EmptyIsOwn
<1>s. <<>> \in Seq(Nodes) /\ Inj(<<>>) /\ Range(<<>>) = {}
  BY SeqEmpty DEF Inj, Range
<1>1. TypeInv
  <2>1. supernodes \in [Nodes -> SupernodeState] /\ copies \in [Nodes -> SupernodeState]
    BY <1>e DEF Init
  <2>2. query \in [Nodes -> [ret : {"GOOD", "ZERO", "FAIL"}, edge : Pairs \cup {<<0, 0>>}]]
    BY DEF Init, NoSample
  <2>3. to_merge \in [Nodes -> Seq(Nodes)]
    BY <1>s DEF Init
  <2> QED BY Zenon, <2>1, <2>2, <2>3 DEF Init, TypeInv, Phases
<1>2. RepsInv
  BY <1>s DEF Init, RepsInv
<1>3. ForestInv
  BY SinglesForest DEF Init, ForestInv
<1>4. CallInv
  BY DEF Init, CallInv, InQuery
<1>5. RestoreInv
  BY <1>e DEF Init, RestoreInv, InQuery
<1>6. RoundInv
  BY DEF Init, RoundInv
<1> QED BY <1>1, <1>2, <1>3, <1>4, <1>5, <1>6 DEF Inv

\* A query that the DSU answers only compresses paths.
LEMMA AnswerFromDSUInv ==
  ASSUME Inv, NEW c \in Calls, AnswerFromDSU(c)
  PROVE  Inv'
<1>1. TypeInv'
  BY DEF AnswerFromDSU, Inv, TypeInv, queryVars
<1>2. RepsInv'
  BY DEF AnswerFromDSU, Inv, RepsInv, queryVars
<1>3. ForestInv'
  <2>1. Flattens(Nodes, parent, parent')
    <3>1. CASE c.op = "cont"
      BY <3>1, FullFlattening DEF AnswerFromDSU, Inv, ForestInv
    <3>2. CASE c.op # "cont"
      <4>1. c.a \in Nodes /\ c.b \in Nodes
        BY <3>2 DEF Calls, AnswerFromDSU
      <4> QED BY <3>2, <4>1, CompressTwice DEF AnswerFromDSU, Inv, ForestInv
    <3> QED BY <3>1, <3>2
  <2>2. size' = size /\ spanning_forest' = spanning_forest
    BY DEF AnswerFromDSU
  <2> QED BY <2>1, <2>2, FlatteningKeepsRoots, FlatteningKeepsSizes, FlatteningStaysInside
          DEF Inv, ForestInv
<1>4. CallInv'
  BY DEF AnswerFromDSU, Inv, CallInv, InQuery, MakeCopy, queryVars
<1>5. RestoreInv'
  BY DEF AnswerFromDSU, Inv, RestoreInv, InQuery, MayCall, queryVars
<1>6. RoundInv'
  BY Zenon DEF AnswerFromDSU, MayCall, RoundInv
<1> QED BY <1>1, <1>2, <1>3, <1>4, <1>5, <1>6 DEF Inv

\* write_binary saves the supernodes as ingestion made them.
LEMMA WriteBinaryInv ==
  ASSUME Inv, WriteBinary
  PROVE  Inv'
<1>1. TypeInv'
  BY DEF WriteBinary, Inv, TypeInv, queryVars, dsuVars
<1>2. RepsInv'
  BY DEF WriteBinary, Inv, RepsInv, queryVars
<1>3. ForestInv'
  BY DEF WriteBinary, Inv, ForestInv, dsuVars
<1>4. CallInv'
  BY DEF WriteBinary, Inv, CallInv, InQuery, MakeCopy, queryVars, dsuVars
<1>5. RestoreInv'
  <2>1. phase = "idle" /\ ~update_locked
    BY DEF WriteBinary, MayCall, Inv, CallInv
  <2>2. \A i \in Nodes : supernodes[i] = Fresh(Own(edges, i))
    BY <2>1 DEF Inv, RestoreInv
  <2>3. edges \in SUBSET Pairs
    BY DEF Inv, TypeInv
  <2>4. \A i \in Nodes : supernodes[i].sk = Own(edges, i) /\ Fresh(Own(edges, i)) \in SupernodeState
    BY Zenon, <2>2, <2>3, OwnType, FreshState
  <2>5. /\ file'.saved /\ file'.of = edges
        /\ file'.supernodes = [i \in Nodes |-> Fresh(supernodes[i].sk)]
    BY DEF WriteBinary
  <2>6. /\ \A i \in Nodes : file'.supernodes[i] = Fresh(Own(edges, i))
        /\ file'.supernodes \in [Nodes -> SupernodeState]
    BY <2>4, <2>5
  <2>7. edges' = edges /\ supernodes' = supernodes /\ phase' = phase
    BY DEF WriteBinary
  <2> QED BY <2>1, <2>2, <2>3, <2>5, <2>6, <2>7 DEF RestoreInv, InQuery
<1>6. RoundInv'
  BY DEF WriteBinary, MayCall, RoundInv
<1> QED BY <1>1, <1>2, <1>3, <1>4, <1>5, <1>6 DEF Inv

\* A graph with the supernodes of its edges.
LEMMA NewGraphInv ==
  ASSUME Inv, NEW E \in SUBSET Pairs, NEW s \in [Nodes -> SupernodeState],
         \A i \in Nodes : s[i] = Fresh(Own(E, i)), NEW valid \in BOOLEAN, NewGraph(E, s, valid)
  PROVE  Inv'
<1>1. TypeInv'
  BY Zenon DEF NewGraph, Inv, TypeInv, queryVars
<1>2. RepsInv'
  BY DEF NewGraph, Inv, RepsInv, queryVars
<1>3. ForestInv'
  BY SinglesForest DEF NewGraph, ForestInv
<1>4. CallInv'
  BY Zenon DEF NewGraph, Inv, CallInv, InQuery, queryVars
<1>5. RestoreInv'
  BY DEF NewGraph, Inv, RestoreInv, InQuery
<1>6. RoundInv'
  BY DEF NewGraph, RoundInv
<1> QED BY <1>1, <1>2, <1>3, <1>4, <1>5, <1>6 DEF Inv

\* Both constructors.
LEMMA ConstructInv ==
  ASSUME Inv, ConstructEmpty \/ ConstructFromFile
  PROVE  Inv'
<1>1. CASE ConstructEmpty
  <2>1. /\ [i \in Nodes |-> EmptySupernode] \in [Nodes -> SupernodeState]
        /\ \A i \in Nodes : [j \in Nodes |-> EmptySupernode][i] = Fresh(Own({}, i))
    BY EmptyIsOwn
  <2> QED BY Zenon, <1>1, <2>1, NewGraphInv DEF ConstructEmpty
<1>2. CASE ConstructFromFile
  <2>1. /\ file.of \in SUBSET Pairs /\ file.supernodes \in [Nodes -> SupernodeState]
        /\ \A i \in Nodes : file.supernodes[i] = Fresh(Own(file.of, i))
    BY <1>2 DEF ConstructFromFile, Inv, RestoreInv
  <2>2. PICK E \in SUBSET Pairs, s \in [Nodes -> SupernodeState] :
          E = file.of /\ s = file.supernodes
    BY <2>1
  <2>3. NewGraph(E, s, FALSE) /\ \A i \in Nodes : s[i] = Fresh(Own(E, i))
    BY Zenon, <1>2, <2>1, <2>2 DEF ConstructFromFile
  <2> QED BY Zenon, <2>3, NewGraphInv
<1> QED BY <1>1, <1>2

\* update.
LEMMA UpdateInv ==
  ASSUME Inv, NEW e \in Pairs, Update(e)
  PROVE  Inv'
<1> DEFINE a == Root(parent, e[1])
           b == Root(parent, e[2])
           joins == StaysValid(e) /\ a # b
           w == Winner(size, a, b)
           l == Loser(size, a, b)
           flat == Compress(Compress(parent, e[1]), e[2])
<1>0. /\ edges' = SymDiff(edges, {e})
      /\ supernodes' = [i \in Nodes |-> IF i \in {e[1], e[2]} THEN ApplyEdge(supernodes[i], e)
                                        ELSE supernodes[i]]
      /\ dsu_valid' = StaysValid(e)
      /\ parent' = IF ~dsu_valid' THEN parent
                   ELSE IF joins THEN [flat EXCEPT ![l] = w] ELSE flat
      /\ size' = IF joins THEN [size EXCEPT ![w] = @ + size[l]] ELSE size
      /\ spanning_forest' = IF joins THEN spanning_forest \cup {e} ELSE spanning_forest
  BY Zenon DEF Update
<1> HIDE DEF a, b, joins, w, l, flat
<1>u. /\ phase = "idle" /\ ~spent /\ ~update_locked
      /\ UNCHANGED <<update_locked, paused, phase, call, queryVars, disk, file, spent>>
  BY Zenon DEF Update, MayCall
<1>1. TypeInv'
  <2>1. supernodes' \in [Nodes -> SupernodeState]
    BY <1>0, ApplyState DEF Inv, TypeInv
  <2>2. edges' \subseteq Pairs
    BY <1>0 DEF Inv, TypeInv, SymDiff
  <2>3. spanning_forest' \subseteq Pairs
    BY <1>0 DEF Inv, TypeInv
  <2>4. dsu_valid' \in BOOLEAN
    BY <1>0 DEF Inv, TypeInv, StaysValid
  <2> QED BY <1>u, <2>1, <2>2, <2>3, <2>4 DEF Inv, TypeInv, queryVars
<1>2. RepsInv'
  BY <1>u DEF Inv, RepsInv, queryVars
<1>3. ForestInv'
  <2>1. CASE joins
    <3>1. a # b /\ dsu_valid'
      BY <1>0, <2>1 DEF joins
    <3>2. spanning_forest \subseteq Pairs
      BY DEF Inv, TypeInv
    <3>3. /\ Ranked(Nodes, [flat EXCEPT ![l] = w], [size EXCEPT ![w] = @ + size[l]])
          /\ Sized(Nodes, [flat EXCEPT ![l] = w], [size EXCEPT ![w] = @ + size[l]])
          /\ LinksInside(Nodes, [flat EXCEPT ![l] = w], spanning_forest \cup {e})
      <4>1. JoinedForest(e, a, b, w, l, flat)
        BY <3>1, <3>2, JoinKeepsForest DEF a, b, w, l, flat, Inv
      <4> QED BY <4>1 DEF JoinedForest
    <3> QED BY Zenon, <1>0, <2>1, <3>1, <3>3 DEF ForestInv
  <2>2. CASE ~joins
    <3>1. /\ Ranked(Nodes, flat, size) /\ Sized(Nodes, flat, size)
          /\ LinksInside(Nodes, flat, spanning_forest)
      BY Zenon, LookupKeepsForest DEF flat, Inv
    <3> QED BY <1>0, <2>2, <3>1 DEF Inv, ForestInv
  <2> QED BY <2>1, <2>2
<1>4. CallInv'
  BY Zenon, <1>u DEF Inv, CallInv, InQuery, queryVars
<1>5. RestoreInv'
  <2>1. \A i \in Nodes : supernodes[i] = Fresh(Own(edges, i))
    BY Zenon, <1>u DEF Inv, RestoreInv
  <2>2. edges \in SUBSET Pairs
    BY DEF Inv, TypeInv
  <2>3. \A i \in Nodes : supernodes'[i] = Fresh(Own(edges', i))
    <3>1. ASSUME NEW i \in Nodes PROVE supernodes'[i] = Fresh(Own(edges', i))
      <4>1. supernodes'[i] = IF i \in {e[1], e[2]} THEN ApplyEdge(supernodes[i], e) ELSE supernodes[i]
        BY Zenon, <1>0
      <4>2. Fresh(Own(edges', i)) =
              IF i \in {e[1], e[2]} THEN ApplyEdge(Fresh(Own(edges, i)), e) ELSE Fresh(Own(edges, i))
        BY Zenon, <1>0, <2>2, ApplyToOwn
      <4> QED BY Zenon, <2>1, <4>1, <4>2
    <3> QED BY Zenon, <3>1
  <2> QED BY Zenon, <1>u, <2>3 DEF Inv, RestoreInv, InQuery
<1>6. RoundInv'
  BY <1>u DEF RoundInv
<1> QED BY <1>1, <1>2, <1>3, <1>4, <1>5, <1>6 DEF Inv

\* The start of a query that runs Boruvka.
LEMMA StartBoruvkaInv ==
  ASSUME Inv, NEW c \in Calls, StartBoruvka(c)
  PROVE  Inv'
<1>0. phase = "idle" /\ ~spent /\ ~update_locked
  BY DEF StartBoruvka, MayCall, Inv, CallInv
<1>r. /\ \A i \in Nodes : supernodes[i] = Fresh(Own(edges, i))
      /\ edges \in SUBSET Pairs
  BY <1>0 DEF Inv, RestoreInv, TypeInv
<1>f. ASSUME NEW i \in Nodes
      PROVE  /\ supernodes[i].sk = Own(edges, i) /\ supernodes[i].sample_idx = 0
             /\ \A j \in SketchIdx : supernodes[i].sk[j] = Cut(edges, {i})
  <2>1. Own(edges, i) \in [SketchIdx -> SUBSET Pairs]
        /\ \A j \in SketchIdx : Own(edges, i)[j] = Cut(edges, {i})
    BY Zenon, <1>r, OwnType
  <2>2. Fresh(Own(edges, i)).sk = Own(edges, i) /\ Fresh(Own(edges, i)).sample_idx = 0
    BY <2>1, FreshState
  <2> QED BY <1>r, <2>1, <2>2
<1>a. AllNodes \in Seq(Nodes) /\ Inj(AllNodes) /\ Range(AllNodes) = Nodes
  BY AllNodesSet
<1>1. TypeInv'
  BY DEF StartBoruvka, Inv, TypeInv, Phases
<1>2. RepsInv'
  BY <1>a DEF StartBoruvka, Inv, RepsInv
<1>3. ForestInv'
  BY SinglesForest DEF StartBoruvka, ForestInv
<1>4. CallInv'
  BY <1>0 DEF StartBoruvka, Inv, CallInv, InQuery, MakeCopy
<1>5. RestoreInv'
  <2>1. \A i \in Nodes : \A j \in SketchIdx : supernodes[i].sk[j] \subseteq edges
    BY <1>f DEF Cut
  <2> QED BY Zenon, <1>f, <2>1 DEF StartBoruvka, Inv, RestoreInv, InQuery
<1>6. RoundInv'
  <2>1. /\ phase' = "sample" /\ parent' = Singletons /\ size' = [i \in Nodes |-> 1]
        /\ reps' = AllNodes /\ to_merge' = to_merge /\ supernodes' = supernodes /\ edges' = edges
    BY DEF StartBoruvka
  <2>2. \A i \in Nodes : to_merge[i] = <<>>
    BY <1>0 DEF Inv, CallInv
  <2>3. \A r \in Nodes : Tree(r)' = {r}
    BY <2>1, SinglesForest DEF Tree
  <2>4. 2^0 = 1
    OBVIOUS
  <2>5. AtSample(0)'
    <3>1. Range(reps') = Nodes /\ \A r \in Nodes : parent'[r] = r /\ size'[r] = 1
      BY <1>a, <2>1 DEF Singletons
    <3>2. \A i \in Nodes : supernodes'[i].sample_idx = 0 /\ size'[i] >= 2^0
      <4>1. \A i \in Nodes : size'[i] >= 2^0
        BY <2>4, <3>1
      <4> QED BY Zenon, <1>f, <2>1, <4>1
    <3>3. \A r \in Nodes : \A j \in SketchIdx : supernodes'[r].sk[j] = Cut(edges', Tree(r)')
      BY Zenon, <1>f, <2>1, <2>3
    <3> QED BY Zenon, <3>1, <3>2, <3>3 DEF AtSample
  <2> QED BY <2>1, <2>5 DEF RoundInv
<1> QED BY <1>1, <1>2, <1>3, <1>4, <1>5, <1>6 DEF Inv

\* cleanup_copy puts the sketches of every node back.
LEMMA CleanupRestores ==
  ASSUME Inv, InQuery, CleanupCopy
  PROVE  /\ supernodes' \in [Nodes -> SupernodeState] /\ copies' \in [Nodes -> SupernodeState]
         /\ MakeCopy => \A i \in Nodes : supernodes'[i].sk = Own(edges, i)
<1>1. supernodes' \in [Nodes -> SupernodeState] /\ copies' \in [Nodes -> SupernodeState]
  BY EmptyIsOwn DEF CleanupCopy, Inv, TypeInv
<1>2. ASSUME MakeCopy, NEW i \in Nodes PROVE supernodes'[i].sk = Own(edges, i)
  <2>1. supernodes'[i] = IF i \in backed_up THEN copies[i] ELSE supernodes[i]
    BY Zenon, <1>2 DEF CleanupCopy
  <2> QED BY Zenon, <1>2, <2>1 DEF Inv, RestoreInv
<1> QED BY <1>1, <1>2

\* What the two ends of boruvka_emulation have in common.
LEMMA BoruvkaEndsInv ==
  ASSUME Inv, InQuery, CleanupCopy,
         phase' = AfterBoruvka, call' = IF MakeCopy THEN call ELSE NoCall, spent' = ~MakeCopy,
         dsu_valid' \in BOOLEAN, parent' = parent \/ parent' = [i \in Nodes |-> Root(parent, i)],
         UNCHANGED <<edges, size, spanning_forest, update_locked, paused, disk, file>>,
         phase \notin {"scan", "merge"}
  PROVE  Inv'
<1>c. /\ supernodes' \in [Nodes -> SupernodeState] /\ copies' \in [Nodes -> SupernodeState]
      /\ MakeCopy => \A i \in Nodes : supernodes'[i].sk = Own(edges, i)
  BY CleanupRestores
<1>p. /\ phase' \in {"exit", "resume", "idle"}
      /\ phase' = "idle" => ~MakeCopy
      /\ phase' # "idle" => MakeCopy
  BY DEF AfterBoruvka, NoBackupFile
<1>1. TypeInv'
  <2>1. call' \in Calls \cup {NoCall} /\ phase' \in Phases /\ spent' \in BOOLEAN
    BY Zenon, <1>p DEF Inv, TypeInv, Phases, MakeCopy
  <2>2. failed' \in BOOLEAN /\ backed_up' \subseteq Nodes
    BY Zenon DEF CleanupCopy
  <2>3. UNCHANGED <<query, to_merge, modified, first_round>>
    BY DEF CleanupCopy
  <2> QED BY <1>c, <2>1, <2>2, <2>3 DEF Inv, TypeInv
<1>2. RepsInv'
  <2>1. reps' \in Seq(Nodes) /\ Inj(reps')
    BY SeqEmpty DEF CleanupCopy, Inj
  <2>2. UNCHANGED <<todo, new_reps>>
    BY Zenon DEF CleanupCopy
  <2> QED BY <2>1, <2>2 DEF Inv, RepsInv
<1>3. ForestInv'
  <2>1. CASE parent' = parent
    BY <2>1 DEF Inv, ForestInv
  <2>2. CASE parent' = [i \in Nodes |-> Root(parent, i)]
    <3>0. Ranked(Nodes, parent, size)
      BY DEF Inv, ForestInv
    <3>1. Flattens(Nodes, parent, parent')
      BY <2>2, <3>0, FullFlattening
    <3> QED BY Zenon, <3>1, FlatteningKeepsRoots, FlatteningKeepsSizes, FlatteningStaysInside
            DEF Inv, ForestInv
  <2> QED BY <2>1, <2>2
<1>4. CallInv'
  <2>1. \A i \in Nodes : to_merge'[i] = <<>>
    BY Zenon DEF Inv, CallInv, CleanupCopy
  <2>2. ~failed' /\ ~InQuery' /\ update_locked'
    BY <1>p DEF CleanupCopy, InQuery, Inv, CallInv
  <2>3. phase' # "idle" => call' = call /\ call \in Calls /\ MakeCopy' /\ ~spent'
    BY Zenon, <1>p DEF MakeCopy, Inv, CallInv
  <2>4. phase' = "idle" => spent'
    BY Zenon, <1>p
  <2> QED BY <2>1, <2>2, <2>3, <2>4 DEF CallInv, InQuery
<1>5. RestoreInv'
  <2>1. update_locked' /\ ~InQuery'
    BY <1>p DEF InQuery, Inv, CallInv
  <2> QED BY Zenon, <1>c, <1>p, <2>1 DEF Inv, RestoreInv
<1>6. RoundInv'
  BY <1>p DEF RoundInv
<1> QED BY <1>1, <1>2, <1>3, <1>4, <1>5, <1>6 DEF Inv

\* boruvka_emulation returns.
LEMMA BoruvkaReturnsInv ==
  ASSUME Inv, BoruvkaReturns
  PROVE  Inv'
<1>1. InQuery /\ phase \notin {"scan", "merge"}
  BY DEF BoruvkaReturns, InQuery
<1> QED BY <1>1, BoruvkaEndsInv DEF BoruvkaReturns

\* An exception leaves boruvka_emulation.
LEMMA BoruvkaThrowsInv ==
  ASSUME Inv, BoruvkaThrows
  PROVE  Inv'
<1>1. InQuery /\ phase \notin {"scan", "merge"}
  BY DEF BoruvkaThrows, InQuery
<1>2. dsu_valid' \in BOOLEAN
  BY DEF BoruvkaThrows, dsuVars, Inv, TypeInv
<1> QED BY <1>1, <1>2, BoruvkaEndsInv DEF BoruvkaThrows, dsuVars

\* A query resets the supernodes and unlocks updates.
LEMMA ResumeInv ==
  ASSUME Inv, Resume
  PROVE  Inv'
<1>s. \A i \in Nodes : supernodes'[i] = Fresh(Own(edges, i))
  BY Zenon, ResetIsFresh DEF Resume, Inv, TypeInv, RestoreInv
<1>1. TypeInv'
  <2>1. supernodes' \in [Nodes -> SupernodeState]
    <3>1. \A i \in Nodes : Fresh(Own(edges, i)) \in SupernodeState
      BY Zenon, OwnType, FreshState DEF Inv, TypeInv
    <3> QED BY <1>s, <3>1 DEF Resume
  <2>2. spent' \in BOOLEAN
    BY DEF Resume
  <2> QED BY Zenon, <2>1, <2>2 DEF Resume, Inv, TypeInv, Phases, queryVars
<1>2. RepsInv'
  BY DEF Resume, Inv, RepsInv, queryVars
<1>3. ForestInv'
  BY SinglesForest DEF Resume, Inv, ForestInv
<1>4. CallInv'
  BY Zenon DEF Resume, Inv, CallInv, InQuery, queryVars
<1>5. RestoreInv'
  <2>1. phase' = "idle" /\ ~InQuery' /\ edges' = edges /\ file' = file
    BY DEF Resume, InQuery
  <2> QED BY Zenon, <1>s, <2>1 DEF Inv, RestoreInv
<1>6. RoundInv'
  BY DEF Resume, RoundInv
<1> QED BY <1>1, <1>2, <1>3, <1>4, <1>5, <1>6 DEF Inv

\* Every step of Graph keeps the invariant.
LEMMA NextInv ==
  ASSUME Inv, [Next]_vars
  PROVE  Inv'
<1>1. CASE \E e \in Pairs : Update(e)
  BY <1>1, UpdateInv
<1>2. CASE \E c \in Calls : AnswerFromDSU(c) \/ StartBoruvka(c)
  BY <1>2, AnswerFromDSUInv, StartBoruvkaInv
<1>3. CASE Query
  BY <1>3, SampleSupernodesInv, ScanRepInv, ScanEndInv, MergeSupernodesInv, BoruvkaReturnsInv,
     BoruvkaThrowsInv, ResumeInv DEF Query
<1>4. CASE WriteBinary
  BY <1>4, WriteBinaryInv
<1>5. CASE ConstructEmpty \/ ConstructFromFile
  BY <1>5, ConstructInv
<1>6. CASE UNCHANGED vars
  <2>1. /\ UNCHANGED <<edges, supernodes, parent, size, dsu_valid, spanning_forest, update_locked,
                       paused, phase, call, reps, query, to_merge, new_reps, todo, modified>>
        /\ UNCHANGED <<first_round, failed, backed_up, copies, disk, file, answer, spent>>
    BY <1>6 DEF vars, dsuVars, queryVars
  <2>2. TypeInv' /\ RepsInv' /\ ForestInv' /\ CallInv' /\ RestoreInv'
    <3>1. TypeInv'
      BY Zenon, <2>1 DEF Inv, TypeInv
    <3>2. RepsInv' /\ ForestInv'
      BY <2>1 DEF Inv, RepsInv, ForestInv
    <3>3. CallInv'
      BY Zenon, <2>1 DEF Inv, CallInv, InQuery, MakeCopy
    <3>4. RestoreInv'
      BY Zenon, <2>1 DEF Inv, RestoreInv, InQuery, MakeCopy
    <3> QED BY <3>1, <3>2, <3>3, <3>4
  <2>3. ASSUME NEW r PROVE Tree(r)' = Tree(r)
    BY <2>1 DEF Tree
  <2>4. ASSUME NEW c \in Nat, AtSample(c) PROVE AtSample(c)'
    BY Zenon, <2>1, <2>3, <2>4 DEF AtSample
  <2>5. ASSUME NEW r0 \in [Nodes -> Nodes], InRound(r0) PROVE InRound(r0)'
    <3>1. \A w : Taken(r0, w)' = Taken(r0, w)
      BY <2>1 DEF Taken
    <3> QED BY Zenon, <2>1, <2>5, <3>1 DEF InRound
  <2>6. ASSUME NEW r0, NEW r PROVE StartTree(r0, r)' = StartTree(r0, r)
    BY DEF StartTree
  <2>7. ASSUME NEW c \in Nat, NEW r0 \in [Nodes -> Nodes], AtScan(c, r0) PROVE AtScan(c, r0)'
    <3>1. InRound(r0)'
      BY <2>5, <2>7 DEF AtScan
    <3>2. ScanLists' /\ ScanSizes(c)'
      BY Zenon, <2>1, <2>7 DEF AtScan, ScanLists, ScanSizes
    <3>3. ScanCuts(c, r0)'
      BY Zenon, <2>1, <2>6, <2>7 DEF AtScan, ScanCuts
    <3>4. ScanSamples(r0)'
      BY Zenon, <2>1, <2>6, <2>7 DEF AtScan, ScanSamples, SampleInv
    <3> QED BY <3>1, <3>2, <3>3, <3>4 DEF AtScan
  <2>8. ASSUME NEW c \in Nat, NEW r0 \in [Nodes -> Nodes], AtMerge(c, r0) PROVE AtMerge(c, r0)'
    <3>1. InRound(r0)'
      BY Zenon, <2>5, <2>8 DEF AtMerge
    <3> QED BY Zenon, <2>1, <2>3, <2>6, <2>8, <3>1 DEF AtMerge
  <2>9. RoundInv'
    BY <2>1, <2>4, <2>7, <2>8 DEF Inv, RoundInv, Joined
  <2> QED BY <2>2, <2>9 DEF Inv
<1> QED BY <1>1, <1>2, <1>3, <1>4, <1>5, <1>6 DEF Next

\* The inductive invariant holds throughout: updates, queries of either kind,
\* their rounds and exceptions, saving and loading, in any order.
THEOREM GraphInvariant == Spec => []Inv
<1>1. Init => Inv
  BY InitInv
<1>2. Inv /\ [Next]_vars => Inv'
  BY NextInv
<1> QED BY <1>1, <1>2, PTL DEF Spec

-----------------------------------------------------------------------------
(***************************************************************************)
(* What the invariant shows.                                               *)
(***************************************************************************)
\* Every variable has its type in a state of the invariant.
LEMMA InvType == Inv => TypeOK
<1> SUFFICES ASSUME Inv PROVE TypeOK
  OBVIOUS
<1>1. IsFiniteSet(Nodes) /\ Cardinality(Nodes) = NumNodes /\ NumNodes \in Nat
  BY NodesFinite
<1>2. ASSUME NEW s \in Seq(Nodes), Inj(s) PROVE Range(s) \subseteq Nodes /\ Len(s) <= NumNodes
  <2>1. Cardinality(Range(s)) = Len(s)
    BY <1>2, InjLength
  <2>2. Range(s) \subseteq Nodes
    BY DEF Range
  <2>3. Cardinality(Range(s)) <= Cardinality(Nodes)
    BY <1>1, <2>2, FS_Subset
  <2> QED BY <1>1, <2>1, <2>2, <2>3
<1>3. \A s \in {reps, new_reps, todo} : Range(s) \subseteq Nodes /\ Len(s) <= NumNodes
  BY <1>2 DEF Inv, RepsInv
<1>4. \A i \in Nodes : Range(to_merge[i]) \subseteq Nodes
  BY DEF Inv, TypeInv, Range
<1>5. parent \in [Nodes -> Nodes] /\ size \in [Nodes -> 1..NumNodes]
  BY <1>1 DEF Inv, ForestInv, Ranked
<1>6. supernodes \in [Nodes -> SupernodeType] /\ copies \in [Nodes -> SupernodeType]
  BY DEF Inv, TypeInv, SupernodeState
<1> QED BY Zenon, <1>3, <1>4, <1>5, <1>6 DEF Inv, TypeInv, TypeOK, Phases

\* Graph keeps the types of its members, in particular no list of
\* representatives grows past the number of nodes.
THEOREM TypeCorrect == Spec => []TypeOK
BY GraphInvariant, InvType, PTL

\* Whenever updates are allowed, the supernodes are what ingestion made them,
\* also after a query that restored its copies or threw.
THEOREM RestoredForUpdates == Spec => []SupernodesRestored
<1>1. Inv => SupernodesRestored
  BY Zenon DEF Inv, RestoreInv, SupernodesRestored, Own
<1> QED BY <1>1, GraphInvariant, PTL

\* The invariant of Boruvka's rounds.
LEMMA InvCuts == Inv => RootSketchesAreCuts
<1> SUFFICES ASSUME Inv, phase = "sample", NEW r \in Nodes, parent[r] = r
             PROVE  /\ Tree(r) \subseteq Reachable(Nodes, edges, r)
                    /\ r \in Range(reps) =>
                         \A j \in SketchIdx : j >= supernodes[r].sample_idx =>
                           supernodes[r].sk[j] = Cut(edges, Tree(r))
                    /\ r \notin Range(reps) => Cut(edges, Tree(r)) = {}
  BY Zenon DEF RootSketchesAreCuts
<1>1. PICK c \in Nat : AtSample(c)
  BY Zenon DEF Inv, RoundInv
<1>2. Tree(r) \subseteq Reachable(Nodes, edges, r)
  <2> SUFFICES ASSUME NEW x \in Tree(r), NEW S \in SUBSET Nodes, ClosedUnder(edges, S), r \in S
               PROVE  x \in S
    BY DEF Reachable, Tree
  <2>1. x \in Nodes /\ Root(parent, x) = r
    BY DEF Tree
  <2>2. ClosedUnder(spanning_forest, S)
    BY Zenon DEF Inv, RestoreInv, InQuery, ClosedUnder
  <2>3. \A e \in spanning_forest : e[1] \in Nodes /\ e[2] \in Nodes
    BY EdgeEnds DEF Inv, TypeInv
  <2>4. IsFiniteSet(Nodes) /\ parent \in [Nodes -> Nodes] /\ LinksInside(Nodes, parent, spanning_forest)
    BY DEF Inv, ForestInv, Ranked
  <2>5. x \in S <=> Root(parent, x) \in S
    BY <2>1, <2>2, <2>3, <2>4, RootInside
  <2> QED BY <2>1, <2>5
<1> QED BY Zenon, <1>1, <1>2 DEF AtSample

\* At the start of a round the sketches that are left hold the edges that
\* leave a tree, and the trees left out are whole components.
THEOREM RoundsStartWithCuts == Spec => []RootSketchesAreCuts
BY GraphInvariant, InvCuts, PTL

\* The lists of the representatives are the disjoint sets of the trees each
\* one took in, so no two iterations of merge_supernodes touch a supernode.
LEMMA InvMergeSafe == Inv => ParallelMergeSafe
<1> SUFFICES ASSUME Inv, phase = "merge" PROVE ParallelMergeSafe
  BY DEF ParallelMergeSafe
<1>1. PICK c \in Nat, r0 \in [Nodes -> Nodes] : AtMerge(c, r0)
  BY DEF Inv, RoundInv
<1>2. Cardinality(Range(reps)) = Len(reps)
  BY InjLength DEF Inv, RepsInv
<1>3. ASSUME NEW a \in Nodes, NEW b \in Range(to_merge[a])
      PROVE  b \in Nodes /\ parent[b] # b /\ Root(parent, b) = a
  <2>1. to_merge[a] # <<>>
    BY <1>3 DEF Range
  <2>2. parent[a] = a /\ b \in Taken(r0, a)
    BY Zenon, <1>1, <1>3, <2>1 DEF AtMerge, InRound
  <2>3. b \in Nodes /\ b # a /\ Root(parent, b) = a
    BY <2>2 DEF Taken
  <2>4. IsFiniteSet(Nodes) /\ parent \in [Nodes -> Nodes]
    BY DEF Inv, ForestInv, Ranked
  <2> QED BY <2>3, <2>4, RootOfRoot
<1>4. \A w \in Nodes : parent[w] # w => to_merge[w] = <<>>
  BY Zenon, <1>1 DEF AtMerge, InRound
<1>5. Range(reps) \subseteq Nodes
  <2>1. reps \in Seq(Nodes)
    BY Zenon DEF Inv, RepsInv
  <2>2. DOMAIN reps = 1..Len(reps) /\ \A i \in 1..Len(reps) : reps[i] \in Nodes
    BY ONLY <2>1, SeqElements
  <2> QED BY Zenon, <2>2 DEF Range
<1>6. ASSUME NEW a \in Range(reps), NEW b \in Range(to_merge[a])
      PROVE  to_merge[b] = <<>> /\ \A d \in Nodes \ {a} : b \notin Range(to_merge[d])
  BY <1>3, <1>4, <1>5
<1> QED BY <1>2, <1>6 DEF ParallelMergeSafe

\* The parallel loop of merge_supernodes never touches a supernode from two
\* of its iterations.
THEOREM MergesAreSafe == Spec => []ParallelMergeSafe
BY GraphInvariant, InvMergeSafe, PTL

-----------------------------------------------------------------------------
(***************************************************************************)
(* Exceptions.                                                             *)
(***************************************************************************)
\* A round of a query in which no sketch failed finds a sketch in every
\* representative: its tree doubled in every round.
LEMMA DoublingSuffices ==
  ASSUME NumNodes < 2^NumSketches, Inv, phase = "sample", ~failed,
         NEW i \in Range(reps), OutOfQueries(supernodes[i])
  PROVE  FALSE
<1>1. PICK c \in Nat : AtSample(c)
  BY DEF Inv, RoundInv
<1>2. i \in Nodes
  BY DEF Inv, RepsInv, Range
<1>3. supernodes[i].sample_idx = c /\ size[i] >= 2^c
  BY Zenon, <1>1 DEF AtSample
<1>4. supernodes[i].sample_idx \in 0..NumSketches
  BY <1>2 DEF Inv, TypeInv, SupernodeState, SupernodeType
<1>5. c = NumSketches
  BY <1>3, <1>4, GraphAssumption DEF OutOfQueries
<1>6. size[i] \in 1..NumNodes /\ NumNodes \in Nat
  BY <1>2, NodesFinite DEF Inv, ForestInv, Ranked
<1> DEFINE power == 2^NumSketches
<1>7. power \in Nat /\ NumNodes < power /\ size[i] >= power
  BY Zenon, <1>3, <1>5, Doubling, GraphAssumption
<1> HIDE DEF power
<1> QED BY ONLY <1>6, <1>7

\* A query throws only when it ran out of sketches after a failure.
LEMMA ThrowsAfterFail ==
  ASSUME NumNodes < 2^NumSketches, Inv, EnoughSketches, [Next]_vars
  PROVE  EnoughSketches'
<1>1. CASE SampleSupernodes
  <2>1. phase = "sample"
    BY <1>1 DEF SampleSupernodes
  <2>2. CASE answer' = answer
    BY <2>2 DEF EnoughSketches
  <2>3. CASE /\ {i \in Range(reps) : OutOfQueries(supernodes[i])} # {}
             /\ Throw("OutOfQueries")
    <3>1. failed
      BY <2>1, <2>3, DoublingSuffices
    <3> QED BY <2>3, <3>1 DEF Throw, EnoughSketches
  <2> QED BY Zenon, <1>1, <2>2, <2>3, SampleStep
<1>2. CASE \/ \E e \in Pairs : Update(e)
           \/ \E c \in Calls : StartBoruvka(c)
           \/ WriteBinary \/ ConstructEmpty \/ ConstructFromFile
  <2>1. answer' = NoAnswer
    BY Zenon, <1>2 DEF Update, StartBoruvka, WriteBinary, ConstructEmpty, ConstructFromFile, NewGraph
  <2> QED BY <2>1 DEF NoAnswer, EnoughSketches
<1>3. CASE (\E c \in Calls : AnswerFromDSU(c)) \/ BoruvkaReturns
  <2>1. PICK p, c : answer' = ComponentsAnswer(p) \/ answer' = PointAnswer(p, c)
    BY Zenon, <1>3 DEF AnswerFromDSU, BoruvkaReturns
  <2>2. answer'.kind \in {"components", "point"}
    BY ONLY <2>1 DEF ComponentsAnswer, PointAnswer
  <2> QED BY Zenon, <2>2 DEF EnoughSketches
<1>4. CASE ScanRep \/ ScanEnd \/ MergeSupernodes \/ BoruvkaThrows \/ Resume \/ UNCHANGED vars
  <2>1. answer' = answer
    BY Zenon, <1>4 DEF ScanRep, ScanEnd, MergeSupernodes, BoruvkaThrows, Resume, vars
  <2> QED BY <2>1 DEF EnoughSketches
<1> QED BY <1>1, <1>2, <1>3, <1>4 DEF Next, Query

\* With more than log2(n) sketches for n nodes, a query throws only if it ran
\* out of sketches after one of them failed, and never because it met a sketch
\* that was queried before.
THEOREM SketchesSuffice ==
  ASSUME NumNodes < 2^NumSketches
  PROVE  Spec => []EnoughSketches
<1>1. Init => EnoughSketches
  <2>1. Init => answer = NoAnswer
    BY Zenon DEF Init
  <2> QED BY ONLY <2>1 DEF NoAnswer, EnoughSketches
<1>2. Inv /\ EnoughSketches /\ [Next]_vars => EnoughSketches'
  BY ThrowsAfterFail
<1> QED BY <1>1, <1>2, GraphInvariant, PTL DEF Spec

\* Once the first round of a query has ended, its copies on disk have a file.
BackupInv ==
  /\ phase # "exit"
  /\ InQuery /\ ~first_round /\ MakeCopy /\ ~BackupInMem => disk
  /\ phase \in {"done", "throw"} => ~first_round

\* Only the first round of a query with copies on disk writes the file, and
\* every way out of the query comes after that round.
LEMMA BackupStep ==
  ASSUME NumSketches > 0, Inv, BackupInv, [Next]_vars
  PROVE  BackupInv'
<1>1. CASE SampleSupernodes
  <2>1. phase = "sample" /\ UNCHANGED <<first_round, call, disk>>
    BY <1>1 DEF SampleSupernodes
  <2>2. phase' = "scan" \/ (phase' = "throw" /\ \E i \in Range(reps) : OutOfQueries(supernodes[i]))
    BY Zenon, <1>1, SampleStep DEF Throw
  <2>3. ASSUME first_round, NEW i \in Range(reps) PROVE ~OutOfQueries(supernodes[i])
    <3>1. PICK c \in Nat : AtSample(c)
      BY <2>1 DEF Inv, RoundInv
    <3>2. supernodes[i].sample_idx = 0
      BY Zenon, <2>3, <3>1 DEF AtSample
    <3> QED BY <3>2, GraphAssumption DEF OutOfQueries
  <2> QED BY <2>1, <2>2, <2>3 DEF BackupInv, InQuery, MakeCopy
<1>2. CASE MergeSupernodes
  <2>1. /\ phase = "merge" /\ ~first_round' /\ call' = call
        /\ phase' \in {"sample", "done"}
        /\ disk' = (disk \/ (MakeCopy /\ first_round /\ ~BackupInMem))
    BY Zenon, <1>2 DEF MergeSupernodes, BackupToDisk, Backup
  <2> QED BY Zenon, <2>1 DEF BackupInv, InQuery, MakeCopy
<1>3. CASE ScanRep \/ ScanEnd
  BY Zenon, <1>3 DEF ScanRep, ScanEnd, BackupInv, InQuery, MakeCopy
<1>4. CASE BoruvkaReturns \/ BoruvkaThrows
  <2>1. phase \in {"done", "throw"} /\ phase' = AfterBoruvka
    BY <1>4 DEF BoruvkaReturns, BoruvkaThrows
  <2>2. ~NoBackupFile
    BY <2>1 DEF BackupInv, InQuery, NoBackupFile
  <2> QED BY <2>1, <2>2 DEF AfterBoruvka, BackupInv, InQuery
<1>5. CASE \E c \in Calls : StartBoruvka(c)
  BY <1>5 DEF StartBoruvka, BackupInv
<1>6. CASE Resume
  BY <1>6 DEF Resume, BackupInv, InQuery
<1>7. CASE \/ \E e \in Pairs : Update(e)
           \/ \E c \in Calls : AnswerFromDSU(c)
           \/ WriteBinary \/ ConstructEmpty \/ ConstructFromFile
  <2>1. phase = "idle" /\ phase' = phase
    BY Zenon, <1>7 DEF Update, AnswerFromDSU, WriteBinary, ConstructEmpty, ConstructFromFile, NewGraph, MayCall
  <2> QED BY <2>1 DEF BackupInv, InQuery
<1>8. CASE UNCHANGED vars
  BY <1>8 DEF vars, queryVars, BackupInv, InQuery, MakeCopy
<1> QED BY <1>1, <1>2, <1>3, <1>4, <1>5, <1>6, <1>7, <1>8 DEF Next, Query

\* A query that keeps its copies on disk finds the backup file when it returns
\* or throws: the first round cannot throw, and it writes the file.
THEOREM BackupAlwaysThere ==
  ASSUME NumSketches > 0
  PROVE  Spec => []BackupIsThere
<1>1. Init => BackupInv
  BY DEF Init, BackupInv, InQuery
<1>2. Inv /\ BackupInv /\ [Next]_vars => BackupInv'
  BY BackupStep
<1>3. BackupInv => BackupIsThere
  BY DEF BackupInv, BackupIsThere
<1> QED BY <1>1, <1>2, <1>3, GraphInvariant, PTL DEF Spec

-----------------------------------------------------------------------------
(***************************************************************************)
(* Answers.  The DSU is current when its trees join the ends of every edge *)
(* along edges of the graph.                                               *)
(***************************************************************************)
Current == spanning_forest \subseteq edges /\ Joined

\* A current DSU describes the connected components.
LEMMA CurrentIsExact ==
  ASSUME Inv, Current
  PROVE  /\ Partition(parent) = Components(Nodes, edges)
         /\ Components(Nodes, spanning_forest) = Components(Nodes, edges)
         /\ \A x, y \in Nodes : Root(parent, x) = Root(parent, y) <=> y \in Reachable(Nodes, edges, x)
<1>1. \A e \in edges : e[1] \in Nodes /\ e[2] \in Nodes /\ Root(parent, e[1]) = Root(parent, e[2])
  BY EdgeEnds DEF Current, Joined, Inv, TypeInv
<1>2. /\ Ranked(Nodes, parent, size) /\ LinksInside(Nodes, parent, spanning_forest)
      /\ spanning_forest \subseteq edges
  BY DEF Inv, ForestInv, Current
<1>3. /\ \A x \in Nodes : Reachable(Nodes, edges, x) = TreeOf(Nodes, parent, Root(parent, x))
      /\ Partition(parent) = Components(Nodes, edges)
      /\ Components(Nodes, spanning_forest) = Components(Nodes, edges)
  BY <1>1, <1>2, ForestOfComponents
<1> QED BY <1>3 DEF TreeOf

\* An answer read from a current DSU is correct.
LEMMA AnswerFromCurrent ==
  ASSUME Inv, Current, edges' = edges, NEW c,
         \/ answer' = ComponentsAnswer(parent)
         \/ c.a \in Nodes /\ c.b \in Nodes /\ answer' = PointAnswer(parent, c)
  PROVE  AnswerIsCorrect'
<1>1. CASE answer' = ComponentsAnswer(parent)
  <2>1. answer'.kind = "components" /\ answer'.parts = Components(Nodes, edges)
    BY Zenon, <1>1, CurrentIsExact DEF ComponentsAnswer
  <2> QED BY <2>1 DEF AnswerIsCorrect
<1>2. CASE c.a \in Nodes /\ c.b \in Nodes /\ answer' = PointAnswer(parent, c)
  <2>1. /\ answer'.kind = "point" /\ answer'.a = c.a /\ answer'.b = c.b
        /\ answer'.same <=> Root(parent, c.a) = Root(parent, c.b)
    BY Zenon, <1>2 DEF PointAnswer
  <2>2. answer'.same <=> answer'.b \in Reachable(Nodes, edges, answer'.a)
    BY Zenon, <1>2, <2>1, CurrentIsExact
  <2> QED BY Zenon, <2>1, <2>2 DEF AnswerIsCorrect
<1> QED BY <1>1, <1>2

\* Path compression leaves a current DSU current.
LEMMA FlattenedIsCurrent ==
  ASSUME Inv, Current, UNCHANGED <<edges, spanning_forest>>, Flattens(Nodes, parent, parent')
  PROVE  Current'
<1>1. \A x \in Nodes : Root(parent', x) = Root(parent, x)
  <2>1. Ranked(Nodes, parent, size)
    BY DEF Inv, ForestInv
  <2> QED BY <2>1, FlatteningKeepsRoots
<1>2. \A e \in edges : e[1] \in Nodes /\ e[2] \in Nodes
  BY EdgeEnds DEF Inv, TypeInv
<1> QED BY <1>1, <1>2 DEF Current, Joined

\* While the client may call, a valid DSU is current, and it is so from the
\* end of Boruvka's rounds.
CurrentInv ==
  /\ phase = "idle" /\ dsu_valid /\ ~spent => Current
  /\ phase = "resume" /\ dsu_valid /\ call.op # "point" => Current

\* update keeps the DSU current, or declares it invalid.
LEMMA UpdateIsCurrent ==
  ASSUME Inv, CurrentInv, NEW e \in Pairs, Update(e)
  PROVE  dsu_valid' => Current'
<1> DEFINE a == Root(parent, e[1])
           b == Root(parent, e[2])
           w == Winner(size, a, b)
           l == Loser(size, a, b)
           flat == Compress(Compress(parent, e[1]), e[2])
<1> SUFFICES ASSUME dsu_valid' PROVE Current'
  OBVIOUS
<1>1. /\ phase = "idle" /\ dsu_valid /\ ~spent /\ e \notin spanning_forest
      /\ edges' = SymDiff(edges, {e})
      /\ parent' = IF a # b THEN [flat EXCEPT ![l] = w] ELSE flat
      /\ spanning_forest' = IF a # b THEN spanning_forest \cup {e} ELSE spanning_forest
  BY Zenon DEF Update, MayCall, StaysValid
<1>2. spanning_forest \subseteq edges /\ \A f \in edges : Root(parent, f[1]) = Root(parent, f[2])
  BY <1>1 DEF CurrentInv, Current, Joined
<1>3. \A f \in edges \cup {e} : f[1] \in Nodes /\ f[2] \in Nodes
  BY EdgeEnds DEF Inv, TypeInv
<1>4. edges' \subseteq edges \cup {e} /\ (e \notin edges => e \in edges') /\ edges \ {e} \subseteq edges'
  BY <1>1 DEF SymDiff
<1>5. CASE a # b
  <2>1. spanning_forest \subseteq Pairs
    BY DEF Inv, TypeInv
  <2>2. JoinedForest(e, a, b, w, l, flat)
    BY <1>5, <2>1, JoinKeepsForest DEF Inv
  <2>3. parent' = [flat EXCEPT ![l] = w]
    BY <1>1, <1>5
  <2>a. e \notin edges
    BY <1>2, <1>5
  <2> HIDE DEF a, b, w, l, flat
  <2>4. /\ \A x \in Nodes : Root(parent', x) = IF Root(parent, x) = l THEN w ELSE Root(parent, x)
        /\ {l, w} = {a, b}
    BY Zenon, <2>2, <2>3 DEF JoinedForest
  <2>5. Root(parent', e[1]) = Root(parent', e[2])
    BY <1>3, <2>4 DEF a, b
  <2>6. \A f \in edges : Root(parent', f[1]) = Root(parent', f[2])
    BY <1>2, <1>3, <2>4
  <2>7. spanning_forest' \subseteq edges'
    BY Zenon, <1>1, <1>2, <1>4, <1>5, <2>a
  <2> QED BY <1>4, <2>5, <2>6, <2>7 DEF Current, Joined
<1>6. CASE a = b
  <2>1. parent' = flat /\ spanning_forest' = spanning_forest
    BY <1>1, <1>6
  <2>2. \A x \in Nodes : Root(flat, x) = Root(parent, x)
    BY Zenon, LookupKeepsForest DEF Inv
  <2> HIDE DEF flat
  <2>3. \A f \in edges \cup {e} : Root(parent', f[1]) = Root(parent', f[2])
    BY <1>2, <1>3, <1>6, <2>1, <2>2
  <2>4. spanning_forest' \subseteq edges'
    BY <1>1, <1>2, <1>4, <2>1
  <2> QED BY <1>4, <2>3, <2>4 DEF Current, Joined
<1> QED BY <1>5, <1>6

\* Every action keeps the DSU current while dsu_valid holds, and an answer is
\* given only from a current DSU.
LEMMA AnswerStep ==
  ASSUME ~PointResumes, Inv, CurrentInv, AnswerIsCorrect, [Next]_vars
  PROVE  CurrentInv' /\ AnswerIsCorrect'
<1>1. ASSUME NEW e \in Pairs, Update(e) PROVE CurrentInv' /\ AnswerIsCorrect'
  <2>1. phase' = "idle" /\ answer' = NoAnswer
    BY Zenon, <1>1 DEF Update, MayCall
  <2> QED BY Zenon, <1>1, <2>1, UpdateIsCurrent DEF CurrentInv, AnswerIsCorrect, NoAnswer
<1>2. ASSUME NEW c \in Calls, AnswerFromDSU(c) PROVE CurrentInv' /\ AnswerIsCorrect'
  <2>1. /\ phase' = "idle" /\ UNCHANGED <<edges, spanning_forest>>
        /\ Current
    BY <1>2 DEF AnswerFromDSU, MayCall, CurrentInv
  <2>r. Ranked(Nodes, parent, size)
    BY DEF Inv, ForestInv
  <2>2. CASE c.op = "cont"
    <3>1. parent' = [i \in Nodes |-> Root(parent, i)] /\ answer' = ComponentsAnswer(parent)
      BY Zenon, <1>2, <2>2 DEF AnswerFromDSU
    <3>2. Flattens(Nodes, parent, parent')
      BY <2>r, <3>1, FullFlattening
    <3> QED BY Zenon, <2>1, <3>1, <3>2, AnswerFromCurrent, FlattenedIsCurrent DEF CurrentInv
  <2>3. CASE c.op # "cont"
    <3>1. c.a \in Nodes /\ c.b \in Nodes
      <4>1. c.op # "final"
        BY Zenon, <1>2 DEF AnswerFromDSU
      <4> QED BY ONLY SMTT(30), <1>2, <2>3, <4>1 DEF Calls
    <3>2. parent' = Compress(Compress(parent, c.a), c.b) /\ answer' = PointAnswer(parent, c)
      BY Zenon, <1>2, <2>3 DEF AnswerFromDSU
    <3>3. Flattens(Nodes, parent, parent')
      BY Zenon, <2>r, <3>1, <3>2, CompressTwice
    <3> QED BY Zenon, <2>1, <3>1, <3>2, <3>3, AnswerFromCurrent, FlattenedIsCurrent DEF CurrentInv
  <2> QED BY <2>2, <2>3
<1>3. ASSUME NEW c \in Calls, StartBoruvka(c) PROVE CurrentInv' /\ AnswerIsCorrect'
  BY Zenon, <1>3 DEF StartBoruvka, CurrentInv, AnswerIsCorrect, NoAnswer
<1>4. CASE SampleSupernodes
  <2>1. phase' \in {"scan", "throw"} /\ edges' = edges
        /\ (answer' = answer \/ answer'.kind = "exception")
    BY <1>4 DEF SampleSupernodes, Throw
  <2> QED BY <2>1 DEF CurrentInv, AnswerIsCorrect
<1>5. CASE ScanRep \/ ScanEnd \/ MergeSupernodes
  <2>1. phase' \in {"scan", "merge", "sample", "done"} /\ edges' = edges /\ answer' = answer
    BY Zenon, <1>5 DEF ScanRep, ScanEnd, MergeSupernodes
  <2> QED BY <2>1 DEF CurrentInv, AnswerIsCorrect
<1>6. CASE BoruvkaReturns
  <2>1. /\ phase = "done" /\ UNCHANGED <<edges, spanning_forest>>
        /\ parent' = [i \in Nodes |-> Root(parent, i)]
        /\ answer' = IF call.op = "point" THEN PointAnswer(parent, call) ELSE ComponentsAnswer(parent)
        /\ spent' = ~MakeCopy /\ phase' = AfterBoruvka
    BY <1>6 DEF BoruvkaReturns
  <2>2. Current
    BY Zenon, <2>1 DEF Inv, RoundInv, RestoreInv, InQuery, Current
  <2>r. Ranked(Nodes, parent, size)
    BY DEF Inv, ForestInv
  <2>3. Flattens(Nodes, parent, parent')
    BY <2>1, <2>r, FullFlattening
  <2>4. Current'
    BY <2>1, <2>2, <2>3, FlattenedIsCurrent
  <2>5. call \in Calls
    BY Zenon, <2>1 DEF Inv, CallInv, InQuery
  <2>6. call.op = "point" => call.a \in Nodes /\ call.b \in Nodes
    BY <2>5 DEF Calls
  <2>7. AnswerIsCorrect'
    BY Zenon, <2>1, <2>2, <2>6, AnswerFromCurrent
  <2> QED BY <2>4, <2>7 DEF CurrentInv
<1>7. CASE BoruvkaThrows
  <2>1. /\ phase = "throw" /\ UNCHANGED <<edges, dsu_valid, answer>>
        /\ spent' = ~MakeCopy /\ phase' = AfterBoruvka
    BY <1>7 DEF BoruvkaThrows, dsuVars
  <2>2. MakeCopy => ~dsu_valid
    BY <2>1 DEF Inv, CallInv, InQuery
  <2> QED BY Zenon, <2>1, <2>2 DEF AfterBoruvka, CurrentInv, AnswerIsCorrect
<1>8. CASE Resume
  <2>1. /\ phase = "resume" /\ phase' = "idle" /\ spent' = (call.op = "point" /\ ~PointResumes)
        /\ UNCHANGED <<edges, dsu_valid, spanning_forest, answer>>
        /\ call.op # "point" => UNCHANGED parent
    BY <1>8 DEF Resume
  <2>2. ~spent' => call.op # "point"
    BY Zenon, <2>1
  <2> QED BY <2>1, <2>2 DEF CurrentInv, Current, Joined, AnswerIsCorrect
<1>9. CASE WriteBinary \/ UNCHANGED vars
  <2>1. CASE WriteBinary
    BY Zenon, <2>1 DEF WriteBinary, dsuVars, CurrentInv, Current, Joined, AnswerIsCorrect, NoAnswer
  <2>2. CASE UNCHANGED vars
    BY Zenon, <2>2 DEF vars, dsuVars, CurrentInv, Current, Joined, AnswerIsCorrect
  <2> QED BY <1>9, <2>1, <2>2
<1>10. CASE ConstructEmpty \/ ConstructFromFile
  <2>1. CASE ConstructEmpty
    BY Zenon, <2>1 DEF ConstructEmpty, NewGraph, CurrentInv, Current, Joined, AnswerIsCorrect, NoAnswer
  <2>2. CASE ConstructFromFile
    BY Zenon, <2>2 DEF ConstructFromFile, NewGraph, CurrentInv, AnswerIsCorrect, NoAnswer
  <2> QED BY <1>10, <2>1, <2>2
<1> QED BY <1>1, <1>2, <1>3, <1>4, <1>5, <1>6, <1>7, <1>8, <1>9, <1>10 DEF Next, Query

\* For a client that ends with its first point_query that runs Boruvka, a
\* valid DSU is current in every state and every answer is correct.
LEMMA AnswerInvariant ==
  ASSUME ~PointResumes
  PROVE  Spec => [](CurrentInv /\ AnswerIsCorrect)
<1>1. Init => CurrentInv /\ AnswerIsCorrect
  <2> SUFFICES ASSUME Init PROVE CurrentInv /\ AnswerIsCorrect
    OBVIOUS
  <2>1. edges = {} /\ spanning_forest = {} /\ answer = NoAnswer
    BY Zenon DEF Init
  <2>2. Current
    BY Zenon, <2>1 DEF Current, Joined
  <2>3. AnswerIsCorrect
    BY <2>1 DEF AnswerIsCorrect, NoAnswer
  <2> QED BY Zenon, <2>2, <2>3 DEF CurrentInv
<1>2. Inv /\ (CurrentInv /\ AnswerIsCorrect) /\ [Next]_vars => (CurrentInv /\ AnswerIsCorrect)'
  BY AnswerStep
<1> QED BY <1>1, <1>2, GraphInvariant, PTL DEF Spec

\* Every query that returns gives the connected components of the graph the
\* client built, whether the DSU or the sketches answered it.
THEOREM AnswersAreCorrect ==
  ASSUME ~PointResumes
  PROVE  Spec => []AnswerIsCorrect
BY AnswerInvariant, PTL

\* Whenever dsu_valid lets a query use the DSU, the DSU is exact and
\* spanning_forest spans it.
THEOREM ValidDSUIsExact ==
  ASSUME ~PointResumes
  PROVE  Spec => []DSUIsCurrent
<1>1. Inv /\ CurrentInv => DSUIsCurrent
  BY CurrentIsExact DEF CurrentInv, DSUIsCurrent, Current
<1> QED BY <1>1, AnswerInvariant, GraphInvariant, PTL
=============================================================================
