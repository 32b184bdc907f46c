-------------------------- MODULE GraphRoundProofs --------------------------
(***************************************************************************)
(* The rounds of boruvka_emulation keep the inductive invariant of Graph,  *)
(* for any number of nodes and of sketches and any set of edges: first the *)
(* invariant, then one lemma for every action of a round: sample_supernodes,*)
(* supernodes_to_merge (a representative of its loop, and its end) and     *)
(* merge_supernodes.                                                       *)
(***************************************************************************)
EXTENDS GraphLemmas

-----------------------------------------------------------------------------
(***************************************************************************)
(* The inductive invariant.                                                *)
(***************************************************************************)
Phases == {"idle", "sample", "scan", "merge", "done", "throw", "resume", "exit"}

InQuery == phase \in {"sample", "scan", "merge", "done", "throw"}

TypeInv ==
  /\ edges \subseteq Pairs /\ spanning_forest \subseteq Pairs
  /\ supernodes \in [Nodes -> SupernodeState] /\ copies \in [Nodes -> SupernodeState]
  /\ dsu_valid \in BOOLEAN /\ update_locked \in BOOLEAN /\ paused \in BOOLEAN
  /\ modified \in BOOLEAN /\ first_round \in BOOLEAN /\ failed \in BOOLEAN
  /\ disk \in BOOLEAN /\ spent \in BOOLEAN
  /\ phase \in Phases /\ call \in Calls \cup {NoCall}
  /\ query \in [Nodes -> [ret : {"GOOD", "ZERO", "FAIL"}, edge : Pairs \cup {<<0, 0>>}]]
  /\ to_merge \in [Nodes -> Seq(Nodes)]
  /\ backed_up \subseteq Nodes

\* No representative is listed twice, nor is one that is still to be looked at
\* among those that failed.
RepsInv ==
  /\ reps \in Seq(Nodes) /\ Inj(reps)
  /\ todo \in Seq(Nodes) /\ Inj(todo)
  /\ new_reps \in Seq(Nodes) /\ Inj(new_reps)
  /\ Range(todo) \cap Range(new_reps) = {}

\* The DSU is a forest ranked by its sizes, and the spanning forest justifies
\* every link.
ForestInv ==
  /\ Ranked(Nodes, parent, size)
  /\ Sized(Nodes, parent, size)
  /\ LinksInside(Nodes, parent, spanning_forest)

CallInv ==
  /\ phase # "idle" => ~spent /\ update_locked
  /\ phase = "idle" /\ ~spent => ~update_locked
  /\ InQuery => call \in Calls /\ (MakeCopy => ~dsu_valid)
  /\ phase = "resume" => call \in Calls /\ MakeCopy
  /\ ~InQuery => ~failed
  /\ phase \notin {"scan", "merge"} => \A i \in Nodes : to_merge[i] = <<>>

\* The sketches of node i hold the edges of node i.
Own(E, i) == [j \in SketchIdx |-> Cut(E, {i})]

RestoreInv ==
  /\ phase = "idle" /\ ~update_locked =>
       \A i \in Nodes : supernodes[i] = Fresh(Own(edges, i))
  /\ phase = "resume" => \A i \in Nodes : supernodes[i].sk = Own(edges, i)
  /\ InQuery /\ MakeCopy =>
       /\ \A i \in Nodes : i \in backed_up => copies[i].sk = Own(edges, i)
       /\ \A i \in Nodes : i \notin backed_up => supernodes[i].sk = Own(edges, i)
       /\ IF first_round THEN backed_up = {} ELSE Range(reps) \subseteq backed_up
  /\ InQuery => /\ spanning_forest \subseteq edges
                /\ \A i \in Nodes : \A j \in SketchIdx : supernodes[i].sk[j] \subseteq edges
  /\ file.saved =>
       /\ file.of \subseteq Pairs
       /\ \A i \in Nodes : file.supernodes[i] = Fresh(Own(file.of, i))
       /\ file.supernodes \in [Nodes -> SupernodeState]

\* The start of a round in which c sketches are used up.
AtSample(c) ==
  /\ \A i \in Range(reps) : supernodes[i].sample_idx = c
  /\ first_round => c = 0
  /\ \A r \in Nodes : parent[r] = r =>
       IF r \in Range(reps)
       THEN \A j \in SketchIdx : j >= c => supernodes[r].sk[j] = Cut(edges, Tree(r))
       ELSE Cut(edges, Tree(r)) = {}
  /\ ~failed => \A i \in Range(reps) : parent[i] = i /\ size[i] >= 2^c

\* The round of a forest r0: r0[x] was the root of x when the round started,
\* and every tree has the list of the roots it took in.
StartTree(r0, r) == {x \in Nodes : r0[x] = r}

Taken(r0, w) == {r \in Nodes : r0[r] = r /\ r # w /\ Root(parent, r) = w}

InRound(r0) ==
  /\ r0 \in [Nodes -> Nodes]
  /\ \A x \in Nodes : r0[r0[x]] = r0[x]
  /\ \A x \in Nodes : Root(parent, r0[x]) = Root(parent, x)
  /\ \A x \in Nodes : r0[Root(parent, x)] = Root(parent, x)
  /\ \A w \in Nodes : Inj(to_merge[w])
  /\ \A w \in Nodes : parent[w] = w => Range(to_merge[w]) = Taken(r0, w)
  /\ \A w \in Nodes : parent[w] # w => to_merge[w] = <<>>

\* A sample of representative i is an edge, and one that leaves its tree if i
\* is a root.
SampleInv(r0, i) ==
  /\ query[i].ret = "GOOD" => query[i].edge \in edges
  /\ r0[i] = i /\ query[i].ret = "GOOD" => query[i].edge \in Cut(edges, StartTree(r0, i))
  /\ r0[i] = i /\ query[i].ret = "ZERO" => Cut(edges, StartTree(r0, i)) = {}

\* Only representatives are looked at, kept or merged, and a round that changed
\* nothing has nothing to merge.
ScanLists ==
  /\ Range(todo) \subseteq Range(reps) /\ Range(new_reps) \subseteq Range(reps)
  /\ \A w \in Nodes : to_merge[w] # <<>> =>
       w \in Range(reps) /\ Range(to_merge[w]) \subseteq Range(reps)
  /\ ~modified => new_reps = <<>> /\ \A w \in Nodes : to_merge[w] = <<>>

\* The sketches not used up hold the edges that left a tree at the start.
ScanCuts(c, r0) ==
  /\ \A i \in Range(reps) : supernodes[i].sample_idx = c
  /\ \A r \in Nodes : r0[r] = r =>
       IF r \in Range(reps)
       THEN \A j \in SketchIdx : j >= c => supernodes[r].sk[j] = Cut(edges, StartTree(r0, r))
       ELSE Cut(edges, StartTree(r0, r)) = {}

\* A representative that was looked at was kept, or its ends have one root.
ScanSamples(r0) ==
  /\ \A i \in Range(reps) : SampleInv(r0, i)
  /\ \A i \in Range(reps) \ Range(todo) :
       /\ query[i].ret = "FAIL" => i \in Range(new_reps)
       /\ query[i].ret = "GOOD" =>
            Root(parent, query[i].edge[1]) = Root(parent, query[i].edge[2])

\* Without failures every tree that is merged with another doubles.
ScanSizes(c) ==
  ~failed =>
    /\ new_reps = <<>>
    /\ \A i \in Range(reps) : query[i].ret # "FAIL"
    /\ \A w \in Range(reps) : parent[w] = w =>
         2 * size[w] >= 2^c /\ (to_merge[w] # <<>> => size[w] >= 2^c)

AtScan(c, r0) == InRound(r0) /\ ScanLists /\ ScanCuts(c, r0) /\ ScanSamples(r0) /\ ScanSizes(c)

AtMerge(c, r0) ==
  /\ InRound(r0)
  /\ \A i \in Range(reps) : supernodes[i].sample_idx = c
  /\ \A w \in Nodes : parent[w] = w =>
       IF w \in Range(reps)
       THEN \A r \in {w} \cup Range(to_merge[w]) :
              /\ supernodes[r].sample_idx = c
              /\ \A j \in SketchIdx : j >= c =>
                   supernodes[r].sk[j] = Cut(edges, StartTree(r0, r))
       ELSE Cut(edges, Tree(w)) = {}
  /\ ~modified => reps = <<>>
  /\ ~failed => \A i \in Range(reps) : parent[i] = i /\ size[i] >= 2^c

Joined == \A e \in edges : Root(parent, e[1]) = Root(parent, e[2])

RoundInv ==
  /\ phase = "sample" => \E c \in Nat : AtSample(c)
  /\ phase = "scan" => \E c \in Nat : \E r0 \in [Nodes -> Nodes] : AtScan(c, r0)
  /\ phase = "merge" => \E c \in Nat : \E r0 \in [Nodes -> Nodes] : AtMerge(c, r0)
  /\ phase = "done" => Joined

Inv == TypeInv /\ RepsInv /\ ForestInv /\ CallInv /\ RestoreInv /\ RoundInv

-----------------------------------------------------------------------------
(***************************************************************************)
(* Joining the ends of an edge.                                            *)
(***************************************************************************)
JoinedForest(e, a, b, w, l, flat) ==
  /\ Ranked(Nodes, [flat EXCEPT ![l] = w], [size EXCEPT ![w] = @ + size[l]])
  /\ Sized(Nodes, [flat EXCEPT ![l] = w], [size EXCEPT ![w] = @ + size[l]])
  /\ LinksInside(Nodes, [flat EXCEPT ![l] = w], spanning_forest \cup {e})
  /\ \A x \in Nodes : Root([flat EXCEPT ![l] = w], x) =
       IF Root(parent, x) = l THEN w ELSE Root(parent, x)
  /\ l \in Nodes /\ w \in Nodes /\ l # w /\ {l, w} = {a, b}
  /\ parent[l] = l /\ parent[w] = w
  /\ \A x \in Nodes : [flat EXCEPT ![l] = w][x] = x <=> parent[x] = x /\ x # l

\* The ends have different roots.
LEMMA JoinKeepsForest ==
  ASSUME ForestInv, spanning_forest \subseteq Pairs, NEW e \in Pairs, NEW a, NEW b, NEW w, NEW l, NEW flat,
         a = Root(parent, e[1]), b = Root(parent, e[2]), a # b,
         w = Winner(size, a, b), l = Loser(size, a, b),
         flat = Compress(Compress(parent, e[1]), e[2])
  PROVE  JoinedForest(e, a, b, w, l, flat)
<1>1. e[1] \in Nodes /\ e[2] \in Nodes
  BY EdgeEnds
<1>2. a \in Nodes /\ b \in Nodes /\ parent[a] = a /\ parent[b] = b
  BY <1>1, RootIsRoot DEF ForestInv
<1>3. {l, w} = {a, b} /\ l # w /\ size[l] <= size[w]
  BY <1>2, WinnerAndLoser DEF ForestInv
<1>4. l \in Nodes /\ w \in Nodes /\ parent[l] = l /\ parent[w] = w
  BY <1>2, <1>3
<1>5. Flattens(Nodes, parent, flat)
  BY <1>1, CompressTwice DEF ForestInv
<1>6. /\ Ranked(Nodes, flat, size)
      /\ \A x \in Nodes : Root(flat, x) = Root(parent, x)
      /\ \A x \in Nodes : flat[x] = x <=> parent[x] = x
  BY <1>5, FlatteningKeepsRoots DEF ForestInv
<1>7. Sized(Nodes, flat, size)
  BY <1>5, FlatteningKeepsSizes DEF ForestInv
<1>8. LinksInside(Nodes, flat, spanning_forest)
  BY <1>5, FlatteningStaysInside DEF ForestInv
<1>9. flat[l] = l /\ flat[w] = w
  BY <1>4, <1>6
<1>10. /\ Ranked(Nodes, Linked(flat, l, w), Grown(size, l, w))
       /\ \A x \in Nodes : Root(Linked(flat, l, w), x) = IF Root(flat, x) = l THEN w ELSE Root(flat, x)
       /\ Sized(Nodes, Linked(flat, l, w), Grown(size, l, w))
  BY SMTT(30), <1>3, <1>4, <1>6, <1>7, <1>9, UnionJoinsTrees
<1>11. \A f \in spanning_forest : f[1] \in Nodes /\ f[2] \in Nodes
  BY EdgeEnds
<1>12. {l, w} = {Root(flat, e[1]), Root(flat, e[2])}
  BY <1>1, <1>3, <1>6
<1>13. LinksInside(Nodes, Linked(flat, l, w), spanning_forest \cup {e})
  BY <1>1, <1>4, <1>6, <1>8, <1>11, <1>12, UnionStaysInside
<1>14. flat \in [Nodes -> Nodes]
  BY <1>6 DEF Ranked
<1>15. \A x \in Nodes : Linked(flat, l, w)[x] = x <=> parent[x] = x /\ x # l
  BY <1>3, <1>4, <1>6, <1>14 DEF Linked
<1> QED BY SMTT(30), <1>3, <1>4, <1>6, <1>10, <1>13, <1>15 DEF Linked, Grown, JoinedForest

\* The ends have one root.
LEMMA LookupKeepsForest ==
  ASSUME ForestInv, NEW e \in Pairs, NEW flat, flat = Compress(Compress(parent, e[1]), e[2])
  PROVE  /\ Ranked(Nodes, flat, size) /\ Sized(Nodes, flat, size)
         /\ LinksInside(Nodes, flat, spanning_forest)
         /\ \A x \in Nodes : Root(flat, x) = Root(parent, x)
         /\ \A x \in Nodes : flat[x] = x <=> parent[x] = x
<1>1. e[1] \in Nodes /\ e[2] \in Nodes
  BY EdgeEnds
<1>2. Flattens(Nodes, parent, flat)
  BY <1>1, CompressTwice DEF ForestInv
<1> QED BY <1>2, FlatteningKeepsRoots, FlatteningKeepsSizes, FlatteningStaysInside DEF ForestInv

-----------------------------------------------------------------------------
(***************************************************************************)
(* sample_supernodes.                                                      *)
(***************************************************************************)
\* What sample_supernodes does: no sketch was queried before, so every
\* representative is sampled that has a sketch left.
LEMMA SampleStep ==
  ASSUME Inv, SampleSupernodes
  PROVE  LET out == {i \in Range(reps) : OutOfQueries(supernodes[i])}
         IN  /\ supernodes' = [i \in Nodes |-> IF i \in Range(reps) \ out THEN Sampled(supernodes[i])
                                               ELSE supernodes[i]]
             /\ supernodes' \in [Nodes -> SupernodeState]
             /\ \A i \in Nodes : supernodes'[i].sk = supernodes[i].sk
             /\ \A i \in Range(reps) \ out :
                  supernodes[i].sample_idx \in SketchIdx /\ 
                  supernodes'[i].sample_idx = supernodes[i].sample_idx + 1
             /\ \/ /\ out = {} /\ phase' = "scan" /\ todo' = reps /\ new_reps' = <<>>
                   /\ answer' = answer
                   /\ query' \in [Nodes -> [ret : {"GOOD", "ZERO", "FAIL"}, edge : Pairs \cup {<<0, 0>>}]]
                   /\ \A i \in Range(reps) :
                        query'[i] \in QueryResults(supernodes[i].sk[supernodes[i].sample_idx])
                   /\ failed' = (failed \/ \E i \in Range(reps) : query'[i].ret = "FAIL")
                \/ /\ out # {} /\ Throw("OutOfQueries")
                   /\ UNCHANGED <<query, todo, new_reps, failed>>
<1> DEFINE R == Range(reps)
           out == {i \in R : OutOfQueries(supernodes[i])}
           twice == {i \in R \ out : supernodes[i].queried[supernodes[i].sample_idx]}
           good == R \ (out \cup twice)
           next(i) == supernodes[i].sk[supernodes[i].sample_idx]
<1>1. R \subseteq Nodes
  BY SeqElements DEF Inv, RepsInv, Range
<1>2. \A i \in R \ out : /\ Sampled(supernodes[i]) \in SupernodeState
                         /\ Sampled(supernodes[i]).sk = supernodes[i].sk
                         /\ Sampled(supernodes[i]).sample_idx = supernodes[i].sample_idx + 1
                         /\ supernodes[i].sample_idx \in SketchIdx
                         /\ ~supernodes[i].queried[supernodes[i].sample_idx]
  BY <1>1, SampledState DEF Inv, TypeInv
<1>3. twice = {} /\ good = R \ out
  BY <1>2
<1>4. /\ supernodes' = [i \in Nodes |->
             IF i \in good THEN Sampled(supernodes[i])
             ELSE IF i \in twice THEN [supernodes[i] EXCEPT !.sample_idx = @ + 1]
             ELSE supernodes[i]]
      /\ IF good = R
         THEN /\ query' \in {q \in [Nodes -> {NoSample} \cup UNION {QueryResults(next(i)) : i \in R}] :
                               \A i \in Nodes : IF i \in R THEN q[i] \in QueryResults(next(i))
                                                ELSE q[i] = NoSample}
              /\ failed' = (failed \/ \E i \in R : query'[i].ret = "FAIL")
              /\ phase' = "scan" /\ todo' = reps /\ new_reps' = <<>>
              /\ UNCHANGED answer
         ELSE /\ \E what \in {"OutOfQueries" : i \in out} \cup {"MultipleQuery" : i \in twice} :
                   Throw(what)
              /\ UNCHANGED <<query, todo, new_reps, failed>>
  BY DEF SampleSupernodes
<1> HIDE DEF R, out, twice, good, next
<1>5. supernodes' = [i \in Nodes |-> IF i \in R \ out THEN Sampled(supernodes[i]) ELSE supernodes[i]]
  BY <1>3, <1>4
<1>6. supernodes' \in [Nodes -> SupernodeState] /\ \A i \in Nodes : supernodes'[i].sk = supernodes[i].sk
  BY <1>2, <1>5 DEF Inv, TypeInv
<1>7. \A i \in R \ out : /\ supernodes[i].sample_idx \in SketchIdx
                         /\ supernodes'[i].sample_idx = supernodes[i].sample_idx + 1
  BY <1>1, <1>2, <1>5
<1>8. CASE out = {}
  <2>1. good = R
    BY <1>3, <1>8
  <2>2. /\ query' \in [Nodes -> {NoSample} \cup UNION {QueryResults(next(i)) : i \in R}]
        /\ \A i \in Nodes : IF i \in R THEN query'[i] \in QueryResults(next(i))
                            ELSE query'[i] = NoSample
    BY <1>4, <2>1
  <2>3. \A i \in R : next(i) \in SUBSET Pairs
    BY <1>1, <1>2, <1>8 DEF next, Inv, TypeInv, SupernodeState, SupernodeType
  <2>4. NoSample \in [ret : {"GOOD", "ZERO", "FAIL"}, edge : Pairs \cup {<<0, 0>>}]
    BY DEF NoSample
  <2>5. \A i \in Nodes : query'[i] \in [ret : {"GOOD", "ZERO", "FAIL"}, edge : Pairs \cup {<<0, 0>>}]
    BY <2>2, <2>3, <2>4, QueryResultIs
  <2>6. query' \in [Nodes -> [ret : {"GOOD", "ZERO", "FAIL"}, edge : Pairs \cup {<<0, 0>>}]]
    BY <2>2, <2>5
  <2>7. \A i \in R : query'[i] \in QueryResults(supernodes[i].sk[supernodes[i].sample_idx])
    BY <1>1, <2>2 DEF next
  <2> QED BY Zenon, <1>4, <1>5, <1>6, <1>7, <1>8, <2>1, <2>6, <2>7 DEF R, out
<1>9. CASE out # {}
  <2>1. good # R
    BY <1>3, <1>9 DEF out
  <2>2. Throw("OutOfQueries") /\ UNCHANGED <<query, todo, new_reps, failed>>
    BY <1>3, <1>4, <2>1
  <2> QED BY Zenon, <1>5, <1>6, <1>7, <1>9, <2>2 DEF R, out
<1> QED BY <1>8, <1>9

\* sample_supernodes.
LEMMA SampleSupernodesInv ==
  ASSUME Inv, SampleSupernodes
  PROVE  Inv'
<1> DEFINE R == Range(reps)
           out == {i \in Range(reps) : OutOfQueries(supernodes[i])}
           scans == /\ out = {} /\ phase' = "scan" /\ todo' = reps /\ new_reps' = <<>>
                    /\ answer' = answer
                    /\ query' \in [Nodes -> [ret : {"GOOD", "ZERO", "FAIL"}, edge : Pairs \cup {<<0, 0>>}]]
                    /\ \A i \in Range(reps) :
                         query'[i] \in QueryResults(supernodes[i].sk[supernodes[i].sample_idx])
                    /\ failed' = (failed \/ \E i \in Range(reps) : query'[i].ret = "FAIL")
           throws == /\ out # {} /\ Throw("OutOfQueries")
                     /\ UNCHANGED <<query, todo, new_reps, failed>>
<1>0. /\ supernodes' \in [Nodes -> SupernodeState]
      /\ \A i \in Nodes : supernodes'[i].sk = supernodes[i].sk
      /\ \A i \in R \ out : /\ supernodes[i].sample_idx \in SketchIdx
                            /\ supernodes'[i].sample_idx = supernodes[i].sample_idx + 1
      /\ scans \/ throws
  BY SampleStep
<1>u. /\ phase = "sample" /\ modified' = FALSE
      /\ UNCHANGED <<edges, dsuVars, update_locked, paused, call, reps, to_merge,
                     first_round, backed_up, copies, disk, file, spent>>
  BY DEF SampleSupernodes
<1>p. phase' \in {"scan", "throw"} /\ (phase' = "scan" <=> scans)
  BY <1>0 DEF Throw
<1> HIDE DEF scans, throws, out
<1>r. R \subseteq Nodes
  BY SeqElements DEF Inv, RepsInv, Range
<1>e. <<>> \in Seq(Nodes) /\ Inj(<<>>) /\ Range(<<>>) = {}
  BY SeqEmpty DEF Inj, Range
<1>1. TypeInv'
  <2>1. query' \in [Nodes -> [ret : {"GOOD", "ZERO", "FAIL"}, edge : Pairs \cup {<<0, 0>>}]]
    BY <1>0 DEF scans, throws, Inv, TypeInv
  <2>2. failed' \in BOOLEAN
    BY Zenon, <1>0 DEF scans, throws, Inv, TypeInv
  <2>3. phase' \in Phases /\ modified' \in BOOLEAN
    BY Zenon, <1>p, <1>u DEF Phases
  <2> QED BY <1>0, <1>u, <2>1, <2>2, <2>3 DEF Inv, TypeInv, dsuVars
<1>2. RepsInv'
  <2>1. CASE scans
    BY Zenon, <1>e, <1>u, <2>1 DEF scans, Inv, RepsInv
  <2>2. CASE throws
    BY <1>u, <2>2 DEF throws, Inv, RepsInv
  <2> QED BY <1>0, <2>1, <2>2
<1>3. ForestInv'
  BY <1>u DEF Inv, ForestInv, dsuVars
<1>4. CallInv'
  <2>1. InQuery /\ InQuery'
    BY <1>p, <1>u DEF InQuery
  <2> QED BY <1>p, <1>u, <2>1 DEF Inv, CallInv, MakeCopy, dsuVars
<1>5. RestoreInv'
  <2>1. InQuery /\ InQuery' /\ phase' \notin {"idle", "resume"} /\ (MakeCopy' <=> MakeCopy)
    BY <1>p, <1>u DEF InQuery, MakeCopy
  <2> QED BY Zenon, <1>0, <1>u, <2>1 DEF Inv, RestoreInv, dsuVars
<1>6. RoundInv'
  <2> SUFFICES ASSUME scans PROVE \E c \in Nat : \E r0 \in [Nodes -> Nodes] : AtScan(c, r0)'
    BY <1>p DEF RoundInv
  <2>1. PICK c \in Nat : AtSample(c)
    BY <1>u DEF Inv, RoundInv
  <2> DEFINE r0 == [x \in Nodes |-> Root(parent, x)]
  <2>2. PICK q \in [Nodes -> Nodes] : q = r0
    BY Zenon, RootIsRoot DEF Inv, ForestInv
  <2> HIDE DEF r0
  <2>3. \A x \in Nodes : q[x] = Root(parent, x) /\ q[x] \in Nodes /\ parent[q[x]] = q[x]
    BY <2>2, RootIsRoot DEF r0, Inv, ForestInv
  <2>4. \A x \in Nodes : parent[x] = x <=> q[x] = x
    BY <2>3, RootOfRoot DEF Inv, ForestInv, Ranked
  <2>5. \A r \in Nodes : StartTree(q, r) = Tree(r)
    BY <2>3 DEF StartTree, Tree
  <2>6. /\ parent' = parent /\ size' = size /\ to_merge' = to_merge /\ reps' = reps /\ edges' = edges
        /\ todo' = reps /\ new_reps' = <<>> /\ \A w \in Nodes : to_merge[w] = <<>>
    BY <1>u DEF scans, dsuVars, Inv, CallInv
  <2>7. InRound(q)'
    <3>1. \A x \in Nodes : q[q[x]] = q[x] /\ Root(parent, q[x]) = q[x]
      BY <2>3, <2>4
    <3>2. \A w \in Nodes : Taken(q, w)' = {}
      BY <2>3, <2>6 DEF Taken
    <3>3. \A w \in Nodes : to_merge'[w] = <<>>
      BY <2>6
    <3> QED BY Zenon, <1>e, <2>3, <2>6, <3>1, <3>2, <3>3 DEF InRound
  <2>8. \A i \in R : supernodes[i].sample_idx = c /\ supernodes'[i].sample_idx = c + 1 /\ c \in SketchIdx
    <3>1. out = {} /\ \A i \in R : supernodes[i].sample_idx = c
      BY Zenon, <2>1 DEF AtSample, scans
    <3> QED BY Zenon, <1>0, <3>1
  <2>9. \A r \in Nodes : q[r] = r =>
          IF r \in R
          THEN \A j \in SketchIdx : j >= c + 1 => supernodes'[r].sk[j] = Cut(edges, StartTree(q, r))
          ELSE Cut(edges, StartTree(q, r)) = {}
    <3>1. \A j \in SketchIdx : j >= c + 1 => j >= c
      BY DEF SketchIdx
    <3> QED BY <1>0, <2>1, <2>4, <2>5, <3>1 DEF AtSample
  <2>10. ASSUME NEW i \in R PROVE SampleInv(q, i)'
    <3>1. i \in Nodes /\ c \in SketchIdx
      BY <1>r, <2>8
    <3>2. query'[i] \in QueryResults(supernodes[i].sk[c])
      BY <2>8 DEF scans
    <3>3. supernodes[i].sk[c] \in SUBSET Pairs /\ supernodes[i].sk[c] \subseteq edges
      BY Zenon, <1>u, <3>1 DEF Inv, TypeInv, RestoreInv, InQuery, SupernodeState, SupernodeType
    <3>4. /\ query'[i].ret = "GOOD" => query'[i].edge \in supernodes[i].sk[c]
          /\ query'[i].ret = "ZERO" => supernodes[i].sk[c] = {}
      BY <3>2, <3>3, QueryResultIs
    <3>5. q[i] = i => supernodes[i].sk[c] = Cut(edges, StartTree(q, i))
      BY <2>1, <2>4, <2>5, <3>1 DEF AtSample, SketchIdx
    <3>6. StartTree(q, i)' = StartTree(q, i)
      BY DEF StartTree
    <3> QED BY Zenon, <2>6, <3>3, <3>4, <3>5, <3>6 DEF SampleInv
  <2>11. ~failed' =>
           /\ \A i \in R : query'[i].ret # "FAIL"
           /\ \A w \in R : parent[w] = w => 2 * size[w] >= 2^(c + 1)
    <3>1. ASSUME ~failed', NEW w \in R PROVE 2 * size[w] >= 2^(c + 1)
      <4>1. ~failed
        BY Zenon, <3>1 DEF scans
      <4>2. size[w] >= 2^c
        BY <2>1, <4>1 DEF AtSample
      <4>3. 2^c \in Nat /\ 2^(c + 1) = 2 * 2^c
        BY Doubling
      <4>4. size[w] \in Nat
        BY <1>r, NodesFinite DEF Inv, ForestInv, Ranked
      <4> HIDE DEF R
      <4> QED BY <4>2, <4>3, <4>4
    <3>2. ASSUME ~failed' PROVE \A i \in R : query'[i].ret # "FAIL"
      BY Zenon, <3>2 DEF scans
    <3> QED BY <3>1, <3>2
  <2>12. AtScan(c + 1, q)'
    <3>1. \A r : StartTree(q, r)' = StartTree(q, r)
      BY DEF StartTree
    <3>2. ScanLists'
      BY <1>e, <2>6 DEF ScanLists
    <3>3. ScanCuts(c + 1, q)'
      BY <2>6, <2>8, <2>9, <3>1 DEF ScanCuts
    <3>4. ScanSamples(q)'
      BY <2>6, <2>10 DEF ScanSamples
    <3>5. ScanSizes(c + 1)'
      BY <1>r, <2>6, <2>11 DEF ScanSizes
    <3> QED BY <2>7, <3>2, <3>3, <3>4, <3>5 DEF AtScan
  <2>13. c + 1 \in Nat
    OBVIOUS
  <2> QED BY <2>12, <2>13
<1> QED BY <1>1, <1>2, <1>3, <1>4, <1>5, <1>6 DEF Inv

-----------------------------------------------------------------------------
(***************************************************************************)
(* supernodes_to_merge, one representative.                                *)
(***************************************************************************)
\* The tree at an end of an edge between two trees is a representative's.
LEMMA CrossedRootIsRep ==
  ASSUME Inv, NEW c, NEW r0, AtScan(c, r0), NEW e \in edges, NEW x \in Nodes, NEW y \in Nodes,
         {x, y} = {e[1], e[2]}, Root(parent, x) # Root(parent, y)
  PROVE  Root(parent, x) \in Range(reps)
<1> DEFINE a == Root(parent, x)
<1>1. InRound(r0) /\ ScanLists /\ ScanCuts(c, r0)
  BY DEF AtScan
<1>2. a \in Nodes /\ parent[a] = a /\ Root(parent, a) = a /\ r0[a] = a
  <2>1. a \in Nodes /\ parent[a] = a
    BY RootIsRoot DEF Inv, ForestInv
  <2>2. IsFiniteSet(Nodes) /\ parent \in [Nodes -> Nodes]
    BY DEF Inv, ForestInv, Ranked
  <2>3. Root(parent, a) = a
    BY <2>1, <2>2, RootOfRoot
  <2> QED BY Zenon, <1>1, <2>1, <2>3 DEF InRound
<1>3. CASE to_merge[a] # <<>>
  BY <1>1, <1>2, <1>3 DEF ScanLists
<1>4. CASE to_merge[a] = <<>>
  <2>1. Taken(r0, a) = {}
    <3>1. Range(to_merge[a]) = Taken(r0, a)
      BY Zenon, <1>1, <1>2 DEF InRound
    <3>2. Range(<<>>) = {}
      BY ONLY SeqEmpty DEF Range
    <3> QED BY ONLY Zenon, <1>4, <3>1, <3>2
  <2>2. r0[x] \in Nodes /\ r0[r0[x]] = r0[x] /\ Root(parent, r0[x]) = a
    BY Zenon, <1>1 DEF InRound
  <2>3. r0[x] = a
    BY <2>1, <2>2 DEF Taken
  <2>4. r0[y] # a
    BY Zenon, <1>1, <1>2 DEF InRound
  <2>5. e \in Cut(edges, StartTree(r0, a))
    BY <2>3, <2>4 DEF Cut, StartTree
  <2> QED BY Zenon, <1>1, <1>2, <2>5 DEF ScanCuts
<1> QED BY <1>3, <1>4

\* Linking two trees in the scan appends exactly the start trees of the loser.
LEMMA JoinInRound ==
  ASSUME Inv, NEW r0, InRound(r0), NEW w \in Nodes, NEW l \in Nodes, l # w,
         parent[w] = w, parent[l] = l,
         \A x \in Nodes : Root(parent', x) = IF Root(parent, x) = l THEN w ELSE Root(parent, x),
         \A x \in Nodes : parent'[x] = x <=> parent[x] = x /\ x # l,
         to_merge' = MergeList(w, l)
  PROVE  /\ InRound(r0)'
         /\ \A x \in Nodes \ {w, l} : to_merge'[x] = to_merge[x]
         /\ Range(to_merge'[w]) = Range(to_merge[w]) \cup {l} \cup Range(to_merge[l])
         /\ to_merge'[l] = <<>>
<1>1. IsFiniteSet(Nodes) /\ parent \in [Nodes -> Nodes] /\ to_merge \in [Nodes -> Seq(Nodes)]
  BY DEF Inv, TypeInv, ForestInv, Ranked
<1>2. Root(parent, w) = w /\ Root(parent, l) = l
  BY <1>1, RootOfRoot
<1>3. r0[w] = w /\ r0[l] = l
  BY <1>2 DEF InRound
<1>4. Range(to_merge[w]) = Taken(r0, w) /\ Range(to_merge[l]) = Taken(r0, l)
  BY DEF InRound
<1>5. /\ l \notin Taken(r0, w) /\ l \notin Taken(r0, l)
      /\ Taken(r0, w) \cap Taken(r0, l) = {}
  BY <1>2 DEF Taken
<1>6. Inj(to_merge[w]) /\ Inj(to_merge[l])
  BY DEF InRound
<1>7. /\ Range(to_merge'[w]) = Range(to_merge[w]) \cup {l} \cup Range(to_merge[l])
      /\ to_merge'[l] = <<>>
      /\ \A x \in Nodes \ {w, l} : to_merge'[x] = to_merge[x]
      /\ Inj(to_merge'[w])
  BY <1>1, <1>4, <1>5, <1>6, MergeListIs
<1>8. Taken(r0, w)' = Taken(r0, w) \cup {l} \cup Taken(r0, l)
  <2>1. \A r \in Nodes : Root(parent', r) = w <=> Root(parent, r) \in {w, l}
    OBVIOUS
  <2>2. \A r \in Nodes : r \in Taken(r0, w)' <=> r0[r] = r /\ r # w /\ Root(parent, r) \in {w, l}
    BY Zenon, <2>1 DEF Taken
  <2>3. \A r \in Nodes : r \in Taken(r0, w)' <=> r \in Taken(r0, w) \cup {l} \cup Taken(r0, l)
    BY Zenon, <1>2, <1>3, <2>2 DEF Taken
  <2>4. /\ \A r \in Taken(r0, w)' : r \in Nodes
        /\ \A r \in Taken(r0, w) \cup {l} \cup Taken(r0, l) : r \in Nodes
    BY Zenon DEF Taken
  <2> QED BY ONLY Zenon, <2>3, <2>4
<1>9. ASSUME NEW x \in Nodes \ {w, l} PROVE Taken(r0, x)' = Taken(r0, x)
  BY DEF Taken
<1>10. r0 \in [Nodes -> Nodes] /\ \A x \in Nodes : r0[r0[x]] = r0[x]
  BY Zenon DEF InRound
<1>11. \A x \in Nodes : Root(parent', r0[x]) = Root(parent', x)
  BY Zenon, <1>10 DEF InRound
<1>12. \A x \in Nodes : r0[Root(parent', x)] = Root(parent', x)
  BY <1>3 DEF InRound
<1>13. \A x \in Nodes : Inj(to_merge'[x])
  <2>1. Inj(<<>>)
    BY DEF Inj
  <2> QED BY <1>7, <2>1 DEF InRound
<1>14. \A x \in Nodes : parent'[x] = x => Range(to_merge'[x]) = Taken(r0, x)'
  <2> SUFFICES ASSUME NEW x \in Nodes, parent'[x] = x
               PROVE  Range(to_merge'[x]) = Taken(r0, x)'
    OBVIOUS
  <2>1. CASE x = w
    BY Zenon, <1>4, <1>7, <1>8, <2>1
  <2>2. CASE x # w
    <3>1. x \in Nodes \ {w, l} /\ parent[x] = x
      BY <2>2
    <3>2. Range(to_merge[x]) = Taken(r0, x)
      BY Zenon, <3>1 DEF InRound
    <3> QED BY Zenon, <1>7, <1>9, <3>1, <3>2
  <2> QED BY Zenon, <2>1, <2>2
<1>15. \A x \in Nodes : parent'[x] # x => to_merge'[x] = <<>>
  BY <1>7 DEF InRound
<1>16. InRound(r0)'
  BY Zenon, <1>10, <1>11, <1>12, <1>13, <1>14, <1>15 DEF InRound
<1> QED BY <1>7, <1>16

\* What ScanRep does to the DSU: it links the roots of the sampled edge, or
\* leaves every root where it was.
ScanJoins(e, w, l) ==
  /\ e \in edges /\ l \in Nodes /\ w \in Nodes /\ l # w /\ parent[l] = l /\ parent[w] = w
  /\ l \in Range(reps) /\ w \in Range(reps)
  /\ Root(parent, e[1]) \in {l, w} /\ Root(parent, e[2]) \in {l, w}
  /\ \A x \in Nodes : Root(parent', x) = IF Root(parent, x) = l THEN w ELSE Root(parent, x)
  /\ \A x \in Nodes : parent'[x] = x <=> parent[x] = x /\ x # l
  /\ size' = [size EXCEPT ![w] = @ + size[l]]
  /\ to_merge' = MergeList(w, l)
  /\ spanning_forest' = spanning_forest \cup {e}
  /\ modified'

ScanLooks ==
  /\ \A x \in Nodes : Root(parent', x) = Root(parent, x)
  /\ \A x \in Nodes : parent'[x] = x <=> parent[x] = x
  /\ size' = size /\ to_merge' = to_merge /\ spanning_forest' = spanning_forest

\* One representative of supernodes_to_merge: its sample joins two trees or
\* changes no root.
LEMMA ScanRepStep ==
  ASSUME Inv, ScanRep, NEW c, NEW r0, AtScan(c, r0)
  PROVE  LET i == Head(todo)
             e == query[i].edge
         IN  /\ ForestInv'
             /\ \/ query[i].ret = "GOOD" /\ \E w, l \in Nodes : ScanJoins(e, w, l)
                \/ /\ ScanLooks
                   /\ query[i].ret = "GOOD" => Root(parent, e[1]) = Root(parent, e[2])
                   /\ modified' = (modified \/ query[i].ret = "FAIL")
<1> DEFINE i == Head(todo)
           e == query[i].edge
           good == query[i].ret = "GOOD"
           a == Root(parent, e[1])
           b == Root(parent, e[2])
           joins == good /\ a # b
           w == Winner(size, a, b)
           l == Loser(size, a, b)
           flat == Compress(Compress(parent, e[1]), e[2])
<1>0. /\ todo # <<>>
      /\ modified' = (modified \/ joins \/ query[i].ret = "FAIL")
      /\ parent' = IF joins THEN [flat EXCEPT ![l] = w] ELSE IF good THEN flat ELSE parent
      /\ size' = IF joins THEN [size EXCEPT ![w] = @ + size[l]] ELSE size
      /\ to_merge' = IF joins THEN MergeList(w, l) ELSE to_merge
      /\ spanning_forest' = IF joins THEN spanning_forest \cup {e} ELSE spanning_forest
  BY Zenon DEF ScanRep
<1>1. i \in Nodes /\ i \in Range(todo)
  <2>1. todo \in Seq(Nodes) /\ todo # <<>>
    BY Zenon, <1>0 DEF Inv, RepsInv
  <2>2. Head(todo) \in Nodes /\ Range(todo) = {Head(todo)} \cup Range(Tail(todo))
    BY ONLY <2>1, TailSet
  <2> QED BY <2>2
<1>2. i \in Range(reps)
  BY <1>1 DEF AtScan, ScanLists
<1>3. good => e \in edges /\ e \in Pairs
  BY Zenon, <1>2 DEF AtScan, ScanSamples, SampleInv, Inv, TypeInv
<1> HIDE DEF i, e, w, l, flat, a, b
<1>4. CASE joins
  <2>1. e \in edges /\ e \in Pairs /\ a # b /\ good
    BY <1>3, <1>4
  <2>2. e[1] \in Nodes /\ e[2] \in Nodes
    BY <2>1, EdgeEnds
  <2>3. spanning_forest \subseteq Pairs /\ ForestInv
    BY DEF Inv, TypeInv
  <2>4. /\ Ranked(Nodes, [flat EXCEPT ![l] = w], [size EXCEPT ![w] = @ + size[l]])
        /\ Sized(Nodes, [flat EXCEPT ![l] = w], [size EXCEPT ![w] = @ + size[l]])
        /\ LinksInside(Nodes, [flat EXCEPT ![l] = w], spanning_forest \cup {e})
        /\ \A x \in Nodes : Root([flat EXCEPT ![l] = w], x) =
             IF Root(parent, x) = l THEN w ELSE Root(parent, x)
        /\ l \in Nodes /\ w \in Nodes /\ l # w /\ {l, w} = {a, b}
        /\ parent[l] = l /\ parent[w] = w
        /\ \A x \in Nodes : [flat EXCEPT ![l] = w][x] = x <=> parent[x] = x /\ x # l
    <3>1. /\ a = Root(parent, e[1]) /\ b = Root(parent, e[2])
          /\ w = Winner(size, a, b) /\ l = Loser(size, a, b)
          /\ flat = Compress(Compress(parent, e[1]), e[2])
      BY DEF a, b, w, l, flat
    <3>2. e \in Pairs /\ a # b
      BY <2>1
    <3>3. JoinedForest(e, a, b, w, l, flat)
      BY ONLY <3>2, <2>3, <3>1, JoinKeepsForest
    <3> QED BY ONLY Zenon, <3>3 DEF JoinedForest
  <2>5. a \in Range(reps)
    BY Zenon, <2>1, <2>2, CrossedRootIsRep DEF a, b
  <2>6. b \in Range(reps)
    BY <2>1, <2>2, CrossedRootIsRep DEF a, b
  <2>7. l \in Range(reps) /\ w \in Range(reps) /\ a \in {l, w} /\ b \in {l, w}
    BY <2>4, <2>5, <2>6
  <2>8. parent' = [flat EXCEPT ![l] = w] /\ size' = [size EXCEPT ![w] = @ + size[l]]
        /\ to_merge' = MergeList(w, l) /\ spanning_forest' = spanning_forest \cup {e} /\ modified'
    BY Zenon, <1>0, <1>4
  <2>9. ForestInv'
    BY <2>4, <2>8 DEF ForestInv
  <2>10. ScanJoins(e, w, l)
    BY Zenon, <2>1, <2>4, <2>7, <2>8 DEF ScanJoins, a, b
  <2> QED BY Zenon, <2>1, <2>4, <2>9, <2>10 DEF i, e
<1>5. CASE ~joins /\ good
  <2>1. e \in Pairs /\ a = b
    BY <1>3, <1>5
  <2>2. /\ Ranked(Nodes, flat, size) /\ Sized(Nodes, flat, size)
        /\ LinksInside(Nodes, flat, spanning_forest)
        /\ \A x \in Nodes : Root(flat, x) = Root(parent, x)
        /\ \A x \in Nodes : flat[x] = x <=> parent[x] = x
    BY Zenon, <2>1, LookupKeepsForest DEF flat, Inv
  <2>3. /\ parent' = flat /\ size' = size /\ to_merge' = to_merge
        /\ spanning_forest' = spanning_forest /\ modified' = (modified \/ query[i].ret = "FAIL")
    BY Zenon, <1>0, <1>5
  <2>4. ForestInv'
    BY <2>2, <2>3 DEF ForestInv
  <2>5. ScanLooks
    BY <2>2, <2>3 DEF ScanLooks
  <2> QED BY Zenon, <2>1, <2>3, <2>4, <2>5 DEF i, e, a, b
<1>6. CASE ~good
  <2>1. /\ parent' = parent /\ size' = size /\ to_merge' = to_merge
        /\ spanning_forest' = spanning_forest /\ modified' = (modified \/ query[i].ret = "FAIL")
    BY <1>0, <1>6
  <2>2. ForestInv'
    BY Zenon, <2>1 DEF Inv, ForestInv
  <2>3. ScanLooks
    BY <2>1 DEF ScanLooks
  <2> QED BY <1>6, <2>1, <2>2, <2>3 DEF i, e
<1> QED BY Zenon, <1>4, <1>5, <1>6

\* After a representative was looked at, the lists of trees, of failures and of
\* representatives to come still agree.
LEMMA ScanRepRound ==
  ASSUME Inv, ScanRep, NEW c \in Nat, NEW r0, AtScan(c, r0)
  PROVE  AtScan(c, r0)' /\ RepsInv' /\ to_merge' \in [Nodes -> Seq(Nodes)]
<1> DEFINE i == Head(todo)
           e == query[i].edge
           fails == query[i].ret = "FAIL"
           joined(w, l) == query[i].ret = "GOOD" /\ ScanJoins(e, w, l)
           looked == /\ ScanLooks
                     /\ query[i].ret = "GOOD" => Root(parent, e[1]) = Root(parent, e[2])
                     /\ modified' = (modified \/ query[i].ret = "FAIL")
<1>0. (\E w, l \in Nodes : joined(w, l)) \/ looked
  BY Zenon, ScanRepStep
<1>u. /\ todo' = Tail(todo) /\ todo # <<>>
      /\ new_reps' = IF fails THEN Append(new_reps, i) ELSE new_reps
      /\ UNCHANGED <<edges, supernodes, reps, query, failed>>
  BY Zenon DEF ScanRep
<1>p. InRound(r0) /\ ScanLists /\ ScanCuts(c, r0) /\ ScanSamples(r0) /\ ScanSizes(c)
  BY DEF AtScan
<1>r. todo \in Seq(Nodes) /\ new_reps \in Seq(Nodes) /\ reps \in Seq(Nodes)
      /\ Inj(todo) /\ Inj(new_reps) /\ Inj(reps) /\ Range(todo) \cap Range(new_reps) = {}
  BY DEF Inv, RepsInv
<1>1. /\ i \in Nodes /\ Tail(todo) \in Seq(Nodes) /\ Range(todo) = {i} \cup Range(Tail(todo))
      /\ Inj(Tail(todo)) /\ i \notin Range(Tail(todo))
  BY ONLY <1>u, <1>r, TailSet
<1> HIDE DEF i, e, joined, looked
<1>2. i \in Range(reps) /\ i \notin Range(new_reps)
  BY <1>1, <1>p, <1>r DEF ScanLists
<1>3. /\ Append(new_reps, i) \in Seq(Nodes) /\ Range(Append(new_reps, i)) = Range(new_reps) \cup {i}
      /\ Inj(Append(new_reps, i))
  BY ONLY <1>r, <1>1, <1>2, AppendSet
<1>4. /\ new_reps' \in Seq(Nodes) /\ Inj(new_reps')
      /\ Range(new_reps') = Range(new_reps) \cup (IF fails THEN {i} ELSE {})
  BY <1>u, <1>3, <1>r
<1>5. RepsInv'
  <2>1. Range(todo') \cap Range(new_reps') = {}
    BY <1>u, <1>1, <1>4, <1>r
  <2>2. todo' \in Seq(Nodes) /\ Inj(todo') /\ reps' \in Seq(Nodes) /\ Inj(reps')
    BY <1>u, <1>1, <1>r
  <2> QED BY <1>4, <2>1, <2>2 DEF RepsInv
<1>6. \A r : StartTree(r0, r)' = StartTree(r0, r)
  BY DEF StartTree
<1>7. ScanCuts(c, r0)'
  BY Zenon, <1>u, <1>p, <1>6 DEF ScanCuts
<1>8. \A j \in Range(reps) : SampleInv(r0, j)' /\ SampleInv(r0, j)
  <2>1. \A j \in Range(reps) : SampleInv(r0, j)
    BY Zenon, <1>p DEF ScanSamples
  <2> QED BY Zenon, <1>u, <1>6, <2>1 DEF SampleInv
<1>9. ASSUME NEW j \in Range(reps), query[j].ret = "GOOD"
      PROVE  query[j].edge[1] \in Nodes /\ query[j].edge[2] \in Nodes
  <2>1. query[j].edge \in Pairs
    BY Zenon, <1>8, <1>9 DEF SampleInv, Inv, TypeInv
  <2> QED BY <2>1, EdgeEnds
<1>10. Range(reps)' = Range(reps) /\ Range(todo)' = Range(Tail(todo))
  BY <1>u
<1>11. Range(todo)' \subseteq Range(reps) /\ Range(new_reps)' \subseteq Range(reps)
  BY Zenon, <1>p, <1>1, <1>2, <1>4, <1>10 DEF ScanLists
<1>12. ~failed => ~fails
  BY <1>p, <1>2 DEF ScanSizes
<1>13. CASE looked
  <2>1. /\ \A x \in Nodes : Root(parent', x) = Root(parent, x)
        /\ \A x \in Nodes : parent'[x] = x <=> parent[x] = x
        /\ size' = size /\ to_merge' = to_merge
        /\ query[i].ret = "GOOD" => Root(parent, e[1]) = Root(parent, e[2])
        /\ modified' = (modified \/ fails)
    BY <1>13 DEF looked, ScanLooks
  <2>2. InRound(r0)'
    <3>1. \A w \in Nodes : Taken(r0, w)' = Taken(r0, w)
      BY Zenon, <2>1 DEF Taken
    <3>2. r0 \in [Nodes -> Nodes]
      BY Zenon, <1>p DEF InRound
    <3> QED BY Zenon, <1>p, <2>1, <3>1, <3>2 DEF InRound
  <2>3. ScanLists'
    <3>1. ~modified' => new_reps' = <<>> /\ \A w \in Nodes : to_merge'[w] = <<>>
      BY Zenon, <1>u, <1>p, <2>1 DEF ScanLists
    <3> QED BY Zenon, <1>p, <1>10, <1>11, <2>1, <3>1 DEF ScanLists
  <2>4. ScanSamples(r0)'
    <3> SUFFICES ASSUME NEW j \in Range(reps), j \notin Range(Tail(todo))
                 PROVE  /\ query[j].ret = "FAIL" => j \in Range(new_reps')
                        /\ query[j].ret = "GOOD" =>
                             Root(parent', query[j].edge[1]) = Root(parent', query[j].edge[2])
      BY Zenon, <1>u, <1>8, <1>10 DEF ScanSamples
    <3>1. CASE j = i
      <4>1. query[j].ret = "GOOD" => Root(parent, query[j].edge[1]) = Root(parent, query[j].edge[2])
        BY <2>1, <3>1 DEF e
      <4> QED BY Zenon, <1>4, <1>9, <2>1, <3>1, <4>1
    <3>2. CASE j # i
      <4>1. j \notin Range(todo)
        BY <1>1, <3>2
      <4> QED BY Zenon, <1>p, <1>4, <1>9, <2>1, <4>1 DEF ScanSamples
    <3> QED BY Zenon, <3>1, <3>2
  <2>5. ScanSizes(c)'
    <3>1. Range(reps) \subseteq Nodes
      BY <1>r, SeqElements DEF Range
    <3> QED BY Zenon, <1>u, <1>p, <1>10, <1>12, <2>1, <3>1 DEF ScanSizes
  <2>6. to_merge' \in [Nodes -> Seq(Nodes)]
    BY Zenon, <2>1 DEF Inv, TypeInv
  <2> QED BY <1>5, <1>7, <2>2, <2>3, <2>4, <2>5, <2>6 DEF AtScan
<1>14. ASSUME NEW w \in Nodes, NEW l \in Nodes, joined(w, l)
       PROVE  AtScan(c, r0)' /\ to_merge' \in [Nodes -> Seq(Nodes)]
  <2>1. query[i].ret = "GOOD" /\ ScanJoins(e, w, l) /\ ~fails
    BY <1>14 DEF joined
  <2>2. /\ l # w /\ parent[l] = l /\ parent[w] = w /\ l \in Range(reps) /\ w \in Range(reps)
        /\ Root(parent, e[1]) \in {l, w} /\ Root(parent, e[2]) \in {l, w}
        /\ \A x \in Nodes : Root(parent', x) = IF Root(parent, x) = l THEN w ELSE Root(parent, x)
        /\ \A x \in Nodes : parent'[x] = x <=> parent[x] = x /\ x # l
        /\ size' = [size EXCEPT ![w] = @ + size[l]]
        /\ to_merge' = MergeList(w, l)
        /\ modified'
    BY Zenon, <2>1 DEF ScanJoins
  <2>3. /\ InRound(r0)'
        /\ \A x \in Nodes \ {w, l} : to_merge'[x] = to_merge[x]
        /\ Range(to_merge'[w]) = Range(to_merge[w]) \cup {l} \cup Range(to_merge[l])
        /\ to_merge'[l] = <<>>
    BY Zenon, <1>p, <2>2, JoinInRound
  <2>4. to_merge' \in [Nodes -> Seq(Nodes)]
    BY Zenon, <2>2, MergeListIs DEF Inv, TypeInv
  <2>5. ScanLists'
    <3>1. \A x \in Nodes : Range(to_merge[x]) \subseteq Range(reps)
      <4>1. Range(<<>>) = {}
        BY DEF Range
      <4> QED BY <1>p, <4>1 DEF ScanLists
    <3>2. ASSUME NEW x \in Nodes, to_merge'[x] # <<>>
          PROVE  x \in Range(reps) /\ Range(to_merge'[x]) \subseteq Range(reps)
      <4>1. CASE x = w
        BY Zenon, <2>2, <2>3, <3>1, <4>1
      <4>2. CASE x # w
        <5>1. x \in Nodes \ {w, l}
          BY <2>3, <3>2, <4>2
        <5>2. to_merge'[x] = to_merge[x]
          BY <2>3, <5>1
        <5> QED BY Zenon, <1>p, <3>2, <5>2 DEF ScanLists
      <4> QED BY <4>1, <4>2
    <3> QED BY Zenon, <1>10, <1>11, <2>2, <3>2 DEF ScanLists
  <2>6. ScanSamples(r0)'
    <3> SUFFICES ASSUME NEW j \in Range(reps), j \notin Range(Tail(todo))
                 PROVE  /\ query[j].ret = "FAIL" => j \in Range(new_reps')
                        /\ query[j].ret = "GOOD" =>
                             Root(parent', query[j].edge[1]) = Root(parent', query[j].edge[2])
      BY Zenon, <1>u, <1>8, <1>10 DEF ScanSamples
    <3>1. CASE j = i
      <4>1. query[j].edge = e /\ query[j].ret = "GOOD"
        BY <2>1, <3>1 DEF e
      <4>2. e[1] \in Nodes /\ e[2] \in Nodes
        BY <1>9, <4>1
      <4>3. Root(parent', e[1]) = w /\ Root(parent', e[2]) = w
        BY Zenon, <2>2, <4>2
      <4> QED BY <4>1, <4>3
    <3>2. CASE j # i
      <4>1. j \notin Range(todo)
        BY <1>1, <3>2
      <4>2. /\ query[j].ret = "FAIL" => j \in Range(new_reps)
            /\ query[j].ret = "GOOD" => Root(parent, query[j].edge[1]) = Root(parent, query[j].edge[2])
        BY Zenon, <1>p, <4>1 DEF ScanSamples
      <4> QED BY Zenon, <1>4, <1>9, <2>2, <4>2
    <3> QED BY Zenon, <3>1, <3>2
  <2>7. ScanSizes(c)'
    <3> SUFFICES ASSUME ~failed
                 PROVE  /\ new_reps' = <<>>
                        /\ \A x \in Range(reps) : query[x].ret # "FAIL"
                        /\ \A x \in Range(reps) : parent'[x] = x =>
                             2 * size'[x] >= 2^c /\ (to_merge'[x] # <<>> => size'[x] >= 2^c)
      BY Zenon, <1>u, <1>10 DEF ScanSizes
    <3>1. new_reps' = <<>> /\ \A x \in Range(reps) : query[x].ret # "FAIL"
      BY Zenon, <1>u, <1>p, <1>12 DEF ScanSizes
    <3>2. \A x \in Range(reps) : x \in Nodes /\ (parent[x] = x =>
            2 * size[x] >= 2^c /\ (to_merge[x] # <<>> => size[x] >= 2^c))
      <4>1. Range(reps) \subseteq Nodes
        BY <1>r, SeqElements DEF Range
      <4> QED BY <1>p, <4>1 DEF ScanSizes
    <3>3. \A x \in Nodes : size[x] \in Nat
      BY NodesFinite DEF Inv, ForestInv, Ranked
    <3>4. 2^c \in Nat
      BY Doubling
    <3>5. size \in [Nodes -> 1..NumNodes]
      BY NodesFinite DEF Inv, ForestInv, Ranked
    <3>6. size'[w] = size[w] + size[l] /\ \A x \in Nodes \ {w} : size'[x] = size[x]
      BY Zenon, <2>2, <3>5
    <3>7. size'[w] >= 2^c /\ 2 * size'[w] >= 2^c
      <4> DEFINE sw == size[w]
                 sl == size[l]
                 p == 2^c
      <4>1. 2 * sw >= p /\ 2 * sl >= p /\ sw \in Nat /\ sl \in Nat /\ p \in Nat
        BY Zenon, <2>2, <3>2, <3>3, <3>4
      <4>2. size'[w] = sw + sl
        BY <3>6
      <4> HIDE DEF sw, sl, p
      <4>3. size'[w] >= p /\ 2 * size'[w] >= p
        BY <4>1, <4>2
      <4> QED BY <4>3 DEF p
    <3>8. ASSUME NEW x \in Range(reps), parent'[x] = x
          PROVE  2 * size'[x] >= 2^c /\ (to_merge'[x] # <<>> => size'[x] >= 2^c)
      <4>1. CASE x = w
        BY <3>7, <4>1
      <4>2. CASE x # w
        <5>1. x \in Nodes \ {w, l} /\ parent[x] = x
          BY Zenon, <2>2, <3>2, <3>8, <4>2
        <5>2. size'[x] = size[x] /\ to_merge'[x] = to_merge[x]
          BY Zenon, <2>3, <3>6, <5>1
        <5> QED BY <3>2, <5>1, <5>2
      <4> QED BY <4>1, <4>2
    <3> QED BY <3>1, <3>8
  <2> QED BY <1>7, <2>3, <2>4, <2>5, <2>6, <2>7 DEF AtScan
<1> QED BY <1>0, <1>5, <1>13, <1>14

\* supernodes_to_merge looks at a representative.
LEMMA ScanRepInv ==
  ASSUME Inv, ScanRep
  PROVE  Inv'
<1>0. phase = "scan" /\ todo # <<>>
      /\ UNCHANGED <<edges, supernodes, dsu_valid, update_locked, paused, phase, call, reps,
                     query, first_round, failed, backed_up, copies, disk, file, answer, spent>>
  BY Zenon DEF ScanRep
<1>1. PICK c \in Nat, r0 \in [Nodes -> Nodes] : AtScan(c, r0)
  BY <1>0 DEF Inv, RoundInv
<1>2. AtScan(c, r0)' /\ RepsInv' /\ to_merge' \in [Nodes -> Seq(Nodes)]
  BY <1>1, ScanRepRound
<1> DEFINE i == Head(todo)
           e == query[i].edge
<1>3. /\ ForestInv'
      /\ \/ query[i].ret = "GOOD" /\ \E w, l \in Nodes : ScanJoins(e, w, l)
         \/ ScanLooks
  BY Zenon, <1>1, ScanRepStep
<1>4. \/ spanning_forest' = spanning_forest
      \/ spanning_forest' = spanning_forest \cup {e} /\ e \in edges
  BY Zenon, <1>3 DEF ScanJoins, ScanLooks
<1> HIDE DEF i, e
<1>5. spanning_forest \subseteq edges /\ edges \subseteq Pairs
  BY Zenon, <1>0 DEF Inv, RestoreInv, TypeInv, InQuery
<1>6. spanning_forest' \subseteq edges /\ spanning_forest' \subseteq Pairs
  BY <1>4, <1>5
<1>7. TypeInv'
  <2>1. modified' \in BOOLEAN
    BY Zenon DEF ScanRep, Inv, TypeInv
  <2> QED BY <1>0, <1>2, <1>6, <2>1 DEF Inv, TypeInv
<1>8. CallInv'
  BY Zenon, <1>0 DEF Inv, CallInv, InQuery, MakeCopy
<1>9. RestoreInv'
  <2>1. InQuery /\ InQuery' /\ phase' = "scan" /\ (MakeCopy' <=> MakeCopy)
    BY <1>0 DEF InQuery, MakeCopy
  <2> QED BY Zenon, <1>0, <1>6, <2>1 DEF Inv, RestoreInv
<1>10. RoundInv'
  BY <1>0, <1>1, <1>2 DEF RoundInv
<1> QED BY Zenon, <1>2, <1>3, <1>7, <1>8, <1>9, <1>10 DEF Inv

-----------------------------------------------------------------------------
(***************************************************************************)
(* The end of supernodes_to_merge.                                         *)
(***************************************************************************)
\* A tree that took in no other in this round is what it was at its start.
LEMMA UntouchedTree ==
  ASSUME Inv, NEW r0, InRound(r0), NEW w \in Nodes, parent[w] = w
  PROVE  /\ r0[w] = w /\ Root(parent, w) = w
         /\ Tree(w) = UNION {StartTree(r0, r) : r \in {w} \cup Range(to_merge[w])}
         /\ \A r \in {w} \cup Range(to_merge[w]) : r \in Nodes /\ r0[r] = r
         /\ w \notin Range(to_merge[w])
         /\ to_merge[w] = <<>> => Tree(w) = StartTree(r0, w)
<1>1. IsFiniteSet(Nodes) /\ parent \in [Nodes -> Nodes]
  BY DEF Inv, ForestInv, Ranked
<1>2. Root(parent, w) = w
  BY <1>1, RootOfRoot
<1>3. r0[w] = w
  BY Zenon, <1>2 DEF InRound
<1>4. Range(to_merge[w]) = Taken(r0, w)
  BY Zenon DEF InRound
<1>5. {w} \cup Taken(r0, w) = {r \in Nodes : r0[r] = r /\ Root(parent, r) = w}
  BY <1>2, <1>3 DEF Taken
<1>6. \A x \in Nodes : r0[x] \in Nodes /\ r0[r0[x]] = r0[x] /\ Root(parent, r0[x]) = Root(parent, x)
  BY Zenon DEF InRound
<1>7. Tree(w) = UNION {StartTree(r0, r) : r \in {w} \cup Range(to_merge[w])}
  BY <1>4, <1>5, <1>6 DEF Tree, StartTree
<1>8. to_merge[w] = <<>> => Range(to_merge[w]) = {}
  BY DEF Range
<1>9. to_merge[w] = <<>> => Tree(w) = StartTree(r0, w)
  BY <1>7, <1>8
<1> QED BY <1>2, <1>3, <1>4, <1>5, <1>7, <1>9 DEF Taken

\* The representatives of the next round: those that failed and those that
\* something is merged into, none twice.
LEMMA ScanEndReps ==
  ASSUME Inv, ScanEnd
  PROVE  /\ reps' \in Seq(Nodes) /\ Inj(reps')
         /\ Range(reps') = Range(new_reps) \cup MergedInto
<1> DEFINE f == Filter(new_reps, Nodes \ MergedInto)
           m == Filter(AllNodes, MergedInto)
<1>1. new_reps \in Seq(Nodes) /\ Inj(new_reps)
  BY DEF Inv, RepsInv
<1>2. AllNodes \in Seq(Nodes) /\ Inj(AllNodes) /\ Range(AllNodes) = Nodes
  BY AllNodesSet
<1>3. f \in Seq(Nodes) /\ Range(f) = Range(new_reps) \cap (Nodes \ MergedInto) /\ Inj(f)
  BY <1>1, FilterSet
<1>4. m \in Seq(Nodes) /\ Range(m) = Nodes \cap MergedInto /\ Inj(m)
  BY <1>2, FilterSet
<1>5. reps' = f \o m
  BY DEF ScanEnd
<1> HIDE DEF f, m
<1>6. /\ f \o m \in Seq(Nodes) /\ Range(f \o m) = Range(f) \cup Range(m)
      /\ Inj(f) /\ Inj(m) /\ Range(f) \cap Range(m) = {} => Inj(f \o m)
  BY <1>3, <1>4, ConcatSet
<1>7. Range(new_reps) \subseteq Nodes /\ MergedInto \subseteq Nodes
  BY <1>1, SeqElements DEF Range, MergedInto
<1> QED BY <1>3, <1>4, <1>5, <1>6, <1>7

\* The end of supernodes_to_merge.
LEMMA ScanEndInv ==
  ASSUME Inv, ScanEnd
  PROVE  Inv'
<1>0. /\ phase = "scan" /\ todo = <<>> /\ phase' = "merge"
      /\ UNCHANGED <<edges, supernodes, dsuVars, update_locked, paused, call, query, to_merge,
                     new_reps, todo, modified, first_round, failed, backed_up, copies, disk,
                     file, answer, spent>>
  BY DEF ScanEnd
<1>1. PICK c \in Nat, r0 \in [Nodes -> Nodes] : AtScan(c, r0)
  BY <1>0 DEF Inv, RoundInv
<1>2. InRound(r0) /\ ScanLists /\ ScanCuts(c, r0) /\ ScanSamples(r0) /\ ScanSizes(c)
  BY <1>1 DEF AtScan
<1>3. /\ reps' \in Seq(Nodes) /\ Inj(reps')
      /\ Range(reps') = Range(new_reps) \cup MergedInto
  BY ScanEndReps
<1>4. Range(reps') \subseteq Range(reps) /\ Range(reps) \subseteq Nodes
  <2>1. Range(reps) \subseteq Nodes
    BY SeqElements DEF Inv, RepsInv, Range
  <2> QED BY Zenon, <1>2, <1>3, <2>1 DEF ScanLists, MergedInto
<1>5. TypeInv'
  BY Zenon, <1>0 DEF Inv, TypeInv, Phases, dsuVars
<1>6. RepsInv'
  BY <1>0, <1>3 DEF Inv, RepsInv
<1>7. ForestInv'
  BY <1>0 DEF Inv, ForestInv, dsuVars
<1>8. CallInv'
  BY Zenon, <1>0 DEF Inv, CallInv, InQuery, MakeCopy, dsuVars
<1>9. RestoreInv'
  <2>1. InQuery /\ InQuery' /\ phase' = "merge" /\ (MakeCopy' <=> MakeCopy)
    BY <1>0 DEF InQuery, MakeCopy
  <2>2. Range(reps)' \subseteq Range(reps)
    BY <1>4
  <2> QED BY Zenon, <1>0, <2>1, <2>2 DEF Inv, RestoreInv, dsuVars
<1>10. AtMerge(c, r0)'
  <2>1. InRound(r0)'
    <3>1. \A w : Taken(r0, w)' = Taken(r0, w)
      BY <1>0 DEF Taken, dsuVars
    <3> QED BY Zenon, <1>0, <1>2, <3>1 DEF InRound, dsuVars
  <2>2. \A i \in Range(reps') : supernodes'[i].sample_idx = c
    BY Zenon, <1>0, <1>2, <1>4 DEF ScanCuts
  <2>3. ASSUME NEW w \in Nodes, parent[w] = w, w \in Range(reps'),
               NEW r \in {w} \cup Range(to_merge[w])
        PROVE  /\ supernodes[r].sample_idx = c
               /\ \A j \in SketchIdx : j >= c => supernodes[r].sk[j] = Cut(edges, StartTree(r0, r))
    <3>1. r \in Nodes /\ r0[r] = r
      BY <1>2, <2>3, UntouchedTree
    <3>2. r \in Range(reps)
      <4>1. CASE r = w
        BY <1>4, <2>3, <4>1
      <4>2. CASE r # w
        <5>1. to_merge[w] # <<>>
          BY <4>2 DEF Range
        <5> QED BY Zenon, <1>2, <4>2, <5>1 DEF ScanLists
      <4> QED BY <4>1, <4>2
    <3> QED BY Zenon, <1>2, <3>1, <3>2 DEF ScanCuts
  <2>4. ASSUME NEW w \in Nodes, parent[w] = w, w \notin Range(reps')
        PROVE  Cut(edges, Tree(w)) = {}
    <3>1. w \notin Range(new_reps) /\ to_merge[w] = <<>>
      BY <1>3, <2>4 DEF MergedInto
    <3>2. Tree(w) = StartTree(r0, w) /\ r0[w] = w
      BY <1>2, <2>4, <3>1, UntouchedTree
    <3>3. CASE w \notin Range(reps)
      BY Zenon, <1>2, <3>2, <3>3 DEF ScanCuts
    <3>4. CASE w \in Range(reps)
      <4>1. w \notin Range(todo)
        BY <1>0 DEF Range
      <4>2. /\ query[w].ret # "FAIL"
            /\ query[w].ret = "GOOD" => Root(parent, query[w].edge[1]) = Root(parent, query[w].edge[2])
            /\ SampleInv(r0, w)
        BY Zenon, <1>2, <3>1, <3>4, <4>1 DEF ScanSamples
      <4>3. query[w].ret \in {"GOOD", "ZERO", "FAIL"}
        BY DEF Inv, TypeInv
      <4>4. CASE query[w].ret = "GOOD"
        <5>1. query[w].edge \in Cut(edges, Tree(w)) /\ query[w].edge \in Pairs
          BY Zenon, <3>2, <4>2, <4>4 DEF SampleInv, Inv, TypeInv
        <5>2. query[w].edge[1] \in Nodes /\ query[w].edge[2] \in Nodes
          BY <5>1, EdgeEnds
        <5>3. query[w].edge[1] \in Tree(w) <=> query[w].edge[2] \in Tree(w)
          BY Zenon, <4>2, <4>4, <5>2 DEF Tree
        <5> QED BY <5>1, <5>3 DEF Cut
      <4>5. CASE query[w].ret = "ZERO"
        BY Zenon, <3>2, <4>2, <4>5 DEF SampleInv
      <4> QED BY Zenon, <4>2, <4>3, <4>4, <4>5
    <3> QED BY <3>3, <3>4
  <2>5. ~modified => reps' = <<>>
    <3>1. ASSUME ~modified PROVE reps' = <<>>
      <4>1. new_reps = <<>> /\ MergedInto = {}
        BY Zenon, <1>2, <3>1 DEF ScanLists, MergedInto
      <4>2. Range(reps') = {}
        BY <1>3, <4>1 DEF Range
      <4> QED BY <1>3, <4>2, NoElements
    <3> QED BY <3>1
  <2>6. ASSUME ~failed, NEW i \in Range(reps') PROVE parent[i] = i /\ size[i] >= 2^c
    <3>1. new_reps = <<>>
      BY <1>2, <2>6 DEF ScanSizes
    <3>2. i \in MergedInto /\ i \in Range(reps)
      BY <1>3, <1>4, <2>6, <3>1 DEF Range
    <3>3. i \in Nodes /\ to_merge[i] # <<>>
      BY <3>2 DEF MergedInto
    <3>4. parent[i] = i
      BY Zenon, <1>2, <3>3 DEF InRound
    <3> QED BY <1>2, <2>6, <3>2, <3>3, <3>4 DEF ScanSizes
  <2>7. \A r : StartTree(r0, r)' = StartTree(r0, r) /\ Tree(r)' = Tree(r)
    BY <1>0 DEF StartTree, Tree, dsuVars
  <2>8. parent' = parent /\ size' = size /\ edges' = edges /\ supernodes' = supernodes
        /\ to_merge' = to_merge /\ failed' = failed /\ modified' = modified
    BY <1>0 DEF dsuVars
  <2>9. \A w \in Nodes : parent'[w] = w =>
          IF w \in Range(reps')
          THEN \A r \in {w} \cup Range(to_merge'[w]) :
                 /\ supernodes'[r].sample_idx = c
                 /\ \A j \in SketchIdx : j >= c =>
                      supernodes'[r].sk[j] = Cut(edges', StartTree(r0, r))
          ELSE Cut(edges', Tree(w)) = {}
    BY Zenon, <2>3, <2>4, <2>8
  <2> QED BY Zenon, <2>1, <2>2, <2>5, <2>6, <2>7, <2>8, <2>9 DEF AtMerge
<1>11. RoundInv'
  BY <1>0, <1>10 DEF RoundInv
<1> QED BY <1>5, <1>6, <1>7, <1>8, <1>9, <1>11 DEF Inv

-----------------------------------------------------------------------------
(***************************************************************************)
(* merge_supernodes.                                                       *)
(***************************************************************************)
\* The copies of the first round and merge_supernodes.
LEMMA MergeSupernodesInv ==
  ASSUME Inv, MergeSupernodes
  PROVE  Inv'
<1> DEFINE R == Range(reps)
<1>0. /\ phase = "merge" /\ phase' = (IF modified THEN "sample" ELSE "done")
      /\ disk' = (disk \/ (Backup /\ ~BackupInMem))
      /\ backed_up' = IF Backup THEN R ELSE backed_up
      /\ copies' = [i \in Nodes |-> IF Backup /\ i \in R THEN CopyOf(supernodes[i]) ELSE copies[i]]
      /\ supernodes' = [i \in Nodes |-> IF i \in R THEN Merged(i) ELSE supernodes[i]]
      /\ first_round' = FALSE
      /\ query' = [i \in Nodes |-> NoSample]
      /\ to_merge' = [i \in Nodes |-> <<>>]
      /\ new_reps' = <<>>
  BY Zenon DEF MergeSupernodes, BackupToDisk, LoopAgain
<1>u. UNCHANGED <<edges, dsuVars, update_locked, paused, call, reps, todo, modified, failed,
                  file, answer, spent>>
  BY Zenon DEF MergeSupernodes
<1>1. PICK c \in Nat, r0 \in [Nodes -> Nodes] : AtMerge(c, r0)
  BY Zenon, <1>0 DEF Inv, RoundInv
<1>r. R \subseteq Nodes
  BY SeqElements DEF Inv, RepsInv, Range
<1>t. supernodes \in [Nodes -> SupernodeState] /\ to_merge \in [Nodes -> Seq(Nodes)]
      /\ copies \in [Nodes -> SupernodeState]
      /\ \A i \in Nodes : \A j \in SketchIdx : supernodes[i].sk[j] \subseteq edges
  BY Zenon, <1>0 DEF Inv, TypeInv, RestoreInv, InQuery
<1>m. \A i \in Nodes : Merged(i) \in SupernodeState /\ \A j \in SketchIdx : Merged(i).sk[j] \subseteq edges
  BY Zenon, <1>t, MergedType
<1>s. /\ supernodes' \in [Nodes -> SupernodeState]
      /\ \A i \in Nodes : \A j \in SketchIdx : supernodes'[i].sk[j] \subseteq edges
  BY Zenon, <1>0, <1>t, <1>m
<1>c. \A i \in Nodes : CopyOf(supernodes[i]) \in SupernodeState /\ CopyOf(supernodes[i]).sk = supernodes[i].sk
  BY <1>t, CopyState
<1> HIDE DEF R
<1>2. TypeInv'
  <2>1. copies' \in [Nodes -> SupernodeState]
    BY Zenon, <1>0, <1>t, <1>c
  <2>2. query' \in [Nodes -> [ret : {"GOOD", "ZERO", "FAIL"}, edge : Pairs \cup {<<0, 0>>}]]
    BY Zenon, <1>0 DEF NoSample
  <2>3. to_merge' \in [Nodes -> Seq(Nodes)]
    BY Zenon, <1>0, SeqEmpty
  <2>4. backed_up' \subseteq Nodes
    BY Zenon, <1>0, <1>r DEF Inv, TypeInv
  <2>5. disk' \in BOOLEAN
    BY Zenon, <1>0 DEF Inv, TypeInv
  <2>6. phase' \in Phases /\ first_round' \in BOOLEAN
    BY Zenon, <1>0 DEF Phases
  <2> QED BY Zenon, <1>u, <1>s, <2>1, <2>2, <2>3, <2>4, <2>5, <2>6 DEF Inv, TypeInv, dsuVars
<1>3. RepsInv'
  <2>1. <<>> \in Seq(Nodes) /\ Inj(<<>>) /\ Range(<<>>) = {}
    BY SeqEmpty DEF Inj, Range
  <2> QED BY Zenon, <1>0, <1>u, <2>1 DEF Inv, RepsInv
<1>4. ForestInv'
  BY Zenon, <1>u DEF Inv, ForestInv, dsuVars
<1>5. CallInv'
  <2>1. InQuery /\ InQuery' /\ phase' \in {"sample", "done"} /\ (MakeCopy' <=> MakeCopy)
    BY Zenon, <1>0, <1>u DEF InQuery, MakeCopy
  <2>2. \A i \in Nodes : to_merge'[i] = <<>>
    BY <1>0
  <2> QED BY Zenon, <1>0, <1>u, <2>1, <2>2 DEF Inv, CallInv, dsuVars
<1>6. RestoreInv'
  <2>1. InQuery /\ InQuery' /\ phase' \in {"sample", "done"} /\ (MakeCopy' <=> MakeCopy)
    BY Zenon, <1>0, <1>u DEF InQuery, MakeCopy
  <2>2. spanning_forest' \subseteq edges' /\ edges' = edges
    BY Zenon, <1>u, <2>1 DEF Inv, RestoreInv, dsuVars
  <2>3. ASSUME MakeCopy
        PROVE  /\ \A i \in Nodes : i \in backed_up' => copies'[i].sk = Own(edges, i)
               /\ \A i \in Nodes : i \notin backed_up' => supernodes'[i].sk = Own(edges, i)
               /\ R \subseteq backed_up'
    <3>1. /\ \A i \in Nodes : i \in backed_up => copies[i].sk = Own(edges, i)
          /\ \A i \in Nodes : i \notin backed_up => supernodes[i].sk = Own(edges, i)
          /\ IF first_round THEN backed_up = {} ELSE R \subseteq backed_up
      BY Zenon, <2>1, <2>3 DEF Inv, RestoreInv, R
    <3>2. CASE first_round
      <4>1. backed_up' = R /\ Backup
        BY Zenon, <1>0, <2>3, <3>2 DEF Backup
      <4>2. \A i \in Nodes : i \in R => copies'[i] = CopyOf(supernodes[i])
        BY <1>0, <4>1
      <4>3. \A i \in Nodes : i \notin R => supernodes'[i] = supernodes[i]
        BY Zenon, <1>0
      <4> QED BY Zenon, <1>c, <3>1, <3>2, <4>1, <4>2, <4>3
    <3>3. CASE ~first_round
      <4>1. backed_up' = backed_up /\ ~Backup
        BY Zenon, <1>0, <3>3 DEF Backup
      <4>2. \A i \in Nodes : copies'[i] = copies[i]
        BY Zenon, <1>0, <4>1
      <4>3. \A i \in Nodes : i \notin R => supernodes'[i] = supernodes[i]
        BY Zenon, <1>0
      <4> QED BY Zenon, <3>1, <3>3, <4>1, <4>2, <4>3
    <3> QED BY Zenon, <3>2, <3>3
  <2>4. Range(reps)' = R
    BY <1>u DEF R
  <2> QED BY Zenon, <1>0, <1>u, <1>s, <2>1, <2>2, <2>3, <2>4 DEF Inv, RestoreInv
<1>7. CASE modified
  <2>1. InRound(r0)
    BY Zenon, <1>1 DEF AtMerge
  <2>2. ASSUME NEW i \in R, parent[i] = i
        PROVE  /\ Merged(i).sample_idx = c
               /\ \A j \in SketchIdx : j >= c => Merged(i).sk[j] = Cut(edges, Tree(i))
    <3> DEFINE M == {i} \cup Range(to_merge[i])
               T == [x \in Nodes |-> StartTree(r0, x)]
    <3>1. i \in Nodes
      BY <1>r
    <3>2. /\ Tree(i) = UNION {StartTree(r0, r) : r \in M}
          /\ \A r \in M : r \in Nodes /\ r0[r] = r
          /\ i \notin Range(to_merge[i])
      BY ONLY Inv, <2>1, <2>2, <3>1, UntouchedTree
    <3>3. \A r \in M : /\ supernodes[r].sample_idx = c
                       /\ \A j \in SketchIdx : j >= c => supernodes[r].sk[j] = Cut(edges, StartTree(r0, r))
      BY Zenon, <1>1, <2>2, <3>1 DEF AtMerge, R
    <3>4. \A r \in M : T[r] = StartTree(r0, r)
      BY <3>2
    <3>5. UNION {T[r] : r \in M} = Tree(i)
      <4>1. {T[r] : r \in M} = {StartTree(r0, r) : r \in M}
        BY ONLY Zenon, <3>4
      <4> QED BY ONLY Zenon, <3>2, <4>1
    <3>6. \A x, y \in M : x # y => T[x] \cap T[y] = {}
      BY <3>4 DEF StartTree
    <3>7. Inj(to_merge[i])
      BY Zenon, <2>1, <3>1 DEF InRound
    <3>8. AllHold({i} \cup Range(to_merge[i]), c, edges, T)
      BY Zenon, <3>3, <3>4 DEF AllHold, HoldsCut
    <3>9. UnionOf(T, {i} \cup Range(to_merge[i])) = Tree(i) /\ Separate(T, {i} \cup Range(to_merge[i]))
      BY Zenon, <3>5, <3>6 DEF UnionOf, Separate
    <3> HIDE DEF T, M
    <3>10. HoldsCut(Merged(i), c, edges, UnionOf(T, {i} \cup Range(to_merge[i])))
      BY ONLY Zenon, <1>t, <3>1, <3>2, <3>7, <3>8, <3>9, MergedCut, c \in Nat
    <3> QED BY Zenon, <3>9, <3>10 DEF HoldsCut
  <2>3. ASSUME NEW i \in R, parent[i] # i PROVE Merged(i).sample_idx = c
    <3>1. i \in Nodes /\ to_merge[i] = <<>>
      BY Zenon, <1>r, <2>1, <2>3 DEF InRound
    <3>2. PICK sum : MergeRun(i, sum)
      BY <1>t, <3>1, MergeRunExists
    <3>3. Len(to_merge[i]) = 0
      BY <3>1
    <3>4. Merged(i) = supernodes[i]
      BY <3>2, <3>3 DEF MergeRun
    <3> QED BY Zenon, <1>1, <3>4 DEF AtMerge, R
  <2>4. \A i \in R : supernodes'[i] = Merged(i)
    BY Zenon, <1>0, <1>r
  <2>5. /\ parent' = parent /\ size' = size /\ edges' = edges /\ failed' = failed
        /\ Range(reps)' = R /\ \A r : Tree(r)' = Tree(r)
    BY <1>u DEF dsuVars, R, Tree
  <2>6. \A w \in Nodes : parent[w] = w /\ w \notin R => Cut(edges, Tree(w)) = {}
    BY Zenon, <1>1 DEF AtMerge, R
  <2>7. ~failed => \A i \in R : parent[i] = i /\ size[i] >= 2^c
    BY Zenon, <1>1 DEF AtMerge, R
  <2>8. \A i \in R : supernodes'[i].sample_idx = c
    BY Zenon, <2>2, <2>3, <2>4
  <2>9. \A r \in Nodes : parent[r] = r =>
          IF r \in R THEN \A j \in SketchIdx : j >= c => supernodes'[r].sk[j] = Cut(edges, Tree(r))
          ELSE Cut(edges, Tree(r)) = {}
    BY Zenon, <2>2, <2>4, <2>6
  <2>10. AtSample(c)'
    BY Zenon, <1>0, <2>5, <2>7, <2>8, <2>9 DEF AtSample
  <2>11. RoundInv'
    BY Zenon, <1>0, <1>7, <2>10 DEF RoundInv
  <2> QED BY <1>2, <1>3, <1>4, <1>5, <1>6, <2>11 DEF Inv
<1>8. CASE ~modified
  <2>1. reps = <<>>
    BY Zenon, <1>1, <1>8 DEF AtMerge
  <2>2. R = {}
    BY <2>1 DEF R, Range
  <2>3. \A w \in Nodes : parent[w] = w => Cut(edges, Tree(w)) = {}
    BY Zenon, <1>1, <2>2 DEF AtMerge, R
  <2>4. ASSUME NEW e \in edges PROVE Root(parent, e[1]) = Root(parent, e[2])
    <3>1. e[1] \in Nodes /\ e[2] \in Nodes
      BY EdgeEnds DEF Inv, TypeInv
    <3> DEFINE a == Root(parent, e[1])
    <3>r. Ranked(Nodes, parent, size)
      BY Zenon DEF Inv, ForestInv
    <3>2. a \in Nodes /\ parent[a] = a
      BY ONLY SMTT(30), <3>1, <3>r, RootIsRoot
    <3>3. e \notin Cut(edges, Tree(a))
      BY Zenon, <2>3, <3>2
    <3> QED BY <3>1, <3>3 DEF Cut, Tree
  <2>5. Joined'
    BY <1>u, <2>4 DEF Joined, dsuVars
  <2>6. RoundInv'
    BY Zenon, <1>0, <1>8, <2>5 DEF RoundInv
  <2> QED BY <1>2, <1>3, <1>4, <1>5, <1>6, <2>6 DEF Inv
<1> QED BY <1>7, <1>8
=============================================================================
