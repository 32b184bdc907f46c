-------------------------- MODULE StreamToolsProofs --------------------------
(***************************************************************************)
(* Proofs about StreamTools for every size of the buffer, every header and *)
(* every file.                                                             *)
(***************************************************************************)
EXTENDS StreamTools, FiniteSetTheorems, SequenceTheorems, TLAPS

Nodes == 0..(NumNodes - 1)
Updates == Nat \X Nat \X Nat

TypeInv ==
  /\ TypeOK
  /\ input \in Seq(Nodes \X Nodes)
  /\ pc = "convert" => input # <<>>
  /\ input # <<>> /\ file # <<>> => pair \in Nodes \X Nodes
  /\ file \in Seq(Updates) /\ got \in Seq(Updates)
  /\ buf \in [1..BufSize -> Updates]

\* The place in the file of the update before the buffer's first.
Base == Len(got) - off

\* The buffer holds the block of the file that starts after Base, and the
\* next read starts where that block ends or at the end of the file.
BlockInv ==
  /\ pc \in {"convert", "open"} => got = <<>> /\ off = 0 /\ next = 1 /\ ~err
  /\ pc \in {"validate", "done"} =>
       /\ off <= Len(got)
       /\ next = Base + BufSize + 1 \/ next = Len(file) + 1
       /\ next <= Base + BufSize + 1
       /\ \A j \in 1..BufSize : Base + j <= Len(file) => buf[j] = file[Base + j]

\* The verdict so far is that of the updates read so far.
VerdictInv ==
  /\ err <=> \E k \in DOMAIN got : ~Legal(got[k])
  /\ pc = "done" => Len(got) = NumEdges

IInv == TypeInv /\ BlockInv /\ ReadsInOrder /\ VerdictInv

-----------------------------------------------------------------------------
\* Between two blocks, read_data fills the buffer with the updates that
\* follow, as far as the file has them.
LEMMA NextBlock ==
  ASSUME TypeInv, ReadData, UNCHANGED file, NEW b \in Nat,
         next = b + 1 \/ next = Len(file) + 1, next <= b + 1
  PROVE  /\ buf' \in [1..BufSize -> Updates] /\ off' = 0 /\ next' \in 1..(Len(file) + 1)
         /\ next' = b + BufSize + 1 \/ next' = Len(file) + 1
         /\ next' <= b + BufSize + 1
         /\ \A j \in 1..BufSize : b + j <= Len(file) => buf'[j] = file[b + j]
<1> DEFINE n == ReadNum(next)
<1>1. Len(file) \in Nat /\ next \in 1..(Len(file) + 1) /\ BufSize \in Nat \ {0}
  BY ToolsAssumption DEF TypeInv, TypeOK
<1>2. n \in 0..BufSize /\ n <= Len(file) + 1 - next /\ (n = BufSize \/ n = Len(file) + 1 - next)
  BY <1>1 DEF ReadNum
<1>3. /\ buf' = [k \in 1..BufSize |-> IF k <= n THEN file[next + k - 1] ELSE buf[k]]
      /\ next' = next + n /\ off' = 0
  BY DEF ReadData
<1> HIDE DEF n
<1>4. ASSUME NEW k \in 1..BufSize, k <= n
      PROVE  next + k - 1 \in 1..Len(file)
  BY <1>1, <1>2, <1>4
<1>5. buf' \in [1..BufSize -> Updates]
  <2>1. ASSUME NEW k \in 1..BufSize, k <= n
        PROVE  file[next + k - 1] \in Updates
    BY <1>4, <2>1, ElementOfSeq DEF TypeInv
  <2>2. \A k \in 1..BufSize : buf[k] \in Updates
    BY DEF TypeInv
  <2> QED BY <1>3, <2>1, <2>2
<1>6. next' \in 1..(Len(file) + 1) /\ next' <= b + BufSize + 1
  BY <1>1, <1>2, <1>3
<1>7. next' = b + BufSize + 1 \/ next' = Len(file) + 1
  BY <1>1, <1>2, <1>3
<1>8. ASSUME NEW j \in 1..BufSize, b + j <= Len(file)
      PROVE  buf'[j] = file[b + j]
  <2>1. next = b + 1
    BY <1>1, <1>8
  <2>2. j <= n
    BY <1>1, <1>2, <1>8, <2>1
  <2> QED BY <1>1, <1>3, <2>1, <2>2
<1> QED BY <1>3, <1>5, <1>6, <1>7, <1>8

\* Before a tool has read anything.
LEMMA IInvInit == Init => IInv
<1> SUFFICES ASSUME Init PROVE IInv
  OBVIOUS
<1>1. Garbage \subseteq Updates
  BY ToolsAssumption DEF Garbage, Updates, INSERT
<1>2. TypeInv
  <2>a. Inputs \subseteq Seq(Nodes \X Nodes) \ {<<>>}
    BY ToolsAssumption DEF Nodes
  <2>b. \A f \in Foreign : f \in Seq(Updates) /\ Len(f) <= NumEdges
    BY ToolsAssumption DEF Updates
  <2>1. input \in Seq(Nodes \X Nodes) /\ (pc = "convert" => input # <<>>)
    <3>1. CASE pc = "convert" /\ input \in Inputs
      BY <3>1, <2>a
    <3>2. CASE pc = "open" /\ input = <<>>
      BY <3>2
    <3> QED BY <3>1, <3>2 DEF Init
  <2>2. file \in Seq(Updates) /\ Len(file) <= NumEdges
    <3>1. CASE file = <<>>
      BY <3>1, ToolsAssumption
    <3>2. CASE file \in Foreign
      BY <3>2, <2>b
    <3> QED BY <3>1, <3>2 DEF Init
  <2>3. buf \in [1..BufSize -> Updates]
    BY <1>1 DEF Init
  <2>4. (input # <<>> /\ file # <<>> => pair \in Nodes \X Nodes) /\ got \in Seq(Updates)
    BY DEF Init
  <2>5. TypeOK
    <3>1. Len(file) \in Nat /\ Len(got) = 0 /\ BufSize \in Nat \ {0} /\ NumEdges \in Nat
      BY <2>2, ToolsAssumption DEF Init
    <3>2. off \in 0..(BufSize - 1) /\ next \in 1..(Len(file) + 1)
      BY <3>1 DEF Init
    <3>3. pc \in {"convert", "open", "validate", "done"} /\ err \in BOOLEAN /\ adj_mat = {}
      BY Zenon DEF Init
    <3> QED BY <2>2, <2>3, <3>1, <3>2, <3>3 DEF TypeOK
  <2> QED BY <2>1, <2>2, <2>3, <2>4, <2>5 DEF TypeInv
<1>3. BlockInv /\ ReadsInOrder /\ VerdictInv
  BY DEF Init, BlockInv, ReadsInOrder, VerdictInv
<1> QED BY <1>2, <1>3 DEF IInv

-----------------------------------------------------------------------------
\* The pair that a turn of the converter works on has two nodes of the graph.
LEMMA ExtractedNodes ==
  ASSUME TypeInv, pc = "convert"
  PROVE  Extracted \in Nodes \X Nodes
<1>1. input \in Seq(Nodes \X Nodes) /\ input # <<>> /\ file \in Seq(Updates)
  BY DEF TypeInv
<1>2. Len(input) \in Nat \ {0} /\ Len(file) \in Nat
  BY <1>1, EmptySeq
<1>3. CASE Len(file) < Len(input)
  <2>1. Len(file) + 1 \in 1..Len(input)
    BY <1>2, <1>3
  <2>2. input[Len(file) + 1] \in Nodes \X Nodes
    BY <1>1, <2>1, ElementOfSeq
  <2> QED BY <1>3, <2>2 DEF Extracted
<1>4. CASE ~(Len(file) < Len(input))
  <2>1. file # <<>>
    BY <1>2, <1>4
  <2> QED BY <1>1, <1>4, <2>1 DEF Extracted, TypeInv
<1> QED BY <1>3, <1>4

\* An iteration of the loop of to_binary_format.
LEMMA ConvertStep ==
  ASSUME IInv, Convert
  PROVE  IInv'
<1> USE DEF IInv
<1> DEFINE p == Extracted
           e == Entry(p)
           u == <<IF e \in adj_mat THEN DELETE ELSE INSERT, p[1], p[2]>>
<1>1. pc = "convert" /\ Len(file) < NumEdges /\ UNCHANGED <<pc, input, buf, off, next, got, err>>
  BY DEF Convert, reader
<1>2. p \in Nodes \X Nodes
  BY <1>1, ExtractedNodes
<1>3. p[1] \in Nodes /\ p[2] \in Nodes /\ p = <<p[1], p[2]>>
  BY <1>2
<1>4. /\ pair' = p /\ file' = Append(file, u)
      /\ adj_mat' \subseteq adj_mat \cup {e}
  BY DEF Convert
<1> HIDE DEF p
<1>5. e \in {q \in Nodes \X Nodes : q[1] <= q[2]}
  BY <1>3 DEF Entry, Edge, Nodes
<1>6. u \in Updates
  BY <1>3 DEF Updates, Nodes, INSERT, DELETE
<1> HIDE DEF e, u
<1>7. got = <<>> /\ off = 0 /\ next = 1 /\ ~err
  BY <1>1 DEF BlockInv
<1>8. file \in Seq(Updates) /\ Len(file) \in Nat /\ NumEdges \in Nat
  BY ToolsAssumption DEF TypeInv
<1>9. file' \in Seq(Updates) /\ Len(file') = Len(file) + 1
  BY <1>4, <1>6, <1>8
<1>10. TypeOK'
  <2>1. adj_mat' \subseteq {q \in Nodes \X Nodes : q[1] <= q[2]}
    BY <1>4, <1>5 DEF TypeInv, TypeOK, Nodes
  <2>2. Len(file') <= NumEdges /\ next' \in 1..(Len(file') + 1)
    BY <1>1, <1>7, <1>8, <1>9
  <2> QED BY <1>1, <2>1, <2>2 DEF TypeInv, TypeOK, Nodes
<1>11. TypeInv'
  BY <1>1, <1>2, <1>4, <1>9, <1>10 DEF TypeInv
<1>12. (BlockInv /\ ReadsInOrder /\ VerdictInv)'
  BY <1>1, <1>7 DEF BlockInv, ReadsInOrder, VerdictInv
<1> QED BY <1>11, <1>12

\* The constructor of BinaryGraphStream: the header and the first block.
LEMMA OpenStep ==
  ASSUME IInv, Open
  PROVE  IInv'
<1> USE DEF IInv
<1>1. /\ pc = "open" /\ pc' = "validate" /\ ReadData
      /\ UNCHANGED <<input, pair, adj_mat, file, got, err>>
  BY DEF Open
<1>2. got = <<>> /\ next = 1 /\ ~err /\ Len(got) = 0
  BY <1>1 DEF BlockInv
<1>3. /\ buf' \in [1..BufSize -> Updates] /\ off' = 0 /\ next' \in 1..(Len(file) + 1)
      /\ next' = 0 + BufSize + 1 \/ next' = Len(file) + 1
      /\ next' <= 0 + BufSize + 1
      /\ \A j \in 1..BufSize : 0 + j <= Len(file) => buf'[j] = file[0 + j]
  BY <1>1, <1>2, NextBlock
<1>4. BufSize \in Nat \ {0}
  BY ToolsAssumption
<1>5. TypeOK'
  BY <1>1, <1>3, <1>4 DEF TypeInv, TypeOK
<1>6. TypeInv'
  BY <1>1, <1>3, <1>5 DEF TypeInv
<1>7. Len(got') = 0 /\ Base' = 0
  BY <1>1, <1>2, <1>3 DEF Base
<1>8. BlockInv'
  BY <1>1, <1>3, <1>7 DEF BlockInv
<1>9. (ReadsInOrder /\ VerdictInv)'
  BY <1>1, <1>2 DEF ReadsInOrder, VerdictInv
<1> QED BY <1>6, <1>8, <1>9

\* An iteration of the loop of validate_binary_stream, with its get_edge.
LEMMA ValidateStep ==
  ASSUME IInv, Validate
  PROVE  IInv'
<1> USE DEF IInv
<1> DEFINE u == buf[off + 1]
<1>1. /\ pc = "validate" /\ Len(got) < NumEdges
      /\ UNCHANGED <<pc, input, pair, adj_mat, file>>
      /\ got' = Append(got, u)
  BY DEF Validate, GetEdge
<1>2. err' <=> err \/ ~Legal(u)
  BY Zenon DEF Validate, TypeInv, TypeOK
<1>3. /\ BufSize \in Nat \ {0} /\ NumEdges \in Nat /\ off \in 0..(BufSize - 1)
      /\ Len(file) \in Nat /\ Len(got) \in Nat /\ got \in Seq(Updates) /\ err \in BOOLEAN
  BY ToolsAssumption DEF TypeInv, TypeOK
<1>4. off + 1 \in 1..BufSize /\ u \in Updates
  BY <1>3 DEF TypeInv
<1>5. /\ off <= Len(got)
      /\ next = Base + BufSize + 1 \/ next = Len(file) + 1
      /\ next <= Base + BufSize + 1
      /\ \A j \in 1..BufSize : Base + j <= Len(file) => buf[j] = file[Base + j]
  BY <1>1 DEF BlockInv
<1>6. Len(got) + 1 <= Len(file) => u = file[Len(got) + 1]
  BY <1>3, <1>4, <1>5 DEF Base
<1> HIDE DEF u
<1>7. /\ got' \in Seq(Updates) /\ Len(got') = Len(got) + 1 /\ DOMAIN got = 1..Len(got)
      /\ DOMAIN got' = 1..(Len(got) + 1)
      /\ \A k \in 1..Len(got) : got'[k] = got[k]
      /\ got'[Len(got) + 1] = u
  BY <1>1, <1>3, <1>4
<1>8. ReadsInOrder'
  BY <1>1, <1>3, <1>6, <1>7 DEF ReadsInOrder
<1>9. VerdictInv'
  <2>1. err <=> \E k \in 1..Len(got) : ~Legal(got[k])
    BY <1>7 DEF VerdictInv
  <2>2. (\E k \in 1..(Len(got) + 1) : ~Legal(got'[k])) <=> (err \/ ~Legal(u))
    BY <1>3, <1>7, <2>1
  <2>3. err' <=> \E k \in DOMAIN got' : ~Legal(got'[k])
    BY <1>2, <1>7, <2>2
  <2> QED BY <1>1, <2>3 DEF VerdictInv, Legal
<1>10. /\ buf' \in [1..BufSize -> Updates] /\ off' \in 0..(BufSize - 1)
       /\ next' \in 1..(Len(file) + 1) /\ BlockInv'
  <2>1. CASE AtEnd
    <3>1. ReadData /\ off + 1 = BufSize
      BY <2>1 DEF Validate, GetEdge, AtEnd
    <3> DEFINE b == Base + BufSize
    <3>2. b = Len(got) + 1 /\ b \in Nat
      BY <1>3, <3>1 DEF Base
    <3>3. (next = b + 1 \/ next = Len(file) + 1) /\ next <= b + 1
      BY <1>5
    <3> HIDE DEF b
    <3>4. /\ buf' \in [1..BufSize -> Updates] /\ off' = 0 /\ next' \in 1..(Len(file) + 1)
          /\ next' = b + BufSize + 1 \/ next' = Len(file) + 1
          /\ next' <= b + BufSize + 1
          /\ \A j \in 1..BufSize : b + j <= Len(file) => buf'[j] = file[b + j]
      BY <1>1, <3>1, <3>2, <3>3, NextBlock
    <3>5. Base' = b /\ off' <= Len(got')
      BY <1>3, <1>7, <3>2, <3>4 DEF Base
    <3>6. BlockInv'
      BY <1>1, <3>4, <3>5 DEF BlockInv
    <3> QED BY <1>3, <3>4, <3>6
  <2>2. CASE ~AtEnd
    <3>1. off' = off + 1 /\ buf' = buf /\ next' = next /\ off + 1 # BufSize
      BY <2>2 DEF Validate, GetEdge, AtEnd
    <3>2. Base' = Base /\ off' <= Len(got') /\ off' \in 0..(BufSize - 1)
      BY <1>3, <1>5, <1>7, <3>1 DEF Base
    <3>3. BlockInv'
      BY <1>1, <1>5, <3>1, <3>2 DEF BlockInv
    <3> QED BY <1>3, <3>1, <3>2, <3>3 DEF TypeInv, TypeOK
  <2> QED BY <2>1, <2>2
<1>11. err' \in BOOLEAN
  BY <1>3 DEF Validate
<1>12. TypeOK'
  BY <1>1, <1>3, <1>7, <1>10, <1>11 DEF TypeInv, TypeOK
<1>13. TypeInv'
  BY <1>1, <1>7, <1>10, <1>12 DEF TypeInv
<1> QED BY <1>8, <1>9, <1>10, <1>13

\* Every step of the two tools keeps the invariant.
LEMMA IInvNext == IInv /\ [Next]_vars => IInv'
<1> SUFFICES ASSUME IInv, [Next]_vars PROVE IInv'
  OBVIOUS
<1>1. CASE EndConvert
  BY <1>1 DEF EndConvert, reader, IInv, TypeInv, TypeOK, BlockInv, Base, ReadsInOrder, VerdictInv, Legal
<1>2. CASE Report
  BY Zenon, <1>2 DEF Report, reader, IInv, TypeInv, TypeOK, BlockInv, Base, ReadsInOrder, VerdictInv, Legal
<1>3. CASE UNCHANGED vars
  BY <1>3 DEF vars, reader, IInv, TypeInv, TypeOK, BlockInv, Base, ReadsInOrder, VerdictInv, Legal
<1> QED BY <1>1, <1>2, <1>3, ConvertStep, OpenStep, ValidateStep DEF Next

\* The invariant of the tools, of the reader and of the verdict.
LEMMA AlwaysIInv == Spec => []IInv
BY IInvInit, IInvNext, PTL DEF Spec

-----------------------------------------------------------------------------
\* The sequential reader of include/binary_graph_stream.h returns the updates
\* of the file in order and each once, for every buffer size and every file.
THEOREM ReaderIsFaithful == Spec => []ReadsInOrder
<1>1. IInv => ReadsInOrder
  BY DEF IInv
<1> QED BY <1>1, AlwaysIInv, PTL

\* validate_binary_stream accepts a complete file exactly if all its updates
\* are legal, and accepts no file with an illegal one.
THEOREM ValidatorIsRight == Spec => []VerdictIsRight
<1>1. ASSUME IInv PROVE VerdictIsRight
  <2> SUFFICES ASSUME pc = "done"
               PROVE  /\ (~\A k \in DOMAIN file : /\ file[k] \in {INSERT, DELETE} \X Nodes \X Nodes
                                                  /\ file[k][2] # file[k][3]) => err
                      /\ (/\ \A k \in DOMAIN file : /\ file[k] \in {INSERT, DELETE} \X Nodes \X Nodes
                                                     /\ file[k][2] # file[k][3]
                          /\ Len(file) = NumEdges) => ~err
    BY DEF VerdictIsRight, Nodes
  <2>1. /\ file \in Seq(Updates) /\ got \in Seq(Updates) /\ NumEdges \in Nat
        /\ Len(got) = NumEdges /\ Len(file) <= NumEdges
    BY <1>1, ToolsAssumption DEF IInv, TypeInv, TypeOK, VerdictInv
  <2>2. /\ DOMAIN file = 1..Len(file) /\ DOMAIN got = 1..NumEdges
        /\ Len(file) \in Nat /\ \A k \in 1..Len(file) : k \in 1..NumEdges
    BY <2>1
  <2>3. \A k \in DOMAIN file : got[k] = file[k] /\ file[k] \in Updates
    BY <1>1, <2>1, <2>2, ElementOfSeq DEF IInv, ReadsInOrder
  <2>4. ASSUME NEW w \in Updates
        PROVE  Legal(w) <=> w \in {INSERT, DELETE} \X Nodes \X Nodes /\ w[2] # w[3]
    BY ToolsAssumption DEF Legal, Updates, Nodes
  <2>5. err <=> \E k \in DOMAIN got : ~Legal(got[k])
    BY <1>1 DEF IInv, VerdictInv
  <2> HIDE DEF Nodes
  <2> QED BY <2>2, <2>3, <2>4, <2>5
<1> QED BY <1>1, AlwaysIInv, PTL

-----------------------------------------------------------------------------
(***************************************************************************)
(* What the converter writes.                                              *)
(***************************************************************************)
\* The inductive invariant behind it: an edge is in adj_mat exactly if the file
\* has an odd number of updates of it.
ToggleInv ==
  input # <<>> =>
    /\ ConvertedToggles
    /\ \A e \in Nat \X Nat : e \in adj_mat <=> Cardinality(UpdatesOf(e, Len(file))) % 2 = 1

\* One more update of e changes the parity of their number.
LEMMA OneMore ==
  ASSUME NEW S, IsFiniteSet(S), NEW k, k \notin S
  PROVE  /\ IsFiniteSet(S \cup {k}) /\ Cardinality(S) \in Nat
         /\ Cardinality(S \cup {k}) % 2 = 1 <=> Cardinality(S) % 2 = 0
         /\ Cardinality(S) % 2 \in {0, 1}
<1>1. IsFiniteSet(S \cup {k}) /\ Cardinality(S \cup {k}) = Cardinality(S) + 1
  BY FS_AddElement
<1>2. Cardinality(S) \in Nat
  BY FS_CardinalityType
<1>3. QED
  BY <1>1, <1>2

\* Convert toggles the entry of the edge it appends.
LEMMA ToggleStep ==
  ASSUME IInv, ToggleInv, Convert
  PROVE  ToggleInv'
<1>a. PICK n \in Nat : n = Len(file)
  BY DEF IInv, TypeInv
<1>b. PICK p : p = Extracted
  OBVIOUS
<1>c. PICK e0 : e0 = Entry(p)
  OBVIOUS
<1> DEFINE k == n + 1
           u == <<IF e0 \in adj_mat THEN DELETE ELSE INSERT, p[1], p[2]>>
<1>1. pc = "convert" /\ UNCHANGED input /\ input \in Seq(Nodes \X Nodes) /\ input # <<>>
  BY DEF Convert, IInv, TypeInv
<1>2. p[1] \in Nodes /\ p[2] \in Nodes /\ p = <<p[1], p[2]>>
  BY <1>1, <1>b, ExtractedNodes DEF IInv
<1>3. file' = Append(file, u) /\ file \in Seq(Updates) /\ DOMAIN file = 1..n
  BY <1>a, <1>b, <1>c DEF Convert, IInv, TypeInv
<1>4. adj_mat' = IF e0 \in adj_mat THEN adj_mat \ {e0} ELSE adj_mat \cup {e0}
  BY <1>b, <1>c DEF Convert
<1>5. u \in Updates
  BY <1>2 DEF Updates, Nodes, INSERT, DELETE
<1>6. Len(file') = k /\ DOMAIN file' = 1..k /\ file'[k] = u /\ \A j \in 1..n : file'[j] = file[j]
  <2> HIDE DEF u
  <2>1. QED
    BY <1>3, <1>5, <1>a
<1>7. EdgeAt(k)' = e0 /\ \A j \in 1..n : EdgeAt(j)' = EdgeAt(j)
  <2>1. EdgeAt(k)' = Edge(<<file'[k][2], file'[k][3]>>)
    BY Zenon DEF EdgeAt, Edge
  <2>2. file'[k][2] = p[1] /\ file'[k][3] = p[2]
    BY ONLY <1>6
  <2>3. EdgeAt(k)' = e0
    BY Zenon, <1>2, <1>c, <2>1, <2>2 DEF Entry
  <2>4. \A j \in 1..n : EdgeAt(j)' = EdgeAt(j)
    BY Zenon, <1>6 DEF EdgeAt, Edge
  <2>5. QED
    BY Zenon, <2>3, <2>4
<1>8. k <= Len(input) => p = input[k]
  BY <1>1, <1>a, <1>b DEF Extracted
<1>9. ASSUME NEW e PROVE /\ \A m \in 0..n : UpdatesOf(e, m)' = UpdatesOf(e, m)
                         /\ UpdatesOf(e, k)' = UpdatesOf(e, n) \cup (IF e = e0 THEN {k} ELSE {})
  BY <1>3, <1>7 DEF UpdatesOf
<1>10. ASSUME NEW e PROVE IsFiniteSet(UpdatesOf(e, n)) /\ k \notin UpdatesOf(e, n)
  <2>1. IsFiniteSet(1..n)
    BY <1>3, FS_Interval
  <2>2. UpdatesOf(e, n) \in SUBSET (1..n)
    BY DEF UpdatesOf
  <2>3. QED
    BY <1>3, <2>1, <2>2, FS_Subset
<1>11. e0 \in Nat \X Nat
  BY <1>2, <1>c DEF Entry, Edge, Nodes
<1>12. ASSUME NEW e \in Nat \X Nat
       PROVE  e \in adj_mat' <=> Cardinality(UpdatesOf(e, k)') % 2 = 1
  <2>1. e \in adj_mat <=> Cardinality(UpdatesOf(e, n)) % 2 = 1
    BY <1>1, <1>a DEF ToggleInv
  <2>2. CASE e = e0
    <3>1. UpdatesOf(e, k)' = UpdatesOf(e, n) \cup {k}
      BY <1>9, <2>2
    <3>2. Cardinality(UpdatesOf(e, k)') % 2 = 1 <=> Cardinality(UpdatesOf(e, n)) % 2 # 1
      BY <1>10, <3>1, OneMore
    <3>3. QED
      BY <1>4, <2>1, <2>2, <3>2
  <2>3. CASE e # e0
    <3>1. UpdatesOf(e, k)' = UpdatesOf(e, n)
      BY <1>9, <2>3
    <3>2. QED
      BY <1>4, <2>1, <2>3, <3>1
  <2>4. QED
    BY <2>2, <2>3
<1>13. ASSUME NEW i \in 1..k
       PROVE  /\ file'[i][1] = Cardinality(UpdatesOf(EdgeAt(i), i - 1)') % 2
              /\ i <= Len(input) => EdgeAt(i)' = Edge(input[i])
  <2>1. CASE i \in 1..n
    <3>1. i - 1 \in 0..n
      BY <1>3, <2>1
    <3>2. UpdatesOf(EdgeAt(i), i - 1)' = UpdatesOf(EdgeAt(i), i - 1) /\ file'[i] = file[i]
      BY <1>3, <1>6, <1>7, <2>1, <3>1 DEF UpdatesOf
    <3>3. QED
      BY <1>1, <1>3, <1>7, <2>1, <3>2 DEF ToggleInv, ConvertedToggles
  <2>2. CASE i = k
    <3>1. UpdatesOf(EdgeAt(i), i - 1)' = UpdatesOf(e0, n)
      BY <1>3, <1>7, <2>2 DEF UpdatesOf
    <3>2. e0 \in adj_mat <=> Cardinality(UpdatesOf(e0, n)) % 2 = 1
      BY <1>1, <1>11, <1>a DEF ToggleInv
    <3>3. Cardinality(UpdatesOf(e0, n)) % 2 \in {0, 1}
      BY Zenon, <1>10, OneMore
    <3>4. file'[i][1] = Cardinality(UpdatesOf(e0, n)) % 2
      BY <1>6, <2>2, <3>2, <3>3 DEF INSERT, DELETE
    <3>5. QED
      BY <1>7, <1>8, <1>c, <2>2, <3>1, <3>4 DEF Entry
  <2>3. QED
    BY <1>3, <2>1, <2>2
<1>14. ConvertedToggles'
  BY <1>1, <1>6, <1>13 DEF ConvertedToggles
<1>15. ASSUME NEW e PROVE UpdatesOf(e, Len(file))' = UpdatesOf(e, k)'
  BY <1>6 DEF UpdatesOf
<1>16. QED
  BY <1>1, <1>12, <1>14, <1>15 DEF ToggleInv

\* to_binary_format writes an insertion, a deletion, an insertion and so on of
\* each edge, whatever the types in the ascii stream are and in whatever order
\* the ends of the edge are named.
THEOREM ConverterToggles == Spec => []ConvertedToggles
<1>1. ASSUME Init PROVE ToggleInv
  <2> SUFFICES ASSUME input # <<>> PROVE ToggleInv
    BY DEF ToggleInv
  <2>1. file = <<>> /\ adj_mat = {} /\ DOMAIN file = {} /\ Len(file) = 0
    BY <1>1 DEF Init
  <2>2. \A e : UpdatesOf(e, 0) = {}
    BY DEF UpdatesOf
  <2>3. Cardinality({}) % 2 # 1
    BY FS_EmptySet
  <2>4. ConvertedToggles
    BY <2>1 DEF ConvertedToggles
  <2>5. ASSUME NEW e \in Nat \X Nat
        PROVE  e \in adj_mat <=> Cardinality(UpdatesOf(e, Len(file))) % 2 = 1
    <3>1. UpdatesOf(e, Len(file)) = {}
      BY <2>1, <2>2
    <3>2. Cardinality(UpdatesOf(e, Len(file))) % 2 # 1
      BY <2>3, <3>1, Zenon
    <3>3. QED
      BY <2>1, <3>2
  <2>6. QED
    BY <2>4, <2>5 DEF ToggleInv
<1>2. ASSUME IInv, ToggleInv, [Next]_vars PROVE ToggleInv'
  <2>1. CASE UNCHANGED <<input, file, adj_mat>>
    BY Zenon, <1>2, <2>1 DEF ToggleInv, ConvertedToggles, UpdatesOf, EdgeAt
  <2>2. CASE Convert
    BY <1>2, <2>2, ToggleStep
  <2>3. QED
    BY <1>2, <2>1, <2>2 DEF Next, EndConvert, Open, Validate, Report, vars
<1>3. ToggleInv => ConvertedToggles
  BY DEF ToggleInv, ConvertedToggles
<1>4. QED
  BY <1>1, <1>2, <1>3, AlwaysIInv, PTL DEF Spec
=============================================================================
