----------------------------- MODULE StreamTools -----------------------------
(***************************************************************************)
(* The programs that write and check stream files:                         *)
(* tools/to_binary_format.cpp, and tools/validate_binary_stream.cpp with   *)
(* the BinaryGraphStream it reads with (include/binary_graph_stream.h).    *)
(*                                                                         *)
(* A line of the ascii stream is a pair of nodes: the type it may have     *)
(* only decides about a warning.  An update of the binary file is <<type,  *)
(* src, dst>>.  A file ends between two updates; it may be shorter than    *)
(* its header says, because its writer was stopped.                        *)
(***************************************************************************)
EXTENDS Integers, Sequences, FiniteSets

CONSTANTS
  NumNodes, NumEdges,   \* of the header
  BufSize,              \* buf_size, in updates
  Inputs,               \* the ascii streams: nonempty sequences of pairs
  Foreign               \* files that some other program wrote

INSERT == 0
DELETE == 1

ASSUME ToolsAssumption ==
  /\ NumNodes \in Nat /\ NumEdges \in Nat /\ BufSize \in Nat \ {0}
  /\ Inputs \subseteq Seq((0..(NumNodes - 1)) \X (0..(NumNodes - 1))) \ {<<>>}
  /\ \A f \in Foreign : f \in Seq(Nat \X Nat \X Nat) /\ Len(f) <= NumEdges

VARIABLES
  pc,              \* the program that runs
  input, pair,     \* the ascii stream, and the pair <<src, dst>> of the converter
  adj_mat,         \* the edges that are present
  file,            \* the updates in the binary file
  buf, off, next,  \* of the BinaryGraphStream: its buffer, the place in it and in the file
  got,             \* history: what get_edge returned
  err

reader == <<buf, off, next, got, err>>
vars == <<pc, input, pair, adj_mat, file, reader>>

\* The buffer comes from malloc.
Garbage == {<<INSERT, 0, 1>>, <<2, NumNodes, 0>>}

Init ==
  /\ \/ pc = "convert" /\ file = <<>> /\ input \in Inputs
     \/ pc = "open" /\ file \in Foreign /\ input = <<>>
  /\ pair = <<0, 0>> /\ adj_mat = {}
  /\ buf \in [1..BufSize -> Garbage]
  /\ off = 0 /\ next = 1 /\ got = <<>> /\ err = FALSE

-----------------------------------------------------------------------------
Edge(p) == IF p[1] > p[2] THEN <<p[2], p[1]>> ELSE p

\* An extraction at the end of the input leaves src and dst as they were.
Extracted == IF Len(file) < Len(input) THEN input[Len(file) + 1] ELSE pair

\* Mutant: the two orders of an edge have entries of their own.
Entry_Directed(p) == p

Entry(p) == Edge(p)

\* One turn of the converter's loop: whatever the input says, the update
\* inserts an edge that is absent and deletes one that is present.
Convert ==
  /\ pc = "convert" /\ Len(file) < NumEdges
  /\ pair' = Extracted
  /\ LET e == Entry(Extracted)
         present == e \in adj_mat
     IN /\ adj_mat' = IF present THEN adj_mat \ {e} ELSE adj_mat \cup {e}
        /\ file' = Append(file, <<IF present THEN DELETE ELSE INSERT, Extracted[1], Extracted[2]>>)
  /\ UNCHANGED <<pc, input, reader>>

\* The converter has written all its updates, or is stopped before that.
EndConvert ==
  /\ pc = "convert"
  /\ pc' = "open"
  /\ UNCHANGED <<input, pair, adj_mat, file, reader>>

-----------------------------------------------------------------------------
\* How many updates a read of the file gets.
ReadNum(from) ==
  LET left == Len(file) + 1 - from
  IN IF left < BufSize THEN left ELSE BufSize

\* read_data: at the end of the file, which is no failure, the rest of the
\* buffer keeps what it held.
ReadData ==
  LET n == ReadNum(next)
  IN /\ buf' = [k \in 1..BufSize |-> IF k <= n THEN file[next + k - 1] ELSE buf[k]]
     /\ next' = next + n
     /\ off' = 0

Open ==
  /\ pc = "open"
  /\ ReadData
  /\ pc' = "validate"
  /\ UNCHANGED <<input, pair, adj_mat, file, got, err>>

\* Mutant: the last node number is one too large.
Legal_OffByOne(u) ==
  /\ u[2] <= NumNodes /\ u[3] <= NumNodes
  /\ u[1] \in {INSERT, DELETE} /\ u[2] # u[3]

Legal(u) ==
  /\ u[2] < NumNodes /\ u[3] < NumNodes
  /\ u[1] \in {INSERT, DELETE} /\ u[2] # u[3]

\* Mutant: the last update of the buffer is left out.
AtEnd_Early == off + 2 = BufSize

AtEnd == off + 1 = BufSize

GetEdge ==
  /\ got' = Append(got, buf[off + 1])
  /\ IF AtEnd THEN ReadData ELSE off' = off + 1 /\ UNCHANGED <<buf, next>>

\* One turn of the validator's loop: get_edge, and the test of its result.
Validate ==
  /\ pc = "validate" /\ Len(got) < NumEdges
  /\ GetEdge
  /\ err' = (err \/ ~Legal(buf[off + 1]))
  /\ UNCHANGED <<pc, input, pair, adj_mat, file>>

\* "Stream validated!" or "Stream invalid!"
Report ==
  /\ pc = "validate" /\ Len(got) = NumEdges
  /\ pc' = "done"
  /\ UNCHANGED <<input, pair, adj_mat, file, reader>>

Next == Convert \/ EndConvert \/ Open \/ Validate \/ Report

Spec == Init /\ [][Next]_vars

-----------------------------------------------------------------------------
TypeOK ==
  /\ pc \in {"convert", "open", "validate", "done"}
  /\ adj_mat \subseteq {p \in (0..(NumNodes - 1)) \X (0..(NumNodes - 1)) : p[1] <= p[2]}
  /\ Len(file) <= NumEdges /\ Len(got) <= NumEdges
  /\ DOMAIN buf = 1..BufSize /\ off \in 0..(BufSize - 1)
  /\ next \in 1..(Len(file) + 1)
  /\ err \in BOOLEAN

EdgeAt(j) == Edge(<<file[j][2], file[j][3]>>)

\* The first n updates that are of the edge e.
UpdatesOf(e, n) == {j \in 1..n : EdgeAt(j) = e}

\* What to_binary_format writes is a stream of the dynamic graph model, also
\* from an input with "double insert or delete before insert"
\* (tools/to_binary_format.cpp:80): the updates of an edge, in whatever order
\* its ends are named, are an insertion, a deletion, an insertion and so on,
\* and the edges are those of the input.
ConvertedToggles ==
  input # <<>> => \A k \in DOMAIN file :
    /\ file[k][1] = Cardinality(UpdatesOf(EdgeAt(k), k - 1)) % 2
    /\ k <= Len(input) => EdgeAt(k) = Edge(input[k])

\* get_edge returns the updates of the file in order, each one once, across
\* the blocks of the buffer, whatever the buffer held before.
ReadsInOrder == \A k \in DOMAIN got : k <= Len(file) => got[k] = file[k]

\* A file that is as long as its header says is reported as valid if and only
\* if each of its updates inserts or deletes an edge between two different
\* nodes of the graph; a shorter one with another update is reported as
\* invalid.
VerdictIsRight ==
  pc = "done" =>
    LET Nodes == 0..(NumNodes - 1)
        legal == \A k \in DOMAIN file : /\ file[k] \in {INSERT, DELETE} \X Nodes \X Nodes
                                       /\ file[k][2] # file[k][3]
    IN /\ ~legal => err
       /\ legal /\ Len(file) = NumEdges => ~err
=============================================================================
