-------------------------- MODULE BinaryGraphStream --------------------------
(***************************************************************************)
(* BinaryGraphStream_MT and its MT_StreamReaders                           *)
(* (include/binary_graph_stream.h): threads that share one file offset,    *)
(* and the client that makes them stop for queries.                        *)
(*                                                                         *)
(* Offsets count edge updates from the end of the header, and an update    *)
(* is its offset.  A reader's buffer is the interval lo..hi-1 it has read  *)
(* and not handed out yet.  The client keeps to what the header asks: it   *)
(* registers a query and resumes the stream only while every               *)
(* reader has returned BREAKPOINT.  So query_index is constant while a     *)
(* reader runs, and what read_data computes from it and from its own       *)
(* variables needs no step of its own: a step is one access to stream_off  *)
(* or query_block, or one pread.                                           *)
(***************************************************************************)
EXTENDS Integers

CONSTANTS
  Readers,     \* the MT_StreamReaders, one per thread
  BufSize,     \* buf_size, in updates
  NumEdges,    \* num_edges of the header: end_of_file
  FileEdges,   \* updates that are in the file
  Never        \* query_index = -1, as an unsigned number

ASSUME StreamAssumption ==
  /\ BufSize \in Nat \ {0} /\ NumEdges \in Nat /\ FileEdges \in Nat
  /\ Never \in Nat /\ Never >= NumEdges
  /\ Readers # {}

VARIABLES
  stream_off, query_index, query_block,
  rpc,                \* control state of each reader
  lo, hi,             \* the block a reader claims, reads and hands out
  open,               \* may the client register a query?
  delivered           \* history: updates get_edge returned

shared == <<stream_off, query_index, query_block>>
vars == <<shared, rpc, lo, hi, open, delivered>>

Least(a, b) == IF a <= b THEN a ELSE b

\* A reader between fetch_add and the end of read_data has claimed the block
\* at read_off, which is lo.
Claiming == {"fetched", "cut", "read"}
AllStopped == \A r \in Readers : rpc[r] = "stopped"

Init ==
  /\ stream_off = 0 /\ query_index = Never /\ query_block = FALSE
  /\ rpc = [r \in Readers |-> "stopped"]
  /\ lo = [r \in Readers |-> 0] /\ hi = [r \in Readers |-> 0]
  /\ open = TRUE
  /\ delivered = {}

-----------------------------------------------------------------------------
(***************************************************************************)
(* The readers: get_edge and read_data.  A read_data that returns 0 makes  *)
(* get_edge return BREAKPOINT, and the reader stops until it is resumed.   *)
(***************************************************************************)
Goto(r, pc) == rpc' = [rpc EXCEPT ![r] = pc]
Hold(r, from, to) == lo' = [lo EXCEPT ![r] = from] /\ hi' = [hi EXCEPT ![r] = to]
Breakpoint(r) == Goto(r, "stopped") /\ Hold(r, 0, 0)

GetEdge(r) ==
  /\ rpc[r] = "ready" /\ lo[r] < hi[r]
  /\ delivered' = delivered \cup {lo[r]}
  /\ Hold(r, lo[r] + 1, hi[r])
  /\ UNCHANGED <<shared, rpc, open>>

\* The three loads of the first test.
TestBlock(r) ==
  /\ rpc[r] = "ready" /\ lo[r] >= hi[r]
  /\ Goto(r, IF query_block THEN "stopped" ELSE "testEnd")
  /\ Hold(r, 0, 0)
  /\ UNCHANGED <<shared, open, delivered>>

TestEnd(r) ==
  /\ rpc[r] = "testEnd"
  /\ Goto(r, IF stream_off >= NumEdges THEN "stopped" ELSE "testQuery")
  /\ UNCHANGED <<shared, lo, hi, open, delivered>>

TestQuery(r) ==
  /\ rpc[r] = "testQuery"
  /\ Goto(r, IF stream_off >= query_index THEN "stopped" ELSE "fetch")
  /\ UNCHANGED <<shared, lo, hi, open, delivered>>

\* Mutant: the next block begins with the last update of this one.
FetchAdd_Overlap(r) ==
  /\ rpc[r] = "fetch"
  /\ Hold(r, stream_off, stream_off)
  /\ stream_off' = stream_off + BufSize - 1
  /\ Goto(r, "fetched")
  /\ UNCHANGED <<query_index, query_block, open, delivered>>

FetchAdd(r) ==
  /\ rpc[r] = "fetch"
  /\ Hold(r, stream_off, stream_off)
  /\ stream_off' = stream_off + BufSize
  /\ Goto(r, "fetched")
  /\ UNCHANGED <<query_index, query_block, open, delivered>>

\* Mutant: a reader that is beyond the query leaves the offset there.
Rewind_Omitted(r) ==
  /\ rpc[r] = "fetched" /\ lo[r] >= query_index
  /\ Breakpoint(r)
  /\ UNCHANGED <<shared, open, delivered>>

\* Another reader reached the query between the test and fetch_add.
Rewind(r) ==
  /\ rpc[r] = "fetched" /\ lo[r] >= query_index
  /\ stream_off' = query_index
  /\ Breakpoint(r)
  /\ UNCHANGED <<query_index, query_block, open, delivered>>

\* Mutant: a block at or after the end of the file is read.
PastEnd_Unchecked(r) ==
  /\ rpc[r] = "fetched" /\ lo[r] < query_index
  /\ Goto(r, "cut") /\ UNCHANGED <<lo, hi>>
  /\ UNCHANGED <<shared, open, delivered>>

\* Another reader reached the end of the stream.
PastEnd(r) ==
  /\ rpc[r] = "fetched" /\ lo[r] < query_index
  /\ IF lo[r] >= NumEdges THEN Breakpoint(r) ELSE Goto(r, "cut") /\ UNCHANGED <<lo, hi>>
  /\ UNCHANGED <<shared, open, delivered>>

\* Mutant: a query before the last update of the block does not cut it.
CutByQuery_Late(r) == query_index >= lo[r] /\ query_index + 1 < lo[r] + BufSize

CutByQuery(r) == query_index >= lo[r] /\ query_index < lo[r] + BufSize

\* Mutant: the end of the file does not cut a block.
CutByEnd_None(end) == end

CutByEnd(end) == Least(end, NumEdges)

\* A query index inside the block cuts it, and stream_off is moved back to
\* it; the end of the file cuts it too.
Cut(r) ==
  /\ rpc[r] = "cut"
  /\ Hold(r, lo[r], CutByEnd(IF CutByQuery(r) THEN query_index ELSE lo[r] + BufSize))
  /\ stream_off' = IF CutByQuery(r) THEN query_index ELSE stream_off
  /\ Goto(r, "read")
  /\ UNCHANGED <<query_index, query_block, open, delivered>>

\* The loop of pread goes on until it has what it asked for.  A pread is short
\* only at the end of the file; there it returns 0 for ever.
Pread(r) ==
  /\ rpc[r] = "read"
  /\ Goto(r, IF hi[r] <= FileEdges THEN "ready" ELSE "read")
  /\ UNCHANGED <<shared, lo, hi, open, delivered>>

Reader(r) ==
  \/ GetEdge(r) \/ TestBlock(r) \/ TestEnd(r) \/ TestQuery(r) \/ FetchAdd(r)
  \/ Rewind(r) \/ PastEnd(r) \/ Cut(r) \/ Pread(r)

-----------------------------------------------------------------------------
(***************************************************************************)
(* The client.                                                             *)
(***************************************************************************)
\* register_query, before the readers are started or resumed.
RegisterQuery(idx) ==
  /\ open
  /\ IF idx <= stream_off THEN UNCHANGED query_index ELSE query_index' = idx
  /\ UNCHANGED <<stream_off, query_block, rpc, lo, hi, open, delivered>>

StreamReset ==
  /\ open
  /\ stream_off' = 0
  /\ delivered' = {}
  /\ UNCHANGED <<query_index, query_block, rpc, lo, hi, open>>

Start ==
  /\ open
  /\ open' = FALSE
  /\ rpc' = [r \in Readers |-> "ready"]
  /\ UNCHANGED <<shared, lo, hi, delivered>>

OnDemandQuery ==
  /\ ~open /\ ~query_block
  /\ query_block' = TRUE
  /\ UNCHANGED <<stream_off, query_index, rpc, lo, hi, open, delivered>>

\* Mutant: query_index is a signed number, so that -1 is less than any offset.
PostQueryResume_Signed ==
  /\ ~open /\ AllStopped
  /\ query_block' = FALSE /\ query_index' = -1
  /\ open' = TRUE
  /\ UNCHANGED <<stream_off, rpc, lo, hi, delivered>>

\* The query has been performed; a registered one is forgotten with it, also if
\* its index was not reached.
PostQueryResume ==
  /\ ~open /\ AllStopped
  /\ query_block' = FALSE /\ query_index' = Never
  /\ open' = TRUE
  /\ UNCHANGED <<stream_off, rpc, lo, hi, delivered>>

\* An index one past the end stands for every index beyond it.
Next ==
  \/ \E r \in Readers : Reader(r)
  \/ \E idx \in 0..(NumEdges + 1) : RegisterQuery(idx)
  \/ StreamReset \/ Start \/ OnDemandQuery \/ PostQueryResume

Spec == Init /\ [][Next]_vars

\* Every reader thread is scheduled.
FairSpec == Spec /\ \A r \in Readers : WF_vars(Reader(r))

-----------------------------------------------------------------------------
TypeOK ==
  /\ stream_off \in Nat /\ query_index \in Nat
  /\ query_block \in BOOLEAN /\ open \in BOOLEAN
  /\ rpc \in [Readers -> {"stopped", "ready", "testEnd", "testQuery", "fetch"} \cup Claiming]
  /\ lo \in [Readers -> Nat] /\ hi \in [Readers -> Nat]
  /\ delivered \subseteq Nat

\* The updates before the next query or the end of the stream, whichever
\* comes first.
Limit == Least(query_index, NumEdges)

\* A reader owns the updates of a block that it has claimed with fetch_add, and
\* those in its buffer.
Owns(r, x) ==
  /\ lo[r] <= x
  /\ IF rpc[r] \in Claiming THEN x < lo[r] + BufSize /\ x < Limit ELSE x < hi[r]

Updates == 0..(NumEdges - 1)

\* However the readers race past each other at fetch_add, no update reaches
\* two of them, and none is handed out twice.
NoUpdateTwice ==
  \A r \in Readers, x \in Updates : Owns(r, x) =>
    x \notin delivered /\ \A s \in Readers \ {r} : ~Owns(s, x)

\* "If all threads do not return BREAKPOINT then not all updates have been
\* applied" (include/binary_graph_stream.h:110), and once they have, the
\* updates handed out are exactly those before the shared offset: none was
\* skipped when readers overshot a query.  Unless the stop is an on-demand
\* query, it is at the registered index or at the end of the stream.
StopsAtPrefix ==
  ~open /\ AllStopped =>
    /\ delivered = 0..(Least(stream_off, Limit) - 1)
    /\ query_index < NumEdges => stream_off <= query_index
    /\ ~query_block => delivered = 0..(Limit - 1)

\* No update at or after the index of a registered query is handed out, or
\* lies in a buffer, before the stream is resumed from the query.
NothingPastQuery ==
  /\ delivered \subseteq 0..(Limit - 1)
  /\ \A r \in Readers : lo[r]..(hi[r] - 1) \subseteq 0..(Limit - 1)

\* Readers that were started all return BREAKPOINT in the end, whatever
\* queries overtake them.  The loop around pread ends because the file holds
\* what its header says: on a shorter one it does not.
ReadersStop == ~open ~> AllStopped

-----------------------------------------------------------------------------
(***************************************************************************)
(* The inductive invariant behind the safety properties.                   *)
(***************************************************************************)
\* The updates below this offset have been given away by fetch_add.
Given == Least(stream_off, Limit)

\* What a reader's control state says about its block and its buffer.
BlockInv(r) ==
  /\ rpc[r] \in {"stopped", "testEnd", "testQuery", "fetch"} => lo[r] = 0 /\ hi[r] = 0
  /\ rpc[r] = "ready" => hi[r] <= Given
  /\ rpc[r] \in Claiming => Least(lo[r] + BufSize, Limit) <= stream_off
  /\ rpc[r] \in {"fetched", "cut"} => hi[r] = lo[r]
  /\ rpc[r] \in {"cut", "read"} => lo[r] < Limit
  /\ rpc[r] = "read" => hi[r] = Least(lo[r] + BufSize, Limit)

\* Every update that was given away is handed out, or owned by a reader, and
\* nothing else is handed out.
Covered ==
  /\ delivered \subseteq 0..(Given - 1)
  /\ \A x \in Updates : x < Given => x \in delivered \/ \E r \in Readers : Owns(r, x)

\* When stream_off is beyond a query, a reader is about to move it back.
WillRewind(r) == rpc[r] \in {"fetched", "cut"} /\ query_index < lo[r] + BufSize
Overshoot ==
  query_index < NumEdges /\ query_index < stream_off => \E r \in Readers : WillRewind(r)

\* The client registers queries only between runs, and a reader that stopped
\* by itself saw the query or the end of the stream.
StopInv ==
  /\ open => AllStopped /\ ~query_block
  /\ ~open /\ ~query_block =>
       \A r \in Readers : rpc[r] = "stopped" => Limit <= stream_off

\* The inductive invariant: read_data keeps the account of the updates that
\* fetch_add has given away, although stream_off moves back and forth.
StreamInv ==
  /\ \A r \in Readers : BlockInv(r)
  /\ NoUpdateTwice /\ Covered /\ Overshoot /\ StopInv
=============================================================================
