------------------------ MODULE ProcessStreamProofs -------------------------
(***************************************************************************)
(* Safety of BinaryGraphStream and of process_stream, for any number of    *)
(* readers, any size of their buffers and any length of the stream and of  *)
(* the file.  The theorems about Spec are those of the readers and their   *)
(* client.  Process_stream implements that and Ingest, and the theorems    *)
(* about ProcessSpec follow from both.                                     *)
(***************************************************************************)
EXTENDS ProcessStream, TLAPS

USE DEF Claiming, Least

(***************************************************************************)
(* Type correctness.                                                       *)
(***************************************************************************)
\* Every step of a reader keeps the types.
LEMMA TypeReader ==
  ASSUME TypeOK, NEW r \in Readers, Reader(r)
  PROVE  TypeOK'
<1> USE StreamAssumption, TypeOK DEF TypeOK, shared, Goto, Hold, Breakpoint
<1>1. CASE GetEdge(r)
  <2>1. lo[r] \in Nat /\ lo[r] + 1 \in Nat
    OBVIOUS
  <2>2. delivered' \subseteq Nat
    BY Zenon, <1>1, <2>1 DEF GetEdge
  <2>3. lo' \in [Readers -> Nat] /\ hi' \in [Readers -> Nat]
    BY <1>1, <2>1 DEF GetEdge
  <2>4. QED
    BY <1>1, <2>2, <2>3 DEF GetEdge
<1>2. CASE TestBlock(r)
  <2>1. rpc' \in [Readers -> {"stopped", "ready", "testEnd", "testQuery", "fetch"} \cup Claiming]
    BY <1>2 DEF TestBlock
  <2>2. lo' \in [Readers -> Nat] /\ hi' \in [Readers -> Nat]
    BY <1>2 DEF TestBlock
  <2>3. QED
    BY <1>2, <2>1, <2>2 DEF TestBlock
<1>3. CASE TestEnd(r) \/ TestQuery(r)
  BY Zenon, <1>3 DEF TestEnd, TestQuery
<1>4. CASE FetchAdd(r)
  BY <1>4 DEF FetchAdd
<1>5. CASE Rewind(r)
  <2>1. lo' \in [Readers -> Nat] /\ hi' \in [Readers -> Nat]
    BY <1>5 DEF Rewind
  <2>2. QED
    BY <1>5, <2>1 DEF Rewind
<1>6. CASE PastEnd(r)
  <2>1. lo' \in [Readers -> Nat] /\ hi' \in [Readers -> Nat]
    BY <1>6 DEF PastEnd
  <2>2. QED
    BY <1>6, <2>1 DEF PastEnd
<1>7. CASE Cut(r)
  BY <1>7 DEF Cut, CutByQuery, CutByEnd
<1>8. CASE Pread(r)
  BY <1>8 DEF Pread
<1>9. QED
  BY <1>1, <1>2, <1>3, <1>4, <1>5, <1>6, <1>7, <1>8, Reader(r) DEF Reader

\* Every step keeps the types.
LEMMA TypeNext == TypeOK /\ [Next]_vars => TypeOK'
<1> SUFFICES ASSUME TypeOK, [Next]_vars PROVE TypeOK'
  OBVIOUS
<1> USE StreamAssumption DEF TypeOK, shared
<1>1. CASE UNCHANGED vars
  BY <1>1 DEF vars
<1>2. ASSUME NEW r \in Readers, Reader(r) PROVE TypeOK'
  BY <1>2, TypeReader
<1>3. ASSUME NEW idx \in 0..(NumEdges + 1), RegisterQuery(idx) PROVE TypeOK'
  BY <1>3 DEF RegisterQuery
<1>4. CASE StreamReset
  <2>1. stream_off' \in Nat /\ delivered' \subseteq Nat
    BY <1>4 DEF StreamReset
  <2>2. QED
    BY <1>4, <2>1 DEF StreamReset
<1>5. CASE Start
  BY Zenon, <1>5 DEF Start
<1>6. CASE OnDemandQuery \/ PostQueryResume
  BY Zenon, <1>6 DEF OnDemandQuery, PostQueryResume
<1>7. QED
  BY <1>1, <1>2, <1>3, <1>4, <1>5, <1>6 DEF Next

\* The shared offsets, the readers and the client stay well typed.
THEOREM TypeCorrect == Spec => []TypeOK
<1>1. ASSUME Init PROVE TypeOK
  <2>1. stream_off \in Nat /\ query_index \in Nat
    BY <1>1, StreamAssumption DEF Init
  <2>2. lo \in [Readers -> Nat] /\ hi \in [Readers -> Nat] /\ delivered \subseteq Nat
    BY <1>1 DEF Init
  <2>3. QED
    BY Zenon, <1>1, <2>1, <2>2 DEF Init, TypeOK
<1>2. QED
  BY <1>1, TypeNext, PTL DEF Spec

-----------------------------------------------------------------------------
(***************************************************************************)
(* The inductive invariant.                                                *)
(***************************************************************************)
USE DEF Limit, Given, Updates, Owns

\* get_edge moves the first update of the buffer to those handed out.
LEMMA GetEdgeInv ==
  ASSUME TypeOK, TypeOK', StreamInv, NEW r \in Readers, GetEdge(r)
  PROVE  StreamInv'
<1> USE StreamAssumption DEF TypeOK, shared, Hold, GetEdge, StreamInv
<1>1. /\ lo' = [lo EXCEPT ![r] = lo[r] + 1] /\ UNCHANGED <<hi, rpc, stream_off, query_index>>
      /\ delivered' = delivered \cup {lo[r]} /\ UNCHANGED <<open, query_block>>
  BY TypeOK, GetEdge(r)
<1>2. hi[r] <= Given /\ lo[r] \in Updates /\ lo[r] < Given /\ rpc[r] = "ready" /\ Owns(r, lo[r])
  BY TypeOK, StreamInv, GetEdge(r) DEF BlockInv
<1>3. ASSUME NEW s \in Readers PROVE BlockInv(s)'
  BY <1>1, <1>2, TypeOK, StreamInv DEF BlockInv
<1>4. ASSUME NEW s \in Readers, NEW x \in Updates
      PROVE  Owns(s, x)' <=> Owns(s, x) /\ ~(s = r /\ x = lo[r])
  BY <1>1, <1>2, TypeOK
<1>5. NoUpdateTwice'
  BY <1>1, <1>2, <1>4, StreamInv DEF NoUpdateTwice
<1>6. Covered'
  <2>1. delivered' \subseteq 0..(Given' - 1)
    BY <1>1, <1>2, TypeOK, StreamInv DEF Covered
  <2>2. ASSUME NEW x \in Updates, x < Given'
        PROVE  x \in delivered' \/ \E s \in Readers : Owns(s, x)'
    <3>1. x < Given
      BY <1>1, <2>2
    <3>2. x \in delivered \/ \E s \in Readers : Owns(s, x)
      BY <3>1, StreamInv DEF Covered
    <3>3. QED
      BY <1>1, <1>4, <3>2
  <2>3. QED
    BY <2>1, <2>2 DEF Covered
<1>7. Overshoot' /\ StopInv'
  BY <1>1, <1>2, TypeOK, StreamInv DEF Overshoot, WillRewind, StopInv, AllStopped
<1>8. QED
  BY <1>3, <1>5, <1>6, <1>7

\* A step that changes neither what is given away nor who owns what keeps the
\* account of the updates.
LEMMA SameOwners ==
  ASSUME NoUpdateTwice, Covered, delivered' = delivered, Given' = Given,
         \A s \in Readers, x \in Updates : Owns(s, x)' <=> Owns(s, x)
  PROVE  NoUpdateTwice' /\ Covered'
<1>1. Updates' = Updates
  OBVIOUS
<1> HIDE DEF Owns, Given, Updates
<1>2. NoUpdateTwice'
  BY <1>1 DEF NoUpdateTwice
<1>3. Covered'
  BY <1>1 DEF Covered
<1>4. QED
  BY <1>2, <1>3

\* The tests at the head of read_data, and the return of pread.
LEMMA TestInv ==
  ASSUME TypeOK, TypeOK', StreamInv, NEW r \in Readers,
         TestBlock(r) \/ TestEnd(r) \/ TestQuery(r) \/ Pread(r)
  PROVE  StreamInv'
<1> USE StreamAssumption DEF TypeOK, StreamInv
<1>1. /\ UNCHANGED <<stream_off, query_index, query_block, delivered, open>>
      /\ rpc' = [rpc EXCEPT ![r] = rpc'[r]]
      /\ lo' = [lo EXCEPT ![r] = lo'[r]] /\ hi' = [hi EXCEPT ![r] = hi'[r]]
  BY TypeOK DEF TestBlock, TestEnd, TestQuery, Pread, Goto, Hold, shared
<1>2. \/ /\ rpc[r] = "ready" /\ lo[r] >= hi[r] /\ lo'[r] = 0 /\ hi'[r] = 0
         /\ rpc'[r] = (IF query_block THEN "stopped" ELSE "testEnd")
      \/ /\ rpc[r] = "testEnd" /\ lo'[r] = lo[r] /\ hi'[r] = hi[r]
         /\ rpc'[r] = (IF stream_off >= NumEdges THEN "stopped" ELSE "testQuery")
      \/ /\ rpc[r] = "testQuery" /\ lo'[r] = lo[r] /\ hi'[r] = hi[r]
         /\ rpc'[r] = (IF stream_off >= query_index THEN "stopped" ELSE "fetch")
      \/ /\ rpc[r] = "read" /\ lo'[r] = lo[r] /\ hi'[r] = hi[r]
         /\ rpc'[r] \in {"ready", "read"}
  BY TypeOK DEF TestBlock, TestEnd, TestQuery, Pread, Goto, Hold
<1>3. ASSUME NEW s \in Readers PROVE BlockInv(s)'
  BY <1>1, <1>2, TypeOK, TypeOK', StreamInv DEF BlockInv
<1>4. ASSUME NEW s \in Readers, NEW x \in Updates PROVE Owns(s, x)' <=> Owns(s, x)
  BY <1>1, <1>2, TypeOK, TypeOK', StreamInv DEF BlockInv
<1>5. NoUpdateTwice' /\ Covered'
  BY <1>1, <1>4, StreamInv, SameOwners
<1>6. Overshoot'
  BY <1>1, <1>2, TypeOK, StreamInv DEF Overshoot, WillRewind
<1>7. StopInv'
  BY <1>1, <1>2, TypeOK, StreamInv DEF StopInv, AllStopped
<1>8. QED
  BY <1>3, <1>5, <1>6, <1>7

\* fetch_add gives the next block to its reader.
LEMMA FetchInv ==
  ASSUME TypeOK, TypeOK', StreamInv, NEW r \in Readers, FetchAdd(r)
  PROVE  StreamInv'
<1> USE StreamAssumption DEF TypeOK, StreamInv
<1>1. /\ UNCHANGED <<query_index, query_block, delivered, open>>
      /\ rpc[r] = "fetch" /\ stream_off' = stream_off + BufSize
      /\ rpc' = [rpc EXCEPT ![r] = "fetched"]
      /\ lo' = [lo EXCEPT ![r] = stream_off] /\ hi' = [hi EXCEPT ![r] = stream_off]
  BY FetchAdd(r) DEF FetchAdd, Goto, Hold
<1>2. ASSUME NEW s \in Readers PROVE BlockInv(s)'
  BY <1>1, TypeOK, TypeOK', StreamInv DEF BlockInv
<1>3. ASSUME NEW s \in Readers, NEW x \in Updates, Owns(s, x) PROVE x < Given
  BY <1>3, TypeOK, StreamInv DEF BlockInv
<1>4. ASSUME NEW s \in Readers, NEW x \in Updates
      PROVE  Owns(s, x)' <=> IF s = r THEN stream_off <= x /\ x < Given' ELSE Owns(s, x)
  BY <1>1, TypeOK
<1>5. ASSUME NEW x \in Updates PROVE ~Owns(r, x)
  BY <1>1, TypeOK, StreamInv DEF BlockInv
<1>6. ASSUME NEW x \in delivered PROVE x \in Updates /\ x < Given
  BY TypeOK, StreamInv DEF Covered
<1>7. NoUpdateTwice'
  <2> SUFFICES ASSUME NEW s \in Readers, NEW x \in Updates, Owns(s, x)'
               PROVE  x \notin delivered' /\ \A t \in Readers \ {s} : ~Owns(t, x)'
    BY DEF NoUpdateTwice
  <2>1. CASE s = r
    <3>1. stream_off <= x /\ ~(x < Given)
      BY <1>4, <2>1, TypeOK
    <3>2. QED
      BY <1>1, <1>3, <1>4, <1>6, <2>1, <3>1
  <2>2. CASE s # r
    <3>1. Owns(s, x) /\ x < Given /\ ~(stream_off <= x)
      BY <1>3, <1>4, <2>2, TypeOK
    <3>2. QED
      BY <1>1, <1>4, <2>2, <3>1, StreamInv DEF NoUpdateTwice
  <2>3. QED
    BY <2>1, <2>2
<1>8. Covered'
  <2>1. delivered' \subseteq 0..(Given' - 1)
    <3>1. Given <= Given' /\ Given \in Nat /\ Given' \in Nat
      BY <1>1, TypeOK
    <3>2. QED
      BY <1>1, <1>6, <3>1
  <2>2. ASSUME NEW x \in Updates, x < Given'
        PROVE  x \in delivered' \/ \E s \in Readers : Owns(s, x)'
    <3>1. CASE stream_off <= x
      BY <1>4, <2>2, <3>1
    <3>2. CASE ~(stream_off <= x)
      <4>1. x < Given
        BY <1>1, <2>2, <3>2, TypeOK
      <4>2. x \in delivered \/ \E s \in Readers : Owns(s, x)
        BY <4>1, StreamInv DEF Covered
      <4>3. QED
        BY <1>1, <1>4, <1>5, <4>2
    <3>3. QED
      BY <3>1, <3>2
  <2>3. QED
    BY Zenon, <2>1, <2>2 DEF Covered
<1>9. Overshoot'
  <2>1. CASE query_index < stream_off
    BY <1>1, <2>1, TypeOK, StreamInv DEF Overshoot, WillRewind
  <2>2. CASE ~(query_index < stream_off)
    BY <1>1, <2>2, TypeOK DEF Overshoot, WillRewind
  <2>3. QED
    BY <2>1, <2>2
<1>10. StopInv'
  BY <1>1, TypeOK, StreamInv DEF StopInv, AllStopped
<1>11. QED
  BY <1>2, <1>7, <1>8, <1>9, <1>10

\* A reader beyond the query or the end of the stream owns nothing and gives
\* its block back; one within them goes on.
LEMMA BeyondInv ==
  ASSUME TypeOK, TypeOK', StreamInv, NEW r \in Readers, Rewind(r) \/ PastEnd(r)
  PROVE  StreamInv'
<1> USE StreamAssumption DEF TypeOK, StreamInv
<1>1. /\ UNCHANGED <<query_index, query_block, delivered, open>> /\ rpc[r] = "fetched"
      /\ rpc' = [rpc EXCEPT ![r] = rpc'[r]]
      /\ lo' = [lo EXCEPT ![r] = lo'[r]] /\ hi' = [hi EXCEPT ![r] = hi'[r]]
  BY TypeOK DEF Rewind, PastEnd, Breakpoint, Goto, Hold, shared
<1>2. \/ /\ lo[r] >= query_index /\ stream_off' = query_index
         /\ rpc'[r] = "stopped" /\ lo'[r] = 0 /\ hi'[r] = 0
      \/ /\ lo[r] < query_index /\ lo[r] >= NumEdges /\ stream_off' = stream_off
         /\ rpc'[r] = "stopped" /\ lo'[r] = 0 /\ hi'[r] = 0
      \/ /\ lo[r] < query_index /\ lo[r] < NumEdges /\ stream_off' = stream_off
         /\ rpc'[r] = "cut" /\ lo'[r] = lo[r] /\ hi'[r] = hi[r]
  BY TypeOK DEF Rewind, PastEnd, Breakpoint, Goto, Hold, shared
<1>3. Least(lo[r] + BufSize, Limit) <= stream_off /\ hi[r] = lo[r]
  BY <1>1, StreamInv DEF BlockInv
<1>4. Given' = Given
  BY <1>1, <1>2, <1>3, TypeOK
<1>5. ASSUME NEW s \in Readers PROVE BlockInv(s)'
  BY <1>1, <1>2, <1>3, TypeOK, TypeOK', StreamInv DEF BlockInv
<1>6. ASSUME NEW s \in Readers, NEW x \in Updates PROVE Owns(s, x)' <=> Owns(s, x)
  BY <1>1, <1>2, <1>3, TypeOK, TypeOK'
<1>7. NoUpdateTwice' /\ Covered'
  BY <1>1, <1>4, <1>6, StreamInv, SameOwners
<1>8. Overshoot'
  BY <1>1, <1>2, TypeOK, StreamInv DEF Overshoot, WillRewind
<1>9. StopInv'
  BY <1>1, <1>2, <1>3, TypeOK, StreamInv DEF StopInv, AllStopped
<1>10. QED
  BY <1>5, <1>7, <1>8, <1>9

\* The cut sets the end of the buffer, and stream_off to a query in the block.
LEMMA CutInv ==
  ASSUME TypeOK, TypeOK', StreamInv, NEW r \in Readers, Cut(r)
  PROVE  StreamInv'
<1> USE StreamAssumption DEF TypeOK, StreamInv
<1>1. /\ UNCHANGED <<query_index, query_block, delivered, open, lo>> /\ rpc[r] = "cut"
      /\ rpc' = [rpc EXCEPT ![r] = "read"]
      /\ hi' = [hi EXCEPT ![r] = hi'[r]]
  BY TypeOK, Cut(r) DEF Cut, Goto, Hold
<1>2. lo[r] < Limit /\ Least(lo[r] + BufSize, Limit) <= stream_off
  BY <1>1, StreamInv DEF BlockInv
<1>3. /\ hi'[r] = Least(lo[r] + BufSize, Limit)
      /\ stream_off' = IF query_index < lo[r] + BufSize THEN query_index ELSE stream_off
  BY <1>2, TypeOK, Cut(r) DEF Cut, Hold, CutByQuery, CutByEnd
<1>4. Given' = Given
  BY <1>1, <1>2, <1>3, TypeOK
<1>5. ASSUME NEW s \in Readers PROVE BlockInv(s)'
  BY SMTT(30), <1>1, <1>2, <1>3, TypeOK, TypeOK', StreamInv DEF BlockInv
<1>6. ASSUME NEW s \in Readers, NEW x \in Updates PROVE Owns(s, x)' <=> Owns(s, x)
  BY <1>1, TypeOK, TypeOK'
<1>7. NoUpdateTwice' /\ Covered'
  BY <1>1, <1>4, <1>6, StreamInv, SameOwners
<1>8. Overshoot'
  BY <1>1, <1>3, TypeOK, StreamInv DEF Overshoot, WillRewind
<1>9. StopInv'
  BY <1>1, <1>2, <1>3, TypeOK, StreamInv DEF StopInv, AllStopped
<1>10. QED
  BY <1>5, <1>7, <1>8, <1>9

\* When all readers have stopped, no one owns an update and stream_off is not
\* beyond a query.
LEMMA AtRest ==
  ASSUME TypeOK, StreamInv, AllStopped
  PROVE  /\ \A s \in Readers, x \in Updates : ~Owns(s, x)
         /\ query_index < NumEdges => stream_off <= query_index
         /\ Given = Least(stream_off, NumEdges)
<1> USE StreamAssumption DEF TypeOK, StreamInv, AllStopped
<1>1. \A s \in Readers, x \in Updates : ~Owns(s, x)
  BY TypeOK, StreamInv, AllStopped DEF BlockInv
<1>2. query_index < NumEdges => stream_off <= query_index
  BY TypeOK, StreamInv, AllStopped DEF Overshoot, WillRewind
<1>3. QED
  BY <1>1, <1>2, TypeOK

\* The calls of the client.
LEMMA ClientInv ==
  ASSUME TypeOK, TypeOK', StreamInv,
         \/ \E idx \in 0..(NumEdges + 1) : RegisterQuery(idx)
         \/ StreamReset \/ Start \/ OnDemandQuery \/ PostQueryResume
  PROVE  StreamInv'
<1> USE StreamAssumption DEF TypeOK, StreamInv, shared
<1>1. ASSUME NEW idx \in 0..(NumEdges + 1), RegisterQuery(idx) PROVE StreamInv'
  <2>1. /\ AllStopped /\ open /\ UNCHANGED <<stream_off, query_block, rpc, lo, hi, open, delivered>>
        /\ query_index' = query_index \/ query_index' > stream_off
    BY <1>1, TypeOK, StreamInv DEF RegisterQuery, StopInv
  <2>2. Given' = Given
    BY <2>1, AtRest, TypeOK, TypeOK', StreamInv
  <2>3. \A s \in Readers : BlockInv(s)'
    BY <2>1, TypeOK, StreamInv DEF BlockInv, AllStopped
  <2>4. \A s \in Readers, x \in Updates : Owns(s, x)' <=> Owns(s, x)
    BY <2>1, TypeOK, StreamInv DEF AllStopped
  <2>5. Overshoot'
    BY <2>1, AtRest, TypeOK, TypeOK', StreamInv DEF Overshoot
  <2>6. StopInv'
    BY <2>1, StreamInv DEF StopInv, AllStopped
  <2>7. QED
    BY <2>1, <2>2, <2>3, <2>4, <2>5, <2>6, SameOwners, StreamInv
<1>2. CASE StreamReset
  <2>1. /\ AllStopped /\ open /\ UNCHANGED <<query_index, query_block, rpc, lo, hi, open>>
        /\ stream_off' = 0 /\ delivered' = {}
    BY <1>2, StreamInv DEF StreamReset, StopInv
  <2>2. \A s \in Readers : BlockInv(s)'
    BY <2>1, TypeOK, StreamInv DEF BlockInv, AllStopped
  <2>3. NoUpdateTwice' /\ Covered' /\ Overshoot'
    BY SMTT(30), <2>1, TypeOK, StreamInv DEF NoUpdateTwice, Covered, Overshoot
  <2>4. StopInv'
    BY <2>1, StreamInv DEF StopInv, AllStopped
  <2>5. QED
    BY <2>2, <2>3, <2>4
<1>3. CASE Start \/ OnDemandQuery
  <2>1. /\ UNCHANGED <<stream_off, query_index, lo, hi, delivered>>
        /\ \/ UNCHANGED <<rpc, open>> /\ query_block' = TRUE /\ ~open
           \/ AllStopped /\ rpc' = [s \in Readers |-> "ready"] /\ open' = FALSE
    BY <1>3, StreamInv DEF Start, OnDemandQuery, StopInv
  <2>2. \A s \in Readers : BlockInv(s)'
    BY <2>1, TypeOK, StreamInv DEF BlockInv, AllStopped
  <2>3. \A s \in Readers, x \in Updates : Owns(s, x)' <=> Owns(s, x)
    BY <2>1, TypeOK DEF AllStopped
  <2>4. Overshoot'
    BY <2>1, TypeOK, StreamInv DEF Overshoot, WillRewind, AllStopped
  <2>5. StopInv'
    BY <2>1, StreamInv DEF StopInv, AllStopped
  <2>6. QED
    BY <2>1, <2>2, <2>3, <2>4, <2>5, SameOwners, StreamInv
<1>4. CASE PostQueryResume
  <2>1. /\ AllStopped /\ UNCHANGED <<stream_off, rpc, lo, hi, delivered>>
        /\ query_index' = Never /\ query_block' = FALSE /\ open' = TRUE
    BY <1>4 DEF PostQueryResume
  <2>2. Given' = Given
    BY <2>1, AtRest, TypeOK, TypeOK', StreamInv
  <2>3. \A s \in Readers : BlockInv(s)'
    BY <2>1, TypeOK, StreamInv DEF BlockInv, AllStopped
  <2>4. \A s \in Readers, x \in Updates : Owns(s, x)' <=> Owns(s, x)
    BY <2>1, TypeOK DEF AllStopped
  <2>5. Overshoot' /\ StopInv'
    BY <2>1 DEF Overshoot, StopInv, AllStopped
  <2>6. QED
    BY <2>1, <2>2, <2>3, <2>4, <2>5, SameOwners, StreamInv
<1>5. QED
  BY <1>1, <1>2, <1>3, <1>4

\* Every step keeps the inductive invariant.
LEMMA StreamInvNext == TypeOK /\ TypeOK' /\ StreamInv /\ [Next]_vars => StreamInv'
<1> SUFFICES ASSUME TypeOK, TypeOK', StreamInv, [Next]_vars PROVE StreamInv'
  OBVIOUS
<1>1. CASE UNCHANGED vars
  <2>1. UNCHANGED <<stream_off, query_index, query_block, rpc, lo, hi, open, delivered>>
    BY Zenon, <1>1 DEF vars, shared
  <2>2. Limit' = Limit /\ Given' = Given /\ \A r \in Readers, x \in Updates : Owns(r, x)' <=> Owns(r, x)
    BY Zenon, <2>1 DEF Limit, Given, Least, Owns
  <2>3. \A r \in Readers : BlockInv(r)'
    BY <2>1, <2>2 DEF StreamInv, BlockInv, Least
  <2>4. NoUpdateTwice' /\ Covered'
    BY Zenon, <2>1, <2>2 DEF StreamInv, NoUpdateTwice, Covered
  <2>5. Overshoot' /\ StopInv'
    BY Zenon, <2>1, <2>2 DEF StreamInv, Overshoot, WillRewind, StopInv, AllStopped
  <2>6. QED
    BY Zenon, <2>3, <2>4, <2>5 DEF StreamInv
<1>2. ASSUME NEW r \in Readers, Reader(r) PROVE StreamInv'
  BY <1>2, GetEdgeInv, TestInv, FetchInv, BeyondInv, CutInv DEF Reader
<1>3. QED
  BY <1>1, <1>2, ClientInv DEF Next

-----------------------------------------------------------------------------
(***************************************************************************)
(* The theorems.                                                           *)
(***************************************************************************)
\* The account of the updates that fetch_add has given away is kept by every
\* call of read_data, get_edge and the client.
THEOREM AccountIsKept == Spec => []StreamInv
<1>1. Init => StreamInv
  <2> SUFFICES ASSUME Init PROVE StreamInv
    OBVIOUS
  <2>1. \A r \in Readers : BlockInv(r)
    BY Zenon DEF Init, BlockInv
  <2>2. NoUpdateTwice /\ Covered /\ Overshoot
    BY StreamAssumption DEF Init, NoUpdateTwice, Covered, Overshoot
  <2>3. StopInv
    BY DEF Init, StopInv, AllStopped
  <2>4. QED
    BY <2>1, <2>2, <2>3 DEF StreamInv
<1>2. QED
  BY <1>1, StreamInvNext, TypeCorrect, PTL DEF Spec

\* No update reaches two readers of the stream, or one of them twice.
THEOREM NoReaderRepeats == Spec => []NoUpdateTwice
<1>1. StreamInv => NoUpdateTwice
  BY DEF StreamInv
<1>2. QED
  BY <1>1, AccountIsKept, PTL

\* When every get_edge has returned BREAKPOINT, exactly the updates before the
\* shared offset have been handed out, and the offset is where it should be.
THEOREM StopsAreComplete == Spec => []StopsAtPrefix
<1>1. TypeOK /\ StreamInv => StopsAtPrefix
  <2> SUFFICES ASSUME TypeOK, StreamInv, ~open, AllStopped
               PROVE  /\ delivered = 0..(Least(stream_off, Limit) - 1)
                      /\ query_index < NumEdges => stream_off <= query_index
                      /\ ~query_block => delivered = 0..(Limit - 1)
    BY DEF StopsAtPrefix
  <2>1. Given \in Nat /\ Given <= NumEdges
    BY StreamAssumption DEF TypeOK
  <2>2. ASSUME NEW x \in 0..(Given - 1) PROVE x \in delivered
    <3>1. x \in Updates /\ x < Given
      BY <2>1, StreamAssumption
    <3>2. QED
      BY <3>1, AtRest DEF StreamInv, Covered
  <2>3. delivered = 0..(Given - 1)
    BY Zenon, <2>2 DEF StreamInv, Covered
  <2>4. ~query_block => Given = Limit
    <3>1. PICK r \in Readers : TRUE
      BY StreamAssumption
    <3>2. ~query_block => Limit <= stream_off
      BY <3>1 DEF StreamInv, StopInv, AllStopped
    <3>3. QED
      BY <3>2, StreamAssumption DEF TypeOK
  <2>5. query_index < NumEdges => stream_off <= query_index
    BY AtRest
  <2>6. QED
    BY <2>3, <2>4, <2>5
<1>2. QED
  BY <1>1, AccountIsKept, TypeCorrect, PTL

\* No reader holds or hands out an update at or after a registered query.
THEOREM QueriesCutTheStream == Spec => []NothingPastQuery
<1>1. TypeOK /\ StreamInv => NothingPastQuery
  <2> SUFFICES ASSUME TypeOK, StreamInv PROVE NothingPastQuery
    OBVIOUS
  <2>1. delivered \subseteq 0..(Limit - 1)
    BY StreamAssumption DEF TypeOK, StreamInv, Covered
  <2>2. ASSUME NEW r \in Readers PROVE hi[r] <= Limit \/ hi[r] <= lo[r]
    BY StreamAssumption DEF TypeOK, StreamInv, BlockInv
  <2>3. \A r \in Readers : lo[r]..(hi[r] - 1) \subseteq 0..(Limit - 1)
    <3> SUFFICES ASSUME NEW r \in Readers, NEW x \in lo[r]..(hi[r] - 1)
                 PROVE  x \in 0..(Limit - 1)
      BY Zenon
    <3>1. lo[r] \in Nat /\ hi[r] \in Nat /\ Limit \in Nat
      BY StreamAssumption DEF TypeOK
    <3> HIDE DEF Limit
    <3>2. QED
      BY <2>2, <3>1
  <2>4. QED
    BY <2>1, <2>3 DEF NothingPastQuery
<1>2. QED
  BY <1>1, AccountIsKept, TypeCorrect, PTL

-----------------------------------------------------------------------------
(***************************************************************************)
(* The process implements its parts.                                       *)
(***************************************************************************)
\* What a thread of the process does to the stream, a reader or the client of
\* BinaryGraphStream may do.
LEMMA StreamStep == [ProcessNext]_processVars => [Next]_vars
<1> SUFFICES ASSUME [ProcessNext]_processVars PROVE [Next]_vars
  OBVIOUS
<1> USE DEF streamVars
<1>1. ASSUME NEW r \in Readers, TakeEdge(r) PROVE Next
  BY <1>1 DEF TakeEdge, Next, Reader
<1>2. ASSUME NEW r \in Readers, ReadData(r) PROVE Next
  BY <1>2 DEF ReadData, Next
<1>3. CASE StartReaders
  BY <1>3 DEF StartReaders, Next
<1>4. ASSUME NEW r \in Readers, NEW u \in GraphUpdates, Update(r, u) PROVE UNCHANGED vars
  BY <1>4 DEF Update
<1>5. CASE Work
  BY <1>5 DEF Work, Count, Apply
<1>6. CASE JoinReaders \/ BeginQuery \/ EndQuery \/ QueryThrows \/ JoinQuerier
  BY <1>6 DEF JoinReaders, BeginQuery, EndQuery, QueryThrows, JoinQuerier
<1>7. CASE Tracker
  BY <1>7 DEF Tracker, Look, SeeShutdown
<1>8. CASE Exited \/ UNCHANGED processVars
  BY <1>8 DEF Exited, processVars
<1>9. ASSUME NEW r \in Readers, UpdateDSU(r) PROVE UNCHANGED vars
  BY <1>9 DEF UpdateDSU
<1>10. QED
  BY Zenon, <1>1, <1>2, <1>3, <1>4, <1>5, <1>6, <1>7, <1>8, <1>9 DEF ProcessNext, ReaderTask, Main

\* The threads of process_stream use BinaryGraphStream_MT as its header asks.
THEOREM ProcessReadsStream == ProcessSpec => Spec
<1>1. ProcessInit => Init
  BY DEF ProcessInit
<1>2. QED
  BY <1>1, StreamStep, PTL DEF ProcessSpec, Spec

\* They use the Graph as Ingest does: an update is inserted once, and
\* connected_components reads the sketches when nothing is pending.
THEOREM ProcessUsesGraph == ProcessSpec => Graph!Spec
<1>1. ProcessInit => Graph!Init
  BY DEF ProcessInit
<1>2. [ProcessNext]_processVars => [Graph!Next]_Graph!vars
  <2> SUFFICES ASSUME [ProcessNext]_processVars PROVE [Graph!Next]_Graph!vars
    OBVIOUS
  <2> USE DEF graphVars, Graph!vars
  <2>1. ASSUME NEW r \in Readers, NEW u \in GraphUpdates, Update(r, u) PROVE Graph!Next
    BY <2>1 DEF Update, Graph!Next
  <2>2. CASE Work
    BY <2>2 DEF Work, Count, Apply, Graph!Next
  <2>3. CASE BeginQuery \/ EndQuery
    BY <2>3 DEF BeginQuery, EndQuery, Graph!Next
  <2>4. ASSUME NEW r \in Readers, TakeEdge(r) \/ ReadData(r) \/ UpdateDSU(r)
        PROVE  UNCHANGED Graph!vars
    BY <2>4 DEF TakeEdge, ReadData, UpdateDSU
  <2>5. CASE StartReaders \/ JoinReaders \/ QueryThrows \/ JoinQuerier
    BY <2>5 DEF StartReaders, JoinReaders, QueryThrows, JoinQuerier
  <2>6. CASE Tracker
    BY <2>6 DEF Tracker, Look, SeeShutdown
  <2>7. CASE Exited \/ UNCHANGED processVars
    BY <2>7 DEF Exited, processVars
  <2>8. QED
    BY Zenon, <2>1, <2>2, <2>3, <2>4, <2>5, <2>6, <2>7 DEF ProcessNext, ReaderTask, Main
<1>3. QED
  BY <1>1, <1>2, PTL DEF ProcessSpec, Graph!Spec

\* And they call update as UpdateCalls lets them: one call of a reader at a
\* time, each of which returns or dies before the next.
THEOREM ProcessUsesCalls == ProcessSpec => Calls!Spec
<1>1. ProcessInit => Calls!Init
  BY DEF ProcessInit
<1>2. [ProcessNext]_processVars => [Calls!Next]_Calls!vars
  <2> SUFFICES ASSUME [ProcessNext]_processVars PROVE [Calls!Next]_Calls!vars
    OBVIOUS
  <2> USE DEF callVars, Calls!vars
  <2>1. ASSUME NEW r \in Readers, NEW u \in GraphUpdates, Update(r, u)
        PROVE  Calls!Enter(r) \/ UNCHANGED Calls!vars
    BY <2>1 DEF Update
  <2>2. ASSUME NEW r \in Readers, UpdateDSU(r)
        PROVE  Calls!Return(r) \/ Calls!CloseCycle(r) \/ Calls!Overflow(r)
    BY <2>2 DEF UpdateDSU
  <2>3. ASSUME NEW r \in Readers, TakeEdge(r) \/ ReadData(r) PROVE UNCHANGED Calls!vars
    BY <2>3 DEF TakeEdge, ReadData
  <2>4. CASE Work \/ Tracker
    BY <2>4 DEF Work, Count, Apply, Tracker, Look, SeeShutdown
  <2>5. CASE Main
    BY <2>5 DEF Main, StartReaders, JoinReaders, BeginQuery, EndQuery, QueryThrows, JoinQuerier
  <2>6. CASE Exited \/ UNCHANGED processVars
    BY <2>6 DEF Exited, processVars
  <2>7. QED
    BY Zenon, <2>1, <2>2, <2>3, <2>4, <2>5, <2>6 DEF ProcessNext, ReaderTask, Calls!Next
<1>3. QED
  BY <1>1, <1>2, PTL DEF ProcessSpec, Calls!Spec

-----------------------------------------------------------------------------
(***************************************************************************)
(* The inductive invariant of the process.                                 *)
(***************************************************************************)
\* What the readers hold, what is pending and what is in the sketches are the
\* updates the stream handed out, each at both ends; main registers no query
\* and never resumes the stream, so that the readers stop only at its end.
InHands == UNION {hand[r] : r \in Readers}

ProcessInv ==
  /\ EachUpdateOnce
  /\ InHands \cup pending \cup done = delivered \X {1, 2}
  /\ pending \cap done = {}
  /\ query_index = Never /\ ~query_block
  /\ open <=> main = "start"
  /\ reading <=> main \in {"query", "aborted"}
  /\ main \notin {"start", "join"} => Joined
  /\ main \in {"query", "aborted", "querier", "exit"} => pending = {}

\* What the proof uses of the state.
Types ==
  /\ TypeOK /\ StreamInv
  /\ hand \in [Readers -> SUBSET (Nat \X {1, 2})]

\* get_edge gives a reader an update that no other has seen.
LEMMA TakeEdgeInv ==
  ASSUME Types, ProcessInv, NEW r \in Readers, TakeEdge(r)
  PROVE  ProcessInv'
<1>1. /\ hand[r] = {} /\ hand' = [hand EXCEPT ![r] = Ends(lo[r])]
      /\ delivered' = delivered \cup {lo[r]} /\ rpc[r] = "ready" /\ lo[r] < hi[r]
      /\ UNCHANGED <<pending, done, reading, main, query_index, query_block, open, rpc>>
  BY DEF TakeEdge, Ready, GetEdge, shared, graphVars
<1>2. lo[r] \in Nat /\ lo[r] \notin delivered
  <2>1. lo[r] \in Nat /\ hi[r] \in Nat /\ stream_off \in Nat /\ query_index \in Nat
    BY DEF Types, TypeOK
  <2>2. hi[r] <= Given
    BY <1>1 DEF Types, StreamInv, BlockInv
  <2>3. lo[r] \in Updates /\ Owns(r, lo[r])
    <3>1. NumEdges \in Nat /\ Given <= NumEdges /\ Given \in Nat
      BY ONLY StreamAssumption, <2>1 DEF Given, Limit, Least
    <3>2. lo[r] \in Updates
      BY ONLY <1>1, <2>1, <2>2, <3>1 DEF Updates
    <3>3. Owns(r, lo[r])
      BY ONLY <1>1, <2>1 DEF Owns, Claiming
    <3>4. QED
      BY ONLY <3>2, <3>3
  <2>4. QED
    BY <2>1, <2>3 DEF Types, StreamInv, NoUpdateTwice
<1>3. Ends(lo[r]) = {lo[r]} \X {1, 2}
  BY DEF Ends
<1>4. Ends(lo[r]) \cap (InHands \cup pending \cup done) = {}
  BY <1>2, <1>3 DEF ProcessInv
<1>5. InHands' = InHands \cup Ends(lo[r])
  BY <1>1 DEF Types, InHands
<1>6. EachUpdateOnce'
  BY <1>1, <1>4 DEF Types, InHands, ProcessInv, EachUpdateOnce
<1>7. (InHands \cup pending \cup done = delivered \X {1, 2})'
  <2>1. InHands \cup pending \cup done = delivered \X {1, 2}
    BY Zenon DEF ProcessInv
  <2>2. pending' = pending /\ done' = done /\ delivered' = delivered \cup {lo[r]}
    BY Zenon, <1>1
  <2>3. (delivered \cup {lo[r]}) \X {1, 2} = (delivered \X {1, 2}) \cup ({lo[r]} \X {1, 2})
    BY Zenon
  <2>4. QED
    BY Zenon, <1>3, <1>5, <2>1, <2>2, <2>3
<1>8. main \in {"start", "join"}
  BY <1>1 DEF ProcessInv, Joined
<1>9. QED
  BY <1>1, <1>6, <1>7, <1>8 DEF ProcessInv

\* ProcessInv reads these variables and no other: a step of read_data or of
\* track_insertions that leaves them alone keeps it.
LEMMA ProcessKept ==
  ASSUME ProcessInv, main' = main, hand' = hand, pending' = pending, done' = done,
         reading' = reading, delivered' = delivered, query_index' = query_index,
         query_block' = query_block, open' = open,
         main \notin {"start", "join"} => Joined'
  PROVE  ProcessInv'
<1>1. EachUpdateOnce'
  BY DEF ProcessInv, EachUpdateOnce
<1>2. InHands' = InHands
  BY DEF InHands
<1>3. QED
  BY Zenon, <1>1, <1>2 DEF ProcessInv

\* read_data moves no update: main is still waiting for the readers.
LEMMA ReadDataInv ==
  ASSUME Types, ProcessInv, NEW r \in Readers, ReadData(r)
  PROVE  ProcessInv'
<1>1. /\ rpc[r] # "stopped"
      /\ UNCHANGED <<delivered, query_index, query_block, open>>
  <2>1. Reader(r) /\ ~GetEdge(r)
    BY DEF ReadData, GetEdge, Types, TypeOK
  <2>2. QED
    BY Zenon, <2>1 DEF Reader, TestBlock, TestEnd, TestQuery, FetchAdd, Rewind, PastEnd, Cut, Pread, Goto,
       Breakpoint, shared
<1>2. main \in {"start", "join"}
  BY <1>1 DEF ProcessInv, Joined
<1>3. UNCHANGED <<hand, pending, done, reading, main>>
  BY DEF ReadData, graphVars
<1>4. QED
  BY Zenon, <1>1, <1>2, <1>3, ProcessKept

\* Graph::update takes one end of an edge out of a reader's hand.
LEMMA UpdateInv ==
  ASSUME Types, ProcessInv, NEW r \in Readers, NEW u \in GraphUpdates, Update(r, u)
  PROVE  ProcessInv'
<1>1. /\ u \in hand[r] /\ hand' = [hand EXCEPT ![r] = hand[r] \ {u}]
      /\ pending' = pending \cup {u} /\ u \notin pending \cup done
      /\ UNCHANGED <<done, reading, main, rpc, delivered, query_index, query_block, open>>
  BY DEF Update, Graph!Insert, streamVars, vars, shared
<1>2. EachUpdateOnce'
  BY <1>1 DEF Types, ProcessInv, EachUpdateOnce
<1>3. InHands' = InHands \ {u}
  BY <1>1 DEF Types, InHands, ProcessInv, EachUpdateOnce
<1>4. u \in InHands
  BY <1>1 DEF InHands
<1>5. (InHands \cup pending \cup done = delivered \X {1, 2})'
  BY <1>1, <1>3, <1>4 DEF ProcessInv
<1>6. main \in {"start", "join"}
  BY <1>1 DEF ProcessInv, Joined, Ready
<1>7. QED
  BY <1>1, <1>2, <1>5, <1>6 DEF ProcessInv

\* The DSU part of a call moves no update either.
LEMMA UpdateDSUInv ==
  ASSUME ProcessInv, NEW r \in Readers, UpdateDSU(r)
  PROVE  ProcessInv'
<1>1. r \in inside
  BY DEF UpdateDSU, Calls!Return, Calls!CloseCycle, Calls!Overflow
<1>2. main \in {"start", "join"}
  BY <1>1 DEF ProcessInv, Joined, Ready
<1>3. UNCHANGED <<hand, pending, done, reading, main, delivered, query_index, query_block, open>>
  BY DEF UpdateDSU, graphVars, streamVars, vars, shared
<1>4. QED
  BY Zenon, <1>2, <1>3, ProcessKept

\* The workers, main and track_insertions.
LEMMA OthersInv ==
  ASSUME Types, ProcessInv, Work \/ Main \/ Tracker \/ Exited \/ UNCHANGED processVars
  PROVE  ProcessInv'
<1> USE DEF streamVars, vars, shared, graphVars, callVars
<1>1. ASSUME NEW u \in GraphUpdates, Count(u) PROVE ProcessInv'
  BY SMTT(30), <1>1 DEF Count, ProcessInv, EachUpdateOnce, InHands, Joined, Ready
<1>2. ASSUME NEW u \in GraphUpdates, Apply(u) PROVE ProcessInv'
  <2>1. /\ u \in pending /\ pending' = pending \ {u} /\ done' = done \cup {u}
        /\ UNCHANGED <<hand, inside, reading, main, rpc, delivered, query_index, query_block, open>>
    BY <1>2 DEF Apply, Graph!Apply
  <2>2. pending' \cup done' = pending \cup done /\ pending' \cap done' = {}
    BY <2>1 DEF ProcessInv
  <2>3. (main \in {"query", "aborted", "querier", "exit"} => pending = {})'
    BY <2>1 DEF ProcessInv
  <2>4. EachUpdateOnce'
    BY <2>1, <2>2 DEF ProcessInv, EachUpdateOnce
  <2>5. InHands' = InHands /\ (Joined => Joined')
    BY Zenon, <2>1 DEF InHands, Joined, Ready
  <2>6. (InHands \cup pending \cup done = delivered \X {1, 2})'
    BY <2>1, <2>2, <2>5 DEF ProcessInv
  <2>7. QED
    BY Zenon, <2>1, <2>2, <2>3, <2>4, <2>5, <2>6 DEF ProcessInv
<1>3. CASE StartReaders
  <2>1. /\ main = "start" /\ main' = "join" /\ ~open'
        /\ UNCHANGED <<hand, pending, done, reading, delivered, query_index, query_block>>
    BY Zenon, <1>3 DEF StartReaders, Start
  <2>2. EachUpdateOnce' = EachUpdateOnce /\ InHands' = InHands
    BY Zenon, <2>1 DEF EachUpdateOnce, InHands
  <2>3. QED
    BY <2>1, <2>2 DEF ProcessInv
<1>4. CASE JoinReaders
  BY <1>4 DEF JoinReaders, ProcessInv, EachUpdateOnce, InHands, Joined, Ready
<1>5. CASE BeginQuery
  BY <1>5 DEF BeginQuery, Graph!BeginRead, ProcessInv, EachUpdateOnce, InHands, Joined, Ready
<1>6. CASE EndQuery
  BY SMTT(30), <1>6 DEF EndQuery, Graph!EndRead, ProcessInv, EachUpdateOnce, InHands, Joined, Ready
<1>7. CASE JoinQuerier
  BY SMTT(30), <1>7 DEF JoinQuerier, ProcessInv, EachUpdateOnce, InHands, Joined, Ready
<1>8. CASE Tracker
  <2>1. UNCHANGED <<rpc, query_index, query_block, open, delivered, pending, done, reading, hand, inside, main>>
    BY Zenon, <1>8 DEF Tracker, Look, SeeShutdown, streamVars, shared, graphVars, callVars
  <2>2. Joined => Joined'
    BY Zenon, <2>1 DEF Joined, Ready
  <2>3. QED
    BY Zenon, <2>1, <2>2, ProcessKept DEF ProcessInv
<1>9. CASE Exited \/ UNCHANGED processVars
  <2>1. UNCHANGED <<rpc, query_index, query_block, open, delivered, pending, done, reading, hand, inside, main>>
    BY Zenon, <1>9 DEF Exited, processVars, streamVars, shared, graphVars, callVars
  <2>2. Joined => Joined'
    BY Zenon, <2>1 DEF Joined, Ready
  <2>3. QED
    BY Zenon, <2>1, <2>2, ProcessKept DEF ProcessInv
<1>10. CASE QueryThrows
  BY SMTT(30), <1>10 DEF QueryThrows, ProcessInv, EachUpdateOnce, InHands, Joined, Ready
<1>11. QED
  BY <1>1, <1>2, <1>3, <1>4, <1>5, <1>6, <1>7, <1>8, <1>9, <1>10 DEF Work, Main

\* The readers' hands stay well typed.
LEMMA HandType ==
  ASSUME Types, [ProcessNext]_processVars
  PROVE  hand' \in [Readers -> SUBSET (Nat \X {1, 2})]
<1> USE DEF Types
<1>1. ASSUME NEW r \in Readers, TakeEdge(r) PROVE hand' \in [Readers -> SUBSET (Nat \X {1, 2})]
  <2>1. lo[r] \in Nat
    BY DEF TypeOK
  <2>2. Ends(lo[r]) \subseteq Nat \X {1, 2}
    BY <2>1 DEF Ends
  <2>3. QED
    BY <1>1, <2>2 DEF TakeEdge
<1>2. ASSUME NEW r \in Readers, NEW u \in GraphUpdates, Update(r, u)
      PROVE hand' \in [Readers -> SUBSET (Nat \X {1, 2})]
  <2>1. hand[r] \ {u} \subseteq Nat \X {1, 2}
    OBVIOUS
  <2>2. QED
    BY <1>2, <2>1 DEF Update
<1>3. ASSUME NEW r \in Readers, ReadData(r) \/ UpdateDSU(r) PROVE UNCHANGED hand
  BY <1>3 DEF ReadData, UpdateDSU
<1>4. CASE Work \/ Main \/ Tracker \/ Exited \/ UNCHANGED processVars
  BY <1>4 DEF Work, Main, Tracker, Exited, processVars, Count, Apply, StartReaders, JoinReaders,
       BeginQuery, EndQuery, QueryThrows, JoinQuerier, Look, SeeShutdown
<1>5. QED
  BY <1>1, <1>2, <1>3, <1>4 DEF ProcessNext, ReaderTask

\* Every step of the process keeps the account of the updates: handed out by
\* the stream, they are in one reader's hand, pending or in the sketches.
THEOREM UpdatesAreAccounted == ProcessSpec => []ProcessInv
<1>1. ProcessInit => ProcessInv /\ hand \in [Readers -> SUBSET (Nat \X {1, 2})]
  BY DEF ProcessInit, ProcessInv, EachUpdateOnce, InHands, Joined, Init, Graph!Init
<1>2. Types /\ ProcessInv /\ [ProcessNext]_processVars => ProcessInv'
  BY Zenon, TakeEdgeInv, ReadDataInv, UpdateInv, UpdateDSUInv, OthersInv DEF ProcessNext, ReaderTask
<1>3. Types /\ [ProcessNext]_processVars => (hand \in [Readers -> SUBSET (Nat \X {1, 2})])'
  BY HandType
<1>4. ProcessSpec => []TypeOK /\ []StreamInv
  BY ProcessReadsStream, TypeCorrect, AccountIsKept, PTL
<1>5. Types <=> TypeOK /\ StreamInv /\ hand \in [Readers -> SUBSET (Nat \X {1, 2})]
  BY DEF Types
<1>6. QED
  BY <1>1, <1>2, <1>3, <1>4, <1>5, PTL DEF ProcessSpec

\* No update of the file is inserted twice.
THEOREM InsertedOnce == ProcessSpec => []EachUpdateOnce
<1>1. ProcessInv => EachUpdateOnce
  BY DEF ProcessInv
<1>2. QED
  BY <1>1, UpdatesAreAccounted, PTL

\* The components main prints are those of the whole file.
THEOREM WholeFileIsQueried == ProcessSpec => []QueryIsOfWholeFile
<1>1. StopsAtPrefix /\ ProcessInv => QueryIsOfWholeFile
  <2> SUFFICES ASSUME StopsAtPrefix, ProcessInv, reading
               PROVE  done = GraphUpdates /\ \A r \in Readers : hand[r] = {}
    BY DEF QueryIsOfWholeFile
  <2>1. main \in {"query", "aborted"} /\ Joined /\ pending = {}
    BY DEF ProcessInv
  <2>2. ~open /\ AllStopped /\ ~query_block
    BY <2>1 DEF ProcessInv, Joined, AllStopped
  <2>3. delivered = 0..(NumEdges - 1)
    BY StreamAssumption, <2>2 DEF StopsAtPrefix, Limit, Least, ProcessInv
  <2>4. InHands = {}
    BY <2>1 DEF Joined, Ready, InHands
  <2>5. QED
    BY <2>1, <2>3, <2>4 DEF ProcessInv, GraphUpdates, Joined, Ready
<1>2. QED
  BY <1>1, UpdatesAreAccounted, ProcessReadsStream, StopsAreComplete, PTL
=============================================================================
