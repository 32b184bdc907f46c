--------------------------- MODULE EagerDSUProofs ---------------------------
(***************************************************************************)
(* What concurrent update calls can and cannot do to the eager DSU, for    *)
(* any number of nodes, threads and updates.                               *)
(***************************************************************************)
EXTENDS EagerDSU, FiniteSetTheorems, TLAPS

USE DEF Set

(***************************************************************************)
(* Type correctness.                                                       *)
(***************************************************************************)
\* What is left of a stack when its last element is popped.
LEMMA FrontOfSeq ==
  ASSUME NEW S, NEW s \in Seq(S), s # <<>>
  PROVE  LET front == SubSeq(s, 1, Len(s) - 1)
         IN /\ front \in Seq(S) /\ Len(front) = Len(s) - 1
            /\ \A i \in 1..Len(front) : i \in 1..Len(s) /\ front[i] = s[i]
            /\ Len(s) \in 1..Len(s)
<1>1. Len(s) \in Nat \ {0} /\ \A i \in 1..Len(s) : s[i] \in S
  OBVIOUS
<1>2. Len(s) - 1 \in Nat /\ Len(s) \in 1..Len(s)
        /\ \A i \in 1..(Len(s) - 1) : i \in 1..Len(s)
  BY <1>1
<1>3. \A n \in Nat : (\A i \in 1..n : i \in 1..Len(s)) =>
        /\ SubSeq(s, 1, n) \in Seq(S) /\ Len(SubSeq(s, 1, n)) = n
        /\ \A i \in 1..n : SubSeq(s, 1, n)[i] = s[i]
  BY <1>1
<1>4. QED
  BY Zenon, <1>2, <1>3

\* The stack after one more node is pushed.
LEMMA AppendToSeq ==
  ASSUME NEW s \in Seq(Nodes), NEW e \in Nodes, NEW r, r = Append(s, e)
  PROVE  \A i \in 1..Len(r) : r[i] = e \/ (i \in 1..Len(s) /\ r[i] = s[i])
<1>1. /\ Len(s) \in Nat /\ Len(r) = Len(s) + 1 /\ r[Len(s) + 1] = e
      /\ \A i \in 1..Len(s) : r[i] = s[i]
  OBVIOUS
<1>2. \A n \in Nat : \A i \in 1..(n + 1) : i = n + 1 \/ i \in 1..n
  OBVIOUS
<1>3. QED
  BY <1>1, <1>2

\* ... as Descend pushes it.
LEMMA Pushed ==
  ASSUME NEW t \in Threads, stack[t] \in Seq(Nodes), cur[t] \in Nodes,
         stack'[t] = Append(stack[t], cur[t])
  PROVE  \A i \in 1..Len(stack'[t]) :
           \/ stack'[t][i] = cur[t]
           \/ i \in 1..Len(stack[t]) /\ stack'[t][i] = stack[t][i]
  BY ONLY SMTT(30), stack[t] \in Seq(Nodes), cur[t] \in Nodes, stack'[t] = Append(stack[t], cur[t]),
     AppendToSeq

\* An empty stack has none.
LEMMA NoneInEmpty == \A i : i \notin 1..Len(<<>>)
OBVIOUS

\* The nodes on a stack.
LEMMA InSeq ==
  ASSUME NEW S, NEW s \in Seq(S)
  PROVE  \A i \in 1..Len(s) : s[i] \in S
OBVIOUS

\* Compare swaps a and b, or leaves them as they are.
LEMMA CompareSwaps ==
  ASSUME TypeOK, NEW t \in Threads, Compare(t)
  PROVE  \/ a'[t] = a[t] /\ b'[t] = b[t]
         \/ a'[t] = b[t] /\ b'[t] = a[t]
<1>1. CASE sum[t] < size[b[t]]
  <2>1. a' = [a EXCEPT ![t] = b[t]] /\ b' = [b EXCEPT ![t] = a[t]]
    BY Zenon, <1>1, Compare(t) DEF Compare, Set
  <2>2. QED
    BY Zenon, <2>1, TypeOK DEF TypeOK
<1>2. CASE ~(sum[t] < size[b[t]])
  <2>1. a' = a /\ b' = b
    BY Zenon, <1>2, Compare(t) DEF Compare
  <2>2. QED
    BY Zenon, <2>1
<1>3. QED
  BY ONLY <1>1, <1>2

\* Every step of a thread keeps the types.
LEMMA TypeStep ==
  ASSUME TypeOK, NEW t \in Threads, Step(t), \A u \in Threads : tpc[u] # "idle" => edge[u] \in Pairs
  PROVE  TypeOK'
<1> USE EagerAssumption DEF TypeOK, dsuVars, client, Locked
<1>a. edge[t] \in Nodes \X Nodes /\ edge[t][1] \in Nodes /\ edge[t][2] \in Nodes
  OBVIOUS
<1>b. a[t] \in Nodes /\ b[t] \in Nodes /\ cur[t] \in Nodes /\ stack[t] \in Seq(Nodes)
  OBVIOUS
<1>1. CASE Invalidate(t)
  BY Zenon, <1>1 DEF Invalidate
<1>2. CASE Lock(t)
  <2>1. a' \in [Threads -> Nodes] /\ b' \in [Threads -> Nodes] /\ cur' \in [Threads -> Nodes]
    BY <1>2, <1>a DEF Lock, StartAtEnds
  <2>2. stack' \in [Threads -> Seq(Nodes)]
    BY <1>2 DEF Lock
  <2>3. QED
    BY Zenon, <1>2, <1>a, <2>1, <2>2 DEF Lock
<1>3. ASSUME NEW down, NEW up \in Locked, Descend(t, down, up) PROVE TypeOK'
  <2>1. parent[cur[t]] \in Nodes
    BY <1>b
  <2>2. stack' \in [Threads -> Seq(Nodes)] /\ cur' \in [Threads -> Nodes]
    <3>1. Append(stack[t], cur[t]) \in Seq(Nodes)
      BY <1>b
    <3>2. CASE UNCHANGED <<cur, stack>>
      BY <3>2
    <3>3. CASE stack' = Set(stack, t, Append(stack[t], cur[t])) /\ cur' = Set(cur, t, parent[cur[t]])
      BY <3>1, <3>3, <2>1
    <3>4. QED
      BY Zenon, <1>3, <3>2, <3>3 DEF Descend
  <2>3. tpc' \in [Threads -> Locked \cup {"idle", "lock", "overflow"}]
    BY Zenon, <1>3 DEF Descend
  <2>4. UNCHANGED <<parent, size, dsu_valid, spanning_forest, spanning_forest_mtx, edge, a, b,
                    sum, edges, ever, updates, met>>
    BY <1>3 DEF Descend
  <2>5. QED
    BY Zenon, <2>2, <2>3, <2>4
<1>4. CASE Ascend(t)
  <2>1. SubSeq(stack[t], 1, Len(stack[t]) - 1) \in Seq(Nodes)
    BY <1>b, <1>4, FrontOfSeq DEF Ascend
  <2>2. stack' \in [Threads -> Seq(Nodes)]
    BY <1>4, <2>1 DEF Ascend
  <2>3. parent' \in [Nodes -> Nodes]
    BY <1>4, <1>b DEF Ascend, Compressed
  <2>4. QED
    BY Zenon, <1>4, <2>2, <2>3 DEF Ascend
<1>5. CASE FoundA(t) \/ FoundB(t)
  BY Zenon, <1>5, <1>b DEF FoundA, FoundB
<1>6. CASE FoundSame(t)
  BY <1>6, <1>a DEF FoundSame, Unlock
<1>7. CASE LoadSize(t) \/ Compare(t)
  <2>1. size[a[t]] \in Nat /\ 0 \in Nat
    BY <1>b
  <2>2. CASE LoadSize(t)
    BY Zenon, <2>1, <2>2 DEF LoadSize
  <2>3. CASE Compare(t)
    BY Zenon, <1>b, <2>1, <2>3 DEF Compare
  <2>4. QED
    BY <1>7, <2>2, <2>3
<1>8. CASE CasJoins(t) \/ CasFails(t)
  <2>1. parent[b[t]] \in Nodes
    BY <1>b
  <2>2. QED
    BY Zenon, <1>8, <1>b, <2>1 DEF CasJoins, CasFails
<1>9. CASE LoadAddend(t) \/ AddSizes(t)
  <2>1. size[b[t]] \in Nat /\ size[a[t]] + sum[t] \in Nat
    <3>1. size[a[t]] \in Nat /\ size[b[t]] \in Nat /\ sum[t] \in Nat
      BY <1>b
    <3>2. QED
      BY ONLY <3>1
  <2>2. CASE LoadAddend(t)
    BY Zenon, <2>1, <2>2 DEF LoadAddend
  <2>3. CASE AddSizes(t)
    BY Zenon, <2>1, <2>3 DEF AddSizes
  <2>4. QED
    BY <1>9, <2>2, <2>3
<1>10. CASE StoreSize(t)
  <2>1. sum[t] \in Nat /\ 0 \in Nat
    OBVIOUS
  <2>2. QED
    BY Zenon, <1>10, <1>b, <2>1 DEF StoreSize
<1>11. CASE InsertSpanning(t)
  <2>1. edge[t] \in Pairs
    BY <1>11 DEF InsertSpanning
  <2>2. QED
    BY <1>11, <1>a, <2>1 DEF InsertSpanning, Unlock, Spanning
<1>12. QED
  BY Zenon, <1>1, <1>2, <1>3, <1>4, <1>5, <1>6, <1>7, <1>8, <1>9, <1>10, <1>11, Step(t) DEF Step

\* A thread that is not idle works on an edge the client has given.
EdgeGiven == \A t \in Threads : tpc[t] # "idle" => edge[t] \in ever

\* Every step keeps the types, and the edges of the threads.
LEMMA TypeNext == TypeOK /\ EdgeGiven /\ [Next]_vars => TypeOK' /\ EdgeGiven'
<1> SUFFICES ASSUME TypeOK, EdgeGiven, [Next]_vars PROVE TypeOK' /\ EdgeGiven'
  OBVIOUS
<1>1. CASE UNCHANGED vars
  BY <1>1 DEF vars, TypeOK, EdgeGiven, dsuVars, threadVars, client
<1>2. ASSUME NEW t \in Threads, Step(t) PROVE TypeOK' /\ EdgeGiven'
  <2>1. \A u \in Threads : tpc[u] # "idle" => edge[u] \in Pairs
    BY DEF EdgeGiven, TypeOK
  <2>2. TypeOK'
    BY <1>2, <2>1, TypeStep
  <2>3. tpc[t] # "idle" /\ edge' = edge /\ ever' = ever
    BY Zenon, <1>2 DEF Step, Invalidate, Lock, Descend, Ascend, FoundA, FoundSame, FoundB, LoadSize, Compare,
                CasJoins, CasFails, LoadAddend, AddSizes, StoreSize, InsertSpanning, client
  <2>4. \A u \in Threads : u # t => tpc'[u] = tpc[u]
    BY Zenon, <1>2 DEF Step, Invalidate, Lock, Descend, Ascend, FoundA, FoundSame, FoundB, LoadSize, Compare,
                CasJoins, CasFails, LoadAddend, AddSizes, StoreSize, InsertSpanning, Unlock, TypeOK
  <2>5. QED
    BY <2>2, <2>3, <2>4 DEF EdgeGiven
<1>3. ASSUME NEW t \in Threads, NEW e \in Pairs, Update(t, e) PROVE TypeOK' /\ EdgeGiven'
  <2>1. e \in Nodes \X Nodes
    BY EagerAssumption
  <2>2. edge' \in [Threads -> Nodes \X Nodes]
        /\ tpc' \in [Threads -> Locked \cup {"idle", "lock", "overflow"}]
    BY Zenon, <1>3, <2>1 DEF Update, TypeOK
  <2>3. edges' \subseteq ever' /\ ever' \subseteq Pairs /\ updates' \in Nat
    BY <1>3 DEF Update, TypeOK
  <2>m. met' \subseteq Threads
    <3>1. met' \in {met, met \ {t}, met \cup Inside \cup {t}}
      BY Zenon, <1>3 DEF Update
    <3>2. met \subseteq Threads /\ Inside \subseteq Threads
      BY DEF TypeOK, Inside
    <3>3. QED
      BY ONLY <3>1, <3>2, t \in Threads
  <2>4. TypeOK'
    BY Zenon, <1>3, <2>2, <2>3, <2>m DEF Update, TypeOK, dsuVars
  <2>5. EdgeGiven'
    BY Zenon, <1>3 DEF Update, EdgeGiven, TypeOK
  <2>6. QED
    BY <2>4, <2>5
<1>4. QED
  BY <1>1, <1>2, <1>3 DEF Next

\* The initial state is well typed.
LEMMA TypeInit == Init => TypeOK /\ EdgeGiven
<1> SUFFICES ASSUME Init PROVE TypeOK /\ EdgeGiven
  OBVIOUS
<1>1. 0 \in Nodes
  BY EagerAssumption DEF Nodes
<1>2. <<>> \in Seq(Nodes) /\ <<0, 0>> \in Nodes \X Nodes
  BY <1>1
<1>3. parent \in [Nodes -> Nodes] /\ size \in [Nodes -> Nat]
  BY DEF Init
<1>4. /\ a \in [Threads -> Nodes] /\ b \in [Threads -> Nodes] /\ cur \in [Threads -> Nodes]
      /\ stack \in [Threads -> Seq(Nodes)] /\ edge \in [Threads -> Nodes \X Nodes]
      /\ sum \in [Threads -> Nat]
  BY <1>1, <1>2 DEF Init
<1>5. QED
  BY <1>3, <1>4 DEF Init, TypeOK, EdgeGiven

\* The DSU, the mutexes and the threads stay well typed.
THEOREM TypeCorrect == Spec => []TypeOK
<1>1. QED
  BY TypeInit, TypeNext, PTL DEF Spec

\* A call changes the state of its own thread only.
LEMMA OthersKeep ==
  ASSUME TypeOK, NEW t \in Threads, Step(t)
  PROVE  /\ UNCHANGED <<edge, client>>
         /\ \A u \in Threads : u # t =>
              /\ tpc'[u] = tpc[u] /\ a'[u] = a[u] /\ b'[u] = b[u] /\ cur'[u] = cur[u]
              /\ stack'[u] = stack[u]
<1>1. UNCHANGED <<edge, client>>
  BY Zenon, Step(t) DEF Step, Invalidate, Lock, Descend, Ascend, FoundA, FoundSame, FoundB, LoadSize, Compare,
                 CasJoins, CasFails, LoadAddend, AddSizes, StoreSize, InsertSpanning
<1>2. \A u \in Threads : u # t =>
        /\ tpc'[u] = tpc[u] /\ a'[u] = a[u] /\ b'[u] = b[u] /\ cur'[u] = cur[u]
        /\ stack'[u] = stack[u]
  <2>1. CASE \/ Invalidate(t) \/ FoundSame(t) \/ InsertSpanning(t)
             \/ LoadSize(t) \/ LoadAddend(t) \/ AddSizes(t) \/ StoreSize(t)
    BY Zenon, <2>1, TypeOK
    DEF TypeOK, Invalidate, FoundSame, InsertSpanning, LoadSize, LoadAddend, AddSizes, StoreSize, Unlock
  <2>2. CASE Lock(t) \/ FoundA(t) \/ FoundB(t)
    BY Zenon, <2>2, TypeOK DEF TypeOK, Lock, StartAtEnds, FoundA, FoundB
  <2>3. CASE Compare(t)
    <3>1. a' \in {a, [a EXCEPT ![t] = b[t]]} /\ b' \in {b, [b EXCEPT ![t] = a[t]]}
      BY Zenon, <2>3 DEF Compare, Set
    <3>2. UNCHANGED <<cur, stack>> /\ tpc' = [tpc EXCEPT ![t] = "cas"]
      BY Zenon, <2>3 DEF Compare, Set
    <3>3. QED
      BY Zenon, <3>1, <3>2, TypeOK DEF TypeOK
  <2>6. CASE CasJoins(t) \/ CasFails(t)
    BY Zenon, <2>6, TypeOK DEF TypeOK, CasJoins, CasFails
  <2>4. CASE Ascend(t) \/ Descend(t, "down_a", "up_a") \/ Descend(t, "down_b", "up_b")
    BY Zenon, <2>4, TypeOK DEF TypeOK, Ascend, Descend
  <2>5. QED
    BY Zenon, <2>1, <2>2, <2>3, <2>4, <2>6, Step(t) DEF Step
<1>3. QED
  BY <1>1, <1>2

(***************************************************************************)
(* The DSU never joins what no edge connects.  Let S be closed under the   *)
(* edges given so far.  All that a thread holds (the roots it found, the   *)
(* argument of get_parent and the nodes on its stack) is on the same side  *)
(* of S as its edge, however old it is; so is every value it stores.       *)
(***************************************************************************)
OnSide(t, S) ==
  /\ a[t] \in S <=> edge[t][1] \in S
  /\ b[t] \in S <=> edge[t][1] \in S
  /\ cur[t] \in S <=> edge[t][1] \in S
  /\ \A i \in 1..Len(stack[t]) : stack[t][i] \in S <=> edge[t][1] \in S

SideInv(S) ==
  /\ \A x \in Nodes : x \in S <=> parent[x] \in S
  /\ \A t \in Threads : tpc[t] \in Locked => OnSide(t, S)

\* No step of a thread crosses the border of a closed set.
LEMMA SideStep ==
  ASSUME TypeOK, EdgeGiven, NEW t \in Threads, Step(t),
         NEW S \in SUBSET Nodes, Closed(S), SideInv(S)
  PROVE  SideInv(S)'
<1> USE DEF dsuVars, client, Locked
<1>a. /\ a[t] \in Nodes /\ b[t] \in Nodes /\ cur[t] \in Nodes /\ stack[t] \in Seq(Nodes)
      /\ parent[cur[t]] \in Nodes /\ parent[b[t]] \in Nodes
      /\ parent \in [Nodes -> Nodes] /\ Len(stack[t]) \in Nat
  BY TypeOK DEF TypeOK
<1>b. /\ \A x \in Nodes : x \in S <=> parent[x] \in S
      /\ tpc[t] \in Locked => OnSide(t, S)
  BY SideInv(S) DEF SideInv
<1>c. edge' = edge
  BY OthersKeep
\* The other threads hold what they held.
<1>d. \A u \in Threads : u # t =>
        /\ tpc'[u] = tpc[u] /\ a'[u] = a[u] /\ b'[u] = b[u] /\ cur'[u] = cur[u]
        /\ stack'[u] = stack[u]
  BY OthersKeep
<1>e. SUFFICES /\ \A x \in Nodes : x \in S <=> parent'[x] \in S
               /\ tpc'[t] \in Locked => OnSide(t, S)'
  BY <1>c, <1>d, SideInv(S) DEF SideInv, OnSide
<1>1. CASE Invalidate(t) \/ FoundSame(t) \/ InsertSpanning(t)
  <2>1. tpc'[t] = "idle" /\ parent' = parent
    BY <1>1, TypeOK DEF Invalidate, FoundSame, InsertSpanning, Unlock, TypeOK
  <2>2. QED
    BY <2>1, <1>b
<1>2. CASE Lock(t)
  <2>1. edge[t] \in ever
    BY <1>2 DEF Lock, EdgeGiven
  <2>2. /\ a'[t] = edge[t][1] /\ b'[t] = edge[t][2] /\ cur'[t] = edge[t][1]
        /\ stack'[t] = <<>> /\ parent' = parent
    BY <1>2, TypeOK DEF Lock, StartAtEnds, TypeOK
  <2>3. edge[t][1] \in S <=> edge[t][2] \in S
    BY <2>1, Closed(S) DEF Closed
  <2>4. QED
    BY Zenon, <2>2, <2>3, <1>b, <1>c, NoneInEmpty DEF OnSide
<1>3. ASSUME NEW down \in {"down_a", "down_b"}, NEW up \in {"up_a", "up_b"}, Descend(t, down, up)
      PROVE  /\ \A x \in Nodes : x \in S <=> parent'[x] \in S
             /\ tpc'[t] \in Locked => OnSide(t, S)'
  <2>1. OnSide(t, S) /\ UNCHANGED <<parent, a, b>>
    BY <1>3, <1>b DEF Descend
  <2>2. CASE UNCHANGED <<cur, stack>>
    BY <2>1, <2>2, <1>b, <1>c DEF OnSide
  <2>3. CASE stack' = Set(stack, t, Append(stack[t], cur[t])) /\ cur' = Set(cur, t, parent[cur[t]])
    <3>1. stack'[t] = Append(stack[t], cur[t]) /\ cur'[t] = parent[cur[t]]
      BY <2>3, TypeOK DEF TypeOK
    <3>2. cur'[t] \in S <=> edge[t][1] \in S
      BY <3>1, <2>1, <1>a, <1>b DEF OnSide
    <3>3. \A i \in 1..Len(stack'[t]) : stack'[t][i] \in S <=> edge[t][1] \in S
      BY <3>1, <2>1, <1>a DEF OnSide
    <3>4. QED
      BY <3>2, <3>3, <2>1, <1>b, <1>c DEF OnSide
  <2>4. QED
    BY Zenon, <1>3, <2>2, <2>3 DEF Descend
<1>4. CASE Ascend(t)
  <2>1. OnSide(t, S) /\ UNCHANGED <<a, b, cur>> /\ stack[t] # <<>>
    BY <1>4, <1>b DEF Ascend
  <2>2. stack'[t] = SubSeq(stack[t], 1, Len(stack[t]) - 1)
    BY <1>4, TypeOK DEF Ascend, TypeOK
  <2>3. \A i \in 1..Len(stack'[t]) : i \in 1..Len(stack[t]) /\ stack'[t][i] = stack[t][i]
    BY <2>1, <2>2, <1>a, FrontOfSeq
  <2>4. stack[t][Len(stack[t])] \in S <=> cur[t] \in S
    BY <2>1, <1>a, FrontOfSeq DEF OnSide
  <2>5. \A x \in Nodes : x \in S <=> parent'[x] \in S
    <3>1. PICK x \in Nodes : x = stack[t][Len(stack[t])]
      BY <1>a, <2>1, FrontOfSeq, TypeOK DEF TypeOK
    <3>2. parent' = [parent EXCEPT ![x] = cur[t]] /\ (x \in S <=> cur[t] \in S)
      BY Zenon, <1>4, <2>4, <3>1 DEF Ascend, Compressed, Set
    <3>3. QED
      <4>1. parent'[x] = cur[t] /\ \A y \in Nodes : y # x => parent'[y] = parent[y]
        BY Zenon, <3>2, TypeOK DEF TypeOK
      <4>2. QED
        BY Zenon, <1>b, <3>2, <4>1
  <2>6. QED
    BY <2>1, <2>3, <2>5, <1>c DEF OnSide
<1>5. CASE FoundA(t) \/ FoundB(t)
  <2>1. OnSide(t, S) /\ UNCHANGED <<parent, stack>>
    BY <1>5, <1>b DEF FoundA, FoundB
  <2>2. a'[t] \in {a[t], cur[t]} /\ b'[t] \in {b[t], cur[t]} /\ cur'[t] \in {cur[t], b[t]}
    BY <1>5, TypeOK DEF FoundA, FoundB, TypeOK
  <2>3. QED
    BY <2>1, <2>2, <1>b, <1>c DEF OnSide
<1>6. CASE Compare(t)
  <2>1. OnSide(t, S) /\ UNCHANGED <<parent, cur, stack>>
    BY Zenon, <1>6, <1>b DEF Compare
  <2>2. a'[t] \in {a[t], b[t]} /\ b'[t] \in {a[t], b[t]}
    BY Zenon, <1>6, TypeOK DEF Compare, TypeOK
  <2>3. QED
    BY <2>1, <2>2, <1>b, <1>c DEF OnSide
<1>7. CASE CasJoins(t)
  <2>1. OnSide(t, S) /\ UNCHANGED <<a, b, cur, stack>>
    BY <1>7, <1>b DEF CasJoins
  <2>2. \A x \in Nodes : x \in S <=> parent'[x] \in S
    BY <1>7, <1>a, <1>b, <2>1 DEF CasJoins, OnSide
  <2>3. QED
    BY <2>1, <2>2, <1>c DEF OnSide
<1>8. CASE CasFails(t)
  <2>1. OnSide(t, S) /\ UNCHANGED <<parent, a, stack>>
    BY <1>8, <1>b DEF CasFails
  <2>2. b'[t] = parent[b[t]] /\ cur'[t] = a[t]
    BY <1>8, TypeOK DEF CasFails, TypeOK
  <2>3. QED
    BY Zenon, <2>1, <2>2, <1>a, <1>b, <1>c DEF OnSide
<1>9. CASE LoadSize(t) \/ LoadAddend(t) \/ AddSizes(t) \/ StoreSize(t)
  <2>1. OnSide(t, S) /\ UNCHANGED <<parent, a, b, cur, stack>>
    BY Zenon, <1>9, <1>b DEF LoadSize, LoadAddend, AddSizes, StoreSize
  <2>2. QED
    BY Zenon, <2>1, <1>b, <1>c DEF OnSide
<1>10. QED
  BY <1>1, <1>2, <1>3, <1>4, <1>5, <1>6, <1>7, <1>8, <1>9, Step(t) DEF Step

\* For any number of nodes, threads and updates: whatever the compare-and-swaps
\* and path compressions of concurrent update calls do, parent never links two
\* nodes that the edges given so far do not connect.
THEOREM NeverJoinsUnconnected == Spec => []JoinsOnlyConnected
<1> DEFINE Inv == TypeOK /\ EdgeGiven /\ \A S \in SUBSET Nodes : Closed(S) => SideInv(S)
<1>1. ASSUME Init PROVE Inv
  <2>1. \A S \in SUBSET Nodes : SideInv(S)
    BY <1>1 DEF Init, SideInv, Locked
  <2>2. TypeOK /\ EdgeGiven
    BY <1>1, TypeInit
  <2>3. QED
    BY <2>1, <2>2
<1>2. ASSUME Inv, [Next]_vars PROVE Inv'
  <2>1. TypeOK' /\ EdgeGiven'
    BY <1>2, TypeNext
  <2>2. ASSUME NEW S \in SUBSET Nodes, Closed(S)' PROVE SideInv(S)'
    <3>1. ever \subseteq ever'
      <4>1. ASSUME NEW t \in Threads, Step(t) PROVE ever' = ever
        BY Zenon, <1>2, <4>1, OthersKeep DEF client
      <4>2. ASSUME NEW t \in Threads, NEW e \in Pairs, Update(t, e) PROVE ever \subseteq ever'
        BY Zenon, <4>2 DEF Update
      <4>3. CASE UNCHANGED vars
        BY Zenon, <4>3 DEF vars, client
      <4>4. QED
        BY Zenon, <1>2, <4>1, <4>2, <4>3 DEF Next
    <3>2. Closed(S)
      BY <2>2, <3>1 DEF Closed
    <3>3. SideInv(S)
      BY <1>2, <3>2
    <3>4. ASSUME NEW t \in Threads, Step(t) PROVE SideInv(S)'
      BY <1>2, <3>2, <3>3, <3>4, SideStep
    <3>5. ASSUME NEW t \in Threads, NEW e \in Pairs, Update(t, e) PROVE SideInv(S)'
      <4>1. UNCHANGED <<parent, a, b, cur, stack>>
        BY <3>5 DEF Update, dsuVars
      <4>2. \A u \in Threads : tpc'[u] \in Locked => tpc[u] \in Locked /\ edge'[u] = edge[u]
        <5>1. /\ tpc' \in {tpc, [tpc EXCEPT ![t] = "lock"]}
              /\ edge' \in {edge, [edge EXCEPT ![t] = e]}
              /\ edge' # edge => tpc' = [tpc EXCEPT ![t] = "lock"]
          BY Zenon, <3>5 DEF Update, Set
        <5>2. tpc \in [Threads -> Locked \cup {"idle", "lock", "overflow"}] /\ DOMAIN edge = Threads
          BY <1>2 DEF TypeOK
        <5>3. "lock" \notin Locked
          BY DEF Locked
        <5>4. QED
          BY ONLY <5>1, <5>2, <5>3
      <4>3. QED
        BY Zenon, <4>1, <4>2, <3>3 DEF SideInv, OnSide
    <3>6. CASE UNCHANGED vars
      <4>1. UNCHANGED <<parent, tpc, edge, a, b, cur, stack>>
        BY Zenon, <3>6 DEF vars, dsuVars, threadVars
      <4>2. QED
        BY Zenon, <4>1, <3>3 DEF SideInv, OnSide
    <3>7. QED
      BY <1>2, <3>4, <3>5, <3>6 DEF Next
  <2>3. QED
    BY <2>1, <2>2
<1>3. Inv => JoinsOnlyConnected
  BY DEF JoinsOnlyConnected, SideInv
<1>4. QED
  BY <1>1, <1>2, <1>3, PTL DEF Spec

-----------------------------------------------------------------------------
(***************************************************************************)
(* Each union takes one root away and leaves one spanning edge.  A thread  *)
(* between lock and unlock owns the mutex of its edge, so that no other    *)
(* inserts that edge; the nodes on its stack are no roots, and never       *)
(* become one again; the two roots of a union are different nodes.         *)
(***************************************************************************)
Joining == {t \in Threads : tpc[t] \in {"load", "load_a", "store", "insert"}}
Children == {x \in Nodes : parent[x] # x}

HoldsLock(t) == spanning_forest_mtx[edge[t][1]] = t /\ edge[t] \notin spanning_forest
StackOfChildren(t) == \A i \in 1..Len(stack[t]) : stack[t][i] \in Children

JoinInv ==
  \A t \in Threads :
    /\ tpc[t] \in Locked => HoldsLock(t)
    /\ tpc[t] \in {"down_a", "up_a", "down_b", "up_b"} => StackOfChildren(t)
    /\ tpc[t] \in {"up_a", "up_b"} => \A i \in 1..Len(stack[t]) : stack[t][i] # cur[t]
    /\ tpc[t] \in {"compare", "compare_b", "cas"} => a[t] # b[t] /\ stack[t] = <<>>

JoinCount ==
  /\ IsFiniteSet(spanning_forest) /\ IsFiniteSet(Joining)
  /\ Cardinality(Children) = Cardinality(spanning_forest) + Cardinality(Joining)

\* What a step does to the three sets that are counted.
CountStep(t) ==
  \/ UNCHANGED <<Children, spanning_forest, Joining>>
  \/ /\ b[t] \in Nodes \ Children /\ t \notin Joining
     /\ Children' = Children \cup {b[t]} /\ Joining' = Joining \cup {t}
     /\ spanning_forest' = spanning_forest
  \/ /\ edge[t] \notin spanning_forest /\ t \in Joining
     /\ spanning_forest' = spanning_forest \cup {edge[t]} /\ Joining' = Joining \ {t}
     /\ Children' = Children

\* Every step of a thread keeps its part of the invariant and moves at most one
\* of each between the sets.
LEMMA JoinStep ==
  ASSUME TypeOK, EdgeGiven, NEW t \in Threads, Step(t), JoinInv
  PROVE  JoinInv' /\ CountStep(t)
<1> USE DEF dsuVars, client, Locked
<1>a. /\ a[t] \in Nodes /\ b[t] \in Nodes /\ cur[t] \in Nodes /\ stack[t] \in Seq(Nodes)
      /\ parent \in [Nodes -> Nodes] /\ Len(stack[t]) \in Nat
      /\ edge[t] \in Nodes \X Nodes /\ edge[t][1] \in Nodes
  BY TypeOK DEF TypeOK
<1>b. edge' = edge
  BY Zenon, OthersKeep
\* The other threads hold what they held.
<1>c. \A u \in Threads : u # t =>
        /\ tpc'[u] = tpc[u] /\ a'[u] = a[u] /\ b'[u] = b[u] /\ cur'[u] = cur[u]
        /\ stack'[u] = stack[u]
  BY OthersKeep
\* It is enough that a thread with the lock keeps it, that children stay
\* children, and that this thread keeps its part.
<1> DEFINE Mine == /\ tpc'[t] \in Locked => HoldsLock(t)'
                   /\ tpc'[t] \in {"down_a", "up_a", "down_b", "up_b"} => StackOfChildren(t)'
                   /\ tpc'[t] \in {"up_a", "up_b"} => \A i \in 1..Len(stack'[t]) : stack'[t][i] # cur'[t]
                   /\ tpc'[t] \in {"compare", "compare_b", "cas"} => a'[t] # b'[t] /\ stack'[t] = <<>>
           Others == \A u \in Threads : u # t /\ HoldsLock(u) /\ tpc[u] \in Locked => HoldsLock(u)'
<1>d. ASSUME Mine, Others, Children \subseteq Children' PROVE JoinInv'
  <2>1. ASSUME NEW u \in Threads, u # t
        PROVE  /\ tpc'[u] \in Locked => HoldsLock(u)'
               /\ tpc'[u] \in {"down_a", "up_a", "down_b", "up_b"} => StackOfChildren(u)'
               /\ tpc'[u] \in {"up_a", "up_b"} => \A i \in 1..Len(stack'[u]) : stack'[u][i] # cur'[u]
               /\ tpc'[u] \in {"compare", "compare_b", "cas"} => a'[u] # b'[u] /\ stack'[u] = <<>>
    BY <1>c, <1>d, <2>1, JoinInv DEF JoinInv, StackOfChildren
  <2>2. QED
    BY <1>d, <2>1 DEF JoinInv
<1>e. tpc[t] \in Locked => HoldsLock(t)
  BY Zenon, JoinInv DEF JoinInv
<1>f. ASSUME UNCHANGED <<spanning_forest_mtx, spanning_forest>> PROVE Others /\ (HoldsLock(t) => HoldsLock(t)')
  BY <1>b, <1>f DEF HoldsLock
<1>g. ASSUME UNCHANGED <<parent, spanning_forest>>, tpc[t] \notin {"load", "load_a", "store", "insert"},
             tpc'[t] \notin {"load", "load_a", "store", "insert"}
      PROVE  CountStep(t) /\ Children' = Children
  BY <1>c, <1>g DEF CountStep, Children, Joining
\* Releasing the lock does not concern a thread that holds another.
<1>h. ASSUME tpc[t] \in Locked, Unlock(t), spanning_forest' \subseteq spanning_forest \cup {edge[t]}
      PROVE  Others /\ tpc'[t] = "idle"
  <2>1. ASSUME NEW u \in Threads, u # t, HoldsLock(u) PROVE HoldsLock(u)'
    <3>1. edge[u][1] # edge[t][1] /\ edge[u] \in Nodes \X Nodes /\ edge[u][1] \in Nodes
      BY Zenon, <1>e, <1>h, <2>1, TypeOK DEF HoldsLock, TypeOK
    <3>2. spanning_forest_mtx'[edge[u][1]] = spanning_forest_mtx[edge[u][1]]
      BY <1>h, <3>1, TypeOK DEF Unlock, TypeOK
    <3>3. QED
      BY <1>b, <1>h, <2>1, <3>1, <3>2 DEF HoldsLock
  <2>2. QED
    BY <1>h, <2>1, TypeOK DEF Unlock, TypeOK
<1>1. CASE Invalidate(t)
  <2>1. tpc[t] = "lock" /\ tpc'[t] = "idle" /\ UNCHANGED <<parent, spanning_forest, spanning_forest_mtx>>
    BY <1>1, TypeOK DEF Invalidate, TypeOK
  <2>2. QED
    BY Zenon, <1>d, <1>f, <1>g, <2>1
<1>2. CASE Lock(t)
  <2>1. /\ tpc[t] = "lock" /\ tpc'[t] = "down_a" /\ UNCHANGED <<parent, spanning_forest>>
        /\ spanning_forest_mtx[edge[t][1]] = Free /\ edge[t] \notin spanning_forest
        /\ spanning_forest_mtx' = [spanning_forest_mtx EXCEPT ![edge[t][1]] = t]
        /\ stack'[t] = <<>>
    BY <1>2, TypeOK DEF Lock, IsSpanning, TypeOK
  <2>2. HoldsLock(t)'
    BY Zenon, <1>a, <1>b, <2>1, TypeOK DEF HoldsLock, TypeOK
  <2>3. Others
    <3>1. ASSUME NEW u \in Threads, u # t, HoldsLock(u) PROVE HoldsLock(u)'
      <4>1. edge[u][1] # edge[t][1]
        BY Zenon, <2>1, <3>1, EagerAssumption DEF HoldsLock
      <4>2. spanning_forest_mtx'[edge[u][1]] = spanning_forest_mtx[edge[u][1]]
        BY Zenon, <2>1, <4>1, TypeOK DEF TypeOK
      <4>3. QED
        BY Zenon, <1>b, <2>1, <3>1, <4>2 DEF HoldsLock
    <3>2. QED
      BY Zenon, <3>1
  <2>4. Mine
    BY <2>1, <2>2 DEF StackOfChildren
  <2>5. QED
    BY <1>d, <1>g, <2>1, <2>3, <2>4
<1>3. ASSUME NEW down \in {"down_a", "down_b"}, NEW up \in {"up_a", "up_b"}, Descend(t, down, up)
      PROVE  JoinInv' /\ CountStep(t)
  <2>1. /\ tpc[t] = down /\ UNCHANGED <<parent, spanning_forest, spanning_forest_mtx>>
        /\ StackOfChildren(t) /\ HoldsLock(t)
    BY Zenon, <1>3, JoinInv DEF Descend, JoinInv
  <2>2. CASE parent[cur[t]] = cur[t]
    <3>1. tpc'[t] = up /\ UNCHANGED <<cur, stack>>
      BY <1>3, <2>2, TypeOK DEF Descend, TypeOK
    <3>2. Mine
      BY Zenon, <1>f, <2>1, <2>2, <3>1 DEF StackOfChildren, Children
    <3>3. QED
      BY Zenon, <1>d, <1>f, <1>g, <2>1, <3>1, <3>2
  <2>3. CASE parent[cur[t]] # cur[t] /\ Len(stack[t]) = NumNodes
    <3>1. tpc'[t] = "overflow"
      BY <1>3, <2>3, TypeOK DEF Descend, TypeOK
    <3>2. QED
      BY Zenon, <1>d, <1>f, <1>g, <2>1, <3>1
  <2>4. CASE parent[cur[t]] # cur[t] /\ Len(stack[t]) # NumNodes
    <3>1. tpc'[t] = down /\ stack'[t] = Append(stack[t], cur[t])
      BY <1>3, <2>1, <2>4, TypeOK DEF Descend, TypeOK
    <3>2. cur[t] \in Children
      BY <1>a, <2>4 DEF Children
    <3>3. \A i \in 1..Len(stack'[t]) : stack'[t][i] \in Children
      <4>a. stack[t] \in Seq(Nodes) /\ cur[t] \in Nodes
        BY ONLY Zenon, <1>a
      <4>1. \A i \in 1..Len(stack'[t]) :
              \/ stack'[t][i] = cur[t]
              \/ i \in 1..Len(stack[t]) /\ stack'[t][i] = stack[t][i]
        BY Zenon, <4>a, <3>1, Pushed
      <4>2. \A i \in 1..Len(stack[t]) : stack[t][i] \in Children
        BY <2>1 DEF StackOfChildren
      <4> HIDE DEF Mine, Others
      <4> QED BY ONLY Zenon, <3>2, <4>1, <4>2
    <3>4. StackOfChildren(t)'
      BY <2>1, <3>3 DEF StackOfChildren, Children
    <3>5. QED
      BY Zenon, <1>d, <1>f, <1>g, <2>1, <3>1, <3>4
  <2>5. QED
    BY <2>2, <2>3, <2>4
<1>4. CASE Ascend(t)
  <2> DEFINE top == stack[t][Len(stack[t])]
  <2>1. /\ tpc[t] \in {"up_a", "up_b"} /\ UNCHANGED <<tpc, cur, spanning_forest, spanning_forest_mtx>>
        /\ stack[t] # <<>> /\ StackOfChildren(t)
        /\ \A i \in 1..Len(stack[t]) : stack[t][i] # cur[t]
    BY Zenon, <1>4, JoinInv DEF Ascend, JoinInv
  <2>2. /\ Len(stack[t]) \in 1..Len(stack[t])
        /\ \A i \in 1..Len(stack'[t]) : i \in 1..Len(stack[t]) /\ stack'[t][i] = stack[t][i]
    <3>1. stack'[t] = SubSeq(stack[t], 1, Len(stack[t]) - 1)
      BY <1>4, TypeOK DEF Ascend, TypeOK
    <3>2. stack[t] \in Seq(Nodes) /\ stack[t] # <<>>
      BY Zenon, <1>a, <2>1
    <3>3. LET front == SubSeq(stack[t], 1, Len(stack[t]) - 1)
          IN  /\ \A i \in 1..Len(front) : i \in 1..Len(stack[t]) /\ front[i] = stack[t][i]
              /\ Len(stack[t]) \in 1..Len(stack[t])
      BY ONLY <3>2, FrontOfSeq
    <3>4. QED
      BY ONLY <3>1, <3>3
  <2>3. top \in Children /\ top # cur[t] /\ parent' = [parent EXCEPT ![top] = cur[t]]
    BY <1>4, <2>1, <2>2 DEF Ascend, Compressed, StackOfChildren
  <2> HIDE DEF top
  <2>4. Children' = Children
    BY <1>a, <2>3 DEF Children
  <2>5. Joining' = Joining
    BY <2>1 DEF Joining
  <2>6. Mine
    BY <1>e, <1>f, <2>1, <2>2, <2>4 DEF StackOfChildren
  <2>7. QED
    BY Zenon, <1>d, <1>f, <2>1, <2>4, <2>5, <2>6 DEF CountStep
<1>5. CASE FoundA(t)
  <2>1. /\ tpc[t] = "up_a" /\ tpc'[t] = "down_b" /\ stack[t] = <<>>
        /\ UNCHANGED <<parent, stack, spanning_forest, spanning_forest_mtx>>
    BY <1>5, TypeOK DEF FoundA, TypeOK
  <2>2. QED
    BY <1>d, <1>e, <1>f, <1>g, <2>1 DEF StackOfChildren
<1>6. CASE FoundSame(t)
  <2>1. tpc[t] = "up_b" /\ Unlock(t) /\ UNCHANGED <<parent, spanning_forest>>
    BY <1>6 DEF FoundSame
  <2>2. QED
    BY <1>d, <1>g, <1>h, <2>1
<1>7. CASE FoundB(t)
  <2>1. /\ tpc[t] = "up_b" /\ tpc'[t] = "compare" /\ stack'[t] = <<>> /\ a'[t] # b'[t]
        /\ UNCHANGED <<parent, spanning_forest, spanning_forest_mtx>>
    BY <1>7, TypeOK DEF FoundB, TypeOK
  <2>2. QED
    BY <1>d, <1>e, <1>f, <1>g, <2>1
<1>8. CASE LoadSize(t) \/ Compare(t)
  <2>1. /\ tpc[t] \in {"compare", "compare_b"} /\ tpc'[t] \in {"compare_b", "cas"} /\ stack' = stack
        /\ \/ a'[t] = a[t] /\ b'[t] = b[t]
           \/ a'[t] = b[t] /\ b'[t] = a[t]
        /\ UNCHANGED <<parent, spanning_forest, spanning_forest_mtx>>
    <3>1. CASE LoadSize(t)
      BY Zenon, <3>1, TypeOK DEF LoadSize, TypeOK
    <3>2. CASE Compare(t)
      <4>1. /\ tpc[t] = "compare_b" /\ tpc'[t] = "cas"
            /\ UNCHANGED <<stack, parent, spanning_forest, spanning_forest_mtx>>
        BY Zenon, <3>2, TypeOK DEF Compare, TypeOK
      <4>2. QED
        BY Zenon, <4>1, <3>2, TypeOK, CompareSwaps
    <3>3. QED
      BY Zenon, <1>8, <3>1, <3>2
  <2>2. a[t] # b[t] /\ stack[t] = <<>>
    BY <2>1, JoinInv DEF JoinInv
  <2>3. a'[t] # b'[t]
    BY Zenon, <2>1, <2>2
  <2>4. QED
    BY <1>d, <1>e, <1>f, <1>g, <2>1, <2>2, <2>3
<1>9. CASE CasJoins(t)
  <2>1. /\ tpc[t] = "cas" /\ tpc'[t] = "load" /\ parent[b[t]] = b[t]
        /\ parent' = [parent EXCEPT ![b[t]] = a[t]]
        /\ UNCHANGED <<spanning_forest, spanning_forest_mtx>>
    BY <1>9, TypeOK DEF CasJoins, CanJoin, TypeOK
  <2>2. a[t] # b[t]
    BY <2>1, JoinInv DEF JoinInv
  <2>3. Children' = Children \cup {b[t]} /\ b[t] \in Nodes \ Children
    BY <1>a, <2>1, <2>2 DEF Children
  <2>4. Joining' = Joining \cup {t} /\ t \notin Joining
    BY <1>c, <2>1 DEF Joining
  <2>5. QED
    BY Zenon, <1>d, <1>e, <1>f, <2>1, <2>3, <2>4 DEF CountStep
<1>10. CASE CasFails(t)
  <2>1. /\ tpc[t] = "cas" /\ tpc'[t] = "down_a" /\ stack' = stack
        /\ UNCHANGED <<parent, spanning_forest, spanning_forest_mtx>>
    BY <1>10, TypeOK DEF CasFails, TypeOK
  <2>2. stack[t] = <<>>
    BY <2>1, JoinInv DEF JoinInv
  <2>3. QED
    BY <1>d, <1>e, <1>f, <1>g, <2>1, <2>2 DEF StackOfChildren
<1>11. CASE LoadAddend(t) \/ AddSizes(t) \/ StoreSize(t)
  <2>1. /\ tpc[t] \in {"load", "load_a", "store"} /\ tpc'[t] \in {"load_a", "store", "insert"}
        /\ UNCHANGED <<parent, spanning_forest, spanning_forest_mtx>>
    BY Zenon, <1>11, TypeOK DEF LoadAddend, AddSizes, StoreSize, TypeOK
  <2>2. Children' = Children /\ Joining' = Joining
    BY <1>c, <2>1 DEF Children, Joining
  <2>3. QED
    BY <1>d, <1>e, <1>f, <2>1, <2>2 DEF CountStep
<1>12. CASE InsertSpanning(t)
  <2>1. /\ tpc[t] = "insert" /\ Unlock(t) /\ UNCHANGED parent
        /\ spanning_forest' = spanning_forest \cup {edge[t]}
    BY Zenon, <1>12 DEF InsertSpanning, Spanning
  <2>2. Others /\ tpc'[t] = "idle"
    BY Zenon, <1>h, <2>1
  <2>3. edge[t] \notin spanning_forest
    BY Zenon, <1>e, <2>1 DEF HoldsLock
  <2>4. Children' = Children /\ Joining' = Joining \ {t} /\ t \in Joining
    BY <1>c, <2>1, <2>2 DEF Children, Joining
  <2>5. QED
    BY Zenon, <1>d, <2>1, <2>2, <2>3, <2>4 DEF CountStep
<1>13. QED
  BY <1>1, <1>2, <1>3, <1>4, <1>5, <1>6, <1>7, <1>8, <1>9, <1>10, <1>11, <1>12, Step(t) DEF Step

\* The three sets move together.
LEMMA CountKept ==
  ASSUME TypeOK, JoinCount, NEW t, CountStep(t)
  PROVE  JoinCount'
<1>1. IsFiniteSet(Nodes) /\ Children \in SUBSET Nodes
  <2>1. IsFiniteSet(0..(NumNodes - 1))
    BY EagerAssumption, FS_Interval
  <2>2. QED
    BY <2>1 DEF Nodes, Children
<1>2. IsFiniteSet(Children)
  BY <1>1, FS_Subset
<1>3. /\ Cardinality(Children) \in Nat /\ Cardinality(spanning_forest) \in Nat
      /\ Cardinality(Joining) \in Nat
  BY <1>2, FS_CardinalityType DEF JoinCount
<1>4. CASE UNCHANGED <<Children, spanning_forest, Joining>>
  BY <1>4 DEF JoinCount
<1>5. CASE /\ b[t] \in Nodes \ Children /\ t \notin Joining
           /\ Children' = Children \cup {b[t]} /\ Joining' = Joining \cup {t}
           /\ spanning_forest' = spanning_forest
  <2>1. Cardinality(Children') = Cardinality(Children) + 1
    BY <1>2, <1>5, FS_AddElement
  <2>2. IsFiniteSet(Joining') /\ Cardinality(Joining') = Cardinality(Joining) + 1
    BY <1>5, FS_AddElement DEF JoinCount
  <2>3. QED
    BY <1>3, <1>5, <2>1, <2>2 DEF JoinCount
<1>6. CASE /\ edge[t] \notin spanning_forest /\ t \in Joining
           /\ spanning_forest' = spanning_forest \cup {edge[t]} /\ Joining' = Joining \ {t}
           /\ Children' = Children
  <2>1. IsFiniteSet(spanning_forest') /\ Cardinality(spanning_forest') = Cardinality(spanning_forest) + 1
    BY <1>6, FS_AddElement DEF JoinCount
  <2>2. IsFiniteSet(Joining') /\ Cardinality(Joining') = Cardinality(Joining) - 1
    BY <1>6, FS_RemoveElement DEF JoinCount
  <2>3. QED
    BY <1>3, <1>6, <2>1, <2>2 DEF JoinCount
<1>7. QED
  BY <1>4, <1>5, <1>6 DEF CountStep

\* A call that begins, and a step of nothing, change no set.
LEMMA JoinNext == TypeOK /\ EdgeGiven /\ JoinInv /\ JoinCount /\ [Next]_vars => JoinInv' /\ JoinCount'
<1> SUFFICES ASSUME TypeOK, EdgeGiven, JoinInv, JoinCount, [Next]_vars PROVE JoinInv' /\ JoinCount'
  OBVIOUS
<1>1. ASSUME NEW t \in Threads, Step(t) PROVE JoinInv' /\ JoinCount'
  BY <1>1, JoinStep, CountKept
<1>2. ASSUME NEW t \in Threads, NEW e \in Pairs, Update(t, e) PROVE JoinInv' /\ JoinCount'
  <2>1. /\ tpc[t] = "idle" /\ tpc'[t] \in {"idle", "lock"}
        /\ UNCHANGED <<parent, spanning_forest, spanning_forest_mtx, a, b, cur, stack>>
    BY Zenon, <1>2, TypeOK DEF Update, TypeOK, dsuVars
  <2>2. \A u \in Threads : u # t => tpc'[u] = tpc[u] /\ edge'[u] = edge[u]
    BY Zenon, <1>2, TypeOK DEF Update, TypeOK
  <2>3. Children' = Children /\ Joining' = Joining
    BY <2>1, <2>2 DEF Children, Joining
  <2>4. JoinInv'
    <3>1. ASSUME NEW u \in Threads, u # t
          PROVE  /\ tpc'[u] \in Locked => HoldsLock(u)'
                 /\ tpc'[u] \in {"down_a", "up_a", "down_b", "up_b"} => StackOfChildren(u)'
                 /\ tpc'[u] \in {"up_a", "up_b"} => \A i \in 1..Len(stack'[u]) : stack'[u][i] # cur'[u]
                 /\ tpc'[u] \in {"compare", "compare_b", "cas"} => a'[u] # b'[u] /\ stack'[u] = <<>>
      BY Zenon, <2>1, <2>2, <2>3, <3>1, JoinInv DEF JoinInv, HoldsLock, StackOfChildren
    <3>2. QED
      BY Zenon, <2>1, <3>1 DEF JoinInv, Locked
  <2>5. QED
    BY <2>1, <2>3, <2>4 DEF JoinCount
<1>3. CASE UNCHANGED vars
  <2>1. UNCHANGED <<parent, spanning_forest, spanning_forest_mtx, tpc, edge, a, b, cur, stack>>
    BY Zenon, <1>3 DEF vars, dsuVars, threadVars
  <2>2. Children' = Children /\ Joining' = Joining
    BY Zenon, <2>1 DEF Children, Joining
  <2>3. JoinInv'
    BY Zenon, <2>1, <2>2, JoinInv DEF JoinInv, HoldsLock, StackOfChildren
  <2>4. JoinCount'
    BY Zenon, <2>1, <2>2, JoinCount DEF JoinCount
  <2>5. QED
    BY <2>3, <2>4
<1>4. QED
  BY Zenon, <1>1, <1>2, <1>3, [Next]_vars DEF Next

\* At the start every node is a root.
LEMMA JoinInit == Init => JoinInv /\ JoinCount
<1> SUFFICES ASSUME Init PROVE JoinInv /\ JoinCount
  OBVIOUS
<1>1. JoinInv
  BY DEF Init, JoinInv, Locked
<1>2. Children = {} /\ Joining = {} /\ spanning_forest = {}
  BY DEF Init, Children, Joining
<1>3. QED
  BY <1>1, <1>2, FS_EmptySet DEF JoinCount

\* Whatever the threads do at once, cycle or not, as many nodes are no roots as
\* there are spanning edges, counting those about to be inserted.
THEOREM JoinsAreCounted == Spec => []OneEdgePerJoin
<1>1. JoinCount => OneEdgePerJoin
  BY DEF JoinCount, OneEdgePerJoin, Children, Joining
<1>2. QED
  BY <1>1, TypeInit, TypeNext, JoinInit, JoinNext, PTL DEF Spec

-----------------------------------------------------------------------------
(***************************************************************************)
(* The DSU between calls.  The nodes have colours: a union gives the       *)
(* colour of one root to all nodes of the other one's.  Path compression   *)
(* and stale roots never mix colours, whether or not parent has a cycle,   *)
(* and no colour has two roots; one that is joined with itself has none,   *)
(* from then on, which is the cycle.                                       *)
(***************************************************************************)
SameEnds(c, e) == c[e[1]] = c[e[2]]

HoldsEnds(c, t) ==
  \/ c[a[t]] = c[edge[t][1]] /\ c[b[t]] = c[edge[t][2]]
  \/ c[a[t]] = c[edge[t][2]] /\ c[b[t]] = c[edge[t][1]]

\* get_parent stays among the nodes with the colour of x.
Looks(c, t, x) == c[cur[t]] = c[x] /\ \A i \in 1..Len(stack[t]) : c[stack[t][i]] = c[x]

ColouredThread(c, t) ==
  /\ tpc[t] \in Locked => HoldsEnds(c, t)
  /\ tpc[t] \in {"down_a", "up_a"} => Looks(c, t, a[t])
  /\ tpc[t] \in {"down_b", "up_b"} => Looks(c, t, b[t])
  /\ tpc[t] \in {"load", "load_a", "store", "insert"} => SameEnds(c, edge[t])

\* The edges that joined two trees, also those not yet in spanning_forest.
JoinEdges == spanning_forest \cup {edge[t] : t \in Joining}

\* Colours are no finer than the trees, and no coarser than the components of
\* the joining edges.
ColourInv(c) ==
  /\ \A x \in Nodes : c[parent[x]] = c[x]
  /\ \A x, y \in Nodes \ Children : c[x] = c[y] => x = y
  /\ \A t \in Threads : ColouredThread(c, t)
  /\ \A S \in SUBSET Nodes : ClosedUnder(JoinEdges, S) =>
       \A x, y \in Nodes : c[x] = c[y] => (x \in S <=> y \in S)

\* Every colour has a root.
Rooted(c) == \A x \in Nodes : \E r \in Nodes \ Children : c[r] = c[x]

\* The calls that work on e.
At(e) == {t \in Threads : tpc[t] # "idle" /\ edge[t] = e}

\* No call on an edge with ends of two colours has returned, so that it is in
\* the graph if there is one such call and not if there is none.  A joining
\* edge is in the graph, or a call that deleted it is about to find it out.
EdgeInv(c) ==
  dsu_valid =>
    /\ \A e \in Pairs : ~SameEnds(c, e) =>
         /\ e \in edges => At(e) # {}
         /\ \A t \in Threads : At(e) = {t} => e \in edges
    /\ Rooted(c) => \A e \in JoinEdges : e \in edges \/ \E t \in At(e) : tpc[t] = "lock"

ColoursExist == \E c \in [Nodes -> Nodes] : ColourInv(c) /\ EdgeInv(c)

\* A thread that ran out of stack has not unlocked.
OverflowLocked == \A t \in Threads : tpc[t] = "overflow" => spanning_forest_mtx[edge[t][1]] = t

\* What a thread says of colours is about its own variables only.
LEMMA SameThread ==
  ASSUME NEW c, NEW u, edge' = edge, tpc'[u] = tpc[u], a'[u] = a[u], b'[u] = b[u],
         cur'[u] = cur[u], stack'[u] = stack[u], ColouredThread(c, u)
  PROVE  ColouredThread(c, u)'
BY Zenon DEF ColouredThread, HoldsEnds, Looks, SameEnds

\* The steps of a call other than its union leave roots, joining edges and
\* colours alone: what it stores has the colour of what it replaces.
LEMMA ColoursKept ==
  ASSUME TypeOK, EdgeGiven, JoinInv, NEW t \in Threads, Step(t), ~CasJoins(t),
         NEW c \in [Nodes -> Nodes], ColourInv(c)
  PROVE  ColourInv(c)' /\ JoinEdges' = JoinEdges /\ Children' = Children
<1> USE DEF dsuVars, client, Locked
<1>a. /\ a[t] \in Nodes /\ b[t] \in Nodes /\ cur[t] \in Nodes /\ stack[t] \in Seq(Nodes)
      /\ parent[cur[t]] \in Nodes /\ parent[b[t]] \in Nodes
      /\ parent \in [Nodes -> Nodes] /\ Len(stack[t]) \in Nat
  BY TypeOK DEF TypeOK
<1>b. edge' = edge
  BY Zenon, OthersKeep
<1>c. \A u \in Threads : u # t =>
        /\ tpc'[u] = tpc[u] /\ a'[u] = a[u] /\ b'[u] = b[u] /\ cur'[u] = cur[u]
        /\ stack'[u] = stack[u]
  BY Zenon, OthersKeep
<1>d. ColouredThread(c, t) /\ \A x \in Nodes : c[parent[x]] = c[x]
  BY Zenon, ColourInv(c) DEF ColourInv
<1>e. Children' = Children /\ JoinEdges' = JoinEdges
  <2>1. CountStep(t)
    BY JoinStep
  <2>2. CASE t \notin Joining /\ Joining' = Joining \cup {t}
    <3>1. tpc[t] \notin {"load", "load_a", "store", "insert"} /\ tpc'[t] \in {"load", "load_a", "store", "insert"}
      BY <2>2 DEF Joining
    <3>2. QED
      BY Zenon, <3>1, Step(t), ~CasJoins(t), TypeOK
      DEF TypeOK, Step, Invalidate, Lock, Descend, Ascend, FoundA, FoundSame, FoundB, LoadSize, Compare,
          CasFails, LoadAddend, AddSizes, StoreSize, InsertSpanning, Unlock
  <2>3. CASE /\ t \in Joining /\ Joining' = Joining \ {t} /\ Children' = Children
             /\ spanning_forest' = spanning_forest \cup {edge[t]}
    BY <1>b, <2>3 DEF JoinEdges
  <2>4. CASE UNCHANGED <<Children, spanning_forest, Joining>>
    BY <1>b, <2>4 DEF JoinEdges
  <2>5. QED
    BY Zenon, <2>1, <2>2, <2>3, <2>4 DEF CountStep
<1>f. SUFFICES (\A x \in Nodes : c[parent'[x]] = c[x]) /\ ColouredThread(c, t)'
  <2>1. ASSUME NEW u \in Threads, u # t PROVE ColouredThread(c, u)'
    <3>1. ColouredThread(c, u)
      BY Zenon, ColourInv(c) DEF ColourInv
    <3>2. QED
      BY Zenon, <1>b, <1>c, <2>1, <3>1, SameThread
  <2>2. QED
    BY Zenon, <1>e, <1>f, <2>1, ColourInv(c) DEF ColourInv
<1>1. CASE Invalidate(t) \/ FoundSame(t) \/ InsertSpanning(t)
  <2>1. tpc'[t] = "idle" /\ parent' = parent
    BY Zenon, <1>1, TypeOK DEF Invalidate, FoundSame, InsertSpanning, Unlock, TypeOK
  <2>2. QED
    BY Zenon, <1>d, <2>1 DEF ColouredThread
<1>2. CASE Lock(t)
  <2>1. /\ a'[t] = edge[t][1] /\ b'[t] = edge[t][2] /\ cur'[t] = edge[t][1]
        /\ stack'[t] = <<>> /\ parent' = parent /\ tpc'[t] = "down_a"
    BY <1>2, TypeOK DEF Lock, StartAtEnds, TypeOK
  <2>2. QED
    BY Zenon, <1>b, <1>d, <2>1, NoneInEmpty DEF ColouredThread, HoldsEnds, Looks
<1>3. ASSUME NEW down, NEW up, Descend(t, down, up),
             \/ down = "down_a" /\ up = "up_a"
             \/ down = "down_b" /\ up = "up_b"
      PROVE  (\A x \in Nodes : c[parent'[x]] = c[x]) /\ ColouredThread(c, t)'
  <2>1. tpc[t] = down /\ UNCHANGED <<parent, a, b>>
    BY <1>3 DEF Descend
  <2>2. CASE UNCHANGED <<cur, stack>>
    <3>1. tpc'[t] \in {up, "overflow"} \/ tpc'[t] = down
      BY <1>3, TypeOK DEF Descend, TypeOK
    <3>2. QED
      BY Zenon, <1>3, <1>b, <1>d, <2>1, <2>2, <3>1 DEF ColouredThread, HoldsEnds, Looks
  <2>3. CASE /\ stack' = Set(stack, t, Append(stack[t], cur[t])) /\ cur' = Set(cur, t, parent[cur[t]])
             /\ tpc' = tpc
    <3>1. stack'[t] = Append(stack[t], cur[t]) /\ cur'[t] = parent[cur[t]]
      BY <2>3, TypeOK DEF TypeOK
    <3>2. c[cur'[t]] = c[cur[t]]
      BY Zenon, <1>a, <1>d, <3>1
    <3>3. ASSUME NEW x, Looks(c, t, x) PROVE \A i \in 1..Len(stack'[t]) : c[stack'[t][i]] = c[x]
      <4>a. stack[t] \in Seq(Nodes) /\ cur[t] \in Nodes
        BY ONLY Zenon, <1>a
      <4>1. \A i \in 1..Len(stack'[t]) :
              \/ stack'[t][i] = cur[t]
              \/ i \in 1..Len(stack[t]) /\ stack'[t][i] = stack[t][i]
        BY Zenon, <4>a, <3>1, Pushed
      <4>2. c[cur[t]] = c[x] /\ \A i \in 1..Len(stack[t]) : c[stack[t][i]] = c[x]
        BY <3>3 DEF Looks
      <4>3. QED
        BY ONLY Zenon, <4>1, <4>2
    <3>4. QED
      BY Zenon, <1>3, <1>b, <1>d, <2>1, <2>3, <3>2, <3>3 DEF ColouredThread, HoldsEnds, Looks
  <2>4. QED
    BY Zenon, <1>3, <2>2, <2>3 DEF Descend
<1>4. CASE Ascend(t)
  <2>1. /\ tpc[t] \in {"up_a", "up_b"} /\ UNCHANGED <<tpc, a, b, cur>> /\ stack[t] # <<>>
        /\ parent' = [parent EXCEPT ![stack[t][Len(stack[t])]] = cur[t]]
    BY <1>4 DEF Ascend, Compressed
  <2>2. /\ Len(stack[t]) \in 1..Len(stack[t])
        /\ \A i \in 1..Len(stack'[t]) : i \in 1..Len(stack[t]) /\ stack'[t][i] = stack[t][i]
    <3>1. stack'[t] = SubSeq(stack[t], 1, Len(stack[t]) - 1)
      BY <1>4, TypeOK DEF Ascend, TypeOK
    <3>2. LET front == SubSeq(stack[t], 1, Len(stack[t]) - 1)
          IN  /\ \A i \in 1..Len(front) : i \in 1..Len(stack[t]) /\ front[i] = stack[t][i]
              /\ Len(stack[t]) \in 1..Len(stack[t])
      BY ONLY Zenon, <1>a, <2>1, FrontOfSeq
    <3>3. QED
      BY ONLY <3>1, <3>2
  <2>3. c[stack[t][Len(stack[t])]] = c[cur[t]]
    BY Zenon, <1>d, <2>1, <2>2 DEF ColouredThread, Looks
  <2>4. \A x \in Nodes : c[parent'[x]] = c[x]
    BY Zenon, <1>a, <1>d, <2>1, <2>3
  <2>5. ColouredThread(c, t)'
    BY ZenonT(40), <1>b, <1>d, <2>1, <2>2 DEF ColouredThread, HoldsEnds, Looks
  <2>6. QED
    BY Zenon, <2>4, <2>5
<1>5. CASE FoundA(t)
  <2>1. /\ tpc[t] = "up_a" /\ tpc'[t] = "down_b" /\ stack[t] = <<>> /\ UNCHANGED <<parent, b, stack>>
        /\ a'[t] = cur[t] /\ cur'[t] = b[t]
    BY Zenon, <1>5, TypeOK DEF FoundA, TypeOK
  <2>2. QED
    BY Zenon, <1>b, <1>d, <2>1, NoneInEmpty DEF ColouredThread, HoldsEnds, Looks
<1>6. CASE FoundB(t)
  <2>1. /\ tpc[t] = "up_b" /\ tpc'[t] = "compare" /\ UNCHANGED <<parent, a>> /\ b'[t] = cur[t]
    BY Zenon, <1>6, TypeOK DEF FoundB, TypeOK
  <2>2. QED
    BY Zenon, <1>b, <1>d, <2>1 DEF ColouredThread, HoldsEnds, Looks
<1>7. CASE LoadSize(t) \/ Compare(t)
  <2>1. /\ tpc[t] \in {"compare", "compare_b"} /\ tpc'[t] \in {"compare_b", "cas"}
        /\ UNCHANGED parent
        /\ \/ a'[t] = a[t] /\ b'[t] = b[t]
           \/ a'[t] = b[t] /\ b'[t] = a[t]
    <3>1. CASE LoadSize(t)
      BY Zenon, <3>1, TypeOK DEF LoadSize, TypeOK
    <3>2. CASE Compare(t)
      <4>1. tpc[t] = "compare_b" /\ tpc'[t] = "cas" /\ UNCHANGED parent
        BY Zenon, <3>2, TypeOK DEF Compare, TypeOK
      <4>2. QED
        BY Zenon, <4>1, <3>2, TypeOK, CompareSwaps
    <3>3. QED
      BY Zenon, <1>7, <3>1, <3>2
  <2>2. QED
    BY Zenon, <1>b, <1>d, <2>1 DEF ColouredThread, HoldsEnds
<1>8. CASE CasFails(t)
  <2>1. /\ tpc[t] = "cas" /\ tpc'[t] = "down_a" /\ UNCHANGED <<parent, a, stack>>
        /\ b'[t] = parent[b[t]] /\ cur'[t] = a[t]
    BY Zenon, <1>8, TypeOK DEF CasFails, TypeOK
  <2>2. stack[t] = <<>> /\ c[b'[t]] = c[b[t]]
    BY Zenon, <1>a, <1>d, <2>1, JoinInv DEF JoinInv
  <2>3. QED
    BY Zenon, <1>b, <1>d, <2>1, <2>2, NoneInEmpty DEF ColouredThread, HoldsEnds, Looks
<1>9. CASE LoadAddend(t) \/ AddSizes(t) \/ StoreSize(t)
  <2>1. /\ tpc[t] \in {"load", "load_a", "store"} /\ tpc'[t] \in {"load_a", "store", "insert"}
        /\ UNCHANGED <<parent, a, b>>
    BY Zenon, <1>9, TypeOK DEF LoadAddend, AddSizes, StoreSize, TypeOK
  <2>2. QED
    BY Zenon, <1>b, <1>d, <2>1 DEF ColouredThread, HoldsEnds, SameEnds
<1>10. QED
  BY Zenon, <1>1, <1>2, <1>3, <1>4, <1>5, <1>6, <1>7, <1>8, <1>9, Step(t), ~CasJoins(t) DEF Step

\* The colours after the union of thread t.
Joint(c, t) == [z \in Nodes |-> IF c[z] = c[b[t]] THEN c[a[t]] ELSE c[z]]

\* A union joins two colours; if it leaves a root to every colour, there was one
\* before, and the two were different.
LEMMA ColoursJoined ==
  ASSUME TypeOK, JoinInv, NEW t \in Threads, CasJoins(t),
         NEW c \in [Nodes -> Nodes], ColourInv(c), NEW d \in [Nodes -> Nodes], d = Joint(c, t)
  PROVE  /\ ColourInv(d)' /\ JoinEdges' = JoinEdges \cup {edge[t]}
         /\ \A e \in Pairs : SameEnds(c, e) => SameEnds(d, e)
         /\ Rooted(d)' => Rooted(c) /\ ~SameEnds(c, edge[t])
<1> USE DEF client, Locked
<1>a. /\ a[t] \in Nodes /\ b[t] \in Nodes /\ parent \in [Nodes -> Nodes]
      /\ edge[t][1] \in Nodes /\ edge[t][2] \in Nodes
  BY TypeOK DEF TypeOK
<1>b. /\ UNCHANGED <<edge, a, b, cur, stack, spanning_forest>>
      /\ tpc[t] = "cas" /\ tpc'[t] = "load" /\ \A u \in Threads : u # t => tpc'[u] = tpc[u]
      /\ parent[b[t]] = b[t] /\ parent' = [parent EXCEPT ![b[t]] = a[t]] /\ a[t] # b[t]
  BY Zenon, CasJoins(t), JoinInv, TypeOK DEF CasJoins, CanJoin, JoinInv, TypeOK
<1>c. /\ Children' = Children \cup {b[t]} /\ b[t] \in Nodes \ Children
      /\ Joining' = Joining \cup {t}
  BY Zenon, <1>a, <1>b DEF Children, Joining
<1>d. JoinEdges' = JoinEdges \cup {edge[t]}
  BY Zenon, <1>b, <1>c DEF JoinEdges
<1>e. /\ \A x, y \in Nodes : c[x] = c[y] => d[x] = d[y]
      /\ d[a[t]] = d[b[t]]
      /\ \A x, y \in Nodes : d[x] = d[y] =>
           c[x] = c[y] \/ {c[x], c[y]} \subseteq {c[a[t]], c[b[t]]}
  BY Zenon, <1>a DEF Joint
<1>f. HoldsEnds(c, t)
  BY Zenon, <1>b, ColourInv(c) DEF ColourInv, ColouredThread
<1>g. \A x \in Nodes \ Children : c[x] = c[b[t]] => x = b[t]
  BY Zenon, <1>c, ColourInv(c) DEF ColourInv
<1>1. \A x \in Nodes : d[parent'[x]] = d[x]
  <2>1. \A x \in Nodes : c[parent[x]] = c[x]
    BY Zenon, ColourInv(c) DEF ColourInv
  <2>2. QED
    <3>1. ASSUME NEW x \in Nodes PROVE d[parent'[x]] = d[x]
      <4>1. CASE x = b[t]
        <5>1. parent'[x] = a[t]
          BY ONLY <1>a, <1>b, <4>1
        <5>2. QED
          BY Zenon, <1>e, <4>1, <5>1
      <4>2. CASE x # b[t]
        <5>1. parent'[x] = parent[x] /\ parent[x] \in Nodes
          BY ONLY <1>a, <1>b, <3>1, <4>2
        <5>2. QED
          BY ONLY <1>e, <2>1, <3>1, <5>1
      <4>3. QED
        BY Zenon, <4>1, <4>2
    <3>2. QED
      BY Zenon, <3>1
<1>2. ASSUME NEW x \in Nodes \ Children', NEW y \in Nodes \ Children', d[x] = d[y] PROVE x = y
  <2>1. x \in Nodes \ Children /\ y \in Nodes \ Children /\ x # b[t] /\ y # b[t]
    BY Zenon, <1>c
  <2>2. c[x] # c[b[t]] /\ c[y] # c[b[t]]
    BY <1>g, <2>1
  <2>3. c[x] = c[y]
    BY Zenon, <1>2, <1>e, <2>1, <2>2
  <2>4. QED
    BY Zenon, <2>1, <2>3, ColourInv(c) DEF ColourInv
<1>3. ASSUME NEW u \in Threads PROVE ColouredThread(d, u)'
  <2>1. ColouredThread(c, u) /\ a[u] \in Nodes /\ b[u] \in Nodes /\ cur[u] \in Nodes
        /\ edge[u][1] \in Nodes /\ edge[u][2] \in Nodes
        /\ \A i \in 1..Len(stack[u]) : stack[u][i] \in Nodes
    BY Zenon, TypeOK, ColourInv(c), InSeq DEF ColourInv, TypeOK
  <2>2. CASE u = t
    <3>1. HoldsEnds(d, t)' /\ SameEnds(d, edge'[t])
      BY Zenon, <1>a, <1>b, <1>e, <1>f DEF HoldsEnds, SameEnds
    <3>2. tpc'[t] = "load"
      BY Zenon, <1>b
    <3>3. QED
      BY Zenon, <2>2, <3>1, <3>2 DEF ColouredThread
  <2>3. CASE u # t
    <3>1. tpc'[u] \in Locked => HoldsEnds(d, u)'
      BY Zenon, <1>b, <1>e, <2>1, <2>3 DEF ColouredThread, HoldsEnds
    <3>2. ASSUME NEW x \in Nodes, Looks(c, u, x) PROVE Looks(d, u, x)
      BY Zenon, <1>e, <2>1, <3>2 DEF Looks
    <3>3. ASSUME NEW x \in Nodes, Looks(d, u, x) PROVE Looks(d, u, x)'
      BY Zenon, <1>b, <3>3 DEF Looks
    <3>4. SameEnds(c, edge[u]) => SameEnds(d, edge[u])
      BY Zenon, <1>e, <2>1 DEF SameEnds
    <3>5. /\ tpc[u] \in {"down_a", "up_a"} => Looks(d, u, a[u])
          /\ tpc[u] \in {"down_b", "up_b"} => Looks(d, u, b[u])
      BY Zenon, <2>1, <3>2 DEF ColouredThread
    <3>6. QED
      BY Zenon, <1>b, <2>1, <2>3, <3>1, <3>4, <3>5 DEF ColouredThread, SameEnds, Looks
  <2>4. QED
    BY <2>2, <2>3
<1>4. ASSUME NEW S \in SUBSET Nodes, ClosedUnder(JoinEdges', S),
             NEW x \in Nodes, NEW y \in Nodes, d[x] = d[y]
      PROVE  x \in S <=> y \in S
  <2>1. ClosedUnder(JoinEdges, S) /\ (edge[t][1] \in S <=> edge[t][2] \in S)
    BY <1>4, <1>d DEF ClosedUnder
  <2>2. \A v, w \in Nodes : c[v] = c[w] => (v \in S <=> w \in S)
    BY Zenon, <2>1, ColourInv(c) DEF ColourInv
  <2>3. a[t] \in S <=> b[t] \in S
    BY Zenon, <1>a, <1>f, <2>1, <2>2 DEF HoldsEnds
  <2>4. CASE c[x] = c[y]
    BY <2>2, <2>4
  <2>5. CASE {c[x], c[y]} \subseteq {c[a[t]], c[b[t]]}
    BY <1>a, <2>2, <2>3, <2>5
  <2>6. QED
    BY Zenon, <1>4, <1>e, <2>4, <2>5
<1>5. ColourInv(d)'
  BY Zenon, <1>1, <1>2, <1>3, <1>4 DEF ColourInv
<1>6. \A e \in Pairs : SameEnds(c, e) => SameEnds(d, e)
  BY <1>e, EagerAssumption DEF SameEnds
<1>7. ASSUME Rooted(d)' PROVE Rooted(c) /\ ~SameEnds(c, edge[t])
  <2>1. ASSUME NEW x \in Nodes
        PROVE  \E r \in Nodes \ Children : r # b[t] /\ c[r] # c[b[t]] /\ d[r] = d[x]
    <3>1. PICK r \in Nodes \ Children' : d[r] = d[x]
      BY <1>7, <2>1 DEF Rooted
    <3>2. r \in Nodes \ Children /\ r # b[t]
      BY <1>c
    <3>3. QED
      BY <1>g, <3>1, <3>2
  <2>2. ASSUME NEW x \in Nodes PROVE \E r \in Nodes \ Children : c[r] = c[x]
    <3>1. CASE c[x] = c[b[t]]
      BY <1>c, <3>1
    <3>2. CASE c[x] # c[b[t]]
      <4>1. PICK r \in Nodes \ Children : c[r] # c[b[t]] /\ d[r] = d[x]
        BY <2>1
      <4>2. c[r] = c[x]
        BY Zenon, <1>e, <3>2, <4>1
      <4>3. QED
        BY <4>2
    <3>3. QED
      BY <3>1, <3>2
  <2>3. c[a[t]] # c[b[t]]
    <3>1. PICK r \in Nodes \ Children : c[r] # c[b[t]] /\ d[r] = d[b[t]]
      BY <1>a, <2>1
    <3>2. QED
      BY Zenon, <1>a, <1>e, <3>1
  <2>4. QED
    BY <1>f, <2>2, <2>3 DEF Rooted, SameEnds, HoldsEnds
<1>8. QED
  BY <1>5, <1>6, <1>7, <1>d

\* Between the lock and the unlock a thread owns its mutex, in a cycle too.
LEMMA OverflowNext ==
  ASSUME TypeOK, JoinInv, OverflowLocked, [Next]_vars
  PROVE  OverflowLocked'
<1>1. ASSUME NEW t \in Threads, Step(t) PROVE OverflowLocked'
  <2>1. edge' = edge /\ \A u \in Threads : u # t => tpc'[u] = tpc[u]
    BY <1>1, OthersKeep
  <2>2. ASSUME tpc[t] \in Locked, Unlock(t) PROVE OverflowLocked'
    <3>1. spanning_forest_mtx[edge[t][1]] = t /\ tpc'[t] = "idle"
      BY Zenon, <2>2, JoinInv, TypeOK DEF JoinInv, HoldsLock, Unlock, TypeOK
    <3>2. ASSUME NEW u \in Threads, tpc'[u] = "overflow" PROVE spanning_forest_mtx'[edge[u][1]] = u
      <4>1. u # t /\ spanning_forest_mtx[edge[u][1]] = u
        BY <2>1, <3>1, <3>2, OverflowLocked DEF OverflowLocked
      <4>2. edge[u][1] # edge[t][1] /\ edge[u][1] \in Nodes
        BY Zenon, <3>1, <4>1, TypeOK DEF TypeOK
      <4>3. QED
        BY Zenon, <2>2, <4>1, <4>2, TypeOK DEF Unlock, TypeOK
    <3>3. QED
      BY <2>1, <3>2 DEF OverflowLocked
  <2>3. CASE FoundSame(t) \/ InsertSpanning(t)
    BY <2>2, <2>3 DEF FoundSame, InsertSpanning, Locked
  <2>4. CASE Lock(t)
    <3>1. /\ spanning_forest_mtx[edge[t][1]] = Free /\ tpc'[t] = "down_a"
          /\ spanning_forest_mtx' = [spanning_forest_mtx EXCEPT ![edge[t][1]] = t]
      BY Zenon, <2>4, TypeOK DEF Lock, TypeOK
    <3>2. ASSUME NEW u \in Threads, tpc'[u] = "overflow" PROVE spanning_forest_mtx'[edge[u][1]] = u
      <4>1. u # t /\ spanning_forest_mtx[edge[u][1]] = u
        BY <2>1, <3>1, <3>2, OverflowLocked DEF OverflowLocked
      <4>2. edge[u][1] # edge[t][1] /\ edge[u][1] \in Nodes
        BY Zenon, <3>1, <4>1, EagerAssumption, TypeOK DEF TypeOK
      <4>3. QED
        BY <3>1, <4>1, <4>2
    <3>3. QED
      BY <2>1, <3>2 DEF OverflowLocked
  <2>5. CASE Descend(t, "down_a", "up_a") \/ Descend(t, "down_b", "up_b")
    <3>1. tpc[t] \in Locked /\ UNCHANGED spanning_forest_mtx
      BY Zenon, <2>5 DEF Descend, dsuVars, Locked
    <3>2. spanning_forest_mtx[edge[t][1]] = t
      BY Zenon, <3>1, JoinInv DEF JoinInv, HoldsLock
    <3>3. QED
      BY Zenon, <2>1, <3>1, <3>2, OverflowLocked DEF OverflowLocked
  <2>6. CASE \/ Invalidate(t) \/ Ascend(t) \/ FoundA(t) \/ FoundB(t) \/ LoadSize(t) \/ Compare(t)
             \/ CasJoins(t) \/ CasFails(t) \/ LoadAddend(t) \/ AddSizes(t) \/ StoreSize(t)
    <3>1. tpc'[t] # "overflow" /\ UNCHANGED spanning_forest_mtx
      BY Zenon, <2>6, TypeOK DEF Invalidate, Ascend, FoundA, FoundB, LoadSize, Compare, CasJoins, CasFails,
                          LoadAddend, AddSizes, StoreSize, dsuVars, TypeOK
    <3>2. QED
      BY <2>1, <3>1, OverflowLocked DEF OverflowLocked
  <2>7. QED
    BY <1>1, <2>3, <2>4, <2>5, <2>6 DEF Step
<1>2. ASSUME NEW t \in Threads, NEW e \in Pairs, Update(t, e) PROVE OverflowLocked'
  <2>1. /\ UNCHANGED spanning_forest_mtx /\ tpc[t] = "idle" /\ tpc'[t] # "overflow"
        /\ \A u \in Threads : u # t => tpc'[u] = tpc[u] /\ edge'[u] = edge[u]
    BY Zenon, <1>2, TypeOK DEF Update, dsuVars, TypeOK
  <2>2. QED
    BY Zenon, <2>1, OverflowLocked DEF OverflowLocked
<1>3. CASE UNCHANGED vars
  BY Zenon, <1>3, OverflowLocked DEF vars, dsuVars, threadVars, OverflowLocked
<1>4. QED
  BY <1>1, <1>2, <1>3 DEF Next

\* Which calls are on an edge changes when one returns, and then the ends of its
\* edge have one colour or the DSU has been given up.
LEMMA CallsOnEdge ==
  ASSUME TypeOK, NEW t \in Threads, Step(t), NEW c, ColourInv(c), dsu_valid',
         NEW e \in Pairs, ~SameEnds(c, e)
  PROVE  At(e)' = At(e)
<1>1. edge' = edge /\ (\A u \in Threads : u # t => tpc'[u] = tpc[u]) /\ tpc[t] # "idle"
  BY Zenon, OthersKeep, Step(t) DEF Step, Invalidate, Lock, Descend, Ascend, FoundA, FoundSame, FoundB,
     LoadSize, Compare, CasJoins, CasFails, LoadAddend, AddSizes, StoreSize, InsertSpanning
<1>2. tpc'[t] # "idle" \/ Invalidate(t) \/ FoundSame(t) \/ InsertSpanning(t)
  BY Zenon, Step(t), TypeOK DEF TypeOK, Step, Lock, Descend, Ascend, FoundA, FoundB, LoadSize, Compare, CasJoins,
     CasFails, LoadAddend, AddSizes, StoreSize
<1>3. ~Invalidate(t)
  BY Zenon DEF Invalidate
<1>4. ColouredThread(c, t)
  BY Zenon, ColourInv(c) DEF ColourInv
<1>5. ASSUME FoundSame(t) PROVE SameEnds(c, edge[t])
  <2>1. tpc[t] = "up_b" /\ a[t] = cur[t]
    BY Zenon, <1>5 DEF FoundSame
  <2>2. QED
    BY Zenon, <1>4, <2>1 DEF ColouredThread, HoldsEnds, Looks, SameEnds, Locked
<1>6. ASSUME InsertSpanning(t) PROVE SameEnds(c, edge[t])
  BY Zenon, <1>4, <1>6 DEF ColouredThread, InsertSpanning
<1>7. tpc'[t] # "idle" \/ edge[t] # e
  BY Zenon, <1>2, <1>3, <1>5, <1>6
<1>8. QED
  BY Zenon, <1>1, <1>7 DEF At

\* A step of a call keeps the account of the edges.
LEMMA EdgesKept ==
  ASSUME TypeOK, EdgeGiven, JoinInv, OverflowLocked, NEW t \in Threads, Step(t),
         NEW c \in [Nodes -> Nodes], ColourInv(c), EdgeInv(c),
         NEW d \in [Nodes -> Nodes], dsu_valid',
         \A e \in Pairs : SameEnds(c, e) => SameEnds(d, e),
         Rooted(d)' => Rooted(c),
         \/ JoinEdges' = JoinEdges
         \/ /\ CasJoins(t) /\ JoinEdges' = JoinEdges \cup {edge[t]}
            /\ Rooted(d)' => ~SameEnds(c, edge[t])
  PROVE  EdgeInv(d)'
<1>1. dsu_valid /\ edges' = edges /\ edge' = edge /\ \A u \in Threads : u # t => tpc'[u] = tpc[u]
  <2>1. dsu_valid' = dsu_valid \/ ~dsu_valid'
    BY Zenon, Step(t) DEF Step, Invalidate, Lock, Descend, Ascend, FoundA, FoundSame, FoundB,
       LoadSize, Compare, CasJoins, CasFails, LoadAddend, AddSizes, StoreSize, InsertSpanning, dsuVars
  <2>2. QED
    BY Zenon, <2>1, OthersKeep DEF client
<1>2. ASSUME NEW e \in Pairs, ~SameEnds(d, e)
      PROVE  (e \in edges => At(e)' # {}) /\ \A u \in Threads : At(e)' = {u} => e \in edges
  <2>1. ~SameEnds(c, e)
    BY <1>2
  <2>2. At(e)' = At(e)
    BY <2>1, CallsOnEdge
  <2>3. QED
    BY Zenon, <1>1, <2>1, <2>2, EdgeInv(c) DEF EdgeInv
<1>3. ASSUME Rooted(d)', NEW e \in JoinEdges' PROVE e \in edges \/ \E u \in At(e)' : tpc'[u] = "lock"
  <2>1. CASE e \in JoinEdges
    <3>1. e \in edges \/ \E u \in At(e) : tpc[u] = "lock"
      BY Zenon, <1>1, <1>3, <2>1, EdgeInv(c) DEF EdgeInv
    <3>2. ASSUME NEW u \in At(e), tpc[u] = "lock" PROVE u # t
      <4>1. SUFFICES ASSUME u = t PROVE FALSE
        OBVIOUS
      <4>2. tpc[t] = "lock" /\ edge[t] = e
        BY Zenon, <3>2, <4>1 DEF At
      <4>3. Lock(t)
        BY Zenon, <4>2, Step(t), dsu_valid' DEF Step, Invalidate, Descend, Ascend, FoundA, FoundSame,
           FoundB, LoadSize, Compare, CasJoins, CasFails, LoadAddend, AddSizes, StoreSize, InsertSpanning
      <4>4. e \notin spanning_forest /\ spanning_forest_mtx[e[1]] = Free
        BY Zenon, <4>2, <4>3 DEF Lock, IsSpanning
      <4>5. PICK v \in Joining : e = edge[v]
        BY Zenon, <2>1, <4>4 DEF JoinEdges
      <4>6. v \in Threads /\ HoldsLock(v)
        BY Zenon, <4>5, JoinInv DEF Joining, JoinInv, Locked
      <4>7. QED
        BY Zenon, <4>4, <4>5, <4>6, EagerAssumption DEF HoldsLock
    <3>3. QED
      BY Zenon, <1>1, <3>1, <3>2 DEF At
  <2>2. CASE CasJoins(t) /\ e = edge[t] /\ ~SameEnds(c, e)
    <3>1. tpc[t] = "cas" /\ HoldsLock(t) /\ e \in Pairs
      BY Zenon, <2>2, EdgeGiven, JoinInv, TypeOK DEF CasJoins, JoinInv, Locked, EdgeGiven, TypeOK
    <3>2. CASE At(e) = {t}
      BY Zenon, <1>1, <2>2, <3>1, <3>2, EdgeInv(c) DEF EdgeInv
    <3>3. CASE At(e) # {t}
      <4>1. t \in At(e)
        BY Zenon, <2>2, <3>1 DEF At
      <4>2. PICK u \in At(e) : u # t
        BY <3>3, <4>1
      <4>3. u \in Threads /\ tpc[u] # "idle" /\ edge[u] = e
        BY Zenon, <4>2 DEF At
      <4>4. tpc[u] \notin Locked /\ tpc[u] # "overflow"
        <5>1. spanning_forest_mtx[edge[u][1]] # u
          BY Zenon, <2>2, <3>1, <4>2, <4>3 DEF HoldsLock
        <5>2. tpc[u] \notin Locked
          BY Zenon, <4>3, <5>1, JoinInv DEF JoinInv, HoldsLock
        <5>3. tpc[u] # "overflow"
          BY Zenon, <4>3, <5>1, OverflowLocked DEF OverflowLocked
        <5>4. QED
          BY Zenon, <5>2, <5>3
      <4>5. tpc[u] = "lock"
        BY Zenon, <4>3, <4>4, TypeOK DEF TypeOK
      <4>6. QED
        BY Zenon, <1>1, <4>2, <4>3, <4>5 DEF At
    <3>4. QED
      BY <3>2, <3>3
  <2>3. QED
    BY <1>3, <2>1, <2>2
<1>4. QED
  BY Zenon, <1>1, <1>2, <1>3 DEF EdgeInv

\* A call that begins toggles its edge.
LEMMA EdgesToggled ==
  ASSUME TypeOK, NEW t \in Threads, NEW f \in Pairs, Update(t, f), dsu_valid,
         NEW c \in [Nodes -> Nodes], ColourInv(c), EdgeInv(c)
  PROVE  ColourInv(c)' /\ EdgeInv(c)'
<1>1. /\ tpc[t] = "idle" /\ tpc'[t] = "lock" /\ edge'[t] = f
      /\ UNCHANGED <<parent, dsu_valid, spanning_forest, a, b, cur, stack>>
      /\ edges' = IF f \in edges THEN edges \ {f} ELSE edges \cup {f}
      /\ \A u \in Threads : u # t => tpc'[u] = tpc[u] /\ edge'[u] = edge[u]
  BY ZenonT(40), TypeOK DEF Update, dsuVars, TypeOK
<1>2. Joining' = Joining /\ Children' = Children /\ t \notin Joining
  BY Zenon, <1>1 DEF Joining, Children
<1>3. JoinEdges' = JoinEdges
  <2>1. \A u \in Joining : edge'[u] = edge[u]
    BY Zenon, <1>1, <1>2 DEF Joining
  <2>2. QED
    BY Zenon, <1>1, <1>2, <2>1 DEF JoinEdges
<1>4. ASSUME NEW u \in Threads PROVE ColouredThread(c, u)'
  <2>1. CASE u = t
    BY Zenon, <1>1, <2>1 DEF ColouredThread, Locked
  <2>2. CASE u # t
    <3>1. ColouredThread(c, u)
      BY Zenon, ColourInv(c) DEF ColourInv
    <3>2. tpc'[u] = tpc[u] /\ edge'[u] = edge[u] /\ UNCHANGED <<a, b, cur, stack>>
      BY Zenon, <1>1, <2>2
    <3>3. QED
      BY Zenon, <3>1, <3>2 DEF ColouredThread, HoldsEnds, Looks, SameEnds
  <2>3. QED
    BY <2>1, <2>2
<1>5. ColourInv(c)'
  BY Zenon, <1>1, <1>2, <1>3, <1>4, ColourInv(c) DEF ColourInv
<1>6. \A e \in Pairs : e # f => At(e)' = At(e) /\ (e \in edges' <=> e \in edges)
  BY Zenon, <1>1 DEF At
<1>7. At(f)' = At(f) \cup {t} /\ t \notin At(f)
  BY Zenon, <1>1 DEF At
<1>8. ASSUME NEW e \in Pairs, ~SameEnds(c, e)
      PROVE  (e \in edges' => At(e)' # {}) /\ \A u \in Threads : At(e)' = {u} => e \in edges'
  <2>1. CASE e = f
    <3>1. At(f)' # {}
      BY <1>7
    <3>2. ASSUME NEW u \in Threads, At(f)' = {u} PROVE f \in edges'
      <4>1. At(f) = {}
        BY <1>7, <3>2
      <4>2. f \notin edges
        BY <1>8, <2>1, <4>1, EdgeInv(c) DEF EdgeInv
      <4>3. QED
        BY Zenon, <1>1, <4>2
    <3>3. QED
      BY <2>1, <3>1, <3>2
  <2>2. CASE e # f
    BY <1>6, <1>8, <2>2, EdgeInv(c) DEF EdgeInv
  <2>3. QED
    BY <2>1, <2>2
<1>9. ASSUME Rooted(c)', NEW e \in JoinEdges' PROVE e \in edges' \/ \E u \in At(e)' : tpc'[u] = "lock"
  <2>1. CASE e = f
    BY Zenon, <1>1, <1>7, <2>1
  <2>2. CASE e # f
    <3>1. Rooted(c)
      BY <1>2, <1>9 DEF Rooted
    <3>2. e \in edges \/ \E u \in At(e) : tpc[u] = "lock"
      BY <1>3, <1>9, <3>1, EdgeInv(c) DEF EdgeInv
    <3>3. QED
      BY Zenon, <1>1, <2>2, <3>2 DEF At
  <2>3. QED
    BY <2>1, <2>2
<1>10. EdgeInv(c)'
  BY Zenon, <1>8, <1>9 DEF EdgeInv
<1>11. QED
  BY <1>5, <1>10

\* Every step keeps colours of some kind.
LEMMA ColoursNext ==
  ASSUME TypeOK, EdgeGiven, JoinInv, OverflowLocked, ColoursExist, dsu_valid', [Next]_vars
  PROVE  ColoursExist'
<1>1. PICK c \in [Nodes -> Nodes] : ColourInv(c) /\ EdgeInv(c)
  BY ColoursExist DEF ColoursExist
<1>2. ASSUME NEW t \in Threads, Step(t) PROVE ColoursExist'
  <2>1. CASE CasJoins(t)
    <3>1. Joint(c, t) \in [Nodes -> Nodes]
      BY Zenon, TypeOK DEF Joint, TypeOK
    <3>2. PICK d \in [Nodes -> Nodes] : d = Joint(c, t)
      BY <3>1
    <3>3. /\ ColourInv(d)' /\ JoinEdges' = JoinEdges \cup {edge[t]}
          /\ \A e \in Pairs : SameEnds(c, e) => SameEnds(d, e)
          /\ Rooted(d)' => Rooted(c) /\ ~SameEnds(c, edge[t])
      BY <1>1, <2>1, <3>2, ColoursJoined
    <3>4. EdgeInv(d)'
      BY <1>1, <1>2, <2>1, <3>3, EdgesKept
    <3>5. QED
      BY <3>3, <3>4 DEF ColoursExist
  <2>2. CASE ~CasJoins(t)
    <3>1. ColourInv(c)' /\ JoinEdges' = JoinEdges /\ Children' = Children
      BY <1>1, <1>2, <2>2, ColoursKept
    <3>2. Rooted(c)' => Rooted(c)
      BY <3>1 DEF Rooted
    <3>3. EdgeInv(c)'
      BY <1>1, <1>2, <3>1, <3>2, EdgesKept
    <3>4. QED
      BY <3>1, <3>3 DEF ColoursExist
  <2>3. QED
    BY <2>1, <2>2
<1>3. ASSUME NEW t \in Threads, NEW e \in Pairs, Update(t, e) PROVE ColoursExist'
  <2>1. dsu_valid
    BY <1>3 DEF Update, dsuVars
  <2>2. QED
    BY <1>1, <1>3, <2>1, EdgesToggled DEF ColoursExist
<1>4. CASE UNCHANGED vars
  <2>1. UNCHANGED <<parent, dsu_valid, spanning_forest, tpc, edge, a, b, cur, stack, edges>>
    BY Zenon, <1>4 DEF vars, dsuVars, threadVars, client
  <2>2. UNCHANGED <<Joining, Children, JoinEdges>>
    BY <2>1 DEF Joining, Children, JoinEdges
  <2>3. ColourInv(c)'
    <3>1. ASSUME NEW t \in Threads PROVE ColouredThread(c, t)'
      BY Zenon, <1>1, <2>1, SameThread DEF ColourInv
    <3> QED BY Zenon, <1>1, <2>1, <2>2, <3>1 DEF ColourInv
  <2>4. EdgeInv(c)'
    <3>1. \A e : At(e)' = At(e)
      BY Zenon, <2>1 DEF At
    <3>2. Rooted(c)' <=> Rooted(c)
      BY Zenon, <2>2 DEF Rooted
    <3> QED BY Zenon, <1>1, <2>1, <2>2, <3>1, <3>2 DEF EdgeInv, SameEnds
  <2>5. QED
    BY <2>3, <2>4 DEF ColoursExist
<1>5. QED
  BY <1>2, <1>3, <1>4 DEF Next

\* At the start every node has a colour of its own.
LEMMA ColoursInit == Init => ColoursExist /\ OverflowLocked
<1> SUFFICES ASSUME Init PROVE ColoursExist /\ OverflowLocked
  OBVIOUS
<1> DEFINE c == [x \in Nodes |-> x]
<1>1. c \in [Nodes -> Nodes]
  OBVIOUS
<1>2. Children = {} /\ Joining = {} /\ JoinEdges = {}
  BY Zenon DEF Init, Children, Joining, JoinEdges
<1>3. ColourInv(c)
  <2>1. \A t \in Threads : ColouredThread(c, t)
    BY DEF Init, ColouredThread, Locked
  <2>2. QED
    BY <2>1 DEF Init, ColourInv
<1>4. EdgeInv(c)
  <2>1. \A e \in Pairs : At(e) = {} /\ e \notin edges
    BY DEF Init, At
  <2>2. QED
    BY <1>2, <2>1 DEF EdgeInv
<1>5. OverflowLocked
  BY DEF Init, OverflowLocked
<1>6. QED
  BY <1>1, <1>3, <1>4, <1>5 DEF ColoursExist

(***************************************************************************)
(* Root follows a recursive function; what it needs of one is that each    *)
(* value comes from the one before.                                        *)
(***************************************************************************)
\* Induction over the naturals in the form the provers can use: a set of
\* naturals with 0 and closed under successor.  It stands behind the recursion
\* of get_parent.
LEMMA NatInd == ASSUME NEW S \in SUBSET Nat, 0 \in S, \A n \in S : n+1 \in S PROVE S = Nat
<1> SUFFICES ASSUME S # Nat PROVE FALSE
  OBVIOUS
<1> DEFINE T == Nat \ S
<1>1. T \subseteq Nat /\ T # {}
  BY Zenon
<1>2. \E x \in T : \A y \in T : ~(<<y,x>> \in OpToRel(<,Nat))
  <2> HIDE DEF T
  <2> QED BY Zenon, <1>1, NatLessThanWellFounded, WFMin
<1>3. PICK x \in T : \A y \in T : ~(<<y,x>> \in OpToRel(<,Nat))
  BY Zenon, <1>2
<1>4. x \in Nat /\ x # 0 /\ x-1 \in Nat /\ x-1 < x /\ x = (x-1)+1
  OBVIOUS
<1>5. x-1 \notin T
  BY Zenon, <1>3, <1>4 DEF OpToRel
<1>6. QED
  BY <1>4, <1>5

\* The first n + 1 nodes of the path get_parent follows from x.
Walks(p, x, n) == {f \in [0..n -> Nodes] : f[0] = x /\ \A i \in 1..n : f[i] = p[f[i - 1]]}

\* There is one path of any length from a node.
LEMMA WalkExists ==
  ASSUME NEW p \in [Nodes -> Nodes], NEW x \in Nodes
  PROVE  \A n \in Nat : Walks(p, x, n) # {}
<1> DEFINE S == {n \in Nat : Walks(p, x, n) # {}}
<1>1. 0 \in S
  <2>1. [i \in 0..0 |-> x] \in Walks(p, x, 0)
    BY DEF Walks
  <2>2. QED
    BY <2>1
<1>2. ASSUME NEW n \in S PROVE n + 1 \in S
  <2>1. PICK f : f \in Walks(p, x, n)
    OBVIOUS
  <2>2. n \in Nat /\ f \in [0..n -> Nodes] /\ f[0] = x /\ \A i \in 1..n : f[i] = p[f[i - 1]]
    BY <2>1 DEF Walks
  <2> DEFINE g == [i \in 0..(n + 1) |-> IF i = n + 1 THEN p[f[n]] ELSE f[i]]
  <2>3. n \in 0..n /\ f[n] \in Nodes /\ p[f[n]] \in Nodes
    BY <2>2
  <2>4. /\ g \in [0..(n + 1) -> Nodes] /\ g[0] = x /\ g[n + 1] = p[f[n]]
        /\ \A i \in 0..n : g[i] = f[i]
    BY ONLY SMTT(20), <2>2, <2>3
  <2> HIDE DEF g
  <2>5. ASSUME NEW i \in 1..(n + 1) PROVE g[i] = p[g[i - 1]]
    <3>1. CASE i = n + 1
      <4>1. i - 1 = n
        BY <2>2, <3>1
      <4>2. QED
        BY <2>3, <2>4, <3>1, <4>1
    <3>2. CASE i # n + 1
      <4>1. i \in 1..n /\ i \in 0..n /\ i - 1 \in 0..n
        BY <2>2, <3>2
      <4>2. QED
        BY <2>2, <2>4, <4>1
    <3>3. QED
      BY <3>1, <3>2
  <2>6. g \in Walks(p, x, n + 1)
    BY <2>4, <2>5 DEF Walks
  <2>7. QED
    BY <2>2, <2>6
<1>3. S \in SUBSET Nat
  OBVIOUS
<1> HIDE DEF S
<1>4. S = Nat
  BY <1>1, <1>2, <1>3, NatInd
<1>5. QED
  BY <1>4 DEF S

\* A longer path begins like a shorter one.
LEMMA WalksAgree ==
  ASSUME NEW p, NEW x, NEW n \in Nat, NEW f \in Walks(p, x, n), NEW g \in Walks(p, x, n + 1)
  PROVE  f[n] = g[n]
<1> DEFINE S == {i \in Nat : i <= n => f[i] = g[i]}
<1>1. 0 \in S
  BY DEF Walks
<1>2. ASSUME NEW i \in S PROVE i + 1 \in S
  <2> SUFFICES ASSUME i + 1 <= n PROVE f[i+1] = g[i+1]
    OBVIOUS
  <2>1. i \in Nat /\ i + 1 \in 1..n /\ i + 1 \in 1..(n + 1) /\ (i + 1) - 1 = i
    OBVIOUS
  <2>2. f[i] = g[i]
    BY <2>1
  <2>3. f[i + 1] = p[f[i]] /\ g[i + 1] = p[g[i]]
    BY <2>1 DEF Walks
  <2>4. QED
    BY <2>2, <2>3
<1>3. S \in SUBSET Nat
  OBVIOUS
<1> HIDE DEF S
<1>4. S = Nat
  BY <1>1, <1>2, <1>3, NatInd
<1>5. QED
  BY <1>4 DEF S

\* What the recursive function of Up computes.
LEMMA UpDef ==
  ASSUME NEW p \in [Nodes -> Nodes], NEW x \in Nodes
  PROVE  /\ Up(p, x, 0) = x
         /\ \A k \in Nat : Up(p, x, k + 1) = p[Up(p, x, k)]
<1> DEFINE up == CHOOSE f : f = [i \in Nat |-> IF i = 0 THEN x ELSE p[f[i - 1]]]
           walk(n) == CHOOSE h : h \in Walks(p, x, n)
           f == [n \in Nat |-> walk(n)[n]]
<1>1. ASSUME NEW n \in Nat PROVE walk(n) \in Walks(p, x, n)
  BY WalkExists
<1> HIDE DEF up, walk
<1>2. f[0] = x
  BY <1>1 DEF Walks
<1>3. ASSUME NEW n \in Nat PROVE f[n + 1] = p[f[n]]
  <2>1. n + 1 \in Nat /\ n + 1 \in 1..(n + 1) /\ (n + 1) - 1 = n
    OBVIOUS
  <2>2. walk(n) \in Walks(p, x, n) /\ walk(n + 1) \in Walks(p, x, n + 1)
    BY <1>1, <2>1
  <2>3. walk(n + 1)[n + 1] = p[walk(n + 1)[n]]
    BY <2>1, <2>2 DEF Walks
  <2>4. walk(n)[n] = walk(n + 1)[n]
    BY <2>2, WalksAgree
  <2>5. QED
    BY <2>1, <2>3, <2>4
<1>4. f = [i \in Nat |-> IF i = 0 THEN x ELSE p[f[i - 1]]]
  <2>1. ASSUME NEW i \in Nat PROVE f[i] = IF i = 0 THEN x ELSE p[f[i - 1]]
    <3>1. CASE i # 0
      <4>1. i - 1 \in Nat /\ (i - 1) + 1 = i
        BY <3>1
      <4>2. f[(i - 1) + 1] = p[f[i - 1]]
        BY Zenon, <1>3, <4>1
      <4> HIDE DEF f
      <4>3. QED
        BY <3>1, <4>1, <4>2
    <3> HIDE DEF f
    <3>2. QED
      BY <1>2, <3>1
  <2>2. f = [i \in Nat |-> f[i]]
    OBVIOUS
  <2> HIDE DEF f
  <2>3. QED
    BY Zenon, <2>1, <2>2
<1> HIDE DEF f
<1>5. up = [i \in Nat |-> IF i = 0 THEN x ELSE p[up[i - 1]]]
  BY Zenon, <1>4 DEF up
<1>6. \A k : Up(p, x, k) = up[k]
  BY DEF Up, up
<1>7. up[0] = x
  BY <1>5
<1>8. ASSUME NEW k \in Nat PROVE up[k + 1] = p[up[k]]
  <2>1. k + 1 \in Nat /\ k + 1 # 0 /\ (k + 1) - 1 = k
    OBVIOUS
  <2>2. QED
    BY <1>5, <2>1
<1>9. QED
  BY <1>6, <1>7, <1>8

\* The root that get_parent finds has the colour of the node it started from.
LEMMA RootColour ==
  ASSUME NEW p \in [Nodes -> Nodes], NEW c, \A x \in Nodes : c[p[x]] = c[x], NEW x \in Nodes
  PROVE  Root(p, x) \in Nodes /\ c[Root(p, x)] = c[x]
<1> DEFINE S == {k \in Nat : Up(p, x, k) \in Nodes /\ c[Up(p, x, k)] = c[x]}
<1>1. 0 \in S
  BY UpDef
<1>2. ASSUME NEW k \in S PROVE k + 1 \in S
  <2>1. k \in Nat /\ k + 1 \in Nat /\ Up(p, x, k + 1) = p[Up(p, x, k)]
    BY UpDef
  <2>2. QED
    BY <2>1
<1>3. S \in SUBSET Nat
  OBVIOUS
<1> HIDE DEF S
<1>4. S = Nat
  BY <1>1, <1>2, <1>3, NatInd
<1>5. Cardinality(DOMAIN p) \in Nat
  <2>1. IsFiniteSet(0..(NumNodes - 1))
    BY EagerAssumption, FS_Interval
  <2>2. DOMAIN p = 0..(NumNodes - 1)
    BY DEF Nodes
  <2>3. QED
    BY <2>1, <2>2, FS_CardinalityType
<1>6. QED
  BY <1>4, <1>5 DEF S, Root

\* Between calls, if every node has a root, colours are trees and components.
LEMMA ColoursAreExact ==
  ASSUME TypeOK, ColoursExist, Quiet, dsu_valid, ParentsAreForest
  PROVE  /\ Partition(parent) = Components(Nodes, edges)
         /\ spanning_forest \subseteq edges
         /\ Components(Nodes, spanning_forest) = Components(Nodes, edges)
<1>1. PICK c \in [Nodes -> Nodes] : ColourInv(c) /\ EdgeInv(c)
  BY ColoursExist DEF ColoursExist
<1>2. parent \in [Nodes -> Nodes] /\ DOMAIN parent = Nodes /\ edges \subseteq Pairs
  BY TypeOK DEF TypeOK
<1>3. /\ \A x \in Nodes : c[parent[x]] = c[x]
      /\ \A x, y \in Nodes \ Children : c[x] = c[y] => x = y
      /\ \A S \in SUBSET Nodes : ClosedUnder(JoinEdges, S) =>
           \A x, y \in Nodes : c[x] = c[y] => (x \in S <=> y \in S)
  BY Zenon, <1>1 DEF ColourInv
<1>4. ASSUME NEW x \in Nodes
      PROVE  Root(parent, x) \in Nodes \ Children /\ c[Root(parent, x)] = c[x]
  <2>1. Root(parent, x) \in Nodes /\ c[Root(parent, x)] = c[x]
    BY <1>2, <1>3, RootColour
  <2>2. QED
    BY <2>1, ParentsAreForest DEF ParentsAreForest, Children
<1>5. Rooted(c)
  BY <1>4 DEF Rooted
<1>6. JoinEdges = spanning_forest /\ \A e \in Pairs : At(e) = {}
  BY Quiet DEF JoinEdges, Joining, At, Quiet
<1>7. spanning_forest \subseteq edges
  <2>1. \A e \in spanning_forest : e \in Pairs
    BY TypeOK DEF TypeOK
  <2>2. QED
    BY <1>1, <1>5, <1>6, <2>1, dsu_valid DEF EdgeInv
<1>8. \A e \in edges : SameEnds(c, e) /\ e[1] \in Nodes /\ e[2] \in Nodes
  BY <1>1, <1>2, <1>6, dsu_valid, EagerAssumption DEF EdgeInv
<1> DEFINE class(x) == {y \in Nodes : c[y] = c[x]}
<1>9. ASSUME NEW F \in {edges, spanning_forest}, NEW x \in Nodes
      PROVE  Reachable(Nodes, F, x) = class(x)
  <2>1. F \subseteq edges /\ spanning_forest \subseteq F
    BY <1>7
  <2>2. class(x) \in SUBSET Nodes /\ x \in class(x) /\ ClosedUnder(F, class(x))
    BY <1>8, <2>1 DEF ClosedUnder, SameEnds
  <2>3. ASSUME NEW y \in class(x), NEW S \in SUBSET Nodes, ClosedUnder(F, S), x \in S PROVE y \in S
    <3>1. ClosedUnder(JoinEdges, S)
      BY <1>6, <2>1, <2>3 DEF ClosedUnder
    <3>2. QED
      BY <1>3, <2>3, <3>1
  <2>4. Reachable(Nodes, F, x) \subseteq class(x)
    <3> HIDE DEF class
    <3>1. QED
      BY <2>2 DEF Reachable
  <2>5. class(x) \subseteq Reachable(Nodes, F, x)
    BY <2>2, <2>3 DEF Reachable
  <2>6. QED
    BY <2>4, <2>5
<1>10. ASSUME NEW x \in Nodes PROVE {y \in Nodes : Root(parent, y) = Root(parent, x)} = class(x)
  <2>1. ASSUME NEW y \in Nodes PROVE Root(parent, y) = Root(parent, x) <=> c[y] = c[x]
    BY Zenon, <1>3, <1>4
  <2>2. QED
    BY <2>1
<1> HIDE DEF class
<1>11. Partition(parent) = {class(x) : x \in Nodes}
  <2>1. Partition(parent) = {{y \in Nodes : Root(parent, y) = Root(parent, x)} : x \in Nodes}
    BY <1>2 DEF Partition
  <2>2. ASSUME NEW P \in Partition(parent) PROVE P \in {class(x) : x \in Nodes}
    <3>1. PICK x \in Nodes : P = {y \in Nodes : Root(parent, y) = Root(parent, x)}
      BY <2>1, <2>2
    <3>2. QED
      BY <1>10, <3>1
  <2>3. ASSUME NEW x \in Nodes PROVE class(x) \in Partition(parent)
    BY <1>10, <2>1
  <2>4. QED
    BY <2>2, <2>3
<1>12. \A F \in {edges, spanning_forest} : Components(Nodes, F) = {class(x) : x \in Nodes}
  BY <1>9 DEF Components
<1>13. QED
  BY <1>7, <1>11, <1>12

\* However the calls raced, when all have returned, the DSU is still valid and
\* parent has no cycle, its trees are the components of the graph, spanned by
\* edges the graph has.
THEOREM QuietDSUIsExact == Spec => []QuietIsExact
<1> DEFINE QInv == JoinInv /\ JoinCount /\ OverflowLocked /\ (dsu_valid => ColoursExist)
<1>1. Init => QInv
  BY JoinInit, ColoursInit
<1>2. TypeOK /\ EdgeGiven /\ QInv /\ [Next]_vars => QInv'
  <2> SUFFICES ASSUME TypeOK, EdgeGiven, QInv, [Next]_vars PROVE QInv'
    OBVIOUS
  <2>1. JoinInv' /\ JoinCount'
    BY JoinNext
  <2>2. OverflowLocked'
    BY OverflowNext
  <2>3. dsu_valid' => dsu_valid
    BY Zenon DEF Next, Update, Step, Invalidate, Lock, Descend, Ascend, FoundA, FoundSame, FoundB,
       LoadSize, Compare, CasJoins, CasFails, LoadAddend, AddSizes, StoreSize, InsertSpanning, dsuVars, vars
  <2>4. dsu_valid' => ColoursExist'
    BY <2>3, ColoursNext
  <2>5. QED
    BY <2>1, <2>2, <2>4
<1>3. TypeOK /\ QInv => QuietIsExact
  BY ColoursAreExact DEF QuietIsExact
<1>4. QED
  BY <1>1, <1>2, <1>3, TypeInit, TypeNext, PTL DEF Spec
=============================================================================
