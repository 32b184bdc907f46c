---------------------------- MODULE GraphLemmas -----------------------------
(***************************************************************************)
(* What the operators of Graph compute, for any finite set of nodes. The DSU*)
(* is a forest: get_parent ends at a root, path compression and union by   *)
(* size keep the forest, and its trees are the components of the edges that*)
(* were joined. A supernode sampled, copied or merged stays a supernode, and*)
(* a merged one holds the cut of the union. The lemmas on induction and on *)
(* lists stand behind the loops of the code.                               *)
(***************************************************************************)
EXTENDS Graph, FiniteSetTheorems, TLAPS

-----------------------------------------------------------------------------
(***************************************************************************)
(* Induction and recursion.                                                *)
(***************************************************************************)
\* Induction over the naturals in the form the provers can use: a set of
\* naturals with 0 and closed under successor.  Stands behind every loop of
\* the code below.
LEMMA NatInd == ASSUME NEW S \in SUBSET Nat, 0 \in S, \A n \in S : n+1 \in S PROVE S = Nat
<1> SUFFICES ASSUME S # Nat PROVE FALSE
  OBVIOUS
<1> DEFINE T == Nat \ S
<1>1. T \subseteq Nat /\ T # {}
  BY Zenon
<1>2. \E x \in T : \A y \in T : ~(<<y,x>> \in OpToRel(<,Nat))
  <2> HIDE DEF T
  <2> QED BY Zenon, <1>1, NatLessThanWellFounded, WFMin
<1>3. PICK x \in T : \A y \in T : ~(<<y,x>> \in OpToRel(<,Nat))
  BY Zenon, <1>2
<1>4. x \in Nat /\ x # 0 /\ x-1 \in Nat /\ x-1 < x /\ x = (x-1)+1
  OBVIOUS
<1>5. x-1 \notin T
  BY Zenon, <1>3, <1>4 DEF OpToRel
<1>6. QED
  BY <1>4, <1>5

\* The values of a recursion up to n.
Runs(D, x0, G, n) == {f \in [0..n -> D] : f[0] = x0 /\ \A i \in 1..n : f[i] = G[<<i, f[i - 1]>>]}

\* A loop that computes each value from the one before it has a run of any
\* length.
LEMMA FiniteRecursion ==
  ASSUME NEW D, NEW x0 \in D, NEW G \in [Nat \X D -> D]
  PROVE  \A n \in Nat : Runs(D, x0, G, n) # {}
<1> DEFINE S == {n \in Nat : Runs(D, x0, G, n) # {}}
<1>1. 0 \in S
  <2>1. [i \in 0..0 |-> x0] \in Runs(D, x0, G, 0)
    BY DEF Runs
  <2> QED BY <2>1
<1>2. ASSUME NEW n \in S PROVE n + 1 \in S
  <2>1. PICK f : f \in Runs(D, x0, G, n)
    OBVIOUS
  <2> DEFINE g == [i \in 0..(n+1) |-> IF i \in 0..n THEN f[i] ELSE G[<<n + 1, f[n]>>]]
  <2>2. n \in Nat /\ f \in [0..n -> D] /\ f[0] = x0 /\ \A i \in 1..n : f[i] = G[<<i, f[i - 1]>>]
    BY <2>1 DEF Runs
  <2>3. G[<<n + 1, f[n]>>] \in D
    <3>1. <<n + 1, f[n]>> \in Nat \X D
      BY <2>2
    <3> QED BY <3>1
  <2>4. g \in [0..(n+1) -> D] /\ g[0] = x0 /\ g[n + 1] = G[<<n + 1, f[n]>>]
    BY <2>2, <2>3
  <2>5. \A i \in 0..n : g[i] = f[i]
    BY <2>2
  <2> HIDE DEF g
  <2>6. ASSUME NEW i \in 1..(n+1) PROVE g[i] = G[<<i, g[i-1]>>]
    <3>1. CASE i \in 1..n
      BY <2>2, <2>5, <3>1
    <3>2. CASE i = n + 1
      <4>1. i - 1 = n /\ n \in 0..n
        BY <2>2, <3>2
      <4> QED BY <2>4, <2>5, <3>2, <4>1
    <3> QED BY <2>2, <3>1, <3>2
  <2>7. g \in Runs(D, x0, G, n + 1)
    BY <2>4, <2>6 DEF Runs
  <2> QED BY <2>2, <2>7
<1> HIDE DEF S
<1>3. S = Nat
  <2>1. S \in SUBSET Nat
    BY DEF S
  <2> QED BY <1>1, <1>2, <2>1, NatInd
<1> QED BY <1>3 DEF S

\* A longer run of such a loop begins like a shorter one.
LEMMA RunsAgree ==
  ASSUME NEW D, NEW x0 \in D, NEW G, NEW n \in Nat, NEW m \in Nat, n <= m,
         NEW f \in Runs(D, x0, G, n), NEW g \in Runs(D, x0, G, m)
  PROVE  \A i \in 0..n : f[i] = g[i]
<1> DEFINE S == {i \in Nat : i <= n => f[i] = g[i]}
<1>1. 0 \in S
  BY DEF Runs
<1>2. ASSUME NEW i \in S PROVE i + 1 \in S
  <2> SUFFICES ASSUME i + 1 <= n PROVE f[i+1] = g[i+1]
    OBVIOUS
  <2>1. i \in Nat /\ i + 1 \in 1..n /\ i + 1 \in 1..m /\ (i + 1) - 1 = i
    OBVIOUS
  <2>2. f[i] = g[i]
    BY <2>1
  <2>3. f[i + 1] = G[<<i + 1, f[i]>>] /\ g[i + 1] = G[<<i + 1, g[i]>>]
    BY <2>1 DEF Runs
  <2> QED BY <2>2, <2>3
<1> HIDE DEF S
<1>3. S = Nat
  <2>1. S \in SUBSET Nat
    BY DEF S
  <2> QED BY <1>1, <1>2, <2>1, NatInd
<1> QED BY <1>3 DEF S

IsRun(D, x0, G, f) ==
  f \in [Nat -> D] /\ f[0] = x0 /\ \A n \in Nat : f[n + 1] = G[<<n + 1, f[n]>>]

\* What a recursive definition over the naturals computes.
LEMMA Recursion ==
  ASSUME NEW D, NEW x0 \in D, NEW G \in [Nat \X D -> D]
  PROVE  \E f : IsRun(D, x0, G, f)
<1> DEFINE run(n) == CHOOSE h : h \in Runs(D, x0, G, n)
           f == [n \in Nat |-> run(n)[n]]
<1>1. ASSUME NEW n \in Nat PROVE run(n) \in Runs(D, x0, G, n)
  BY FiniteRecursion
<1> HIDE DEF run
<1>2. ASSUME NEW n \in Nat PROVE run(n) \in [0..n -> D] /\ run(n)[n] \in D
  BY <1>1 DEF Runs
<1>3. f \in [Nat -> D]
  BY <1>2
<1>4. f[0] = x0
  BY <1>1 DEF Runs
<1>5. ASSUME NEW n \in Nat PROVE f[n+1] = G[<<n+1, f[n]>>]
  <2>1. run(n+1)[n+1] = G[<<n+1, run(n+1)[n]>>]
    <3>1. n + 1 \in Nat /\ n + 1 \in 1..(n+1) /\ (n+1) - 1 = n
      OBVIOUS
    <3>2. run(n+1) \in Runs(D, x0, G, n+1)
      BY <1>1, <3>1
    <3> QED BY <3>1, <3>2 DEF Runs
  <2>2. run(n+1)[n] = run(n)[n]
    <3>1. n + 1 \in Nat /\ n <= n + 1 /\ n \in 0..n
      OBVIOUS
    <3>2. run(n) \in Runs(D, x0, G, n) /\ run(n+1) \in Runs(D, x0, G, n+1)
      BY <1>1, <3>1
    <3> QED BY <3>1, <3>2, RunsAgree
  <2> QED BY <2>1, <2>2
<1> QED BY Zenon, <1>3, <1>4, <1>5 DEF IsRun

-----------------------------------------------------------------------------
(***************************************************************************)
(* Lists.                                                                  *)
(***************************************************************************)
Inj(s) == \A i, j \in DOMAIN s : s[i] = s[j] => i = j

\* Sequences, as the vectors of the code are modelled: elements, the empty
\* one, push_back, insert at the end, and taking the first element.
LEMMA SeqElements ==
  ASSUME NEW S, NEW s \in Seq(S)
  PROVE  /\ Len(s) \in Nat /\ DOMAIN s = 1..Len(s) /\ s \in [1..Len(s) -> S]
         /\ \A i \in 1..Len(s) : s[i] \in S
OBVIOUS

\* The empty vector.
LEMMA SeqEmpty ==
  ASSUME NEW S
  PROVE  /\ <<>> \in Seq(S) /\ Len(<<>>) = 0
         /\ \A s \in Seq(S) : s # <<>> => Len(s) \in Nat \ {0}
OBVIOUS

\* An injective sequence is as long as the set of its elements is large.
LEMMA InjLength ==
  ASSUME NEW A, NEW s \in Seq(A), Inj(s)
  PROVE  IsFiniteSet(Range(s)) /\ Cardinality(Range(s)) = Len(s)
<1>1. Len(s) \in Nat /\ DOMAIN s = 1..Len(s)
  BY SeqElements
<1>2. s \in Bijection(1..Len(s), Range(s))
  <2>1. s \in [1..Len(s) -> Range(s)] /\ \A x \in Range(s) : \E i \in 1..Len(s) : s[i] = x
    BY <1>1, SeqElements DEF Range
  <2>2. s \in Injection(1..Len(s), Range(s))
    BY Zenon, <1>1, <2>1 DEF Injection, IsInjective, Inj
  <2>3. s \in Surjection(1..Len(s), Range(s))
    BY Zenon, <2>1 DEF Surjection
  <2> QED BY Zenon, <2>2, <2>3 DEF Bijection
<1>3. IsFiniteSet(1..Len(s)) /\ Cardinality(1..Len(s)) = Len(s)
  BY <1>1, FS_Interval
<1> QED BY <1>2, <1>3, FS_Bijection DEF ExistsBijection

\* A list of representatives without elements is empty.
LEMMA NoElements ==
  ASSUME NEW A, NEW s \in Seq(A), Range(s) = {}
  PROVE  s = <<>>
<1>1. Len(s) \in Nat /\ DOMAIN s = 1..Len(s)
  BY SeqElements
<1>2. Len(s) = 0
  <2>1. DOMAIN s = {}
    BY DEF Range
  <2> QED BY <1>1, <2>1
<1> QED BY <1>2, SeqEmpty

\* push_back.
LEMMA AppendSet ==
  ASSUME NEW A, NEW s \in Seq(A), NEW x \in A
  PROVE  /\ Append(s, x) \in Seq(A)
         /\ Range(Append(s, x)) = Range(s) \cup {x}
         /\ Inj(s) /\ x \notin Range(s) => Inj(Append(s, x))
<1> DEFINE t == Append(s, x)
<1>1. /\ Len(s) \in Nat /\ DOMAIN s = 1..Len(s)
      /\ t \in Seq(A) /\ Len(t) = Len(s) + 1 /\ DOMAIN t = 1..(Len(s) + 1)
      /\ t[Len(s) + 1] = x /\ \A i \in 1..Len(s) : t[i] = s[i]
  BY SeqElements
<1> HIDE DEF t
<1>2. Range(t) = Range(s) \cup {x}
  <2>1. 1..(Len(s) + 1) = 1..Len(s) \cup {Len(s) + 1}
    BY <1>1
  <2> QED BY <1>1, <2>1 DEF Range
<1>3. Inj(s) /\ x \notin Range(s) => Inj(t)
  BY <1>1 DEF Inj, Range
<1> QED BY <1>1, <1>2, <1>3 DEF t

\* Inserting one vector at the end of another.
LEMMA ConcatSet ==
  ASSUME NEW A, NEW s \in Seq(A), NEW t \in Seq(A)
  PROVE  /\ s \o t \in Seq(A)
         /\ Range(s \o t) = Range(s) \cup Range(t)
         /\ Inj(s) /\ Inj(t) /\ Range(s) \cap Range(t) = {} => Inj(s \o t)
<1> DEFINE u == s \o t
           m == Len(s)
           n == Len(t)
<1>1. /\ m \in Nat /\ DOMAIN s = 1..m /\ n \in Nat /\ DOMAIN t = 1..n
      /\ u \in Seq(A) /\ Len(u) = m + n /\ DOMAIN u = 1..(m + n)
      /\ \A i \in 1..(m + n) : u[i] = IF i <= m THEN s[i] ELSE t[i - m]
  BY SeqElements
<1> HIDE DEF u, m, n
<1>2. Range(u) = Range(s) \cup Range(t)
  <2>1. ASSUME NEW i \in 1..m PROVE i \in 1..(m + n) /\ u[i] = s[i]
    BY <1>1
  <2>2. ASSUME NEW i \in 1..n PROVE m + i \in 1..(m + n) /\ u[m + i] = t[i]
    BY <1>1
  <2>3. ASSUME NEW i \in 1..(m + n) PROVE u[i] \in Range(s) \cup Range(t)
    <3>1. CASE i <= m
      BY <1>1, <3>1 DEF Range
    <3>2. CASE ~(i <= m)
      <4>1. i - m \in 1..n /\ u[i] = t[i - m]
        BY <1>1, <3>2
      <4> QED BY <1>1, <4>1 DEF Range
    <3> QED BY <3>1, <3>2
  <2>4. Range(s) \subseteq Range(u)
    BY <1>1, <2>1 DEF Range
  <2>5. Range(t) \subseteq Range(u)
    <3>1. Range(u) = {u[i] : i \in 1..(m + n)} /\ Range(t) = {t[i] : i \in 1..n}
      BY <1>1 DEF Range
    <3>2. ASSUME NEW i \in 1..n PROVE t[i] \in Range(u)
      <4>1. m + i \in 1..(m + n) /\ u[m + i] = t[i]
        BY <2>2
      <4> QED BY <3>1, <4>1
    <3> QED BY <3>1, <3>2
  <2>6. Range(u) \subseteq Range(s) \cup Range(t)
    <3>1. Range(u) = {u[i] : i \in 1..(m + n)}
      BY <1>1 DEF Range
    <3> QED BY <2>3, <3>1
  <2> QED BY <2>4, <2>5, <2>6
<1>3. ASSUME Inj(s), Inj(t), Range(s) \cap Range(t) = {},
             NEW i \in 1..(m + n), NEW j \in 1..(m + n), u[i] = u[j]
      PROVE  i = j
  <2>1. CASE i <= m /\ j <= m
    <3>1. i \in 1..m /\ j \in 1..m /\ s[i] = s[j]
      BY <1>1, <1>3, <2>1
    <3> QED BY Zenon, <1>1, <1>3, <3>1 DEF Inj
  <2>2. CASE ~(i <= m) /\ ~(j <= m)
    <3>1. i - m \in 1..n /\ j - m \in 1..n /\ t[i - m] = t[j - m]
      BY <1>1, <1>3, <2>2
    <3>2. i - m = j - m
      BY Zenon, <1>1, <1>3, <3>1 DEF Inj
    <3> QED BY <1>1, <3>2
  <2>3. CASE (i <= m /\ ~(j <= m)) \/ (~(i <= m) /\ j <= m)
    <3>1. ASSUME NEW k \in 1..(m + n), NEW l \in 1..(m + n), k <= m, ~(l <= m), u[k] = u[l]
          PROVE  FALSE
      <4>1. k \in 1..m /\ l - m \in 1..n /\ s[k] = t[l - m]
        BY <1>1, <3>1
      <4>2. s[k] \in Range(s) /\ t[l - m] \in Range(t)
        BY Zenon, <1>1, <4>1 DEF Range
      <4> QED BY <1>3, <4>1, <4>2
    <3> QED BY <1>3, <2>3, <3>1
  <2> QED BY <2>1, <2>2, <2>3
<1>4. Inj(s) /\ Inj(t) /\ Range(s) \cap Range(t) = {} => Inj(u)
  BY <1>1, <1>3 DEF Inj
<1> QED BY <1>1, <1>2, <1>4 DEF u

\* The loop of supernodes_to_merge takes the representatives in turn.
LEMMA TailSet ==
  ASSUME NEW A, NEW s \in Seq(A), s # <<>>
  PROVE  /\ Head(s) \in A /\ Tail(s) \in Seq(A)
         /\ Range(s) = {Head(s)} \cup Range(Tail(s))
         /\ Inj(s) => Inj(Tail(s)) /\ Head(s) \notin Range(Tail(s))
<1> DEFINE t == Tail(s)
           m == Len(s)
<1>1. /\ m \in Nat /\ m # 0 /\ DOMAIN s = 1..m
      /\ t \in Seq(A) /\ Len(t) = m - 1 /\ DOMAIN t = 1..(m - 1)
      /\ \A i \in 1..(m - 1) : t[i] = s[i + 1]
  BY SeqElements, SeqEmpty
<1>2. Head(s) = s[1] /\ Head(s) \in A
  OBVIOUS
<1> HIDE DEF t, m
<1>3. Range(s) = {Head(s)} \cup Range(t)
  <2>1. ASSUME NEW i \in 1..m, i # 1 PROVE i - 1 \in 1..(m - 1) /\ t[i - 1] = s[i]
    BY <1>1, <2>1
  <2>2. ASSUME NEW i \in 1..(m - 1) PROVE i + 1 \in 1..m /\ t[i] = s[i + 1]
    BY <1>1
  <2>3. 1 \in 1..m
    BY <1>1
  <2>4. Range(t) \subseteq Range(s)
    BY Zenon, <1>1, <2>2 DEF Range
  <2>5. \A i \in 1..m : s[i] \in {Head(s)} \cup Range(t)
    BY Zenon, <1>1, <1>2, <2>1 DEF Range
  <2>6. Head(s) \in Range(s)
    BY <1>1, <1>2, <2>3 DEF Range
  <2> QED BY Zenon, <1>1, <2>4, <2>5, <2>6 DEF Range
<1>4. Inj(s) => Inj(t)
  <2>1. ASSUME Inj(s), NEW i \in 1..(m - 1), NEW j \in 1..(m - 1), t[i] = t[j] PROVE i = j
    <3>1. i + 1 \in 1..m /\ j + 1 \in 1..m /\ s[i + 1] = s[j + 1]
      BY <1>1, <2>1
    <3>2. i + 1 = j + 1
      BY Zenon, <1>1, <2>1, <3>1 DEF Inj
    <3> QED BY <3>2
  <2> QED BY <1>1, <2>1 DEF Inj
<1>5. ASSUME Inj(s), Head(s) \in Range(t) PROVE FALSE
  <2>1. PICK i \in 1..(m - 1) : t[i] = Head(s)
    BY <1>1, <1>5 DEF Range
  <2>2. i + 1 \in 1..m /\ 1 \in 1..m /\ s[i + 1] = s[1] /\ i + 1 # 1
    BY <1>1, <1>2, <2>1
  <2> QED BY <1>1, <1>5, <2>2 DEF Inj
<1> QED BY <1>1, <1>2, <1>3, <1>4, <1>5 DEF t

-----------------------------------------------------------------------------
(***************************************************************************)
(* get_parent: the root of a node, and path compression.                   *)
(***************************************************************************)
\* Following parent k times, as the recursion of get_parent does.
LEMMA UpDef ==
  ASSUME NEW D, NEW p \in [D -> D], NEW x \in D
  PROVE  /\ Up(p, x, 0) = x
         /\ \A k \in Nat : Up(p, x, k + 1) = p[Up(p, x, k)]
<1> DEFINE up == CHOOSE f : f = [i \in Nat |-> IF i = 0 THEN x ELSE p[f[i - 1]]]
           G == [q \in Nat \X D |-> p[q[2]]]
<1>1. G \in [Nat \X D -> D]
  OBVIOUS
<1> HIDE DEF G, up
<1>2. PICK f : IsRun(D, x, G, f)
  BY Zenon, <1>1, Recursion
<1>3. ASSUME NEW n \in Nat PROVE f[n+1] = p[f[n]]
  <2>1. <<n + 1, f[n]>> \in Nat \X D
    BY <1>2 DEF IsRun
  <2> QED BY Zenon, <1>2, <2>1 DEF G, IsRun
<1>4. f = [i \in Nat |-> IF i = 0 THEN x ELSE p[f[i - 1]]]
  <2>1. \A i \in Nat : f[i] = IF i = 0 THEN x ELSE p[f[i - 1]]
    <3> TAKE i \in Nat
    <3>1. CASE i # 0
      <4>1. i - 1 \in Nat /\ (i - 1) + 1 = i
        BY <3>1
      <4> QED BY <1>3, <3>1, <4>1
    <3> QED BY <3>1, <1>2 DEF IsRun
  <2> QED BY <2>1, <1>2 DEF IsRun
<1>5. up = [i \in Nat |-> IF i = 0 THEN x ELSE p[up[i - 1]]]
  BY Zenon, <1>4 DEF up
<1>6. \A k : Up(p, x, k) = up[k]
  BY DEF Up, up
<1>7. up[0] = x
  BY <1>5
<1>8. ASSUME NEW k \in Nat PROVE up[k+1] = p[up[k]]
  <2>1. k + 1 \in Nat /\ k + 1 # 0 /\ (k + 1) - 1 = k
    OBVIOUS
  <2> QED BY <1>5, <2>1
<1> QED BY <1>6, <1>7, <1>8

\* A set closed under parent keeps the nodes above its members.
LEMMA UpIn ==
  ASSUME NEW N, NEW p \in [N -> N], NEW S \in SUBSET N, \A y \in S : p[y] \in S, NEW x \in S
  PROVE  \A k \in Nat : Up(p, x, k) \in S
<1> DEFINE T == {k \in Nat : Up(p, x, k) \in S}
<1>1. 0 \in T
  BY UpDef
<1>2. ASSUME NEW k \in T PROVE k + 1 \in T
  BY UpDef
<1> HIDE DEF T
<1>3. T = Nat
  <2>1. T \in SUBSET Nat
    BY DEF T
  <2> QED BY <1>1, <1>2, <2>1, NatInd
<1> QED BY <1>3 DEF T

\* get_parent never leaves a set that is closed under parent.
LEMMA RootIn ==
  ASSUME NEW N, IsFiniteSet(N), NEW p \in [N -> N],
         NEW S \in SUBSET N, \A y \in S : p[y] \in S, NEW x \in S
  PROVE  Root(p, x) \in S
<1>1. Cardinality(DOMAIN p) \in Nat
  BY FS_CardinalityType
<1> QED BY <1>1, UpIn DEF Root

\* A forest ranked by size: a link leads to a larger size, so that no path is
\* longer than there are nodes.
Ranked(N, p, s) ==
  /\ IsFiniteSet(N)
  /\ p \in [N -> N]
  /\ s \in [N -> 1..Cardinality(N)]
  /\ \A x \in N : p[x] # x => s[x] < s[p[x]]

\* In a ranked forest get_parent ends in a root.
LEMMA RootIsRoot ==
  ASSUME NEW N, NEW p, NEW s, Ranked(N, p, s), NEW x \in N
  PROVE  Root(p, x) \in N /\ p[Root(p, x)] = Root(p, x)
<1> USE DEF Ranked
<1> DEFINE u(k) == Up(p, x, k)
           T == {k \in Nat : p[u(k)] = u(k) \/ s[u(k)] > k}
<1>1. \A k \in Nat : u(k) \in N
  BY UpIn
<1>2. u(0) = x /\ \A k \in Nat : u(k + 1) = p[u(k)]
  BY UpDef
<1>c. Cardinality(N) \in Nat
  BY FS_CardinalityType
<1> HIDE DEF u
<1>3. 0 \in T
  BY <1>1, <1>2, <1>c
<1>4. ASSUME NEW k \in T PROVE k + 1 \in T
  <2>1. k \in Nat /\ u(k) \in N /\ u(k + 1) = p[u(k)] /\ u(k + 1) \in N
    BY <1>1, <1>2
  <2>2. CASE p[u(k)] = u(k)
    BY <2>1, <2>2
  <2>3. CASE p[u(k)] # u(k)
    <3>1. s[u(k)] > k /\ s[u(k)] < s[u(k + 1)]
      BY <2>1, <2>3
    <3>2. s[u(k)] \in Nat /\ s[u(k + 1)] \in Nat
      BY <2>1, <1>c
    <3> QED BY <2>1, <3>1, <3>2
  <2> QED BY <2>2, <2>3
<1>5. T = Nat
  <2>1. T \in SUBSET Nat
    OBVIOUS
  <2> HIDE DEF T
  <2> QED BY <1>3, <1>4, <2>1, NatInd
<1>6. Root(p, x) = u(Cardinality(N))
  BY DEF Root, u
<1>7. ~(s[u(Cardinality(N))] > Cardinality(N))
  BY <1>1, <1>c
<1>8. Cardinality(N) \in T
  BY <1>5, <1>c
<1> QED BY <1>1, <1>c, <1>6, <1>7, <1>8

\* get_parent of a root is the root itself.
LEMMA RootOfRoot ==
  ASSUME NEW N, IsFiniteSet(N), NEW p \in [N -> N], NEW x \in N, p[x] = x
  PROVE  Root(p, x) = x
<1>1. {x} \in SUBSET N /\ \A y \in {x} : p[y] \in {x}
  OBVIOUS
<1>2. Root(p, x) \in {x}
  BY Zenon, <1>1, RootIn
<1> QED BY <1>2

\* get_parent of a node and of its parent return the same root.
LEMMA RootOfParent ==
  ASSUME NEW N, NEW p, NEW s, Ranked(N, p, s), NEW x \in N
  PROVE  Root(p, p[x]) = Root(p, x)
<1> USE DEF Ranked
<1> DEFINE T == {k \in Nat : Up(p, p[x], k) = Up(p, x, k + 1)}
<1>0. p[x] \in N
  OBVIOUS
<1>1. 0 \in T
  <2>1. Up(p, p[x], 0) = p[x] /\ Up(p, x, 0) = x
    BY <1>0, UpDef
  <2>2. Up(p, x, 0 + 1) = p[Up(p, x, 0)]
    BY UpDef
  <2> QED BY <2>1, <2>2
<1>2. ASSUME NEW k \in T PROVE k + 1 \in T
  <2>1. k \in Nat /\ k + 1 \in Nat
    OBVIOUS
  <2>2. Up(p, p[x], k + 1) = p[Up(p, p[x], k)]
    BY <1>0, <2>1, UpDef
  <2>3. Up(p, x, (k + 1) + 1) = p[Up(p, x, k + 1)]
    BY <2>1, UpDef
  <2> QED BY <2>1, <2>2, <2>3
<1>3. T = Nat
  <2>1. T \in SUBSET Nat
    OBVIOUS
  <2> HIDE DEF T
  <2> QED BY <1>1, <1>2, <2>1, NatInd
<1>4. Cardinality(N) \in Nat
  BY FS_CardinalityType
<1>5. Root(p, p[x]) = Up(p, x, Cardinality(N) + 1)
  BY <1>3, <1>4 DEF Root
<1>6. Up(p, x, Cardinality(N) + 1) = p[Root(p, x)]
  BY <1>4, UpDef DEF Root
<1> HIDE DEF Ranked
<1>7. p[Root(p, x)] = Root(p, x)
  BY RootIsRoot
<1> QED BY <1>5, <1>6, <1>7

\* A node that is no root is smaller than its root.
LEMMA RootIsLarger ==
  ASSUME NEW N, NEW p, NEW s, Ranked(N, p, s), NEW x \in N, p[x] # x
  PROVE  s[x] < s[Root(p, x)]
<1> DEFINE S == {y \in N : s[y] > s[x]}
<1>1. Cardinality(N) \in Nat
  BY FS_CardinalityType DEF Ranked
<1>2. \A y \in N : s[y] \in Nat
  BY <1>1 DEF Ranked
<1>3. S \in SUBSET N /\ (\A y \in S : p[y] \in S) /\ p[x] \in S
  BY <1>2 DEF Ranked
<1> HIDE DEF S
<1>4. Root(p, p[x]) \in S
  BY <1>3, RootIn DEF Ranked
<1>5. Root(p, x) \in S
  BY <1>4, RootOfParent
<1> QED BY <1>2, <1>5 DEF S

TreeOf(N, p, r) == {x \in N : Root(p, x) = r}

\* The nodes on a path have one root.
LEMMA PathHasOneRoot ==
  ASSUME NEW N, NEW p, NEW s, Ranked(N, p, s), NEW x \in N, NEW y \in Path(p, x)
  PROVE  y \in N /\ Root(p, y) = Root(p, x)
<1> DEFINE S == TreeOf(N, p, Root(p, x))
<1>1. S \in SUBSET N /\ x \in S
  BY DEF TreeOf
<1>2. \A z \in S : p[z] \in S
  <2> TAKE z \in S
  <2>1. z \in N /\ Root(p, z) = Root(p, x) /\ p[z] \in N
    BY DEF TreeOf, Ranked
  <2>2. Root(p, p[z]) = Root(p, z)
    BY <2>1, RootOfParent
  <2> QED BY <2>1, <2>2 DEF TreeOf
<1> HIDE DEF S
<1>3. PICK k \in 0..Cardinality(DOMAIN p) : y = Up(p, x, k)
  BY DEF Path
<1>4. k \in Nat
  BY FS_CardinalityType DEF Ranked
<1>5. y \in S
  BY <1>1, <1>2, <1>3, <1>4, UpIn DEF Ranked
<1> QED BY <1>5 DEF S, TreeOf

\* q is p with some nodes pointed to their roots.
Flattens(N, p, q) == q \in [N -> N] /\ \A y \in N : q[y] = p[y] \/ q[y] = Root(p, y)

\* A flattened forest has the same roots: get_parent may compress paths
\* without changing what it returns.
LEMMA FlatteningKeepsRoots ==
  ASSUME NEW N, NEW p, NEW s, Ranked(N, p, s), NEW q, Flattens(N, p, q)
  PROVE  /\ Ranked(N, q, s)
         /\ \A x \in N : Root(q, x) = Root(p, x)
         /\ \A x \in N : q[x] = x <=> p[x] = x
<1>0. IsFiniteSet(N) /\ p \in [N -> N] /\ q \in [N -> N]
  BY DEF Ranked, Flattens
<1>1. ASSUME NEW x \in N PROVE q[x] = x <=> p[x] = x
  <2>1. p[x] = x => Root(p, x) = x
    BY <1>0, RootOfRoot
  <2>2. p[Root(p, x)] = Root(p, x)
    BY RootIsRoot
  <2> QED BY <2>1, <2>2 DEF Flattens
<1>2. Ranked(N, q, s)
  <2> SUFFICES ASSUME NEW x \in N, q[x] # x PROVE s[x] < s[q[x]]
    BY <1>0 DEF Ranked
  <2>1. p[x] # x
    BY <1>1
  <2>2. s[x] < s[p[x]] /\ s[x] < s[Root(p, x)]
    BY <2>1, RootIsLarger DEF Ranked
  <2> QED BY <2>2 DEF Flattens
<1>3. ASSUME NEW x \in N PROVE Root(q, x) = Root(p, x)
  <2> DEFINE S == TreeOf(N, p, Root(p, x))
  <2>1. S \in SUBSET N /\ x \in S
    BY DEF TreeOf
  <2>2. ASSUME NEW y \in S PROVE q[y] \in S
    <3>1. y \in N /\ Root(p, y) = Root(p, x) /\ p[y] \in N /\ Root(p, y) \in N
      BY <1>0, RootIsRoot DEF TreeOf
    <3>2. Root(p, p[y]) = Root(p, y)
      BY <3>1, RootOfParent
    <3>3. Root(p, Root(p, y)) = Root(p, y)
      BY <1>0, <3>1, RootIsRoot, RootOfRoot
    <3> QED BY <3>1, <3>2, <3>3 DEF TreeOf, Flattens
  <2> HIDE DEF S
  <2>3. Root(q, x) \in S
    BY <1>0, <2>1, <2>2, RootIn
  <2>4. Root(q, x) \in N /\ Root(p, Root(q, x)) = Root(p, x)
    BY <2>3 DEF S, TreeOf
  <2>5. q[Root(q, x)] = Root(q, x)
    BY <1>2, RootIsRoot
  <2>6. p[Root(q, x)] = Root(q, x)
    BY <1>1, <2>4, <2>5
  <2>7. Root(p, Root(q, x)) = Root(q, x)
    BY <1>0, <2>4, <2>6, RootOfRoot
  <2> QED BY <2>4, <2>7
<1> QED BY <1>1, <1>2, <1>3

\* Flattening a flattened forest flattens the first one.
LEMMA FlatteningTwice ==
  ASSUME NEW N, NEW p, NEW s, Ranked(N, p, s), NEW q, Flattens(N, p, q),
         NEW r, Flattens(N, q, r)
  PROVE  Flattens(N, p, r)
<1>1. \A x \in N : Root(q, x) = Root(p, x)
  BY FlatteningKeepsRoots
<1> QED BY <1>1 DEF Flattens

\* get_parent's path compression.
LEMMA CompressFlattens ==
  ASSUME NEW N, NEW p, NEW s, Ranked(N, p, s), NEW x \in N
  PROVE  Flattens(N, p, Compress(p, x))
<1>1. DOMAIN p = N /\ p \in [N -> N]
  BY DEF Ranked
<1>2. Root(p, x) \in N
  BY RootIsRoot
<1>3. \A y \in Path(p, x) : Root(p, y) = Root(p, x)
  BY PathHasOneRoot
<1> QED BY <1>1, <1>2, <1>3 DEF Flattens, Compress

\* update and supernodes_to_merge look both ends of an edge up, one after
\* the other.
LEMMA CompressTwice ==
  ASSUME NEW N, NEW p, NEW s, Ranked(N, p, s), NEW x \in N, NEW y \in N
  PROVE  Flattens(N, p, Compress(Compress(p, x), y))
<1>1. Flattens(N, p, Compress(p, x))
  BY CompressFlattens
<1>2. Ranked(N, Compress(p, x), s)
  BY <1>1, FlatteningKeepsRoots
<1>3. Flattens(N, Compress(p, x), Compress(Compress(p, x), y))
  BY <1>2, CompressFlattens
<1> QED BY <1>1, <1>3, FlatteningTwice

\* Every node pointed to its root, as queries leave the DSU.
LEMMA FullFlattening ==
  ASSUME NEW N, NEW p, NEW s, Ranked(N, p, s)
  PROVE  Flattens(N, p, [x \in N |-> Root(p, x)])
BY RootIsRoot DEF Flattens

-----------------------------------------------------------------------------
(***************************************************************************)
(* Union by size.                                                          *)
(***************************************************************************)
\* The size of a root is the number of nodes below it.
Sized(N, p, s) == \A r \in N : p[r] = r => s[r] = Cardinality(TreeOf(N, p, r))

\* The trees of two roots are disjoint, so their sizes add up to at most the
\* number of nodes.
LEMMA SizesAdd ==
  ASSUME NEW N, NEW p, NEW s, Ranked(N, p, s), Sized(N, p, s),
         NEW a \in N, NEW b \in N, a # b, p[a] = a, p[b] = b
  PROVE  /\ s[a] + s[b] = Cardinality(TreeOf(N, p, a) \cup TreeOf(N, p, b))
         /\ s[a] + s[b] \in 1..Cardinality(N)
         /\ s[a] \in Nat /\ s[b] \in Nat
<1> DEFINE A == TreeOf(N, p, a)
           B == TreeOf(N, p, b)
<1>1. IsFiniteSet(N) /\ A \subseteq N /\ B \subseteq N /\ A \cap B = {}
  BY DEF Ranked, TreeOf
<1>2. IsFiniteSet(A) /\ IsFiniteSet(B)
  BY <1>1, FS_Subset
<1>3. Cardinality(A \cup B) = Cardinality(A) + Cardinality(B) - Cardinality({})
  BY <1>1, <1>2, FS_Union
<1>4. Cardinality(A \cup B) <= Cardinality(N)
  BY <1>1, FS_Subset
<1>5. s[a] = Cardinality(A) /\ s[b] = Cardinality(B)
  BY DEF Sized
<1>6. Cardinality(N) \in Nat /\ Cardinality(A) \in Nat /\ Cardinality(B) \in Nat
  BY <1>1, <1>2, FS_CardinalityType
<1>7. s[a] \in 1..Cardinality(N)
  BY DEF Ranked
<1>8. Cardinality({}) = 0
  BY FS_EmptySet
<1> HIDE DEF A, B
<1> QED BY <1>3, <1>4, <1>5, <1>6, <1>7, <1>8 DEF A, B

\* The union of two trees: the smaller root l is linked below w.
Linked(p, l, w) == [p EXCEPT ![l] = w]

Grown(s, l, w) == [s EXCEPT ![w] = @ + s[l]]

\* Linking the smaller root below the larger one and adding up their sizes
\* joins the two trees, and leaves a ranked forest with exact sizes.
LEMMA UnionJoinsTrees ==
  ASSUME NEW N, NEW p, NEW s, Ranked(N, p, s), Sized(N, p, s),
         NEW l \in N, NEW w \in N, l # w, p[l] = l, p[w] = w, s[l] <= s[w]
  PROVE  /\ Ranked(N, Linked(p, l, w), Grown(s, l, w))
         /\ \A x \in N : Root(Linked(p, l, w), x) = IF Root(p, x) = l THEN w ELSE Root(p, x)
         /\ Sized(N, Linked(p, l, w), Grown(s, l, w))
<1> DEFINE q == Linked(p, l, w)
           t == Grown(s, l, w)
<1>0. /\ IsFiniteSet(N) /\ p \in [N -> N] /\ q \in [N -> N]
      /\ q[l] = w /\ \A x \in N \ {l} : q[x] = p[x]
  BY DEF Ranked, Linked
<1>1. Cardinality(N) \in Nat /\ s \in [N -> 1..Cardinality(N)]
  BY FS_CardinalityType DEF Ranked
<1>2. s[w] + s[l] \in 1..Cardinality(N)
  BY Zenon, SizesAdd
<1>3. t \in [N -> 1..Cardinality(N)] /\ t[w] = s[w] + s[l] /\ \A x \in N \ {w} : t[x] = s[x]
  BY <1>1, <1>2 DEF Grown
<1> HIDE DEF q, t
<1>4. Ranked(N, q, t)
  <2> SUFFICES ASSUME NEW x \in N, q[x] # x PROVE t[x] < t[q[x]]
    BY <1>0, <1>3 DEF Ranked
  <2>1. \A y \in N : s[y] \in Nat /\ s[y] >= 1 /\ t[y] >= s[y] /\ t[y] \in Nat
    BY <1>1, <1>3
  <2>2. CASE x = l
    BY <1>0, <1>3, <2>1, <2>2
  <2>3. CASE x # l
    <3>1. q[x] = p[x] /\ p[x] # x /\ p[x] \in N /\ x # w
      BY <1>0, <2>3
    <3>2. s[x] < s[p[x]] /\ t[x] = s[x]
      BY <1>3, <3>1 DEF Ranked
    <3> QED BY <2>1, <3>1, <3>2
  <2> QED BY <2>2, <2>3
<1>5. ASSUME NEW x \in N PROVE Root(q, x) = IF Root(p, x) = l THEN w ELSE Root(p, x)
  <2>1. Root(p, l) = l /\ Root(p, w) = w
    BY <1>0, RootOfRoot
  <2>2. Root(q, x) \in N /\ q[Root(q, x)] = Root(q, x)
    BY <1>4, RootIsRoot
  <2>3. Root(q, x) # l /\ p[Root(q, x)] = Root(q, x)
    BY <1>0, <2>2
  <2>4. Root(p, Root(q, x)) = Root(q, x)
    BY <1>0, <2>2, <2>3, RootOfRoot
  <2>5. \A y \in N : Root(p, p[y]) = Root(p, y)
    BY RootOfParent
  <2>6. CASE Root(p, x) \in {l, w}
    <3> DEFINE S == {y \in N : Root(p, y) \in {l, w}}
    <3>1. x \in S /\ S \in SUBSET N
      BY <2>6
    <3>2. \A y \in S : q[y] \in S
      BY <1>0, <2>1, <2>5
    <3> HIDE DEF S
    <3>3. Root(q, x) \in S
      BY <1>0, <3>1, <3>2, RootIn
    <3> QED BY <2>3, <2>4, <2>6, <3>3 DEF S
  <2>7. CASE Root(p, x) \notin {l, w}
    <3> DEFINE S == {y \in N : Root(p, y) = Root(p, x)}
    <3>1. x \in S /\ S \in SUBSET N
      OBVIOUS
    <3>2. \A y \in S : q[y] \in S
      BY <1>0, <2>1, <2>5, <2>7
    <3> HIDE DEF S
    <3>3. Root(q, x) \in S
      BY <1>0, <3>1, <3>2, RootIn
    <3> QED BY <2>4, <2>7, <3>3 DEF S
  <2> QED BY <2>6, <2>7
<1>6. Sized(N, q, t)
  <2> SUFFICES ASSUME NEW r \in N, q[r] = r PROVE t[r] = Cardinality(TreeOf(N, q, r))
    BY DEF Sized
  <2>1. r # l /\ p[r] = r
    BY <1>0
  <2>2. CASE r = w
    <3>1. TreeOf(N, q, r) = TreeOf(N, p, w) \cup TreeOf(N, p, l)
      BY <1>5, <2>2 DEF TreeOf
    <3>2. s[w] + s[l] = Cardinality(TreeOf(N, p, w) \cup TreeOf(N, p, l))
      BY SizesAdd
    <3> QED BY <1>3, <2>2, <3>1, <3>2
  <2>3. CASE r # w
    <3>1. TreeOf(N, q, r) = TreeOf(N, p, r)
      BY <1>5, <2>1, <2>3 DEF TreeOf
    <3> QED BY <1>3, <2>1, <2>3, <3>1 DEF Sized
  <2> QED BY <2>2, <2>3
<1> QED BY <1>4, <1>5, <1>6 DEF q, t

\* Path compression keeps the sizes of the roots exact.
LEMMA FlatteningKeepsSizes ==
  ASSUME NEW N, NEW p, NEW s, Ranked(N, p, s), Sized(N, p, s), NEW q, Flattens(N, p, q)
  PROVE  Sized(N, q, s)
<1>1. /\ \A x \in N : Root(q, x) = Root(p, x)
      /\ \A x \in N : q[x] = x <=> p[x] = x
  BY FlatteningKeepsRoots
<1>2. \A r : TreeOf(N, q, r) = TreeOf(N, p, r)
  BY <1>1 DEF TreeOf
<1> QED BY <1>1, <1>2 DEF Sized

\* A forest of single nodes.
LEMMA SinglesAreRanked ==
  ASSUME NEW N, IsFiniteSet(N)
  PROVE  /\ Ranked(N, [x \in N |-> x], [x \in N |-> 1])
         /\ Sized(N, [x \in N |-> x], [x \in N |-> 1])
         /\ \A x \in N : Root([y \in N |-> y], x) = x
<1> DEFINE p == [y \in N |-> y]
           s == [y \in N |-> 1]
<1>1. Cardinality(N) \in Nat /\ (N # {} => 1 \in 1..Cardinality(N))
  BY FS_CardinalityType, FS_EmptySet
<1>2. Ranked(N, p, s)
  BY <1>1 DEF Ranked
<1>3. p \in [N -> N] /\ \A x \in N : p[x] = x
  OBVIOUS
<1>4. \A x \in N : s[x] = 1
  OBVIOUS
<1> HIDE DEF p, s
<1>5. \A x \in N : Root(p, x) = x
  BY <1>3, RootOfRoot
<1>6. Sized(N, p, s)
  <2> SUFFICES ASSUME NEW r \in N PROVE Cardinality(TreeOf(N, p, r)) = 1
    BY <1>4 DEF Sized
  <2>1. TreeOf(N, p, r) = {r}
    BY <1>5 DEF TreeOf
  <2> QED BY <2>1, FS_Singleton
<1> QED BY <1>2, <1>5, <1>6 DEF p, s

\* The union code of update and of supernodes_to_merge: the ends of e are
\* looked up, which compresses their paths, and their roots are linked.
LEMMA WinnerAndLoser ==
  ASSUME NEW N, NEW p, NEW s, Ranked(N, p, s), NEW a \in N, NEW b \in N
  PROVE  LET w == Winner(s, a, b)
             l == Loser(s, a, b)
         IN  {l, w} = {a, b} /\ (a # b => l # w) /\ s[l] <= s[w]
<1>1. Cardinality(N) \in Nat
  BY FS_CardinalityType DEF Ranked
<1>2. s[a] \in Nat /\ s[b] \in Nat
  BY <1>1 DEF Ranked
<1> QED BY <1>2 DEF Winner, Loser

\* Powers of two, by counting subsets.
LEMMA Doubling ==
  ASSUME NEW n \in Nat
  PROVE  2^n \in Nat /\ 2^(n + 1) = 2 * 2^n /\ 2^n >= 1
<1> DEFINE S == 1..n
           T == 1..(n + 1)
           P == SUBSET S
           Q == {U \cup {n + 1} : U \in P}
           f == [U \in P |-> U \cup {n + 1}]
<1>1. IsFiniteSet(S) /\ Cardinality(S) = n /\ IsFiniteSet(T) /\ Cardinality(T) = n + 1
  BY FS_Interval
<1>2. /\ IsFiniteSet(P) /\ Cardinality(P) = 2^n
      /\ IsFiniteSet(SUBSET T) /\ Cardinality(SUBSET T) = 2^(n + 1)
  BY Zenon, <1>1, FS_SUBSET
<1>3. SUBSET T = P \cup Q
  <2>1. T = S \cup {n + 1}
    OBVIOUS
  <2>2. ASSUME NEW V \in SUBSET T PROVE V \in P \cup Q
    <3>1. CASE n + 1 \in V
      <4>1. V \ {n + 1} \in P /\ V = (V \ {n + 1}) \cup {n + 1}
        BY <2>1, <3>1
      <4> QED BY Zenon, <4>1
    <3>2. CASE n + 1 \notin V
      BY <2>1, <3>2
    <3> QED BY <3>1, <3>2
  <2>3. P \cup Q \subseteq SUBSET T
    BY Zenon, <2>1
  <2> QED BY <2>2, <2>3
<1>4. P \cap Q = {}
  <2>1. n + 1 \notin S
    OBVIOUS
  <2> QED BY <2>1
<1>5. f \in Bijection(P, Q)
  <2>1. n + 1 \notin S
    OBVIOUS
  <2>2. f \in [P -> Q] /\ \A V \in Q : \E U \in P : f[U] = V
    BY Zenon
  <2>3. ASSUME NEW U \in P, NEW V \in P, f[U] = f[V] PROVE U = V
    <3>1. U \cup {n + 1} = V \cup {n + 1} /\ n + 1 \notin U /\ n + 1 \notin V
      BY <2>1, <2>3
    <3> QED BY <3>1
  <2> HIDE DEF f, P, Q
  <2> QED BY <2>2, <2>3 DEF Bijection, Injection, Surjection, IsInjective
<1> HIDE DEF P, Q, f
<1>6. IsFiniteSet(Q) /\ Cardinality(Q) = Cardinality(P)
  BY <1>2, <1>5, FS_Bijection DEF ExistsBijection
<1>7. Cardinality(P \cup Q) = Cardinality(P) + Cardinality(Q) - Cardinality({})
  BY <1>2, <1>4, <1>6, FS_Union
<1>8. Cardinality({}) = 0
  BY FS_EmptySet
<1>9. Cardinality(P) \in Nat /\ Cardinality(P) # 0
  <2>1. {} \in P
    BY DEF P
  <2>2. Cardinality(P) \in Nat
    BY <1>2, FS_CardinalityType
  <2>3. Cardinality(P) # 0
    BY <1>2, <2>1, FS_EmptySet
  <2> QED BY <2>2, <2>3
<1>10. Cardinality(SUBSET T) = 2 * Cardinality(P) /\ Cardinality(P) >= 1
  <2> DEFINE c == Cardinality(P)
             d == Cardinality(SUBSET T)
  <2>1. d = c + c - 0
    BY Zenon, <1>3, <1>6, <1>7, <1>8
  <2>2. c \in Nat /\ c # 0
    BY <1>9
  <2> HIDE DEF c, d
  <2>3. d = 2 * c /\ c >= 1
    BY <2>1, <2>2
  <2> QED BY <2>3 DEF c, d
<1> QED BY <1>2, <1>9, <1>10

-----------------------------------------------------------------------------
(***************************************************************************)
(* The links of a forest stay inside the components of the edges that made *)
(* them; if those edges join all that the graph joins, the trees are the   *)
(* components.                                                             *)
(***************************************************************************)
\* Every link stays inside each set closed under the edges F.
LinksInside(N, p, F) ==
  \A S \in SUBSET N : ClosedUnder(F, S) => \A x \in S : p[x] \in S

\* If no edge leaves a set, no edge enters it.
LEMMA ComplementClosed ==
  ASSUME NEW N, NEW F, \A e \in F : e[1] \in N /\ e[2] \in N,
         NEW S \in SUBSET N, ClosedUnder(F, S)
  PROVE  ClosedUnder(F, N \ S)
BY DEF ClosedUnder

\* A closed set holds a node just when it holds the node's root.
LEMMA RootInside ==
  ASSUME NEW N, IsFiniteSet(N), NEW p \in [N -> N],
         NEW F, \A e \in F : e[1] \in N /\ e[2] \in N, LinksInside(N, p, F),
         NEW S \in SUBSET N, ClosedUnder(F, S), NEW x \in N
  PROVE  x \in S <=> Root(p, x) \in S
<1>1. ASSUME NEW T \in SUBSET N, ClosedUnder(F, T), x \in T PROVE Root(p, x) \in T
  BY <1>1, RootIn DEF LinksInside
<1>2. N \ S \in SUBSET N /\ ClosedUnder(F, N \ S)
  BY ComplementClosed
<1> QED BY <1>1, <1>2

\* Path compression makes no link that the spanning forest does not justify.
LEMMA FlatteningStaysInside ==
  ASSUME NEW N, NEW p, NEW s, Ranked(N, p, s), NEW F, LinksInside(N, p, F),
         NEW q, Flattens(N, p, q)
  PROVE  LinksInside(N, q, F)
<1> SUFFICES ASSUME NEW S \in SUBSET N, ClosedUnder(F, S), NEW x \in S PROVE q[x] \in S
  BY DEF LinksInside
<1>1. \A y \in S : p[y] \in S
  BY DEF LinksInside
<1>2. Root(p, x) \in S
  BY <1>1, RootIn DEF Ranked
<1> QED BY <1>1, <1>2 DEF Flattens

\* An edge added to F lets the roots of its ends be linked.
LEMMA UnionStaysInside ==
  ASSUME NEW N, NEW p, NEW s, Ranked(N, p, s),
         NEW F, \A e \in F : e[1] \in N /\ e[2] \in N, LinksInside(N, p, F),
         NEW e, e[1] \in N, e[2] \in N, NEW l \in N, NEW w \in N,
         {l, w} = {Root(p, e[1]), Root(p, e[2])}
  PROVE  LinksInside(N, Linked(p, l, w), F \cup {e})
<1> SUFFICES ASSUME NEW S \in SUBSET N, ClosedUnder(F \cup {e}, S), NEW x \in S
             PROVE  Linked(p, l, w)[x] \in S
  BY DEF LinksInside
<1>1. ClosedUnder(F, S) /\ (e[1] \in S <=> e[2] \in S)
  BY DEF ClosedUnder
<1>2. p \in [N -> N] /\ IsFiniteSet(N)
  BY DEF Ranked
<1>3. (e[1] \in S <=> Root(p, e[1]) \in S) /\ (e[2] \in S <=> Root(p, e[2]) \in S)
  BY SMTT(30), <1>1, <1>2, RootInside
<1>4. p[x] \in S
  BY <1>1 DEF LinksInside
<1>5. l \in S => w \in S
  BY <1>1, <1>3
<1> QED BY <1>2, <1>4, <1>5 DEF Linked

\* A forest whose links stay inside the sets closed under F, and which no edge
\* of G \supseteq F leaves, describes the components of both.
LEMMA ForestOfComponents ==
  ASSUME NEW N, NEW p, NEW s, Ranked(N, p, s),
         NEW G, \A e \in G : e[1] \in N /\ e[2] \in N /\ Root(p, e[1]) = Root(p, e[2]),
         NEW F, F \subseteq G, LinksInside(N, p, F)
  PROVE  /\ \A x \in N : Reachable(N, G, x) = TreeOf(N, p, Root(p, x))
         /\ Partition(p) = Components(N, G)
         /\ Components(N, F) = Components(N, G)
<1>1. p \in [N -> N] /\ IsFiniteSet(N) /\ DOMAIN p = N
  BY DEF Ranked
<1>2. \A S : ClosedUnder(G, S) => ClosedUnder(F, S)
  BY DEF ClosedUnder
<1>3. ASSUME NEW E, E = F \/ E = G, NEW x \in N
      PROVE  Reachable(N, E, x) = TreeOf(N, p, Root(p, x))
  <2> DEFINE T == TreeOf(N, p, Root(p, x))
  <2>1. T \in SUBSET N /\ x \in T /\ ClosedUnder(E, T)
    BY <1>3 DEF TreeOf, ClosedUnder
  <2>2. Reachable(N, E, x) \subseteq T
    BY <2>1 DEF Reachable
  <2>3. ASSUME NEW y \in T, NEW S \in SUBSET N, ClosedUnder(E, S), x \in S PROVE y \in S
    <3>1. ClosedUnder(F, S)
      BY <1>2, <1>3, <2>3
    <3>2. y \in N /\ Root(p, y) = Root(p, x)
      BY DEF TreeOf
    <3>3. \A z \in N : z \in S <=> Root(p, z) \in S
      BY <1>1, <3>1, RootInside
    <3> QED BY <2>3, <3>2, <3>3
  <2> HIDE DEF T
  <2>4. T \subseteq Reachable(N, E, x)
    BY <2>1, <2>3 DEF Reachable
  <2> QED BY Zenon, <2>2, <2>4 DEF T
<1>4. \A x \in N : Reachable(N, G, x) = TreeOf(N, p, Root(p, x))
  BY <1>3
<1>5. \A x \in N : Reachable(N, F, x) = TreeOf(N, p, Root(p, x))
  BY <1>3
<1>6. Partition(p) = {TreeOf(N, p, Root(p, x)) : x \in N}
  BY <1>1 DEF Partition, TreeOf
<1> QED BY <1>4, <1>5, <1>6 DEF Components

\* The edges leaving the union of two disjoint sets: an edge between them leaves
\* neither, which is why sketches are added.
LEMMA CutOfUnion ==
  ASSUME NEW E, NEW S, NEW T, S \cap T = {}
  PROVE  Cut(E, S \cup T) = (Cut(E, S) \ Cut(E, T)) \cup (Cut(E, T) \ Cut(E, S))
BY DEF Cut

-----------------------------------------------------------------------------
(***************************************************************************)
(* Nodes, and lists of them.                                               *)
(***************************************************************************)
\* The loop of push_backs keeps the elements of s that are in T, once each.
LEMMA FilterSet ==
  ASSUME NEW A, NEW s \in Seq(A), NEW T
  PROVE  /\ Filter(s, T) \in Seq(A)
         /\ Range(Filter(s, T)) = Range(s) \cap T
         /\ Inj(s) => Inj(Filter(s, T))
<1> DEFINE n == Len(s)
           kept == CHOOSE f : f = [k \in 0..n |->
                     IF k = 0 THEN <<>>
                     ELSE IF s[k] \in T THEN Append(f[k - 1], s[k]) ELSE f[k - 1]]
           G == [q \in Nat \X Seq(A) |->
                   IF q[1] \in 1..n /\ s[q[1]] \in T THEN Append(q[2], s[q[1]]) ELSE q[2]]
<1>1. n \in Nat /\ DOMAIN s = 1..n /\ (\A k \in 1..n : s[k] \in A) /\ <<>> \in Seq(A)
  BY SeqElements, SeqEmpty
<1>2. Filter(s, T) = kept[n]
  BY DEF Filter
<1>3. G \in [Nat \X Seq(A) -> Seq(A)]
  <2> SUFFICES ASSUME NEW q \in Nat \X Seq(A), q[1] \in 1..n
               PROVE  Append(q[2], s[q[1]]) \in Seq(A)
    OBVIOUS
  <2>1. q[2] \in Seq(A) /\ s[q[1]] \in A
    BY <1>1
  <2> QED BY <2>1, AppendSet
<1>4. ASSUME NEW k \in 1..n, NEW t \in Seq(A)
      PROVE  G[<<k, t>>] = IF s[k] \in T THEN Append(t, s[k]) ELSE t
  <2>1. <<k, t>> \in Nat \X Seq(A) /\ <<k, t>>[1] = k /\ <<k, t>>[2] = t
    BY <1>1
  <2> QED BY <2>1
<1> HIDE DEF n, kept, G
<1>5. PICK f : f \in Runs(Seq(A), <<>>, G, n)
  BY Zenon, <1>1, <1>3, FiniteRecursion
<1>6. f \in [0..n -> Seq(A)] /\ f[0] = <<>> /\ \A k \in 1..n : f[k] = G[<<k, f[k - 1]>>]
  BY <1>5 DEF Runs
<1>7. f = [k \in 0..n |-> IF k = 0 THEN <<>>
                          ELSE IF s[k] \in T THEN Append(f[k - 1], s[k]) ELSE f[k - 1]]
  <2>1. ASSUME NEW k \in 0..n
        PROVE  f[k] = IF k = 0 THEN <<>>
                      ELSE IF s[k] \in T THEN Append(f[k - 1], s[k]) ELSE f[k - 1]
    <3>1. CASE k = 0
      BY <1>6, <3>1
    <3>2. CASE k # 0
      <4>1. k \in 1..n /\ k - 1 \in 0..n
        BY <1>1, <3>2
      <4>2. f[k] = G[<<k, f[k - 1]>>] /\ f[k - 1] \in Seq(A)
        BY <1>6, <4>1
      <4> QED BY <1>4, <3>2, <4>1, <4>2
    <3> QED BY <3>1, <3>2
  <2> QED BY <1>6, <2>1
<1>8. kept = [k \in 0..n |-> IF k = 0 THEN <<>>
                             ELSE IF s[k] \in T THEN Append(kept[k - 1], s[k]) ELSE kept[k - 1]]
  BY Zenon, <1>7 DEF kept
<1> DEFINE Seen(k) == {s[i] : i \in 1..k}
           P == {k \in Nat : k <= n => /\ kept[k] \in Seq(A)
                                       /\ Range(kept[k]) = Seen(k) \cap T
                                       /\ Inj(s) => Inj(kept[k])}
<1>9. 0 \in P
  <2>1. kept[0] = <<>>
    BY <1>1, <1>8
  <2>2. Range(<<>>) = {} /\ Inj(<<>>) /\ Seen(0) = {}
    BY DEF Range, Inj
  <2> QED BY Zenon, <1>1, <2>1, <2>2
<1>10. ASSUME NEW k \in P PROVE k + 1 \in P
  <2> SUFFICES ASSUME k + 1 <= n
               PROVE  /\ kept[k + 1] \in Seq(A)
                      /\ Range(kept[k + 1]) = Seen(k + 1) \cap T
                      /\ Inj(s) => Inj(kept[k + 1])
    OBVIOUS
  <2>1. k \in Nat /\ k + 1 \in 1..n /\ k + 1 \in 0..n /\ (k + 1) - 1 = k /\ k <= n
    BY <1>1
  <2>2. /\ kept[k] \in Seq(A) /\ Range(kept[k]) = Seen(k) \cap T
        /\ Inj(s) => Inj(kept[k])
    BY <2>1
  <2>3. Seen(k + 1) = Seen(k) \cup {s[k + 1]}
    <3>1. 1..(k + 1) = 1..k \cup {k + 1}
      BY <2>1
    <3> QED BY <3>1
  <2>4. Inj(s) => s[k + 1] \notin Seen(k)
    <3>1. \A i \in 1..k : i \in 1..n /\ i # k + 1
      BY <1>1, <2>1
    <3> QED BY <1>1, <2>1, <3>1 DEF Inj
  <2> HIDE DEF Seen
  <2>5. kept[k + 1] = IF s[k + 1] \in T THEN Append(kept[k], s[k + 1]) ELSE kept[k]
    <3> DEFINE j == k + 1
    <3>1. j \in 0..n /\ j # 0 /\ j - 1 = k
      BY <2>1
    <3> HIDE DEF j, P
    <3>2. kept[j] = IF s[j] \in T THEN Append(kept[j - 1], s[j]) ELSE kept[j - 1]
      BY Zenon, <1>8, <3>1
    <3> QED BY <3>1, <3>2 DEF j
  <2>6. CASE s[k + 1] \in T
    <3>1. s[k + 1] \in A
      BY <1>1, <2>1
    <3>2. /\ Append(kept[k], s[k + 1]) \in Seq(A)
          /\ Range(Append(kept[k], s[k + 1])) = Range(kept[k]) \cup {s[k + 1]}
          /\ Inj(kept[k]) /\ s[k + 1] \notin Range(kept[k]) => Inj(Append(kept[k], s[k + 1]))
      BY <2>2, <3>1, AppendSet
    <3> QED BY <2>2, <2>3, <2>4, <2>5, <2>6, <3>2
  <2>7. CASE s[k + 1] \notin T
    BY <2>2, <2>3, <2>5, <2>7
  <2> QED BY <2>6, <2>7
<1>11. P = Nat
  <2>1. P \in SUBSET Nat
    OBVIOUS
  <2> HIDE DEF P
  <2> QED BY <1>9, <1>10, <2>1, NatInd
<1>12. n \in P
  BY Zenon, <1>1, <1>11
<1>13. Seen(n) = Range(s)
  BY <1>1 DEF Range
<1> QED BY <1>1, <1>2, <1>12, <1>13

\* There are num_nodes nodes.
LEMMA NodesFinite == IsFiniteSet(Nodes) /\ Cardinality(Nodes) = NumNodes /\ NumNodes \in Nat
<1>1. NumNodes \in Nat /\ NumNodes # 0
  BY GraphAssumption
<1>2. IsFiniteSet(0..(NumNodes - 1)) /\ Cardinality(0..(NumNodes - 1)) = NumNodes - 1 - 0 + 1
  BY <1>1, FS_Interval
<1> QED BY <1>1, <1>2 DEF Nodes

\* An edge has two different ends.
LEMMA EdgeEnds ==
  ASSUME NEW e \in Pairs
  PROVE  e[1] \in Nodes /\ e[2] \in Nodes /\ e[1] # e[2]
BY GraphAssumption DEF Nodes

\* boruvka_emulation starts with every node a representative.
LEMMA AllNodesSet == AllNodes \in Seq(Nodes) /\ Inj(AllNodes) /\ Range(AllNodes) = Nodes
<1>1. NumNodes \in Nat
  BY NodesFinite
<1>2. \A i \in 1..NumNodes : i - 1 \in Nodes
  BY <1>1 DEF Nodes
<1>3. AllNodes \in Seq(Nodes)
  BY <1>1, <1>2 DEF AllNodes
<1>4. DOMAIN AllNodes = 1..NumNodes /\ \A i \in 1..NumNodes : AllNodes[i] = i - 1
  BY DEF AllNodes
<1>5. Inj(AllNodes)
  BY <1>1, <1>4 DEF Inj
<1>6. \A x \in Nodes : x + 1 \in 1..NumNodes /\ AllNodes[x + 1] = x
  BY <1>1, <1>4 DEF Nodes
<1>7. Range(AllNodes) = Nodes
  BY <1>2, <1>4, <1>6 DEF Range
<1> QED BY <1>3, <1>5, <1>7

\* The loser and its list are appended to the winner's list.
LEMMA MergeListIs ==
  ASSUME to_merge \in [Nodes -> Seq(Nodes)], NEW w \in Nodes, NEW l \in Nodes, l # w
  PROVE  /\ MergeList(w, l) \in [Nodes -> Seq(Nodes)]
         /\ Range(MergeList(w, l)[w]) = Range(to_merge[w]) \cup {l} \cup Range(to_merge[l])
         /\ MergeList(w, l)[l] = <<>>
         /\ \A x \in Nodes \ {l, w} : MergeList(w, l)[x] = to_merge[x]
         /\ /\ Inj(to_merge[w]) /\ Inj(to_merge[l])
            /\ l \notin Range(to_merge[w]) /\ l \notin Range(to_merge[l])
            /\ Range(to_merge[w]) \cap Range(to_merge[l]) = {}
            => Inj(MergeList(w, l)[w])
<1> DEFINE s == to_merge[w]
           t == to_merge[l]
           v == s \o <<l>>
           u == v \o t
<1>1. s \in Seq(Nodes) /\ t \in Seq(Nodes) /\ <<l>> \in Seq(Nodes) /\ <<>> \in Seq(Nodes)
  OBVIOUS
<1>2. Range(<<l>>) = {l} /\ Inj(<<l>>)
  <2>1. DOMAIN <<l>> = {1} /\ <<l>>[1] = l
    OBVIOUS
  <2> QED BY <2>1 DEF Range, Inj
<1>3. MergeList(w, l) = [to_merge EXCEPT ![w] = u, ![l] = <<>>]
  BY DEF MergeList
<1> HIDE DEF s, t
<1>4. /\ v \in Seq(Nodes) /\ Range(v) = Range(s) \cup {l}
      /\ Inj(s) /\ l \notin Range(s) => Inj(v)
  <2>1. PICK q \in Seq(Nodes) : q = <<l>>
    BY Zenon, <1>1
  <2>2. /\ s \o q \in Seq(Nodes) /\ Range(s \o q) = Range(s) \cup Range(q)
        /\ Inj(s) /\ Inj(q) /\ Range(s) \cap Range(q) = {} => Inj(s \o q)
    BY <1>1, ConcatSet
  <2>3. Range(q) = {l} /\ Inj(q) /\ v = s \o q
    BY <1>2, <2>1
  <2> HIDE DEF v
  <2> QED BY <2>2, <2>3
<1> HIDE DEF v
<1>5. /\ u \in Seq(Nodes) /\ Range(u) = Range(v) \cup Range(t)
      /\ Inj(v) /\ Inj(t) /\ Range(v) \cap Range(t) = {} => Inj(u)
  BY <1>1, <1>4, ConcatSet
<1>6. /\ MergeList(w, l)[w] = u /\ MergeList(w, l)[l] = <<>>
      /\ \A x \in Nodes \ {l, w} : MergeList(w, l)[x] = to_merge[x]
      /\ MergeList(w, l) \in [Nodes -> Seq(Nodes)]
  <2> HIDE DEF u
  <2> QED BY Zenon, <1>1, <1>3, <1>5
<1> HIDE DEF u
<1>7. Range(u) = Range(s) \cup {l} \cup Range(t)
  BY <1>4, <1>5
<1>8. ASSUME Inj(s), Inj(t), l \notin Range(s), l \notin Range(t), Range(s) \cap Range(t) = {}
      PROVE  Inj(u)
  <2>1. Range(v) \cap Range(t) = {}
    BY <1>4, <1>8
  <2> QED BY <1>4, <1>5, <1>8, <2>1
<1> QED BY <1>6, <1>7, <1>8 DEF s, t

-----------------------------------------------------------------------------
(***************************************************************************)
(* Supernodes: one sampled, copied or made, and a list of them merged.     *)
(***************************************************************************)
\* A supernode only has marks on sketches below sample_idx.
Marked(s) == \A j \in SketchIdx : s.queried[j] => j < s.sample_idx

SupernodeState == {s \in SupernodeType : Marked(s)}

\* Supernode::sample meets a sketch that was not queried before.
LEMMA SampledState ==
  ASSUME NEW s \in SupernodeState, ~OutOfQueries(s)
  PROVE  /\ Sampled(s) \in SupernodeState
         /\ Sampled(s).sk = s.sk /\ Sampled(s).sample_idx = s.sample_idx + 1
         /\ s.sample_idx \in SketchIdx /\ ~s.queried[s.sample_idx]
<1>1. s \in SupernodeType /\ Marked(s) /\ NumSketches \in Nat
  BY GraphAssumption DEF SupernodeState
<1>2. /\ s.sk \in [SketchIdx -> SUBSET Pairs] /\ s.queried \in [SketchIdx -> BOOLEAN]
      /\ s.sample_idx \in 0..NumSketches
  BY <1>1 DEF SupernodeType
<1>3. s.sample_idx \in SketchIdx /\ s.sample_idx + 1 \in 0..NumSketches
  BY <1>1, <1>2 DEF SketchIdx, OutOfQueries
<1>4. ~s.queried[s.sample_idx]
  BY <1>1, <1>2, <1>3 DEF Marked
<1>5. /\ Sampled(s).sk = s.sk
      /\ Sampled(s).queried = [s.queried EXCEPT ![s.sample_idx] = TRUE]
      /\ Sampled(s).sample_idx = s.sample_idx + 1
  BY <1>1 DEF Sampled, SupernodeType
<1>6. Sampled(s) \in SupernodeType
  BY Zenon, <1>1, <1>2, <1>3 DEF Sampled, SupernodeType
<1>7. Marked(Sampled(s))
  <2> SUFFICES ASSUME NEW j \in SketchIdx, Sampled(s).queried[j]
               PROVE  j < s.sample_idx + 1
    BY <1>5 DEF Marked
  <2>1. CASE j = s.sample_idx
    BY <1>2, <2>1
  <2>2. CASE j # s.sample_idx
    <3>1. s.queried[j]
      BY <1>2, <1>5, <2>2
    <3> QED BY <1>1, <1>2, <3>1 DEF Marked, SketchIdx
  <2> QED BY <2>1, <2>2
<1> QED BY <1>3, <1>4, <1>5, <1>6, <1>7 DEF SupernodeState

\* What a sketch returns tells about the set it holds.
LEMMA QueryResultIs ==
  ASSUME NEW set \in SUBSET Pairs, NEW q \in QueryResults(set)
  PROVE  /\ q \in [ret : {"GOOD", "ZERO", "FAIL"}, edge : Pairs \cup {<<0, 0>>}]
         /\ q.ret = "GOOD" => q.edge \in set
         /\ q.ret = "ZERO" => set = {}
<1>1. CASE set = {}
  BY <1>1 DEF QueryResults, NoSample
<1>2. CASE set # {}
  <2>1. q \in [ret : {"GOOD"}, edge : set] \/ q = [ret |-> "FAIL", edge |-> <<0, 0>>]
    BY <1>2 DEF QueryResults
  <2>2. CASE q \in [ret : {"GOOD"}, edge : set]
    BY <1>2, <2>2
  <2>3. CASE q = [ret |-> "FAIL", edge |-> <<0, 0>>]
    BY <1>2, <2>3
  <2> QED BY <2>1, <2>2, <2>3
<1> QED BY <1>1, <1>2

\* What the constructors of Supernode make.
LEMMA FreshState ==
  ASSUME NEW sk \in [SketchIdx -> SUBSET Pairs]
  PROVE  /\ Fresh(sk) \in SupernodeState
         /\ Fresh(sk).sk = sk /\ Fresh(sk).sample_idx = 0
BY GraphAssumption DEF Fresh, SupernodeState, SupernodeType, Marked, SketchIdx

\* A copy holds what its supernode holds.
LEMMA CopyState ==
  ASSUME NEW s \in SupernodeState
  PROVE  CopyOf(s) \in SupernodeState /\ CopyOf(s).sk = s.sk
<1>1. s.sk \in [SketchIdx -> SUBSET Pairs] /\ s.sample_idx \in 0..NumSketches
  BY DEF SupernodeState, SupernodeType
<1>2. Fresh(s.sk) \in SupernodeState /\ Fresh(s.sk).sk = s.sk
  BY <1>1, FreshState
<1> DEFINE c == [Fresh(s.sk) EXCEPT !.sample_idx = s.sample_idx]
<1>3. c \in SupernodeState /\ c.sk = s.sk
  BY Zenon, <1>1, GraphAssumption DEF Fresh, SupernodeState, SupernodeType, Marked, SketchIdx
<1> HIDE DEF c
<1> QED BY <1>2, <1>3 DEF CopyOf, c

\* Supernode::merge, in particular of two supernodes that used up the same
\* number of sketches.
LEMMA MergeState ==
  ASSUME NEW s \in SupernodeState, NEW o \in SupernodeState
  PROVE  /\ Merge(s, o) \in SupernodeState
         /\ \A j \in SketchIdx : Merge(s, o).sk[j] \subseteq s.sk[j] \cup o.sk[j]
         /\ s.sample_idx = o.sample_idx =>
              /\ Merge(s, o).sample_idx = s.sample_idx
              /\ \A j \in SketchIdx : j >= s.sample_idx =>
                   Merge(s, o).sk[j] = SymDiff(s.sk[j], o.sk[j])
<1> DEFINE m == Merge(s, o)
           idx == IF s.sample_idx >= o.sample_idx THEN s.sample_idx ELSE o.sample_idx
<1>1. /\ s.sk \in [SketchIdx -> SUBSET Pairs] /\ s.queried \in [SketchIdx -> BOOLEAN]
      /\ o.sk \in [SketchIdx -> SUBSET Pairs] /\ o.queried \in [SketchIdx -> BOOLEAN]
      /\ s.sample_idx \in 0..NumSketches /\ o.sample_idx \in 0..NumSketches
      /\ NumSketches \in Nat
  BY GraphAssumption DEF SupernodeState, SupernodeType
<1>2. idx = (IF s.sample_idx >= o.sample_idx THEN s.sample_idx ELSE o.sample_idx)
  OBVIOUS
<1>3. m = [sk |-> [i \in SketchIdx |->
                     IF i < idx THEN s.sk[i] ELSE SymDiff(s.sk[i], o.sk[i])],
           queried |-> [i \in SketchIdx |->
                     IF i < idx THEN s.queried[i] ELSE s.queried[i] \/ o.queried[i]],
           sample_idx |-> idx]
  BY DEF Merge
<1> HIDE DEF m, idx
<1>4. m.sk \in [SketchIdx -> SUBSET Pairs] /\ m.sample_idx \in 0..NumSketches
  BY <1>1, <1>2, <1>3 DEF SymDiff
<1>5. m.queried \in [SketchIdx -> BOOLEAN]
  BY Zenon, <1>1, <1>3
<1>6. m \in SupernodeType
  BY <1>3, <1>4, <1>5 DEF SupernodeType
<1>7. Marked(m)
  <2> SUFFICES ASSUME NEW j \in SketchIdx, m.queried[j], ~(j < idx) PROVE FALSE
    BY <1>3 DEF Marked
  <2>1. s.queried[j] \/ o.queried[j]
    BY Zenon, <1>3
  <2>2. ~(j < s.sample_idx) /\ ~(j < o.sample_idx)
    BY <1>1, <1>2 DEF SketchIdx
  <2>3. Marked(s) /\ Marked(o)
    BY DEF SupernodeState
  <2> QED BY <2>1, <2>2, <2>3 DEF Marked
<1>8. \A j \in SketchIdx : m.sk[j] \subseteq s.sk[j] \cup o.sk[j]
  BY <1>3 DEF SymDiff
<1>9. ASSUME s.sample_idx = o.sample_idx
      PROVE  /\ m.sample_idx = s.sample_idx
             /\ \A j \in SketchIdx : j >= s.sample_idx => m.sk[j] = SymDiff(s.sk[j], o.sk[j])
  <2>1. idx = s.sample_idx
    BY <1>2, <1>9
  <2>2. \A j \in SketchIdx : j >= idx => ~(j < idx)
    BY <1>1, <2>1 DEF SketchIdx
  <2> QED BY <1>3, <2>1, <2>2
<1> QED BY <1>6, <1>7, <1>8, <1>9 DEF m, SupernodeState

\* The values merge_supernodes goes through for one representative.
MergeRun(a, sum) ==
  LET n == Len(to_merge[a]) IN
  /\ sum \in [0..n -> SupernodeState]
  /\ sum[0] = supernodes[a]
  /\ \A k \in 1..n : sum[k] = Merge(sum[k - 1], supernodes[to_merge[a][k]])
  /\ Merged(a) = sum[n]

\* merge_supernodes adds the supernodes of a list one after the other.
LEMMA MergeRunExists ==
  ASSUME supernodes \in [Nodes -> SupernodeState], to_merge \in [Nodes -> Seq(Nodes)],
         NEW a \in Nodes
  PROVE  \E sum : MergeRun(a, sum)
<1> DEFINE L == to_merge[a]
           n == Len(to_merge[a])
           sum == CHOOSE f : f = [k \in 0..Len(to_merge[a]) |->
                    IF k = 0 THEN supernodes[a] ELSE Merge(f[k - 1], supernodes[to_merge[a][k]])]
           G == [q \in Nat \X SupernodeState |->
                   IF q[1] \in 1..n THEN Merge(q[2], supernodes[L[q[1]]]) ELSE q[2]]
<1>1. n \in Nat /\ \A k \in 1..n : L[k] \in Nodes
  BY SeqElements
<1>2. Merged(a) = sum[n]
  BY DEF Merged
<1>3. \A k \in 1..n : supernodes[L[k]] \in SupernodeState
  BY <1>1
<1>4. G \in [Nat \X SupernodeState -> SupernodeState]
  <2> SUFFICES ASSUME NEW q \in Nat \X SupernodeState, q[1] \in 1..n
               PROVE  Merge(q[2], supernodes[L[q[1]]]) \in SupernodeState
    OBVIOUS
  <2>1. q[2] \in SupernodeState /\ supernodes[L[q[1]]] \in SupernodeState
    BY <1>3
  <2> QED BY <2>1, MergeState
<1>5. ASSUME NEW k \in 1..n, NEW t \in SupernodeState
      PROVE  G[<<k, t>>] = Merge(t, supernodes[L[k]])
  <2>1. <<k, t>> \in Nat \X SupernodeState /\ <<k, t>>[1] = k /\ <<k, t>>[2] = t
    BY <1>1
  <2> QED BY <2>1
<1> HIDE DEF G, sum
<1>6. PICK f : f \in Runs(SupernodeState, supernodes[a], G, n)
  BY Zenon, <1>1, <1>4, FiniteRecursion
<1>7. /\ f \in [0..n -> SupernodeState] /\ f[0] = supernodes[a]
      /\ \A k \in 1..n : f[k] = G[<<k, f[k - 1]>>]
  BY <1>6 DEF Runs
<1>8. f = [k \in 0..n |-> IF k = 0 THEN supernodes[a] ELSE Merge(f[k - 1], supernodes[L[k]])]
  <2>1. ASSUME NEW k \in 0..n
        PROVE  f[k] = IF k = 0 THEN supernodes[a] ELSE Merge(f[k - 1], supernodes[L[k]])
    <3>1. CASE k = 0
      BY <1>7, <3>1
    <3>2. CASE k # 0
      <4>1. k \in 1..n /\ k - 1 \in 0..n
        BY <1>1, <3>2
      <4>2. f[k] = G[<<k, f[k - 1]>>] /\ f[k - 1] \in SupernodeState
        BY Zenon, <1>7, <4>1
      <4> QED BY <1>5, <3>2, <4>1, <4>2
    <3> QED BY <3>1, <3>2
  <2> QED BY <1>7, <2>1
<1>9. sum = [k \in 0..n |-> IF k = 0 THEN supernodes[a] ELSE Merge(sum[k - 1], supernodes[L[k]])]
  BY Zenon, <1>8 DEF sum
<1>10. sum[0] = supernodes[a]
  BY <1>1, <1>9
<1>11. ASSUME NEW k \in 1..n PROVE sum[k] = Merge(sum[k - 1], supernodes[L[k]])
  <2>1. k \in 0..n /\ k # 0
    BY <1>1
  <2> QED BY Zenon, <1>9, <2>1
<1> DEFINE P == {k \in Nat : k <= n => sum[k] \in SupernodeState}
<1>12. 0 \in P
  BY <1>10
<1>13. ASSUME NEW k \in P PROVE k + 1 \in P
  <2> SUFFICES ASSUME k + 1 <= n PROVE sum[k + 1] \in SupernodeState
    OBVIOUS
  <2>1. k \in Nat /\ k + 1 \in 1..n /\ (k + 1) - 1 = k /\ k <= n
    BY <1>1
  <2>2. sum[k] \in SupernodeState
    BY <2>1
  <2>3. sum[k + 1] = Merge(sum[k], supernodes[L[k + 1]])
    BY <1>11, <2>1
  <2> QED BY SMTT(30), <1>3, <2>1, <2>2, <2>3, MergeState
<1>14. P = Nat
  <2>1. P \in SUBSET Nat
    OBVIOUS
  <2> HIDE DEF P
  <2> QED BY Zenon, <1>12, <1>13, <2>1, NatInd
<1>15. sum \in [0..n -> SupernodeState]
  <2>1. \A k \in 0..n : k \in P /\ k <= n
    BY <1>1, <1>14
  <2>2. \A k \in 0..n : sum[k] \in SupernodeState
    BY <2>1
  <2> QED BY <1>9, <2>2
<1>16. MergeRun(a, sum)
  BY <1>2, <1>10, <1>11, <1>15 DEF MergeRun
<1> QED BY <1>16

\* Merging stays inside the edges the supernodes held.
LEMMA MergedType ==
  ASSUME supernodes \in [Nodes -> SupernodeState], to_merge \in [Nodes -> Seq(Nodes)],
         NEW a \in Nodes, NEW E,
         \A i \in Nodes : \A j \in SketchIdx : supernodes[i].sk[j] \subseteq E
  PROVE  /\ Merged(a) \in SupernodeState
         /\ \A j \in SketchIdx : Merged(a).sk[j] \subseteq E
<1> DEFINE L == to_merge[a]
           n == Len(to_merge[a])
<1>1. PICK sum : MergeRun(a, sum)
  BY MergeRunExists
<1>2. /\ sum \in [0..n -> SupernodeState] /\ sum[0] = supernodes[a]
      /\ \A k \in 1..n : sum[k] = Merge(sum[k - 1], supernodes[L[k]])
      /\ Merged(a) = sum[n]
  BY <1>1 DEF MergeRun
<1>3. n \in Nat /\ \A k \in 1..n : L[k] \in Nodes
  BY SeqElements
<1> DEFINE P == {k \in Nat : k <= n => \A j \in SketchIdx : sum[k].sk[j] \subseteq E}
<1>4. 0 \in P
  BY <1>2
<1>5. ASSUME NEW k \in P PROVE k + 1 \in P
  <2> SUFFICES ASSUME k + 1 <= n, NEW j \in SketchIdx PROVE sum[k + 1].sk[j] \subseteq E
    OBVIOUS
  <2>1. k \in Nat /\ k + 1 \in 1..n /\ (k + 1) - 1 = k /\ k <= n /\ k \in 0..n
    BY <1>3
  <2>2. sum[k] \in SupernodeState /\ sum[k].sk[j] \subseteq E
    BY Zenon, <1>2, <2>1
  <2>3. sum[k + 1] = Merge(sum[k], supernodes[L[k + 1]])
    BY <1>2, <2>1
  <2>4. L[k + 1] \in Nodes
    BY <1>3, <2>1
  <2>5. sum[k + 1].sk[j] \subseteq sum[k].sk[j] \cup supernodes[L[k + 1]].sk[j]
    BY Zenon, <2>2, <2>3, <2>4, MergeState
  <2>6. supernodes[L[k + 1]].sk[j] \subseteq E
    BY <2>4
  <2> QED BY <2>2, <2>5, <2>6
<1>6. P = Nat
  <2>1. P \in SUBSET Nat
    OBVIOUS
  <2> HIDE DEF P
  <2> QED BY Zenon, <1>4, <1>5, <2>1, NatInd
<1>7. n \in P /\ n <= n /\ n \in 0..n
  BY <1>3, <1>6
<1> QED BY Zenon, <1>2, <1>7

\* Merging supernodes that hold the cuts of disjoint sets, all with the same
\* number of used sketches, gives the cut of their union.
HoldsCut(s, c, E, S) ==
  s.sample_idx = c /\ \A j \in SketchIdx : j >= c => s.sk[j] = Cut(E, S)

AllHold(M, c, E, T) == \A x \in M : HoldsCut(supernodes[x], c, E, T[x])

Separate(T, M) == \A x, y \in M : x # y => T[x] \cap T[y] = {}

UnionOf(T, M) == UNION {T[x] : x \in M}

\* If the supernodes to be merged hold the cuts of disjoint trees, their sum
\* holds the cut of the joined tree: the edges between them cancel.
LEMMA MergedCut ==
  ASSUME supernodes \in [Nodes -> SupernodeState], to_merge \in [Nodes -> Seq(Nodes)],
         NEW a \in Nodes, NEW E, NEW T, NEW c \in Nat,
         Inj(to_merge[a]), a \notin Range(to_merge[a]),
         AllHold({a} \cup Range(to_merge[a]), c, E, T),
         Separate(T, {a} \cup Range(to_merge[a]))
  PROVE  HoldsCut(Merged(a), c, E, UnionOf(T, {a} \cup Range(to_merge[a])))
<1> DEFINE L == to_merge[a]
           n == Len(to_merge[a])
           M == {a} \cup Range(to_merge[a])
           Done(k) == {a} \cup {L[i] : i \in 1..k}
           U(k) == UNION {T[x] : x \in Done(k)}
<1>1. PICK sum : MergeRun(a, sum)
  BY MergeRunExists
<1>2. /\ sum \in [0..n -> SupernodeState] /\ sum[0] = supernodes[a]
      /\ \A k \in 1..n : sum[k] = Merge(sum[k - 1], supernodes[L[k]])
      /\ Merged(a) = sum[n]
  BY <1>1 DEF MergeRun
<1>3. n \in Nat /\ DOMAIN L = 1..n /\ \A k \in 1..n : L[k] \in Nodes /\ L[k] \in M
  <2>1. L \in Seq(Nodes)
    OBVIOUS
  <2>2. n \in Nat /\ DOMAIN L = 1..n /\ \A k \in 1..n : L[k] \in Nodes
    BY ONLY <2>1, SeqElements
  <2>3. \A k \in 1..n : L[k] \in Range(L)
    BY ONLY <2>2 DEF Range
  <2> QED BY ONLY Zenon, <2>2, <2>3
<1>a. \A x \in M : /\ supernodes[x].sample_idx = c
                   /\ \A j \in SketchIdx : j >= c => supernodes[x].sk[j] = Cut(E, T[x])
  BY DEF AllHold, HoldsCut
<1>b. \A x, y \in M : x # y => T[x] \cap T[y] = {}
  BY Zenon DEF Separate
<1> DEFINE P == {k \in Nat : k <= n => /\ sum[k].sample_idx = c
                                       /\ \A j \in SketchIdx : j >= c => sum[k].sk[j] = Cut(E, U(k))}
<1>4. 0 \in P
  <2>1. 1..0 = {}
    OBVIOUS
  <2>2. U(0) = T[a]
    BY Zenon, <2>1
  <2> QED BY Zenon, <1>2, <1>a, <2>2
<1> HIDE DEF U
<1>5. ASSUME NEW k \in P PROVE k + 1 \in P
  <2>0. k \in Nat
    BY Zenon
  <2>n. k + 1 \in Nat
    BY ONLY <2>0
  <2> SUFFICES ASSUME k + 1 <= n
               PROVE  /\ sum[k + 1].sample_idx = c
                      /\ \A j \in SketchIdx : j >= c => sum[k + 1].sk[j] = Cut(E, U(k + 1))
    BY Zenon, <2>n
  <2> DEFINE b == L[k + 1]
  <2>1. k \in Nat /\ k + 1 \in 1..n /\ (k + 1) - 1 = k /\ k <= n /\ k \in 0..n
    <3> HIDE DEF P, n
    <3> QED BY <1>3, <2>0
  <2>2. /\ sum[k] \in SupernodeState /\ sum[k].sample_idx = c
        /\ \A j \in SketchIdx : j >= c => sum[k].sk[j] = Cut(E, U(k))
    BY Zenon, <1>2, <2>1
  <2>3. sum[k + 1] = Merge(sum[k], supernodes[b])
    BY Zenon, <1>2, <2>1
  <2>4. b \in Nodes /\ b \in M
    BY Zenon, <1>3, <2>1
  <2>5. b \notin Done(k)
    <3>1. \A i \in 1..k : i \in 1..n /\ i # k + 1
      <4>1. n \in Nat
        BY Zenon, <1>3
      <4> HIDE DEF n
      <4> QED BY ONLY <2>1, <4>1
    <3>2. \A i \in 1..k : L[i] # b
      BY Zenon, <1>3, <2>1, <3>1 DEF Inj
    <3>3. b # a
      BY Zenon, <1>3, <2>1 DEF Range
    <3> QED BY Zenon, <3>2, <3>3
  <2>6. Done(k) \subseteq M
    <3>1. \A i \in 1..k : i \in 1..n
      <4>1. n \in Nat
        BY Zenon, <1>3
      <4> HIDE DEF n
      <4> QED BY ONLY <2>1, <4>1
    <3> QED BY Zenon, <1>3, <3>1
  <2>7. Done(k + 1) = Done(k) \cup {b}
    <3>1. 1..(k + 1) = 1..k \cup {k + 1}
      BY ONLY <2>0
    <3> QED BY Zenon, <3>1
  <2> HIDE DEF Done, b, M
  <2>8. U(k + 1) = U(k) \cup T[b]
    BY Zenon, <2>7 DEF U
  <2> HIDE DEF P
  <2>9. U(k) \cap T[b] = {}
    <3> SUFFICES ASSUME NEW z \in U(k), z \in T[b] PROVE FALSE
      OBVIOUS
    <3>1. PICK x \in Done(k) : z \in T[x]
      BY Zenon DEF U
    <3>2. T[x] \cap T[b] = {}
      BY Zenon, <1>b, <2>4, <2>5, <2>6, <3>1
    <3> QED BY Zenon, <3>1, <3>2
  <2>10. supernodes[b] \in SupernodeState /\ supernodes[b].sample_idx = c
    BY Zenon, <1>a, <2>4
  <2>m. sum[k].sample_idx = supernodes[b].sample_idx =>
          /\ Merge(sum[k], supernodes[b]).sample_idx = sum[k].sample_idx
          /\ \A j \in SketchIdx : j >= sum[k].sample_idx =>
               Merge(sum[k], supernodes[b]).sk[j] = SymDiff(sum[k].sk[j], supernodes[b].sk[j])
    <3>1. sum[k] \in SupernodeState /\ supernodes[b] \in SupernodeState
      BY Zenon, <2>2, <2>10
    <3> QED BY ONLY <3>1, MergeState
  <2>11. sum[k + 1].sample_idx = c
    BY Zenon, <2>2, <2>3, <2>10, <2>m
  <2>12. ASSUME NEW j \in SketchIdx, j >= c PROVE sum[k + 1].sk[j] = Cut(E, U(k + 1))
    <3>1. sum[k + 1].sk[j] = SymDiff(sum[k].sk[j], supernodes[b].sk[j])
      BY Zenon, <2>2, <2>3, <2>10, <2>12, <2>m
    <3>2. sum[k].sk[j] = Cut(E, U(k)) /\ supernodes[b].sk[j] = Cut(E, T[b])
      BY Zenon, <1>a, <2>2, <2>4, <2>12
    <3>3. Cut(E, U(k) \cup T[b]) = SymDiff(Cut(E, U(k)), Cut(E, T[b]))
      BY Zenon, <2>9, CutOfUnion DEF SymDiff
    <3> QED BY Zenon, <2>8, <3>1, <3>2, <3>3
  <2> QED BY Zenon, <2>11, <2>12
<1>6. P = Nat
  <2>1. P \in SUBSET Nat
    BY Zenon
  <2> HIDE DEF P
  <2> QED BY Zenon, <1>4, <1>5, <2>1, NatInd
<1>7. n \in P /\ n <= n
  <2> HIDE DEF P
  <2> QED BY <1>3, <1>6
<1>8. Done(n) = M
  BY Zenon, <1>3 DEF Range
<1> HIDE DEF Done, M
<1>9. sum[n].sample_idx = c /\ \A j \in SketchIdx : j >= c => sum[n].sk[j] = Cut(E, U(n))
  BY Zenon, <1>7
<1> QED BY Zenon, <1>2, <1>8, <1>9 DEF M, U, UnionOf, HoldsCut
=============================================================================
