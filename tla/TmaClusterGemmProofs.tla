------------------------ MODULE TmaClusterGemmProofs ------------------------
(***************************************************************************)
(* The invariant of TmaClusterGemmInv is inductive, for every cluster of   *)
(* blocks, every set of consumer warp groups, every number of stages and   *)
(* every number of k tiles, and implies the safety properties that the     *)
(* model's run checks.                                                     *)
(***************************************************************************)
EXTENDS TmaClusterGemmInv, PipelineLemmas

-----------------------------------------------------------------------------
(* 1. Arithmetic: the rows and columns of a cluster, the swizzle.          *)

(* Quotient and remainder, by any divisor. *)
LEMMA Division ==
  ASSUME NEW d \in Nat \ {0}, NEW n \in Nat
  PROVE  n \div d \in Nat /\ n % d \in 0 .. d - 1 /\ n = (n \div d) * d + (n % d)
  BY SMTT(30)

(* The quotient and the remainder are determined. *)
LEMMA DivisionUnique ==
  ASSUME NEW d \in Nat \ {0}, NEW a \in Nat, NEW r \in 0 .. d - 1
  PROVE  (a * d + r) \div d = a /\ (a * d + r) % d = r
  BY SMTT(30)

(* The order of two rows is the order of their numbers. *)
LEMMA ProductOrder ==
  ASSUME NEW d \in Nat \ {0}, NEW a \in Nat, NEW b \in Nat, NEW r \in 0 .. d - 1
  PROVE  a * d + r < b * d <=> a < b
<1>1. CASE a < b
  <2>1. (b - a - 1) * d \in Nat
    BY <1>1
  <2>2. b * d = a * d + d + (b - a - 1) * d
    BY <1>1
  <2>3. a * d \in Nat
    OBVIOUS
  <2> QED BY <1>1, <2>1, <2>2, <2>3
<1>2. CASE ~(a < b)
  <2>1. (a - b) * d \in Nat
    BY <1>2
  <2>2. a * d = b * d + (a - b) * d
    OBVIOUS
  <2>3. b * d \in Nat
    OBVIOUS
  <2> QED BY <1>2, <2>1, <2>2, <2>3
<1> QED BY <1>1, <1>2

(* A row: the blocks with the remainder of d, one for each quotient. *)
LEMMA RowSize ==
  ASSUME NEW m \in Nat \ {0}, NEW n \in Nat \ {0}, NEW d \in 0 .. m * n - 1
  PROVE  LET S == {b \in 0 .. m * n - 1 : b % m = d % m}
         IN  IsFiniteSet(S) /\ Cardinality(S) = n
<1> DEFINE S == {b \in 0 .. m * n - 1 : b % m = d % m}
           f == [k \in 1 .. n |-> (k - 1) * m + (d % m)]
<1>1. m * n \in Nat /\ m * n = n * m
  OBVIOUS
<1>2. d \in Nat /\ d % m \in 0 .. m - 1
  BY <1>1, Division
<1>3. ASSUME NEW k \in 1 .. n
      PROVE  /\ f[k] \in S /\ f[k] \div m = k - 1
  <2>1. k - 1 \in Nat /\ k - 1 < n
    OBVIOUS
  <2>2. ((k - 1) * m + (d % m)) \div m = k - 1 /\ ((k - 1) * m + (d % m)) % m = d % m
    BY <1>2, <2>1, DivisionUnique
  <2>3. (k - 1) * m + (d % m) < n * m
    BY <1>2, <2>1, ProductOrder
  <2>4. (k - 1) * m \in Nat
    BY <2>1
  <2>5. (k - 1) * m + (d % m) \in 0 .. m * n - 1
    BY <1>1, <1>2, <2>3, <2>4
  <2> QED BY <2>2, <2>5
<1>4. ASSUME NEW b \in S
      PROVE  \E k \in 1 .. n : f[k] = b
  <2>1. b \in Nat /\ b < n * m /\ b % m = d % m
    BY <1>1
  <2>2. b \div m \in Nat /\ b = (b \div m) * m + (d % m)
    BY <2>1, Division
  <2>3. b \div m < n
    BY <1>2, <2>1, <2>2, ProductOrder
  <2>4. (b \div m) + 1 \in 1 .. n /\ ((b \div m) + 1) - 1 = b \div m
    BY <2>2, <2>3
  <2> QED BY <2>2, <2>4
<1>5. f \in Bijection(1 .. n, S)
  <2>1. f \in [1 .. n -> S]
    BY <1>3
  <2>2. \A i, j \in 1 .. n : f[i] = f[j] => i = j
    <3> SUFFICES ASSUME NEW i \in 1 .. n, NEW j \in 1 .. n, f[i] = f[j] PROVE i = j
      OBVIOUS
    <3>1. i - 1 = j - 1
      BY <1>3
    <3> QED BY <3>1
  <2>3. \A b \in S : \E k \in 1 .. n : f[k] = b
    BY <1>4
  <2> HIDE DEF S, f
  <2> QED BY <2>1, <2>2, <2>3 DEF Bijection, Injection, Surjection, IsInjective
<1>6. ExistsBijection(1 .. n, S)
  BY <1>5 DEF ExistsBijection
<1>7. IsFiniteSet(S) /\ Cardinality(S) = n
  <2> HIDE DEF S
  <2> QED BY <1>6, FS_CountingElements, FS_NatBijection
<1> QED BY <1>7

(* A column: the blocks with the quotient of d, one for each remainder. *)
LEMMA ColumnSize ==
  ASSUME NEW m \in Nat \ {0}, NEW n \in Nat \ {0}, NEW d \in 0 .. m * n - 1
  PROVE  LET S == {b \in 0 .. m * n - 1 : b \div m = d \div m}
         IN  IsFiniteSet(S) /\ Cardinality(S) = m
<1> DEFINE S == {b \in 0 .. m * n - 1 : b \div m = d \div m}
           q == d \div m
           f == [k \in 1 .. m |-> q * m + (k - 1)]
<1>1. m * n \in Nat /\ m * n = n * m
  OBVIOUS
<1>2. d \in Nat /\ d < n * m /\ d % m \in 0 .. m - 1 /\ q \in Nat /\ d = q * m + (d % m)
  <2>1. d \in Nat /\ d < n * m
    BY <1>1
  <2> QED BY <2>1, Division
<1>3. q < n
  <2> HIDE DEF q
  <2> QED BY <1>2, ProductOrder
<1>4. ASSUME NEW k \in 1 .. m
      PROVE  f[k] \in S /\ f[k] % m = k - 1
  <2> HIDE DEF q
  <2>1. k - 1 \in 0 .. m - 1
    OBVIOUS
  <2>2. (q * m + (k - 1)) \div m = q /\ (q * m + (k - 1)) % m = k - 1
    BY <1>2, <2>1, DivisionUnique
  <2>3. q * m + (k - 1) < n * m
    BY <1>2, <1>3, <2>1, ProductOrder
  <2>4. q * m \in Nat
    BY <1>2
  <2>5. q * m + (k - 1) \in 0 .. m * n - 1
    BY <1>1, <2>1, <2>3, <2>4
  <2> QED BY <2>2, <2>5 DEF q
<1>5. ASSUME NEW b \in S
      PROVE  \E k \in 1 .. m : f[k] = b
  <2>1. b \in Nat /\ b \div m = q
    BY <1>1
  <2>2. b % m \in 0 .. m - 1 /\ b = q * m + (b % m)
    BY <2>1, Division
  <2>3. (b % m) + 1 \in 1 .. m /\ ((b % m) + 1) - 1 = b % m
    BY <2>2
  <2> QED BY <2>2, <2>3
<1>6. f \in Bijection(1 .. m, S)
  <2>1. f \in [1 .. m -> S]
    BY <1>4
  <2>2. \A i, j \in 1 .. m : f[i] = f[j] => i = j
    <3> SUFFICES ASSUME NEW i \in 1 .. m, NEW j \in 1 .. m, f[i] = f[j] PROVE i = j
      OBVIOUS
    <3>1. i - 1 = j - 1
      BY <1>4
    <3> QED BY <3>1
  <2>3. \A b \in S : \E k \in 1 .. m : f[k] = b
    BY <1>5
  <2> HIDE DEF S, f
  <2> QED BY <2>1, <2>2, <2>3 DEF Bijection, Injection, Surjection, IsInjective
<1>7. ExistsBijection(1 .. m, S)
  BY <1>6 DEF ExistsBijection
<1>8. IsFiniteSet(S) /\ Cardinality(S) = m
  <2> HIDE DEF S
  <2> QED BY <1>7, FS_CountingElements, FS_NatBijection
<1> QED BY <1>8

(* One element in both. *)
LEMMA CellUnique ==
  ASSUME NEW m \in Nat \ {0}, NEW b \in Nat, NEW d \in Nat, b % m = d % m, b \div m = d \div m
  PROVE  b = d
  BY Division

(* The swizzled threads of a warp group reach every one of sixteen blocks. *)
LEMMA SpreadOnto ==
  ASSUME NEW d \in 0 .. 15
  PROVE  \E t \in 0 .. 127 : t % 8 = 0 /\ SpreadArrivals(t) = d
<1>1. \A r, c \in 0 .. 3 : LET t == 32 * r + 8 * c IN
        t \in 0 .. 127 /\ t % 8 = 0 /\ (t \div 32) % 4 = r /\ (t \div 8) % 4 = c
  OBVIOUS
<1>2. \A r, c \in 0 .. 3 : \E k \in 0 .. 3 : Xor2(k, c) = r
  BY DEF Xor2
<1>3. d % 4 \in 0 .. 3 /\ d \div 4 \in 0 .. 3 /\ d = 4 * (d \div 4) + (d % 4)
  OBVIOUS
<1>4. PICK k \in 0 .. 3 : Xor2(k, d % 4) = d \div 4
  BY <1>2, <1>3
<1> DEFINE t == 32 * k + 8 * (d % 4)
<1>5. t \in 0 .. 127 /\ t % 8 = 0 /\ (t \div 32) % 4 = k /\ (t \div 8) % 4 = d % 4
  BY <1>1, <1>3
<1>6. SpreadArrivals(t) = d
  BY <1>3, <1>4, <1>5 DEF SpreadArrivals
<1> QED BY <1>5, <1>6

(* No two of the candidate threads signal the same block. *)
LEMMA SpreadInjective ==
  ASSUME NEW t \in 0 .. 127, NEW u \in 0 .. 127, t % 8 = 0, u % 8 = 0,
         SpreadArrivals(t) = SpreadArrivals(u)
  PROVE  t = u
<1>1. ASSUME NEW x \in 0 .. 127, x % 8 = 0
      PROVE  /\ x = 32 * ((x \div 32) % 4) + 8 * ((x \div 8) % 4)
             /\ (x \div 32) % 4 \in 0 .. 3 /\ (x \div 8) % 4 \in 0 .. 3
  BY <1>1
<1>2. \A i, j \in 0 .. 3 : Xor2(i, j) \in 0 .. 3
  BY DEF Xor2
<1>3. \A i, k, j \in 0 .. 3 : Xor2(i, j) = Xor2(k, j) => i = k
  BY DEF Xor2
<1> DEFINE r == (t \div 32) % 4
           c == (t \div 8) % 4
           p == (u \div 32) % 4
           q == (u \div 8) % 4
<1>4. /\ r \in 0 .. 3 /\ c \in 0 .. 3 /\ p \in 0 .. 3 /\ q \in 0 .. 3
      /\ t = 32 * r + 8 * c /\ u = 32 * p + 8 * q
  BY <1>1
<1>5. 4 * Xor2(r, c) + c = 4 * Xor2(p, q) + q
  BY DEF SpreadArrivals
<1> HIDE DEF r, c, p, q
<1>6. c = q /\ Xor2(r, c) = Xor2(p, q)
  <2>1. Xor2(r, c) \in 0 .. 3 /\ Xor2(p, q) \in 0 .. 3
    BY <1>2, <1>4
  <2>2. \A i, j, k, l \in 0 .. 3 : 4 * i + k = 4 * j + l => i = j /\ k = l
    OBVIOUS
  <2> QED BY <1>4, <1>5, <2>1, <2>2
<1>7. r = p
  BY <1>3, <1>4, <1>6
<1> QED BY <1>4, <1>6, <1>7

-----------------------------------------------------------------------------
(* 2. The layout: how many threads signal, and shares reach, a block.      *)

(* The extents of a cluster. *)
LEMMA LayoutType ==
  ASSUME cluster \in Clusters
  PROVE  /\ cluster.m \in Nat \ {0} /\ cluster.n \in Nat \ {0}
         /\ IsFiniteSet(cluster.wgs) /\ cluster.wgs # {}
         /\ ClusterSize = cluster.m * cluster.n /\ ClusterSize \in 2 .. 16
         /\ Blocks = 0 .. cluster.m * cluster.n - 1 /\ Blocks \subseteq Nat
         /\ TransactionUnits = cluster.m + cluster.n /\ TransactionUnits \in Nat \ {0}
  BY TmaAssumption DEF ClusterSize, Blocks, TransactionUnits

(* A block is in its own row and column. *)
LEMMA SameReflexive ==
  ASSUME NEW b
  PROVE  SameRowOrCol(b, b)
  BY DEF SameRowOrCol, SameM, SameN

(* The blocks of the row and the column of d. *)
Cross(d) == {b \in Blocks : SameRowOrCol(d, b)}

(* The row and the column of a block have m + n - 1 blocks. *)
LEMMA CrossSize ==
  ASSUME cluster \in Clusters, NEW d \in Blocks
  PROVE  IsFiniteSet(Cross(d)) /\ Cardinality(Cross(d)) = cluster.m + cluster.n - 1
<1> DEFINE R == {b \in Blocks : b % cluster.m = d % cluster.m}
           C == {b \in Blocks : b \div cluster.m = d \div cluster.m}
<1>1. /\ cluster.m \in Nat \ {0} /\ cluster.n \in Nat \ {0} /\ d \in Nat
      /\ Blocks = 0 .. cluster.m * cluster.n - 1 /\ Blocks \subseteq Nat
  BY LayoutType
<1>2. IsFiniteSet(R) /\ Cardinality(R) = cluster.n
  BY <1>1, RowSize
<1>3. IsFiniteSet(C) /\ Cardinality(C) = cluster.m
  BY <1>1, ColumnSize
<1>4. Cross(d) = R \cup C
  BY DEF Cross, SameRowOrCol, SameM, SameN
<1>5. R \cap C = {d}
  BY <1>1, CellUnique
<1> HIDE DEF R, C
<1>6. Cardinality(R \cap C) = 1
  BY <1>5, FS_Singleton
<1>7. IsFiniteSet(R \cup C) /\ Cardinality(R \cup C) = cluster.n + cluster.m - 1
  BY <1>2, <1>3, <1>6, FS_Union
<1> QED BY <1>1, <1>4, <1>7

(* A signaling thread, its block, and the block that it signals. *)
LEMMA SignalerFacts ==
  ASSUME NEW c \in ClusterSignalers, cluster \in Clusters
  PROVE  /\ Block(c) \in Blocks /\ c[2] \in cluster.wgs /\ Dst(c) \in Blocks
         /\ c = <<c[1], c[2], c[3]>> /\ c[3] \in 0 .. 127 /\ c[3] % 8 = 0
         /\ SameRowOrCol(Dst(c), Block(c))
<1>1. /\ c \in Blocks \X cluster.wgs \X (0 .. 127) /\ c[3] % 8 = 0
      /\ SpreadArrivals(c[3]) < ClusterSize /\ SameRowOrCol(SpreadArrivals(c[3]), c[1])
  BY DEF ClusterSignalers, Signals, NumThreadsPerWarpGroup, MaxClusterSize
<1>2. ClusterSize \in Nat /\ Blocks = 0 .. ClusterSize - 1
  BY LayoutType DEF Blocks
<1>3. SpreadArrivals(c[3]) \in Nat
  BY <1>1 DEF SpreadArrivals, Xor2
<1> QED BY <1>1, <1>2, <1>3 DEF Block, Dst

(* Every warp group of a block has a thread for each block of the cross. *)
LEMMA SignalerExists ==
  ASSUME cluster \in Clusters, NEW b \in Blocks, NEW d \in Blocks, SameRowOrCol(d, b),
         NEW w \in cluster.wgs
  PROVE  \E c \in ClusterSignalers : Block(c) = b /\ c[2] = w /\ Dst(c) = d
<1>1. d \in 0 .. 15 /\ d < ClusterSize
  BY LayoutType DEF Blocks
<1>2. PICK t \in 0 .. 127 : t % 8 = 0 /\ SpreadArrivals(t) = d
  BY <1>1, SpreadOnto
<1>3. <<b, w, t>> \in ClusterSignalers
  BY <1>1, <1>2 DEF ClusterSignalers, Signals, NumThreadsPerWarpGroup, MaxClusterSize
<1> QED BY <1>2, <1>3 DEF Block, Dst

(* The multicast_consumer_arrival_count is the number of the threads that  *)
(* signal a block, whichever warp groups and blocks they belong to.        *)
LEMMA SignalersToCount ==
  ASSUME cluster \in Clusters, NEW d \in Blocks
  PROVE  LET S == {c \in ClusterSignalers : Dst(c) = d}
         IN  /\ IsFiniteSet(S) /\ S # {}
             /\ Cardinality(S) = ConsumerArrivals(Cardinality(cluster.wgs))
<1> DEFINE S == {c \in ClusterSignalers : Dst(c) = d}
           T == Cross(d) \X cluster.wgs
           f == [c \in S |-> <<c[1], c[2]>>]
<1>1. /\ cluster.m \in Nat \ {0} /\ cluster.n \in Nat \ {0}
      /\ IsFiniteSet(cluster.wgs) /\ cluster.wgs # {}
  BY LayoutType
<1>2. IsFiniteSet(T) /\ Cardinality(T) = (cluster.m + cluster.n - 1) * Cardinality(cluster.wgs)
  BY <1>1, CrossSize, FS_Product
<1>3. f \in [S -> T]
  BY SignalerFacts DEF Cross, Block
<1>4. \A c, e \in S : f[c] = f[e] => c = e
  <2> SUFFICES ASSUME NEW c \in S, NEW e \in S, f[c] = f[e] PROVE c = e
    OBVIOUS
  <2>1. c[1] = e[1] /\ c[2] = e[2]
    OBVIOUS
  <2>2. /\ c = <<c[1], c[2], c[3]>> /\ c[3] \in 0 .. 127 /\ c[3] % 8 = 0
        /\ e = <<e[1], e[2], e[3]>> /\ e[3] \in 0 .. 127 /\ e[3] % 8 = 0
    BY SignalerFacts
  <2>3. SpreadArrivals(c[3]) = SpreadArrivals(e[3])
    BY DEF Dst
  <2>4. c[3] = e[3]
    BY <2>2, <2>3, SpreadInjective
  <2> QED BY <2>1, <2>2, <2>4
<1>5. ASSUME NEW y \in T PROVE \E c \in S : f[c] = y
  <2>1. y[1] \in Blocks /\ SameRowOrCol(d, y[1]) /\ y[2] \in cluster.wgs /\ y = <<y[1], y[2]>>
    BY DEF Cross
  <2>2. PICK c \in ClusterSignalers : Block(c) = y[1] /\ c[2] = y[2] /\ Dst(c) = d
    BY <2>1, SignalerExists
  <2> QED BY <2>1, <2>2 DEF Block
<1> HIDE DEF S, T, f
<1>6. f \in Injection(S, T) /\ f \in Surjection(S, T)
  BY <1>3, <1>4, <1>5 DEF Injection, Surjection, IsInjective
<1>7. IsFiniteSet(S) /\ Cardinality(S) = Cardinality(T)
  BY <1>2, <1>6, FS_Injection
<1>8. PICK w \in cluster.wgs : TRUE
  BY <1>1
<1>9. S # {}
  BY <1>8, SignalerExists, SameReflexive DEF S
<1> QED BY <1>2, <1>7, <1>9 DEF S, ConsumerArrivals

(* The shares of a tile come from the blocks of the row and the column. *)
LEMMA ShareFacts ==
  ASSUME NEW d
  PROVE  /\ \A x \in Shares(d) : x[2] \in Blocks /\ (d \in Blocks => SameRowOrCol(x[2], d))
         /\ \A b \in Blocks : d \in Blocks /\ SameRowOrCol(b, d) => \E x \in Shares(d) : x[2] = b
<1>1. ASSUME NEW x \in Shares(d)
      PROVE  x[2] \in Blocks /\ (d \in Blocks => SameRowOrCol(x[2], d))
  <2>1. CASE x \in {<<"A", b>> : b \in {y \in Blocks : d \in MulticastA(y)}}
    <3>1. PICK y \in Blocks : d \in MulticastA(y) /\ x = <<"A", y>>
      BY <2>1
    <3> QED BY <3>1 DEF MulticastA, SameRowOrCol, SameM
  <2>2. CASE x \in {<<"B", b>> : b \in {y \in Blocks : d \in MulticastB(y)}}
    <3>1. PICK y \in Blocks : d \in MulticastB(y) /\ x = <<"B", y>>
      BY <2>2
    <3> QED BY <3>1 DEF MulticastB, SameRowOrCol, SameN
  <2> QED BY <2>1, <2>2 DEF Shares
<1>2. ASSUME NEW b \in Blocks, d \in Blocks, SameRowOrCol(b, d)
      PROVE  \E x \in Shares(d) : x[2] = b
  <2>1. CASE SameM(b, d)
    <3>1. d \in MulticastA(b)
      BY <1>2, <2>1 DEF MulticastA, SameM
    <3>2. <<"A", b>> \in Shares(d)
      BY <3>1 DEF Shares
    <3> QED BY <3>2
  <2>2. CASE SameN(b, d)
    <3>1. d \in MulticastB(b)
      BY <1>2, <2>2 DEF MulticastB, SameN
    <3>2. <<"B", b>> \in Shares(d)
      BY <3>1 DEF Shares
    <3> QED BY <3>2
  <2> QED BY <1>2, <2>1, <2>2 DEF SameRowOrCol
<1> QED BY <1>1, <1>2

(* The units of transaction_bytes are the shares that land in a block. *)
LEMMA SharesCount ==
  ASSUME cluster \in Clusters, NEW d \in Blocks
  PROVE  IsFiniteSet(Shares(d)) /\ Cardinality(Shares(d)) = TransactionUnits
<1> DEFINE R == {b \in Blocks : b % cluster.m = d % cluster.m}
           C == {b \in Blocks : b \div cluster.m = d \div cluster.m}
           A == {<<"A", b>> : b \in R}
           B == {<<"B", b>> : b \in C}
           f == [b \in R |-> <<"A", b>>]
           g == [b \in C |-> <<"B", b>>]
<1>1. /\ cluster.m \in Nat \ {0} /\ cluster.n \in Nat \ {0} /\ d \in Nat
      /\ Blocks = 0 .. cluster.m * cluster.n - 1 /\ Blocks \subseteq Nat
      /\ TransactionUnits = cluster.m + cluster.n
  BY LayoutType
<1>2. IsFiniteSet(R) /\ Cardinality(R) = cluster.n
  BY <1>1, RowSize
<1>3. IsFiniteSet(C) /\ Cardinality(C) = cluster.m
  BY <1>1, ColumnSize
<1>4. Shares(d) = A \cup B
  <2>1. {x \in Blocks : d \in MulticastA(x)} = R
    BY DEF MulticastA, SameM
  <2>2. {x \in Blocks : d \in MulticastB(x)} = C
    BY DEF MulticastB, SameN
  <2> QED BY <2>1, <2>2 DEF Shares
<1>5. A \cap B = {}
  OBVIOUS
<1> HIDE DEF R, C
<1>6. f \in Bijection(R, A) /\ g \in Bijection(C, B)
  BY DEF Bijection, Injection, Surjection, IsInjective
<1> HIDE DEF A, B, f, g
<1>7. IsFiniteSet(A) /\ Cardinality(A) = cluster.n
  BY <1>2, <1>6, FS_Bijection DEF ExistsBijection
<1>8. IsFiniteSet(B) /\ Cardinality(B) = cluster.m
  BY <1>3, <1>6, FS_Bijection DEF ExistsBijection
<1>9. Cardinality(A \cap B) = 0
  BY <1>5, FS_EmptySet
<1>10. IsFiniteSet(A \cup B) /\ Cardinality(A \cup B) = cluster.n + cluster.m
  <2>1. /\ IsFiniteSet(A \cup B)
        /\ Cardinality(A \cup B) = Cardinality(A) + Cardinality(B) - Cardinality(A \cap B)
    BY <1>7, <1>8, FS_Union
  <2> QED BY <1>1, <1>7, <1>8, <1>9, <2>1
<1> QED BY <1>1, <1>4, <1>10

-----------------------------------------------------------------------------
(* 3. What the invariant says: the chain between the blocks of a cross.    *)

(* Where a producer's counts stand. *)
LEMMA ProducerCounts ==
  ASSUME IInv, NEW b \in Blocks
  PROVE  /\ pwrite[b].count \in Nat /\ KTiles \in Nat /\ Stages \in Nat \ {0}
         /\ pwrite[b] = StateAt(1, pwrite[b].count)
         /\ Granted(b) \in Nat /\ Armed(b) \in Nat /\ Copied(b) \in Nat
         /\ Copied(b) <= Armed(b) /\ Armed(b) <= Granted(b) /\ Armed(b) <= KTiles
<1>1. KTiles \in Nat /\ Stages \in Nat \ {0}
  BY TmaAssumption, StagesAssumption
<1>2. ProducerCursor(b) /\ pwrite[b] \in Cursor /\ ppc[b] \in {"acquire", "copy", "tail", "done"}
  BY DEF IInv, Shape
<1>3. pwrite[b].count \in Nat /\ pwrite[b] = StateAt(1, pwrite[b].count)
  BY <1>2 DEF Cursor, ProducerCursor
<1> QED BY <1>1, <1>2, <1>3 DEF ProducerCursor, Granted, Armed, Copied

(* Where a consumer's counts stand. *)
LEMMA ConsumerCounts ==
  ASSUME IInv, NEW c \in Signalers
  PROVE  /\ cread[c].count \in Nat /\ Released(c) \in Nat /\ Seen(c) \in Nat
         /\ cread[c] = StateAt(0, cread[c].count) /\ crelease[c] = StateAt(0, Released(c))
         /\ Released(c) <= cread[c].count /\ cread[c].count <= Seen(c) /\ Seen(c) <= KTiles
         /\ KTiles \in Nat /\ c \in ClusterSignalers
<1>1. KTiles \in Nat
  BY TmaAssumption
<1>2. /\ ConsumerCursor(c) /\ cread[c] \in Cursor /\ crelease[c] \in Cursor
      /\ cpc[c] \in {"wait", "mma", "release", "tail", "done"}
      /\ c \in ClusterSignalers
  BY DEF IInv, Shape, Signalers
<1>3. cread[c].count \in Nat /\ Released(c) \in Nat
  BY <1>2 DEF Cursor, Released
<1> QED BY <1>1, <1>2, <1>3 DEF ConsumerCursor, Seen

(* The cluster's layout in a state of the invariant. *)
LEMMA Layout ==
  ASSUME IInv
  PROVE  /\ cluster \in Clusters /\ Signalers = ClusterSignalers
         /\ \A c \in Signalers : /\ Block(c) \in Blocks /\ Dst(c) \in Blocks
                                 /\ c[2] \in cluster.wgs
                                 /\ \E x \in Shares(Block(c)) : x[2] = Dst(c)
         /\ \A b, d \in Blocks : \A w \in cluster.wgs : SameRowOrCol(d, b) =>
              \E c \in Signalers : Block(c) = b /\ c[2] = w /\ Dst(c) = d
         /\ \A d \in Blocks : \A x \in Shares(d) :
              /\ x[2] \in Blocks
              /\ \A w \in cluster.wgs :
                   \E c \in Signalers : Block(c) = d /\ c[2] = w /\ Dst(c) = x[2]
         /\ cluster.wgs # {}
<1>1. cluster \in Clusters /\ Signalers = ClusterSignalers
  BY DEF IInv, Shape, Signalers
<1>2. ASSUME NEW c \in Signalers
      PROVE  /\ Block(c) \in Blocks /\ Dst(c) \in Blocks /\ c[2] \in cluster.wgs
             /\ \E x \in Shares(Block(c)) : x[2] = Dst(c)
  BY <1>1, SignalerFacts, ShareFacts
<1>3. ASSUME NEW b \in Blocks, NEW d \in Blocks, NEW w \in cluster.wgs, SameRowOrCol(d, b)
      PROVE  \E c \in Signalers : Block(c) = b /\ c[2] = w /\ Dst(c) = d
  BY <1>1, <1>3, SignalerExists
<1>4. ASSUME NEW d \in Blocks, NEW x \in Shares(d), NEW w \in cluster.wgs
      PROVE  /\ x[2] \in Blocks
             /\ \E c \in Signalers : Block(c) = d /\ c[2] = w /\ Dst(c) = x[2]
  BY <1>3, ShareFacts
<1>5. cluster.wgs # {}
  BY <1>1, LayoutType
<1>6. ASSUME NEW d \in Blocks, NEW x \in Shares(d)
      PROVE  x[2] \in Blocks
  BY ShareFacts
<1> QED BY <1>1, <1>2, <1>3, <1>4, <1>5, <1>6

(* The types of the barriers, and what the invariant says of them. *)
LEMMA BarrierFacts ==
  ASSUME IInv, NEW d \in Blocks, NEW s \in Index
  PROVE  /\ empty[d][s] \in Barrier /\ empty[d][s].phase \in Nat
         /\ full[d][s] \in [count : Nat, pending : Nat, tx : Int, phase : Nat]
         /\ full[d][s].phase \in Nat
         /\ \A x \in Shares(d) : landed[d][s][x] \in Nat
         /\ FullBarrier(d, s) /\ EmptyBarrier(d, s)
  BY DEF IInv, Shape, Barrier

(* The chain, for a thread c, a share x of its block, and slot s. *)
LEMMA ConsumerChain ==
  ASSUME IInv, NEW c \in Signalers, NEW s \in Index
  PROVE  /\ Visits(Released(c), s) \in Nat /\ Visits(Seen(c), s) \in Nat
         /\ empty[Dst(c)][s].phase \in Nat /\ full[Block(c)][s].phase \in Nat
         /\ empty[Dst(c)][s].phase <= Visits(Released(c), s)
         /\ Visits(Released(c), s) <= Visits(Seen(c), s)
         /\ Visits(Seen(c), s) <= full[Block(c)][s].phase
<1>1. Block(c) \in Blocks /\ Dst(c) \in Blocks
  BY Layout
<1>2. Released(c) \in Nat /\ Seen(c) \in Nat /\ Released(c) <= Seen(c)
  BY ConsumerCounts
<1>3. /\ Visits(Released(c), s) \in Nat /\ Visits(Seen(c), s) \in Nat
      /\ Visits(Released(c), s) <= Visits(Seen(c), s)
  BY <1>2, VisitsType, VisitsMonotone
<1>4. empty[Dst(c)][s].phase <= Visits(Released(c), s)
  <2>1. EmptyBarrier(Dst(c), s) /\ c \in SignalersTo(Dst(c))
    BY <1>1, BarrierFacts DEF SignalersTo
  <2>2. Releases(Dst(c), s)[c] = Visits(Released(c), s)
    BY <2>1 DEF Releases
  <2> QED BY <2>1, <2>2 DEF EmptyBarrier, CountedBy
<1>5. Visits(Seen(c), s) <= full[Block(c)][s].phase
  BY <1>1, BarrierFacts DEF FullBarrier
<1> QED BY <1>1, <1>3, <1>4, <1>5, BarrierFacts

(* The chain on the side of a share x that lands in block d. *)
LEMMA ShareChain ==
  ASSUME IInv, NEW d \in Blocks, NEW x \in Shares(d), NEW s \in Index
  PROVE  /\ x[2] \in Blocks /\ full[d][s].phase \in Nat /\ landed[d][s][x] \in Nat
         /\ Visits(Copied(x[2]), s) \in Nat /\ Visits(Granted(x[2]), s) \in Nat
         /\ empty[x[2]][s].phase \in Nat
         /\ full[d][s].phase <= landed[d][s][x]
         /\ landed[d][s][x] <= Visits(Copied(x[2]), s)
         /\ Visits(Copied(x[2]), s) <= Visits(Granted(x[2]), s)
         /\ Visits(Granted(x[2]), s) <= empty[x[2]][s].phase + 1
<1>1. x[2] \in Blocks
  BY Layout
<1>2. /\ Copied(x[2]) \in Nat /\ Granted(x[2]) \in Nat /\ Copied(x[2]) <= Granted(x[2])
  BY <1>1, ProducerCounts
<1>3. /\ Visits(Copied(x[2]), s) \in Nat /\ Visits(Granted(x[2]), s) \in Nat
      /\ Visits(Copied(x[2]), s) <= Visits(Granted(x[2]), s)
  BY <1>2, VisitsType, VisitsMonotone
<1>4. /\ full[d][s].phase \in Nat /\ landed[d][s][x] \in Nat /\ FullBarrier(d, s)
      /\ empty[x[2]][s].phase \in Nat /\ EmptyBarrier(x[2], s)
  BY <1>1, BarrierFacts
<1>5. full[d][s].phase <= landed[d][s][x] /\ landed[d][s][x] <= Visits(Copied(x[2]), s)
  BY <1>4 DEF FullBarrier
<1>6. Visits(Granted(x[2]), s) <= empty[x[2]][s].phase + 1
  BY <1>4 DEF EmptyBarrier
<1> QED BY <1>1, <1>3, <1>4, <1>5, <1>6

(* No block is more than a round ahead of one it shares tiles with. *)
LEMMA AtMostOneRound ==
  ASSUME IInv, NEW c \in Signalers, NEW s \in Index
  PROVE  /\ \A x \in Shares(Block(c)) : x[2] = Dst(c) =>
              /\ full[Block(c)][s].phase <= Visits(Copied(Dst(c)), s)
              /\ landed[Block(c)][s][x] <= Visits(Released(c), s) + 1
         /\ full[Block(c)][s].phase <= Visits(Copied(Dst(c)), s)
         /\ Visits(Copied(Dst(c)), s) \in Nat
         /\ Visits(Copied(Dst(c)), s) <= Visits(Granted(Dst(c)), s)
         /\ Visits(Granted(Dst(c)), s) \in Nat
         /\ Visits(Granted(Dst(c)), s) <= empty[Dst(c)][s].phase + 1
<1>1. Block(c) \in Blocks /\ Dst(c) \in Blocks /\ \E x \in Shares(Block(c)) : x[2] = Dst(c)
  BY Layout
<1>2. ASSUME NEW x \in Shares(Block(c)), x[2] = Dst(c)
      PROVE  /\ full[Block(c)][s].phase <= Visits(Copied(Dst(c)), s)
             /\ landed[Block(c)][s][x] <= Visits(Released(c), s) + 1
             /\ Visits(Copied(Dst(c)), s) \in Nat
             /\ Visits(Copied(Dst(c)), s) <= Visits(Granted(Dst(c)), s)
             /\ Visits(Granted(Dst(c)), s) \in Nat
             /\ Visits(Granted(Dst(c)), s) <= empty[Dst(c)][s].phase + 1
  BY <1>1, <1>2, ShareChain, ConsumerChain
<1> QED BY <1>1, <1>2

-----------------------------------------------------------------------------
(* 4. The invariant implies the safety properties.                         *)

(* A multiply reads the whole of its tile, which nobody overwrites:        *)
(* between the waits and the releases of the thread that signals the block *)
(* of a share, the chain leaves one value.                                 *)
LEMMA WholeTiles == IInv => MmaReadsWholeTiles
<1> SUFFICES ASSUME IInv, NEW b \in Blocks, NEW w \in cluster.wgs, NEW n \in InFlight(b, w),
                    NEW x \in Shares(b)
             PROVE  /\ landed[b][n % Stages][x] = n \div Stages + 1
                    /\ Issued(x[2], n % Stages) = n \div Stages + 1
  BY DEF MmaReadsWholeTiles
<1> DEFINE s == n % Stages
           q == n \div Stages
<1>1. n \in Nat /\ \A c \in Members(b, w) : Released(c) <= n /\ n < cread[c].count
  BY TmaAssumption DEF InFlight, Released
<1>2. s \in Index /\ q \in Nat
  BY <1>1, DivMod
<1>3. PICK c \in Signalers : Block(c) = b /\ c[2] = w /\ Dst(c) = x[2]
  BY Layout
<1>4. Released(c) <= n /\ n < cread[c].count
  BY <1>1, <1>3 DEF Members, Block
<1>5. /\ Released(c) \in Nat /\ Seen(c) \in Nat /\ n < Seen(c)
  BY <1>1, <1>4, ConsumerCounts
<1>6. Visits(Seen(c), s) >= q + 1 /\ Visits(Released(c), s) <= q
  BY <1>1, <1>4, <1>5, VisitsBeyond
<1> HIDE DEF s, q
<1>7. /\ landed[b][s][x] >= q + 1 /\ landed[b][s][x] <= q + 1
      /\ Visits(Copied(x[2]), s) >= q + 1 /\ Visits(Copied(x[2]), s) <= q + 1
      /\ landed[b][s][x] \in Nat /\ Visits(Copied(x[2]), s) \in Nat
  <2>1. /\ full[b][s].phase \in Nat /\ full[b][s].phase >= q + 1
        /\ empty[x[2]][s].phase \in Nat /\ empty[x[2]][s].phase <= q
    BY <1>2, <1>3, <1>6, ConsumerChain
  <2> QED BY <1>2, <2>1, ShareChain
<1>8. Issued(x[2], s) = Visits(Copied(x[2]), s)
  BY DEF Issued, Copied
<1> QED BY <1>2, <1>7, <1>8 DEF s, q

(* When a block has ended, load_tail has seen the releases of all tiles,   *)
(* so the threads that signal it are done, and its own threads have seen   *)
(* all tiles, so the shares are there.                                     *)
LEMMA QuietExit == IInv => ExitedBlocksAreQuiet
<1> SUFFICES ASSUME IInv, NEW d \in Blocks, ppc[d] = "done",
                    \A c \in Signalers : Block(c) = d => cpc[c] = "done"
             PROVE  /\ \A c \in Signalers : Dst(c) = d => cpc[c] = "done"
                    /\ \A s \in Index : \A x \in Shares(d) : landed[d][s][x] = Issued(x[2], s)
  BY DEF ExitedBlocksAreQuiet
<1>1. KTiles \in Nat /\ Stages \in Nat \ {0}
  BY ProducerCounts
<1>2. Granted(d) = KTiles + Stages
  BY DEF IInv, ProducerCursor, Granted
<1>3. ASSUME NEW c \in Signalers, Dst(c) = d PROVE cpc[c] = "done"
  <2>1. Released(c) \in Nat /\ Seen(c) \in Nat
    BY ConsumerCounts
  <2>2. ASSUME NEW s \in Index PROVE Visits(Released(c), s) >= Visits(KTiles, s)
    <3>1. Visits(KTiles + Stages, s) = Visits(KTiles, s) + 1 /\ Visits(KTiles, s) \in Nat
      BY <1>1, VisitsRound, VisitsType
    <3> QED BY <1>2, <1>3, <3>1, ConsumerChain, AtMostOneRound
  <2>3. Released(c) >= KTiles
    BY <1>1, <2>1, <2>2, VisitsOrder
  <2>4. ConsumerCursor(c) /\ cpc[c] \in {"wait", "mma", "release", "tail", "done"}
    BY DEF IInv, Shape
  <2>5. cread[c].count \in Nat
    BY ConsumerCounts
  <2> QED BY <1>1, <2>1, <2>3, <2>4, <2>5 DEF ConsumerCursor
<1>4. ASSUME NEW s \in Index, NEW x \in Shares(d) PROVE landed[d][s][x] = Issued(x[2], s)
  <2>1. PICK c \in Signalers : Block(c) = d /\ Dst(c) = x[2]
    BY Layout
  <2>2. ConsumerCursor(c) /\ cpc[c] = "done"
    BY <2>1 DEF IInv
  <2>3. Seen(c) = KTiles
    BY <2>2 DEF ConsumerCursor, Seen
  <2>4. Visits(KTiles, s) <= full[d][s].phase
    BY <2>1, <2>3, ConsumerChain
  <2>5. Copied(x[2]) \in Nat /\ Copied(x[2]) <= KTiles /\ x[2] \in Blocks
    <3>1. x[2] \in Blocks
      BY Layout
    <3>2. /\ Copied(x[2]) \in Nat /\ Armed(x[2]) \in Nat
          /\ Copied(x[2]) <= Armed(x[2]) /\ Armed(x[2]) <= KTiles
      BY <3>1, ProducerCounts
    <3> QED BY <1>1, <3>1, <3>2
  <2>6. Visits(Copied(x[2]), s) <= Visits(KTiles, s) /\ Visits(KTiles, s) \in Nat
    BY <1>1, <2>5, VisitsMonotone, VisitsType
  <2>7. /\ full[d][s].phase \in Nat /\ landed[d][s][x] \in Nat /\ Visits(Copied(x[2]), s) \in Nat
        /\ full[d][s].phase <= landed[d][s][x] /\ landed[d][s][x] <= Visits(Copied(x[2]), s)
    BY ShareChain
  <2>8. Issued(x[2], s) = Visits(Copied(x[2]), s)
    BY DEF Issued, Copied
  <2> QED BY <2>4, <2>6, <2>7, <2>8
<1> QED BY <1>3, <1>4

(* The types, and the ranges of the byte count and of the arrivals. *)
LEMMA Types == IInv => TypeOK
<1> SUFFICES ASSUME IInv PROVE TypeOK
  OBVIOUS
<1>1. ASSUME NEW b \in Blocks, NEW s \in Index
      PROVE  /\ full[b][s] \in [count : {1}, pending : {0, 1}, phase : Nat,
                                tx : -TransactionUnits .. TransactionUnits]
             /\ empty[b][s] \in Barrier /\ empty[b][s].pending \in 1 .. empty[b][s].count
             /\ landed[b][s] \in [Shares(b) -> Nat]
  <2>1. FullBarrier(b, s) /\ EmptyBarrier(b, s) /\ empty[b][s] \in Barrier
        /\ full[b][s] \in [count : Nat, pending : Nat, tx : Int, phase : Nat]
    BY BarrierFacts
  <2>2. IsFiniteSet(Shares(b)) /\ Cardinality(Shares(b)) = TransactionUnits
        /\ TransactionUnits \in Nat
    BY SharesCount, LayoutType DEF IInv, Shape
  <2>3. Cardinality(Early(b, s)) \in 0 .. TransactionUnits
    <3>1. Early(b, s) \in SUBSET Shares(b)
      BY DEF Early
    <3>2. IsFiniteSet(Early(b, s)) /\ Cardinality(Early(b, s)) <= Cardinality(Shares(b))
      BY <2>2, <3>1, FS_Subset
    <3>3. Cardinality(Early(b, s)) \in Nat
      BY <3>2, FS_CardinalityType
    <3> QED BY <2>2, <3>2, <3>3
  <2>4. /\ full[b][s].count = 1 /\ full[b][s].pending \in {0, 1} /\ full[b][s].phase \in Nat
        /\ full[b][s].tx \in -TransactionUnits .. TransactionUnits
    BY <2>1, <2>2, <2>3 DEF FullBarrier
  <2>5. full[b][s] \in [count : {1}, pending : {0, 1}, phase : Nat,
                        tx : -TransactionUnits .. TransactionUnits]
    BY <2>1, <2>4
  <2>6. empty[b][s].pending \in 1 .. empty[b][s].count
    <3> DEFINE S == {c \in SignalersTo(b) : Releases(b, s)[c] = empty[b][s].phase}
    <3>1. IsFiniteSet(SignalersTo(b))
      BY SignalersToCount, Layout DEF SignalersTo
    <3>2. Cardinality(S) <= Cardinality(SignalersTo(b))
      BY <3>1, FS_Subset
    <3>3. /\ empty[b][s].count = Cardinality(SignalersTo(b))
          /\ empty[b][s].pending = Cardinality(S) /\ empty[b][s].pending > 0
      BY <2>1 DEF EmptyBarrier, CountedBy
    <3>4. empty[b][s].pending \in Nat /\ empty[b][s].count \in Nat
      BY <2>1 DEF Barrier
    <3> HIDE DEF S
    <3> QED BY <3>2, <3>3, <3>4
  <2> QED BY <2>1, <2>5, <2>6 DEF IInv, Shape
<1>2. /\ ppc \in [Blocks -> {"acquire", "copy", "tail", "done"}]
      /\ pwrite \in [Blocks -> Cursor]
      /\ cpc \in [Signalers -> {"wait", "mma", "release", "tail", "done"}]
      /\ cread \in [Signalers -> Cursor] /\ crelease \in [Signalers -> Cursor]
  BY DEF IInv, Shape
<1> QED BY <1>1, <1>2 DEF TypeOK

-----------------------------------------------------------------------------
(* 5. What a step leaves alone.                                            *)

(* The layout never changes. *)
LEMMA LayoutFrame ==
  ASSUME cluster' = cluster
  PROVE  /\ Blocks' = Blocks /\ ClusterSignalers' = ClusterSignalers
         /\ TransactionUnits' = TransactionUnits
         /\ \A d : (Shares(d))' = Shares(d)
<1>1. Blocks' = Blocks
  BY DEF Blocks, ClusterSize
<1>2. ClusterSignalers' = ClusterSignalers
  BY <1>1 DEF ClusterSignalers, Signals, SameRowOrCol, SameM, SameN, ClusterSize
<1>3. \A d : (Shares(d))' = Shares(d)
  BY <1>1 DEF Shares, MulticastA, MulticastB, SameM, SameN
<1> QED BY <1>1, <1>2, <1>3 DEF TransactionUnits

(* What does not change for a producer that takes no step. *)
LEMMA ProducerFrame ==
  ASSUME NEW b, ppc'[b] = ppc[b], pwrite'[b] = pwrite[b]
  PROVE  /\ (Granted(b))' = Granted(b) /\ (Armed(b))' = Armed(b) /\ (Copied(b))' = Copied(b)
         /\ ProducerCursor(b) => (ProducerCursor(b))'
  BY DEF Granted, Armed, Copied, ProducerCursor

(* What does not change for a consumer that takes no step. *)
LEMMA ConsumerFrame ==
  ASSUME NEW c, cpc'[c] = cpc[c], cread'[c] = cread[c], crelease'[c] = crelease[c]
  PROVE  /\ (Seen(c))' = Seen(c) /\ (Released(c))' = Released(c)
         /\ ConsumerCursor(c) => (ConsumerCursor(c))'
  BY DEF Seen, Released, ConsumerCursor

(* A full barrier that nobody arrives at. *)
LEMMA FullFrame ==
  ASSUME cluster' = cluster, Signalers' = Signalers, NEW d, NEW s, FullBarrier(d, s),
         full'[d][s] = full[d][s], landed'[d][s] = landed[d][s],
         Visits((Armed(d))', s) = Visits(Armed(d), s),
         \A x \in Shares(d) : landed[d][s][x] <= Visits((Copied(x[2]))', s),
         \A c \in Signalers : Block(c) = d => Visits((Seen(c))', s) <= full[d][s].phase
  PROVE  (FullBarrier(d, s))'
<1>1. (Shares(d))' = Shares(d) /\ TransactionUnits' = TransactionUnits
  BY LayoutFrame
<1>2. (Early(d, s))' = Early(d, s)
  BY <1>1 DEF Early
<1> QED BY <1>1, <1>2 DEF FullBarrier

(* An empty barrier that nobody arrives at. *)
LEMMA EmptyFrame ==
  ASSUME Signalers' = Signalers, NEW d, NEW s, EmptyBarrier(d, s),
         empty'[d][s] = empty[d][s],
         \A c \in Signalers : Dst(c) = d => Visits((Released(c))', s) = Visits(Released(c), s),
         Visits((Granted(d))', s) <= empty[d][s].phase + 1
  PROVE  (EmptyBarrier(d, s))'
<1>1. (SignalersTo(d))' = SignalersTo(d)
  BY DEF SignalersTo
<1>2. (Releases(d, s))' = Releases(d, s)
  BY <1>1 DEF Releases, SignalersTo
<1> QED BY <1>1, <1>2 DEF EmptyBarrier, CountedBy

-----------------------------------------------------------------------------
(* 6. The invariant holds at the start, and every step preserves it.       *)

(* The invariant holds when the kernel starts. *)
LEMMA InitInv == Init => IInv
<1> SUFFICES ASSUME Init PROVE IInv
  OBVIOUS
<1>1. /\ cluster \in Clusters /\ Signalers = ClusterSignalers
      /\ KTiles \in Nat \ {0} /\ Stages \in Nat \ {0}
  BY TmaAssumption, StagesAssumption DEF Init, Signalers
<1>2. /\ DefaultState \in Cursor /\ ProducerStartState \in Cursor
      /\ DefaultState = StateAt(0, 0) /\ ProducerStartState = StateAt(1, 0)
      /\ DefaultState.count = 0 /\ ProducerStartState.count = 0
  BY StartStates DEF DefaultState, ProducerStartState
<1>3. ConsumerArrivals(Cardinality(cluster.wgs)) \in Nat
  <2>1. Cardinality(cluster.wgs) \in Nat /\ cluster.m + cluster.n - 1 \in Nat
    BY <1>1, LayoutType, FS_CardinalityType
  <2> QED BY <2>1 DEF ConsumerArrivals
<1>4. Shape
  <2>1. full \in [Blocks -> [Index -> [count : Nat, pending : Nat, tx : Int, phase : Nat]]]
    BY DEF Init, TxInit
  <2>2. empty \in [Blocks -> [Index -> Barrier]]
    BY <1>3 DEF Init, BarrierInit, Barrier
  <2>3. DOMAIN landed = Blocks /\ \A d \in Blocks : landed[d] \in [Index -> [Shares(d) -> Nat]]
    BY DEF Init
  <2>4. /\ ppc \in [Blocks -> {"acquire", "copy", "tail", "done"}]
        /\ pwrite \in [Blocks -> Cursor]
    BY <1>2 DEF Init
  <2>5. /\ DOMAIN cpc = ClusterSignalers
        /\ cpc \in [Signalers -> {"wait", "mma", "release", "tail", "done"}]
        /\ cread \in [Signalers -> Cursor] /\ crelease \in [Signalers -> Cursor]
    BY <1>1, <1>2 DEF Init
  <2> QED BY <1>1, <2>1, <2>2, <2>3, <2>4, <2>5 DEF Shape
<1>5. ASSUME NEW b \in Blocks
      PROVE  ProducerCursor(b) /\ Granted(b) = 0 /\ Armed(b) = 0 /\ Copied(b) = 0
  <2>1. ppc[b] = "acquire" /\ pwrite[b] = ProducerStartState
    BY DEF Init
  <2> QED BY <1>1, <1>2, <2>1 DEF ProducerCursor, Granted, Armed, Copied
<1>6. ASSUME NEW c \in Signalers
      PROVE  ConsumerCursor(c) /\ Seen(c) = 0 /\ Released(c) = 0
  <2>1. cpc[c] = "wait" /\ cread[c] = DefaultState /\ crelease[c] = DefaultState
    BY <1>1 DEF Init
  <2> QED BY <1>1, <1>2, <2>1 DEF ConsumerCursor, Seen, Released
<1>7. ASSUME NEW d \in Blocks, NEW s \in Index PROVE FullBarrier(d, s)
  <2>1. Visits(0, s) = 0
    BY VisitsZero
  <2>2. /\ full[d][s] = [count |-> 1, pending |-> 1, tx |-> 0, phase |-> 0]
        /\ \A x \in Shares(d) : landed[d][s][x] = 0
    BY DEF Init, TxInit
  <2>3. Early(d, s) = {}
    BY <2>2 DEF Early
  <2>4. Cardinality(Early(d, s)) = 0
    BY <2>3, FS_EmptySet
  <2>5. \A x \in Shares(d) : x[2] \in Blocks
    BY ShareFacts
  <2> QED BY <1>5, <1>6, <2>1, <2>2, <2>4, <2>5 DEF FullBarrier
<1>8. ASSUME NEW d \in Blocks, NEW s \in Index PROVE EmptyBarrier(d, s)
  <2>1. Visits(0, s) = 0
    BY VisitsZero
  <2>2. /\ IsFiniteSet(SignalersTo(d)) /\ SignalersTo(d) # {}
        /\ Cardinality(SignalersTo(d)) = ConsumerArrivals(Cardinality(cluster.wgs))
    BY <1>1, SignalersToCount DEF SignalersTo
  <2>3. empty[d][s] = BarrierInit(Cardinality(SignalersTo(d)))
    BY <2>2 DEF Init
  <2>4. \A c \in SignalersTo(d) : Releases(d, s)[c] = 0
    BY <1>6, <2>1 DEF Releases, SignalersTo
  <2>5. CountedBy(empty[d][s], SignalersTo(d), Releases(d, s))
    BY <2>2, <2>3, <2>4, CountedInit
  <2>6. empty[d][s].phase = 0
    BY <2>3 DEF BarrierInit
  <2> QED BY <1>5, <2>1, <2>5, <2>6 DEF EmptyBarrier
<1> QED BY <1>4, <1>5, <1>6, <1>7, <1>8 DEF IInv

(* A producer goes by the parity of an empty barrier only when all blocks  *)
(* that it copies to have released the slot's tile of a round ago; then    *)
(* its own full barrier is in the round that it is about to arm.           *)
LEMMA ProducerWaitExact ==
  ASSUME IInv, NEW b \in Blocks, ppc[b] \in {"acquire", "tail"},
         PhaseDone(empty[b][pwrite[b].index], pwrite[b].phase)
  PROVE  /\ pwrite[b].index = pwrite[b].count % Stages
         /\ pwrite[b].index \in Index
         /\ pwrite[b].count \div Stages \in Nat
         /\ Visits(pwrite[b].count, pwrite[b].index) = pwrite[b].count \div Stages
         /\ empty[b][pwrite[b].index].phase = pwrite[b].count \div Stages
         /\ full[b][pwrite[b].index].phase = pwrite[b].count \div Stages
<1> DEFINE n == pwrite[b].count
           s == n % Stages
           q == n \div Stages
           e == empty[b][s].phase
<1>1. /\ n \in Nat /\ pwrite[b] = StateAt(1, n) /\ Granted(b) = n
      /\ Copied(b) <= n /\ Copied(b) \in Nat
  BY ProducerCounts DEF Granted
<1>2. pwrite[b].index = s /\ pwrite[b].phase = (1 + q) % 2
  BY <1>1 DEF StateAt
<1>3. s \in Index /\ q \in Nat /\ Visits(n, s) = q
  BY <1>1, DivMod, VisitsAtCursor
<1>4. PICK c \in Signalers : Block(c) = b /\ Dst(c) = b
  BY Layout, SameReflexive
<1>5. Visits(Copied(b), s) <= q /\ Visits(Copied(b), s) \in Nat
  BY <1>1, <1>3, VisitsMonotone, VisitsType
<1>6. e \in Nat /\ full[b][s].phase \in Nat /\ e <= full[b][s].phase
      /\ full[b][s].phase <= q /\ q <= e + 1
  <2> HIDE DEF n, s, q
  <2> QED BY <1>1, <1>3, <1>4, <1>5, ConsumerChain, AtMostOneRound
<1>7. e % 2 # (1 + q) % 2
  BY <1>2 DEF PhaseDone
<1>8. e = q
  <2> HIDE DEF n, s, q, e
  <2>1. e = q \/ q = e + 1
    BY <1>3, <1>6
  <2>2. q = e + 1 => (1 + q) % 2 = e % 2
    BY <1>6
  <2> QED BY <1>7, <2>1, <2>2
<1>9. full[b][s].phase = q
  <2> HIDE DEF n, s, q
  <2> QED BY <1>3, <1>6, <1>8
<1> QED BY <1>2, <1>3, <1>8, <1>9

(* A full barrier at which an arrival or a share comes in. *)
LEMMA FullStep ==
  ASSUME cluster \in Clusters, cluster' = cluster, Signalers' = Signalers,
         NEW d \in Blocks, NEW s,
         NEW f \in Nat, NEW armed \in {f, f + 1}, Visits((Armed(d))', s) = armed,
         \A x \in Shares(d) : /\ landed'[d][s][x] \in {f, f + 1}
                              /\ landed'[d][s][x] <= Visits((Copied(x[2]))', s),
         \A c \in Signalers : Block(c) = d =>
           Visits((Seen(c))', s) \in Nat /\ Visits((Seen(c))', s) <= f,
         full'[d][s] = Settle([count |-> 1, pending |-> IF armed = f THEN 1 ELSE 0,
                               tx |-> (IF armed = f THEN 0 ELSE TransactionUnits)
                                        - Cardinality({x \in Shares(d) : landed'[d][s][x] = f + 1}),
                               phase |-> f])
  PROVE  (FullBarrier(d, s))'
<1> DEFINE E == {x \in Shares(d) : landed'[d][s][x] = f + 1}
           tx == (IF armed = f THEN 0 ELSE TransactionUnits) - Cardinality(E)
           settles == armed # f /\ tx = 0
<1>1. (Shares(d))' = Shares(d) /\ TransactionUnits' = TransactionUnits
  BY LayoutFrame
<1>2. /\ IsFiniteSet(Shares(d)) /\ Cardinality(Shares(d)) = TransactionUnits
      /\ TransactionUnits \in Nat
  BY SharesCount, LayoutType
<1>3. IsFiniteSet(E) /\ E \subseteq Shares(d) /\ Cardinality(E) \in Nat
      /\ (Cardinality(E) = Cardinality(Shares(d)) => E = Shares(d))
  <2>1. E \in SUBSET Shares(d)
    OBVIOUS
  <2> HIDE DEF E
  <2> QED BY <1>2, <2>1, FS_Subset, FS_CardinalityType
<1>4. CASE settles
  <2>1. E = Shares(d)
    <3>1. Cardinality(E) = TransactionUnits
      <4> HIDE DEF E
      <4> QED BY <1>2, <1>3, <1>4
    <3> QED BY <1>2, <1>3, <3>1
  <2>2. \A x \in Shares(d) : landed'[d][s][x] = f + 1
    BY <2>1
  <2>3. full'[d][s] = [count |-> 1, pending |-> 1, tx |-> 0, phase |-> f + 1]
    BY <1>4 DEF Settle
  <2>4. (Early(d, s))' = {}
    <3>1. full'[d][s].phase = f + 1
      BY <2>3
    <3>2. (Early(d, s))' = {x \in Shares(d) : landed'[d][s][x] = (f + 1) + 1}
      BY <1>1, <3>1 DEF Early
    <3>3. \A x \in Shares(d) : landed'[d][s][x] # (f + 1) + 1
      BY <2>2
    <3> QED BY <3>2, <3>3
  <2>5. Cardinality((Early(d, s))') = 0
    BY <2>4, FS_EmptySet
  <2> DEFINE g == f + 1
  <2>6. Visits((Armed(d))', s) = g /\ g \in Nat
    BY <1>4
  <2>7. /\ full'[d][s].count = 1 /\ full'[d][s].phase = g
        /\ full'[d][s].pending = 1 /\ full'[d][s].tx = 0
    BY <2>3
  <2>8. \A x \in Shares(d) : /\ landed'[d][s][x] \in {g, g + 1}
                             /\ landed'[d][s][x] <= Visits((Copied(x[2]))', s)
    BY <2>2
  <2>9. \A c \in Signalers : Block(c) = d => Visits((Seen(c))', s) <= g
    OBVIOUS
  <2> HIDE DEF E, tx, settles, g
  <2>10. full'[d][s].tx = 0 - Cardinality((Early(d, s))')
    BY <2>5, <2>7
  <2>11. g # g + 1
    BY <2>6
  <2>12. /\ full'[d][s].count = 1
         /\ Visits((Armed(d))', s) \in {full'[d][s].phase, full'[d][s].phase + 1}
    BY <2>6, <2>7
  <2>13. full'[d][s].pending = IF Visits((Armed(d))', s) = full'[d][s].phase THEN 1 ELSE 0
    BY <2>6, <2>7
  <2>14. full'[d][s].tx
           = (IF Visits((Armed(d))', s) = full'[d][s].phase THEN 0 ELSE TransactionUnits')
             - Cardinality((Early(d, s))')
    BY <2>6, <2>7, <2>10
  <2>15. ~(full'[d][s].pending = 0 /\ full'[d][s].tx = 0)
    BY <2>7
  <2>16. \A x \in (Shares(d))' :
           /\ landed'[d][s][x] \in {full'[d][s].phase, full'[d][s].phase + 1}
           /\ landed'[d][s][x] <= Visits((Copied(x[2]))', s)
    BY <1>1, <2>7, <2>8
  <2>17. \A c \in Signalers' : Block(c) = d => Visits((Seen(c))', s) <= full'[d][s].phase
    BY <2>7, <2>9
  <2> QED BY <2>12, <2>13, <2>14, <2>15, <2>16, <2>17 DEF FullBarrier
<1>5. CASE ~settles
  <2>1. full'[d][s] = [count |-> 1, pending |-> IF armed = f THEN 1 ELSE 0, tx |-> tx, phase |-> f]
    BY <1>5 DEF Settle
  <2>2. (Early(d, s))' = E
    <3>1. full'[d][s].phase = f
      BY <2>1
    <3> QED BY <1>1, <3>1 DEF Early
  <2>3. Cardinality((Early(d, s))') = Cardinality(E)
    BY <2>2
  <2>4. ~(armed # f /\ tx = 0)
    BY <1>5
  <2>5. /\ full'[d][s].count = 1 /\ full'[d][s].phase = f
        /\ full'[d][s].pending = (IF armed = f THEN 1 ELSE 0)
        /\ full'[d][s].tx = (IF armed = f THEN 0 ELSE TransactionUnits) - Cardinality(E)
        /\ ~(full'[d][s].pending = 0 /\ full'[d][s].tx = 0)
    BY <2>1, <2>4
  <2> HIDE DEF E, tx, settles
  <2> QED BY <1>1, <2>3, <2>5 DEF FullBarrier
<1> QED BY <1>4, <1>5

(* A transaction barrier stays one. *)
LEMMA SettleType ==
  ASSUME NEW b \in [count : Nat, pending : Nat, tx : Int, phase : Nat]
  PROVE  Settle(b) \in [count : Nat, pending : Nat, tx : Int, phase : Nat]
<1>1. b.count \in Nat /\ b.phase + 1 \in Nat
  OBVIOUS
<1>2. CASE b.pending = 0 /\ b.tx = 0
  <2>1. Settle(b) = [b EXCEPT !.pending = b.count, !.phase = b.phase + 1]
    BY <1>2 DEF Settle
  <2> QED BY <1>1, <2>1
<1>3. CASE ~(b.pending = 0 /\ b.tx = 0)
  BY <1>3 DEF Settle
<1> QED BY <1>2, <1>3

(* The leader arms its barrier in the round that it was let into. *)
LEMMA AcquireInv ==
  ASSUME IInv, NEW b \in Blocks, Acquire(b)
  PROVE  IInv'
<1> DEFINE n == pwrite[b].count
           s == pwrite[b].index
           q == n \div Stages
<1>1. /\ ppc[b] = "acquire" /\ PhaseDone(empty[b][s], pwrite[b].phase)
      /\ full' = [full EXCEPT ![b][s] = ArriveAndExpectTx(@, TransactionUnits)]
      /\ ppc' = [ppc EXCEPT ![b] = "copy"]
      /\ cluster' = cluster /\ empty' = empty /\ landed' = landed /\ pwrite' = pwrite
      /\ cpc' = cpc /\ cread' = cread /\ crelease' = crelease
  BY DEF Acquire, consumers
<1>2. /\ s = n % Stages /\ s \in Index /\ q \in Nat /\ Visits(n, s) = q
      /\ empty[b][s].phase = q /\ full[b][s].phase = q
  BY <1>1, ProducerWaitExact
<1>3. /\ n \in Nat /\ n < KTiles /\ KTiles \in Nat
      /\ Granted(b) = n /\ Armed(b) = n /\ Copied(b) = n
      /\ (Granted(b))' = n + 1 /\ (Armed(b))' = n + 1 /\ (Copied(b))' = n
  <2>1. n \in Nat /\ KTiles \in Nat
    BY ProducerCounts
  <2>2. n < KTiles
    BY <1>1 DEF IInv, ProducerCursor
  <2>3. ppc'[b] = "copy"
    BY <1>1 DEF IInv, Shape
  <2> HIDE DEF s, q
  <2> QED BY <1>1, <2>1, <2>2, <2>3 DEF Granted, Armed, Copied
<1> HIDE DEF n, s, q
<1>4. /\ Signalers' = Signalers /\ Blocks' = Blocks /\ cluster \in Clusters
      /\ ClusterSignalers' = ClusterSignalers /\ \A d : (Shares(d))' = Shares(d)
      /\ TransactionUnits' = TransactionUnits
  BY <1>1, LayoutFrame DEF Signalers, IInv, Shape
<1>5. \A d \in Blocks : d # b =>
        /\ (Granted(d))' = Granted(d) /\ (Armed(d))' = Armed(d) /\ (Copied(d))' = Copied(d)
        /\ (ProducerCursor(d))'
  <2>1. \A d \in Blocks : d # b => ppc'[d] = ppc[d] /\ pwrite'[d] = pwrite[d]
    BY <1>1 DEF IInv, Shape
  <2> QED BY <2>1, ProducerFrame DEF IInv
<1>6. \A d \in Blocks : (Copied(d))' = Copied(d)
  BY <1>3, <1>5
<1>7. \A c \in Signalers :
        (Seen(c))' = Seen(c) /\ (Released(c))' = Released(c) /\ (ConsumerCursor(c))'
  BY <1>1, ConsumerFrame DEF IInv
<1>8. full[b][s] \in [count : Nat, pending : Nat, tx : Int, phase : Nat] /\ FullBarrier(b, s)
  BY <1>2, BarrierFacts
<1>9. /\ \A d \in Blocks, r \in Index : <<d, r>> # <<b, s>> => full'[d][r] = full[d][r]
      /\ full'[b][s] = ArriveAndExpectTx(full[b][s], TransactionUnits)
  BY <1>1, <1>2 DEF IInv, Shape
<1>10. TransactionUnits \in Nat
  BY <1>4, LayoutType
<1>11. Shape'
  <2>1. ArriveAndExpectTx(full[b][s], TransactionUnits)
          \in [count : Nat, pending : Nat, tx : Int, phase : Nat]
    <3>1. full[b][s].pending = 1
      BY <1>2, <1>3, <1>8 DEF FullBarrier
    <3> DEFINE a == [count |-> full[b][s].count, pending |-> full[b][s].pending - 1,
                     tx |-> full[b][s].tx + TransactionUnits, phase |-> full[b][s].phase]
    <3>2. ArriveAndExpectTx(full[b][s], TransactionUnits) = Settle(a)
      BY <1>8, <1>10, TxForms
    <3>3. a \in [count : Nat, pending : Nat, tx : Int, phase : Nat]
      BY <1>8, <1>10, <3>1
    <3> HIDE DEF a
    <3> QED BY <3>2, <3>3, SettleType
  <2>2. full' \in [Blocks -> [Index -> [count : Nat, pending : Nat, tx : Int, phase : Nat]]]
    BY <1>1, <1>2, <2>1 DEF IInv, Shape
  <2>3. ppc' \in [Blocks -> {"acquire", "copy", "tail", "done"}]
    BY <1>1 DEF IInv, Shape
  <2> QED BY <1>1, <1>4, <2>2, <2>3 DEF IInv, Shape
<1>12. (ProducerCursor(b))'
  <2>1. ppc'[b] = "copy" /\ pwrite'[b] = pwrite[b]
    BY <1>1 DEF IInv, Shape
  <2>2. pwrite[b] = StateAt(1, pwrite[b].count)
    BY ProducerCounts
  <2> QED BY <1>3, <2>1, <2>2 DEF ProducerCursor, n
<1>13. ASSUME NEW d \in Blocks, NEW r \in Index PROVE (FullBarrier(d, r))'
  <2>1. CASE <<d, r>> = <<b, s>>
    <3>1. d = b /\ r = s
      BY <2>1
    <3>2. Visits((Armed(d))', r) = q + 1
      BY <1>2, <1>3, <3>1, VisitsStep
    <3>3. \A x \in Shares(d) : /\ landed'[d][r][x] \in {q, q + 1}
                               /\ landed'[d][r][x] <= Visits((Copied(x[2]))', r)
      <4>1. \A x \in Shares(d) : x[2] \in Blocks
        BY Layout
      <4> QED BY <1>1, <1>2, <1>6, <1>8, <3>1, <4>1 DEF FullBarrier
    <3>4. \A c \in Signalers : Block(c) = d =>
            Visits((Seen(c))', r) \in Nat /\ Visits((Seen(c))', r) <= q
      BY <1>2, <1>7, <3>1, ConsumerChain
    <3>5. full'[d][r] =
            Settle([count |-> 1, pending |-> 0,
                    tx |-> TransactionUnits
                             - Cardinality({x \in Shares(d) : landed'[d][r][x] = q + 1}),
                    phase |-> q])
      <4>1. {x \in Shares(d) : landed'[d][r][x] = q + 1} = Early(d, r)
        BY <1>1, <1>2, <3>1 DEF Early
      <4>2. /\ full[d][r].count = 1 /\ full[d][r].pending = 1 /\ full[d][r].phase = q
            /\ full[d][r].tx = 0 - Cardinality(Early(d, r))
        BY <1>2, <1>3, <1>8, <3>1 DEF FullBarrier
      <4>3. Cardinality(Early(d, r)) \in Nat
        BY <1>4, SharesCount, FS_Subset, FS_CardinalityType DEF Early
      <4>4. /\ full[d][r].pending - 1 = 0
            /\ full[d][r].tx + TransactionUnits = TransactionUnits - Cardinality(Early(d, r))
        BY <1>10, <4>2, <4>3
      <4>5. /\ full[d][r] \in [count : Nat, pending : Nat, tx : Int, phase : Nat]
            /\ full'[d][r] = ArriveAndExpectTx(full[d][r], TransactionUnits)
        BY <1>8, <1>9, <3>1
      <4>6. full'[d][r] =
              Settle([count |-> full[d][r].count, pending |-> full[d][r].pending - 1,
                      tx |-> full[d][r].tx + TransactionUnits, phase |-> full[d][r].phase])
        BY <1>10, <4>5, TxForms
      <4> QED BY <4>1, <4>2, <4>4, <4>6
    <3>6. q + 1 # q /\ q + 1 \in {q, q + 1}
      BY <1>2
    <3>7. full'[d][r] =
            Settle([count |-> 1, pending |-> IF q + 1 = q THEN 1 ELSE 0,
                    tx |-> (IF q + 1 = q THEN 0 ELSE TransactionUnits)
                             - Cardinality({x \in Shares(d) : landed'[d][r][x] = q + 1}),
                    phase |-> q])
      BY <3>5, <3>6
    <3> QED BY <1>1, <1>2, <1>4, <3>2, <3>3, <3>4, <3>6, <3>7, FullStep
  <2>2. CASE <<d, r>> # <<b, s>>
    <3>1. full'[d][r] = full[d][r] /\ landed'[d][r] = landed[d][r] /\ FullBarrier(d, r)
      BY <1>1, <1>9, <2>2, BarrierFacts
    <3>2. Visits((Armed(d))', r) = Visits(Armed(d), r)
      BY <1>2, <1>3, <1>5, <2>2, VisitsStep
    <3>3. \A x \in Shares(d) : landed[d][r][x] <= Visits((Copied(x[2]))', r)
      <4>1. \A x \in Shares(d) : x[2] \in Blocks
        BY Layout
      <4> QED BY <1>6, <3>1, <4>1 DEF FullBarrier
    <3>4. \A c \in Signalers : Block(c) = d => Visits((Seen(c))', r) <= full[d][r].phase
      BY <1>7, <3>1 DEF FullBarrier
    <3> QED BY <1>1, <1>4, <3>1, <3>2, <3>3, <3>4, FullFrame
  <2> QED BY <2>1, <2>2
<1>14. ASSUME NEW d \in Blocks, NEW r \in Index PROVE (EmptyBarrier(d, r))'
  <2>1. EmptyBarrier(d, r) /\ empty'[d][r] = empty[d][r] /\ empty[d][r].phase \in Nat
    BY <1>1, BarrierFacts
  <2>2. Visits((Granted(d))', r) <= empty[d][r].phase + 1
    <3>1. CASE d = b /\ r = s
      BY <1>2, <1>3, <3>1, VisitsStep
    <3>2. CASE ~(d = b /\ r = s)
      <4>1. Visits((Granted(d))', r) = Visits(Granted(d), r)
        BY <1>2, <1>3, <1>5, <3>2, VisitsStep
      <4> QED BY <2>1, <4>1 DEF EmptyBarrier
    <3> QED BY <3>1, <3>2
  <2> QED BY <1>4, <1>7, <2>1, <2>2, EmptyFrame
<1> QED BY <1>4, <1>5, <1>7, <1>11, <1>12, <1>13, <1>14 DEF IInv

(* One step of a cursor. *)
LEMMA NextCursor ==
  ASSUME NEW p \in {0, 1}, NEW n \in Nat, NEW s, s = StateAt(p, n)
  PROVE  /\ Inc(s) = StateAt(p, n + 1) /\ StateAt(p, n + 1) \in Cursor
         /\ StateAt(p, n + 1).count = n + 1
         /\ s.index = n % Stages /\ s.index \in Index
<1>1. StateAt(p, n + 1).count = n + 1 /\ s.index = n % Stages
  BY DEF StateAt
<1>2. n % Stages \in Index
  BY DivMod
<1>3. Inc(s) = StateAt(p, n + 1) /\ StateAt(p, n + 1) \in Cursor
  BY IncStateAt, StateAtType
<1> QED BY <1>1, <1>2, <1>3

(* A producer that moves on without touching a barrier. *)
LEMMA ProducerMoves ==
  ASSUME IInv, NEW b \in Blocks,
         cluster' = cluster, full' = full, empty' = empty, landed' = landed,
         cpc' = cpc, cread' = cread, crelease' = crelease,
         ppc' \in [Blocks -> {"acquire", "copy", "tail", "done"}],
         pwrite' \in [Blocks -> Cursor],
         \A d \in Blocks : d # b => ppc'[d] = ppc[d] /\ pwrite'[d] = pwrite[d],
         (ProducerCursor(b))', (Armed(b))' = Armed(b),
         (Copied(b))' \in Nat, Copied(b) <= (Copied(b))',
         \A r \in Index : Visits((Granted(b))', r) <= empty[b][r].phase + 1
  PROVE  IInv'
<1>1. /\ Signalers' = Signalers /\ Blocks' = Blocks
      /\ ClusterSignalers' = ClusterSignalers /\ \A d : (Shares(d))' = Shares(d)
  BY LayoutFrame DEF Signalers
<1>2. \A d \in Blocks : d # b =>
        /\ (Granted(d))' = Granted(d) /\ (Armed(d))' = Armed(d) /\ (Copied(d))' = Copied(d)
        /\ (ProducerCursor(d))'
  BY ProducerFrame DEF IInv
<1>3. \A c \in Signalers :
        (Seen(c))' = Seen(c) /\ (Released(c))' = Released(c) /\ (ConsumerCursor(c))'
  BY ConsumerFrame DEF IInv
<1>4. Shape'
  BY <1>1 DEF IInv, Shape
<1>5. \A d \in Blocks, r \in Index : /\ Visits(Copied(d), r) <= Visits((Copied(d))', r)
                                     /\ Visits(Copied(d), r) \in Nat
                                     /\ Visits((Copied(d))', r) \in Nat
  <2> SUFFICES ASSUME NEW d \in Blocks, NEW r \in Index
               PROVE  /\ Visits(Copied(d), r) <= Visits((Copied(d))', r)
                      /\ Visits(Copied(d), r) \in Nat /\ Visits((Copied(d))', r) \in Nat
    OBVIOUS
  <2>1. Copied(d) \in Nat
    BY ProducerCounts
  <2>2. (Copied(d))' \in Nat /\ Copied(d) <= (Copied(d))'
    BY <1>2, <2>1
  <2> QED BY <2>1, <2>2, VisitsMonotone, VisitsType
<1>6. ASSUME NEW d \in Blocks, NEW r \in Index PROVE (FullBarrier(d, r))'
  <2>1. full'[d][r] = full[d][r] /\ landed'[d][r] = landed[d][r] /\ FullBarrier(d, r)
    BY BarrierFacts
  <2>2. Visits((Armed(d))', r) = Visits(Armed(d), r)
    BY <1>2
  <2>3. ASSUME NEW x \in Shares(d) PROVE landed[d][r][x] <= Visits((Copied(x[2]))', r)
    <3>1. /\ x[2] \in Blocks /\ landed[d][r][x] \in Nat
          /\ landed[d][r][x] <= Visits(Copied(x[2]), r)
      BY ShareChain
    <3> QED BY <1>5, <3>1
  <2>4. \A c \in Signalers : Block(c) = d => Visits((Seen(c))', r) <= full[d][r].phase
    BY <1>3, <2>1 DEF FullBarrier
  <2> QED BY <1>1, <2>1, <2>2, <2>3, <2>4, FullFrame
<1>7. ASSUME NEW d \in Blocks, NEW r \in Index PROVE (EmptyBarrier(d, r))'
  <2>1. EmptyBarrier(d, r) /\ empty'[d][r] = empty[d][r]
    BY BarrierFacts
  <2>2. Visits((Granted(d))', r) <= empty[d][r].phase + 1
    BY <1>2, <2>1 DEF EmptyBarrier
  <2> QED BY <1>1, <1>3, <2>1, <2>2, EmptyFrame
<1> QED BY <1>1, <1>2, <1>3, <1>4, <1>6, <1>7 DEF IInv

(* A copy that is issued: the slot was granted before. *)
LEMMA CopyInv ==
  ASSUME IInv, NEW b \in Blocks, Copy(b)
  PROVE  IInv'
<1> DEFINE n == pwrite[b].count
<1>1. /\ ppc[b] = "copy"
      /\ pwrite' = [pwrite EXCEPT ![b] = Inc(@)]
      /\ ppc' = [ppc EXCEPT ![b] = IF n + 1 < KTiles THEN "acquire" ELSE "tail"]
      /\ cluster' = cluster /\ full' = full /\ empty' = empty /\ landed' = landed
      /\ cpc' = cpc /\ cread' = cread /\ crelease' = crelease
  BY DEF Copy, consumers
<1>2. /\ n \in Nat /\ KTiles \in Nat /\ Stages \in Nat \ {0} /\ n < KTiles
      /\ pwrite[b] = StateAt(1, n)
  BY <1>1, ProducerCounts DEF IInv, ProducerCursor
<1> HIDE DEF n
<1>3. /\ Inc(pwrite[b]) = StateAt(1, n + 1) /\ StateAt(1, n + 1) \in Cursor
      /\ StateAt(1, n + 1).count = n + 1
  BY <1>2, NextCursor
<1>4. /\ pwrite \in [Blocks -> Cursor]
      /\ ppc \in [Blocks -> {"acquire", "copy", "tail", "done"}]
  BY DEF IInv, Shape
<1>5. /\ pwrite' \in [Blocks -> Cursor]
      /\ ppc' \in [Blocks -> {"acquire", "copy", "tail", "done"}]
      /\ \A d \in Blocks : d # b => ppc'[d] = ppc[d] /\ pwrite'[d] = pwrite[d]
      /\ ppc'[b] = IF n + 1 < KTiles THEN "acquire" ELSE "tail"
      /\ pwrite'[b] = StateAt(1, n + 1)
  BY <1>1, <1>3, <1>4
<1>6. (ProducerCursor(b))'
  BY <1>2, <1>3, <1>5 DEF ProducerCursor
<1>7. /\ Granted(b) = n + 1 /\ Armed(b) = n + 1 /\ Copied(b) = n
      /\ (Granted(b))' = n + 1 /\ (Armed(b))' = n + 1 /\ (Copied(b))' = n + 1
  BY <1>1, <1>2, <1>3, <1>5 DEF n, Granted, Armed, Copied
<1>8. \A r \in Index : Visits((Granted(b))', r) <= empty[b][r].phase + 1
  BY <1>7, BarrierFacts DEF EmptyBarrier
<1> QED BY <1>1, <1>2, <1>5, <1>6, <1>7, <1>8, ProducerMoves

(* producer_tail goes by the same parities and arms nothing. *)
LEMMA LoadTailInv ==
  ASSUME IInv, NEW b \in Blocks, LoadTail(b)
  PROVE  IInv'
<1> DEFINE n == pwrite[b].count
<1>1. /\ ppc[b] = "tail" /\ PhaseDone(empty[b][pwrite[b].index], pwrite[b].phase)
      /\ pwrite' = [pwrite EXCEPT ![b] = Inc(@)]
      /\ ppc' = [ppc EXCEPT ![b] = IF n + 1 < KTiles + Stages THEN "tail" ELSE "done"]
      /\ cluster' = cluster /\ full' = full /\ empty' = empty /\ landed' = landed
      /\ cpc' = cpc /\ cread' = cread /\ crelease' = crelease
  BY DEF LoadTail, consumers
<1>2. /\ n \in Nat /\ KTiles \in Nat /\ Stages \in Nat \ {0}
      /\ KTiles <= n /\ n < KTiles + Stages
      /\ pwrite[b] = StateAt(1, n)
  BY <1>1, ProducerCounts DEF IInv, ProducerCursor
<1>3. /\ pwrite[b].index = n % Stages /\ pwrite[b].index \in Index
      /\ empty[b][pwrite[b].index].phase = n \div Stages
      /\ Visits(n, pwrite[b].index) = n \div Stages /\ n \div Stages \in Nat
  BY <1>1, ProducerWaitExact
<1> HIDE DEF n
<1>4. /\ Inc(pwrite[b]) = StateAt(1, n + 1) /\ StateAt(1, n + 1) \in Cursor
      /\ StateAt(1, n + 1).count = n + 1
  BY <1>2, NextCursor
<1>5. /\ pwrite \in [Blocks -> Cursor]
      /\ ppc \in [Blocks -> {"acquire", "copy", "tail", "done"}]
  BY DEF IInv, Shape
<1>6. /\ pwrite' \in [Blocks -> Cursor]
      /\ ppc' \in [Blocks -> {"acquire", "copy", "tail", "done"}]
      /\ \A d \in Blocks : d # b => ppc'[d] = ppc[d] /\ pwrite'[d] = pwrite[d]
      /\ ppc'[b] = IF n + 1 < KTiles + Stages THEN "tail" ELSE "done"
      /\ pwrite'[b] = StateAt(1, n + 1)
  BY <1>1, <1>4, <1>5
<1>7. (ProducerCursor(b))'
  BY <1>2, <1>4, <1>6 DEF ProducerCursor
<1>8. /\ Granted(b) = n /\ Armed(b) = KTiles /\ Copied(b) = KTiles
      /\ (Granted(b))' = n + 1 /\ (Armed(b))' = KTiles /\ (Copied(b))' = KTiles
  BY <1>1, <1>2, <1>4, <1>6 DEF n, Granted, Armed, Copied
<1>9. ASSUME NEW r \in Index PROVE Visits((Granted(b))', r) <= empty[b][r].phase + 1
  <2>1. EmptyBarrier(b, r) /\ empty[b][r].phase \in Nat
    BY BarrierFacts
  <2>2. CASE r = pwrite[b].index
    BY <1>2, <1>3, <1>8, <2>1, <2>2, VisitsStep
  <2>3. CASE r # pwrite[b].index
    <3>1. Visits(n + 1, r) = Visits(n, r)
      BY <1>2, <1>3, <2>3, VisitsStep
    <3> QED BY <1>8, <2>1, <3>1 DEF EmptyBarrier
  <2> QED BY <2>2, <2>3
<1> QED BY <1>1, <1>2, <1>6, <1>7, <1>8, <1>9, ProducerMoves

(* A share that lands belongs to the round that the full barrier is in. *)
LEMMA LandExact ==
  ASSUME IInv, NEW d \in Blocks, NEW s \in Index, NEW x \in Shares(d),
         landed[d][s][x] < Issued(x[2], s)
  PROVE  /\ landed[d][s][x] = full[d][s].phase
         /\ landed[d][s][x] + 1 <= Visits(Copied(x[2]), s)
<1>1. Issued(x[2], s) = Visits(Copied(x[2]), s)
  BY DEF Issued, Copied
<1>2. PICK c \in Signalers : Block(c) = d /\ Dst(c) = x[2]
  BY Layout
<1>3. /\ empty[x[2]][s].phase \in Nat /\ full[d][s].phase \in Nat
      /\ empty[x[2]][s].phase <= full[d][s].phase
  BY <1>2, ConsumerChain
<1>4. /\ landed[d][s][x] \in Nat /\ full[d][s].phase <= landed[d][s][x]
      /\ Visits(Copied(x[2]), s) \in Nat
      /\ Visits(Copied(x[2]), s) <= empty[x[2]][s].phase + 1
  BY ShareChain
<1> QED BY <1>1, <1>3, <1>4

(* A share that lands counts towards the round that the barrier is in. *)
LEMMA LandInv ==
  ASSUME IInv, NEW d \in Blocks, NEW s \in Index, NEW x \in Shares(d), Land(d, s, x)
  PROVE  IInv'
<1> DEFINE f == full[d][s].phase
           armed == Visits(Armed(d), s)
<1>1. /\ landed[d][s][x] < Issued(x[2], s)
      /\ landed' = [landed EXCEPT ![d][s][x] = @ + 1]
      /\ full' = [full EXCEPT ![d][s] = CompleteTransaction(@, 1)]
      /\ cluster' = cluster /\ empty' = empty
      /\ ppc' = ppc /\ pwrite' = pwrite
      /\ cpc' = cpc /\ cread' = cread /\ crelease' = crelease
  BY DEF Land, producers, consumers
<1>2. /\ Signalers' = Signalers /\ Blocks' = Blocks /\ cluster \in Clusters
      /\ ClusterSignalers' = ClusterSignalers /\ \A e : (Shares(e))' = Shares(e)
      /\ TransactionUnits' = TransactionUnits
  BY <1>1, LayoutFrame DEF Signalers, IInv, Shape
<1>3. \A e \in Blocks :
        /\ (Granted(e))' = Granted(e) /\ (Armed(e))' = Armed(e) /\ (Copied(e))' = Copied(e)
        /\ (ProducerCursor(e))'
  BY <1>1, ProducerFrame DEF IInv
<1>4. \A c \in Signalers :
        (Seen(c))' = Seen(c) /\ (Released(c))' = Released(c) /\ (ConsumerCursor(c))'
  BY <1>1, ConsumerFrame DEF IInv
<1>5. /\ full[d][s] \in [count : Nat, pending : Nat, tx : Int, phase : Nat]
      /\ FullBarrier(d, s) /\ f \in Nat
  BY BarrierFacts
<1>6. /\ landed[d][s][x] = f /\ f + 1 <= Visits(Copied(x[2]), s)
  BY <1>1, LandExact
<1>7. /\ DOMAIN landed = Blocks /\ \A e \in Blocks : landed[e] \in [Index -> [Shares(e) -> Nat]]
      /\ full \in [Blocks -> [Index -> [count : Nat, pending : Nat, tx : Int, phase : Nat]]]
  BY DEF IInv, Shape
<1>8. /\ \A e \in Blocks, r \in Index : <<e, r>> # <<d, s>> =>
           full'[e][r] = full[e][r] /\ landed'[e][r] = landed[e][r]
      /\ full'[d][s] = CompleteTransaction(full[d][s], 1)
      /\ landed'[d][s] = [landed[d][s] EXCEPT ![x] = @ + 1]
  BY <1>1, <1>7
<1>9. /\ landed'[d][s][x] = f + 1
      /\ \A y \in Shares(d) : y # x => landed'[d][s][y] = landed[d][s][y]
  <2>1. landed[d][s] \in [Shares(d) -> Nat]
    BY <1>7
  <2> QED BY <1>6, <1>8, <2>1
<1>10. full'[d][s] = Settle([count |-> full[d][s].count, pending |-> full[d][s].pending,
                            tx |-> full[d][s].tx - 1, phase |-> full[d][s].phase])
  BY <1>5, <1>8, TxForms
<1>11. Shape'
  <2>1. full'[d][s] \in [count : Nat, pending : Nat, tx : Int, phase : Nat]
    <3> DEFINE a == [count |-> full[d][s].count, pending |-> full[d][s].pending,
                     tx |-> full[d][s].tx - 1, phase |-> full[d][s].phase]
    <3>1. a \in [count : Nat, pending : Nat, tx : Int, phase : Nat]
      BY <1>5
    <3>2. full'[d][s] = Settle(a)
      BY <1>10
    <3> HIDE DEF a
    <3> QED BY <3>1, <3>2, SettleType
  <2>2. full' \in [Blocks -> [Index -> [count : Nat, pending : Nat, tx : Int, phase : Nat]]]
    BY <1>1, <1>7, <1>8, <2>1
  <2>3. DOMAIN landed' = Blocks
    BY <1>1, <1>7
  <2>4. \A e \in Blocks : landed'[e] \in [Index -> [Shares(e) -> Nat]]
    <3>1. landed'[d][s] \in [Shares(d) -> Nat]
      <4>1. landed[d][s] \in [Shares(d) -> Nat] /\ f + 1 \in Nat
        BY <1>5, <1>7
      <4>2. landed'[d][s] = [landed[d][s] EXCEPT ![x] = f + 1]
        BY <1>6, <1>8
      <4> HIDE DEF f
      <4> QED BY <4>1, <4>2
    <3>2. /\ landed'[d] = [landed[d] EXCEPT ![s] = landed'[d][s]]
          /\ \A e \in Blocks : e # d => landed'[e] = landed[e]
      BY <1>1, <1>7, <1>8
    <3>3. landed'[d] \in [Index -> [Shares(d) -> Nat]]
      BY <1>7, <3>1, <3>2
    <3> QED BY <1>7, <3>2, <3>3
  <2>5. cluster' \in Clusters /\ DOMAIN cpc' = ClusterSignalers'
    BY <1>1, <1>2 DEF IInv, Shape
  <2> QED BY <1>1, <1>2, <2>2, <2>3, <2>4, <2>5 DEF IInv, Shape
<1>12. ASSUME NEW e \in Blocks, NEW r \in Index PROVE (FullBarrier(e, r))'
  <2>1. CASE <<e, r>> = <<d, s>>
    <3>1. armed \in {f, f + 1} /\ Visits((Armed(d))', s) = armed
      BY <1>3, <1>5 DEF FullBarrier
    <3>2. \A y \in Shares(d) : /\ landed'[d][s][y] \in {f, f + 1}
                               /\ landed'[d][s][y] <= Visits((Copied(y[2]))', s)
      <4>1. \A y \in Shares(d) : y[2] \in Blocks
        BY Layout
      <4>2. \A y \in Shares(d) : (Copied(y[2]))' = Copied(y[2])
        BY <1>3, <4>1
      <4>3. \A y \in Shares(d) : /\ landed[d][s][y] \in {f, f + 1}
                                 /\ landed[d][s][y] <= Visits(Copied(y[2]), s)
        BY <1>5 DEF FullBarrier
      <4> HIDE DEF f
      <4> QED BY <1>6, <1>9, <4>2, <4>3
    <3>3. \A c \in Signalers : Block(c) = d =>
            Visits((Seen(c))', s) \in Nat /\ Visits((Seen(c))', s) <= f
      BY <1>4, ConsumerChain
    <3> DEFINE E == {y \in Shares(d) : landed'[d][s][y] = f + 1}
    <3>4. Cardinality(E) = Cardinality(Early(d, s)) + 1 /\ Cardinality(Early(d, s)) \in Nat
      <4>1. Early(d, s) = E \ {x} /\ x \in E
        BY <1>5, <1>6, <1>9 DEF Early
      <4>2. IsFiniteSet(E)
        BY <1>2, SharesCount, FS_Subset
      <4> HIDE DEF E
      <4>3. Cardinality(E) \in Nat \ {0} /\ Cardinality(E \ {x}) = Cardinality(E) - 1
        BY <4>1, <4>2, CardRemove
      <4> QED BY <4>1, <4>3
    <3>5. TransactionUnits \in Nat
      BY <1>2, LayoutType
    <3>6. /\ full[d][s].count = 1 /\ full[d][s].phase = f
          /\ full[d][s].pending = (IF armed = f THEN 1 ELSE 0)
          /\ full[d][s].tx = (IF armed = f THEN 0 ELSE TransactionUnits) - Cardinality(Early(d, s))
      BY <1>5 DEF FullBarrier
    <3>7. full[d][s].tx - 1 = (IF armed = f THEN 0 ELSE TransactionUnits) - Cardinality(E)
      <4> HIDE DEF E, f, armed
      <4> QED BY <3>4, <3>5, <3>6
    <3>8. full'[d][s] = Settle([count |-> 1, pending |-> IF armed = f THEN 1 ELSE 0,
                                tx |-> (IF armed = f THEN 0 ELSE TransactionUnits)
                                         - Cardinality(E),
                                phase |-> f])
      <4> HIDE DEF E, f, armed
      <4> QED BY <1>10, <3>6, <3>7
    <3>9. (FullBarrier(d, s))'
      <4> HIDE DEF f, armed
      <4> QED BY <1>1, <1>2, <1>5, <3>1, <3>2, <3>3, <3>8, FullStep
    <3> QED BY <2>1, <3>9
  <2>2. CASE <<e, r>> # <<d, s>>
    <3>1. full'[e][r] = full[e][r] /\ landed'[e][r] = landed[e][r] /\ FullBarrier(e, r)
      BY <1>8, <2>2, BarrierFacts
    <3>2. Visits((Armed(e))', r) = Visits(Armed(e), r)
      BY <1>3
    <3>3. \A y \in Shares(e) : landed[e][r][y] <= Visits((Copied(y[2]))', r)
      BY <1>3, ShareChain
    <3>4. \A c \in Signalers : Block(c) = e => Visits((Seen(c))', r) <= full[e][r].phase
      BY <1>4, <3>1 DEF FullBarrier
    <3> QED BY <1>1, <1>2, <3>1, <3>2, <3>3, <3>4, FullFrame
  <2> QED BY <2>1, <2>2
<1>13. ASSUME NEW e \in Blocks, NEW r \in Index PROVE (EmptyBarrier(e, r))'
  <2>1. EmptyBarrier(e, r) /\ empty'[e][r] = empty[e][r]
    BY <1>1, BarrierFacts
  <2>2. Visits((Granted(e))', r) <= empty[e][r].phase + 1
    BY <1>3, <2>1 DEF EmptyBarrier
  <2> QED BY <1>2, <1>4, <2>1, <2>2, EmptyFrame
<1> QED BY <1>2, <1>3, <1>4, <1>11, <1>12, <1>13 DEF IInv

(* Consumers that move on without touching a barrier. *)
LEMMA ConsumerMoves ==
  ASSUME IInv,
         cluster' = cluster, full' = full, empty' = empty, landed' = landed,
         ppc' = ppc, pwrite' = pwrite, crelease' = crelease,
         cpc' \in [Signalers -> {"wait", "mma", "release", "tail", "done"}],
         cread' \in [Signalers -> Cursor],
         \A c \in Signalers : (ConsumerCursor(c))',
         \A c \in Signalers : \A r \in Index :
           Visits((Seen(c))', r) <= full[Block(c)][r].phase
  PROVE  IInv'
<1>1. /\ Signalers' = Signalers /\ Blocks' = Blocks
      /\ ClusterSignalers' = ClusterSignalers /\ \A d : (Shares(d))' = Shares(d)
  BY LayoutFrame DEF Signalers
<1>2. \A d \in Blocks :
        /\ (Granted(d))' = Granted(d) /\ (Armed(d))' = Armed(d) /\ (Copied(d))' = Copied(d)
        /\ (ProducerCursor(d))'
  BY ProducerFrame DEF IInv
<1>3. \A c \in Signalers : (Released(c))' = Released(c)
  BY DEF Released
<1>4. Shape'
  BY <1>1 DEF IInv, Shape, Signalers
<1>5. ASSUME NEW d \in Blocks, NEW r \in Index PROVE (FullBarrier(d, r))'
  <2>1. full'[d][r] = full[d][r] /\ landed'[d][r] = landed[d][r] /\ FullBarrier(d, r)
    BY BarrierFacts
  <2>2. Visits((Armed(d))', r) = Visits(Armed(d), r)
    BY <1>2
  <2>3. \A x \in Shares(d) : landed[d][r][x] <= Visits((Copied(x[2]))', r)
    BY <1>2, ShareChain
  <2>4. \A c \in Signalers : Block(c) = d => Visits((Seen(c))', r) <= full[d][r].phase
    OBVIOUS
  <2> QED BY <1>1, <2>1, <2>2, <2>3, <2>4, FullFrame
<1>6. ASSUME NEW d \in Blocks, NEW r \in Index PROVE (EmptyBarrier(d, r))'
  <2>1. EmptyBarrier(d, r) /\ empty'[d][r] = empty[d][r]
    BY BarrierFacts
  <2>2. Visits((Granted(d))', r) <= empty[d][r].phase + 1
    BY <1>2, <2>1 DEF EmptyBarrier
  <2> QED BY <1>1, <1>3, <2>1, <2>2, EmptyFrame
<1> QED BY <1>1, <1>2, <1>4, <1>5, <1>6 DEF IInv

(* A consumer goes by the parity of a full barrier only when the tile of   *)
(* its own round is there.                                                 *)
LEMMA ConsumerWaitExact ==
  ASSUME IInv, NEW c \in Signalers, cpc[c] = "wait",
         PhaseDone(full[Block(c)][cread[c].index], cread[c].phase)
  PROVE  /\ cread[c].index = cread[c].count % Stages
         /\ cread[c].index \in Index
         /\ Visits(cread[c].count + 1, cread[c].index)
              <= full[Block(c)][cread[c].index].phase
<1> DEFINE n == cread[c].count
           s == n % Stages
           q == n \div Stages
           f == full[Block(c)][s].phase
<1>1. /\ n \in Nat /\ cread[c] = StateAt(0, n) /\ Seen(c) = n
      /\ Released(c) \in Nat /\ Released(c) <= n
  BY ConsumerCounts DEF Seen
<1>2. cread[c].index = s /\ cread[c].phase = (0 + q) % 2
  BY <1>1 DEF StateAt
<1>3. s \in Index /\ q \in Nat /\ Visits(n, s) = q /\ Visits(n + 1, s) = q + 1
  <2>1. s \in Index /\ q \in Nat /\ Visits(n, s) = q
    BY <1>1, DivMod, VisitsAtCursor
  <2>2. Visits(n + 1, s) = Visits(n, s) + 1
    BY <1>1, <2>1, VisitsStep
  <2> QED BY <2>1, <2>2
<1>4. Visits(Released(c), s) <= q /\ Visits(Released(c), s) \in Nat
  BY <1>1, <1>3, VisitsMonotone, VisitsType
<1>5. f \in Nat /\ q <= f /\ f <= q + 1
  <2> HIDE DEF n, s, q
  <2>1. /\ f \in Nat /\ Visits(Seen(c), s) <= f /\ empty[Dst(c)][s].phase \in Nat
        /\ empty[Dst(c)][s].phase <= Visits(Released(c), s)
    BY <1>3, ConsumerChain
  <2>2. f <= empty[Dst(c)][s].phase + 1
    BY <1>3, <2>1, AtMostOneRound
  <2> QED BY <1>1, <1>3, <1>4, <2>1, <2>2
<1>6. f % 2 # (0 + q) % 2
  BY <1>2 DEF PhaseDone
<1>7. f = q + 1
  <2> HIDE DEF n, s, q, f
  <2>1. f = q \/ f = q + 1
    BY <1>3, <1>5
  <2>2. f = q => (0 + q) % 2 = f % 2
    BY <1>3
  <2> QED BY <1>6, <2>1, <2>2
<1>8. cread[c].index = cread[c].count % Stages
  BY <1>2
<1> HIDE DEF s, q
<1> QED BY <1>2, <1>3, <1>5, <1>7, <1>8

(* A consumer that goes on has seen one tile more. *)
LEMMA WaitInv ==
  ASSUME IInv, NEW c \in Signalers, Wait(c)
  PROVE  IInv'
<1> DEFINE n == cread[c].count
<1>1. /\ cpc[c] = "wait" /\ PhaseDone(full[Block(c)][cread[c].index], cread[c].phase)
      /\ cpc' = [cpc EXCEPT ![c] = "mma"]
      /\ cluster' = cluster /\ full' = full /\ empty' = empty /\ landed' = landed
      /\ ppc' = ppc /\ pwrite' = pwrite /\ cread' = cread /\ crelease' = crelease
  BY DEF Wait, producers
<1>2. /\ cpc \in [Signalers -> {"wait", "mma", "release", "tail", "done"}]
      /\ cread \in [Signalers -> Cursor]
  BY DEF IInv, Shape
<1>3. /\ cpc' \in [Signalers -> {"wait", "mma", "release", "tail", "done"}]
      /\ cpc'[c] = "mma" /\ \A d \in Signalers : d # c => cpc'[d] = cpc[d]
  BY <1>1, <1>2
<1>4. /\ n \in Nat /\ cread[c].index = n % Stages /\ cread[c].index \in Index
      /\ Visits(n + 1, cread[c].index) <= full[Block(c)][cread[c].index].phase
  BY <1>1, ConsumerWaitExact, ConsumerCounts
<1>5. (ConsumerCursor(c))' /\ Seen(c) = n /\ (Seen(c))' = n + 1
  BY <1>1, <1>3 DEF IInv, ConsumerCursor, Released, Seen
<1>6. \A d \in Signalers : d # c => (Seen(d))' = Seen(d) /\ (ConsumerCursor(d))'
  BY <1>1, <1>3, ConsumerFrame DEF IInv
<1>7. ASSUME NEW d \in Signalers, NEW r \in Index
      PROVE  Visits((Seen(d))', r) <= full[Block(d)][r].phase
  <2>1. Visits(Seen(d), r) <= full[Block(d)][r].phase
    BY ConsumerChain
  <2>2. CASE d = c /\ r = cread[c].index
    BY <1>4, <1>5, <2>2
  <2>3. CASE d = c /\ r # cread[c].index
    <3>1. Visits(n + 1, r) = Visits(n, r)
      <4> HIDE DEF n
      <4> QED BY <1>4, <2>3, VisitsStep
    <3> QED BY <1>5, <2>1, <2>3, <3>1
  <2>4. CASE d # c
    BY <1>6, <2>1, <2>4
  <2> QED BY <2>2, <2>3, <2>4
<1> QED BY <1>1, <1>2, <1>3, <1>5, <1>6, <1>7, ConsumerMoves

(* A warp group that multiplies has seen the tile already. *)
LEMMA MultiplyInv ==
  ASSUME IInv, NEW b, NEW w, Multiply(b, w)
  PROVE  IInv'
<1> DEFINE group == Members(b, w)
           pcs == {"wait", "mma", "release", "tail", "done"}
<1>1. /\ \A c \in group : cpc[c] = "mma"
      /\ cread' = [c \in Signalers |-> IF c \in group THEN Inc(cread[c]) ELSE cread[c]]
      /\ cpc' = [c \in Signalers |->
           IF c \notin group THEN cpc[c]
           ELSE IF cread[c].count < 1 THEN AfterTile(cread[c].count + 1) ELSE "release"]
      /\ cluster' = cluster /\ full' = full /\ empty' = empty /\ landed' = landed
      /\ ppc' = ppc /\ pwrite' = pwrite /\ crelease' = crelease
  BY DEF Multiply, producers, K_PIPE_MMAS
<1> HIDE DEF group
<1>2. /\ cpc \in [Signalers -> pcs] /\ cread \in [Signalers -> Cursor]
  BY DEF IInv, Shape
<1>3. ASSUME NEW c \in Signalers, c \in group
      PROVE  /\ cread'[c] \in Cursor /\ cpc'[c] \in pcs
             /\ (ConsumerCursor(c))' /\ (Seen(c))' = Seen(c)
  <2> DEFINE n == cread[c].count
  <2>1. /\ cpc[c] = "mma" /\ n \in Nat /\ KTiles \in Nat /\ cread[c] = StateAt(0, n)
        /\ crelease[c] = StateAt(0, Released(c)) /\ n < KTiles
        /\ Released(c) = IF n = 0 THEN 0 ELSE n - 1
    BY <1>1, <1>3, ConsumerCounts DEF IInv, ConsumerCursor
  <2>2. /\ cread'[c] = Inc(cread[c])
        /\ cpc'[c] = IF n < 1 THEN (IF n + 1 < KTiles THEN "wait" ELSE "tail") ELSE "release"
        /\ crelease'[c] = crelease[c] /\ (Released(c))' = Released(c)
    BY <1>1, <1>3 DEF AfterTile, Released
  <2> HIDE DEF n
  <2>3. cread'[c] = StateAt(0, n + 1) /\ cread'[c] \in Cursor /\ cread'[c].count = n + 1
    BY <2>1, <2>2, NextCursor
  <2>4. (ConsumerCursor(c))'
    BY <2>1, <2>2, <2>3 DEF ConsumerCursor
  <2>5. Seen(c) = n + 1 /\ (Seen(c))' = n + 1
    BY <2>1, <2>2, <2>3 DEF n, Seen
  <2> QED BY <2>2, <2>3, <2>4, <2>5
<1>4. ASSUME NEW c \in Signalers, c \notin group
      PROVE  /\ cread'[c] \in Cursor /\ cpc'[c] \in pcs
             /\ (ConsumerCursor(c))' /\ (Seen(c))' = Seen(c)
  <2>1. cread'[c] = cread[c] /\ cpc'[c] = cpc[c] /\ crelease'[c] = crelease[c]
    BY <1>1, <1>4
  <2> QED BY <1>2, <2>1, ConsumerFrame DEF IInv
<1>5. cread' \in [Signalers -> Cursor] /\ cpc' \in [Signalers -> pcs]
  BY <1>1, <1>3, <1>4
<1>6. ASSUME NEW c \in Signalers, NEW r \in Index
      PROVE  Visits((Seen(c))', r) <= full[Block(c)][r].phase
  BY <1>3, <1>4, ConsumerChain
<1> QED BY <1>1, <1>3, <1>4, <1>5, <1>6, ConsumerMoves

(* A consumer that releases the slot of its next tile to the block that it *)
(* tells, having seen the tile.                                            *)
LEMMA ConsumerReleases ==
  ASSUME IInv, NEW c \in Signalers, Released(c) < Seen(c),
         NEW s \in Index, s = Released(c) % Stages,
         cluster' = cluster, full' = full, landed' = landed,
         ppc' = ppc, pwrite' = pwrite, cread' = cread,
         empty' = [empty EXCEPT ![Dst(c)][s] = Arrive(@)],
         cpc' \in [Signalers -> {"wait", "mma", "release", "tail", "done"}],
         crelease' \in [Signalers -> Cursor],
         \A u \in Signalers : u # c => cpc'[u] = cpc[u] /\ crelease'[u] = crelease[u],
         (ConsumerCursor(c))', (Seen(c))' = Seen(c), (Released(c))' = Released(c) + 1
  PROVE  IInv'
<1> DEFINE n == Released(c)
           b == Dst(c)
           e == empty[b][s].phase
<1>1. /\ Signalers' = Signalers /\ Blocks' = Blocks
      /\ ClusterSignalers' = ClusterSignalers /\ \A d : (Shares(d))' = Shares(d)
      /\ \A d : (SignalersTo(d))' = SignalersTo(d)
  BY LayoutFrame DEF Signalers, SignalersTo
<1>2. \A d \in Blocks :
        /\ (Granted(d))' = Granted(d) /\ (Armed(d))' = Armed(d) /\ (Copied(d))' = Copied(d)
        /\ (ProducerCursor(d))'
  BY ProducerFrame DEF IInv
<1>3. \A u \in Signalers : u # c =>
        (Seen(u))' = Seen(u) /\ (Released(u))' = Released(u) /\ (ConsumerCursor(u))'
  BY ConsumerFrame DEF IInv
<1>4. \A u \in Signalers : (Seen(u))' = Seen(u) /\ (ConsumerCursor(u))'
  BY <1>3
<1>5. b \in Blocks /\ n \in Nat /\ Seen(c) \in Nat
  BY Layout, ConsumerCounts
<1>6. /\ EmptyBarrier(b, s) /\ empty[b][s] \in Barrier /\ e \in Nat
      /\ CountedBy(empty[b][s], SignalersTo(b), Releases(b, s))
      /\ empty[b][s].pending > 0
  BY <1>5, BarrierFacts DEF EmptyBarrier, CountedBy
<1>7. empty \in [Blocks -> [Index -> Barrier]]
  BY DEF IInv, Shape
<1> HIDE DEF b, n
<1>8. /\ empty'[b][s] = Arrive(empty[b][s])
      /\ \A d \in Blocks, r \in Index : <<d, r>> # <<b, s>> => empty'[d][r] = empty[d][r]
      /\ empty' \in [Blocks -> [Index -> Barrier]]
  <2>1. empty' = [empty EXCEPT ![b][s] = Arrive(@)]
    BY DEF b
  <2>2. Arrive(empty[b][s]) \in Barrier
    BY <1>6, ArriveType
  <2>3. /\ empty'[b] = [empty[b] EXCEPT ![s] = Arrive(empty[b][s])]
        /\ \A d \in Blocks : d # b => empty'[d] = empty[d]
        /\ DOMAIN empty' = Blocks
    BY <1>5, <1>7, <2>1
  <2>4. empty'[b] \in [Index -> Barrier]
    BY <1>5, <1>7, <2>2, <2>3
  <2>5. empty' \in [Blocks -> [Index -> Barrier]]
    BY <1>7, <2>1, <2>3, <2>4
  <2>6. \A d \in Blocks, r \in Index : <<d, r>> # <<b, s>> => empty'[d][r] = empty[d][r]
    BY <1>5, <1>7, <2>3
  <2>7. empty'[b][s] = Arrive(empty[b][s])
    BY <1>5, <1>7, <2>3
  <2> QED BY <2>5, <2>6, <2>7
<1>9. Shape'
  BY <1>1, <1>8 DEF IInv, Shape, Signalers
<1>10. ASSUME NEW d \in Blocks, NEW r \in Index PROVE (FullBarrier(d, r))'
  <2>1. full'[d][r] = full[d][r] /\ landed'[d][r] = landed[d][r] /\ FullBarrier(d, r)
    BY BarrierFacts
  <2>2. Visits((Armed(d))', r) = Visits(Armed(d), r)
    BY <1>2
  <2>3. \A x \in Shares(d) : landed[d][r][x] <= Visits((Copied(x[2]))', r)
    BY <1>2, ShareChain
  <2>4. \A u \in Signalers : Block(u) = d => Visits((Seen(u))', r) <= full[d][r].phase
    BY <1>4, <2>1 DEF FullBarrier
  <2> QED BY <1>1, <2>1, <2>2, <2>3, <2>4, FullFrame
<1>11. /\ Visits(n, s) = e /\ Visits(n + 1, s) = e + 1
       /\ \A u \in SignalersTo(b) : /\ Visits(Released(u), s) \in Nat
                                    /\ Visits(Released(u), s) <= e + 1
  <2>1. ASSUME NEW u \in Signalers, Dst(u) = b
        PROVE  /\ Visits(Released(u), s) \in Nat /\ Visits(Seen(u), s) \in Nat
               /\ e <= Visits(Released(u), s)
               /\ Visits(Released(u), s) <= Visits(Seen(u), s)
               /\ Visits(Seen(u), s) <= e + 1
    <3>1. /\ full[Block(u)][s].phase \in Nat /\ Visits(Seen(u), s) \in Nat
          /\ Visits(Seen(u), s) <= full[Block(u)][s].phase
          /\ Visits(Released(u), s) \in Nat /\ e <= Visits(Released(u), s)
          /\ Visits(Released(u), s) <= Visits(Seen(u), s)
      BY <2>1, ConsumerChain
    <3>2. full[Block(u)][s].phase <= e + 1
      BY <1>6, <2>1, <3>1, AtMostOneRound
    <3> HIDE DEF e
    <3> QED BY <1>6, <3>1, <3>2
  <2>2. Visits(n + 1, s) = Visits(n, s) + 1
    BY <1>5, VisitsStep DEF n
  <2>3. Visits(n + 1, s) <= Visits(Seen(c), s)
    <3>1. n + 1 \in Nat /\ n + 1 <= Seen(c)
      BY <1>5 DEF n
    <3> QED BY <1>5, <3>1, VisitsMonotone
  <2>4. /\ Visits(n, s) \in Nat /\ e <= Visits(n, s) /\ Visits(Seen(c), s) <= e + 1
        /\ Visits(Seen(c), s) \in Nat
    BY <2>1 DEF b, n
  <2>5. Visits(n, s) = e
    <3> HIDE DEF e
    <3> QED BY <1>6, <2>2, <2>3, <2>4
  <2> QED BY <1>6, <2>1, <2>2, <2>5 DEF SignalersTo
<1>12. (EmptyBarrier(b, s))'
  <2> DEFINE T == SignalersTo(b)
             v == Releases(b, s)
             w == [u \in T |-> Visits((Released(u))', s)]
  <2>1. IsFiniteSet(T)
    BY <1>5, SignalersToCount, Layout DEF SignalersTo
  <2>2. c \in T /\ T \subseteq Signalers
    BY DEF SignalersTo, b
  <2>3. v \in [T -> Nat] /\ v[c] = e /\ \A u \in T : v[u] <= e + 1
    BY <1>11, <2>2 DEF Releases, n
  <2>4. w \in [T -> Nat] /\ w[c] = v[c] + 1 /\ \A u \in T : u # c => w[u] = v[u]
    <3>1. w[c] = e + 1
      BY <1>11, <2>2 DEF n
    <3>2. ASSUME NEW u \in T, u # c PROVE w[u] = v[u] /\ w[u] \in Nat
      BY <1>3, <1>11, <2>2, <3>2 DEF Releases
    <3>3. w[c] = v[c] + 1 /\ w[c] \in Nat
      BY <1>6, <2>3, <3>1
    <3> QED BY <3>2, <3>3
  <2>5. CountedBy(empty[b][s], T, v)
    BY <1>6
  <2> HIDE DEF T, v, w
  <2>6. CountedBy(Arrive(empty[b][s]), T, w) /\ Arrive(empty[b][s]).phase >= e
    BY <2>1, <2>2, <2>3, <2>4, <2>5, CountedArrival
  <2>7. (Releases(b, s))' = w
    BY <1>1 DEF Releases, T, w, b
  <2>8. CountedBy(empty'[b][s], (SignalersTo(b))', (Releases(b, s))')
    BY <1>1, <1>8, <2>6, <2>7 DEF T, b
  <2>9. Visits((Granted(b))', s) <= empty'[b][s].phase + 1
    <3>1. Visits(Granted(b), s) <= e + 1 /\ Visits(Granted(b), s) \in Nat
      <4>1. Granted(b) \in Nat
        BY <1>5, ProducerCounts
      <4> QED BY <1>6, <4>1, VisitsType DEF EmptyBarrier
    <3>2. empty'[b][s].phase \in Nat /\ empty'[b][s].phase >= e
      BY <1>5, <1>8, <2>6 DEF Barrier
    <3>3. (Granted(b))' = Granted(b)
      BY <1>2, <1>5 DEF b
    <3> HIDE DEF e
    <3> QED BY <1>6, <3>1, <3>2, <3>3
  <2> QED BY <2>8, <2>9 DEF EmptyBarrier, b
<1>13. ASSUME NEW d \in Blocks, NEW r \in Index PROVE (EmptyBarrier(d, r))'
  <2>1. CASE <<d, r>> = <<b, s>>
    BY <1>12, <2>1 DEF b
  <2>2. CASE <<d, r>> # <<b, s>>
    <3>1. EmptyBarrier(d, r) /\ empty'[d][r] = empty[d][r]
      BY <1>8, <2>2, BarrierFacts
    <3>2. Visits((Granted(d))', r) <= empty[d][r].phase + 1
      BY <1>2, <3>1 DEF EmptyBarrier
    <3>3. ASSUME NEW u \in Signalers, Dst(u) = d
          PROVE  Visits((Released(u))', r) = Visits(Released(u), r)
      <4>1. CASE u = c
        <5>1. r # s
          BY <2>2, <3>3, <4>1 DEF b
        <5> QED BY <1>5, <4>1, <5>1, VisitsStep DEF n
      <4>2. CASE u # c
        BY <1>3, <4>2
      <4> QED BY <4>1, <4>2
    <3> QED BY <1>1, <3>1, <3>2, <3>3, EmptyFrame
  <2> QED BY <2>1, <2>2
<1> QED BY <1>1, <1>2, <1>4, <1>9, <1>10, <1>13 DEF IInv

(* The slot that is released is that of the tile before the last. *)
LEMMA ReleaseInv ==
  ASSUME IInv, NEW c \in Signalers, Release(c)
  PROVE  IInv'
<1> DEFINE n == Released(c)
           read == cread[c].count
           s == crelease[c].index
           pcs == {"wait", "mma", "release", "tail", "done"}
<1>1. /\ cpc[c] = "release"
      /\ empty' = [empty EXCEPT ![Dst(c)][s] = Arrive(@)]
      /\ crelease' = [crelease EXCEPT ![c] = Inc(@)]
      /\ cpc' = [cpc EXCEPT ![c] = IF read < KTiles THEN "wait" ELSE "tail"]
      /\ cluster' = cluster /\ full' = full /\ landed' = landed
      /\ ppc' = ppc /\ pwrite' = pwrite /\ cread' = cread
  BY DEF Release, SignalEmpty, AfterTile, producers
<1>2. /\ n \in Nat /\ read \in Nat /\ KTiles \in Nat
      /\ crelease[c] = StateAt(0, n) /\ cread[c] = StateAt(0, read)
      /\ read <= KTiles /\ read = n + 2 /\ Seen(c) = read
  BY <1>1, ConsumerCounts DEF IInv, ConsumerCursor, Seen
<1> HIDE DEF n, read
<1>3. /\ Inc(crelease[c]) = StateAt(0, n + 1) /\ StateAt(0, n + 1) \in Cursor
      /\ StateAt(0, n + 1).count = n + 1 /\ s = n % Stages /\ s \in Index
  BY <1>2, NextCursor
<1>4. cpc \in [Signalers -> pcs] /\ crelease \in [Signalers -> Cursor]
  BY DEF IInv, Shape
<1>5. /\ cpc' \in [Signalers -> pcs] /\ crelease' \in [Signalers -> Cursor]
      /\ \A u \in Signalers : u # c => cpc'[u] = cpc[u] /\ crelease'[u] = crelease[u]
      /\ cpc'[c] = (IF read < KTiles THEN "wait" ELSE "tail")
      /\ crelease'[c] = StateAt(0, n + 1)
  BY <1>1, <1>3, <1>4
<1>6. (Released(c))' = n + 1 /\ (Seen(c))' = read
  BY <1>1, <1>3, <1>5 DEF Released, Seen, read
<1>7. (ConsumerCursor(c))'
  <2>1. cread'[c] = StateAt(0, read) /\ cread'[c].count = read
    BY <1>1, <1>2 DEF read
  <2> QED BY <1>2, <1>5, <1>6, <2>1 DEF ConsumerCursor
<1>8. Released(c) < Seen(c) /\ s = Released(c) % Stages
  BY <1>2, <1>3 DEF n
<1>9. (Released(c))' = Released(c) + 1 /\ (Seen(c))' = Seen(c)
  BY <1>2, <1>6 DEF n
<1> HIDE DEF s
<1>10. PICK t \in Index : t = s
  BY <1>3
<1> QED BY <1>1, <1>5, <1>7, <1>8, <1>9, <1>10, ConsumerReleases

(* The slot that mma_tail releases is the one of the last tile. *)
LEMMA MmaTailInv ==
  ASSUME IInv, NEW c \in Signalers, MmaTail(c)
  PROVE  IInv'
<1> DEFINE n == Released(c)
           r == Advance(DefaultState, KTiles - 1)
           s == r.index
           pcs == {"wait", "mma", "release", "tail", "done"}
<1>1. /\ cpc[c] = "tail"
      /\ empty' = [empty EXCEPT ![Dst(c)][s] = Arrive(@)]
      /\ crelease' = [crelease EXCEPT ![c] = Inc(r)]
      /\ cpc' = [cpc EXCEPT ![c] = "done"]
      /\ cluster' = cluster /\ full' = full /\ landed' = landed
      /\ ppc' = ppc /\ pwrite' = pwrite /\ cread' = cread
  BY DEF MmaTail, SignalEmpty, K_PIPE_MMAS, producers
<1>2. /\ n \in Nat /\ KTiles \in Nat /\ n + 1 = KTiles
      /\ cread[c] = StateAt(0, KTiles) /\ cread[c].count = KTiles
      /\ Seen(c) = KTiles
  BY <1>1, ConsumerCounts DEF IInv, ConsumerCursor, Seen
<1>3. r = StateAt(0, n)
  <2>1. KTiles - 1 = n /\ 0 + n = n
    BY <1>2
  <2> HIDE DEF n
  <2> QED BY <1>2, <2>1, StartStates, AdvanceStateAt
<1> HIDE DEF n, r
<1>4. /\ Inc(r) = StateAt(0, n + 1) /\ StateAt(0, n + 1) \in Cursor
      /\ StateAt(0, n + 1).count = n + 1 /\ s = n % Stages /\ s \in Index
  BY <1>2, <1>3, NextCursor
<1>5. cpc \in [Signalers -> pcs] /\ crelease \in [Signalers -> Cursor]
  BY DEF IInv, Shape
<1>6. /\ cpc' \in [Signalers -> pcs] /\ crelease' \in [Signalers -> Cursor]
      /\ \A u \in Signalers : u # c => cpc'[u] = cpc[u] /\ crelease'[u] = crelease[u]
      /\ cpc'[c] = "done" /\ crelease'[c] = StateAt(0, n + 1)
  BY <1>1, <1>4, <1>5
<1>7. (Released(c))' = n + 1 /\ (Seen(c))' = KTiles
  BY <1>1, <1>2, <1>4, <1>6 DEF Released, Seen
<1>8. (ConsumerCursor(c))'
  <2>1. cread'[c] = StateAt(0, KTiles) /\ cread'[c].count = KTiles
    BY <1>1, <1>2
  <2> QED BY <1>2, <1>6, <1>7, <2>1 DEF ConsumerCursor
<1>9. Released(c) < Seen(c) /\ s = Released(c) % Stages
  BY <1>2, <1>4 DEF n
<1>10. (Released(c))' = Released(c) + 1 /\ (Seen(c))' = Seen(c)
  BY <1>2, <1>7 DEF n
<1> HIDE DEF s
<1>11. PICK t \in Index : t = s
  BY <1>4
<1> QED BY <1>1, <1>6, <1>8, <1>9, <1>10, <1>11, ConsumerReleases

-----------------------------------------------------------------------------
(* Every step preserves the invariant. *)
LEMMA NextInv ==
  ASSUME IInv, [Next]_vars
  PROVE  IInv'
<1>1. CASE UNCHANGED vars
  <2>1. /\ cluster' = cluster /\ full' = full /\ empty' = empty /\ landed' = landed
        /\ ppc' = ppc /\ pwrite' = pwrite
        /\ cpc' = cpc /\ cread' = cread /\ crelease' = crelease
    BY <1>1 DEF vars, producers, consumers
  <2>2. \A c \in Signalers : (Seen(c))' = Seen(c) /\ (ConsumerCursor(c))'
    BY <2>1, ConsumerFrame DEF IInv
  <2>3. \A c \in Signalers : \A r \in Index :
          Visits((Seen(c))', r) <= full[Block(c)][r].phase
    BY <2>2, ConsumerChain
  <2>4. /\ cpc' \in [Signalers -> {"wait", "mma", "release", "tail", "done"}]
        /\ cread' \in [Signalers -> Cursor]
    BY <2>1 DEF IInv, Shape
  <2> QED BY <2>1, <2>2, <2>3, <2>4, ConsumerMoves
<1>2. ASSUME NEW b \in Blocks, Producer(b) PROVE IInv'
  BY <1>2, AcquireInv, CopyInv, LoadTailInv DEF Producer
<1>3. ASSUME NEW b \in Blocks, NEW w \in cluster.wgs, Multiply(b, w) PROVE IInv'
  BY <1>3, MultiplyInv
<1>4. ASSUME NEW c \in Signalers, Consumer(c) PROVE IInv'
  BY <1>4, WaitInv, ReleaseInv, MmaTailInv DEF Consumer
<1>5. ASSUME NEW d \in Blocks, NEW s \in Index, NEW x \in Shares(d), Land(d, s, x) PROVE IInv'
  BY <1>5, LandInv
<1>6. CASE Terminated
  BY <1>1, <1>6 DEF Terminated
<1> QED BY <1>1, <1>2, <1>3, <1>4, <1>5, <1>6 DEF Next

-----------------------------------------------------------------------------
(* 7. The theorems.                                                        *)

(* IInv is an invariant of the kernel. *)
THEOREM Invariance == Spec => []IInv
<1>1. Init => IInv
  BY InitInv
<1>2. IInv /\ [Next]_vars => IInv'
  BY NextInv
<1> QED BY <1>1, <1>2, PTL DEF Spec

(* TypeOK is invariant for every cluster, every number of stages above     *)
(* K_PIPE_MMAS and every number of k tiles: no full barrier is ever owed   *)
(* or expects more than one round of bytes, and every empty barrier is     *)
(* short of at least one arrival.                                          *)
THEOREM TypeCorrectness == Spec => []TypeOK
BY Invariance, Types, PTL

(* The multiplies of PipelineTmaAsync's consumers read whole tiles, for    *)
(* every cluster: no producer of the row or column copies into a slot that *)
(* a warp group still reads, and no share is missing.                      *)
THEOREM ReadsAreWhole == Spec => []MmaReadsWholeTiles
BY Invariance, WholeTiles, PTL

(* "This helps avoid early exit of blocks in Cluster": no signal and no    *)
(* copy is still on its way to a block all of whose threads have ended.    *)
THEOREM QuietAfterExit == Spec => []ExitedBlocksAreQuiet
BY Invariance, QuietExit, PTL
=============================================================================
