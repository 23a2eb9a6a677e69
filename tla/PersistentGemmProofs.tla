------------------------ MODULE PersistentGemmProofs ------------------------
(***************************************************************************)
(* How persistent kernels share out their work.  The arithmetic of the     *)
(* tile schedulers, for every problem: a linear index and an output tile   *)
(* determine each other.  The persistent GEMM, for every problem and       *)
(* device: the blocks of a cluster stay together, their work stays within  *)
(* the problem, host and kernel agree on the locks, every output tile is   *)
(* written once, and what is written is the sum of all its k tiles.        *)
(***************************************************************************)
EXTENDS PersistentGemm, FiniteSetTheorems, TLAPS

-----------------------------------------------------------------------------
(* 1. Linear indices and output tiles.                                     *)

(* The divisors of get_work_idx_m_and_n and of its inverse. *)
Divisors(u) ==
  /\ u.major \in Nat \ {0} /\ u.minor \in Nat \ {0}
  /\ u.swizzle \in Nat \ {0} /\ u.blk_major \in Nat \ {0}

(* The place along the minor dimension, of a block in its cluster or of a  *)
(* tile in the problem, and the place along the major one.                 *)
Minor(u, t) == IF u.along_n THEN t.m ELSE t.n
Major(u, t) == IF u.along_n THEN t.n ELSE t.m

(* Quotient and remainder are unique. *)
LEMMA DivModUnique ==
  ASSUME NEW d \in Nat \ {0}, NEW a \in Nat, NEW r \in 0 .. d - 1
  PROVE  (a * d + r) \div d = a /\ (a * d + r) % d = r
  BY SMTT(30)

(* A number is made of its quotient and its remainder. *)
LEMMA DivMod ==
  ASSUME NEW d \in Nat \ {0}, NEW n \in Nat
  PROVE  n \div d \in Nat /\ n % d \in 0 .. d - 1 /\ n = (n \div d) * d + (n % d)
  BY SMTT(30)

(* The parts that a linear index falls into: its row of clusters, the      *)
(* column in the row, the place in the swizzle, the place in the cluster.  *)
LEMMA WorkIdxParts ==
  ASSUME NEW u, Divisors(u), NEW n \in Nat, NEW cta
  PROVE  \E off \in 0 .. u.major - 1, in_group \in 0 .. u.swizzle - 1,
            column \in 0 .. u.blk_major - 1, row \in Nat :
           /\ n = ((row * u.blk_major + column) * u.swizzle + in_group) * u.major + off
           /\ Minor(u, WorkIdx(u, n, cta))
                = (row * u.swizzle + in_group) * u.minor + Minor(u, cta)
           /\ Major(u, WorkIdx(u, n, cta)) = column * u.major + off
<1> DEFINE cluster_id == n \div u.major
           extra == cluster_id \div u.swizzle
<1>1. /\ cluster_id \in Nat /\ n % u.major \in 0 .. u.major - 1
      /\ n = cluster_id * u.major + (n % u.major)
  BY DivMod DEF Divisors
<1>2. /\ extra \in Nat /\ cluster_id % u.swizzle \in 0 .. u.swizzle - 1
      /\ cluster_id = extra * u.swizzle + (cluster_id % u.swizzle)
  BY <1>1, DivMod DEF Divisors
<1>3. /\ extra \div u.blk_major \in Nat /\ extra % u.blk_major \in 0 .. u.blk_major - 1
      /\ extra = (extra \div u.blk_major) * u.blk_major + (extra % u.blk_major)
  BY <1>2, DivMod DEF Divisors
<1>4. /\ Minor(u, WorkIdx(u, n, cta))
          = ((extra \div u.blk_major) * u.swizzle + (cluster_id % u.swizzle)) * u.minor
            + Minor(u, cta)
      /\ Major(u, WorkIdx(u, n, cta)) = (extra % u.blk_major) * u.major + (n % u.major)
  BY DEF WorkIdx, Minor, Major
<1> HIDE DEF cluster_id, extra
<1>5. n = (((extra \div u.blk_major) * u.blk_major + (extra % u.blk_major)) * u.swizzle
            + (cluster_id % u.swizzle)) * u.major + (n % u.major)
  BY <1>1, <1>2, <1>3
<1>6. QED BY <1>1, <1>2, <1>3, <1>4, <1>5

(* get_linear_idx_from_m_and_n takes an index apart as it was put together. *)
LEMMA LinearIdxOfParts ==
  ASSUME NEW u, Divisors(u), NEW t,
         NEW off \in 0 .. u.major - 1, NEW in_group \in 0 .. u.swizzle - 1,
         NEW column \in 0 .. u.blk_major - 1, NEW row \in Nat,
         NEW place \in 0 .. u.minor - 1,
         Minor(u, t) = (row * u.swizzle + in_group) * u.minor + place,
         Major(u, t) = column * u.major + off
  PROVE  LinearIdx(u, t)
           = (((row * u.blk_major + column) * u.swizzle + in_group) * u.major + off) * u.minor
             + place
<1> DEFINE cluster == row * u.swizzle + in_group
<1>1. /\ u.minor \in Nat \ {0} /\ u.major \in Nat \ {0}
      /\ u.swizzle \in Nat \ {0} /\ u.blk_major \in Nat \ {0}
  BY DEF Divisors
<1>2. row * u.swizzle \in Nat /\ cluster \in Nat BY <1>1
<1>3. cluster \div u.swizzle = row /\ cluster % u.swizzle = in_group
  BY <1>1, DivModUnique
<1> HIDE DEF cluster
<1>4. (cluster * u.minor + place) \div u.minor = cluster /\ (cluster * u.minor + place) % u.minor = place
  BY <1>1, <1>2, DivModUnique
<1>5. column \in Nat BY <1>1
<1>6. (column * u.major + off) \div u.major = column /\ (column * u.major + off) % u.major = off
  BY <1>1, <1>5, DivModUnique
<1>7. Minor(u, t) = cluster * u.minor + place BY DEF cluster
<1>8. LinearIdx(u, t) =
        (((((Minor(u, t) \div u.minor) \div u.swizzle) * u.blk_major + (Major(u, t) \div u.major))
           * u.swizzle + ((Minor(u, t) \div u.minor) % u.swizzle)) * u.major
          + (Major(u, t) % u.major)) * u.minor + (Minor(u, t) % u.minor)
  BY DEF LinearIdx, Minor, Major
<1>9. QED BY <1>3, <1>4, <1>6, <1>7, <1>8

(* get_linear_idx_from_m_and_n "essentially inverts the mapping performed  *)
(* in get_work_idx_m_and_n", for every cluster, raster and swizzle.        *)
THEOREM LinearIdxInverts ==
  ASSUME NEW u, Divisors(u), NEW n \in Nat, NEW cta,
         Minor(u, cta) \in 0 .. u.minor - 1
  PROVE  LinearIdx(u, WorkIdx(u, n, cta)) = n * u.minor + Minor(u, cta)
<1>1. PICK off \in 0 .. u.major - 1, in_group \in 0 .. u.swizzle - 1,
           column \in 0 .. u.blk_major - 1, row \in Nat :
        /\ n = ((row * u.blk_major + column) * u.swizzle + in_group) * u.major + off
        /\ Minor(u, WorkIdx(u, n, cta))
             = (row * u.swizzle + in_group) * u.minor + Minor(u, cta)
        /\ Major(u, WorkIdx(u, n, cta)) = column * u.major + off
  BY WorkIdxParts
<1>2. QED BY <1>1, LinearIdxOfParts

(* A problem: output tiles, cluster, swizzle. *)
Problem(p) ==
  /\ p.m \in Nat \ {0} /\ p.n \in Nat \ {0} /\ p.l \in Nat \ {0}
  /\ p.cm \in Nat \ {0} /\ p.cn \in Nat \ {0}
  /\ p.max_swizzle_size \in Nat

(* The output tiles are rows of u.blk_major clusters, in groups of         *)
(* u.swizzle rows.                                                         *)
WholeGroups(u, rows) ==
  /\ rows \in Nat \ {0}
  /\ u.batch = (((rows * u.blk_major) * u.swizzle) * u.major) * u.minor
  /\ Minor(u, u.tiles) = (rows * u.swizzle) * u.minor
  /\ Major(u, u.tiles) = u.blk_major * u.major

LEMMA ProductPositive ==
  ASSUME NEW x \in Nat \ {0}, NEW y \in Nat \ {0}
  PROVE  x * y \in Nat \ {0}
  BY SMTT(30)

(* Rounding up gives a positive multiple. *)
LEMMA RoundUpWhole ==
  ASSUME NEW x \in Nat \ {0}, NEW d \in Nat \ {0}
  PROVE  \E k \in Nat \ {0} : RoundUp(x, d) = k * d
<1>1. x + d - 1 \in Nat /\ x + d - 1 >= d OBVIOUS
<1>2. CeilDiv(x, d) \in Nat /\ (x + d - 1) % d \in 0 .. d - 1
      /\ x + d - 1 = CeilDiv(x, d) * d + ((x + d - 1) % d)
  BY <1>1, DivMod DEF CeilDiv
<1>3. CeilDiv(x, d) # 0 BY <1>1, <1>2
<1>4. QED BY <1>2, <1>3 DEF RoundUp

(* What get_log_swizzle_size looks for. *)
LEMMA SwizzleFits ==
  ASSUME NEW b, b.m \in Nat, b.n \in Nat, NEW max \in Nat
  PROVE  LET s == SwizzleSize(b, max)
             l == Lesser(b.m, b.n)
         IN  /\ s \in {1, 2, 4, 8}
             /\ s # 1 => max >= s
             /\ (s = 2 => l >= 2) /\ (s = 4 => l >= 3) /\ (s = 8 => l >= 6)
             /\ s < 2 => max < 2 \/ l < 2
             /\ s < 4 => max < 4 \/ l < 3
             /\ s < 8 => max < 8 \/ l < 6
<1> DEFINE Fits(s) == /\ max >= s
                      /\ Lesser(b.m, b.n) >= CASE s = 1 -> 0 [] s = 2 -> 2 [] s = 4 -> 3 [] s = 8 -> 6
<1>1. \E s \in {1, 2, 4, 8} : (s = 1 \/ Fits(s)) /\ \A r \in {2, 4, 8} : r > s => ~Fits(r)
  <2>1. CASE Fits(8) BY <2>1
  <2>2. CASE ~Fits(8) /\ Fits(4) BY <2>2
  <2>3. CASE ~Fits(8) /\ ~Fits(4) /\ Fits(2) BY <2>3
  <2>4. CASE ~Fits(8) /\ ~Fits(4) /\ ~Fits(2) BY <2>4
  <2>5. QED BY <2>1, <2>2, <2>3, <2>4
<1>2. PICK s \in {1, 2, 4, 8} : /\ SwizzleSize(b, max) = s /\ (s = 1 \/ Fits(s))
                                /\ \A r \in {2, 4, 8} : r > s => ~Fits(r)
  BY <1>1 DEF SwizzleSize
<1>3. /\ Fits(2) <=> (max >= 2 /\ Lesser(b.m, b.n) >= 2)
      /\ Fits(4) <=> (max >= 4 /\ Lesser(b.m, b.n) >= 3)
      /\ Fits(8) <=> (max >= 8 /\ Lesser(b.m, b.n) >= 6)
  OBVIOUS
<1>4. Lesser(b.m, b.n) \in Nat BY DEF Lesser
<1> HIDE DEF Fits
<1>5. QED BY <1>2, <1>3, <1>4

LEMMA SwizzleIsPositive ==
  ASSUME NEW b, b.m \in Nat, b.n \in Nat, NEW max \in Nat
  PROVE  SwizzleSize(b, max) \in Nat \ {0}
<1>1. SwizzleSize(b, max) \in {1, 2, 4, 8} BY SwizzleFits
<1>2. QED BY <1>1

(* The parameters that the host hands to the kernel describe whole groups  *)
(* of clusters, whatever the sizes of the problem.                         *)
LEMMA ParamsAreWhole ==
  ASSUME NEW p, Problem(p)
  PROVE  /\ Divisors(UnderlyingParams(p))
         /\ \E rows : WholeGroups(UnderlyingParams(p), rows)
<1> DEFINE u == UnderlyingParams(p)
           c == TiledCtaShape(p)
           s == SwizzleSize(c, p.max_swizzle_size)
           b == Swizzled(p, c)
           along == AlongN(p, b)
<1>1. /\ p.m \in Nat \ {0} /\ p.n \in Nat \ {0} /\ p.l \in Nat \ {0}
      /\ p.cm \in Nat \ {0} /\ p.cn \in Nat \ {0} /\ p.max_swizzle_size \in Nat
  BY DEF Problem
<1>2. c.m \in Nat \ {0} /\ c.n \in Nat \ {0}
  <2>1. PICK k \in Nat \ {0} : RoundUp(p.m, p.cm) = k * p.cm BY <1>1, RoundUpWhole
  <2>2. PICK j \in Nat \ {0} : RoundUp(p.n, p.cn) = j * p.cn BY <1>1, RoundUpWhole
  <2>3. k * p.cm \in Nat \ {0} /\ j * p.cn \in Nat \ {0} BY <1>1, ProductPositive
  <2>4. QED BY <2>1, <2>2, <2>3 DEF TiledCtaShape
<1>3. s \in Nat \ {0} BY <1>1, <1>2, SwizzleIsPositive
<1>4. s * p.cm \in Nat \ {0} /\ s * p.cn \in Nat \ {0} BY <1>1, <1>3, ProductPositive
<1> HIDE DEF c, s
<1>5. PICK j \in Nat \ {0} : RoundUp(c.m, s * p.cm) = j * (s * p.cm)
  BY <1>2, <1>4, RoundUpWhole
<1>6. PICK k \in Nat \ {0} : RoundUp(c.n, s * p.cn) = k * (s * p.cn)
  BY <1>2, <1>4, RoundUpWhole
<1>7. b.m = j * (s * p.cm) /\ b.n = k * (s * p.cn) BY <1>5, <1>6 DEF Swizzled, s
<1>8. j * s \in Nat \ {0} /\ k * s \in Nat \ {0} BY <1>3, ProductPositive
<1>9. b.m = (j * s) * p.cm /\ b.n = (k * s) * p.cn BY <1>1, <1>3, <1>7
<1>10. b.m \div p.cm = j * s /\ b.n \div p.cn = k * s
  <2>1. 0 \in 0 .. p.cm - 1 /\ 0 \in 0 .. p.cn - 1 BY <1>1
  <2> DEFINE x == j * s
             y == k * s
  <2> HIDE DEF x, y
  <2>2. x \in Nat /\ y \in Nat BY <1>8 DEF x, y
  <2>3. (x * p.cm + 0) \div p.cm = x /\ (y * p.cn + 0) \div p.cn = y
    BY <1>1, <2>1, <2>2, DivModUnique
  <2>4. b.m = x * p.cm + 0 /\ b.n = y * p.cn + 0 BY <1>1, <1>9, <2>2 DEF x, y
  <2>5. QED BY <2>3, <2>4 DEF x, y
<1>11. /\ u.tiles = b /\ u.swizzle = s /\ u.along_n = along /\ u.batch = b.m * b.n
       /\ u.major = IF along THEN p.cn ELSE p.cm
       /\ u.minor = IF along THEN p.cm ELSE p.cn
       /\ u.blk_major = IF along THEN b.n \div p.cn ELSE b.m \div p.cm
  BY DEF UnderlyingParams, c, s
<1> HIDE DEF u, b, along
<1>12. CASE along
  <2>1. /\ u.tiles = b /\ u.swizzle = s /\ u.along_n /\ u.major = p.cn /\ u.minor = p.cm
        /\ u.blk_major = k * s
    BY <1>10, <1>11, <1>12
  <2>2. Minor(u, u.tiles) = b.m /\ Major(u, u.tiles) = b.n BY <2>1 DEF Minor, Major
  <2>3. u.batch = ((j * s) * p.cm) * ((k * s) * p.cn) BY <1>9, <1>11
  <2>4. ((j * s) * p.cm) * ((k * s) * p.cn) = (((j * (k * s)) * s) * p.cn) * p.cm
    BY <1>1, <1>3
  <2>5. Divisors(u) BY <2>1, <1>1, <1>3, <1>8 DEF Divisors
  <2>6. WholeGroups(u, j) BY <2>1, <2>2, <2>3, <2>4, <1>9 DEF WholeGroups
  <2>7. QED BY <2>5, <2>6 DEF u
<1>13. CASE ~along
  <2>1. /\ u.tiles = b /\ u.swizzle = s /\ ~u.along_n /\ u.major = p.cm /\ u.minor = p.cn
        /\ u.blk_major = j * s
    BY <1>10, <1>11, <1>13
  <2>2. Minor(u, u.tiles) = b.n /\ Major(u, u.tiles) = b.m BY <2>1 DEF Minor, Major
  <2>3. u.batch = ((j * s) * p.cm) * ((k * s) * p.cn) BY <1>9, <1>11
  <2>4. ((j * s) * p.cm) * ((k * s) * p.cn) = (((k * (j * s)) * s) * p.cm) * p.cn
    BY <1>1, <1>3
  <2>5. Divisors(u) BY <2>1, <1>1, <1>3, <1>8 DEF Divisors
  <2>6. WholeGroups(u, k) BY <2>1, <2>2, <2>3, <2>4, <1>9 DEF WholeGroups
  <2>7. QED BY <2>5, <2>6 DEF u
<1>14. QED BY <1>12, <1>13

(* The place of a tile in its row and in its group is within the problem.  *)
LEMMA PlacesAreInside ==
  ASSUME NEW d \in Nat \ {0}, NEW x \in Nat, NEW r \in 0 .. d - 1, NEW y \in Nat, x < y
  PROVE  x * d + r < y * d
<1>1. y - x - 1 \in Nat OBVIOUS
<1>2. (y - x - 1) * d \in Nat BY <1>1
<1>3. y * d = x * d + d + (y - x - 1) * d BY <1>1
<1>4. x * d \in Nat OBVIOUS
<1>5. QED BY <1>2, <1>3, <1>4

LEMMA QuotientsAreInside ==
  ASSUME NEW d \in Nat \ {0}, NEW x \in Nat, NEW r \in 0 .. d - 1, NEW y \in Nat,
         x * d + r < y * d
  PROVE  x < y
<1>1. SUFFICES ASSUME x >= y PROVE FALSE OBVIOUS
<1>2. x - y \in Nat BY <1>1
<1>3. (x - y) * d \in Nat BY <1>2
<1>4. x * d = y * d + (x - y) * d OBVIOUS
<1>5. y * d \in Nat /\ x * d \in Nat OBVIOUS
<1>6. QED BY <1>3, <1>4, <1>5

(* Every linear index below the size of a batch is a tile of the problem. *)
LEMMA WorkIdxIsInside ==
  ASSUME NEW u, NEW rows, Divisors(u), WholeGroups(u, rows),
         NEW n \in Nat, n * u.minor < u.batch, NEW cta,
         Minor(u, cta) \in 0 .. u.minor - 1
  PROVE  /\ Minor(u, WorkIdx(u, n, cta)) \in 0 .. Minor(u, u.tiles) - 1
         /\ Major(u, WorkIdx(u, n, cta)) \in 0 .. Major(u, u.tiles) - 1
<1>1. PICK off \in 0 .. u.major - 1, in_group \in 0 .. u.swizzle - 1,
           column \in 0 .. u.blk_major - 1, row \in Nat :
        /\ n = ((row * u.blk_major + column) * u.swizzle + in_group) * u.major + off
        /\ Minor(u, WorkIdx(u, n, cta))
             = (row * u.swizzle + in_group) * u.minor + Minor(u, cta)
        /\ Major(u, WorkIdx(u, n, cta)) = column * u.major + off
  BY WorkIdxParts
<1>2. /\ u.minor \in Nat \ {0} /\ u.major \in Nat \ {0}
      /\ u.swizzle \in Nat \ {0} /\ u.blk_major \in Nat \ {0} /\ rows \in Nat
  BY DEF Divisors, WholeGroups
<1>3. u.batch = (((rows * u.blk_major) * u.swizzle) * u.major) * u.minor
  BY DEF WholeGroups
<1> DEFINE a == row * u.blk_major + column
           b == a * u.swizzle + in_group
           clusters == rows * u.blk_major
           groups == clusters * u.swizzle
           ctas == groups * u.major
<1>4. row * u.blk_major \in Nat /\ a \in Nat /\ clusters \in Nat BY <1>2
<1> HIDE DEF a, clusters
<1>5. b \in Nat /\ groups \in Nat BY <1>2, <1>4
<1> HIDE DEF b, groups
<1>6. ctas \in Nat BY <1>2, <1>5
<1>7. n = b * u.major + off BY <1>1 DEF a, b
<1>8. n < ctas
  <2>1. n * u.minor + 0 < ctas * u.minor BY <1>2, <1>3 DEF groups, clusters
  <2>2. 0 \in 0 .. u.minor - 1 BY <1>2
  <2> HIDE DEF ctas
  <2>3. QED BY <1>2, <1>6, <2>1, <2>2, QuotientsAreInside
<1>9. b < groups BY <1>2, <1>5, <1>7, <1>8, QuotientsAreInside
<1>10. a < clusters BY <1>2, <1>4, <1>9, QuotientsAreInside DEF b, groups
<1>11. row < rows BY <1>2, <1>10, QuotientsAreInside DEF a, clusters
<1>12. row * u.swizzle + in_group < rows * u.swizzle BY <1>2, <1>11, PlacesAreInside
<1>13. row * u.swizzle + in_group \in Nat /\ rows * u.swizzle \in Nat BY <1>2
<1>14. (row * u.swizzle + in_group) * u.minor + Minor(u, cta) < (rows * u.swizzle) * u.minor
  <2> DEFINE x == row * u.swizzle + in_group
             y == rows * u.swizzle
  <2>1. x \in Nat /\ y \in Nat /\ x < y BY <1>12, <1>13
  <2> HIDE DEF x, y
  <2>2. x * u.minor + Minor(u, cta) < y * u.minor BY <1>2, <2>1, PlacesAreInside
  <2>3. QED BY <2>2 DEF x, y
<1>15. column * u.major + off < u.blk_major * u.major BY <1>2, PlacesAreInside
<1>16. /\ (row * u.swizzle + in_group) * u.minor + Minor(u, cta) \in Nat
       /\ column * u.major + off \in Nat
       /\ (rows * u.swizzle) * u.minor \in Nat /\ u.blk_major * u.major \in Nat
  <2>1. (row * u.swizzle + in_group) * u.minor \in Nat /\ Minor(u, cta) \in Nat
    BY <1>2, <1>13
  <2>2. column * u.major \in Nat /\ off \in Nat BY <1>2
  <2>3. QED BY <1>2, <1>13, <2>1, <2>2
<1>17. QED BY <1>1, <1>14, <1>15, <1>16 DEF WholeGroups

(* For every problem, a block with the linear index id in all batches gets *)
(* a tile within the (rounded) problem, and get_linear_idx_from_m_and_n,   *)
(* by which stream-K finds the lock and the workspace of a tile, leads     *)
(* back to id: no two indices share a tile, and no two tiles a lock.       *)
THEOREM IndexDeterminesTile ==
  ASSUME NEW p, Problem(p), NEW id \in Nat
  PROVE  LET u == UnderlyingParams(p)
             t == TileAt(u, id, BlockIdInCluster(u, id))
         IN  /\ t.l * u.batch + LinearIdx(u, t) = id
             /\ t.m \in 0 .. u.tiles.m - 1 /\ t.n \in 0 .. u.tiles.n - 1
<1> DEFINE u == UnderlyingParams(p)
           cta == BlockIdInCluster(u, id)
           t == TileAt(u, id, cta)
           at == WorkIdx(u, (id % u.batch) \div u.minor, cta)
<1>1. PICK rows : WholeGroups(u, rows) BY ParamsAreWhole
<1>2. Divisors(u) BY ParamsAreWhole
<1> HIDE DEF u
<1>3. Minor(u, cta) = id % u.minor BY DEF Minor, BlockIdInCluster
<1>4. /\ t.l = id \div u.batch
      /\ Minor(u, t) = Minor(u, at) /\ Major(u, t) = Major(u, at)
      /\ t.m = at.m /\ t.n = at.n
  BY DEF TileAt, Minor, Major
<1> DEFINE ctas == ((rows * u.blk_major) * u.swizzle) * u.major
<1>5. /\ u.minor \in Nat \ {0} /\ ctas \in Nat \ {0} /\ u.batch = ctas * u.minor
  <2>1. /\ u.minor \in Nat \ {0} /\ u.major \in Nat \ {0}
        /\ u.swizzle \in Nat \ {0} /\ u.blk_major \in Nat \ {0} /\ rows \in Nat \ {0}
    BY <1>1, <1>2 DEF Divisors, WholeGroups
  <2>2. rows * u.blk_major \in Nat \ {0} BY <2>1, ProductPositive
  <2>3. (rows * u.blk_major) * u.swizzle \in Nat \ {0} BY <2>1, <2>2, ProductPositive
  <2>4. ctas \in Nat \ {0} BY <2>1, <2>3, ProductPositive
  <2>5. QED BY <1>1, <2>1, <2>4 DEF WholeGroups
<1> HIDE DEF ctas
<1>6. u.batch \in Nat \ {0} BY <1>5, ProductPositive
<1> DEFINE in_batch == id % u.batch
           n == in_batch \div u.minor
<1>7. /\ id \div u.batch \in Nat /\ in_batch \in 0 .. u.batch - 1
      /\ id = (id \div u.batch) * u.batch + in_batch /\ in_batch \in Nat
  <2>1. /\ id \div u.batch \in Nat /\ in_batch \in 0 .. u.batch - 1
        /\ id = (id \div u.batch) * u.batch + in_batch
    BY <1>6, DivMod
  <2>2. QED BY <1>6, <2>1
<1> HIDE DEF in_batch
<1>8. /\ n \in Nat /\ in_batch % u.minor \in 0 .. u.minor - 1
      /\ in_batch = n * u.minor + (in_batch % u.minor)
  BY <1>5, <1>7, DivMod
<1>9. in_batch % u.minor = id % u.minor
  <2> DEFINE quot == (id \div u.batch) * ctas + n
             rest == in_batch % u.minor
  <2>1. (id \div u.batch) * ctas \in Nat /\ quot \in Nat
    <3> DEFINE l == id \div u.batch
    <3> HIDE DEF l, n
    <3>1. l * ctas \in Nat BY <1>5, <1>7 DEF l
    <3>2. QED BY <1>8, <3>1 DEF l
  <2>2. id = quot * u.minor + rest
    <3>1. (id \div u.batch) * u.batch = ((id \div u.batch) * ctas) * u.minor
      BY <1>5, <1>7
    <3>2. id = ((id \div u.batch) * ctas) * u.minor + (n * u.minor + rest)
      BY <1>7, <1>8, <3>1
    <3>3. quot * u.minor = ((id \div u.batch) * ctas) * u.minor + n * u.minor
      BY <1>5, <1>8, <2>1
    <3>4. ((id \div u.batch) * ctas) * u.minor \in Nat /\ n * u.minor \in Nat /\ rest \in Nat
      BY <1>5, <1>8, <2>1
    <3> HIDE DEF n, rest, quot
    <3>5. QED BY <3>2, <3>3, <3>4
  <2> HIDE DEF quot, rest, n
  <2>3. rest \in 0 .. u.minor - 1 BY <1>8 DEF rest
  <2>4. (quot * u.minor + rest) % u.minor = rest BY <1>5, <2>1, <2>3, DivModUnique
  <2>5. QED BY <2>2, <2>4 DEF rest
<1>10. Minor(u, cta) \in 0 .. u.minor - 1 BY <1>3, <1>8, <1>9
<1>11. LinearIdx(u, at) = n * u.minor + Minor(u, cta)
  BY <1>2, <1>8, <1>10, LinearIdxInverts DEF in_batch
<1>12. LinearIdx(u, t) = LinearIdx(u, at) BY <1>4 DEF LinearIdx
<1>13. t.l * u.batch + LinearIdx(u, t) = id
  BY <1>3, <1>4, <1>7, <1>8, <1>9, <1>11, <1>12
<1>14. n * u.minor < u.batch
  <2>1. n * u.minor \in Nat BY <1>5, <1>8
  <2>2. QED BY <1>6, <1>7, <1>8, <2>1
<1>15. /\ Minor(u, at) \in 0 .. Minor(u, u.tiles) - 1
       /\ Major(u, at) \in 0 .. Major(u, u.tiles) - 1
  BY <1>1, <1>2, <1>8, <1>10, <1>14, WorkIdxIsInside DEF in_batch
<1>16. t.m \in 0 .. u.tiles.m - 1 /\ t.n \in 0 .. u.tiles.n - 1
  BY <1>4, <1>15 DEF Minor, Major
<1>17. QED BY <1>13, <1>16 DEF u

-----------------------------------------------------------------------------
(* 2. Parameters that are made of whole clusters.                          *)

(* Quotient and remainder of an integer. *)
LEMMA IntDivModUnique ==
  ASSUME NEW d \in Nat \ {0}, NEW a \in Int, NEW r \in 0 .. d - 1
  PROVE  (a * d + r) \div d = a /\ (a * d + r) % d = r
  BY SMTT(30)

LEMMA IntDivMod ==
  ASSUME NEW d \in Nat \ {0}, NEW n \in Int
  PROVE  n \div d \in Int /\ n % d \in 0 .. d - 1 /\ n = (n \div d) * d + (n % d)
  BY SMTT(30)

(* Numbers that start and end with a cluster. *)
WholeMultiple(x, d) == \E j \in Int : x = j * d

(* What the schedulers rely on, of the parameters u of a problem p: a      *)
(* batch, the units and the tiles of stream-K are whole clusters, and what *)
(* is divided by is positive.                                              *)
WholeParams(u, p) ==
  /\ Divisors(u) /\ u.kt \in Nat \ {0} /\ u.groups \in Nat \ {0}
  /\ u.along_n \in BOOLEAN
  /\ u.minor = (IF u.along_n THEN p.cm ELSE p.cn)
  /\ u.major = (IF u.along_n THEN p.cn ELSE p.cm)
  /\ \E clusters \in Nat \ {0} : u.batch = clusters * Size(u)
  /\ u.splits \in Nat \ {0}
  /\ WholeMultiple(u.units_per_problem * u.splits, Size(u))
  /\ WholeMultiple(u.sk_units, Size(u)) /\ WholeMultiple(u.sk_tiles, Size(u))
  /\ u.splits > 1 =>
       /\ u.clusters_mnl \in Nat \ {0}
       /\ u.k_tiles_per_sk_unit \in Int /\ u.big_units \in Int
  /\ u.sk_units > 0 => u.units_per_group \in Nat \ {0}
  /\ u.big_groups \in Int

LEMMA SizeIsPositive ==
  ASSUME NEW u, Divisors(u)
  PROVE  Size(u) \in Nat \ {0} /\ u.minor \in Nat \ {0} /\ u.major \in Nat \ {0}
  BY ProductPositive DEF Divisors, Size

(* Sums and differences of whole clusters are whole clusters. *)
LEMMA WholeSum ==
  ASSUME NEW d \in Int, NEW x, NEW y, WholeMultiple(x, d), WholeMultiple(y, d)
  PROVE  WholeMultiple(x + y, d) /\ WholeMultiple(x - y, d)
<1>1. PICK i \in Int : x = i * d BY DEF WholeMultiple
<1>2. PICK j \in Int : y = j * d BY DEF WholeMultiple
<1>3. x + y = (i + j) * d /\ x - y = (i - j) * d BY <1>1, <1>2
<1>4. i + j \in Int /\ i - j \in Int OBVIOUS
<1>5. QED BY <1>3, <1>4 DEF WholeMultiple

(* A cluster is on one side of a border between clusters. *)
LEMMA SideOfBorder ==
  ASSUME NEW d \in Nat \ {0}, NEW c \in Int, NEW j \in Int, NEW r \in 0 .. d - 1
  PROVE  c * d + r >= j * d <=> c >= j
<1>1. CASE c >= j
  <2>1. c - j \in Nat BY <1>1
  <2>2. (c - j) * d \in Nat /\ (c - j) * d = c * d - j * d BY <2>1
  <2>3. QED BY <1>1, <2>2
<1>2. CASE c < j
  <2>1. j - c - 1 \in Nat BY <1>2
  <2>2. (j - c - 1) * d \in Nat /\ (j - c - 1) * d = j * d - c * d - d BY <2>1
  <2>3. c * d \in Int /\ j * d \in Int OBVIOUS
  <2>4. QED BY <1>2, <2>2, <2>3
<1>3. QED BY <1>1, <1>2

-----------------------------------------------------------------------------
(* 3. The places of a cluster.                                             *)

(* The blocks of a cluster have their places one after the other,          *)
(* wherever the cluster begins.                                            *)
LEMMA PlaceInCluster ==
  ASSUME NEW u, Divisors(u), NEW c \in Nat, NEW r \in 0 .. Size(u) - 1
  PROVE  /\ BlockIdInCluster(u, c * Size(u) + r) = BlockIdInCluster(u, r)
         /\ Minor(u, BlockIdInCluster(u, r)) = r % u.minor
         /\ Major(u, BlockIdInCluster(u, r)) = r \div u.minor
         /\ r % u.minor \in 0 .. u.minor - 1 /\ r \div u.minor \in 0 .. u.major - 1
         /\ r = (r \div u.minor) * u.minor + (r % u.minor)
<1> DEFINE lo == r % u.minor
           hi == r \div u.minor
           i == c * Size(u) + r
<1>1. u.minor \in Nat \ {0} /\ u.major \in Nat \ {0} /\ Size(u) \in Nat \ {0} /\ r \in Nat
  BY SizeIsPositive
<1>2. hi \in Nat /\ lo \in 0 .. u.minor - 1 /\ r = hi * u.minor + lo BY <1>1, DivMod
<1> HIDE DEF lo, hi
<1>3. hi \in 0 .. u.major - 1
  <2>1. hi * u.minor + lo < u.major * u.minor BY <1>1, <1>2 DEF Size
  <2>2. QED BY <1>1, <1>2, <2>1, QuotientsAreInside
<1>4. i = (c * u.major + hi) * u.minor + lo BY <1>1, <1>2 DEF Size
<1>5. c * u.major \in Nat /\ c * u.major + hi \in Nat BY <1>1, <1>2
<1>6. i % u.minor = lo /\ i \div u.minor = c * u.major + hi
  <2> DEFINE a == c * u.major + hi
  <2>1. a \in Nat BY <1>5
  <2> HIDE DEF a
  <2>2. (a * u.minor + lo) % u.minor = lo /\ (a * u.minor + lo) \div u.minor = a
    BY <1>1, <1>2, <2>1, DivModUnique
  <2>3. QED BY <1>4, <2>2 DEF a
<1>7. (i \div u.minor) % u.major = hi BY <1>1, <1>3, <1>6, DivModUnique
<1>8. hi % u.major = hi
  <2>1. (0 * u.major + hi) % u.major = hi BY <1>1, <1>3, DivModUnique
  <2>2. 0 * u.major + hi = hi BY <1>1, <1>2
  <2>3. QED BY <2>1, <2>2
<1>9. BlockIdInCluster(u, i) = BlockIdInCluster(u, r)
  BY <1>6, <1>7, <1>8 DEF BlockIdInCluster, lo, hi
<1>10. Minor(u, BlockIdInCluster(u, r)) = lo /\ Major(u, BlockIdInCluster(u, r)) = hi
  BY <1>8 DEF BlockIdInCluster, lo, hi, Minor, Major
<1>11. QED BY <1>2, <1>3, <1>9, <1>10 DEF lo, hi

(* The blocks of a cluster get, from indices that differ by their place    *)
(* along the major dimension, and no matter what along the minor one, the  *)
(* tiles of one cluster of the problem, each the tile on its place.        *)
LEMMA TilesOfOneCluster ==
  ASSUME NEW u, Divisors(u), NEW clusters \in Nat \ {0}, u.batch = clusters * Size(u),
         NEW x \in Int
  PROVE  \E y, z \in Nat, batch \in Int :
           \A hi \in 0 .. u.major - 1, lo \in 0 .. u.minor - 1 : \A cta :
             LET t == TileAt(u, x * Size(u) + hi * u.minor + lo, cta)
             IN  /\ t.l = batch
                 /\ Minor(u, t) = y * u.minor + Minor(u, cta)
                 /\ Major(u, t) = z * u.major + hi
<1> DEFINE w == x % clusters
           extra == w \div u.swizzle
           y == (extra \div u.blk_major) * u.swizzle + (w % u.swizzle)
           z == extra % u.blk_major
           batch == x \div clusters
<1>1. /\ u.minor \in Nat \ {0} /\ u.major \in Nat \ {0} /\ Size(u) \in Nat \ {0}
      /\ u.swizzle \in Nat \ {0} /\ u.blk_major \in Nat \ {0}
  BY SizeIsPositive DEF Divisors
<1>2. batch \in Int /\ w \in 0 .. clusters - 1 /\ w \in Nat /\ x = batch * clusters + w
  BY IntDivMod
<1> HIDE DEF w, batch
<1>3. extra \in Nat /\ w % u.swizzle \in Nat
  <2>1. extra \in Nat /\ w % u.swizzle \in 0 .. u.swizzle - 1 BY <1>1, <1>2, DivMod
  <2>2. QED BY <1>1, <2>1
<1> HIDE DEF extra
<1>4. extra \div u.blk_major \in Nat /\ z \in Nat
  <2>1. extra \div u.blk_major \in Nat /\ z \in 0 .. u.blk_major - 1
    BY <1>1, <1>3, DivMod
  <2>2. QED BY <1>1, <2>1
<1>5. y \in Nat BY <1>1, <1>3, <1>4
<1>6. ASSUME NEW hi \in 0 .. u.major - 1, NEW lo \in 0 .. u.minor - 1, NEW cta
      PROVE  LET t == TileAt(u, x * Size(u) + hi * u.minor + lo, cta)
             IN  /\ t.l = batch
                 /\ Minor(u, t) = y * u.minor + Minor(u, cta)
                 /\ Major(u, t) = z * u.major + hi
  <2> DEFINE r == hi * u.minor + lo
             id == x * Size(u) + r
             t == TileAt(u, id, cta)
  <2>1. hi \in Nat /\ hi * u.minor \in Nat /\ r \in 0 .. Size(u) - 1
    <3>1. hi \in Nat /\ lo \in Nat BY <1>1
    <3>2. hi * u.minor \in Nat BY <1>1, <3>1
    <3>3. r < u.major * u.minor BY <1>1, <3>1, PlacesAreInside
    <3>4. u.major * u.minor = Size(u) BY <1>1 DEF Size
    <3> HIDE DEF r
    <3>5. r \in Nat BY <3>1, <3>2 DEF r
    <3>6. QED BY <1>1, <3>1, <3>2, <3>3, <3>4, <3>5
  <2> HIDE DEF r
  <2> DEFINE s == w * Size(u) + r
  <2>2. s < u.batch /\ s \in Nat /\ w * Size(u) \in Nat
    <3>1. w < clusters BY <1>2
    <3>2. w * Size(u) + r < clusters * Size(u)
      BY <1>1, <1>2, <2>1, <3>1, PlacesAreInside
    <3>3. w * Size(u) \in Nat /\ r \in Nat BY <1>1, <1>2, <2>1
    <3>4. QED BY <3>2, <3>3
  <2>3. id = batch * u.batch + s
    <3>1. batch * (clusters * Size(u)) = (batch * clusters) * Size(u) BY <1>1, <1>2
    <3>2. (batch * clusters + w) * Size(u) = (batch * clusters) * Size(u) + w * Size(u)
      BY <1>1, <1>2
    <3>3. x * Size(u) = batch * u.batch + w * Size(u) BY <1>2, <3>1, <3>2
    <3>4. batch * u.batch \in Int /\ r \in Int BY <1>1, <1>2, <2>1
    <3>5. QED BY <2>2, <3>3, <3>4
  <2>4. u.batch \in Nat \ {0} BY <1>1, ProductPositive
  <2> HIDE DEF s, id
  <2>5. id \div u.batch = batch /\ id % u.batch = s
    <3>1. s \in 0 .. u.batch - 1 BY <2>2, <2>4
    <3>2. (batch * u.batch + s) \div u.batch = batch /\ (batch * u.batch + s) % u.batch = s
      BY <1>2, <2>4, <3>1, IntDivModUnique
    <3>3. QED BY <2>3, <3>2
  <2>6. s \div u.minor = w * u.major + hi
    <3> DEFINE a == w * u.major + hi
    <3>1. a \in Nat BY <1>1, <1>2, <2>1
    <3>2. s = a * u.minor + lo BY <1>1, <1>2, <2>1 DEF s, r, Size
    <3> HIDE DEF a
    <3>3. (a * u.minor + lo) \div u.minor = a BY <1>1, <3>1, DivModUnique
    <3>4. QED BY <3>2, <3>3 DEF a
  <2>7. (w * u.major + hi) \div u.major = w /\ (w * u.major + hi) % u.major = hi
    BY <1>1, <1>2, DivModUnique
  <2>8. t.l = batch BY <2>5 DEF TileAt
  <2>9. t.m = WorkIdx(u, s \div u.minor, cta).m /\ t.n = WorkIdx(u, s \div u.minor, cta).n
    BY <2>5 DEF TileAt
  <2>10. /\ Minor(u, t) = y * u.minor + Minor(u, cta)
         /\ Major(u, t) = z * u.major + hi
    BY <2>6, <2>7, <2>9 DEF WorkIdx, Minor, Major, extra
  <2>11. id = x * Size(u) + hi * u.minor + lo BY <1>1, <2>1 DEF id, r
  <2>12. QED BY <2>8, <2>10, <2>11
<1>7. QED BY <1>2, <1>4, <1>5, <1>6

-----------------------------------------------------------------------------
(* 4. The blocks of a cluster stay together.                               *)

(* What of its work a block has in common with its cluster: the k tiles    *)
(* and the tiles of one cluster.                                           *)
WorkView(p, w) ==
  [k |-> w.k, count |-> w.count, remaining |-> w.remaining, l |-> w.l,
   row |-> w.m \div p.cm, column |-> w.n \div p.cn]

(* The rest: its own place among them. *)
PlacedWork(u, p, b, w) ==
  /\ w.k \in Int /\ w.count \in Int /\ w.remaining \in Int
  /\ IsValid(w) => /\ w.m % p.cm = BlockIdInCluster(u, b).m
                   /\ w.n % p.cn = BlockIdInCluster(u, b).n

LEMMA OnTheirPlaces ==
  ASSUME NEW u, NEW p, WholeParams(u, p), NEW x \in Int,
         NEW k \in Int, NEW count \in Int, NEW remaining \in Int
  PROVE  \E v : \A r \in 0 .. Size(u) - 1, lo \in 0 .. u.minor - 1 :
           LET cta == BlockIdInCluster(u, r)
               w   == WorkOn(TileAt(u, x * Size(u) + Major(u, cta) * u.minor + lo, cta),
                             k, count, remaining)
           IN  WorkView(p, w) = v /\ PlacedWork(u, p, r, w)
<1>1. PICK clusters \in Nat \ {0} : u.batch = clusters * Size(u) BY DEF WholeParams
<1>2. /\ Divisors(u) /\ u.along_n \in BOOLEAN
      /\ u.minor = (IF u.along_n THEN p.cm ELSE p.cn)
      /\ u.major = (IF u.along_n THEN p.cn ELSE p.cm)
  BY DEF WholeParams
<1>3. u.minor \in Nat \ {0} /\ u.major \in Nat \ {0} BY <1>2, SizeIsPositive
<1>4. PICK y \in Nat, z \in Nat, batch \in Int :
        \A hi \in 0 .. u.major - 1, lo \in 0 .. u.minor - 1 : \A cta :
          LET t == TileAt(u, x * Size(u) + hi * u.minor + lo, cta)
          IN  /\ t.l = batch
              /\ Minor(u, t) = y * u.minor + Minor(u, cta)
              /\ Major(u, t) = z * u.major + hi
  BY <1>1, <1>2, TilesOfOneCluster
<1> DEFINE v == [k |-> k, count |-> count, remaining |-> remaining, l |-> batch,
                 row |-> IF u.along_n THEN y ELSE z, column |-> IF u.along_n THEN z ELSE y]
<1>5. ASSUME NEW r \in 0 .. Size(u) - 1, NEW lo \in 0 .. u.minor - 1
      PROVE  LET cta == BlockIdInCluster(u, r)
                 w   == WorkOn(TileAt(u, x * Size(u) + Major(u, cta) * u.minor + lo, cta),
                               k, count, remaining)
             IN  WorkView(p, w) = v /\ PlacedWork(u, p, r, w)
  <2> DEFINE cta == BlockIdInCluster(u, r)
             t == TileAt(u, x * Size(u) + Major(u, cta) * u.minor + lo, cta)
             w == WorkOn(t, k, count, remaining)
  <2>1. Minor(u, cta) \in 0 .. u.minor - 1 /\ Major(u, cta) \in 0 .. u.major - 1
    <3>1. 0 \in Nat OBVIOUS
    <3>2. QED BY <1>2, <3>1, PlaceInCluster
  <2>2. /\ t.l = batch
        /\ Minor(u, t) = y * u.minor + Minor(u, cta)
        /\ Major(u, t) = z * u.major + Major(u, cta)
    BY <1>4, <2>1
  <2> HIDE DEF t, cta
  <2>3. /\ (y * u.minor + Minor(u, cta)) \div u.minor = y
        /\ (y * u.minor + Minor(u, cta)) % u.minor = Minor(u, cta)
        /\ (z * u.major + Major(u, cta)) \div u.major = z
        /\ (z * u.major + Major(u, cta)) % u.major = Major(u, cta)
    BY <1>3, <2>1, DivModUnique
  <2>4. /\ Minor(u, t) \div u.minor = y /\ Minor(u, t) % u.minor = Minor(u, cta)
        /\ Major(u, t) \div u.major = z /\ Major(u, t) % u.major = Major(u, cta)
    BY <2>2, <2>3
  <2>5. /\ w.k = k /\ w.count = count /\ w.remaining = remaining
        /\ w.m = t.m /\ w.n = t.n /\ w.l = t.l
    BY DEF WorkOn
  <2> HIDE DEF w
  <2>6. CASE u.along_n
    <3>1. /\ t.m \div p.cm = y /\ t.m % p.cm = cta.m
          /\ t.n \div p.cn = z /\ t.n % p.cn = cta.n
      BY <1>2, <2>4, <2>6 DEF Minor, Major
    <3>2. WorkView(p, w) = v BY <2>2, <2>5, <2>6, <3>1 DEF WorkView
    <3>3. PlacedWork(u, p, r, w) BY <2>5, <3>1 DEF PlacedWork, cta
    <3>4. QED BY <3>2, <3>3 DEF w, t, cta
  <2>7. CASE ~u.along_n
    <3>1. /\ t.m \div p.cm = z /\ t.m % p.cm = cta.m
          /\ t.n \div p.cn = y /\ t.n % p.cn = cta.n
      BY <1>2, <2>4, <2>7 DEF Minor, Major
    <3>2. WorkView(p, w) = v BY <2>2, <2>5, <2>7, <3>1 DEF WorkView
    <3>3. PlacedWork(u, p, r, w) BY <2>5, <3>1 DEF PlacedWork, cta
    <3>4. QED BY <3>2, <3>3 DEF w, t, cta
  <2>8. QED BY <2>6, <2>7
<1>6. QED BY <1>5

(* The blocks of a cluster find the same last tile of their unit. *)
LEMMA LastTileTogether ==
  ASSUME NEW u, NEW p, WholeParams(u, p), NEW c \in Nat, NEW start \in Int, NEW remaining \in Int
  PROVE  \E v : \A r \in 0 .. Size(u) - 1 :
           LET w == LastTile(u, c * Size(u) + r, start, remaining)
           IN  WorkView(p, w) = v /\ PlacedWork(u, p, r, w)
<1> DEFINE iter_end == start + remaining
           tile     == (iter_end - 1) \div u.kt
           tile_start == tile * u.kt
           from == Greater(tile_start, start)
           count == Lesser(tile_start + u.kt, iter_end) - from
           x == tile * u.groups + (c % u.groups)
<1>1. /\ Divisors(u) /\ u.kt \in Nat \ {0} /\ u.groups \in Nat \ {0} BY DEF WholeParams
<1>2. u.minor \in Nat \ {0} /\ u.major \in Nat \ {0} /\ Size(u) \in Nat \ {0}
  BY <1>1, SizeIsPositive
<1>3. tile \in Int
  <2>1. iter_end - 1 \in Int OBVIOUS
  <2> HIDE DEF iter_end
  <2>2. QED BY <1>1, <2>1, IntDivMod
<1> HIDE DEF tile
<1>4. from \in Int /\ count \in Int /\ tile_start \in Int
  BY <1>1, <1>3 DEF Greater, Lesser
<1>5. c % u.groups \in 0 .. u.groups - 1 BY <1>1, DivMod
<1>6. x \in Int BY <1>1, <1>3, <1>5
<1>7. from - tile_start \in Int BY <1>4
<1> HIDE DEF x, from, count, tile_start
<1>8. PICK v : \A r \in 0 .. Size(u) - 1, lo \in 0 .. u.minor - 1 :
           LET cta == BlockIdInCluster(u, r)
               w   == WorkOn(TileAt(u, x * Size(u) + Major(u, cta) * u.minor + lo, cta),
                             from - tile_start, count, remaining)
           IN  WorkView(p, w) = v /\ PlacedWork(u, p, r, w)
  BY <1>4, <1>6, <1>7, OnTheirPlaces
<1>9. ASSUME NEW r \in 0 .. Size(u) - 1
      PROVE  LET w == LastTile(u, c * Size(u) + r, start, remaining)
             IN  WorkView(p, w) = v /\ PlacedWork(u, p, r, w)
  <2> DEFINE cta == BlockIdInCluster(u, r)
             id == x * Size(u) + Major(u, cta) * u.minor
  <2>1. (c * Size(u) + r) \div Size(u) = c BY <1>2, DivModUnique
  <2>2. BlockIdInCluster(u, c * Size(u) + r) = cta BY <1>1, PlaceInCluster
  <2>3. LastTile(u, c * Size(u) + r, start, remaining) =
          WorkOn(TileAt(u, id, cta), from - tile_start, count, remaining)
    BY <2>1, <2>2 DEF LastTile, Major, x, from, count, tile_start, tile
  <2>4. Major(u, cta) \in 0 .. u.major - 1
    <3>1. 0 \in Nat OBVIOUS
    <3>2. QED BY <1>1, <3>1, PlaceInCluster
  <2>5. id + 0 = id /\ 0 \in 0 .. u.minor - 1
    <3>1. x * Size(u) \in Int /\ Major(u, cta) * u.minor \in Int BY <1>2, <1>6, <2>4
    <3>2. QED BY <1>2, <3>1
  <2>6. QED BY <1>8, <2>3, <2>5
<1>10. QED BY <1>9

(* The range of a unit is one of k tiles. *)
LEMMA UnitRangeType ==
  ASSUME NEW u, NEW p, WholeParams(u, p), NEW c \in Nat, NEW r \in 0 .. Size(u) - 1,
         u.splits > 1 \/ u.sk_units > 0
  PROVE  LET range == UnitRange(u, c * Size(u) + r)
         IN  /\ range = UnitRange(u, c * Size(u))
             /\ range.start \in Int /\ range.end \in Int
<1>1. /\ Divisors(u) /\ u.kt \in Nat \ {0} /\ u.groups \in Nat \ {0} /\ u.splits \in Nat \ {0}
      /\ u.big_groups \in Int
  BY DEF WholeParams
<1>2. Size(u) \in Nat \ {0} BY <1>1, SizeIsPositive
<1>3. (c * Size(u) + r) \div Size(u) = c /\ (c * Size(u)) \div Size(u) = c
  <2>1. 0 \in 0 .. Size(u) - 1 /\ c * Size(u) \in Nat BY <1>2
  <2>2. (c * Size(u) + r) \div Size(u) = c /\ (c * Size(u) + 0) \div Size(u) = c
    BY <1>2, <2>1, DivModUnique
  <2>3. QED BY <2>1, <2>2
<1>4. CASE u.splits > 1
  <2>1. UnitRange(u, c * Size(u) + r) = SplitKRange(u, c)
        /\ UnitRange(u, c * Size(u)) = SplitKRange(u, c)
    BY <1>3, <1>4 DEF UnitRange
  <2>2. /\ u.clusters_mnl \in Nat \ {0}
        /\ u.k_tiles_per_sk_unit \in Int /\ u.big_units \in Int
    BY <1>4 DEF WholeParams
  <2> DEFINE split == c \div u.clusters_mnl
             tile == c % u.clusters_mnl
             start == u.kt * tile + u.k_tiles_per_sk_unit * split + Lesser(split, u.big_units)
  <2>3. split \in Nat /\ tile \in 0 .. u.clusters_mnl - 1 BY <2>2, DivMod
  <2>4. tile \in Int /\ split \in Int BY <2>2, <2>3
  <2>5. /\ SplitKRange(u, c).start = start
        /\ SplitKRange(u, c).end =
             start + u.k_tiles_per_sk_unit + IF split < u.big_units THEN 1 ELSE 0
    BY DEF SplitKRange
  <2> HIDE DEF split, tile
  <2>6. u.kt * tile \in Int /\ u.k_tiles_per_sk_unit * split \in Int
        /\ Lesser(split, u.big_units) \in Int
    BY <1>1, <2>2, <2>3, <2>4 DEF Lesser
  <2>7. QED BY <2>1, <2>2, <2>5, <2>6
<1>5. CASE ~(u.splits > 1)
  <2>1. UnitRange(u, c * Size(u) + r) = StreamKRange(u, c)
        /\ UnitRange(u, c * Size(u)) = StreamKRange(u, c)
    BY <1>3, <1>5 DEF UnitRange
  <2>2. u.units_per_group \in Nat \ {0} BY <1>5 DEF WholeParams
  <2>3. u.sk_tiles \in Int BY <1>2 DEF WholeParams, WholeMultiple
  <2> DEFINE group == c % u.groups
             unit  == c \div u.groups
             sk    == u.sk_tiles \div Size(u)
             tiles == sk \div u.groups + IF group < u.big_groups THEN 1 ELSE 0
             k_tiles  == tiles * Size(u) * u.kt
             per_unit == k_tiles \div u.units_per_group
             extra == k_tiles - per_unit * u.units_per_group
             big_units == extra \div Size(u)
             start == per_unit * unit + Lesser(unit, big_units)
             end   == start + per_unit + IF unit < big_units THEN 1 ELSE 0
  <2>4. group \in 0 .. u.groups - 1 /\ unit \in Nat BY <1>1, DivMod
  <2>5. sk \in Int BY <1>2, <2>3, IntDivMod
  <2> HIDE DEF sk, group, unit
  <2>6. tiles \in Int
    <3>1. sk \div u.groups \in Int BY <1>1, <2>5, IntDivMod
    <3> QED BY <3>1
  <2> HIDE DEF tiles
  <2>7. k_tiles \in Int BY <1>1, <1>2, <2>6
  <2> HIDE DEF k_tiles
  <2>8. per_unit \in Int BY <2>2, <2>7, IntDivMod
  <2> HIDE DEF per_unit
  <2>9. extra \in Int BY <2>2, <2>7, <2>8
  <2> HIDE DEF extra
  <2>10. big_units \in Int BY <1>2, <2>9, IntDivMod
  <2> HIDE DEF big_units
  <2>11. start \in Int /\ end \in Int
    <3>1. per_unit * unit \in Int /\ Lesser(unit, big_units) \in Int
      BY <2>4, <2>8, <2>10 DEF Lesser
    <3>2. QED BY <2>8, <3>1
  <2> HIDE DEF start, end
  <2>12. ASSUME NEW iter \in Int PROVE Adjusted(u, iter) \in Int
    <3>1. iter % u.kt \in 0 .. u.kt - 1 BY <1>1, IntDivMod
    <3>2. iter % u.kt \in Int BY <1>1, <3>1
    <3>3. QED BY <1>1, <3>2 DEF Adjusted, min_iters_per_sk_unit_
  <2>13. /\ StreamKRange(u, c).start = Adjusted(u, start)
         /\ StreamKRange(u, c).end = Adjusted(u, end)
    BY DEF StreamKRange, start, end, big_units, extra, per_unit, k_tiles, tiles, sk, group, unit
  <2>14. QED BY <2>1, <2>11, <2>12, <2>13
<1>6. QED BY <1>4, <1>5

(* What Fetched and FetchNextWork make of a block's record, for parameters *)
(* u and a grid of that size.                                              *)
FetchedUnit(u, bl, linear_idx) ==
  LET new == u.scheduler = "stream-K" /\ linear_idx < u.units_per_problem * u.splits
             /\ ~(u.splits = 1 /\ linear_idx >= u.sk_units)
  IN  [idx |-> linear_idx, work |-> CurrentWork(u, linear_idx),
       start |-> IF new THEN UnitRange(u, linear_idx).start ELSE bl.start,
       nth |-> bl.nth + 1, pc |-> "mainloop"]

NextUnit(u, size, bl) ==
  LET w == ContinueWork(u, bl.idx, bl.start, bl.work)
  IN  IF IsValid(w)
      THEN [bl EXCEPT !.work = w, !.nth = @ + 1, !.pc = "mainloop"]
      ELSE FetchedUnit(u, bl, bl.idx + size)

(* What a block has in common with its cluster, and its place in it. *)
UnitView(u, p, bl) ==
  [unit |-> bl.idx \div Size(u), start |-> bl.start, work |-> WorkView(p, bl.work)]

Placed(u, p, b, bl) ==
  /\ DOMAIN bl = {"idx", "work", "start", "nth", "pc"}
  /\ bl.idx \in Nat /\ bl.idx % Size(u) = b % Size(u)
  /\ bl.start \in Int
  /\ PlacedWork(u, p, b % Size(u), bl.work)

(* The blocks of a cluster that fetch a new unit fetch the same. *)
LEMMA FetchedTogether ==
  ASSUME NEW u, NEW p, WholeParams(u, p), NEW c \in Nat, NEW start \in Int
  PROVE  \E v : \A r \in 0 .. Size(u) - 1 : \A bl :
           bl.start = start =>
             LET new == FetchedUnit(u, bl, c * Size(u) + r)
             IN  /\ UnitView(u, p, new) = v
                 /\ new.start \in Int /\ PlacedWork(u, p, r, new.work)
<1>1. /\ Divisors(u) /\ u.splits \in Nat \ {0} /\ u.kt \in Nat \ {0} BY DEF WholeParams
<1>2. Size(u) \in Nat \ {0} /\ u.minor \in Nat \ {0} /\ u.major \in Nat \ {0}
  BY <1>1, SizeIsPositive
<1>3. PICK units \in Int : u.units_per_problem * u.splits = units * Size(u)
  BY DEF WholeParams, WholeMultiple
<1>4. PICK sk \in Int : u.sk_units = sk * Size(u) BY DEF WholeParams, WholeMultiple
<1>5. PICK tiles \in Int : u.sk_tiles = tiles * Size(u)
  BY DEF WholeParams, WholeMultiple
<1>6. \A r \in 0 .. Size(u) - 1 :
        /\ c * Size(u) + r >= u.units_per_problem * u.splits <=> c >= units
        /\ c * Size(u) + r < u.units_per_problem * u.splits <=> c < units
        /\ c * Size(u) + r >= u.sk_units <=> c >= sk
        /\ (c * Size(u) + r) \div Size(u) = c
  <2> TAKE r \in 0 .. Size(u) - 1
  <2> DEFINE i == c * Size(u) + r
  <2>1. (i >= units * Size(u) <=> c >= units) /\ (i >= sk * Size(u) <=> c >= sk)
    BY <1>2, SideOfBorder
  <2>2. i \in Int /\ units * Size(u) \in Int
    <3>1. c * Size(u) \in Int /\ r \in Int /\ units * Size(u) \in Int BY <1>2
    <3> QED
      BY <3>1
  <2>3. i \div Size(u) = c BY <1>2, DivModUnique
  <2> HIDE DEF i
  <2>4. (i < units * Size(u) <=> ~(i >= units * Size(u))) /\ (c < units <=> ~(c >= units))
    BY <2>2
  <2>5. QED BY <1>3, <1>4, <2>1, <2>3, <2>4 DEF i
<1>7. CASE c >= units
  <2>1. ASSUME NEW r \in 0 .. Size(u) - 1, NEW bl, bl.start = start
        PROVE  LET new == FetchedUnit(u, bl, c * Size(u) + r)
               IN  /\ UnitView(u, p, new) =
                        [unit |-> c, start |-> start, work |-> WorkView(p, InvalidWork)]
                   /\ new.start \in Int /\ PlacedWork(u, p, r, new.work)
    <3> DEFINE new == FetchedUnit(u, bl, c * Size(u) + r)
    <3>1. CurrentWork(u, c * Size(u) + r) = InvalidWork BY <1>6, <1>7 DEF CurrentWork
    <3>2. ~(c * Size(u) + r < u.units_per_problem * u.splits) BY <1>6, <1>7
    <3>3. new.idx = c * Size(u) + r /\ new.start = start /\ new.work = InvalidWork
      BY <2>1, <3>1, <3>2 DEF FetchedUnit
    <3> HIDE DEF new
    <3>4. UnitView(u, p, new) = [unit |-> c, start |-> start, work |-> WorkView(p, InvalidWork)]
      BY <1>6, <3>3 DEF UnitView
    <3>5. PlacedWork(u, p, r, new.work) BY <3>3 DEF PlacedWork, InvalidWork, IsValid
    <3>6. QED BY <3>3, <3>4, <3>5 DEF new
  <2>2. QED BY <2>1
<1>8. CASE c < units /\ u.splits = 1 /\ c >= sk
  <2> DEFINE x == c - sk + tiles
  <2>1. PICK w : \A r \in 0 .. Size(u) - 1, lo \in 0 .. u.minor - 1 :
           LET cta == BlockIdInCluster(u, r)
           IN  /\ WorkView(p, WorkOn(TileAt(u, x * Size(u) + Major(u, cta) * u.minor + lo, cta),
                                     0, u.kt, u.kt)) = w
               /\ PlacedWork(u, p, r,
                    WorkOn(TileAt(u, x * Size(u) + Major(u, cta) * u.minor + lo, cta),
                           0, u.kt, u.kt))
    <3>1. x \in Int /\ 0 \in Int /\ u.kt \in Int BY <1>1
    <3> HIDE DEF x
    <3>2. QED BY <3>1, OnTheirPlaces
  <2>2. ASSUME NEW r \in 0 .. Size(u) - 1, NEW bl, bl.start = start
        PROVE  LET new == FetchedUnit(u, bl, c * Size(u) + r)
               IN  /\ UnitView(u, p, new) = [unit |-> c, start |-> start, work |-> w]
                   /\ new.start \in Int /\ PlacedWork(u, p, r, new.work)
    <3> DEFINE i == c * Size(u) + r
               new == FetchedUnit(u, bl, i)
               cta == BlockIdInCluster(u, r)
               id == x * Size(u) + Major(u, cta) * u.minor + (r % u.minor)
    <3>1. /\ BlockIdInCluster(u, i) = cta
          /\ r % u.minor \in 0 .. u.minor - 1
          /\ Major(u, cta) = r \div u.minor /\ r \div u.minor \in 0 .. u.major - 1
          /\ r = (r \div u.minor) * u.minor + (r % u.minor)
      BY <1>1, PlaceInCluster
    <3>2. i - u.sk_units + u.sk_tiles = id
      <4> DEFINE hi == r \div u.minor
                 lo == r % u.minor
      <4>1. x * Size(u) = c * Size(u) - sk * Size(u) + tiles * Size(u) BY <1>2
      <4>2. /\ c * Size(u) \in Int /\ sk * Size(u) \in Int /\ tiles * Size(u) \in Int
            /\ hi * u.minor \in Int /\ lo \in Int
        <5>1. hi \in 0 .. u.major - 1 /\ lo \in 0 .. u.minor - 1 BY <3>1
        <5> HIDE DEF hi, lo
        <5>2. hi \in Int /\ lo \in Int BY <1>2, <5>1
        <5>3. QED BY <1>2, <5>2
      <4>3. r = hi * u.minor + lo /\ Major(u, cta) = hi BY <3>1
      <4> HIDE DEF hi, lo, x, cta
      <4>4. QED BY <1>4, <1>5, <4>1, <4>2, <4>3 DEF hi, lo
    <3> HIDE DEF x
    <3>3. CurrentWork(u, i) = WorkOn(TileAt(u, id, cta), 0, u.kt, u.kt)
      BY <1>6, <1>8, <3>1, <3>2 DEF CurrentWork, WholeTile
    <3>4. ~(u.scheduler = "stream-K" /\ i < u.units_per_problem * u.splits
             /\ ~(u.splits = 1 /\ i >= u.sk_units))
      BY <1>6, <1>8
    <3>5. new.idx = i /\ new.start = start /\ new.work = CurrentWork(u, i)
      BY <2>2, <3>4 DEF FetchedUnit
    <3>6. WorkView(p, new.work) = w /\ PlacedWork(u, p, r, new.work)
      BY <2>1, <3>1, <3>3, <3>5
    <3> HIDE DEF new
    <3>7. UnitView(u, p, new) = [unit |-> c, start |-> start, work |-> w]
      BY <1>6, <3>5, <3>6 DEF UnitView
    <3>8. QED BY <3>5, <3>6, <3>7 DEF new
  <2>3. QED BY <2>2
<1>9. CASE c < units /\ ~(u.splits = 1 /\ c >= sk)
  <2> DEFINE range == UnitRange(u, c * Size(u))
             first == IF u.scheduler = "stream-K" THEN range.start ELSE start
  <2>1. u.splits > 1 \/ u.sk_units > 0
    <3>1. CASE u.splits = 1
      <4>1. ~(c * Size(u) + 0 >= u.sk_units) BY <1>2, <1>6, <1>9, <3>1
      <4>2. c * Size(u) \in Nat /\ u.sk_units \in Int BY <1>2, <1>4
      <4>3. QED BY <4>1, <4>2
    <3>2. QED BY <1>1, <3>1
  <2>2. \A r \in 0 .. Size(u) - 1 : UnitRange(u, c * Size(u) + r) = range
    BY <2>1, UnitRangeType
  <2>3. range.start \in Int /\ range.end \in Int
    <3>1. 0 \in 0 .. Size(u) - 1 BY <1>2
    <3>2. UnitRange(u, c * Size(u) + 0).start \in Int /\ UnitRange(u, c * Size(u) + 0).end \in Int
      BY <2>1, <3>1, UnitRangeType
    <3>3. QED BY <2>2, <3>1, <3>2
  <2> HIDE DEF range
  <2>4. range.end - range.start \in Int BY <2>3
  <2>5. PICK w : \A r \in 0 .. Size(u) - 1 :
           LET work == LastTile(u, c * Size(u) + r, range.start, range.end - range.start)
           IN  WorkView(p, work) = w /\ PlacedWork(u, p, r, work)
    BY <2>3, <2>4, LastTileTogether
  <2>6. ASSUME NEW r \in 0 .. Size(u) - 1, NEW bl, bl.start = start
        PROVE  LET new == FetchedUnit(u, bl, c * Size(u) + r)
               IN  /\ UnitView(u, p, new) = [unit |-> c, start |-> first, work |-> w]
                   /\ new.start \in Int /\ PlacedWork(u, p, r, new.work)
    <3> DEFINE i == c * Size(u) + r
               new == FetchedUnit(u, bl, i)
    <3>1. CurrentWork(u, i) = LastTile(u, i, range.start, range.end - range.start)
      <4>1. /\ ~(i >= u.units_per_problem * u.splits)
            /\ ~(u.splits = 1 /\ i >= u.sk_units)
        BY <1>6, <1>9
      <4>2. QED BY <2>2, <4>1 DEF CurrentWork
    <3>2. new.idx = i /\ new.start = first /\ new.work = CurrentWork(u, i)
      BY <1>6, <1>9, <2>2, <2>6 DEF FetchedUnit
    <3>3. WorkView(p, new.work) = w /\ PlacedWork(u, p, r, new.work) BY <2>5, <3>1, <3>2
    <3> HIDE DEF new
    <3>4. UnitView(u, p, new) = [unit |-> c, start |-> first, work |-> w]
      BY <1>6, <3>2, <3>3 DEF UnitView
    <3>5. first \in Int BY <2>3
    <3>6. QED BY <3>2, <3>3, <3>4, <3>5 DEF new
  <2>7. QED BY <2>6
<1>10. QED BY <1>6, <1>7, <1>8, <1>9

(* Blocks of a cluster that are together go on to the same work. *)
LEMMA NextTogether ==
  ASSUME NEW u, NEW p, WholeParams(u, p), NEW size \in Nat, WholeMultiple(size, Size(u)),
         NEW b \in Nat, NEW d \in Nat, NEW x, NEW y, Placed(u, p, b, x), Placed(u, p, d, y),
         UnitView(u, p, x) = UnitView(u, p, y)
  PROVE  /\ UnitView(u, p, NextUnit(u, size, x)) = UnitView(u, p, NextUnit(u, size, y))
         /\ Placed(u, p, b, NextUnit(u, size, x))
<1> DEFINE c == x.idx \div Size(u)
           r == b % Size(u)
           s == d % Size(u)
           left == x.work.remaining - x.work.count
<1>1. Divisors(u) /\ Size(u) \in Nat \ {0} BY SizeIsPositive DEF WholeParams
<1>2. /\ x.idx \in Nat /\ x.idx % Size(u) = r /\ y.idx \in Nat /\ y.idx % Size(u) = s
      /\ x.start \in Int /\ x.work.remaining \in Int /\ x.work.count \in Int
      /\ DOMAIN x = {"idx", "work", "start", "nth", "pc"}
      /\ DOMAIN y = {"idx", "work", "start", "nth", "pc"}
  BY DEF Placed, PlacedWork
<1>3. /\ y.idx \div Size(u) = c /\ y.start = x.start
      /\ y.work.remaining = x.work.remaining /\ y.work.count = x.work.count
  BY DEF UnitView, WorkView
<1>4. /\ c \in Nat /\ r \in 0 .. Size(u) - 1 /\ s \in 0 .. Size(u) - 1
      /\ x.idx = c * Size(u) + r /\ y.idx = c * Size(u) + s
  <2>1. c \in Nat /\ x.idx % Size(u) \in 0 .. Size(u) - 1
        /\ x.idx = c * Size(u) + (x.idx % Size(u))
    BY <1>1, <1>2, DivMod
  <2>2. y.idx % Size(u) \in 0 .. Size(u) - 1
        /\ y.idx = (y.idx \div Size(u)) * Size(u) + (y.idx % Size(u))
    BY <1>1, <1>2, DivMod
  <2> HIDE DEF c, r, s
  <2>3. QED BY <1>2, <1>3, <2>1, <2>2
<1>5. PICK j \in Int : size = j * Size(u) BY DEF WholeMultiple
<1> HIDE DEF c, r, s
<1>6. /\ c + j \in Nat
      /\ x.idx + size = (c + j) * Size(u) + r /\ y.idx + size = (c + j) * Size(u) + s
  <2>1. j >= 0
    <3>1. SUFFICES ASSUME j < 0 PROVE FALSE BY <1>5
    <3>2. -j - 1 \in Nat BY <1>5, <3>1
    <3>3. (-j - 1) * Size(u) \in Nat /\ (-j - 1) * Size(u) = -(j * Size(u)) - Size(u)
      BY <1>1, <3>2
    <3>4. j * Size(u) \in Int BY <1>1, <1>5
    <3>5. QED BY <1>1, <1>5, <3>3, <3>4
  <2>2. (c + j) * Size(u) = c * Size(u) + j * Size(u) BY <1>1, <1>4, <1>5
  <2>3. c * Size(u) \in Int /\ j * Size(u) \in Int /\ r \in Int /\ s \in Int
    BY <1>1, <1>4, <1>5
  <2>4. QED BY <1>4, <1>5, <2>1, <2>2, <2>3
<1> DEFINE go_on == ~(u.scheduler = "static" \/ left = 0)
<1>7. left \in Int BY <1>2
<1>8. PICK v : \A t \in 0 .. Size(u) - 1 :
        LET w == LastTile(u, c * Size(u) + t, x.start, left)
        IN  WorkView(p, w) = v /\ PlacedWork(u, p, t, w)
  BY <1>2, <1>4, <1>7, LastTileTogether
<1>9. PICK f : \A t \in 0 .. Size(u) - 1 : \A bl :
        bl.start = x.start =>
          LET new == FetchedUnit(u, bl, (c + j) * Size(u) + t)
          IN  /\ UnitView(u, p, new) = f
              /\ new.start \in Int /\ PlacedWork(u, p, t, new.work)
  <2> DEFINE e == c + j
  <2>1. e \in Nat BY <1>6
  <2> HIDE DEF e
  <2>2. \E f : \A t \in 0 .. Size(u) - 1 : \A bl :
          bl.start = x.start =>
            LET new == FetchedUnit(u, bl, e * Size(u) + t)
            IN  /\ UnitView(u, p, new) = f
                /\ new.start \in Int /\ PlacedWork(u, p, t, new.work)
    BY <1>2, <2>1, FetchedTogether
  <2>3. QED BY <2>2 DEF e
<1> DEFINE Work(i) == LastTile(u, i, x.start, left)
           more == go_on /\ v.count > 0
<1>10. left = 0 <=> x.work.remaining = x.work.count BY <1>2
<1> HIDE DEF left
<1>11. CASE more
  <2>1. /\ ContinueWork(u, x.idx, x.start, x.work) = Work(x.idx)
        /\ ContinueWork(u, y.idx, y.start, y.work) = Work(y.idx)
    BY <1>3, <1>10, <1>11 DEF ContinueWork, left
  <2>2. /\ WorkView(p, Work(x.idx)) = v /\ PlacedWork(u, p, r, Work(x.idx))
        /\ WorkView(p, Work(y.idx)) = v
    BY <1>4, <1>8
  <2>3. IsValid(Work(x.idx)) /\ IsValid(Work(y.idx))
    BY <1>11, <2>2 DEF IsValid, WorkView
  <2> DEFINE nx == [x EXCEPT !.work = Work(x.idx), !.nth = @ + 1, !.pc = "mainloop"]
             ny == [y EXCEPT !.work = Work(y.idx), !.nth = @ + 1, !.pc = "mainloop"]
  <2>4. NextUnit(u, size, x) = nx /\ NextUnit(u, size, y) = ny
    BY <2>1, <2>3 DEF NextUnit
  <2> HIDE DEF Work
  <2>5. /\ nx.idx = x.idx /\ nx.start = x.start /\ nx.work = Work(x.idx)
        /\ ny.idx = y.idx /\ ny.start = y.start /\ ny.work = Work(y.idx)
        /\ DOMAIN nx = {"idx", "work", "start", "nth", "pc"}
    BY <1>2
  <2> HIDE DEF nx, ny
  <2>6. UnitView(u, p, nx) = UnitView(u, p, ny) BY <1>3, <2>2, <2>5 DEF UnitView, c
  <2>7. Placed(u, p, b, nx) BY <1>2, <2>2, <2>5 DEF Placed, r
  <2>8. QED BY <2>4, <2>6, <2>7
<1>12. CASE ~more
  <2>1. ~IsValid(ContinueWork(u, x.idx, x.start, x.work))
        /\ ~IsValid(ContinueWork(u, y.idx, y.start, y.work))
    <3>1. CASE ~go_on BY <1>3, <1>10, <3>1 DEF ContinueWork, InvalidWork, IsValid
    <3>2. CASE go_on
      <4>1. /\ ContinueWork(u, x.idx, x.start, x.work) = Work(x.idx)
            /\ ContinueWork(u, y.idx, y.start, y.work) = Work(y.idx)
        BY <1>3, <1>10, <3>2 DEF ContinueWork, left
      <4>2. WorkView(p, Work(x.idx)) = v /\ WorkView(p, Work(y.idx)) = v BY <1>4, <1>8
      <4>3. QED BY <1>12, <3>2, <4>1, <4>2 DEF IsValid, WorkView
    <3>3. QED BY <3>1, <3>2
  <2> DEFINE nx == FetchedUnit(u, x, x.idx + size)
             ny == FetchedUnit(u, y, y.idx + size)
  <2>2. NextUnit(u, size, x) = nx /\ NextUnit(u, size, y) = ny BY <2>1 DEF NextUnit
  <2>3. /\ UnitView(u, p, nx) = f /\ nx.start \in Int /\ PlacedWork(u, p, r, nx.work)
        /\ UnitView(u, p, ny) = f
    BY <1>3, <1>4, <1>6, <1>9
  <2>4. nx.idx = x.idx + size /\ DOMAIN nx = {"idx", "work", "start", "nth", "pc"}
    BY DEF FetchedUnit
  <2> HIDE DEF nx, ny
  <2>5. nx.idx \in Nat /\ nx.idx % Size(u) = r
    <3>1. ((c + j) * Size(u) + r) % Size(u) = r BY <1>1, <1>4, <1>6, DivModUnique
    <3>2. x.idx + size \in Nat BY <1>2
    <3>3. QED BY <1>6, <2>4, <3>1, <3>2
  <2>6. Placed(u, p, b, nx) BY <2>3, <2>4, <2>5 DEF Placed, r
  <2>7. QED BY <2>2, <2>3, <2>6
<1>13. QED BY <1>11, <1>12

-----------------------------------------------------------------------------
(* 5. The parameters of a launched kernel are made of whole clusters.      *)

(* The sides of a cluster. *)
Sides == {1, 2, 4, 8, 16}

LEMMA ProblemType ==
  ASSUME NEW p \in Problems
  PROVE  /\ Problem(p)
         /\ p.cm \in Sides /\ p.cn \in Sides /\ p.cm * p.cn <= 16
         /\ p.kt \in Nat \ {0} /\ p.splits \in Nat \ {0}
         /\ p.sm_count \in Nat \ {0} /\ p.sm_count >= p.cm * p.cn
         /\ p.max_active_clusters \in Nat /\ p.scheduler \in {"static", "stream-K"}
  BY PersistentGemmAssumption DEF Problem, ClusterSize, Sides

(* The parameters of the underlying scheduler and what is joined to them. *)
Underlying(p) ==
  Joined(UnderlyingParams(p), [kt |-> p.kt, deterministic |-> p.deterministic,
                               scheduler |-> p.scheduler])

Same(u, v) ==
  /\ u.blocks_per_problem = v.blocks_per_problem /\ u.along_n = v.along_n
  /\ u.batch = v.batch /\ u.major = v.major /\ u.minor = v.minor
  /\ u.swizzle = v.swizzle /\ u.blk_major = v.blk_major /\ u.tiles = v.tiles

LEMMA UnderlyingFields ==
  ASSUME NEW p
  PROVE  /\ Same(Underlying(p), UnderlyingParams(p))
         /\ Underlying(p).kt = p.kt /\ Underlying(p).scheduler = p.scheduler
         /\ DOMAIN Underlying(p) = {"blocks_per_problem", "tiles", "swizzle", "along_n", "batch",
                                    "major", "minor", "blk_major", "kt", "deterministic",
                                    "scheduler"}
  BY DEF Underlying, UnderlyingParams, Joined, Same

LEMMA BasicFields ==
  ASSUME NEW p, NEW splits
  PROVE  LET u == ParamsBasic(p, Underlying(p), splits)
         IN  /\ Same(u, UnderlyingParams(p)) /\ u.kt = p.kt /\ u.scheduler = p.scheduler
             /\ u.units_per_problem = u.blocks_per_problem /\ u.splits = splits
             /\ u.clusters_mnl = u.blocks_per_problem \div ClusterSize(p)
             /\ u.k_tiles_per_sk_unit = p.kt \div splits /\ u.big_units = p.kt % splits
             /\ u.sk_tiles = 0 /\ u.sk_units = 0
             /\ u.groups = 1 /\ u.units_per_group = 1 /\ u.big_groups = 0
<1>1. /\ Same(Underlying(p), UnderlyingParams(p))
      /\ Underlying(p).kt = p.kt /\ Underlying(p).scheduler = p.scheduler
      /\ DOMAIN Underlying(p) = {"blocks_per_problem", "tiles", "swizzle", "along_n", "batch",
                              "major", "minor", "blk_major", "kt", "deterministic", "scheduler"}
  BY UnderlyingFields
<1>2. QED BY <1>1 DEF ParamsBasic, Joined, Same

LEMMA StreamKFields ==
  ASSUME NEW p, NEW sk_tiles, NEW sk_units, NEW groups
  PROVE  LET u == ParamsStreamK(p, Underlying(p), sk_tiles, sk_units, groups)
         IN  /\ Same(u, UnderlyingParams(p)) /\ u.kt = p.kt /\ u.scheduler = p.scheduler
             /\ u.units_per_problem = u.blocks_per_problem - sk_tiles + sk_units /\ u.splits = 1
             /\ u.sk_tiles = sk_tiles /\ u.sk_units = sk_units
             /\ u.groups = groups /\ u.units_per_group = sk_units \div groups
             /\ u.big_groups = (sk_tiles \div ClusterSize(p)) % groups
<1>1. /\ Same(Underlying(p), UnderlyingParams(p))
      /\ Underlying(p).kt = p.kt /\ Underlying(p).scheduler = p.scheduler
      /\ DOMAIN Underlying(p) = {"blocks_per_problem", "tiles", "swizzle", "along_n", "batch",
                              "major", "minor", "blk_major", "kt", "deterministic", "scheduler"}
  BY UnderlyingFields
<1>2. QED BY <1>1 DEF ParamsStreamK, Joined, Same

(* A batch, and all batches, are whole clusters. *)
LEMMA BlocksAreWhole ==
  ASSUME NEW p \in Problems
  PROVE  LET u == UnderlyingParams(p)
         IN  /\ Divisors(u) /\ u.along_n \in BOOLEAN
             /\ u.minor = (IF u.along_n THEN p.cm ELSE p.cn)
             /\ u.major = (IF u.along_n THEN p.cn ELSE p.cm)
             /\ Size(u) = ClusterSize(p) /\ ClusterSize(p) \in Nat \ {0}
             /\ \E clusters \in Nat \ {0} : u.batch = clusters * Size(u)
             /\ \E clusters \in Nat \ {0} : u.blocks_per_problem = clusters * Size(u)
<1> DEFINE u == UnderlyingParams(p)
           b == Swizzled(p, TiledCtaShape(p))
<1> USE DEF Sides
<1>1. /\ Problem(p) /\ p.cm \in Sides /\ p.cn \in Sides /\ p.l \in Nat \ {0}
  BY ProblemType DEF Problem
<1>2. /\ u.along_n = AlongN(p, b) /\ u.batch = b.m * b.n
      /\ u.minor = (IF u.along_n THEN p.cm ELSE p.cn)
      /\ u.major = (IF u.along_n THEN p.cn ELSE p.cm)
      /\ u.blocks_per_problem = u.batch * b.l /\ b.l = p.l
  BY DEF UnderlyingParams, BlocksIn, Swizzled, TiledCtaShape
<1>3. Divisors(u) /\ \E rows : WholeGroups(u, rows) BY <1>1, ParamsAreWhole
<1> HIDE DEF u, b
<1>4. u.along_n \in BOOLEAN BY <1>2 DEF AlongN
<1>5. Size(u) = ClusterSize(p) /\ Size(u) \in Nat \ {0}
  <2>1. Size(u) = ClusterSize(p) BY <1>1, <1>2, <1>4 DEF Size, ClusterSize
  <2>2. QED BY <1>3, <2>1, SizeIsPositive
<1>6. PICK clusters \in Nat \ {0} : u.batch = clusters * Size(u)
  <2>1. PICK rows : WholeGroups(u, rows) BY <1>3
  <2> DEFINE k == (rows * u.blk_major) * u.swizzle
  <2>2. /\ rows \in Nat \ {0} /\ u.blk_major \in Nat \ {0} /\ u.swizzle \in Nat \ {0}
        /\ u.minor \in Nat \ {0} /\ u.major \in Nat \ {0}
    BY <1>3, <2>1 DEF WholeGroups, Divisors
  <2>3. k \in Nat \ {0}
    <3>1. rows * u.blk_major \in Nat \ {0} BY <2>2, ProductPositive
    <3>2. QED BY <2>2, <3>1, ProductPositive
  <2>4. u.batch = (k * u.major) * u.minor BY <2>1 DEF WholeGroups
  <2> HIDE DEF k
  <2>5. u.batch = k * Size(u) BY <2>2, <2>3, <2>4 DEF Size
  <2>6. QED BY <2>3, <2>5
<1>7. clusters * p.l \in Nat \ {0} BY <1>1, ProductPositive
<1>8. u.blocks_per_problem = (clusters * p.l) * Size(u) BY <1>1, <1>2, <1>5, <1>6
<1>9. QED BY <1>2, <1>3, <1>4, <1>5, <1>6, <1>7, <1>8 DEF u

(* A grid has blocks, whatever the problem and the device. *)
LEMMA GridType ==
  ASSUME NEW p \in Problems, NEW truncate \in BOOLEAN, NEW bypass \in BOOLEAN
  PROVE  LET g == GridShape(p, TiledCtaShape(p), truncate, bypass)
         IN  g.x \in Nat \ {0} /\ g.y \in Nat \ {0}
<1> DEFINE b == Swizzled(p, TiledCtaShape(p))
           minor == IF AlongN(p, b) THEN p.cm ELSE p.cn
           major == IF AlongN(p, b) THEN p.cn ELSE p.cm
           ctas  == IF bypass THEN p.sm_count ELSE MaxCtaOccupancy(p)
           Fit(x, y) == IF truncate THEN Lesser(x, y) ELSE x
           blocks == BlocksIn(b)
           g == GridShape(p, TiledCtaShape(p), truncate, bypass)
<1> USE DEF Sides
<1>1. /\ p.cm \in Sides /\ p.cn \in Sides /\ p.sm_count \in Nat \ {0}
      /\ p.cm * p.cn <= 16 /\ p.sm_count >= p.cm * p.cn /\ p.max_active_clusters \in Nat
  BY ProblemType
<1>2. minor \in Sides /\ major \in Sides /\ p.sm_count >= minor
      /\ p.cm * p.cn = minor * major
  BY <1>1
<1>3. blocks \in Nat /\ blocks >= minor
  <2>1. UnderlyingParams(p).blocks_per_problem = blocks BY DEF UnderlyingParams
  <2>2. PICK k \in Nat \ {0} : blocks = k * Size(UnderlyingParams(p))
    BY <2>1, BlocksAreWhole
  <2>3. Size(UnderlyingParams(p)) = minor * major
    BY <1>2, BlocksAreWhole DEF ClusterSize
  <2> HIDE DEF blocks
  <2>4. k * (minor * major) >= minor /\ k * (minor * major) \in Nat BY <1>2
  <2>5. QED BY <2>2, <2>3, <2>4
<1>4. ctas \in Nat /\ ctas >= minor
  <2>1. ClusterSize(p) \in {1, 2, 4, 8, 16} /\ ClusterSize(p) >= minor
        /\ p.sm_count >= ClusterSize(p)
    BY <1>1 DEF ClusterSize
  <2> DEFINE few  == p.sm_count < max_sm_per_gpc
             gpcs == IF few THEN 1 ELSE p.sm_count \div max_sm_per_gpc
             rest == IF few THEN 0 ELSE p.sm_count % max_sm_per_gpc
             one  == max_sm_per_gpc - (max_sm_per_gpc % ClusterSize(p))
             last == rest - (rest % ClusterSize(p))
  <2>2. gpcs \in Nat \ {0} /\ rest \in Nat BY <1>1 DEF max_sm_per_gpc
  <2>3. one \in Nat /\ one >= ClusterSize(p) BY <2>1 DEF max_sm_per_gpc
  <2>4. last \in Nat
    <3> HIDE DEF rest
    <3>1. \A d \in {1, 2, 4, 8, 16} : rest - (rest % d) \in Nat BY <2>2
    <3>2. QED BY <2>1, <3>1
  <2>5. MaxCtaOccupancy(p) = Lesser(p.sm_count, gpcs * one + last)
    BY DEF MaxCtaOccupancy
  <2> HIDE DEF gpcs, one, last
  <2>6. gpcs * one \in Nat /\ gpcs * one >= one BY <2>2, <2>3
  <2>7. MaxCtaOccupancy(p) \in Nat /\ MaxCtaOccupancy(p) >= minor
    BY <1>1, <1>2, <2>1, <2>3, <2>4, <2>5, <2>6 DEF Lesser
  <2>8. QED BY <1>1, <1>2, <2>7
<1> HIDE DEF ctas, blocks
<1>5. ctas \div minor \in Nat \ {0} /\ blocks \div minor \in Nat \ {0}
  BY <1>2, <1>3, <1>4
<1>6. Fit(p.sm_count, blocks) \in Nat \ {0}
      /\ (p.max_active_clusters # 0 => p.max_active_clusters * major \in Nat \ {0})
  BY <1>1, <1>2, <1>3 DEF Lesser
<1>7. Fit(ctas \div minor, blocks \div minor) \in Nat \ {0} BY <1>5 DEF Lesser
<1> DEFINE known == /\ ClusterSize(p) > 1
                    /\ p.max_active_clusters # 0
                    /\ p.max_active_clusters * ClusterSize(p) <= p.sm_count
           len == CASE ClusterSize(p) = 1 -> Fit(p.sm_count, blocks)
                    [] known -> p.max_active_clusters * major
                    [] OTHER -> Fit(ctas \div minor, blocks \div minor)
<1>8. g = IF AlongN(p, b) THEN [x |-> minor, y |-> len] ELSE [x |-> len, y |-> minor]
  BY DEF GridShape, ctas, blocks
<1>9. \/ len = Fit(p.sm_count, blocks)
      \/ len = p.max_active_clusters * major /\ p.max_active_clusters # 0
      \/ len = Fit(ctas \div minor, blocks \div minor)
  <2>1. CASE ClusterSize(p) = 1 BY <2>1
  <2>2. CASE ClusterSize(p) # 1 /\ known BY <2>2
  <2>3. CASE ClusterSize(p) # 1 /\ ~known BY <2>3
  <2>4. QED BY <2>1, <2>2, <2>3
<1> HIDE DEF len
<1>10. len \in Nat \ {0} BY <1>6, <1>7, <1>9
<1> HIDE DEF minor, g
<1>11. QED BY <1>2, <1>8, <1>10 DEF g

(* A grid of whole clusters has a whole number of them. *)
LEMMA GridIsWhole ==
  ASSUME NEW p \in Problems, NEW x \in Int, NEW y \in Int, x % p.cm = 0, y % p.cn = 0
  PROVE  WholeMultiple(x * y, ClusterSize(p))
<1>1. p.cm \in Nat \ {0} /\ p.cn \in Nat \ {0} BY ProblemType DEF Sides
<1> DEFINE i == x \div p.cm
           j == y \div p.cn
<1>2. i \in Int /\ x = i * p.cm + (x % p.cm) BY <1>1, IntDivMod
<1>3. j \in Int /\ y = j * p.cn + (y % p.cn) BY <1>1, IntDivMod
<1> HIDE DEF i, j
<1>4. x = i * p.cm /\ y = j * p.cn BY <1>1, <1>2, <1>3
<1>5. x * y = (i * j) * (p.cm * p.cn) /\ i * j \in Int BY <1>1, <1>2, <1>3, <1>4
<1>6. QED BY <1>5 DEF WholeMultiple, ClusterSize

(* The tiles that stream-K divides are whole clusters, if a wave is. *)
LEMMA SkTilesAreWhole ==
  ASSUME NEW p \in Problems, NEW tiles \in Nat, WholeMultiple(tiles, ClusterSize(p)),
         NEW wave \in Nat \ {0}, WholeMultiple(wave, ClusterSize(p))
  PROVE  /\ NumSkTiles(p, tiles, wave) \in 0 .. tiles
         /\ WholeMultiple(NumSkTiles(p, tiles, wave), ClusterSize(p))
<1> DEFINE full_waves == tiles \div wave
           dp_waves   == IF full_waves > 1 THEN full_waves - 1 ELSE 0
           sk == tiles - dp_waves * wave
<1>1. ClusterSize(p) \in Nat \ {0} BY BlocksAreWhole
<1>2. full_waves \in Nat /\ tiles % wave \in 0 .. wave - 1
      /\ tiles = full_waves * wave + (tiles % wave)
  BY DivMod
<1> HIDE DEF full_waves
<1>3. dp_waves \in Nat /\ full_waves - dp_waves \in Nat BY <1>2
<1>4. sk \in 0 .. tiles
  <2>1. (full_waves - dp_waves) * wave \in Nat BY <1>3
  <2>2. (full_waves - dp_waves) * wave = full_waves * wave - dp_waves * wave
    BY <1>2, <1>3
  <2>3. full_waves * wave \in Int /\ dp_waves * wave \in Nat /\ tiles % wave \in Nat
    BY <1>2, <1>3
  <2> HIDE DEF dp_waves
  <2>4. QED BY <1>2, <2>1, <2>2, <2>3
<1>5. WholeMultiple(sk, ClusterSize(p))
  <2>1. PICK j \in Int : wave = j * ClusterSize(p) BY DEF WholeMultiple
  <2>2. dp_waves * wave = (dp_waves * j) * ClusterSize(p) /\ dp_waves * j \in Int
    BY <1>1, <1>3, <2>1
  <2>3. WholeMultiple(dp_waves * wave, ClusterSize(p)) BY <2>2 DEF WholeMultiple
  <2> HIDE DEF dp_waves
  <2>4. QED BY <1>1, <2>3, WholeSum
<1>6. NumSkTiles(p, tiles, wave) \in {0, sk} BY DEF NumSkTiles, full_waves
<1>7. WholeMultiple(0, ClusterSize(p))
  <2>1. 0 = 0 * ClusterSize(p) BY <1>1
  <2>2. QED BY <2>1 DEF WholeMultiple
<1>8. QED BY <1>4, <1>5, <1>6, <1>7

(* So are the units. *)
LEMMA SkUnitsAreWhole ==
  ASSUME NEW p \in Problems, NEW wave \in Nat, NEW sk_tiles \in Nat
  PROVE  /\ NumSkUnits(p, wave, sk_tiles) \in Nat
         /\ \E k \in Nat : NumSkUnits(p, wave, sk_tiles) = k * ClusterSize(p)
<1> DEFINE InClusters(ctas) == (ctas \div ClusterSize(p)) * ClusterSize(p)
           iters == (p.kt * sk_tiles) \div min_iters_per_sk_unit_
<1>1. ClusterSize(p) \in Nat \ {0} /\ p.kt \in Nat BY BlocksAreWhole, ProblemType
<1>2. iters \in Nat
  <2>1. p.kt * sk_tiles \in Nat BY <1>1
  <2>2. QED BY <2>1 DEF min_iters_per_sk_unit_
<1>3. NumSkUnits(p, wave, sk_tiles) \in {InClusters(wave), InClusters(iters)}
  BY DEF NumSkUnits, Lesser
<1> HIDE DEF iters
<1>4. wave \div ClusterSize(p) \in Nat /\ iters \div ClusterSize(p) \in Nat
  BY <1>1, <1>2, DivMod
<1> DEFINE i == wave \div ClusterSize(p)
           j == iters \div ClusterSize(p)
<1>5. NumSkUnits(p, wave, sk_tiles) \in {i * ClusterSize(p), j * ClusterSize(p)} BY <1>3
<1> HIDE DEF i, j
<1>6. i \in Nat /\ j \in Nat BY <1>4 DEF i, j
<1>7. i * ClusterSize(p) \in Nat /\ j * ClusterSize(p) \in Nat BY <1>1, <1>6
<1>8. QED BY <1>5, <1>6, <1>7

(* Among at most eight numbers there is a largest. *)
LEMMA LargestExists ==
  ASSUME NEW S, S # {}, \A g \in S : g \in 1 .. 8
  PROVE  \E g \in S : \A h \in S : h <= g
<1>1. CASE 8 \in S BY <1>1
<1>2. CASE 7 \in S /\ 8 \notin S BY <1>2
<1>3. CASE 6 \in S /\ 8 \notin S /\ 7 \notin S BY <1>3
<1>4. CASE 5 \in S /\ 8 \notin S /\ 7 \notin S /\ 6 \notin S BY <1>4
<1>5. CASE 4 \in S /\ 8 \notin S /\ 7 \notin S /\ 6 \notin S /\ 5 \notin S BY <1>5
<1>6. CASE 3 \in S /\ 8 \notin S /\ 7 \notin S /\ 6 \notin S /\ 5 \notin S /\ 4 \notin S
  BY <1>6
<1>7. CASE 2 \in S /\ 8 \notin S /\ 7 \notin S /\ 6 \notin S /\ 5 \notin S /\ 4 \notin S /\ 3 \notin S
  BY <1>7
<1>8. CASE 1 \in S /\ 8 \notin S /\ 7 \notin S /\ 6 \notin S /\ 5 \notin S /\ 4 \notin S /\ 3 \notin S /\ 2 \notin S
  BY <1>8
<1>9. 1 \in S \/ 2 \in S \/ 3 \in S \/ 4 \in S \/ 5 \in S \/ 6 \in S \/ 7 \in S \/ 8 \in S
  OBVIOUS
<1>10. QED BY <1>1, <1>2, <1>3, <1>4, <1>5, <1>6, <1>7, <1>8, <1>9

(* Each of g groups has as many of the clusters. *)
WholeGrouping(g, clusters, size) ==
  /\ g \in Nat \ {0} /\ (clusters * size) \div g \in Nat \ {0}
  /\ \E k \in Nat \ {0} : clusters = k * g /\ (clusters * size) \div g = k * size

(* The grouping is one of at most eight groups, with as many clusters.     *)
LEMMA GroupsType ==
  ASSUME NEW p, NEW b, NEW sk_tiles, NEW clusters \in Nat \ {0},
         NEW size \in Nat \ {0}, ClusterSize(p) = size,
         (IF AlongN(p, b) THEN b.n \div p.cn ELSE b.m \div p.cm) \in Nat
  PROVE  WholeGrouping(Groups(p, b, sk_tiles, clusters * size), clusters, size)
<1> DEFINE sk_units == clusters * size
           max_groups == Lesser(max_sk_groups_, IF AlongN(p, b) THEN b.n \div p.cn ELSE b.m \div p.cm)
           cluster_tiles == sk_tiles \div ClusterSize(p)
           cluster_units == sk_units \div ClusterSize(p)
           SplitsTooSmall(g) ==
             ((cluster_tiles \div g) * ClusterSize(p) * p.kt) \div (sk_units \div g)
               < min_iters_per_sk_unit_
           valid == {g \in 2 .. max_groups : cluster_units % g = 0 /\ ~SplitsTooSmall(g)}
           ideal == {g \in valid : cluster_tiles % g = 0}
           all == IF ideal # {} THEN ideal ELSE valid \cup {1}
<1>1. cluster_units = clusters
  <2>1. (clusters * size + 0) \div size = clusters
    <3>1. 0 \in 0 .. size - 1 OBVIOUS
    <3>2. QED BY <3>1, DivModUnique
  <2>2. clusters * size + 0 = clusters * size OBVIOUS
  <2>3. QED BY <2>1, <2>2
<1>2. \A g \in all : g \in 1 .. 8 /\ (g = 1 \/ clusters % g = 0)
  <2>1. \A g \in 2 .. max_groups : g \in 1 .. 8
    <3>1. max_groups \in Nat /\ max_groups <= 8 BY DEF Lesser, max_sk_groups_
    <3> HIDE DEF max_groups
    <3>2. QED BY <3>1
  <2>2. \A g \in valid : g \in 1 .. 8 /\ clusters % g = 0 BY <1>1, <2>1
  <2> HIDE DEF valid
  <2>3. QED BY <2>2
<1>3. all # {} BY DEF all
<1> HIDE DEF all
<1>4. \E g \in all : \A h \in all : h <= g BY <1>2, <1>3, LargestExists
<1>5. Groups(p, b, sk_tiles, sk_units) = CHOOSE g \in all : \A h \in all : h <= g
  BY DEF Groups, all
<1>6. Groups(p, b, sk_tiles, sk_units) \in all BY <1>4, <1>5
<1>7. PICK g \in all : Groups(p, b, sk_tiles, sk_units) = g BY <1>6
<1>8. g \in 1 .. 8 /\ (g = 1 \/ clusters % g = 0) BY <1>2
<1>9. PICK k \in Nat \ {0} : clusters = k * g
  <2>1. g \in Nat \ {0} BY <1>8
  <2>2. /\ clusters \div g \in Nat /\ clusters % g \in 0 .. g - 1
        /\ clusters = (clusters \div g) * g + (clusters % g)
    BY <2>1, DivMod
  <2>3. CASE g = 1 BY <2>3
  <2>4. CASE clusters % g = 0
    <3> DEFINE k == clusters \div g
    <3> HIDE DEF k
    <3>1. k \in Nat /\ clusters = k * g BY <2>1, <2>2, <2>4 DEF k
    <3>2. k # 0 BY <2>1, <3>1
    <3>3. QED BY <3>1, <3>2
  <2>5. QED BY <1>8, <2>3, <2>4
<1>10. (clusters * size) \div g = k * size
  <2>1. g \in Nat \ {0} BY <1>8
  <2>2. k * size \in Nat /\ (k * size) * g = clusters * size /\ 0 \in 0 .. g - 1
    BY <1>9, <2>1
  <2>3. ((k * size) * g + 0) \div g = k * size BY <2>1, <2>2, DivModUnique
  <2>4. (k * size) * g + 0 = clusters * size BY <2>1, <2>2
  <2>5. QED BY <2>3, <2>4
<1>11. k * size \in Nat \ {0} BY ProductPositive
<1> HIDE DEF sk_units
<1>12. g \in Nat \ {0} /\ Groups(p, b, sk_tiles, clusters * size) = g
  BY <1>7, <1>8 DEF sk_units
<1>13. QED BY <1>9, <1>10, <1>11, <1>12 DEF WholeGrouping

(* A split by output tiles starts and ends units with clusters ... *)
LEMMA BasicIsWhole ==
  ASSUME NEW p \in Problems, NEW splits \in Nat \ {0}
  PROVE  WholeParams(ParamsBasic(p, Underlying(p), splits), p)
<1> DEFINE u == ParamsBasic(p, Underlying(p), splits)
           v == UnderlyingParams(p)
<1>1. /\ Same(u, v) /\ u.kt = p.kt
      /\ u.units_per_problem = u.blocks_per_problem /\ u.splits = splits
      /\ u.clusters_mnl = u.blocks_per_problem \div ClusterSize(p)
      /\ u.k_tiles_per_sk_unit = p.kt \div splits /\ u.big_units = p.kt % splits
      /\ u.sk_tiles = 0 /\ u.sk_units = 0
      /\ u.groups = 1 /\ u.units_per_group = 1 /\ u.big_groups = 0
  BY BasicFields
<1>2. /\ Divisors(v) /\ v.along_n \in BOOLEAN
      /\ v.minor = (IF v.along_n THEN p.cm ELSE p.cn)
      /\ v.major = (IF v.along_n THEN p.cn ELSE p.cm)
      /\ Size(v) = ClusterSize(p) /\ ClusterSize(p) \in Nat \ {0}
      /\ \E clusters \in Nat \ {0} : v.batch = clusters * Size(v)
      /\ \E clusters \in Nat \ {0} : v.blocks_per_problem = clusters * Size(v)
  BY BlocksAreWhole
<1>3. p.kt \in Nat \ {0} BY ProblemType
<1> HIDE DEF u, v
<1>4. /\ Divisors(u) /\ Size(u) = ClusterSize(p) /\ u.along_n \in BOOLEAN
      /\ u.minor = (IF u.along_n THEN p.cm ELSE p.cn)
      /\ u.major = (IF u.along_n THEN p.cn ELSE p.cm)
      /\ \E clusters \in Nat \ {0} : u.batch = clusters * Size(u)
      /\ \E clusters \in Nat \ {0} : u.blocks_per_problem = clusters * Size(u)
  BY <1>1, <1>2 DEF Same, Divisors, Size
<1>5. PICK clusters \in Nat \ {0} : u.blocks_per_problem = clusters * Size(u) BY <1>4
<1>6. WholeMultiple(u.units_per_problem * u.splits, Size(u))
  <2>1. (clusters * Size(u)) * splits = (clusters * splits) * Size(u) BY <1>2, <1>4
  <2>2. clusters * splits \in Int OBVIOUS
  <2>3. QED BY <1>1, <1>5, <2>1, <2>2 DEF WholeMultiple
<1>7. u.clusters_mnl \in Nat \ {0}
  <2>1. (clusters * Size(u) + 0) \div Size(u) = clusters
    <3>1. 0 \in 0 .. Size(u) - 1 BY <1>2, <1>4
    <3>2. QED BY <1>2, <1>4, <3>1, DivModUnique
  <2>2. clusters * Size(u) + 0 = clusters * Size(u) BY <1>2, <1>4
  <2>3. QED BY <1>1, <1>4, <1>5, <2>1, <2>2
<1>8. u.k_tiles_per_sk_unit \in Int /\ u.big_units \in Int
  <2>1. p.kt \div splits \in Nat /\ p.kt % splits \in 0 .. splits - 1 BY <1>3, DivMod
  <2>2. p.kt % splits \in Int BY <2>1
  <2>3. QED BY <1>1, <2>1, <2>2
<1>9. WholeMultiple(0, Size(u))
  <2>1. 0 = 0 * Size(u) BY <1>2, <1>4
  <2>2. QED BY <2>1 DEF WholeMultiple
<1>10. WholeParams(u, p) BY <1>1, <1>3, <1>4, <1>6, <1>7, <1>8, <1>9 DEF WholeParams
<1>11. QED BY <1>10 DEF u

(* ... and so does stream-K, if its tiles do. *)
LEMMA StreamKIsWhole ==
  ASSUME NEW p \in Problems, NEW sk_tiles \in Nat, WholeMultiple(sk_tiles, ClusterSize(p)),
         NEW k \in Nat \ {0}, NEW sk_units, sk_units = k * ClusterSize(p)
  PROVE  WholeParams(ParamsStreamK(p, Underlying(p), sk_tiles, sk_units,
                       Groups(p, Swizzled(p, TiledCtaShape(p)), sk_tiles, sk_units)), p)
<1> DEFINE b == Swizzled(p, TiledCtaShape(p))
           g == Groups(p, b, sk_tiles, sk_units)
           u == ParamsStreamK(p, Underlying(p), sk_tiles, sk_units, g)
           v == UnderlyingParams(p)
<1>1. /\ Same(u, v) /\ u.kt = p.kt
      /\ u.units_per_problem = u.blocks_per_problem - sk_tiles + sk_units /\ u.splits = 1
      /\ u.sk_tiles = sk_tiles /\ u.sk_units = sk_units
      /\ u.groups = g /\ u.units_per_group = sk_units \div g
      /\ u.big_groups = (sk_tiles \div ClusterSize(p)) % g
  BY StreamKFields
<1>2. /\ Divisors(v) /\ v.along_n \in BOOLEAN
      /\ v.minor = (IF v.along_n THEN p.cm ELSE p.cn)
      /\ v.major = (IF v.along_n THEN p.cn ELSE p.cm)
      /\ Size(v) = ClusterSize(p) /\ ClusterSize(p) \in Nat \ {0}
      /\ \E clusters \in Nat \ {0} : v.batch = clusters * Size(v)
      /\ \E clusters \in Nat \ {0} : v.blocks_per_problem = clusters * Size(v)
  BY BlocksAreWhole
<1>3. p.kt \in Nat \ {0} BY ProblemType
<1>4. (IF AlongN(p, b) THEN b.n \div p.cn ELSE b.m \div p.cm) \in Nat
  <2>1. v.blk_major = IF AlongN(p, b) THEN b.n \div p.cn ELSE b.m \div p.cm
    BY DEF UnderlyingParams
  <2>2. QED BY <1>2, <2>1 DEF Divisors
<1>5. g \in Nat \ {0} /\ sk_units \div g \in Nat \ {0}
  <2> HIDE DEF b, v
  <2>1. WholeGrouping(Groups(p, b, sk_tiles, k * ClusterSize(p)), k, ClusterSize(p))
    BY <1>2, <1>4, GroupsType
  <2>2. QED BY <2>1 DEF WholeGrouping
<1> HIDE DEF u, v, g
<1>6. /\ Divisors(u) /\ Size(u) = ClusterSize(p) /\ u.along_n \in BOOLEAN
      /\ u.minor = (IF u.along_n THEN p.cm ELSE p.cn)
      /\ u.major = (IF u.along_n THEN p.cn ELSE p.cm)
      /\ \E clusters \in Nat \ {0} : u.batch = clusters * Size(u)
      /\ \E clusters \in Nat \ {0} : u.blocks_per_problem = clusters * Size(u)
  BY <1>1, <1>2 DEF Same, Divisors, Size
<1>7. WholeMultiple(sk_units, Size(u)) /\ WholeMultiple(u.blocks_per_problem, Size(u))
  <2>1. k \in Int OBVIOUS
  <2>2. QED BY <1>6, <2>1 DEF WholeMultiple
<1>8. WholeMultiple(u.units_per_problem * u.splits, Size(u))
  <2>1. Size(u) \in Int BY <1>2, <1>6
  <2>2. WholeMultiple(u.blocks_per_problem - sk_tiles, Size(u))
    BY <1>6, <1>7, <2>1, WholeSum
  <2>3. WholeMultiple(u.blocks_per_problem - sk_tiles + sk_units, Size(u))
    BY <1>7, <2>1, <2>2, WholeSum
  <2>4. \A n \in Int : n * 1 = n OBVIOUS
  <2>5. u.units_per_problem \in Int
    <3>1. u.blocks_per_problem \in Int /\ sk_units \in Int BY <1>2, <1>6
    <3>2. QED BY <1>1, <3>1
  <2>6. QED BY <1>1, <2>3, <2>4, <2>5
<1>9. u.big_groups \in Int
  <2>1. sk_tiles \div ClusterSize(p) \in Nat BY <1>2, DivMod
  <2> DEFINE t == sk_tiles \div ClusterSize(p)
  <2> HIDE DEF t
  <2>2. t \in Nat BY <2>1 DEF t
  <2>3. t % g \in 0 .. g - 1 BY <1>5, <2>2, DivMod
  <2>4. t % g \in Int BY <1>5, <2>3
  <2>5. QED BY <1>1, <2>4 DEF t
<1>10. WholeParams(u, p) BY <1>1, <1>3, <1>5, <1>6, <1>7, <1>8, <1>9 DEF WholeParams
<1>11. QED BY <1>10 DEF u, g

(* If the grid can be launched, the parameters are those of a split by     *)
(* output tiles, asked for or selected, or those of stream-K.              *)
LEMMA ParamsCases ==
  ASSUME NEW p \in Problems,
         LET g == GridShape(p, TiledCtaShape(p), p.scheduler = "static", p.scheduler = "stream-K")
         IN  g.x % p.cm = 0 /\ g.y % p.cn = 0
  PROVE  LET b == TiledCtaShape(p)
             tiles == UnderlyingParams(p).blocks_per_problem
             sk_tiles == NumSkTiles(p, tiles, CtasPerWave(p, b))
             sk_units == NumSkUnits(p, CtasPerWave(p, b), sk_tiles)
             selected == /\ p.decomposition_mode = "Heuristic"
                         /\ sk_tiles # 0 /\ sk_units > sk_tiles /\ sk_units % sk_tiles = 0
         IN  \/ \E splits \in Nat \ {0} :
                  /\ Params(p) = ParamsBasic(p, Underlying(p), splits)
                  /\ splits # 1 =>
                       /\ p.scheduler # "static"
                       /\ \/ SplitKIsRequired(p) /\ splits = AdjustSplitCount(p)
                          \/ /\ ~SplitKIsRequired(p) /\ selected
                            /\ splits = sk_units \div sk_tiles
             \/ \E k \in Nat \ {0} :
                  /\ Params(p) = ParamsStreamK(p, Underlying(p), sk_tiles, sk_units,
                                     Groups(p, Swizzled(p, b), sk_tiles, sk_units))
                  /\ sk_units = k * ClusterSize(p)
                  /\ sk_tiles \in 1 .. tiles /\ WholeMultiple(sk_tiles, ClusterSize(p))
                  /\ p.scheduler # "static" /\ ~SplitKIsRequired(p) /\ ~selected
<1> DEFINE blocks == TiledCtaShape(p)
           wave == CtasPerWave(p, blocks)
           tiles == UnderlyingParams(p).blocks_per_problem
           sk_tiles == NumSkTiles(p, tiles, wave)
           sk_units == NumSkUnits(p, wave, sk_tiles)
           split == p.scheduler = "static" \/ SplitKIsRequired(p)
           selected == /\ p.decomposition_mode = "Heuristic"
                       /\ sk_tiles # 0 /\ sk_units > sk_tiles /\ sk_units % sk_tiles = 0
           Basic(splits) ==
             /\ Params(p) = ParamsBasic(p, Underlying(p), splits)
             /\ splits # 1 =>
                  /\ p.scheduler # "static"
                  /\ \/ SplitKIsRequired(p) /\ splits = AdjustSplitCount(p)
                     \/ /\ ~SplitKIsRequired(p) /\ selected
                        /\ splits = sk_units \div sk_tiles
           StreamK(k) ==
             /\ Params(p) = ParamsStreamK(p, Underlying(p), sk_tiles, sk_units,
                                Groups(p, Swizzled(p, blocks), sk_tiles, sk_units))
             /\ sk_units = k * ClusterSize(p)
             /\ sk_tiles \in 1 .. tiles /\ WholeMultiple(sk_tiles, ClusterSize(p))
             /\ p.scheduler # "static" /\ ~SplitKIsRequired(p) /\ ~selected
<1> SUFFICES (\E splits \in Nat \ {0} : Basic(splits)) \/ \E k \in Nat \ {0} : StreamK(k)
  OBVIOUS
<1>1. /\ ClusterSize(p) \in Nat \ {0}
      /\ \E clusters \in Nat \ {0} : tiles = clusters * ClusterSize(p)
  BY BlocksAreWhole
<1>2. /\ p.kt \in Nat \ {0} /\ p.splits \in Nat \ {0} /\ p.sm_count \in Nat \ {0}
      /\ p.scheduler \in {"static", "stream-K"}
  BY ProblemType
<1>3. Underlying(p).blocks_per_problem = tiles BY UnderlyingFields DEF Same
<1>4. Params(p) =
        CASE split -> ParamsBasic(p, Underlying(p),
                                  IF p.scheduler = "static" THEN 1 ELSE AdjustSplitCount(p))
          [] ~split /\ (sk_tiles = 0 \/ sk_units = 0) -> ParamsBasic(p, Underlying(p), 1)
          [] ~split /\ p.decomposition_mode = "Heuristic" /\ sk_tiles > 0
             /\ sk_tiles < sk_units /\ sk_units % sk_tiles = 0
               -> ParamsBasic(p, Underlying(p), sk_units \div sk_tiles)
          [] OTHER -> ParamsStreamK(p, Underlying(p), sk_tiles, sk_units,
                                    Groups(p, Swizzled(p, blocks), sk_tiles, sk_units))
  BY <1>3, Zenon DEF Params, Underlying
<1>5. 1 \in Nat \ {0} OBVIOUS
<1>6. CASE split
  <2>1. AdjustSplitCount(p) \in Nat \ {0} BY <1>2 DEF AdjustSplitCount, Lesser
  <2>2. Params(p) = ParamsBasic(p, Underlying(p),
                                IF p.scheduler = "static" THEN 1 ELSE AdjustSplitCount(p))
    BY <1>4, <1>6
  <2>3. CASE p.scheduler = "static"
    <3>1. Basic(1) BY <2>2, <2>3
    <3>2. QED BY <1>5, <3>1
  <2>4. CASE p.scheduler # "static"
    <3>1. Basic(AdjustSplitCount(p)) BY <1>6, <2>2, <2>4
    <3>2. QED BY <2>1, <3>1
  <2>5. QED BY <2>3, <2>4
<1>7. CASE ~split
  <2>1. p.scheduler = "stream-K" BY <1>2, <1>7
  <2> DEFINE g == GridShape(p, blocks, FALSE, TRUE)
  <2>2. g.x % p.cm = 0 /\ g.y % p.cn = 0
    <3>1. (p.scheduler = "static") = FALSE /\ (p.scheduler = "stream-K") = TRUE BY <2>1
    <3>2. QED BY <3>1
  <2>3. g.x \in Nat \ {0} /\ g.y \in Nat \ {0} BY GridType
  <2>4. wave = g.x * g.y BY DEF CtasPerWave, GridSize
  <2> HIDE DEF g
  <2>5. WholeMultiple(g.x * g.y, ClusterSize(p)) BY <2>2, <2>3, GridIsWhole
  <2>6. g.x * g.y \in Nat \ {0} BY <2>3, ProductPositive
  <2>7. wave \in Nat \ {0} /\ WholeMultiple(wave, ClusterSize(p)) BY <2>4, <2>5, <2>6
  <2>8. tiles \in Nat /\ WholeMultiple(tiles, ClusterSize(p))
    <3> HIDE DEF tiles
    <3>1. QED BY <1>1 DEF WholeMultiple
  <2> HIDE DEF wave, tiles
  <2>9. /\ sk_tiles \in Nat /\ sk_tiles <= tiles
        /\ WholeMultiple(sk_tiles, ClusterSize(p))
    BY <2>7, <2>8, SkTilesAreWhole
  <2> HIDE DEF sk_tiles
  <2>10. sk_units \in Nat /\ \E k \in Nat : sk_units = k * ClusterSize(p)
    BY <2>7, <2>9, SkUnitsAreWhole
  <2> HIDE DEF sk_units
  <2>11. CASE sk_tiles = 0 \/ sk_units = 0
    <3>1. ~(sk_tiles > 0 /\ sk_tiles < sk_units) BY <2>9, <2>10, <2>11
    <3>2. Params(p) = ParamsBasic(p, Underlying(p), 1) BY <1>4, <1>7, <2>11, <3>1
    <3>3. Basic(1) BY <3>2
    <3>4. QED BY <1>5, <3>3
  <2>12. CASE /\ p.decomposition_mode = "Heuristic" /\ sk_tiles > 0
              /\ sk_tiles < sk_units /\ sk_units % sk_tiles = 0
    <3>1. Params(p) = ParamsBasic(p, Underlying(p), sk_units \div sk_tiles)
      <4>1. ~(sk_tiles = 0 \/ sk_units = 0) BY <2>9, <2>10, <2>12
      <4>2. QED BY <1>4, <1>7, <2>12, <4>1
    <3>2. sk_units \div sk_tiles \in Nat \ {0}
      <4>1. sk_tiles \in Nat \ {0} BY <2>9, <2>12
      <4>2. /\ sk_units \div sk_tiles \in Nat
            /\ sk_units = (sk_units \div sk_tiles) * sk_tiles + (sk_units % sk_tiles)
        BY <2>10, <4>1, DivMod
      <4>3. sk_units \div sk_tiles # 0 BY <2>10, <2>12, <4>1, <4>2
      <4>4. QED BY <4>2, <4>3
    <3>3. ~SplitKIsRequired(p) /\ selected /\ p.scheduler # "static"
      BY <1>7, <2>9, <2>10, <2>12
    <3>4. Basic(sk_units \div sk_tiles) BY <3>1, <3>3
    <3>5. QED BY <3>2, <3>4
  <2>13. CASE /\ ~(sk_tiles = 0 \/ sk_units = 0)
              /\ ~(/\ p.decomposition_mode = "Heuristic" /\ sk_tiles > 0
                   /\ sk_tiles < sk_units /\ sk_units % sk_tiles = 0)
    <3>1. Params(p) = ParamsStreamK(p, Underlying(p), sk_tiles, sk_units,
                                    Groups(p, Swizzled(p, blocks), sk_tiles, sk_units))
      BY <1>4, <1>7, <2>13
    <3>2. PICK k \in Nat : sk_units = k * ClusterSize(p) BY <2>10
    <3>3. k \in Nat \ {0} BY <1>1, <2>13, <3>2
    <3>4. ~selected /\ ~SplitKIsRequired(p) /\ p.scheduler # "static" /\ sk_tiles \in 1 .. tiles
      BY <1>7, <2>8, <2>9, <2>10, <2>13
    <3>5. StreamK(k) BY <2>9, <3>1, <3>2, <3>4
    <3>6. QED BY <3>3, <3>5
  <2>14. QED BY <2>11, <2>12, <2>13
<1>8. QED BY <1>6, <1>7

(* Whatever decomposition is chosen: the parameters are made of whole      *)
(* clusters.                                                               *)
LEMMA LaunchedParams ==
  ASSUME NEW p \in Problems,
         LET g == GridShape(p, TiledCtaShape(p), p.scheduler = "static", p.scheduler = "stream-K")
         IN  g.x % p.cm = 0 /\ g.y % p.cn = 0
  PROVE  WholeParams(Params(p), p)
<1> DEFINE b == TiledCtaShape(p)
           sk_tiles == NumSkTiles(p, UnderlyingParams(p).blocks_per_problem, CtasPerWave(p, b))
           sk_units == NumSkUnits(p, CtasPerWave(p, b), sk_tiles)
<1>1. CASE \E splits \in Nat \ {0} : Params(p) = ParamsBasic(p, Underlying(p), splits)
  BY <1>1, BasicIsWhole
<1>2. CASE \E k \in Nat \ {0} :
             /\ Params(p) = ParamsStreamK(p, Underlying(p), sk_tiles, sk_units,
                                Groups(p, Swizzled(p, b), sk_tiles, sk_units))
             /\ sk_units = k * ClusterSize(p)
             /\ sk_tiles \in Nat /\ WholeMultiple(sk_tiles, ClusterSize(p))
  <2> HIDE DEF sk_tiles, sk_units
  <2>1. QED BY <1>2, StreamKIsWhole
<1>3. UnderlyingParams(p).blocks_per_problem \in Nat BY BlocksAreWhole
<1>4. sk_tiles \in 1 .. UnderlyingParams(p).blocks_per_problem => sk_tiles \in Nat
  BY <1>3
<1>5. QED BY <1>1, <1>2, <1>4, ParamsCases

-----------------------------------------------------------------------------
(* 6. The inductive invariant.                                             *)

(* There is a grid only if it is made of whole clusters. *)
GridIsLaunched ==
  Blocks = {} \/ (WholeClusters(Grid) /\ Blocks = 0 .. GridSize(Grid) - 1)

(* A block that is not on the device yet has nothing. *)
PendingBlocks ==
  \A b \in Blocks :
    /\ blk[b].pc = "pending" <=> Cluster(b) >= next
    /\ blk[b].pc = "pending" =>
         blk[b].nth = 0 /\ blk[b].idx = b /\ blk[b].start = 0 /\ blk[b].work = InvalidWork
    /\ blk[b].pc # "pending" => blk[b].nth >= 1

(* The blocks of a cluster run through one list h of work.  Some have come *)
(* farther than others, but nobody is beyond its end, and whoever is at an *)
(* entry goes on to the next one.                                          *)
InStep(c) ==
  \E n, h :
    /\ n \in Nat
    /\ \A b \in Blocks : Cluster(b) = c =>
         blk[b].nth <= n /\ (blk[b].nth >= 1 => UnitView(q, problem, blk[b]) = h[blk[b].nth])
    /\ \A i \in 1 .. n - 1 : \A d \in Nat : \A x :
         Placed(q, problem, d, x) /\ UnitView(q, problem, x) = h[i] =>
           UnitView(q, problem, NextUnit(q, Cardinality(Blocks), x)) = h[i + 1]

TogetherInv ==
  /\ problem \in Problems /\ q = Params(problem) /\ next \in Nat
  /\ GridIsLaunched /\ PendingBlocks
  /\ \A b \in Blocks : Placed(q, problem, b, blk[b]) /\ blk[b].nth \in Nat
  /\ \A c \in Clusters : InStep(c)

(* What a launched grid is known to be. *)
LEMMA Launched ==
  ASSUME TogetherInv, NEW b \in Blocks
  PROVE  /\ WholeParams(q, problem) /\ Divisors(q) /\ Size(q) \in Nat \ {0}
         /\ GridSize(Grid) \in Nat \ {0} /\ Blocks = 0 .. GridSize(Grid) - 1
         /\ Cardinality(Blocks) = GridSize(Grid) /\ WholeMultiple(GridSize(Grid), Size(q))
         /\ b \in Nat /\ Cluster(b) \in Nat
<1> DEFINE g == GridShape(problem, TiledCtaShape(problem),
                          problem.scheduler = "static", problem.scheduler = "stream-K")
<1>1. problem \in Problems /\ q = Params(problem) BY DEF TogetherInv
<1>2. WholeClusters(Grid) /\ Blocks = 0 .. GridSize(Grid) - 1 /\ Grid = g
  BY DEF TogetherInv, GridIsLaunched, Grid
<1>3. g.x % problem.cm = 0 /\ g.y % problem.cn = 0 BY <1>2 DEF WholeClusters
<1>4. WholeParams(q, problem) BY <1>1, <1>3, LaunchedParams
<1>5. g.x \in Nat \ {0} /\ g.y \in Nat \ {0} BY <1>1, GridType
<1> HIDE DEF g
<1>6. GridSize(Grid) \in Int /\ WholeMultiple(GridSize(Grid), ClusterSize(problem))
  BY <1>1, <1>2, <1>3, <1>5, GridIsWhole DEF GridSize
<1>7. ClusterSize(problem) = Size(q) /\ Divisors(q) /\ Size(q) \in Nat \ {0}
  <2>1. Divisors(q) /\ Size(q) \in Nat \ {0} BY <1>4, SizeIsPositive DEF WholeParams
  <2>2. problem.cm \in Sides /\ problem.cn \in Sides BY <1>1, ProblemType
  <2>3. QED BY <1>4, <2>1, <2>2 DEF WholeParams, Size, ClusterSize, Sides
<1>8. b \in Nat /\ GridSize(Grid) \in Nat \ {0} BY <1>2, <1>6
<1>9. Cardinality(Blocks) = GridSize(Grid)
  <2>1. Cardinality(0 .. GridSize(Grid) - 1) = GridSize(Grid) BY <1>8, FS_Interval
  <2>2. QED BY <1>2, <2>1
<1>10. Cluster(b) \in Nat BY <1>7, <1>8, DivMod DEF Cluster
<1>11. QED BY <1>2, <1>4, <1>6, <1>7, <1>8, <1>9, <1>10

LEMMA Initially == Init => TogetherInv
<1> SUFFICES ASSUME Init PROVE TogetherInv
  OBVIOUS
<1>1. Blocks = {} /\ problem \in Problems /\ q = Params(problem) /\ next = 0
  BY DEF Init, Blocks
<1>2. Clusters = {} BY <1>1 DEF Clusters
<1>3. QED BY <1>1, <1>2 DEF TogetherInv, GridIsLaunched, PendingBlocks

(* The blocks of a new grid are pending. *)
LEMMA RunStep == TogetherInv /\ Run => TogetherInv'
<1> SUFFICES ASSUME TogetherInv, Run PROVE TogetherInv'
  OBVIOUS
<1>1. problem' = problem /\ q' = q /\ problem \in Problems /\ q = Params(problem)
  BY DEF Run, TogetherInv
<1>2. CASE WholeClusters(Grid)
  <2> DEFINE size == GridSize(Grid)
             Record(b) == [pc |-> "pending", idx |-> b, start |-> 0, work |-> InvalidWork,
                           nth |-> 0]
  <2>1. blk' = [b \in 0 .. size - 1 |-> Record(b)] /\ next' = 0 BY <1>2 DEF Run
  <2>2. Blocks' = 0 .. size - 1 /\ Grid' = Grid BY <1>1, <2>1 DEF Blocks, Grid
  <2>3. GridIsLaunched' BY <1>1, <1>2, <2>2 DEF GridIsLaunched, WholeClusters
  <2>4. WholeParams(q, problem) BY <1>1, <1>2, LaunchedParams DEF WholeClusters, Grid
  <2>5. Size(q) \in Nat \ {0} BY <2>4, SizeIsPositive DEF WholeParams
  <2>6. ASSUME NEW b \in Blocks'
        PROVE  /\ b \in Nat /\ blk'[b] = Record(b)
               /\ Cluster(b)' \in Nat /\ Cluster(b)' = b \div Size(q)
    <3>1. b \in Nat /\ blk'[b] = Record(b) BY <2>1, <2>2, <2>6
    <3>2. Cluster(b)' = b \div Size(q) BY <1>1 DEF Cluster
    <3>3. b \div Size(q) \in Nat BY <2>5, <3>1, DivMod
    <3>4. QED BY <3>1, <3>2, <3>3
  <2>7. PendingBlocks'
    <3>1. ASSUME NEW b \in Blocks'
          PROVE  /\ blk'[b].pc = "pending" /\ Cluster(b)' >= next'
                 /\ blk'[b].nth = 0 /\ blk'[b].idx = b /\ blk'[b].start = 0
                 /\ blk'[b].work = InvalidWork
      <4>1. blk'[b] = [pc |-> "pending", idx |-> b, start |-> 0, work |-> InvalidWork,
                       nth |-> 0]
        BY <2>6, <3>1
      <4>2. Cluster(b)' \in Nat BY <2>6, <3>1
      <4>3. Cluster(b)' >= next' BY <2>1, <4>2
      <4>4. QED BY <4>1, <4>3
    <3>2. QED BY <3>1 DEF PendingBlocks
  <2>8. ASSUME NEW b \in Blocks'
        PROVE  Placed(q, problem, b, blk'[b]) /\ blk'[b].nth \in Nat
    <3>1. b \in Nat /\ blk'[b] = Record(b) BY <2>6
    <3>2. PlacedWork(q, problem, b % Size(q), InvalidWork)
      BY DEF PlacedWork, InvalidWork, IsValid
    <3>3. QED BY <3>1, <3>2 DEF Placed
  <2>9. ASSUME NEW c \in Clusters' PROVE InStep(c)'
    <3>1. \A b \in Blocks' : blk'[b].nth = 0
      <4> TAKE b \in Blocks'
      <4>1. blk'[b] = [pc |-> "pending", idx |-> b, start |-> 0, work |-> InvalidWork,
                       nth |-> 0]
        BY <2>6
      <4>2. QED BY <4>1
    <3>2. 0 \in Nat /\ 1 .. 0 - 1 = {} OBVIOUS
    <3>3. \E n, h :
            /\ n \in Nat
            /\ \A b \in Blocks' : Cluster(b)' = c =>
                 blk'[b].nth <= n
                 /\ (blk'[b].nth >= 1 => UnitView(q', problem', blk'[b]) = h[blk'[b].nth])
            /\ \A i \in 1 .. n - 1 : \A d \in Nat : \A x :
                 Placed(q', problem', d, x) /\ UnitView(q', problem', x) = h[i] =>
                   UnitView(q', problem', NextUnit(q', Cardinality(Blocks'), x)) = h[i + 1]
      BY <3>1, <3>2
    <3>4. QED BY <3>3 DEF InStep
  <2>10. QED BY <1>1, <2>1, <2>3, <2>7, <2>8, <2>9 DEF TogetherInv
<1>3. CASE ~WholeClusters(Grid)
  <2>1. UNCHANGED <<problem, q, next, blk>> BY <1>3 DEF Run
  <2>2. QED
    BY <2>1 DEF TogetherInv, GridIsLaunched, PendingBlocks, Blocks, Cluster, Clusters, Grid,
                WholeClusters, InStep
<1>4. QED BY <1>2, <1>3

(* Steps that leave the blocks alone. *)
LEMMA OtherSteps ==
  ASSUME TogetherInv, UNCHANGED <<problem, q, next, blk>>
  PROVE  TogetherInv'
  BY DEF TogetherInv, GridIsLaunched, PendingBlocks, Blocks, Cluster, Clusters, Grid,
         WholeClusters, InStep

(* A block that only moves on within its work stays where it is. *)
LEMMA PcStep ==
  ASSUME TogetherInv, NEW a \in Blocks, NEW s, s # "pending", blk[a].pc # "pending",
         Goto(a, s), UNCHANGED <<problem, q, next>>
  PROVE  TogetherInv'
<1> DEFINE bl(b) == IF b = a THEN [blk[a] EXCEPT !.pc = s] ELSE blk[b]
<1>1. Blocks' = Blocks /\ \A b \in Blocks : blk'[b] = bl(b) BY DEF Goto, Blocks
<1>2. \A b \in Blocks : Cluster(b)' = Cluster(b) BY DEF Cluster
<1>3. Clusters' = Clusters /\ Grid' = Grid /\ (WholeClusters(Grid) <=> WholeClusters(Grid)')
  BY <1>1, <1>2 DEF Clusters, Cluster, Grid, WholeClusters
<1>4. ASSUME NEW b \in Blocks
      PROVE  /\ blk'[b].idx = blk[b].idx /\ blk'[b].work = blk[b].work
             /\ blk'[b].start = blk[b].start /\ blk'[b].nth = blk[b].nth
             /\ DOMAIN blk'[b] = DOMAIN blk[b]
             /\ blk'[b].pc = "pending" <=> blk[b].pc = "pending"
  <2>1. DOMAIN blk[b] = {"idx", "work", "start", "nth", "pc"} BY DEF TogetherInv, Placed
  <2>2. CASE b = a BY <1>1, <2>1, <2>2
  <2>3. CASE b # a BY <1>1, <2>3
  <2>4. QED BY <2>2, <2>3
<1>5. ASSUME NEW b \in Blocks
      PROVE  /\ UnitView(q, problem, blk'[b]) = UnitView(q, problem, blk[b])
             /\ Placed(q, problem, b, blk'[b]) /\ blk'[b].nth \in Nat
  BY <1>4 DEF TogetherInv, UnitView, Placed
<1>6. GridIsLaunched' BY <1>1, <1>3 DEF TogetherInv, GridIsLaunched
<1>7. PendingBlocks' BY <1>1, <1>2, <1>4 DEF TogetherInv, PendingBlocks
<1>8. ASSUME NEW c \in Clusters PROVE InStep(c)'
  <2>1. PICK n, h :
          /\ n \in Nat
          /\ \A b \in Blocks : Cluster(b) = c =>
               blk[b].nth <= n
               /\ (blk[b].nth >= 1 => UnitView(q, problem, blk[b]) = h[blk[b].nth])
          /\ \A i \in 1 .. n - 1 : \A d \in Nat : \A x :
               Placed(q, problem, d, x) /\ UnitView(q, problem, x) = h[i] =>
                 UnitView(q, problem, NextUnit(q, Cardinality(Blocks), x)) = h[i + 1]
    BY DEF TogetherInv, InStep
  <2> n \in Nat
    BY <2>1
  <2>2. \A b \in Blocks' : Cluster(b)' = c =>
          blk'[b].nth <= n
          /\ (blk'[b].nth >= 1 => UnitView(q', problem', blk'[b]) = h[blk'[b].nth])
    BY <1>1, <1>2, <1>4, <1>5, <2>1
  <2>3. QED BY <1>1, <2>1, <2>2 DEF InStep
<1>9. QED BY <1>1, <1>3, <1>5, <1>6, <1>7, <1>8 DEF TogetherInv

(* The blocks of the next cluster fetch their first unit. *)
LEMMA DispatchStep == TogetherInv /\ Dispatch => TogetherInv'
<1> SUFFICES ASSUME TogetherInv, Dispatch PROVE TogetherInv'
  OBVIOUS
<1>1. /\ problem' = problem /\ q' = q /\ next' = next + 1 /\ next \in Clusters /\ next \in Nat
      /\ blk' = [b \in Blocks |-> IF Cluster(b) = next THEN FetchedUnit(q, blk[b], b) ELSE blk[b]]
  BY DEF Dispatch, TogetherInv, Fetched, FetchedUnit
<1>2. Blocks' = Blocks BY <1>1 DEF Blocks
<1>3. \A b \in Blocks : Cluster(b)' = Cluster(b) BY <1>1 DEF Cluster
<1>4. Clusters' = Clusters /\ Grid' = Grid /\ (WholeClusters(Grid) <=> WholeClusters(Grid)')
  BY <1>1, <1>2, <1>3 DEF Clusters, Cluster, Grid, WholeClusters
<1>5. PICK first \in Blocks : Cluster(first) = next BY <1>1 DEF Clusters
<1>6. WholeParams(q, problem) /\ Divisors(q) /\ Size(q) \in Nat \ {0} BY <1>5, Launched
<1>7. PICK v : \A r \in 0 .. Size(q) - 1 : \A bl :
        bl.start = 0 =>
          LET new == FetchedUnit(q, bl, next * Size(q) + r)
          IN  /\ UnitView(q, problem, new) = v
              /\ new.start \in Int /\ PlacedWork(q, problem, r, new.work)
  <2>1. 0 \in Int OBVIOUS
  <2>2. QED BY <1>1, <1>6, <2>1, FetchedTogether
<1>8. ASSUME NEW b \in Blocks, Cluster(b) = next
      PROVE  /\ blk'[b].nth = 1 /\ blk'[b].pc = "mainloop"
             /\ UnitView(q, problem, blk'[b]) = v /\ Placed(q, problem, b, blk'[b])
  <2> DEFINE new == FetchedUnit(q, blk[b], b)
             r == b % Size(q)
  <2>1. b \in Nat BY <1>8, Launched
  <2>2. blk[b].nth = 0 /\ blk[b].start = 0 BY <1>1, <1>8 DEF TogetherInv, PendingBlocks
  <2>3. r \in 0 .. Size(q) - 1 /\ b = next * Size(q) + r
    <3>1. b % Size(q) \in 0 .. Size(q) - 1
          /\ b = (b \div Size(q)) * Size(q) + (b % Size(q))
      BY <1>6, <2>1, DivMod
    <3>2. b \div Size(q) = next BY <1>8 DEF Cluster
    <3>3. QED BY <3>1, <3>2
  <2>4. /\ UnitView(q, problem, new) = v
        /\ new.start \in Int /\ PlacedWork(q, problem, r, new.work)
    BY <1>7, <2>2, <2>3
  <2>5. /\ new.idx = b /\ new.nth = blk[b].nth + 1 /\ new.pc = "mainloop"
        /\ DOMAIN new = {"idx", "work", "start", "nth", "pc"}
    BY DEF FetchedUnit
  <2>6. blk'[b] = new BY <1>1, <1>8
  <2> HIDE DEF new
  <2>7. Placed(q, problem, b, new) BY <2>1, <2>4, <2>5 DEF Placed
  <2>8. QED BY <2>2, <2>4, <2>5, <2>6, <2>7
<1>9. ASSUME NEW b \in Blocks, Cluster(b) # next PROVE blk'[b] = blk[b] BY <1>1, <1>9
<1>10. GridIsLaunched' BY <1>2, <1>4, <1>1 DEF TogetherInv, GridIsLaunched
<1>11. PendingBlocks'
  <2>1. ASSUME NEW b \in Blocks
        PROVE  /\ blk'[b].pc = "pending" <=> Cluster(b) >= next + 1
               /\ blk'[b].pc = "pending" =>
                    blk'[b].nth = 0 /\ blk'[b].idx = b /\ blk'[b].start = 0
                    /\ blk'[b].work = InvalidWork
               /\ blk'[b].pc # "pending" => blk'[b].nth >= 1
    <3>1. Cluster(b) \in Nat BY Launched
    <3>2. CASE Cluster(b) = next BY <1>1, <1>8, <3>1, <3>2
    <3>3. CASE Cluster(b) # next
      <4>1. Cluster(b) >= next + 1 <=> Cluster(b) >= next BY <1>1, <3>1, <3>3
      <4>2. QED BY <1>9, <3>3, <4>1 DEF TogetherInv, PendingBlocks
    <3>4. QED BY <3>2, <3>3
  <2>2. QED BY <1>1, <1>2, <1>3, <2>1 DEF PendingBlocks
<1>12. ASSUME NEW b \in Blocks PROVE Placed(q, problem, b, blk'[b]) /\ blk'[b].nth \in Nat
  <2>1. CASE Cluster(b) = next BY <1>8, <2>1
  <2>2. CASE Cluster(b) # next BY <1>9, <2>2 DEF TogetherInv
  <2>3. QED BY <2>1, <2>2
<1>13. ASSUME NEW c \in Clusters PROVE InStep(c)'
  <2>1. CASE c = next
    <3> DEFINE h == [i \in {1} |-> v]
    <3>1. 1 \in Nat /\ 1 .. 1 - 1 = {} /\ h[1] = v OBVIOUS
    <3> HIDE DEF h
    <3>2. \A b \in Blocks' : Cluster(b)' = c =>
            blk'[b].nth <= 1
            /\ (blk'[b].nth >= 1 => UnitView(q', problem', blk'[b]) = h[blk'[b].nth])
      BY <1>1, <1>2, <1>3, <1>8, <2>1, <3>1
    <3>3. QED BY <3>1, <3>2 DEF InStep
  <2>2. CASE c # next
    <3>1. PICK n, h :
            /\ n \in Nat
            /\ \A b \in Blocks : Cluster(b) = c =>
                 blk[b].nth <= n
                 /\ (blk[b].nth >= 1 => UnitView(q, problem, blk[b]) = h[blk[b].nth])
            /\ \A i \in 1 .. n - 1 : \A d \in Nat : \A x :
                 Placed(q, problem, d, x) /\ UnitView(q, problem, x) = h[i] =>
                   UnitView(q, problem, NextUnit(q, Cardinality(Blocks), x)) = h[i + 1]
      BY DEF TogetherInv, InStep
    <3> n \in Nat
      BY <3>1
    <3>2. \A b \in Blocks' : Cluster(b)' = c =>
            blk'[b].nth <= n
            /\ (blk'[b].nth >= 1 => UnitView(q', problem', blk'[b]) = h[blk'[b].nth])
      BY <1>1, <1>2, <1>3, <1>9, <2>2, <3>1
    <3>3. \A i \in 1 .. n - 1 : \A d \in Nat : \A x :
            Placed(q', problem', d, x) /\ UnitView(q', problem', x) = h[i] =>
              UnitView(q', problem', NextUnit(q', Cardinality(Blocks'), x)) = h[i + 1]
      BY <1>1, <1>2, <3>1
    <3>4. QED BY <3>2, <3>3 DEF InStep
  <2>3. QED BY <2>1, <2>2
<1>14. QED BY <1>1, <1>2, <1>4, <1>10, <1>11, <1>12, <1>13 DEF TogetherInv

(* A block that goes on to its next work follows the list, or makes it     *)
(* longer.                                                                 *)
LEMMA FetchStep ==
  ASSUME TogetherInv, NEW a \in Blocks, FetchNextWork(a)
  PROVE  TogetherInv'
<1> DEFINE size == Cardinality(Blocks)
           new == NextUnit(q, size, blk[a])
<1>1. /\ problem' = problem /\ q' = q /\ next' = next /\ blk[a].pc = "next"
      /\ blk' = [blk EXCEPT ![a] = new]
  BY DEF FetchNextWork, NextUnit, FetchedUnit, Fetched, hostvars
<1>2. Blocks' = Blocks /\ blk'[a] = new /\ \A b \in Blocks : b # a => blk'[b] = blk[b]
  BY <1>1 DEF Blocks
<1>3. \A b \in Blocks : Cluster(b)' = Cluster(b) BY <1>1 DEF Cluster
<1>4. Clusters' = Clusters /\ Grid' = Grid /\ (WholeClusters(Grid) <=> WholeClusters(Grid)')
  BY <1>1, <1>2, <1>3 DEF Clusters, Cluster, Grid, WholeClusters
<1>5. /\ WholeParams(q, problem) /\ size \in Nat /\ WholeMultiple(size, Size(q)) /\ a \in Nat
      /\ \A b \in Blocks : b \in Nat
  BY Launched
<1>6. Placed(q, problem, a, blk[a]) /\ blk[a].nth \in Nat BY DEF TogetherInv
<1> HIDE DEF size
<1>7. Placed(q, problem, a, new) BY <1>5, <1>6, NextTogether
<1>8. new.nth = blk[a].nth + 1 /\ new.pc = "mainloop"
  <2>1. DOMAIN blk[a] = {"idx", "work", "start", "nth", "pc"} BY <1>6 DEF Placed
  <2> DEFINE w == ContinueWork(q, blk[a].idx, blk[a].start, blk[a].work)
  <2>2. CASE IsValid(w)
    <3>1. new = [blk[a] EXCEPT !.work = w, !.nth = @ + 1, !.pc = "mainloop"]
      BY <2>2 DEF NextUnit
    <3> HIDE DEF new, w
    <3>2. QED BY <2>1, <3>1
  <2>3. CASE ~IsValid(w)
    <3>1. new = FetchedUnit(q, blk[a], blk[a].idx + size) BY <2>3 DEF NextUnit
    <3> HIDE DEF new
    <3>2. QED BY <3>1 DEF FetchedUnit
  <2>4. QED BY <2>2, <2>3
<1> HIDE DEF new
<1>9. blk[a].nth >= 1 /\ ~(Cluster(a) >= next) BY <1>1 DEF TogetherInv, PendingBlocks
<1>10. GridIsLaunched' BY <1>1, <1>2, <1>4 DEF TogetherInv, GridIsLaunched
<1>11. PendingBlocks'
  <2>1. ASSUME NEW b \in Blocks
        PROVE  /\ blk'[b].pc = "pending" <=> Cluster(b) >= next
               /\ blk'[b].pc = "pending" =>
                    blk'[b].nth = 0 /\ blk'[b].idx = b /\ blk'[b].start = 0
                    /\ blk'[b].work = InvalidWork
               /\ blk'[b].pc # "pending" => blk'[b].nth >= 1
    <3>1. CASE b = a BY <1>2, <1>6, <1>8, <1>9, <3>1
    <3>2. CASE b # a BY <1>2, <3>2 DEF TogetherInv, PendingBlocks
    <3>3. QED BY <3>1, <3>2
  <2>2. QED BY <1>1, <1>2, <1>3, <2>1 DEF PendingBlocks
<1>12. ASSUME NEW b \in Blocks PROVE Placed(q, problem, b, blk'[b]) /\ blk'[b].nth \in Nat
  <2>1. CASE b = a BY <1>2, <1>6, <1>7, <1>8, <2>1
  <2>2. CASE b # a BY <1>2, <2>2 DEF TogetherInv
  <2>3. QED BY <2>1, <2>2
<1>13. ASSUME NEW c \in Clusters PROVE InStep(c)'
  <2>1. PICK n, h :
          /\ n \in Nat
          /\ \A b \in Blocks : Cluster(b) = c =>
               blk[b].nth <= n
               /\ (blk[b].nth >= 1 => UnitView(q, problem, blk[b]) = h[blk[b].nth])
          /\ \A i \in 1 .. n - 1 : \A d \in Nat : \A x :
               Placed(q, problem, d, x) /\ UnitView(q, problem, x) = h[i] =>
                 UnitView(q, problem, NextUnit(q, size, x)) = h[i + 1]
    BY DEF TogetherInv, InStep, size
  <2> n \in Nat
    BY <2>1
  <2> DEFINE k == blk[a].nth
  <2>2. CASE Cluster(a) # c \/ k < n
    <3>1. \A b \in Blocks' : Cluster(b)' = c =>
            blk'[b].nth <= n
            /\ (blk'[b].nth >= 1 => UnitView(q', problem', blk'[b]) = h[blk'[b].nth])
      <4> SUFFICES ASSUME NEW b \in Blocks, Cluster(b) = c
                   PROVE  /\ blk'[b].nth <= n
                          /\ blk'[b].nth >= 1 =>
                               UnitView(q, problem, blk'[b]) = h[blk'[b].nth]
        BY <1>1, <1>2, <1>3
      <4>1. CASE b # a BY <1>2, <2>1, <4>1
      <4>2. CASE b = a
        <5>1. k < n /\ k \in 1 .. n - 1 /\ k + 1 <= n BY <1>6, <1>9, <2>2, <4>2
        <5>2. UnitView(q, problem, blk[a]) = h[k] BY <1>9, <2>1, <4>2
        <5>3. UnitView(q, problem, new) = h[k + 1]
          BY <1>5, <1>6, <2>1, <5>1, <5>2 DEF new
        <5>4. QED BY <1>2, <1>8, <4>2, <5>1, <5>3
      <4>3. QED BY <4>1, <4>2
    <3>2. \A i \in 1 .. n - 1 : \A d \in Nat : \A x :
            Placed(q', problem', d, x) /\ UnitView(q', problem', x) = h[i] =>
              UnitView(q', problem', NextUnit(q', Cardinality(Blocks'), x)) = h[i + 1]
      BY <1>1, <1>2, <2>1 DEF size
    <3>3. \E i, h1 :
            /\ i \in Nat
            /\ \A b \in Blocks' : Cluster(b)' = c =>
                 blk'[b].nth <= i
                 /\ (blk'[b].nth >= 1 => UnitView(q', problem', blk'[b]) = h1[blk'[b].nth])
            /\ \A j \in 1 .. i - 1 : \A d \in Nat : \A x :
                 Placed(q', problem', d, x) /\ UnitView(q', problem', x) = h1[j] =>
                   UnitView(q', problem', NextUnit(q', Cardinality(Blocks'), x)) = h1[j + 1]
      BY <3>1, <3>2
    <3>4. QED BY <3>3 DEF InStep
  <2>3. CASE Cluster(a) = c /\ ~(k < n)
    <3>1. k = n /\ n >= 1 /\ UnitView(q, problem, blk[a]) = h[n]
      BY <1>6, <1>9, <2>1, <2>3
    <3> DEFINE g == [i \in 1 .. n + 1 |-> IF i <= n THEN h[i] ELSE UnitView(q, problem, new)]
    <3>2. /\ \A i \in 1 .. n : g[i] = h[i]
          /\ g[n + 1] = UnitView(q, problem, new)
      BY <3>1
    <3> HIDE DEF g
    <3>3. \A b \in Blocks' : Cluster(b)' = c =>
            blk'[b].nth <= n + 1
            /\ (blk'[b].nth >= 1 => UnitView(q', problem', blk'[b]) = g[blk'[b].nth])
      <4> SUFFICES ASSUME NEW b \in Blocks, Cluster(b) = c
                   PROVE  /\ blk'[b].nth <= n + 1
                          /\ blk'[b].nth >= 1 =>
                               UnitView(q, problem, blk'[b]) = g[blk'[b].nth]
        BY <1>1, <1>2, <1>3
      <4>1. CASE b # a
        <5>1. blk'[b] = blk[b] /\ blk[b].nth \in Nat /\ blk[b].nth <= n
          BY <1>2, <2>1, <4>1 DEF TogetherInv
        <5>2. blk[b].nth >= 1 => blk[b].nth \in 1 .. n BY <5>1
        <5>3. QED BY <2>1, <3>2, <5>1, <5>2
      <4>2. CASE b = a BY <1>2, <1>8, <3>1, <3>2, <4>2
      <4>3. QED BY <4>1, <4>2
    <3>4. \A i \in 1 .. (n + 1) - 1 : \A d \in Nat : \A x :
            Placed(q, problem, d, x) /\ UnitView(q, problem, x) = g[i] =>
              UnitView(q, problem, NextUnit(q, size, x)) = g[i + 1]
      <4> SUFFICES ASSUME NEW i \in 1 .. n, NEW d \in Nat, NEW x,
                          Placed(q, problem, d, x), UnitView(q, problem, x) = g[i]
                   PROVE  UnitView(q, problem, NextUnit(q, size, x)) = g[i + 1]
        OBVIOUS
      <4>1. CASE i < n
        <5>1. i \in 1 .. n - 1 /\ i + 1 \in 1 .. n BY <4>1
        <5>2. QED BY <2>1, <3>2, <5>1
      <4>2. CASE i = n
        <5>1. UnitView(q, problem, x) = UnitView(q, problem, blk[a]) BY <3>1, <3>2, <4>2
        <5>2. UnitView(q, problem, NextUnit(q, size, x)) = UnitView(q, problem, new)
          BY <1>5, <1>6, <5>1, NextTogether DEF new
        <5>3. QED BY <3>2, <4>2, <5>2
      <4>3. QED BY <4>1, <4>2
    <3>5. n + 1 \in Nat OBVIOUS
    <3> DEFINE e == n + 1
    <3>6. \A i \in 1 .. e - 1 : \A d \in Nat : \A x :
            Placed(q', problem', d, x) /\ UnitView(q', problem', x) = g[i] =>
              UnitView(q', problem', NextUnit(q', Cardinality(Blocks'), x)) = g[i + 1]
      BY <1>1, <1>2, <3>4 DEF size
    <3>7. /\ e \in Nat
          /\ \A b \in Blocks' : Cluster(b)' = c =>
               blk'[b].nth <= e
               /\ (blk'[b].nth >= 1 => UnitView(q', problem', blk'[b]) = g[blk'[b].nth])
      BY <3>3, <3>5
    <3> HIDE DEF e, g
    <3>8. \E i, h1 :
            /\ i \in Nat
            /\ \A b \in Blocks' : Cluster(b)' = c =>
                 blk'[b].nth <= i
                 /\ (blk'[b].nth >= 1 => UnitView(q', problem', blk'[b]) = h1[blk'[b].nth])
            /\ \A j \in 1 .. i - 1 : \A d \in Nat : \A x :
                 Placed(q', problem', d, x) /\ UnitView(q', problem', x) = h1[j] =>
                   UnitView(q', problem', NextUnit(q', Cardinality(Blocks'), x)) = h1[j + 1]
      BY <3>6, <3>7
    <3>9. QED BY <3>8 DEF InStep
  <2>4. QED BY <2>2, <2>3
<1>14. QED BY <1>1, <1>2, <1>4, <1>10, <1>11, <1>12, <1>13 DEF TogetherInv

LEMMA Step == TogetherInv /\ [Next]_vars => TogetherInv'
<1> SUFFICES ASSUME TogetherInv, [Next]_vars PROVE TogetherInv'
  OBVIOUS
<1>1. CASE Initialize BY <1>1, OtherSteps DEF Initialize
<1>2. CASE Run BY <1>2, RunStep
<1>3. CASE Synchronize BY <1>3, OtherSteps DEF Synchronize
<1>4. CASE Dispatch BY <1>4, DispatchStep
<1>5. ASSUME NEW b \in Blocks, Block(b) PROVE TogetherInv'
  <2>1. CASE Mainloop(b)
    <3> DEFINE w == blk[b].work
               to == CASE ~IsValid(w) -> "exit"
                       [] IsValid(w) /\ ~RequiresFixup(q, w) ->
                            IF ComputeEpilogue(q, w) THEN "epilogue" ELSE "next"
                       [] RequiresFixup(q, w) /\ ~ComputeEpilogue(q, w) /\ w.k = 0 -> "store"
                       [] OTHER -> "lock"
    <3>1. blk[b].pc = "mainloop" /\ Goto(b, to) /\ UNCHANGED <<problem, q, next>>
      BY <2>1 DEF Mainloop, hostvars
    <3>2. to # "pending"
      <4>1. CASE ~IsValid(w) BY <4>1 DEF RequiresFixup
      <4>2. CASE IsValid(w) /\ ~RequiresFixup(q, w) BY <4>2
      <4>3. CASE IsValid(w) /\ RequiresFixup(q, w) /\ ~ComputeEpilogue(q, w) /\ w.k = 0
        BY <4>3
      <4>4. CASE IsValid(w) /\ RequiresFixup(q, w) /\ ~(~ComputeEpilogue(q, w) /\ w.k = 0)
        BY <4>4
      <4>5. QED BY <4>1, <4>2, <4>3, <4>4
    <3> HIDE DEF to
    <3>3. QED BY <3>1, <3>2, PcStep
  <2>2. CASE Store(b) BY <2>2, PcStep DEF Store, hostvars
  <2>3. CASE Lock(b) BY <2>3, PcStep DEF Lock, hostvars
  <2>4. CASE Reduce(b) BY <2>4, PcStep DEF Reduce, hostvars
  <2>5. CASE Arrive(b) BY <2>5, PcStep DEF Arrive, hostvars
  <2>6. CASE Epilogue(b) BY <2>6, PcStep DEF Epilogue, hostvars
  <2>7. CASE FetchNextWork(b) BY <2>7, FetchStep
  <2>8. QED BY <1>5, <2>1, <2>2, <2>3, <2>4, <2>5, <2>6, <2>7 DEF Block
<1>6. CASE Terminated \/ UNCHANGED vars BY <1>6, OtherSteps DEF Terminated, vars
<1>7. QED BY <1>1, <1>2, <1>3, <1>4, <1>5, <1>6 DEF Next

(* What the blocks of a cluster are said to have in common follows from    *)
(* their common list.                                                      *)
LEMMA InvImpliesTogether == TogetherInv => ClustersWorkTogether
<1> SUFFICES ASSUME TogetherInv, NEW b \in Blocks
             PROVE  LET w == blk[b].work
                        first == Cluster(b) * Size(q)
                        v == blk[first].work IN
                    /\ IsValid(w) =>
                         w.m % problem.cm = BlockIdInCluster(q, b).m
                         /\ w.n % problem.cn = BlockIdInCluster(q, b).n
                    /\ blk[b].nth = blk[first].nth =>
                         /\ w.k = v.k /\ w.count = v.count /\ w.l = v.l
                         /\ w.m \div problem.cm = v.m \div problem.cm
                         /\ w.n \div problem.cn = v.n \div problem.cn
  BY DEF ClustersWorkTogether
<1> DEFINE c == Cluster(b)
           r == b % Size(q)
           first == c * Size(q)
<1>1. /\ Divisors(q) /\ Size(q) \in Nat \ {0} /\ b \in Nat /\ c \in Nat
      /\ GridSize(Grid) \in Nat \ {0} /\ Blocks = 0 .. GridSize(Grid) - 1
  BY Launched
<1>2. r \in 0 .. Size(q) - 1 /\ b = c * Size(q) + r BY <1>1, DivMod DEF Cluster
<1> HIDE DEF c, r
<1>3. BlockIdInCluster(q, b) = BlockIdInCluster(q, r) BY <1>1, <1>2, PlaceInCluster
<1>4. PlacedWork(q, problem, r, blk[b].work) BY DEF TogetherInv, Placed, r
<1>5. first \in Blocks /\ Cluster(first) = c
  <2>1. first \in Nat /\ r \in Nat /\ first <= b
    <3>1. c * Size(q) \in Nat BY <1>1
    <3> HIDE DEF first
    <3>2. QED BY <1>1, <1>2, <3>1 DEF first
  <2>2. first \in Blocks BY <1>1, <2>1
  <2>3. (c * Size(q) + 0) \div Size(q) = c
    <3>1. 0 \in 0 .. Size(q) - 1 BY <1>1
    <3>2. QED BY <1>1, <3>1, DivModUnique
  <2>4. c * Size(q) + 0 = first BY <1>1, <2>1
  <2>5. QED BY <2>2, <2>3, <2>4 DEF Cluster
<1> HIDE DEF first
<1>6. ASSUME blk[b].nth = blk[first].nth
      PROVE  WorkView(problem, blk[b].work) = WorkView(problem, blk[first].work)
  <2>1. CASE blk[b].nth >= 1
    <3>1. c \in Clusters BY DEF Clusters, c
    <3>2. PICK n, h :
            \A d \in Blocks : Cluster(d) = c =>
               blk[d].nth <= n
               /\ (blk[d].nth >= 1 => UnitView(q, problem, blk[d]) = h[blk[d].nth])
      BY <3>1 DEF TogetherInv, InStep
    <3>3. UnitView(q, problem, blk[b]) = UnitView(q, problem, blk[first])
      BY <1>5, <1>6, <2>1, <3>2 DEF c
    <3>4. QED BY <3>3 DEF UnitView
  <2>2. CASE ~(blk[b].nth >= 1) BY <1>5, <1>6, <2>2 DEF TogetherInv, PendingBlocks
  <2>3. QED BY <2>1, <2>2
<1>7. IsValid(blk[b].work) =>
        /\ blk[b].work.m % problem.cm = BlockIdInCluster(q, b).m
        /\ blk[b].work.n % problem.cn = BlockIdInCluster(q, b).n
  BY <1>3, <1>4 DEF PlacedWork
<1>8. QED BY <1>6, <1>7 DEF WorkView, c, first

(* The inductive invariant, for every problem, grid and device. *)
THEOREM TogetherInvariance == Spec => []TogetherInv
  BY Initially, Step, PTL DEF Spec

(* Blocks of a cluster that have fetched equally often work on the same k  *)
(* tiles of neighbouring output tiles, each on its own place, however far  *)
(* apart they run: the work loop of the persistent kernels, with           *)
(* get_current_work and fetch_next_work of either scheduler.               *)
THEOREM ClustersTogether == Spec => []ClustersWorkTogether
  BY TogetherInvariance, InvImpliesTogether, PTL

-----------------------------------------------------------------------------
(* 7. The host's sizes and the kernel's.                                   *)

(* Rounding up gives the least multiple that is not below. *)
LEMMA RoundUpLeast ==
  ASSUME NEW x \in Nat \ {0}, NEW d \in Nat \ {0}
  PROVE  /\ RoundUp(x, d) \in Nat /\ RoundUp(x, d) >= x
         /\ \A j \in Int : x <= j * d => RoundUp(x, d) <= j * d
<1> DEFINE k == (x + d - 1) \div d
           r == (x + d - 1) % d
<1>1. x + d - 1 \in Nat OBVIOUS
<1>2. k \in Nat /\ r \in 0 .. d - 1 /\ x + d - 1 = k * d + r BY <1>1, DivMod
<1>3. RoundUp(x, d) = k * d BY DEF RoundUp, CeilDiv
<1> HIDE DEF k, r
<1>4. k * d \in Nat BY <1>2
<1>5. ASSUME NEW j \in Int, x <= j * d PROVE k * d <= j * d
  <2>1. SUFFICES ASSUME j < k PROVE FALSE
    <3>1. CASE j >= k
      <4>1. (j - k) * d \in Nat /\ (j - k) * d = j * d - k * d BY <1>2, <3>1
      <4>2. QED BY <1>4, <4>1
    <3>2. QED BY <1>2, <3>1
  <2>2. k - j - 1 \in Nat BY <1>2, <2>1
  <2>3. (k - j - 1) * d \in Nat /\ (k - j - 1) * d = k * d - j * d - d BY <1>2, <2>2
  <2>4. j * d \in Int OBVIOUS
  <2>5. QED BY <1>2, <1>4, <1>5, <2>3, <2>4
<1>6. QED BY <1>2, <1>3, <1>4, <1>5

(* Both sides of a rounded problem are multiples, and not below it. *)
LEMMA SwizzledSides ==
  ASSUME NEW p \in Problems, NEW b, b.m \in Nat \ {0}, b.n \in Nat \ {0}
  PROVE  LET s == SwizzleSize(b, p.max_swizzle_size)
             c == Swizzled(p, b)
         IN  /\ s \in {1, 2, 4, 8} /\ p.max_swizzle_size \in Nat
             /\ s * p.cm \in Nat \ {0} /\ s * p.cn \in Nat \ {0}
             /\ c.m \in Nat \ {0} /\ c.n \in Nat \ {0}
             /\ \E i \in Nat \ {0} : c.m = i * (s * p.cm)
             /\ \E j \in Nat \ {0} : c.n = j * (s * p.cn)
             /\ c.m >= b.m /\ \A k \in Int : b.m <= k * (s * p.cm) => c.m <= k * (s * p.cm)
             /\ c.n >= b.n /\ \A k \in Int : b.n <= k * (s * p.cn) => c.n <= k * (s * p.cn)
<1> DEFINE s == SwizzleSize(b, p.max_swizzle_size)
           c == Swizzled(p, b)
           d == s * p.cm
           e == s * p.cn
<1> USE DEF Sides
<1>1. p.cm \in Sides /\ p.cn \in Sides /\ p.max_swizzle_size \in Nat
  BY ProblemType DEF Problem
<1>2. s \in {1, 2, 4, 8} BY <1>1, SwizzleFits
<1>3. c.m = RoundUp(b.m, d) /\ c.n = RoundUp(b.n, e) BY DEF Swizzled
<1> HIDE DEF s, c
<1>4. d \in Nat \ {0} /\ e \in Nat \ {0} BY <1>1, <1>2
<1> HIDE DEF d, e
<1>5. \E i \in Nat \ {0} : c.m = i * d BY <1>3, <1>4, RoundUpWhole
<1>6. \E j \in Nat \ {0} : c.n = j * e BY <1>3, <1>4, RoundUpWhole
<1>7. c.m >= b.m /\ \A k \in Int : b.m <= k * d => c.m <= k * d
  BY <1>3, <1>4, RoundUpLeast
<1>8. c.n >= b.n /\ \A k \in Int : b.n <= k * e => c.n <= k * e
  BY <1>3, <1>4, RoundUpLeast
<1>9. c.m \in Nat \ {0} /\ c.n \in Nat \ {0} BY <1>4, <1>5, <1>6, ProductPositive
<1>10. QED BY <1>1, <1>2, <1>4, <1>5, <1>6, <1>7, <1>8, <1>9 DEF s, c, d, e

(* The multiple of a rounded side that stays below another one. *)
LEMMA NotFlipped ==
  ASSUME NEW cm \in Sides, NEW cn \in Sides, cm < cn,
         NEW s \in {2, 4}, NEW r \in {4, 8}, s < r,
         NEW tn \in Nat, tn <= (IF s = 2 THEN 2 ELSE 5),
         NEW bm \in Nat, NEW bn \in Nat, bm < bn, \E i \in Nat : bm = i * (s * cm),
         \A k \in Int : tn <= k * (s * cn) => bn <= k * (s * cn),
         NEW m \in Nat, NEW n \in Nat, \E j \in Nat \ {0} : n = j * (r * cn),
         \A k \in Int : bm <= k * (r * cm) => m <= k * (r * cm)
  PROVE  m < n
<1>0. \E c \in {2, 4, 8, 16} : cn = c * cm BY DEF Sides
<1>1. PICK c \in {2, 4, 8, 16} : cn = c * cm BY <1>0
<1> USE DEF Sides
<1>2. bn <= s * cn
  <2>1. tn <= 1 * (s * cn) OBVIOUS
  <2>2. bn <= 1 * (s * cn) BY <2>1
  <2>3. QED BY <2>2
<1>3. PICK i \in Nat : bm = i * (s * cm) OBVIOUS
<1>4. i <= c - 1
  <2>1. i * (s * cm) < c * (s * cm) BY <1>1, <1>2, <1>3
  <2>2. CASE i >= c
    <3>1. (i - c) * (s * cm) \in Nat BY <1>1, <2>2
    <3>2. (i - c) * (s * cm) = i * (s * cm) - c * (s * cm) BY <1>1
    <3>3. QED BY <1>1, <2>1, <3>1, <3>2
  <2>3. QED BY <1>1, <2>2
<1>5. bm <= (c - 1) * (r * cm)
  <2>1. (c - 1 - i) * (s * cm) \in Nat BY <1>1, <1>4
  <2>2. (c - 1 - i) * (s * cm) = (c - 1) * (s * cm) - i * (s * cm) BY <1>1
  <2>3. (c - 1) * (s * cm) <= (c - 1) * (r * cm) BY <1>1
  <2>4. (c - 1) * (s * cm) \in Int /\ (c - 1) * (r * cm) \in Int BY <1>1
  <2>5. QED BY <1>3, <2>1, <2>2, <2>3, <2>4
<1>6. m <= (c - 1) * (r * cm)
  <2>1. c - 1 \in Int BY <1>1
  <2> HIDE DEF Sides
  <2>2. QED BY <1>5, <2>1
<1>7. n >= r * cn
  <2>1. PICK j \in Nat \ {0} : n = j * (r * cn) OBVIOUS
  <2>2. (j - 1) * (r * cn) \in Nat /\ (j - 1) * (r * cn) = j * (r * cn) - r * cn BY <2>1
  <2>3. QED BY <2>1, <2>2
<1>8. QED BY <1>1, <1>6, <1>7

(* The host rounds the blocks twice, and rounded blocks may be swizzled    *)
(* more widely.  This may turn the raster, but never from the longer side  *)
(* of the cluster to the shorter one.                                      *)
LEMMA RasterIsStable ==
  ASSUME NEW p \in Problems
  PROVE  LET b == Swizzled(p, TiledCtaShape(p))
             c == Swizzled(p, b)
         IN  /\ AlongN(p, b) /\ p.cm > p.cn => AlongN(p, c)
             /\ ~AlongN(p, b) /\ p.cn > p.cm => ~AlongN(p, c)
<1> DEFINE t == TiledCtaShape(p)
           b == Swizzled(p, t)
           c == Swizzled(p, b)
           s == SwizzleSize(t, p.max_swizzle_size)
           r == SwizzleSize(b, p.max_swizzle_size)
           max == p.max_swizzle_size
<1> USE DEF Sides
<1>1. p.cm \in Sides /\ p.cn \in Sides /\ p.m \in Nat \ {0} /\ p.n \in Nat \ {0}
  BY ProblemType DEF Problem
<1>2. t.m \in Nat \ {0} /\ t.n \in Nat \ {0}
      /\ (\E i \in Nat \ {0} : t.m = i * p.cm) /\ (\E i \in Nat \ {0} : t.n = i * p.cn)
  <2>1. t.m = RoundUp(p.m, p.cm) /\ t.n = RoundUp(p.n, p.cn) BY DEF TiledCtaShape
  <2> HIDE DEF t, b, c, s, r
  <2>6. p.cm \in Nat \ {0} /\ p.cn \in Nat \ {0} BY <1>1
  <2>7. \E i \in Nat \ {0} : RoundUp(p.m, p.cm) = i * p.cm BY <1>1, <2>6, RoundUpWhole
  <2>8. \E j \in Nat \ {0} : RoundUp(p.n, p.cn) = j * p.cn BY <1>1, <2>6, RoundUpWhole
  <2>2. PICK i \in Nat \ {0} : t.m = i * p.cm BY <2>1, <2>7
  <2>3. PICK j \in Nat \ {0} : t.n = j * p.cn BY <2>1, <2>8
  <2>4. i * p.cm \in Nat \ {0} /\ j * p.cn \in Nat \ {0} BY <1>1
  <2>5. QED BY <2>2, <2>3, <2>4
<1> HIDE DEF t
<1>3. /\ s \in {1, 2, 4, 8} /\ max \in Nat
      /\ s * p.cm \in Nat \ {0} /\ s * p.cn \in Nat \ {0}
      /\ b.m \in Nat \ {0} /\ b.n \in Nat \ {0}
      /\ \E i \in Nat \ {0} : b.m = i * (s * p.cm)
      /\ \E j \in Nat \ {0} : b.n = j * (s * p.cn)
      /\ b.m >= t.m /\ \A k \in Int : t.m <= k * (s * p.cm) => b.m <= k * (s * p.cm)
      /\ b.n >= t.n /\ \A k \in Int : t.n <= k * (s * p.cn) => b.n <= k * (s * p.cn)
  BY <1>2, SwizzledSides
<1>4. /\ s # 1 => max >= s
      /\ s < 2 => max < 2 \/ Lesser(t.m, t.n) < 2
      /\ s < 4 => max < 4 \/ Lesser(t.m, t.n) < 3
      /\ s < 8 => max < 8 \/ Lesser(t.m, t.n) < 6
  BY <1>2, <1>3, SwizzleFits
<1> HIDE DEF b, s
<1>5. /\ r \in {1, 2, 4, 8}
      /\ c.m \in Nat \ {0} /\ c.n \in Nat \ {0}
      /\ \E i \in Nat \ {0} : c.m = i * (r * p.cm)
      /\ \E j \in Nat \ {0} : c.n = j * (r * p.cn)
      /\ c.m >= b.m /\ \A k \in Int : b.m <= k * (r * p.cm) => c.m <= k * (r * p.cm)
      /\ c.n >= b.n /\ \A k \in Int : b.n <= k * (r * p.cn) => c.n <= k * (r * p.cn)
  BY <1>3, SwizzledSides
<1>6. /\ r # 1 => max >= r
      /\ (r = 2 => Lesser(b.m, b.n) >= 2)
      /\ (r = 4 => Lesser(b.m, b.n) >= 3) /\ (r = 8 => Lesser(b.m, b.n) >= 6)
  BY <1>3, SwizzleFits
<1> HIDE DEF c, r
<1>7. ASSUME p.cm > p.cn, b.n <= b.m PROVE c.n <= c.m
  <2>1. PICK i \in Nat \ {0} : c.m = i * (r * p.cm) BY <1>5
  <2>2. \E k \in {2, 4, 8, 16} : p.cm = k * p.cn BY <1>1, <1>7
  <2>3. PICK k \in {2, 4, 8, 16} : p.cm = k * p.cn BY <2>2
  <2>4. c.m = (i * k) * (r * p.cn) /\ i * k \in Int
    <3>1. r \in Int /\ p.cn \in Int /\ i \in Int /\ k \in Int BY <1>1, <1>5
    <3>2. i * (r * (k * p.cn)) = (i * k) * (r * p.cn) BY <3>1
    <3>3. QED BY <2>1, <2>3, <3>1, <3>2
  <2>5. b.n <= (i * k) * (r * p.cn) BY <1>3, <1>5, <1>7, <2>4
  <2>6. QED BY <1>5, <2>4, <2>5
<1>8. ASSUME p.cn > p.cm, b.m < b.n PROVE c.m < c.n
  <2>1. CASE r <= s
    <3>1. PICK i \in Nat \ {0} : b.m = i * (s * p.cm) BY <1>3
    <3>2. PICK k \in {1, 2, 4, 8} : s = k * r
      <4>1. \E k \in {1, 2, 4, 8} : s = k * r BY <1>3, <1>5, <2>1
      <4>2. QED BY <4>1
    <3>3. b.m = (i * k) * (r * p.cm) /\ i * k \in Int BY <1>1, <1>5, <3>1, <3>2
    <3>4. c.m <= b.m
      <4>1. b.m <= (i * k) * (r * p.cm) BY <1>3, <3>3
      <4>2. QED BY <1>5, <3>3, <4>1
    <3>5. QED BY <1>3, <1>5, <1>8, <3>4
  <2>2. CASE s < r
    <3>1. max >= r BY <1>3, <1>5, <1>6, <2>2
    <3>2. s # 1
      <4>1. SUFFICES ASSUME s = 1 PROVE FALSE OBVIOUS
      <4>2. b.m = t.m /\ b.n = t.n
        <5>1. PICK i \in Nat \ {0} : t.m = i * p.cm BY <1>2
        <5>2. PICK j \in Nat \ {0} : t.n = j * p.cn BY <1>2
        <5>3. s * p.cm = p.cm /\ s * p.cn = p.cn BY <1>1, <4>1
        <5>4. t.m <= i * p.cm /\ t.n <= j * p.cn BY <1>2, <5>1, <5>2
        <5>5. b.m <= i * p.cm /\ b.n <= j * p.cn BY <1>3, <5>3, <5>4
        <5>6. QED BY <1>2, <1>3, <5>1, <5>2, <5>5
      <4>3. Lesser(b.m, b.n) < 2 BY <1>3, <1>4, <1>5, <2>2, <3>1, <4>1, <4>2
      <4>4. QED BY <1>3, <1>5, <1>6, <2>2, <4>1, <4>3 DEF Lesser
    <3>3. /\ s \in {2, 4} /\ r \in {4, 8}
          /\ Lesser(t.m, t.n) <= (IF s = 2 THEN 2 ELSE 5)
      <4>1. Lesser(t.m, t.n) \in Nat BY <1>2 DEF Lesser
      <4>2. QED BY <1>3, <1>4, <1>5, <2>2, <3>1, <3>2, <4>1
    <3>4. PICK j \in Nat \ {0} : c.n = j * (r * p.cn) BY <1>5
    <3>5. CASE t.n <= (IF s = 2 THEN 2 ELSE 5)
      BY <1>1, <1>2, <1>3, <1>5, <1>8, <2>2, <3>3, <3>5, NotFlipped
    <3>6. CASE t.m <= (IF s = 2 THEN 2 ELSE 5)
      <4>1. c.m <= 1 * (r * p.cm)
        <5>1. \E k \in {2, 4} : r * p.cm = k * (s * p.cm) /\ t.m <= k * (s * p.cm)
          BY <1>1, <1>2, <2>2, <3>3, <3>6
        <5>2. PICK k \in {2, 4} : r * p.cm = k * (s * p.cm) /\ t.m <= k * (s * p.cm)
          BY <5>1
        <5>3. b.m <= r * p.cm BY <1>3, <5>2
        <5>4. 1 * (r * p.cm) = r * p.cm BY <1>1, <1>5
        <5>5. QED BY <1>5, <5>3, <5>4
      <4>2. c.n >= r * p.cn
        <5> DEFINE d == r * p.cn
        <5>1. d \in Nat BY <1>1, <1>5
        <5>2. c.n = j * d BY <3>4
        <5> HIDE DEF d
        <5>3. (j - 1) * d \in Nat /\ (j - 1) * d = j * d - d BY <5>1
        <5>4. c.n >= d BY <1>5, <5>1, <5>2, <5>3
        <5>5. QED BY <5>4 DEF d
      <4>3. QED BY <1>1, <1>5, <1>8, <4>1, <4>2
    <3>7. QED BY <1>2, <3>3, <3>5, <3>6 DEF Lesser
  <2>3. QED BY <1>3, <1>5, <2>1, <2>2
<1>9. AlongN(p, b) /\ p.cm > p.cn => AlongN(p, c) BY <1>7 DEF AlongN
<1>10. ~AlongN(p, b) /\ p.cn > p.cm => ~AlongN(p, c)
  <2>1. ASSUME ~AlongN(p, b), p.cn > p.cm PROVE ~AlongN(p, c)
    <3>1. p.raster_order # "AlongN" /\ (p.raster_order = "Heuristic" => b.m < b.n)
      BY <1>3, <2>1 DEF AlongN
    <3>2. p.raster_order = "Heuristic" => c.m < c.n BY <1>8, <2>1, <3>1
    <3>3. QED BY <1>5, <3>1, <3>2 DEF AlongN
  <2>2. QED BY <2>1
<1>11. QED BY <1>9, <1>10 DEF b, c, t

(* A grid of whole clusters is as large whichever way the raster runs, if  *)
(* the shorter side of the cluster comes first.                            *)
LEMMA WaveTurned ==
  ASSUME NEW sms \in Nat, NEW minor \in Nat \ {0}, NEW major \in Nat \ {0}, minor <= major,
         (sms \div minor) % major = 0
  PROVE  minor * (sms \div minor) = (sms \div major) * major
<1> DEFINE long == sms \div minor
           rest == sms % minor
           k == long \div major
<1>1. long \in Nat /\ rest \in 0 .. minor - 1 /\ sms = long * minor + rest BY DivMod
<1>2. k \in Nat /\ long = k * major BY <1>1, DivMod
<1> HIDE DEF long, rest, k
<1>3. sms = (k * minor) * major + rest /\ k * minor \in Nat /\ rest \in 0 .. major - 1
  BY <1>1, <1>2
<1>4. sms \div major = k * minor BY <1>3, DivModUnique
<1>5. minor * long = (k * minor) * major BY <1>1, <1>2, <1>3
<1>6. QED BY <1>4, <1>5 DEF long

(* A wave of stream-K as the kernel and as the host count it.              *)
LEMMA SameWave ==
  ASSUME NEW p \in Problems, p.scheduler = "stream-K",
         LET g == GridShape(p, TiledCtaShape(p), FALSE, TRUE)
         IN  g.x % p.cm = 0 /\ g.y % p.cn = 0
  PROVE  CtasPerWave(p, Swizzled(p, TiledCtaShape(p))) = CtasPerWave(p, TiledCtaShape(p))
<1> DEFINE t == TiledCtaShape(p)
           b == Swizzled(p, t)
           c == Swizzled(p, b)
           known == /\ ClusterSize(p) > 1 /\ p.max_active_clusters # 0
                    /\ p.max_active_clusters * ClusterSize(p) <= p.sm_count
           Short(n) == IF n THEN p.cm ELSE p.cn
           Wide(n) == IF n THEN p.cn ELSE p.cm
           Long(n) == CASE ClusterSize(p) = 1 -> p.sm_count
                        [] known -> p.max_active_clusters * Wide(n)
                        [] OTHER -> p.sm_count \div Short(n)
           Wave(n) == Short(n) * Long(n)
<1> USE DEF Sides
<1>1. p.cm \in Sides /\ p.cn \in Sides /\ p.sm_count \in Nat
      /\ p.max_active_clusters \in Nat
  BY ProblemType
<1>2. ASSUME NEW blocks, NEW n, n = AlongN(p, Swizzled(p, blocks))
      PROVE  CtasPerWave(p, blocks) = (IF n THEN Short(n) * Long(n) ELSE Long(n) * Short(n))
  BY <1>2 DEF CtasPerWave, GridSize, GridShape
<1>3. \A n \in BOOLEAN : Long(n) \in Int /\ Short(n) \in Int BY <1>1 DEF ClusterSize
<1>4. AlongN(p, b) \in BOOLEAN /\ AlongN(p, c) \in BOOLEAN BY DEF AlongN
<1>5. CtasPerWave(p, t) = Wave(AlongN(p, b)) /\ CtasPerWave(p, b) = Wave(AlongN(p, c))
  <2>1. CtasPerWave(p, t) = Wave(AlongN(p, b)) BY <1>2, <1>3, <1>4
  <2>2. CtasPerWave(p, b) = Wave(AlongN(p, c)) BY <1>2, <1>3, <1>4
  <2>3. QED BY <2>1, <2>2
<1>6. Long(AlongN(p, b)) % Wide(AlongN(p, b)) = 0 BY DEF GridShape
<1>7. CASE AlongN(p, b) = AlongN(p, c) BY <1>5, <1>7
<1>8. CASE AlongN(p, b) # AlongN(p, c)
  <2>1. Short(AlongN(p, b)) <= Wide(AlongN(p, b))
        /\ Short(AlongN(p, c)) = Wide(AlongN(p, b))
        /\ Wide(AlongN(p, c)) = Short(AlongN(p, b))
    BY <1>1, <1>4, <1>8, RasterIsStable
  <2> DEFINE minor == Short(AlongN(p, b))
             major == Wide(AlongN(p, b))
  <2>2. minor \in Sides /\ major \in Sides BY <1>1
  <2>3. CASE ClusterSize(p) = 1 BY <1>1, <1>5, <2>1, <2>3 DEF ClusterSize
  <2>4. CASE ClusterSize(p) # 1 /\ known BY <1>1, <1>5, <2>1, <2>2, <2>4
  <2>5. CASE ClusterSize(p) # 1 /\ ~known
    <3>1. CtasPerWave(p, t) = minor * (p.sm_count \div minor) BY <1>5, <2>5
    <3>2. CtasPerWave(p, b) = major * (p.sm_count \div major) BY <1>5, <2>1, <2>5
    <3>3. (p.sm_count \div minor) % major = 0 /\ minor <= major BY <1>6, <2>1, <2>5
    <3> HIDE DEF minor, major
    <3>0. minor \in Nat \ {0} /\ major \in Nat \ {0} BY <2>2
    <3>4. minor * (p.sm_count \div minor) = (p.sm_count \div major) * major
      BY <1>1, <3>0, <3>3, WaveTurned
    <3>5. p.sm_count \div major \in Int BY <1>1, <3>0
    <3>6. QED BY <2>2, <3>1, <3>2, <3>4, <3>5
  <2>6. QED BY <2>3, <2>4, <2>5
<1>9. QED BY <1>7, <1>8

(* The host clears the locks where the kernel looks for them, if the       *)
(* kernel has any.                                                         *)
LEMMA HostAgrees ==
  ASSUME NEW p \in Problems,
         LET g == GridShape(p, TiledCtaShape(p), p.scheduler = "static", p.scheduler = "stream-K")
         IN  g.x % p.cm = 0 /\ g.y % p.cn = 0
  PROVE  LockBase(Params(p)) \in {0, Workspace(p)}
<1> DEFINE t == TiledCtaShape(p)
           b == Swizzled(p, t)
           tiles == UnderlyingParams(p).blocks_per_problem
           sk_tiles == NumSkTiles(p, tiles, CtasPerWave(p, t))
           sk_units == NumSkUnits(p, CtasPerWave(p, t), sk_tiles)
           required == SplitKIsRequired(p) /\ AdjustSplitCount(p) > 1
           selected == /\ p.decomposition_mode = "Heuristic"
                       /\ sk_tiles # 0 /\ sk_units > sk_tiles /\ sk_units % sk_tiles = 0
           whole == p.scheduler = "static" \/ p.decomposition_mode = "DataParallel"
<1>1. tiles = BlocksIn(b) /\ tiles = Underlying(p).blocks_per_problem
  <2>1. tiles = BlocksIn(b) BY DEF UnderlyingParams
  <2>2. QED BY <2>1, UnderlyingFields DEF Same
<1>2. p.scheduler \in {"static", "stream-K"} BY ProblemType
<1>3. CASE p.scheduler = "static"
  <2>1. PICK splits \in Nat \ {0} : Params(p) = ParamsBasic(p, Underlying(p), splits)
                                    /\ splits = 1
    BY <1>3, ParamsCases
  <2>2. QED BY <2>1, BasicFields DEF LockBase
<1>4. CASE p.scheduler = "stream-K"
  <2>1. CtasPerWave(p, b) = CtasPerWave(p, t) BY <1>4, SameWave
  <2>2. Workspace(p) = CASE whole -> 0
                         [] ~whole /\ (required \/ selected) -> tiles
                         [] OTHER -> sk_tiles
    BY <1>1, <2>1 DEF Workspace
  <2> HIDE DEF required, selected, t, b, tiles, sk_tiles, sk_units
  <2>3. ASSUME NEW splits \in Nat \ {0}, Params(p) = ParamsBasic(p, Underlying(p), splits),
               splits # 1 => \/ SplitKIsRequired(p) /\ splits = AdjustSplitCount(p)
                             \/ ~SplitKIsRequired(p) /\ selected
        PROVE  LockBase(Params(p)) \in {0, Workspace(p)}
    <3>1. CASE splits = 1 BY <2>3, <3>1, BasicFields DEF LockBase
    <3>2. CASE splits # 1
      <4>1. LockBase(Params(p)) = tiles
        BY <1>1, <2>3, <3>2, BasicFields, UnderlyingFields DEF LockBase, Same, tiles
      <4>2. required \/ selected BY <2>3, <3>2 DEF required
      <4>3. p.decomposition_mode # "DataParallel"
        BY <4>2 DEF required, selected, SplitKIsRequired
      <4>4. Workspace(p) = tiles BY <1>4, <2>2, <4>2, <4>3
      <4>5. QED BY <4>1, <4>4
    <3>3. QED BY <3>1, <3>2
  <2>4. ASSUME NEW units, NEW groups,
               Params(p) = ParamsStreamK(p, Underlying(p), sk_tiles, units, groups),
               sk_tiles \in 1 .. tiles, ~SplitKIsRequired(p), ~selected
        PROVE  LockBase(Params(p)) \in {0, Workspace(p)}
    <3>1. LockBase(Params(p)) = sk_tiles BY <2>4, StreamKFields DEF LockBase
    <3>2. p.decomposition_mode # "DataParallel" BY <2>4 DEF sk_tiles, NumSkTiles
    <3>3. Workspace(p) = sk_tiles BY <1>4, <2>2, <2>4, <3>2 DEF required
    <3>4. QED BY <3>1, <3>3
  <2>5. \/ \E splits \in Nat \ {0} :
             /\ Params(p) = ParamsBasic(p, Underlying(p), splits)
             /\ splits # 1 => \/ SplitKIsRequired(p) /\ splits = AdjustSplitCount(p)
                              \/ ~SplitKIsRequired(p) /\ selected
        \/ /\ \E units, groups : Params(p) = ParamsStreamK(p, Underlying(p), sk_tiles, units, groups)
           /\ sk_tiles \in 1 .. tiles /\ ~SplitKIsRequired(p) /\ ~selected
    BY ParamsCases DEF selected, t, tiles, sk_tiles, sk_units
  <2>6. QED BY <2>3, <2>4, <2>5
<1>5. QED BY <1>2, <1>3, <1>4

-----------------------------------------------------------------------------
(* 8. What a unit may compute: its k tiles are within the line of the      *)
(* output tiles that it was cut from.                                      *)

(* The tiles in the line of a unit, counted in clusters. *)
TilesOfLine(u, cluster) ==
  IF u.splits > 1 THEN u.clusters_mnl
  ELSE (u.sk_tiles \div Size(u)) \div u.groups + IF cluster % u.groups < u.big_groups THEN 1 ELSE 0

(* The parameters fit each other: the units of a split cut up each tile,   *)
(* those of stream-K are the same number for each group.                   *)
FittedSplit(u) ==
  /\ u.groups = 1 /\ u.clusters_mnl \in Nat \ {0}
  /\ u.units_per_problem = u.blocks_per_problem
  /\ u.blocks_per_problem = u.clusters_mnl * Size(u)
  /\ u.k_tiles_per_sk_unit \in Nat /\ u.big_units \in 0 .. u.splits - 1
  /\ u.kt = u.k_tiles_per_sk_unit * u.splits + u.big_units

FittedStreamK(u) ==
  /\ u.sk_tiles <= u.blocks_per_problem /\ u.sk_units \in Nat
  /\ u.units_per_problem = u.blocks_per_problem - u.sk_tiles + u.sk_units
  /\ \E tiles \in Nat : u.sk_tiles = tiles * Size(u) /\ u.big_groups = tiles % u.groups
  /\ u.sk_units > 0 =>
       \E v \in Nat \ {0} : /\ u.units_per_group = v * Size(u)
                            /\ u.sk_units = (v * u.groups) * Size(u)

FittedParams(u) ==
  /\ Divisors(u) /\ u.kt \in Nat \ {0} /\ u.groups \in Nat \ {0} /\ u.splits \in Nat \ {0}
  /\ \E blocks \in Nat \ {0} : u.blocks_per_problem = blocks * Size(u)
  /\ u.splits > 1 => FittedSplit(u)
  /\ u.splits = 1 => FittedStreamK(u)

LEMMA BasicFits ==
  ASSUME NEW p \in Problems, NEW splits \in Nat \ {0}
  PROVE  FittedParams(ParamsBasic(p, Underlying(p), splits))
<1> DEFINE u == ParamsBasic(p, Underlying(p), splits)
           v == UnderlyingParams(p)
<1>1. /\ Same(u, v) /\ u.kt = p.kt
      /\ u.units_per_problem = u.blocks_per_problem /\ u.splits = splits
      /\ u.clusters_mnl = u.blocks_per_problem \div ClusterSize(p)
      /\ u.k_tiles_per_sk_unit = p.kt \div splits /\ u.big_units = p.kt % splits
      /\ u.sk_tiles = 0 /\ u.sk_units = 0
      /\ u.groups = 1 /\ u.units_per_group = 1 /\ u.big_groups = 0
  BY BasicFields
<1>2. /\ Divisors(v) /\ Size(v) = ClusterSize(p) /\ ClusterSize(p) \in Nat \ {0}
      /\ \E clusters \in Nat \ {0} : v.blocks_per_problem = clusters * Size(v)
  BY BlocksAreWhole
<1>3. p.kt \in Nat \ {0} BY ProblemType
<1> HIDE DEF u, v
<1>4. /\ Divisors(u) /\ Size(u) = ClusterSize(p)
      /\ \E clusters \in Nat \ {0} : u.blocks_per_problem = clusters * Size(u)
  BY <1>1, <1>2 DEF Same, Divisors, Size
<1>5. PICK clusters \in Nat \ {0} : u.blocks_per_problem = clusters * Size(u) BY <1>4
<1>6. u.clusters_mnl = clusters
  <2>1. (clusters * Size(u) + 0) \div Size(u) = clusters
    <3>1. 0 \in 0 .. Size(u) - 1 BY <1>2, <1>4
    <3>2. QED BY <1>2, <1>4, <3>1, DivModUnique
  <2>2. clusters * Size(u) + 0 = clusters * Size(u) BY <1>2, <1>4
  <2>3. QED BY <1>1, <1>4, <1>5, <2>1, <2>2
<1>7. /\ u.k_tiles_per_sk_unit \in Nat /\ u.big_units \in 0 .. splits - 1
      /\ u.kt = u.k_tiles_per_sk_unit * splits + u.big_units
  BY <1>1, <1>3, DivMod
<1>8. FittedSplit(u) BY <1>1, <1>5, <1>6, <1>7 DEF FittedSplit
<1>9. FittedStreamK(u)
  <2>1. u.sk_tiles = 0 * Size(u) /\ 0 % u.groups = 0 BY <1>1, <1>2, <1>4
  <2>2. u.blocks_per_problem \in Nat BY <1>2, <1>4, <1>5
  <2>3. \E tiles \in Nat : u.sk_tiles = tiles * Size(u) /\ u.big_groups = tiles % u.groups
    BY <1>1, <2>1
  <2>4. QED BY <1>1, <2>2, <2>3 DEF FittedStreamK
<1>10. FittedParams(u) BY <1>1, <1>3, <1>4, <1>8, <1>9 DEF FittedParams
<1>11. QED BY <1>10 DEF u

LEMMA StreamKFits ==
  ASSUME NEW p \in Problems, NEW sk_tiles, WholeMultiple(sk_tiles, ClusterSize(p)),
         sk_tiles \in 1 .. UnderlyingParams(p).blocks_per_problem,
         NEW k \in Nat \ {0}, NEW sk_units, sk_units = k * ClusterSize(p)
  PROVE  FittedParams(ParamsStreamK(p, Underlying(p), sk_tiles, sk_units,
                        Groups(p, Swizzled(p, TiledCtaShape(p)), sk_tiles, sk_units)))
<1> DEFINE b == Swizzled(p, TiledCtaShape(p))
           g == Groups(p, b, sk_tiles, sk_units)
           u == ParamsStreamK(p, Underlying(p), sk_tiles, sk_units, g)
           w == UnderlyingParams(p)
<1>1. /\ Same(u, w) /\ u.kt = p.kt
      /\ u.units_per_problem = u.blocks_per_problem - sk_tiles + sk_units /\ u.splits = 1
      /\ u.sk_tiles = sk_tiles /\ u.sk_units = sk_units
      /\ u.groups = g /\ u.units_per_group = sk_units \div g
      /\ u.big_groups = (sk_tiles \div ClusterSize(p)) % g
  BY StreamKFields
<1>2. /\ Divisors(w) /\ Size(w) = ClusterSize(p) /\ ClusterSize(p) \in Nat \ {0}
      /\ \E clusters \in Nat \ {0} : w.blocks_per_problem = clusters * Size(w)
  BY BlocksAreWhole
<1>3. p.kt \in Nat \ {0} BY ProblemType
<1>4. (IF AlongN(p, b) THEN b.n \div p.cn ELSE b.m \div p.cm) \in Nat
  <2>1. w.blk_major = IF AlongN(p, b) THEN b.n \div p.cn ELSE b.m \div p.cm
    BY DEF UnderlyingParams
  <2>2. QED BY <1>2, <2>1 DEF Divisors
<1>5. /\ g \in Nat \ {0}
      /\ \E v \in Nat \ {0} : k = v * g /\ sk_units \div g = v * ClusterSize(p)
  <2> HIDE DEF b, w
  <2>1. WholeGrouping(Groups(p, b, sk_tiles, k * ClusterSize(p)), k, ClusterSize(p))
    BY <1>2, <1>4, GroupsType
  <2>2. QED BY <2>1 DEF WholeGrouping
<1> HIDE DEF u, w, g
<1>6. /\ Divisors(u) /\ Size(u) = ClusterSize(p)
      /\ \E clusters \in Nat \ {0} : u.blocks_per_problem = clusters * Size(u)
      /\ u.blocks_per_problem = w.blocks_per_problem
  BY <1>1, <1>2 DEF Same, Divisors, Size
<1>7. PICK j \in Int : sk_tiles = j * ClusterSize(p) BY DEF WholeMultiple
<1>8. sk_tiles \in Nat /\ sk_tiles <= u.blocks_per_problem /\ sk_units \in Nat
  <2>1. w.blocks_per_problem \in Nat BY <1>2
  <2>2. sk_units \in Nat BY <1>2
  <2>3. sk_tiles \in 1 .. w.blocks_per_problem BY DEF w
  <2>4. QED BY <1>6, <2>1, <2>2, <2>3
<1>9. \E tiles \in Nat : u.sk_tiles = tiles * Size(u) /\ u.big_groups = tiles % u.groups
  <2> DEFINE t == sk_tiles \div ClusterSize(p)
  <2>1. t \in Nat /\ sk_tiles % ClusterSize(p) \in 0 .. ClusterSize(p) - 1
    BY <1>2, <1>8, DivMod
  <2>2. 0 \in 0 .. ClusterSize(p) - 1 /\ j * ClusterSize(p) + 0 = j * ClusterSize(p)
    BY <1>2
  <2>3. (j * ClusterSize(p) + 0) \div ClusterSize(p) = j BY <1>2, <2>2, IntDivModUnique
  <2>4. t = j BY <1>7, <2>2, <2>3
  <2> HIDE DEF t
  <2>5. u.sk_tiles = t * Size(u) BY <1>1, <1>6, <1>7, <2>4
  <2>6. u.big_groups = t % u.groups BY <1>1 DEF t
  <2>7. QED BY <2>1, <2>5, <2>6
<1>10. \E v \in Nat \ {0} : u.units_per_group = v * Size(u)
                            /\ u.sk_units = (v * u.groups) * Size(u)
  BY <1>1, <1>5, <1>6
<1>11. FittedStreamK(u) BY <1>1, <1>8, <1>9, <1>10 DEF FittedStreamK
<1>12. FittedParams(u) BY <1>1, <1>3, <1>5, <1>6, <1>11 DEF FittedParams
<1>13. QED BY <1>12 DEF u, g

(* What the parameters of a launched kernel are known to be. *)
LEMMA LaunchedFits ==
  ASSUME NEW p \in Problems,
         LET g == GridShape(p, TiledCtaShape(p), p.scheduler = "static", p.scheduler = "stream-K")
         IN  g.x % p.cm = 0 /\ g.y % p.cn = 0
  PROVE  /\ FittedParams(Params(p)) /\ Same(Params(p), UnderlyingParams(p))
         /\ Params(p).scheduler = p.scheduler
<1> DEFINE b == TiledCtaShape(p)
           tiles == UnderlyingParams(p).blocks_per_problem
           sk_tiles == NumSkTiles(p, tiles, CtasPerWave(p, b))
           sk_units == NumSkUnits(p, CtasPerWave(p, b), sk_tiles)
<1>1. \/ \E splits \in Nat \ {0} : Params(p) = ParamsBasic(p, Underlying(p), splits)
      \/ \E k \in Nat \ {0} :
           /\ Params(p) = ParamsStreamK(p, Underlying(p), sk_tiles, sk_units,
                              Groups(p, Swizzled(p, b), sk_tiles, sk_units))
           /\ sk_units = k * ClusterSize(p)
           /\ sk_tiles \in 1 .. tiles /\ WholeMultiple(sk_tiles, ClusterSize(p))
  BY ParamsCases
<1>2. ASSUME NEW splits \in Nat \ {0}, Params(p) = ParamsBasic(p, Underlying(p), splits)
      PROVE  /\ FittedParams(Params(p)) /\ Same(Params(p), UnderlyingParams(p))
             /\ Params(p).scheduler = p.scheduler
  BY <1>2, BasicFits, BasicFields
<1>3. ASSUME NEW k \in Nat \ {0}, NEW u, NEW n, NEW groups,
             Params(p) = ParamsStreamK(p, Underlying(p), n, u, groups),
             u = k * ClusterSize(p), groups = Groups(p, Swizzled(p, b), n, u),
             n \in 1 .. tiles, WholeMultiple(n, ClusterSize(p))
      PROVE  /\ FittedParams(Params(p)) /\ Same(Params(p), UnderlyingParams(p))
             /\ Params(p).scheduler = p.scheduler
  <2>1. FittedParams(ParamsStreamK(p, Underlying(p), n, u, Groups(p, Swizzled(p, b), n, u)))
    BY <1>3, StreamKFits
  <2>2. Same(ParamsStreamK(p, Underlying(p), n, u, groups), UnderlyingParams(p))
        /\ ParamsStreamK(p, Underlying(p), n, u, groups).scheduler = p.scheduler
    BY StreamKFields
  <2>3. QED BY <1>3, <2>1, <2>2
<1> HIDE DEF b, tiles, sk_tiles, sk_units
<1>4. QED BY <1>1, <1>2, <1>3

(* Equal shares, of which the first few are one larger. *)
LEMMA ShareFits ==
  ASSUME NEW per \in Nat, NEW v \in Nat, NEW big \in Nat, NEW unit \in 0 .. v - 1
  PROVE  LET start == per * unit + Lesser(unit, big)
         IN  /\ start \in Nat
             /\ start + per + (IF unit < big THEN 1 ELSE 0) \in Nat
             /\ start + per + (IF unit < big THEN 1 ELSE 0) <= per * v + big
<1> DEFINE start == per * unit + Lesser(unit, big)
           end == start + per + (IF unit < big THEN 1 ELSE 0)
<1>1. per * unit \in Nat /\ per * v \in Nat /\ Lesser(unit, big) \in Nat BY DEF Lesser
<1>2. start \in Nat /\ end \in Nat BY <1>1
<1>3. per * unit + per <= per * v
  <2>1. per * (v - 1 - unit) \in Nat OBVIOUS
  <2>2. per * (v - 1 - unit) = per * v - per - per * unit OBVIOUS
  <2>3. QED BY <1>1, <2>1, <2>2
<1>4. Lesser(unit, big) + (IF unit < big THEN 1 ELSE 0) <= big BY DEF Lesser
<1>5. end <= per * v + big BY <1>1, <1>3, <1>4
<1>6. QED BY <1>2, <1>5

(* A border that moves to that of an output tile stays within the line. *)
LEMMA AdjustedFits ==
  ASSUME NEW u, u.kt \in Nat \ {0}, NEW tiles \in Nat, NEW iter \in 0 .. tiles * u.kt
  PROVE  Adjusted(u, iter) \in 0 .. tiles * u.kt
<1> DEFINE kt == u.kt
           k == iter % kt
           a == iter \div kt
<1>1. kt \in Nat \ {0} /\ tiles * kt \in Nat /\ iter \in Nat /\ iter <= tiles * kt
  OBVIOUS
<1>2. a \in Nat /\ k \in 0 .. kt - 1 /\ iter = a * kt + k BY <1>1, DivMod
<1>3. Adjusted(u, iter) = CASE k < min_iters_per_sk_unit_ -> iter - k
         [] k >= min_iters_per_sk_unit_ /\ k > kt - min_iters_per_sk_unit_ -> iter + (kt - k)
         [] OTHER -> iter
  BY DEF Adjusted
<1> HIDE DEF kt, k, a
<1>4. a * kt \in Nat BY <1>1, <1>2
<1>5. CASE k < min_iters_per_sk_unit_
  <2>1. Adjusted(u, iter) = iter - k BY <1>2, <1>3, <1>5 DEF min_iters_per_sk_unit_
  <2>2. iter - k \in 0 .. tiles * kt BY <1>1, <1>2, <1>4
  <2>3. QED BY <2>1, <2>2 DEF kt
<1>6. CASE k >= min_iters_per_sk_unit_ /\ k > kt - min_iters_per_sk_unit_
  <2>1. a + 1 <= tiles
    <3>1. a * kt < tiles * kt BY <1>1, <1>2, <1>4, <1>6 DEF min_iters_per_sk_unit_
    <3>2. (tiles - a) * kt = tiles * kt - a * kt BY <1>1, <1>2
    <3>3. CASE a >= tiles
      <4>1. (a - tiles) * kt \in Nat /\ (a - tiles) * kt = a * kt - tiles * kt
        BY <1>1, <1>2, <3>3
      <4>2. QED BY <1>1, <1>4, <3>1, <4>1
    <3>4. QED BY <1>2, <3>3
  <2>2. (tiles - a - 1) * kt \in Nat /\ (tiles - a - 1) * kt = tiles * kt - a * kt - kt
    BY <1>1, <1>2, <2>1
  <2>3. iter + (kt - k) = a * kt + kt BY <1>1, <1>2, <1>4
  <2>4. Adjusted(u, iter) = a * kt + kt BY <1>3, <1>6, <2>3 DEF min_iters_per_sk_unit_
  <2>5. QED BY <1>1, <1>4, <2>2, <2>4 DEF kt
<1>7. CASE ~(k < min_iters_per_sk_unit_)
           /\ ~(k >= min_iters_per_sk_unit_ /\ k > kt - min_iters_per_sk_unit_)
  BY <1>3, <1>7
<1>8. QED BY <1>5, <1>6, <1>7

(* The tiles of a line are those of stream-K, or all. *)
LEMMA LineType ==
  ASSUME NEW u, FittedParams(u), NEW c \in Nat
  PROVE  /\ TilesOfLine(u, c) \in Nat /\ Size(u) \in Nat \ {0} /\ c % u.groups \in 0 .. u.groups - 1
         /\ \E all \in Nat :
              /\ LockBase(u) = all * Size(u) /\ LockBase(u) <= u.blocks_per_problem
              /\ \A tile \in Nat :
                   tile < TilesOfLine(u, c) => tile * u.groups + (c % u.groups) < all
<1>1. /\ Size(u) \in Nat \ {0} /\ u.groups \in Nat \ {0} /\ u.splits \in Nat \ {0}
      /\ c % u.groups \in 0 .. u.groups - 1
  BY SizeIsPositive, DivMod DEF FittedParams
<1>2. CASE u.splits > 1
  <2>1. FittedSplit(u) BY <1>2 DEF FittedParams
  <2>2. TilesOfLine(u, c) = u.clusters_mnl /\ u.clusters_mnl \in Nat
        /\ LockBase(u) = u.clusters_mnl * Size(u) /\ LockBase(u) = u.blocks_per_problem
    BY <1>2, <2>1 DEF FittedSplit, TilesOfLine, LockBase
  <2>3. LockBase(u) <= u.blocks_per_problem
    <3>1. u.clusters_mnl * Size(u) \in Nat BY <1>1, <2>2
    <3>2. QED BY <2>2, <3>1
  <2>4. \A tile \in Nat : tile * u.groups + (c % u.groups) = tile
    BY <1>1, <2>1 DEF FittedSplit
  <2>5. QED BY <1>1, <2>2, <2>3, <2>4
<1>3. CASE u.splits = 1
  <2>1. FittedStreamK(u) BY <1>3 DEF FittedParams
  <2>2. PICK all \in Nat : u.sk_tiles = all * Size(u) /\ u.big_groups = all % u.groups
    BY <2>1 DEF FittedStreamK
  <2>3. u.sk_tiles \div Size(u) = all
    <3>1. (all * Size(u) + 0) \div Size(u) = all /\ all * Size(u) + 0 = all * Size(u)
      <4>1. 0 \in 0 .. Size(u) - 1 BY <1>1
      <4>2. QED BY <1>1, <4>1, DivModUnique
    <3>2. QED BY <2>2, <3>1
  <2> DEFINE a == all \div u.groups
             rest == all % u.groups
             g == c % u.groups
  <2>4. a \in Nat /\ rest \in 0 .. u.groups - 1 /\ all = a * u.groups + rest
    BY <1>1, DivMod
  <2>5. TilesOfLine(u, c) = a + IF g < rest THEN 1 ELSE 0
    BY <1>3, <2>2, <2>3 DEF TilesOfLine
  <2>6. g \in 0 .. u.groups - 1 BY <1>1
  <2> HIDE DEF a, rest, g
  <2>7. ASSUME NEW tile \in Nat, tile < TilesOfLine(u, c)
        PROVE  tile * u.groups + g < all
    <3>1. CASE tile < a
      <4>1. (a - 1 - tile) * u.groups \in Nat
            /\ (a - 1 - tile) * u.groups = a * u.groups - u.groups - tile * u.groups
        BY <1>1, <2>4, <3>1
      <4>2. a * u.groups \in Nat /\ tile * u.groups \in Nat BY <1>1, <2>4
      <4>3. QED BY <1>1, <2>4, <2>6, <4>1, <4>2
    <3>2. CASE tile = a /\ g < rest
      <4>1. a * u.groups \in Nat BY <1>1, <2>4
      <4>2. QED BY <1>1, <2>4, <2>6, <3>2, <4>1
    <3>3. QED BY <2>4, <2>5, <2>7, <3>1, <3>2
  <2>8. LockBase(u) = all * Size(u) /\ LockBase(u) <= u.blocks_per_problem
    BY <1>3, <2>1, <2>2 DEF FittedStreamK, LockBase
  <2>9. TilesOfLine(u, c) \in Nat BY <2>4, <2>5
  <2>10. QED BY <1>1, <2>7, <2>8, <2>9 DEF g
<1>4. QED BY <1>1, <1>2, <1>3

(* The range of a unit lies in its line. *)
LEMMA RangeFits ==
  ASSUME NEW u, FittedParams(u), NEW c \in Nat, NEW r \in 0 .. Size(u) - 1,
         c * Size(u) + r < u.units_per_problem * u.splits,
         ~(u.splits = 1 /\ c * Size(u) + r >= u.sk_units)
  PROVE  LET range == UnitRange(u, c * Size(u) + r)
         IN  /\ range.start \in Nat /\ range.end \in Nat
             /\ range.end <= TilesOfLine(u, c) * u.kt
<1> DEFINE i == c * Size(u) + r
<1>1. /\ Size(u) \in Nat \ {0} /\ u.groups \in Nat \ {0} /\ u.splits \in Nat \ {0}
      /\ u.kt \in Nat \ {0}
  BY SizeIsPositive DEF FittedParams
<1>2. i \div Size(u) = c BY <1>1, DivModUnique
<1>3. CASE u.splits > 1
  <2> DEFINE split == c \div u.clusters_mnl
             tile == c % u.clusters_mnl
             per == u.k_tiles_per_sk_unit
             big == u.big_units
  <2>1. /\ u.clusters_mnl \in Nat \ {0} /\ u.units_per_problem = u.clusters_mnl * Size(u)
        /\ per \in Nat /\ big \in Nat /\ u.kt = per * u.splits + big
    BY <1>3 DEF FittedParams, FittedSplit
  <2>2. split \in Nat /\ tile \in 0 .. u.clusters_mnl - 1 /\ c = split * u.clusters_mnl + tile
    BY <2>1, DivMod
  <2>3. c < u.clusters_mnl * u.splits
    <3>1. (u.clusters_mnl * Size(u)) * u.splits = (u.clusters_mnl * u.splits) * Size(u)
      BY <1>1, <2>1
    <3>2. u.clusters_mnl * u.splits \in Nat BY <1>1, <2>1
    <3>3. c * Size(u) + r < (u.clusters_mnl * u.splits) * Size(u) BY <2>1, <3>1
    <3>4. QED BY <1>1, <3>2, <3>3, QuotientsAreInside
  <2> HIDE DEF split, tile
  <2>4. split < u.splits
    <3>1. split * u.clusters_mnl + tile < u.splits * u.clusters_mnl
      BY <1>1, <2>1, <2>2, <2>3
    <3>2. QED BY <1>1, <2>1, <2>2, <3>1, QuotientsAreInside
  <2> DEFINE start == per * split + Lesser(split, big)
             more == IF split < big THEN 1 ELSE 0
  <2>5. start \in Nat /\ start + per + more \in Nat /\ start + per + more <= u.kt
    <3>1. split \in 0 .. u.splits - 1 /\ per \in Nat /\ big \in Nat /\ u.splits \in Nat
      BY <1>1, <2>1, <2>2, <2>4
    <3> HIDE DEF per, big
    <3>2. start \in Nat /\ start + per + more \in Nat /\ start + per + more <= per * u.splits + big
      BY <3>1, ShareFits
    <3>3. QED BY <2>1, <3>2 DEF per, big
  <2>6. UnitRange(u, i) = [start |-> u.kt * tile + per * split + Lesser(split, big),
                           end |-> u.kt * tile + per * split + Lesser(split, big) + per + more]
    BY <1>2, <1>3 DEF UnitRange, SplitKRange, split, tile
  <2>7. /\ u.kt * tile \in Nat /\ u.clusters_mnl * u.kt \in Nat
        /\ u.kt * tile + u.kt <= u.clusters_mnl * u.kt
    <3>1. (u.clusters_mnl - 1 - tile) * u.kt \in Nat
          /\ (u.clusters_mnl - 1 - tile) * u.kt = u.clusters_mnl * u.kt - u.kt - u.kt * tile
      BY <1>1, <2>1, <2>2
    <3>2. u.kt * tile \in Nat /\ u.clusters_mnl * u.kt \in Nat BY <1>1, <2>1, <2>2
    <3>3. QED BY <1>1, <3>1, <3>2
  <2>8. per * split \in Nat /\ Lesser(split, big) \in Nat /\ more \in Nat
    BY <2>1, <2>2 DEF Lesser
  <2>9. UnitRange(u, i).start \in Nat /\ UnitRange(u, i).end \in Nat
        /\ UnitRange(u, i).end <= u.clusters_mnl * u.kt
    <3> HIDE DEF more
    <3>1. u.kt * tile + per * split + Lesser(split, big) = u.kt * tile + start
      BY <2>7, <2>8
    <3> HIDE DEF start
    <3>2. UnitRange(u, i) = [start |-> u.kt * tile + start,
                             end |-> u.kt * tile + start + per + more]
      BY <2>6, <3>1
    <3>3. u.kt * tile + start + per + more <= u.clusters_mnl * u.kt
      BY <1>1, <2>1, <2>5, <2>7, <2>8
    <3>4. u.kt * tile + start \in Nat /\ u.kt * tile + start + per + more \in Nat
      BY <2>1, <2>5, <2>7, <2>8
    <3>5. QED BY <3>2, <3>3, <3>4
  <2>10. QED BY <1>3, <2>9 DEF TilesOfLine
<1>4. CASE u.splits = 1
  <2> DEFINE unit == c \div u.groups
             tiles == TilesOfLine(u, c)
             line == tiles * u.kt
             k_tiles == tiles * Size(u) * u.kt
             per == k_tiles \div u.units_per_group
             big == (k_tiles - per * u.units_per_group) \div Size(u)
             start == per * unit + Lesser(unit, big)
             end == start + per + IF unit < big THEN 1 ELSE 0
  <2>1. tiles \in Nat BY LineType
  <2>2. u.sk_units \in Nat /\ i < u.sk_units /\ i \in Nat
    BY <1>1, <1>4 DEF FittedParams, FittedStreamK
  <2>3. PICK v \in Nat \ {0} : u.units_per_group = v * Size(u)
                               /\ u.sk_units = (v * u.groups) * Size(u)
    BY <1>4, <2>2 DEF FittedParams, FittedStreamK
  <2>4. unit \in 0 .. v - 1
    <3>1. v * u.groups \in Nat BY <1>1
    <3>2. c < v * u.groups BY <1>1, <2>2, <2>3, <3>1, QuotientsAreInside
    <3>3. unit \in Nat /\ c % u.groups \in 0 .. u.groups - 1 /\ c = unit * u.groups + (c % u.groups)
      BY <1>1, DivMod
    <3> HIDE DEF unit
    <3>4. unit < v BY <1>1, <3>2, <3>3, QuotientsAreInside
    <3>5. QED BY <3>3, <3>4
  <2>5. UnitRange(u, i) = [start |-> Adjusted(u, start), end |-> Adjusted(u, end)]
    BY <1>2, <1>4 DEF UnitRange, StreamKRange, TilesOfLine
  <2> HIDE DEF tiles, unit
  <2>6. line \in Nat /\ k_tiles = line * Size(u) BY <1>1, <2>1
  <2> HIDE DEF line, k_tiles
  <2>7. per \in Nat /\ big \in Nat /\ per * v + big = line
    <3>1. v * Size(u) \in Nat \ {0} BY <1>1, ProductPositive
    <3> DEFINE rest == k_tiles % (v * Size(u))
    <3>2. k_tiles \in Nat BY <1>1, <2>6
    <3>3. per \in Nat /\ rest \in 0 .. v * Size(u) - 1
          /\ k_tiles = per * (v * Size(u)) + rest
      BY <2>3, <3>1, <3>2, DivMod
    <3> HIDE DEF rest
    <3>4. big = (k_tiles - per * (v * Size(u))) \div Size(u) BY <2>3
    <3> HIDE DEF per, big
    <3>5. per * (v * Size(u)) = (per * v) * Size(u) /\ per * v \in Nat BY <1>1, <3>3
    <3>6. k_tiles - per * (v * Size(u)) = (line - per * v) * Size(u)
      BY <1>1, <2>6, <3>3, <3>5
    <3>7. line - per * v >= 0
      <4>1. CASE line < per * v
        <5>1. (per * v - line - 1) * Size(u) \in Nat
              /\ (per * v - line - 1) * Size(u) = (per * v) * Size(u) - line * Size(u) - Size(u)
          BY <1>1, <2>6, <3>5, <4>1
        <5>2. (per * v) * Size(u) \in Nat /\ line * Size(u) \in Nat BY <1>1, <2>6, <3>5
        <5>3. QED BY <1>1, <2>6, <3>1, <3>3, <3>5, <5>1, <5>2
      <4>2. QED BY <2>6, <3>5, <4>1
    <3>8. ((line - per * v) * Size(u) + 0) \div Size(u) = line - per * v
          /\ (line - per * v) * Size(u) + 0 = (line - per * v) * Size(u)
      <4> DEFINE d == line - per * v
      <4>1. d \in Nat /\ 0 \in 0 .. Size(u) - 1 BY <1>1, <2>6, <3>5, <3>7
      <4> HIDE DEF d
      <4>2. (d * Size(u) + 0) \div Size(u) = d /\ d * Size(u) + 0 = d * Size(u)
        BY <1>1, <4>1, DivModUnique
      <4>3. QED BY <4>2 DEF d
    <3>9. big = line - per * v BY <3>4, <3>6, <3>8
    <3>10. QED BY <2>6, <3>3, <3>5, <3>7, <3>9
  <2> HIDE DEF per, big
  <2>8. start \in Nat /\ end \in Nat /\ end <= line BY <2>4, <2>7, ShareFits
  <2>9. start <= line BY <2>6, <2>7, <2>8
  <2> HIDE DEF start, end
  <2>10. Adjusted(u, start) \in 0 .. line /\ Adjusted(u, end) \in 0 .. line
    <3>1. start \in 0 .. tiles * u.kt /\ end \in 0 .. tiles * u.kt
      BY <2>6, <2>8, <2>9 DEF line
    <3>2. QED BY <1>1, <2>1, <3>1, AdjustedFits DEF line
  <2>11. UnitRange(u, i).start \in Nat /\ UnitRange(u, i).end \in Nat
         /\ UnitRange(u, i).end <= line
    BY <2>5, <2>6, <2>10
  <2>12. QED BY <2>11 DEF line, tiles
<1>5. u.splits > 1 \/ u.splits = 1
  <2>1. \A n \in Nat \ {0} : n > 1 \/ n = 1 OBVIOUS
  <2>2. QED BY <1>1, <2>1
<1>6. QED BY <1>3, <1>4, <1>5

(* The block on place r of the cluster of tiles x gets the tile whose      *)
(* index is x * Size(u) + r, and no other block does.                      *)
LEMMA TileOnItsPlace ==
  ASSUME NEW p \in Problems, NEW u, Same(u, UnderlyingParams(p)), FittedParams(u),
         NEW x \in Nat, NEW r \in 0 .. Size(u) - 1, NEW lo \in 0 .. u.minor - 1,
         x * Size(u) + r < u.blocks_per_problem
  PROVE  LET cta == BlockIdInCluster(u, r)
             t   == TileAt(u, x * Size(u) + Major(u, cta) * u.minor + lo, cta)
         IN  /\ t \in [m : 0 .. u.tiles.m - 1, n : 0 .. u.tiles.n - 1, l : 0 .. u.tiles.l - 1]
             /\ t.l * u.batch + LinearIdx(u, t) = x * Size(u) + r
<1> DEFINE v == UnderlyingParams(p)
           id == x * Size(u) + r
           cta == BlockIdInCluster(u, r)
           t == TileAt(u, x * Size(u) + Major(u, cta) * u.minor + lo, cta)
           s == TileAt(v, id, BlockIdInCluster(v, id))
<1>1. /\ Divisors(v) /\ v.along_n \in BOOLEAN
      /\ \E clusters \in Nat \ {0} : v.batch = clusters * Size(v)
  BY BlocksAreWhole
<1>2. /\ u.blocks_per_problem = v.blocks_per_problem /\ u.along_n = v.along_n
      /\ u.batch = v.batch /\ u.major = v.major /\ u.minor = v.minor
      /\ u.swizzle = v.swizzle /\ u.blk_major = v.blk_major /\ u.tiles = v.tiles
  BY DEF Same
<1>3. v.blocks_per_problem = BlocksIn(v.tiles) /\ v.batch = v.tiles.m * v.tiles.n
  BY DEF UnderlyingParams
<1>4. Problem(p) /\ p.l \in Nat \ {0} BY ProblemType DEF Problem
<1>5. v.tiles.l = p.l BY DEF UnderlyingParams, Swizzled, TiledCtaShape
<1> HIDE DEF v
<1>6. Divisors(u) /\ Size(u) = Size(v) BY <1>1, <1>2 DEF Divisors, Size
<1>7. Size(u) \in Nat \ {0} /\ u.minor \in Nat \ {0} /\ u.major \in Nat \ {0}
  BY <1>6, SizeIsPositive
<1>8. id \in Nat BY <1>7
<1>9. \A n \in Int : \A d : TileAt(u, n, d) = TileAt(v, n, d)
  BY <1>2 DEF TileAt, WorkIdx
<1>10. \A d : LinearIdx(u, d) = LinearIdx(v, d) BY <1>2 DEF LinearIdx
<1>11. /\ BlockIdInCluster(u, id) = cta
       /\ Minor(u, cta) = r % u.minor /\ Major(u, cta) = r \div u.minor
       /\ r % u.minor \in 0 .. u.minor - 1 /\ r \div u.minor \in 0 .. u.major - 1
       /\ r = (r \div u.minor) * u.minor + (r % u.minor)
  BY <1>6, PlaceInCluster
<1>12. BlockIdInCluster(v, id) = cta BY <1>2, <1>11 DEF BlockIdInCluster
<1>13. s.l * v.batch + LinearIdx(v, s) = id
       /\ s.m \in 0 .. v.tiles.m - 1 /\ s.n \in 0 .. v.tiles.n - 1
  BY <1>4, <1>8, IndexDeterminesTile DEF v
<1>14. t = s
  <2> DEFINE hi == r \div u.minor
             at == r % u.minor
  <2>1. PICK clusters \in Nat \ {0} : u.batch = clusters * Size(u) BY <1>1, <1>2, <1>6
  <2>2. PICK y \in Nat, z \in Nat, batch \in Int :
          \A h \in 0 .. u.major - 1, l \in 0 .. u.minor - 1 : \A d :
            /\ TileAt(u, x * Size(u) + h * u.minor + l, d).l = batch
            /\ Minor(u, TileAt(u, x * Size(u) + h * u.minor + l, d)) = y * u.minor + Minor(u, d)
            /\ Major(u, TileAt(u, x * Size(u) + h * u.minor + l, d)) = z * u.major + h
    <3> HIDE DEF t, s, cta, id, hi, at
    <3>1. x \in Int OBVIOUS
    <3>2. QED BY <1>6, <2>1, <3>1, TilesOfOneCluster
  <2>3. hi \in 0 .. u.major - 1 /\ at \in 0 .. u.minor - 1 /\ Major(u, cta) = hi
    BY <1>11
  <2>4. id = x * Size(u) + hi * u.minor + at
    <3>1. r = hi * u.minor + at BY <1>11
    <3>2. x * Size(u) \in Int /\ hi * u.minor \in Int /\ at \in Int BY <1>7, <2>3
    <3>3. QED BY <3>1, <3>2
  <2> HIDE DEF hi, at, cta, id
  <2>5. s = TileAt(u, id, cta)
    <3>1. s = TileAt(v, id, cta) BY <1>12
    <3>2. id \in Int BY <1>8
    <3>3. QED BY <1>9, <3>1, <3>2
  <2> HIDE DEF s
  <2>6. t.l = batch /\ Minor(u, t) = y * u.minor + Minor(u, cta)
        /\ Major(u, t) = z * u.major + hi
    BY <2>2, <2>3
  <2>7. s.l = batch /\ Minor(u, s) = y * u.minor + Minor(u, cta)
        /\ Major(u, s) = z * u.major + hi
    <3> DEFINE other == TileAt(u, x * Size(u) + hi * u.minor + at, cta)
    <3>1. other.l = batch /\ Minor(u, other) = y * u.minor + Minor(u, cta)
          /\ Major(u, other) = z * u.major + hi
      BY <2>2, <2>3
    <3>2. s = other BY <2>4, <2>5
    <3> HIDE DEF other
    <3>3. QED BY <3>1, <3>2
  <2>8. t.m = s.m /\ t.n = s.n
    <3> HIDE DEF t
    <3>1. Minor(u, t) = Minor(u, s) /\ Major(u, t) = Major(u, s) BY <2>6, <2>7
    <3>2. QED BY <1>1, <1>2, <3>1 DEF Minor, Major
  <2>9. t = [m |-> t.m, n |-> t.n, l |-> t.l] /\ s = [m |-> s.m, n |-> s.n, l |-> s.l]
    BY <2>5 DEF TileAt
  <2>10. QED BY <2>6, <2>7, <2>8, <2>9
<1>15. s.l \in 0 .. v.tiles.l - 1
  <2>1. s.l = id \div v.batch BY DEF TileAt
  <2>2. v.batch \in Nat \ {0} BY <1>1, <1>6, <1>7, ProductPositive
  <2>3. id < v.tiles.l * v.batch
    <3>1. v.blocks_per_problem = v.batch * v.tiles.l BY <1>3 DEF BlocksIn
    <3>2. v.batch * v.tiles.l = v.tiles.l * v.batch BY <1>4, <1>5, <2>2
    <3>3. QED BY <1>2, <3>1, <3>2
  <2> HIDE DEF s, id
  <2> DEFINE j == id \div v.batch
  <2>4. j \in Nat /\ id % v.batch \in 0 .. v.batch - 1 /\ id = j * v.batch + (id % v.batch)
    BY <1>8, <2>2, DivMod
  <2> HIDE DEF j
  <2>5. j < v.tiles.l BY <1>4, <1>5, <2>2, <2>3, <2>4, QuotientsAreInside
  <2>6. QED BY <1>4, <1>5, <2>1, <2>4, <2>5 DEF j
<1>16. s = [m |-> s.m, n |-> s.n, l |-> s.l] BY DEF TileAt
<1>17. /\ t \in [m : 0 .. u.tiles.m - 1, n : 0 .. u.tiles.n - 1, l : 0 .. u.tiles.l - 1]
       /\ t.l * u.batch + LinearIdx(u, t) = id
  <2> HIDE DEF s, t, id
  <2>1. s \in [m : 0 .. v.tiles.m - 1, n : 0 .. v.tiles.n - 1, l : 0 .. v.tiles.l - 1]
    BY <1>13, <1>15, <1>16
  <2>2. QED BY <1>2, <1>10, <1>13, <1>14, <2>1
<1>18. QED BY <1>17

(* The work is on an output tile of the problem, within its k tiles, and   *)
(* a tile that is not whole has a lock.                                    *)
WorkFits(u, w) ==
  /\ TileOf(w) \in [m : 0 .. u.tiles.m - 1, n : 0 .. u.tiles.n - 1, l : 0 .. u.tiles.l - 1]
  /\ OutputTileIndex(u, w) \in 0 .. u.blocks_per_problem - 1
  /\ w.k \in Nat /\ w.count \in Int /\ w.k + w.count <= u.kt
  /\ w.count # u.kt => OutputTileIndex(u, w) < LockBase(u)

(* Work on the tile of cluster place x of the block at place r of its      *)
(* cluster.                                                                *)
WorkAt(u, x, lo, r, k, count, remaining) ==
  LET cta == BlockIdInCluster(u, r)
  IN  WorkOn(TileAt(u, x * Size(u) + Major(u, cta) * u.minor + lo, cta), k, count, remaining)

LEMMA PlacedWorkFits ==
  ASSUME NEW p \in Problems, NEW u, Same(u, UnderlyingParams(p)), FittedParams(u),
         NEW x \in Nat, NEW r \in 0 .. Size(u) - 1, NEW lo \in 0 .. u.minor - 1,
         x * Size(u) + r < u.blocks_per_problem,
         NEW k \in Nat, NEW count \in Int, NEW remaining, k + count <= u.kt,
         count # u.kt => x * Size(u) + r < LockBase(u)
  PROVE  WorkFits(u, WorkAt(u, x, lo, r, k, count, remaining))
<1> DEFINE cta == BlockIdInCluster(u, r)
           id == x * Size(u) + Major(u, cta) * u.minor + lo
           t == TileAt(u, id, cta)
           w == WorkOn(t, k, count, remaining)
<1>1. /\ t \in [m : 0 .. u.tiles.m - 1, n : 0 .. u.tiles.n - 1, l : 0 .. u.tiles.l - 1]
      /\ t.l * u.batch + LinearIdx(u, t) = x * Size(u) + r
  BY TileOnItsPlace
<1>2. t = [m |-> t.m, n |-> t.n, l |-> t.l] BY DEF TileAt
<1>3. x * Size(u) + r \in Nat BY SizeIsPositive DEF FittedParams
<1> HIDE DEF t
<1>4. TileOf(w) = t /\ w.l = t.l /\ w.k = k /\ w.count = count
  BY <1>2 DEF TileOf, WorkOn
<1>5. OutputTileIndex(u, w) = x * Size(u) + r BY <1>1, <1>4 DEF OutputTileIndex
<1> HIDE DEF w
<1> DEFINE i == x * Size(u) + r
<1>6. i \in Nat /\ i < u.blocks_per_problem /\ u.blocks_per_problem \in Int
  <2>1. \E blocks \in Nat \ {0} : u.blocks_per_problem = blocks * Size(u)
    BY DEF FittedParams
  <2>2. Size(u) \in Nat BY SizeIsPositive DEF FittedParams
  <2>3. QED BY <1>3, <2>1, <2>2
<1>7. OutputTileIndex(u, w) = i /\ (count # u.kt => i < LockBase(u)) BY <1>5
<1> HIDE DEF i
<1>8. WorkFits(u, w) BY <1>1, <1>4, <1>6, <1>7 DEF WorkFits
<1>9. QED BY <1>8 DEF w, t, WorkAt

(* The last part of a range: the k tiles from the start of its tile or of  *)
(* the range on.                                                           *)
LEMMA PartIsLast ==
  ASSUME NEW kt \in Nat \ {0}, NEW start \in Nat, NEW remaining \in Nat \ {0}
  PROVE  LET end   == start + remaining
             tile  == (end - 1) \div kt
             from  == Greater(tile * kt, start)
             k     == from - tile * kt
             count == Lesser(tile * kt + kt, end) - from
         IN  /\ tile \in Nat /\ k \in Nat /\ count \in 1 .. remaining /\ k + count <= kt
             /\ \A n \in 0 .. count - 1 :
                  start + (remaining - count + 1 + n) - 1 = tile * kt + (k + n)
<1> DEFINE end   == start + remaining
           tile  == (end - 1) \div kt
           rest  == (end - 1) % kt
           ts    == tile * kt
           from  == Greater(ts, start)
           k     == from - ts
           count == Lesser(ts + kt, end) - from
<1>1. end \in Nat /\ end - 1 \in Nat /\ start < end OBVIOUS
<1> HIDE DEF end
<1>2. tile \in Nat /\ rest \in 0 .. kt - 1 /\ end - 1 = ts + rest BY <1>1, DivMod
<1> HIDE DEF tile, rest
<1>3. ts \in Nat BY <1>2
<1> HIDE DEF ts
<1>4. count = end - from /\ from \in Nat /\ from >= ts /\ from >= start /\ from < end
      /\ end <= ts + kt
  BY <1>1, <1>2, <1>3 DEF Greater, Lesser
<1> HIDE DEF count, from
<1>5. k \in Nat /\ count \in 1 .. remaining /\ k + count <= kt
  BY <1>1, <1>3, <1>4 DEF end
<1>6. ASSUME NEW n \in 0 .. count - 1
      PROVE  start + (remaining - count + 1 + n) - 1 = ts + (k + n)
  BY <1>1, <1>3, <1>4, <1>5 DEF end
<1>7. QED BY <1>2, <1>5, <1>6 DEF count, from, ts, tile, end

(* The last count k tiles of a range, from k tile k of the tile of its     *)
(* line on, and the work that is on them.                                  *)
LastWork(u, c, r, start, remaining, tile, k, count) ==
  /\ k + count <= u.kt
  /\ \A n \in 0 .. count - 1 :
       start + (remaining - count + 1 + n) - 1 = tile * u.kt + (k + n)
  /\ LastTile(u, c * Size(u) + r, start, remaining)
       = WorkAt(u, tile * u.groups + (c % u.groups), 0, r, k, count, remaining)

(* If nothing is left, the work is not valid. *)
LEMMA EmptyWork ==
  ASSUME NEW u, u.kt \in Nat \ {0}, NEW idx, NEW start \in Nat,
         NEW remaining \in Int, remaining <= 0
  PROVE  LastTile(u, idx, start, remaining).count = remaining
<1> DEFINE kt == u.kt
           end == start + remaining
           tile == (end - 1) \div kt
           ts == tile * kt
<1>1. LastTile(u, idx, start, remaining).count = Lesser(ts + kt, end) - Greater(ts, start)
  BY DEF LastTile, WorkOn
<1>2. kt \in Nat \ {0} /\ end \in Int /\ end - 1 \in Int OBVIOUS
<1> HIDE DEF kt, end
<1>3. ts \in Int /\ ts <= end - 1 /\ end <= ts + kt
  <2>1. tile \in Int /\ (end - 1) % kt \in 0 .. kt - 1 /\ end - 1 = ts + ((end - 1) % kt)
    BY <1>2, IntDivMod
  <2>2. QED BY <1>2, <2>1
<1> HIDE DEF ts
<1>4. Greater(ts, start) = start /\ Lesser(ts + kt, end) = end
  BY <1>2, <1>3 DEF Greater, Lesser, end
<1>5. QED BY <1>1, <1>4 DEF end

(* The last part of the range of a unit as work. *)
LEMMA LastTileParts ==
  ASSUME NEW u, FittedParams(u), NEW c \in Nat, NEW r \in 0 .. Size(u) - 1,
         NEW start \in Nat, NEW remaining \in Nat \ {0}
  PROVE  \E tile \in Nat, k \in Nat, count \in 1 .. remaining :
           LastWork(u, c, r, start, remaining, tile, k, count)
<1> DEFINE cta == BlockIdInCluster(u, r)
           kt == u.kt
           tile == ((start + remaining) - 1) \div kt
           from == Greater(tile * kt, start)
           k == from - tile * kt
           count == Lesser(tile * kt + kt, start + remaining) - from
           x == tile * u.groups + (c % u.groups)
           w == LastTile(u, c * Size(u) + r, start, remaining)
<1>1. /\ Divisors(u) /\ kt \in Nat \ {0} /\ Size(u) \in Nat \ {0} /\ u.groups \in Nat \ {0}
      /\ u.minor \in Nat \ {0} /\ u.major \in Nat \ {0}
  BY SizeIsPositive DEF FittedParams
<1>2. BlockIdInCluster(u, c * Size(u) + r) = cta /\ Major(u, cta) = r \div u.minor
  BY <1>1, PlaceInCluster
<1>3. (c * Size(u) + r) \div Size(u) = c BY <1>1, DivModUnique
<1>4. w = WorkOn(TileAt(u, x * Size(u) + (IF u.along_n THEN cta.n ELSE cta.m) * u.minor, cta),
                 k, count, remaining)
  <2> HIDE DEF cta
  <2>1. QED BY <1>2, <1>3 DEF LastTile
<1> HIDE DEF w, kt
<1>5. /\ tile \in Nat /\ k \in Nat /\ count \in 1 .. remaining /\ k + count <= kt
      /\ \A n \in 0 .. count - 1 :
           start + (remaining - count + 1 + n) - 1 = tile * kt + (k + n)
  <2>1. LET e == start + remaining
            t == (e - 1) \div kt
            f == Greater(t * kt, start)
            j == f - t * kt
            m == Lesser(t * kt + kt, e) - f
        IN  /\ t \in Nat /\ j \in Nat /\ m \in 1 .. remaining /\ j + m <= kt
            /\ \A n \in 0 .. m - 1 : start + (remaining - m + 1 + n) - 1 = t * kt + (j + n)
    <3>1. kt \in Nat \ {0} BY <1>1
    <3>2. QED BY <3>1, PartIsLast
  <2>2. QED BY <2>1
<1> HIDE DEF tile, k, count
<1>6. x * Size(u) + Major(u, cta) * u.minor \in Int
  <2>1. r \div u.minor \in Int /\ c % u.groups \in Int BY <1>1
  <2>2. x \in Int /\ Major(u, cta) \in Int BY <1>1, <1>2, <1>5, <2>1
  <2> HIDE DEF x
  <2>3. QED BY <1>1, <2>2
<1> DEFINE at == x * Size(u) + Major(u, cta) * u.minor
<1>7. at = at + 0 BY <1>6
<1>8. w = WorkAt(u, x, 0, r, k, count, remaining)
  <2>1. w = WorkOn(TileAt(u, at, cta), k, count, remaining) BY <1>4 DEF Major
  <2>2. QED BY <1>7, <2>1 DEF WorkAt
<1>9. QED BY <1>5, <1>8 DEF w, kt, x, LastWork

(* ... and where it is: among the tiles that have locks. *)
LEMMA LastTileIsPlaced ==
  ASSUME NEW u, FittedParams(u), NEW c \in Nat, NEW r \in 0 .. Size(u) - 1,
         NEW start \in Nat, NEW remaining \in Nat \ {0},
         start + remaining <= TilesOfLine(u, c) * u.kt
  PROVE  \E tile \in Nat, k \in Nat, count \in 1 .. remaining, x \in Nat :
           /\ x = tile * u.groups + (c % u.groups)
           /\ x * Size(u) + r < LockBase(u) /\ x * Size(u) + r < u.blocks_per_problem
           /\ LastWork(u, c, r, start, remaining, tile, k, count)
<1>1. PICK tile \in Nat, k \in Nat, count \in 1 .. remaining :
        LastWork(u, c, r, start, remaining, tile, k, count)
  BY LastTileParts
<1>2. k + count <= u.kt /\ \A n \in 0 .. count - 1 :
         start + (remaining - count + 1 + n) - 1 = tile * u.kt + (k + n)
  BY <1>1 DEF LastWork
<1> DEFINE s == Size(u)
           kt == u.kt
           g == c % u.groups
           line == TilesOfLine(u, c)
<1>3. /\ line \in Nat /\ s \in Nat \ {0} /\ g \in 0 .. u.groups - 1
      /\ \E all \in Nat :
           /\ LockBase(u) = all * s /\ LockBase(u) <= u.blocks_per_problem
           /\ \A n \in Nat : n < line => n * u.groups + g < all
  BY LineType
<1>4. kt \in Nat \ {0} /\ u.groups \in Nat \ {0} /\ u.blocks_per_problem \in Int
  <2>1. PICK blocks \in Nat \ {0} : u.blocks_per_problem = blocks * s
    BY DEF FittedParams
  <2>2. QED BY <1>3, <2>1 DEF FittedParams
<1> DEFINE x == tile * u.groups + g
<1>5. x \in Nat BY <1>3, <1>4
<1> HIDE DEF kt
<1>6. tile < line
  <2>1. start + remaining - 1 = tile * kt + (k + count - 1)
    <3>1. count - 1 \in 0 .. count - 1 OBVIOUS
    <3>2. start + (remaining - count + 1 + (count - 1)) - 1 = tile * kt + (k + (count - 1))
      BY <1>2, <3>1 DEF kt
    <3>3. tile * kt \in Nat BY <1>4
    <3>4. QED BY <3>2, <3>3
  <2> DEFINE j == k + count - 1
  <2>2. j \in 0 .. kt - 1 BY <1>4, <1>2 DEF kt
  <2>3. line * kt \in Nat /\ tile * kt \in Nat BY <1>3, <1>4
  <2>4. start + remaining <= line * kt BY DEF kt
  <2> HIDE DEF line
  <2>5. tile * kt + j < line * kt BY <2>1, <2>2, <2>3, <2>4
  <2> HIDE DEF j
  <2>6. QED BY <1>3, <1>4, <2>2, <2>5, QuotientsAreInside
<1>7. PICK all \in Nat : LockBase(u) = all * s /\ LockBase(u) <= u.blocks_per_problem /\ x < all
  <2> HIDE DEF line, g, s
  <2>1. QED BY <1>3, <1>6
<1> HIDE DEF line
<1>8. x * s + r < LockBase(u) /\ x * s + r < u.blocks_per_problem
  <2>1. r \in 0 .. s - 1 OBVIOUS
  <2> HIDE DEF x, s
  <2>2. x * s + r < all * s BY <1>3, <1>5, <1>7, <2>1, PlacesAreInside
  <2>3. x * s \in Nat /\ all * s \in Nat BY <1>3, <1>5
  <2>4. QED BY <1>3, <1>4, <1>7, <2>1, <2>2, <2>3
<1>9. x = tile * u.groups + (c % u.groups) OBVIOUS
<1> HIDE DEF x, s
<1>10. QED BY <1>1, <1>5, <1>8, <1>9 DEF s

(* What is left of a unit that is not done is still within its line. *)
UnitFits(u, idx, start, w) ==
  /\ w.count \in Int /\ w.remaining \in Int
  /\ IsValid(w) => WorkFits(u, w)
  /\ u.scheduler # "static" /\ w.remaining # w.count =>
       /\ IsValid(w) /\ start \in Nat
       /\ start + w.remaining <= TilesOfLine(u, idx \div Size(u)) * u.kt

LEMMA InvalidFits ==
  ASSUME NEW u, NEW idx, NEW start
  PROVE  UnitFits(u, idx, start, InvalidWork)
  BY DEF UnitFits, InvalidWork, IsValid

LEMMA LastTileFits ==
  ASSUME NEW p \in Problems, NEW u, Same(u, UnderlyingParams(p)), FittedParams(u),
         NEW c \in Nat, NEW r \in 0 .. Size(u) - 1, NEW start \in Nat, NEW remaining \in Int,
         start + remaining <= TilesOfLine(u, c) * u.kt
  PROVE  UnitFits(u, c * Size(u) + r, start, LastTile(u, c * Size(u) + r, start, remaining))
<1> DEFINE i == c * Size(u) + r
           w == LastTile(u, i, start, remaining)
<1>1. Size(u) \in Nat \ {0} /\ u.kt \in Nat \ {0} /\ u.minor \in Nat \ {0}
  BY SizeIsPositive DEF FittedParams, Divisors
<1>2. i \div Size(u) = c /\ w.remaining = remaining
  BY <1>1, DivModUnique DEF LastTile, WorkOn
<1>3. CASE remaining <= 0
  <2>1. w.count = remaining BY <1>1, <1>3, EmptyWork
  <2> HIDE DEF w, i
  <2>2. UnitFits(u, i, start, w) BY <1>2, <1>3, <2>1 DEF UnitFits, IsValid
  <2>3. QED BY <2>2 DEF w, i
<1>4. CASE remaining > 0
  <2>1. remaining \in Nat \ {0} BY <1>4
  <2>2. PICK tile \in Nat, k \in Nat, count \in 1 .. remaining, x \in Nat :
          /\ x = tile * u.groups + (c % u.groups)
          /\ x * Size(u) + r < LockBase(u) /\ x * Size(u) + r < u.blocks_per_problem
          /\ LastWork(u, c, r, start, remaining, tile, k, count)
    BY <2>1, LastTileIsPlaced
  <2>3. w = WorkAt(u, x, 0, r, k, count, remaining) /\ k + count <= u.kt
    BY <2>2 DEF LastWork
  <2> HIDE DEF w, i
  <2>4. w.count = count BY <2>3 DEF WorkAt, WorkOn
  <2>5. WorkFits(u, w)
    <3>1. 0 \in 0 .. u.minor - 1 /\ count \in Int BY <1>1
    <3>2. WorkFits(u, WorkAt(u, x, 0, r, k, count, remaining))
      BY <2>2, <2>3, <3>1, PlacedWorkFits
    <3>3. QED BY <2>3, <3>2
  <2>6. UnitFits(u, i, start, w) BY <1>2, <2>4, <2>5 DEF UnitFits, IsValid
  <2>7. QED BY <2>6 DEF w, i
<1>5. QED BY <1>3, <1>4

LEMMA WholeTileIsPlaced ==
  ASSUME NEW u, FittedParams(u), NEW c \in Nat, NEW r \in 0 .. Size(u) - 1,
         NEW idx \in Nat, idx = c * Size(u) + r,
         u.splits = 1, idx < u.units_per_problem, idx >= u.sk_units
  PROVE  LET id == idx - u.sk_units + u.sk_tiles
         IN  \E x \in Nat, lo \in 0 .. u.minor - 1 :
               /\ id = x * Size(u) + r /\ id < u.blocks_per_problem
               /\ WholeTile(u, id, BlockIdInCluster(u, idx)) = WorkAt(u, x, lo, r, 0, u.kt, u.kt)
<1> DEFINE cta == BlockIdInCluster(u, r)
           id == idx - u.sk_units + u.sk_tiles
           w == WholeTile(u, id, cta)
<1>1. Divisors(u) /\ u.kt \in Nat \ {0} /\ Size(u) \in Nat \ {0} /\ u.groups \in Nat \ {0}
      /\ u.minor \in Nat \ {0} /\ u.major \in Nat \ {0}
  BY SizeIsPositive DEF FittedParams
<1>2. FittedStreamK(u) BY DEF FittedParams
<1>3. PICK tiles \in Nat : u.sk_tiles = tiles * Size(u) BY <1>2 DEF FittedStreamK
<1>4. \E j \in Nat : u.sk_units = j * Size(u)
  <2>1. CASE u.sk_units > 0
    <3>1. PICK v \in Nat \ {0} : u.sk_units = (v * u.groups) * Size(u)
      BY <1>2, <2>1 DEF FittedStreamK
    <3>2. v * u.groups \in Nat BY <1>1
    <3>3. QED BY <3>1, <3>2
  <2>2. CASE ~(u.sk_units > 0)
    <3>1. u.sk_units = 0 BY <1>2, <2>2 DEF FittedStreamK
    <3>2. 0 = 0 * Size(u) BY <1>1
    <3>3. QED BY <3>1, <3>2
  <2>3. QED BY <2>1, <2>2
<1>5. PICK j \in Nat : u.sk_units = j * Size(u) BY <1>4
<1>6. PICK blocks \in Nat \ {0} : u.blocks_per_problem = blocks * Size(u)
  BY DEF FittedParams
<1>7. c >= j BY <1>1, <1>5, SideOfBorder
<1> DEFINE x == c - j + tiles
<1>8. x \in Nat BY <1>7
<1>9. id = x * Size(u) + r
  <2>1. c * Size(u) \in Int /\ j * Size(u) \in Int /\ tiles * Size(u) \in Int /\ r \in Int
    BY <1>1
  <2>2. x * Size(u) = c * Size(u) - j * Size(u) + tiles * Size(u) BY <1>1
  <2>3. QED BY <1>3, <1>5, <2>1, <2>2
<1>10. id < u.blocks_per_problem
  <2>1. u.units_per_problem = u.blocks_per_problem - u.sk_tiles + u.sk_units
    BY <1>2 DEF FittedStreamK
  <2>2. c * Size(u) \in Int /\ j * Size(u) \in Int /\ tiles * Size(u) \in Int /\ r \in Int
        /\ blocks * Size(u) \in Int
    BY <1>1
  <2> HIDE DEF x
  <2>3. QED BY <1>3, <1>5, <1>6, <2>1, <2>2
<1> HIDE DEF x
<1>11. /\ BlockIdInCluster(u, idx) = cta
       /\ Major(u, cta) = r \div u.minor /\ r % u.minor \in 0 .. u.minor - 1
       /\ r \div u.minor \in 0 .. u.major - 1
       /\ r = (r \div u.minor) * u.minor + (r % u.minor)
  BY <1>1, PlaceInCluster
<1> DEFINE lo == r % u.minor
           hi == r \div u.minor
<1>12. id = x * Size(u) + Major(u, cta) * u.minor + lo
  <2>1. r = hi * u.minor + lo /\ Major(u, cta) = hi BY <1>11
  <2>2. lo \in Int /\ hi \in Int BY <1>1, <1>11
  <2> HIDE DEF lo, hi, cta, id
  <2>3. x * Size(u) \in Int /\ hi * u.minor \in Int BY <1>1, <1>8, <2>2
  <2>4. QED BY <1>9, <2>1, <2>2, <2>3
<1>13. lo \in 0 .. u.minor - 1 BY <1>11
<1> HIDE DEF lo, hi, id
<1>14. w = WorkAt(u, x, lo, r, 0, u.kt, u.kt) BY <1>12 DEF WholeTile, WorkAt
<1> HIDE DEF w, cta
<1>15. WholeTile(u, id, BlockIdInCluster(u, idx)) = w BY <1>11 DEF w
<1>16. \E y \in Nat, a \in 0 .. u.minor - 1 :
         /\ id = y * Size(u) + r /\ id < u.blocks_per_problem
         /\ WholeTile(u, id, BlockIdInCluster(u, idx)) = WorkAt(u, y, a, r, 0, u.kt, u.kt)
  BY <1>8, <1>9, <1>10, <1>13, <1>14, <1>15
<1>17. QED BY <1>16 DEF id

LEMMA WholeTileFits ==
  ASSUME NEW p \in Problems, NEW u, Same(u, UnderlyingParams(p)), FittedParams(u),
         NEW c \in Nat, NEW r \in 0 .. Size(u) - 1, NEW idx \in Nat, idx = c * Size(u) + r,
         u.splits = 1, idx < u.units_per_problem, idx >= u.sk_units, NEW start
  PROVE  UnitFits(u, idx, start,
                  WholeTile(u, idx - u.sk_units + u.sk_tiles, BlockIdInCluster(u, idx)))
<1> DEFINE id == idx - u.sk_units + u.sk_tiles
           w == WholeTile(u, id, BlockIdInCluster(u, idx))
<1>1. u.kt \in Nat \ {0} /\ 0 \in Nat /\ u.kt \in Int /\ 0 + u.kt <= u.kt
  BY DEF FittedParams
<1>2. PICK x \in Nat, lo \in 0 .. u.minor - 1 :
        /\ id = x * Size(u) + r /\ id < u.blocks_per_problem
        /\ w = WorkAt(u, x, lo, r, 0, u.kt, u.kt)
  BY WholeTileIsPlaced
<1>3. w.count = u.kt /\ w.remaining = u.kt BY DEF WholeTile, WorkOn
<1> HIDE DEF w, id
<1>4. WorkFits(u, w)
  <2>1. x * Size(u) + r < u.blocks_per_problem BY <1>2
  <2>2. WorkFits(u, WorkAt(u, x, lo, r, 0, u.kt, u.kt)) BY <1>1, <2>1, PlacedWorkFits
  <2>3. QED BY <1>2, <2>2
<1>5. UnitFits(u, idx, start, w) BY <1>1, <1>3, <1>4 DEF UnitFits
<1>6. QED BY <1>5 DEF w, id

(* What a block fetches fits, be it the first work of a unit ... *)
LEMMA FetchedFits ==
  ASSUME NEW p \in Problems, NEW u, Same(u, UnderlyingParams(p)), FittedParams(u),
         u.scheduler \in {"static", "stream-K"}, NEW bl, NEW idx \in Nat
  PROVE  LET new == FetchedUnit(u, bl, idx)
         IN  UnitFits(u, new.idx, new.start, new.work)
<1> DEFINE c == idx \div Size(u)
           r == idx % Size(u)
           cta == BlockIdInCluster(u, idx)
           range == UnitRange(u, idx)
           new == FetchedUnit(u, bl, idx)
           w == CurrentWork(u, idx)
<1>1. Divisors(u) /\ Size(u) \in Nat \ {0} /\ u.splits \in Nat \ {0}
  BY SizeIsPositive DEF FittedParams
<1>2. c \in Nat /\ r \in 0 .. Size(u) - 1 /\ idx = c * Size(u) + r BY <1>1, DivMod
<1> HIDE DEF c, r
<1>3. cta = BlockIdInCluster(u, r) BY <1>1, <1>2, PlaceInCluster
<1>4. new.idx = idx /\ new.work = w BY DEF FetchedUnit
<1>5. u.units_per_problem * u.splits \in Int /\ (u.splits = 1 => u.units_per_problem \in Int)
  <2>1. PICK blocks \in Nat \ {0} : u.blocks_per_problem = blocks * Size(u)
    BY DEF FittedParams
  <2>2. u.blocks_per_problem \in Nat BY <1>1, <2>1
  <2>3. CASE u.splits > 1 BY <1>1, <2>2, <2>3 DEF FittedParams, FittedSplit
  <2>4. CASE u.splits = 1
    <3>1. FittedStreamK(u) BY <2>4 DEF FittedParams
    <3>2. PICK tiles \in Nat : u.sk_tiles = tiles * Size(u) BY <3>1 DEF FittedStreamK
    <3>3. u.sk_tiles \in Nat BY <1>1, <3>2
    <3>4. u.units_per_problem \in Int BY <2>2, <3>1, <3>3 DEF FittedStreamK
    <3>5. QED BY <1>1, <3>4
  <2>5. u.splits > 1 \/ u.splits = 1
    <3>1. \A n \in Nat \ {0} : n > 1 \/ n = 1 OBVIOUS
    <3>2. QED BY <1>1, <3>1
  <2>6. QED BY <2>3, <2>4, <2>5
<1>6. CASE idx >= u.units_per_problem * u.splits
  <2>1. w = InvalidWork BY <1>5, <1>6 DEF CurrentWork
  <2> HIDE DEF new, w
  <2>2. QED BY <1>4, <2>1, InvalidFits DEF new
<1>7. CASE idx < u.units_per_problem * u.splits /\ u.splits = 1 /\ idx >= u.sk_units
  <2>1. w = WholeTile(u, idx - u.sk_units + u.sk_tiles, cta)
    BY <1>5, <1>7 DEF CurrentWork
  <2>2. idx < u.units_per_problem BY <1>5, <1>7
  <2> HIDE DEF w, new
  <2>3. UnitFits(u, idx, new.start, WholeTile(u, idx - u.sk_units + u.sk_tiles, cta))
    BY <1>2, <1>7, <2>2, WholeTileFits
  <2>4. QED BY <1>4, <2>1, <2>3 DEF new
<1>8. CASE idx < u.units_per_problem * u.splits /\ ~(u.splits = 1 /\ idx >= u.sk_units)
  <2>1. w = LastTile(u, idx, range.start, range.end - range.start)
    BY <1>5, <1>8 DEF CurrentWork
  <2>2. range.start \in Nat /\ range.end \in Nat /\ range.end <= TilesOfLine(u, c) * u.kt
    <3>1. /\ UnitRange(u, c * Size(u) + r).start \in Nat
          /\ UnitRange(u, c * Size(u) + r).end \in Nat
          /\ UnitRange(u, c * Size(u) + r).end <= TilesOfLine(u, c) * u.kt
      BY <1>2, <1>8, RangeFits
    <3>2. QED BY <1>2, <3>1
  <2>3. u.scheduler # "static" => new.start = range.start BY <1>8 DEF FetchedUnit
  <2> DEFINE from == range.start
             left == range.end - range.start
  <2>4. from \in Nat /\ left \in Int /\ from + left <= TilesOfLine(u, c) * u.kt
    <3>1. from \in Nat /\ range.end \in Nat BY <2>2
    <3> HIDE DEF range
    <3>2. from + left = range.end BY <3>1
    <3>3. QED BY <2>2, <3>1, <3>2
  <2> HIDE DEF range, from, left, w, new
  <2>5. UnitFits(u, idx, from, LastTile(u, idx, from, left)) BY <1>2, <2>4, LastTileFits
  <2>6. UnitFits(u, idx, from, w) BY <2>1, <2>5 DEF from, left
  <2>7. UnitFits(u, idx, new.start, w) BY <2>3, <2>6 DEF UnitFits, from
  <2>8. QED BY <1>4, <2>7 DEF new
<1>9. QED BY <1>5, <1>6, <1>7, <1>8

(* ... or what comes next. *)
LEMMA NextFits ==
  ASSUME NEW p \in Problems, NEW u, Same(u, UnderlyingParams(p)), FittedParams(u),
         u.scheduler \in {"static", "stream-K"}, NEW size \in Nat,
         NEW bl, DOMAIN bl = {"idx", "work", "start", "nth", "pc"},
         bl.idx \in Nat, UnitFits(u, bl.idx, bl.start, bl.work)
  PROVE  LET new == NextUnit(u, size, bl)
         IN  UnitFits(u, new.idx, new.start, new.work)
<1> DEFINE w == ContinueWork(u, bl.idx, bl.start, bl.work)
           new == NextUnit(u, size, bl)
<1>1. CASE IsValid(w)
  <2>1. new = [bl EXCEPT !.work = w, !.nth = @ + 1, !.pc = "mainloop"]
    BY <1>1 DEF NextUnit
  <2> HIDE DEF new, w
  <2>2. new.idx = bl.idx /\ new.start = bl.start /\ new.work = w BY <2>1
  <2>3. ~(u.scheduler = "static" \/ bl.work.remaining = bl.work.count)
    BY <1>1 DEF w, ContinueWork, InvalidWork, IsValid
  <2>4. w = LastTile(u, bl.idx, bl.start, bl.work.remaining - bl.work.count)
    BY <2>3 DEF w, ContinueWork
  <2> DEFINE c == bl.idx \div Size(u)
             r == bl.idx % Size(u)
             left == bl.work.remaining - bl.work.count
  <2>5. Divisors(u) /\ Size(u) \in Nat \ {0} /\ u.kt \in Nat
    BY SizeIsPositive DEF FittedParams
  <2>6. c \in Nat /\ r \in 0 .. Size(u) - 1 /\ bl.idx = c * Size(u) + r BY <2>5, DivMod
  <2>7. /\ bl.work.count \in Int /\ bl.work.remaining \in Int /\ bl.work.count > 0
        /\ bl.start \in Nat
        /\ bl.start + bl.work.remaining <= TilesOfLine(u, c) * u.kt
    BY <2>3 DEF UnitFits, IsValid
  <2> HIDE DEF c, r
  <2>8. TilesOfLine(u, c) * u.kt \in Nat
    <3>1. TilesOfLine(u, c) \in Nat BY <2>6, LineType
    <3>2. QED BY <2>5, <3>1
  <2>9. left \in Int /\ bl.start + left <= TilesOfLine(u, c) * u.kt BY <2>7, <2>8
  <2> HIDE DEF left
  <2>10. UnitFits(u, bl.idx, bl.start, LastTile(u, bl.idx, bl.start, left))
    BY <2>6, <2>7, <2>9, LastTileFits
  <2>11. UnitFits(u, new.idx, new.start, new.work) BY <2>2, <2>4, <2>10 DEF left
  <2>12. QED BY <2>11 DEF new
<1>2. CASE ~IsValid(w)
  <2>1. new = FetchedUnit(u, bl, bl.idx + size) BY <1>2 DEF NextUnit
  <2> DEFINE i == bl.idx + size
             f == FetchedUnit(u, bl, i)
  <2>2. i \in Nat OBVIOUS
  <2> HIDE DEF i
  <2>3. UnitFits(u, f.idx, f.start, f.work) BY <2>2, FetchedFits
  <2> HIDE DEF f, new
  <2>4. new = f BY <2>1 DEF f, i
  <2>5. QED BY <2>3, <2>4 DEF new
<1>3. QED BY <1>1, <1>2

-----------------------------------------------------------------------------
(* 9. The inductive invariant of the work.                                 *)

(* The work of every block fits the problem, and only work on parts of a   *)
(* tile comes to the locks.                                                *)
BlockFits(u, bl) ==
  /\ bl.pc \in {"pending", "mainloop", "store", "lock", "reduce", "arrive",
                "epilogue", "next", "exit"}
  /\ UnitFits(u, bl.idx, bl.start, bl.work)
  /\ bl.pc \in {"store", "lock", "reduce", "arrive"} => RequiresFixup(u, bl.work)

WorkInv ==
  /\ TogetherInv
  /\ host \in {"initialize", "run", "wait", "refused", "done"}
  /\ DOMAIN lock = 0 .. q.blocks_per_problem - 1
  /\ DOMAIN out = [m : 0 .. q.tiles.m - 1, n : 0 .. q.tiles.n - 1, l : 0 .. q.tiles.l - 1]
  /\ \A t \in DOMAIN lock : lock[t] \in Nat
  /\ \A b \in Blocks : BlockFits(q, blk[b])

LEMMA LaunchedFitted ==
  ASSUME TogetherInv, NEW b \in Blocks
  PROVE  /\ problem \in Problems /\ FittedParams(q) /\ Same(q, UnderlyingParams(problem))
         /\ q.scheduler \in {"static", "stream-K"}
         /\ LockBase(q) \in {0, Workspace(problem)}
<1> DEFINE g == GridShape(problem, TiledCtaShape(problem),
                          problem.scheduler = "static", problem.scheduler = "stream-K")
<1>1. problem \in Problems /\ q = Params(problem) BY DEF TogetherInv
<1>2. WholeClusters(Grid) /\ Grid = g BY DEF TogetherInv, GridIsLaunched, Grid
<1>3. g.x % problem.cm = 0 /\ g.y % problem.cn = 0 BY <1>2 DEF WholeClusters
<1>4. /\ FittedParams(Params(problem)) /\ Same(Params(problem), UnderlyingParams(problem))
      /\ Params(problem).scheduler = problem.scheduler
  BY <1>1, <1>3, LaunchedFits
<1>5. LockBase(Params(problem)) \in {0, Workspace(problem)} BY <1>1, <1>3, HostAgrees
<1>6. problem.scheduler \in {"static", "stream-K"} BY <1>1, ProblemType
<1>7. QED BY <1>1, <1>4, <1>5, <1>6

LEMMA InitiallyFits == Init => WorkInv
<1> SUFFICES ASSUME Init PROVE WorkInv
  OBVIOUS
<1>1. TogetherInv BY Initially
<1>2. Blocks = {} /\ host = "initialize" BY DEF Init, Blocks
<1>3. DOMAIN lock = 0 .. q.blocks_per_problem - 1 /\ \A t \in DOMAIN lock : lock[t] = 1
  BY DEF Init, StaleLock
<1>4. DOMAIN out = [m : 0 .. q.tiles.m - 1, n : 0 .. q.tiles.n - 1, l : 0 .. q.tiles.l - 1]
  BY DEF Init
<1>5. QED BY <1>1, <1>2, <1>3, <1>4 DEF WorkInv

(* Steps that leave what the blocks work on.                               *)
LEMMA HostFits ==
  ASSUME WorkInv, TogetherInv', UNCHANGED <<q, blk>>, DOMAIN lock' = DOMAIN lock,
         \A t \in DOMAIN lock : lock'[t] \in {0, lock[t]}, DOMAIN out' = DOMAIN out,
         host' \in {"initialize", "run", "wait", "refused", "done"}
  PROVE  WorkInv'
  BY DEF WorkInv, Blocks

LEMMA PcFits ==
  ASSUME WorkInv, TogetherInv', NEW a \in Blocks, NEW s, Goto(a, s), UNCHANGED <<q, host>>,
         s \in {"mainloop", "store", "lock", "reduce", "arrive", "epilogue", "next", "exit"},
         s \in {"store", "lock", "reduce", "arrive"} => RequiresFixup(q, blk[a].work),
         DOMAIN lock' = DOMAIN lock, \A t \in DOMAIN lock : lock'[t] \in Nat,
         DOMAIN out' = DOMAIN out
  PROVE  WorkInv'
<1>1. Blocks' = Blocks BY DEF Goto, Blocks
<1>2. ASSUME NEW b \in Blocks PROVE BlockFits(q, blk'[b])
  <2>1. BlockFits(q, blk[b]) /\ DOMAIN blk[b] = {"idx", "work", "start", "nth", "pc"}
    BY DEF WorkInv, TogetherInv, Placed
  <2>2. CASE b # a
    <3>1. blk'[b] = blk[b] BY <2>2 DEF Goto, Blocks
    <3>2. QED BY <2>1, <3>1
  <2>3. CASE b = a
    <3>1. /\ blk'[b].pc = s /\ blk'[b].idx = blk[a].idx /\ blk'[b].start = blk[a].start
          /\ blk'[b].work = blk[a].work
      BY <2>1, <2>3 DEF Goto, Blocks
    <3>2. QED BY <2>1, <2>3, <3>1 DEF BlockFits
  <2>4. QED BY <2>2, <2>3
<1>3. QED BY <1>1, <1>2 DEF WorkInv

(* Fresh blocks have no work, dispatched blocks their first.               *)
LEMMA RunFits ==
  ASSUME WorkInv, TogetherInv', Run
  PROVE  WorkInv'
<1>1. CASE WholeClusters(Grid)
  <2>1. /\ host' = "wait" /\ q' = q /\ lock' = lock /\ DOMAIN out' = DOMAIN out
        /\ blk' = [b \in 0 .. GridSize(Grid) - 1 |->
                     [pc |-> "pending", idx |-> b, start |-> 0, work |-> InvalidWork, nth |-> 0]]
    BY <1>1 DEF Run
  <2>2. ASSUME NEW b \in Blocks' PROVE BlockFits(q, blk'[b])
    <3>1. b \in 0 .. GridSize(Grid) - 1 BY <2>1, <2>2 DEF Blocks
    <3>2. blk'[b].pc = "pending" /\ blk'[b].work = InvalidWork BY <2>1, <3>1
    <3>3. QED BY <3>2, InvalidFits DEF BlockFits
  <2>3. QED BY <2>1, <2>2 DEF WorkInv
<1>2. CASE ~WholeClusters(Grid) BY <1>2, HostFits DEF Run
<1>3. QED BY <1>1, <1>2

LEMMA DispatchFits ==
  ASSUME WorkInv, TogetherInv', Dispatch
  PROVE  WorkInv'
<1>1. /\ host' = host /\ q' = q /\ lock' = lock /\ out' = out
      /\ blk' = [b \in Blocks |-> IF Cluster(b) = next THEN FetchedUnit(q, blk[b], b) ELSE blk[b]]
  BY DEF Dispatch, Fetched, FetchedUnit
<1>2. Blocks' = Blocks BY <1>1 DEF Blocks
<1>3. ASSUME NEW b \in Blocks PROVE BlockFits(q, blk'[b])
  <2>1. CASE Cluster(b) = next
    <3> DEFINE new == FetchedUnit(q, blk[b], b)
    <3>1. b \in Nat BY Launched DEF WorkInv
    <3>2. /\ problem \in Problems /\ FittedParams(q) /\ Same(q, UnderlyingParams(problem))
          /\ q.scheduler \in {"static", "stream-K"}
      BY LaunchedFitted DEF WorkInv
    <3>3. UnitFits(q, new.idx, new.start, new.work) BY <3>1, <3>2, FetchedFits
    <3>4. new.pc = "mainloop" BY DEF FetchedUnit
    <3>5. blk'[b] = new BY <1>1, <2>1
    <3> HIDE DEF new
    <3>6. QED BY <3>3, <3>4, <3>5 DEF BlockFits
  <2>2. CASE Cluster(b) # next BY <1>1, <2>2 DEF WorkInv
  <2>3. QED BY <2>1, <2>2
<1>4. QED BY <1>1, <1>2, <1>3 DEF WorkInv

LEMMA FetchFits ==
  ASSUME WorkInv, TogetherInv', NEW a \in Blocks, FetchNextWork(a)
  PROVE  WorkInv'
<1> DEFINE size == Cardinality(Blocks)
           new == NextUnit(q, size, blk[a])
<1>1. /\ host' = host /\ q' = q /\ lock' = lock /\ out' = out
      /\ blk' = [blk EXCEPT ![a] = new]
  BY DEF FetchNextWork, NextUnit, FetchedUnit, Fetched, hostvars
<1>2. Blocks' = Blocks /\ blk'[a] = new /\ \A b \in Blocks : b # a => blk'[b] = blk[b]
  BY <1>1 DEF Blocks
<1>3. size \in Nat BY Launched DEF WorkInv
<1>4. /\ problem \in Problems /\ FittedParams(q) /\ Same(q, UnderlyingParams(problem))
      /\ q.scheduler \in {"static", "stream-K"}
  BY LaunchedFitted DEF WorkInv
<1>5. /\ DOMAIN blk[a] = {"idx", "work", "start", "nth", "pc"} /\ blk[a].idx \in Nat
      /\ UnitFits(q, blk[a].idx, blk[a].start, blk[a].work)
  BY DEF WorkInv, TogetherInv, Placed, BlockFits
<1> HIDE DEF size
<1>6. UnitFits(q, new.idx, new.start, new.work) BY <1>3, <1>4, <1>5, NextFits
<1>7. new.pc = "mainloop"
  <2> DEFINE w == ContinueWork(q, blk[a].idx, blk[a].start, blk[a].work)
  <2>1. CASE IsValid(w)
    <3>1. new = [blk[a] EXCEPT !.work = w, !.nth = @ + 1, !.pc = "mainloop"]
      BY <2>1 DEF NextUnit
    <3> HIDE DEF new, w
    <3>2. QED BY <1>5, <3>1
  <2>2. CASE ~IsValid(w)
    <3>1. new = FetchedUnit(q, blk[a], blk[a].idx + size) BY <2>2 DEF NextUnit
    <3> HIDE DEF new
    <3>2. QED BY <3>1 DEF FetchedUnit
  <2>3. QED BY <2>1, <2>2
<1> HIDE DEF new
<1>8. ASSUME NEW b \in Blocks PROVE BlockFits(q, blk'[b])
  <2>1. CASE b = a BY <1>2, <1>6, <1>7, <2>1 DEF BlockFits
  <2>2. CASE b # a BY <1>2, <2>2 DEF WorkInv
  <2>3. QED BY <2>1, <2>2
<1>9. QED BY <1>1, <1>2, <1>8 DEF WorkInv

LEMMA FitsStep == WorkInv /\ [Next]_vars => WorkInv'
<1> SUFFICES ASSUME WorkInv, [Next]_vars PROVE WorkInv'
  OBVIOUS
<1>1. TogetherInv' BY Step DEF WorkInv
<1>2. host \in {"initialize", "run", "wait", "refused", "done"}
      /\ \A t \in DOMAIN lock : lock[t] \in Nat
  BY DEF WorkInv
<1>3. CASE Initialize
  <2>1. DOMAIN lock' = DOMAIN lock /\ \A t \in DOMAIN lock : lock'[t] \in {0, lock[t]}
    BY <1>3 DEF Initialize
  <2>2. UNCHANGED <<q, blk, out>> /\ host' = "run" BY <1>3 DEF Initialize
  <2>3. QED BY <1>1, <2>1, <2>2, HostFits
<1>4. CASE Run BY <1>1, <1>4, RunFits
<1>5. CASE Synchronize BY <1>1, <1>5, HostFits DEF Synchronize
<1>6. CASE Dispatch BY <1>1, <1>6, DispatchFits
<1>7. ASSUME NEW b \in Blocks, Block(b) PROVE WorkInv'
  <2>1. BlockFits(q, blk[b]) BY DEF WorkInv
  <2>2. CASE Mainloop(b)
    <3> DEFINE w == blk[b].work
               to == CASE ~IsValid(w) -> "exit"
                       [] IsValid(w) /\ ~RequiresFixup(q, w) ->
                            IF ComputeEpilogue(q, w) THEN "epilogue" ELSE "next"
                       [] RequiresFixup(q, w) /\ ~ComputeEpilogue(q, w) /\ w.k = 0 -> "store"
                       [] OTHER -> "lock"
    <3>1. Goto(b, to) /\ UNCHANGED <<q, host, lock, out>> BY <2>2 DEF Mainloop, hostvars
    <3>2. /\ to \in {"store", "lock", "epilogue", "next", "exit"}
          /\ to \in {"store", "lock"} => RequiresFixup(q, w)
      <4>1. CASE ~IsValid(w) BY <4>1 DEF RequiresFixup
      <4>2. CASE IsValid(w) /\ ~RequiresFixup(q, w) BY <4>2
      <4>3. CASE IsValid(w) /\ RequiresFixup(q, w) /\ ~ComputeEpilogue(q, w) /\ w.k = 0
        BY <4>3
      <4>4. CASE IsValid(w) /\ RequiresFixup(q, w) /\ ~(~ComputeEpilogue(q, w) /\ w.k = 0)
        BY <4>4
      <4>5. QED BY <4>1, <4>2, <4>3, <4>4
    <3> HIDE DEF to
    <3>3. QED BY <1>1, <1>2, <3>1, <3>2, PcFits
  <2>3. CASE Store(b) BY <1>1, <1>2, <2>1, <2>3, PcFits DEF Store, hostvars, BlockFits
  <2>4. CASE Lock(b)
    <3> DEFINE to == IF ComputeEpilogue(q, blk[b].work) THEN "epilogue" ELSE "reduce"
    <3>1. Goto(b, to) /\ UNCHANGED <<q, host, lock, out>> /\ blk[b].pc = "lock"
      BY <2>4 DEF Lock, hostvars
    <3>2. to \in {"epilogue", "reduce"} /\ RequiresFixup(q, blk[b].work)
      BY <2>1, <3>1 DEF BlockFits
    <3> HIDE DEF to
    <3>3. QED BY <1>1, <1>2, <3>1, <3>2, PcFits
  <2>5. CASE Reduce(b) BY <1>1, <1>2, <2>1, <2>5, PcFits DEF Reduce, hostvars, BlockFits
  <2>6. CASE Arrive(b)
    <3>1. /\ Goto(b, "next") /\ UNCHANGED <<q, host, out>> /\ blk[b].pc = "arrive"
          /\ lock' = [lock EXCEPT ![Tile(b)] = @ + blk[b].work.count]
      BY <2>6 DEF Arrive, hostvars
    <3>2. blk[b].work.count \in Nat
      BY <2>1, <3>1 DEF BlockFits, UnitFits, RequiresFixup, IsValid
    <3>3. DOMAIN lock' = DOMAIN lock /\ \A t \in DOMAIN lock : lock'[t] \in Nat
      BY <1>2, <3>1, <3>2
    <3>4. QED BY <1>1, <3>1, <3>3, PcFits
  <2>7. CASE Epilogue(b)
    <3>1. Goto(b, "next") /\ UNCHANGED <<q, host, lock>> /\ DOMAIN out' = DOMAIN out
      BY <2>7 DEF Epilogue, hostvars
    <3>2. QED BY <1>1, <1>2, <3>1, PcFits
  <2>8. CASE FetchNextWork(b) BY <1>1, <2>8, FetchFits
  <2>9. QED BY <1>7, <2>2, <2>3, <2>4, <2>5, <2>6, <2>7, <2>8 DEF Block
<1>8. CASE Terminated \/ UNCHANGED vars
  BY <1>1, <1>2, <1>8, HostFits DEF Terminated, vars
<1>9. QED BY <1>3, <1>4, <1>5, <1>6, <1>7, <1>8 DEF Next

(* The work of all blocks stays within the problem, for every problem,     *)
(* grid and device.                                                        *)
THEOREM WorkInvariance == Spec => []WorkInv
  BY InitiallyFits, FitsStep, PTL DEF Spec

LEMMA WorkHasTypes == WorkInv => TypeOK
<1> SUFFICES ASSUME WorkInv PROVE TypeOK
  OBVIOUS
<1>1. ASSUME NEW b \in Blocks
      PROVE  /\ blk[b].pc \in {"pending", "mainloop", "store", "lock", "reduce", "arrive",
                               "epilogue", "next", "exit"}
             /\ IsValid(blk[b].work) =>
                  TileOf(blk[b].work) \in DOMAIN out /\ Tile(b) \in DOMAIN lock
                  /\ blk[b].work.k + blk[b].work.count <= q.kt
  BY DEF WorkInv, BlockFits, UnitFits, WorkFits, Tile
<1>2. QED BY <1>1 DEF TypeOK, WorkInv

LEMMA WorkHasLocks == WorkInv => LocksAreCleared
<1> SUFFICES ASSUME WorkInv, NEW b \in Blocks, blk[b].pc \in {"store", "lock", "reduce", "arrive"}
             PROVE  Tile(b) < Workspace(problem) /\ LockBase(q) = Workspace(problem)
  BY DEF LocksAreCleared
<1>1. RequiresFixup(q, blk[b].work) /\ UnitFits(q, blk[b].idx, blk[b].start, blk[b].work)
  BY DEF WorkInv, BlockFits
<1>2. Tile(b) \in 0 .. q.blocks_per_problem - 1 /\ Tile(b) < LockBase(q)
  BY <1>1 DEF UnitFits, WorkFits, RequiresFixup, Tile
<1>3. LockBase(q) \in {0, Workspace(problem)} BY LaunchedFitted DEF WorkInv
<1>4. Tile(b) >= 0 BY <1>2
<1>5. LockBase(q) # 0 BY <1>2, <1>4
<1>6. QED BY <1>2, <1>3, <1>5

(* Every work of a block is on an output tile of the problem that has a    *)
(* lock, within its k tiles: the tile arithmetic of both schedulers with   *)
(* get_current_work, fetch_next_work and continue_current_work.            *)
THEOREM TypeCorrect == Spec => []TypeOK
  BY WorkInvariance, WorkHasTypes, PTL

(* The host and the kernel, which work out on their own how the problem is *)
(* decomposed, agree on where the locks are, and a block waits on no lock  *)
(* but those that the host clears: get_workspace_size and                  *)
(* initialize_workspace against the fixup of the kernel.                   *)
THEOREM LocksClear == Spec => []LocksAreCleared
  BY WorkInvariance, WorkHasLocks, PTL

-----------------------------------------------------------------------------
(* 10. Which unit computes a k tile.                                       *)

Units(u) == u.units_per_problem * u.splits

(* The unit of one whole tile, behind those of stream-K. *)
WholeUnit(u, o) == u.splits = 1 /\ o >= u.sk_units

(* The f-th k tile of unit o is k tile k of the tile with index i. *)
Covers(u, i, k, o, f) ==
  /\ o \in 0 .. Units(u) - 1
  /\ IF WholeUnit(u, o)
     THEN k \in 0 .. u.kt - 1 /\ f = k + 1 /\ i = o - u.sk_units + u.sk_tiles
     ELSE LET range == UnitRange(u, o)
              at == range.start + f - 1
          IN  /\ f \in 1 .. range.end - range.start
              /\ k = at % u.kt
              /\ i = ((at \div u.kt) * u.groups + ((o \div Size(u)) % u.groups)) * Size(u)
                     + (o % Size(u))

(* No unit of a split is empty.  Those of stream-K may be, but then the    *)
(* grid has a block for each unit and no block goes on to another one.     *)
UsedUnits(u, grid) ==
  /\ u.scheduler = "static" => u.splits = 1 /\ u.sk_units = 0
  /\ u.splits = 1 /\ u.sk_tiles > 0 => u.sk_units > 0
  /\ u.splits > 1 => u.k_tiles_per_sk_unit > 0
  /\ u.sk_units > 0 => Units(u) <= grid \/ u.sk_tiles >= u.sk_units

LEMMA SkTilesFill ==
  ASSUME NEW p \in Problems, NEW tiles \in Nat, NEW wave \in Nat \ {0},
         NumSkTiles(p, tiles, wave) # 0
  PROVE  NumSkTiles(p, tiles, wave) = tiles \/ NumSkTiles(p, tiles, wave) >= wave
<1> DEFINE full_waves == tiles \div wave
           dp_waves   == IF full_waves > 1 THEN full_waves - 1 ELSE 0
<1>1. full_waves \in Nat /\ tiles % wave \in 0 .. wave - 1
      /\ tiles = full_waves * wave + (tiles % wave)
  BY DivMod
<1>2. NumSkTiles(p, tiles, wave) = tiles - dp_waves * wave BY DEF NumSkTiles
<1> HIDE DEF full_waves
<1>3. CASE full_waves > 1
  <2>1. dp_waves * wave = full_waves * wave - wave BY <1>1, <1>3
  <2>2. full_waves * wave \in Nat BY <1>1
  <2> HIDE DEF dp_waves
  <2>3. QED BY <1>1, <1>2, <2>1, <2>2
<1>4. CASE ~(full_waves > 1)
  <2>1. dp_waves = 0 BY <1>4
  <2>2. QED BY <1>2, <2>1
<1>5. QED BY <1>3, <1>4

LEMMA SkUnitsBound ==
  ASSUME NEW p \in Problems, NEW wave \in Nat, NEW sk_tiles \in Nat
  PROVE  NumSkUnits(p, wave, sk_tiles) <= wave
         /\ NumSkUnits(p, wave, sk_tiles) <= p.kt * sk_tiles
<1> DEFINE InClusters(ctas) == (ctas \div ClusterSize(p)) * ClusterSize(p)
           all == p.kt * sk_tiles
           iters == all \div min_iters_per_sk_unit_
<1>1. ClusterSize(p) \in Nat \ {0} /\ p.kt \in Nat BY BlocksAreWhole, ProblemType
<1>2. all \in Nat BY <1>1
<1> HIDE DEF all
<1>3. iters \in Nat /\ iters <= all BY <1>2 DEF min_iters_per_sk_unit_
<1>4. ASSUME NEW n \in Nat PROVE InClusters(n) \in Nat /\ InClusters(n) <= n
  <2>1. /\ n \div ClusterSize(p) \in Nat /\ n % ClusterSize(p) \in 0 .. ClusterSize(p) - 1
        /\ n = InClusters(n) + (n % ClusterSize(p))
    BY <1>1, DivMod
  <2>2. InClusters(n) \in Nat BY <1>1, <2>1
  <2>3. QED BY <1>1, <2>1, <2>2
<1>5. NumSkUnits(p, wave, sk_tiles) = Lesser(InClusters(wave), InClusters(iters))
  BY DEF NumSkUnits, all
<1>6. /\ InClusters(wave) \in Nat /\ InClusters(wave) <= wave
      /\ InClusters(iters) \in Nat /\ InClusters(iters) <= iters
  BY <1>3, <1>4
<1> HIDE DEF InClusters, iters
<1>7. NumSkUnits(p, wave, sk_tiles) <= wave /\ NumSkUnits(p, wave, sk_tiles) <= all
  BY <1>2, <1>3, <1>5, <1>6 DEF Lesser
<1>8. QED BY <1>7 DEF all

(* A quotient by no more than the number is positive. *)
LEMMA QuotientIsPositive ==
  ASSUME NEW d \in Nat \ {0}, NEW n \in Nat, d <= n
  PROVE  n \div d \in Nat \ {0}
<1> DEFINE a == n \div d
<1>1. a \in Nat /\ n % d \in 0 .. d - 1 /\ n = a * d + (n % d) BY DivMod
<1> HIDE DEF a
<1>2. a # 0 BY <1>1
<1>3. QED BY <1>1, <1>2 DEF a

(* A split that the heuristic selects has no more parts than k tiles. *)
LEMMA SelectedSplitFits ==
  ASSUME NEW kt \in Nat, NEW tiles \in Nat \ {0}, NEW units \in Nat, units <= kt * tiles
  PROVE  units \div tiles <= kt
<1> DEFINE a == units \div tiles
<1>1. a \in Nat /\ units % tiles \in 0 .. tiles - 1 /\ units = a * tiles + (units % tiles)
  BY DivMod
<1> HIDE DEF a
<1>2. CASE a > kt
  <2>1. (a - kt - 1) * tiles \in Nat /\ (a - kt - 1) * tiles = a * tiles - kt * tiles - tiles
    BY <1>1, <1>2
  <2>2. a * tiles \in Nat /\ kt * tiles \in Nat BY <1>1
  <2>3. QED BY <1>1, <2>1, <2>2
<1>3. QED BY <1>1, <1>2 DEF a

LEMMA LaunchedUnits ==
  ASSUME NEW p \in Problems,
         LET g == GridShape(p, TiledCtaShape(p), p.scheduler = "static", p.scheduler = "stream-K")
         IN  g.x % p.cm = 0 /\ g.y % p.cn = 0
  PROVE  UsedUnits(Params(p), GridSize(GridShape(p, TiledCtaShape(p), p.scheduler = "static",
                                                 p.scheduler = "stream-K")))
<1> DEFINE b == TiledCtaShape(p)
           tiles == UnderlyingParams(p).blocks_per_problem
           wave == CtasPerWave(p, b)
           sk_tiles == NumSkTiles(p, tiles, wave)
           sk_units == NumSkUnits(p, wave, sk_tiles)
           grid == GridSize(GridShape(p, b, p.scheduler = "static", p.scheduler = "stream-K"))
           selected == /\ p.decomposition_mode = "Heuristic"
                       /\ sk_tiles # 0 /\ sk_units > sk_tiles /\ sk_units % sk_tiles = 0
<1>1. /\ p.kt \in Nat \ {0} /\ p.splits \in Nat \ {0} /\ p.sm_count \in Nat \ {0}
      /\ p.scheduler \in {"static", "stream-K"}
  BY ProblemType
<1>2. tiles \in Nat /\ WholeMultiple(tiles, ClusterSize(p))
  <2>1. PICK clusters \in Nat \ {0} : tiles = clusters * ClusterSize(p)
    BY BlocksAreWhole
  <2>2. ClusterSize(p) \in Nat BY BlocksAreWhole
  <2> HIDE DEF tiles
  <2>3. QED BY <2>1, <2>2 DEF WholeMultiple
<1>3. p.scheduler # "static" => wave = grid
  <2> SUFFICES ASSUME p.scheduler # "static" PROVE wave = grid
    OBVIOUS
  <2>1. (p.scheduler = "static") = FALSE /\ (p.scheduler = "stream-K") = TRUE BY <1>1
  <2>2. QED BY <2>1 DEF CtasPerWave
<1>4. wave \in Nat \ {0}
  <2> DEFINE g == GridShape(p, b, FALSE, TRUE)
  <2>1. g.x \in Nat \ {0} /\ g.y \in Nat \ {0} BY GridType
  <2>2. wave = g.x * g.y BY DEF CtasPerWave, GridSize
  <2> HIDE DEF g
  <2>3. QED BY <2>1, <2>2, ProductPositive
<1> HIDE DEF wave, tiles, grid
<1>5. ASSUME NEW splits \in Nat \ {0}, Params(p) = ParamsBasic(p, Underlying(p), splits),
             splits # 1 => /\ p.scheduler # "static"
                           /\ \/ splits = AdjustSplitCount(p)
                              \/ /\ selected /\ p.scheduler # "static"
                                 /\ splits = sk_units \div sk_tiles
      PROVE  UsedUnits(Params(p), grid)
  <2> DEFINE u == ParamsBasic(p, Underlying(p), splits)
  <2>1. /\ u.scheduler = p.scheduler /\ u.splits = splits /\ u.sk_units = 0 /\ u.sk_tiles = 0
        /\ u.k_tiles_per_sk_unit = p.kt \div splits
    BY BasicFields
  <2> HIDE DEF u
  <2>2. splits <= p.kt
    <3>1. CASE splits = 1 BY <1>1, <3>1
    <3>2. CASE splits = AdjustSplitCount(p) BY <1>1, <3>2 DEF AdjustSplitCount, Lesser
    <3>3. CASE selected /\ p.scheduler # "static" /\ splits = sk_units \div sk_tiles
      <4>1. sk_tiles \in Nat
        <5>1. WholeMultiple(wave, ClusterSize(p))
          <6> DEFINE g == GridShape(p, b, p.scheduler = "static", p.scheduler = "stream-K")
          <6>1. g.x % p.cm = 0 /\ g.y % p.cn = 0 OBVIOUS
          <6>2. g = GridShape(p, b, FALSE, TRUE)
            <7>1. (p.scheduler = "static") = FALSE /\ (p.scheduler = "stream-K") = TRUE
              BY <1>1, <3>3
            <7>2. QED BY <7>1
          <6>3. g.x \in Int /\ g.y \in Int
            <7> DEFINE h == GridShape(p, b, FALSE, TRUE)
            <7>1. h.x \in Nat \ {0} /\ h.y \in Nat \ {0} BY GridType
            <7>2. g = h BY <6>2
            <7> HIDE DEF g, h
            <7>3. QED BY <7>1, <7>2
          <6>4. wave = g.x * g.y BY <1>3, <3>3 DEF grid, GridSize
          <6> HIDE DEF g
          <6>5. QED BY <6>1, <6>3, <6>4, GridIsWhole
        <5>2. sk_tiles \in 0 .. tiles BY <1>2, <1>4, <5>1, SkTilesAreWhole
        <5>3. QED BY <1>2, <5>2
      <4> HIDE DEF sk_tiles
      <4>2. sk_units \in Nat /\ sk_units <= p.kt * sk_tiles
        BY <1>4, <4>1, SkUnitsBound, SkUnitsAreWhole
      <4>3. sk_tiles \in Nat \ {0} BY <3>3, <4>1
      <4> HIDE DEF sk_units
      <4>4. QED BY <1>1, <3>3, <4>2, <4>3, SelectedSplitFits
    <3>4. QED BY <1>5, <3>1, <3>2, <3>3
  <2>3. u.k_tiles_per_sk_unit \in Nat \ {0} BY <1>1, <2>1, <2>2, QuotientIsPositive
  <2>4. UsedUnits(u, grid) BY <1>5, <2>1, <2>3 DEF UsedUnits
  <2>5. QED BY <1>5, <2>4 DEF u
<1>6. ASSUME NEW groups, NEW k \in Nat \ {0}, sk_units = k * ClusterSize(p),
             Params(p) = ParamsStreamK(p, Underlying(p), sk_tiles, sk_units, groups),
             sk_tiles \in 1 .. tiles, p.scheduler # "static"
      PROVE  UsedUnits(Params(p), grid)
  <2> DEFINE u == ParamsStreamK(p, Underlying(p), sk_tiles, sk_units, groups)
  <2>1. /\ u.scheduler = p.scheduler /\ u.splits = 1
        /\ u.sk_tiles = sk_tiles /\ u.sk_units = sk_units
        /\ u.units_per_problem = u.blocks_per_problem - sk_tiles + sk_units
        /\ u.blocks_per_problem = tiles
    BY StreamKFields DEF Same, tiles
  <2> HIDE DEF u
  <2>2. sk_tiles = tiles \/ sk_tiles >= wave BY <1>2, <1>4, <1>6, SkTilesFill
  <2> HIDE DEF sk_tiles
  <2>3. sk_tiles \in Nat /\ sk_tiles > 0 BY <1>2, <1>6
  <2>4. sk_units \in Nat /\ sk_units <= wave
    BY <1>4, <2>3, SkUnitsBound, SkUnitsAreWhole
  <2>10. sk_units > 0
    <3>1. ClusterSize(p) \in Nat \ {0} BY BlocksAreWhole
    <3>2. QED BY <1>6, <3>1, ProductPositive
  <2> HIDE DEF sk_units
  <2>5. wave = grid BY <1>3, <1>6
  <2>6. Units(u) = tiles - sk_tiles + sk_units BY <1>2, <2>1, <2>3, <2>4 DEF Units
  <2>7. Units(u) <= grid \/ u.sk_tiles >= u.sk_units
    BY <1>2, <1>4, <2>1, <2>2, <2>3, <2>4, <2>5, <2>6
  <2>8. UsedUnits(u, grid) BY <1>6, <2>1, <2>7, <2>10 DEF UsedUnits
  <2>9. QED BY <1>6, <2>8 DEF u
<1>7. \/ \E splits \in Nat \ {0} :
           /\ Params(p) = ParamsBasic(p, Underlying(p), splits)
           /\ splits # 1 => /\ p.scheduler # "static"
                            /\ \/ splits = AdjustSplitCount(p)
                               \/ /\ selected /\ p.scheduler # "static"
                                  /\ splits = sk_units \div sk_tiles
      \/ \E k \in Nat \ {0} :
           /\ Params(p) = ParamsStreamK(p, Underlying(p), sk_tiles, sk_units,
                              Groups(p, Swizzled(p, b), sk_tiles, sk_units))
           /\ sk_units = k * ClusterSize(p)
           /\ sk_tiles \in 1 .. tiles
           /\ p.scheduler # "static"
  <2> USE DEF tiles, wave
  <2>1. \/ \E splits \in Nat \ {0} :
             /\ Params(p) = ParamsBasic(p, Underlying(p), splits)
             /\ splits # 1 =>
                  /\ p.scheduler # "static"
                  /\ \/ SplitKIsRequired(p) /\ splits = AdjustSplitCount(p)
                     \/ /\ ~SplitKIsRequired(p) /\ selected
                        /\ splits = sk_units \div sk_tiles
        \/ \E k \in Nat \ {0} :
             /\ Params(p) = ParamsStreamK(p, Underlying(p), sk_tiles, sk_units,
                                Groups(p, Swizzled(p, b), sk_tiles, sk_units))
             /\ sk_units = k * ClusterSize(p)
             /\ sk_tiles \in 1 .. tiles /\ WholeMultiple(sk_tiles, ClusterSize(p))
             /\ p.scheduler # "static" /\ ~SplitKIsRequired(p) /\ ~selected
    BY ParamsCases
  <2> HIDE DEF sk_tiles, sk_units, tiles, wave, selected
  <2>2. QED BY <2>1
<1> HIDE DEF sk_tiles, sk_units, selected
<1>8. UsedUnits(Params(p), grid) BY <1>5, <1>6, <1>7
<1>9. QED BY <1>8 DEF grid

(* The units cut up lines of tiles.  Those of a split cut up one output    *)
(* tile of each block of a cluster, those of stream-K the tiles of a group *)
(* of units.                                                               *)
Lines(u) == IF u.splits > 1 THEN u.clusters_mnl ELSE u.groups
UnitsPerLine(u) == IF u.splits > 1 THEN u.splits ELSE u.units_per_group \div Size(u)
LineStart(u, l) == IF u.splits > 1 THEN l * u.kt ELSE 0
LineEnd(u, l) == IF u.splits > 1 THEN l * u.kt + u.kt ELSE TilesOfLine(u, l) * u.kt

(* The units of line l have no less than a tile, or in a split a k tile.   *)
Busy(u, l) ==
  IF u.splits > 1 THEN u.k_tiles_per_sk_unit > 0 ELSE UnitsPerLine(u) <= TilesOfLine(u, l)

(* The borders of the units of line l. *)
CutLine(u, l, border) ==
  /\ border \in [0 .. UnitsPerLine(u) -> Nat]
  /\ border[0] = LineStart(u, l) /\ border[UnitsPerLine(u)] = LineEnd(u, l)
  /\ \A d, e \in 0 .. UnitsPerLine(u) : d <= e => border[d] <= border[e]
  /\ Busy(u, l) => \A e \in 0 .. UnitsPerLine(u) - 1 : border[e] < border[e + 1]
  /\ \A e \in 0 .. UnitsPerLine(u) - 1, r \in 0 .. Size(u) - 1 :
       UnitRange(u, (e * Lines(u) + l) * Size(u) + r) = [start |-> border[e], end |-> border[e + 1]]

(* Equal shares, of which the first few are one larger. *)
Share(per, big, e) == per * e + Lesser(e, big)

LEMMA ShareGrows ==
  ASSUME NEW per \in Nat, NEW big \in Nat, NEW d \in Nat, NEW e \in Nat, d <= e
  PROVE  /\ Share(per, big, d) \in Nat /\ Share(per, big, d) <= Share(per, big, e)
         /\ Share(per, big, d + 1) = Share(per, big, d) + per + (IF d < big THEN 1 ELSE 0)
<1>1. per * d \in Nat /\ per * e \in Nat /\ Lesser(d, big) \in Nat /\ Lesser(e, big) \in Nat
  BY DEF Lesser
<1>2. per * d <= per * e
  <2>1. per * (e - d) \in Nat /\ per * (e - d) = per * e - per * d OBVIOUS
  <2>2. QED BY <1>1, <2>1
<1>3. Lesser(d, big) <= Lesser(e, big) BY DEF Lesser
<1>4. Lesser(d + 1, big) = Lesser(d, big) + (IF d < big THEN 1 ELSE 0) BY DEF Lesser
<1>5. per * (d + 1) = per * d + per OBVIOUS
<1>6. QED BY <1>1, <1>2, <1>3, <1>4, <1>5 DEF Share

LEMMA ShareEnds ==
  ASSUME NEW per \in Nat, NEW v \in Nat, NEW big \in 0 .. v
  PROVE  Share(per, big, 0) = 0 /\ Share(per, big, v) = per * v + big
  BY DEF Share, Lesser

(* The borders of units keep their order when they are moved, and those at *)
(* the border of an output tile stay.                                      *)
LEMMA AdjustedParts ==
  ASSUME NEW u, u.kt \in Nat \ {0}, NEW a \in Nat, NEW k \in 0 .. u.kt - 1
  PROVE  Adjusted(u, a * u.kt + k) =
           CASE k < min_iters_per_sk_unit_ -> a * u.kt
             [] k >= min_iters_per_sk_unit_ /\ k > u.kt - min_iters_per_sk_unit_
                  -> a * u.kt + u.kt
             [] OTHER -> a * u.kt + k
<1> DEFINE kt == u.kt
           n == a * kt + k
<1>1. n % kt = k BY DivModUnique
<1>2. a * kt \in Nat /\ kt \in Nat /\ k \in Nat OBVIOUS
<1>3. Adjusted(u, n) = CASE k < min_iters_per_sk_unit_ -> n - k
         [] k >= min_iters_per_sk_unit_ /\ k > kt - min_iters_per_sk_unit_ -> n + (kt - k)
         [] OTHER -> n
  BY <1>1 DEF Adjusted
<1> DEFINE base == a * kt
<1> HIDE DEF base, kt
<1>4. n = base + k BY DEF base, kt
<1>5. base \in Nat /\ kt \in Nat BY <1>2 DEF base, kt
<1> HIDE DEF n
<1>6. n - k = base /\ n + (kt - k) = base + kt BY <1>2, <1>4, <1>5
<1>7. Adjusted(u, n) = CASE k < min_iters_per_sk_unit_ -> base
         [] k >= min_iters_per_sk_unit_ /\ k > kt - min_iters_per_sk_unit_ -> base + kt
         [] OTHER -> base + k
  BY <1>3, <1>4, <1>6
<1>8. QED BY <1>7 DEF n, base, kt

LEMMA AdjustedGrows ==
  ASSUME NEW u, u.kt \in Nat \ {0}, NEW x \in Nat, NEW y \in Nat, x <= y
  PROVE  /\ Adjusted(u, x) \in Nat /\ Adjusted(u, x) <= Adjusted(u, y)
         /\ x + u.kt <= y => Adjusted(u, x) < Adjusted(u, y)
<1> DEFINE kt == u.kt
           a == x \div kt
           j == x % kt
           b == y \div kt
           k == y % kt
<1>1. kt \in Nat \ {0} /\ a \in Nat /\ j \in 0 .. kt - 1 /\ x = a * kt + j BY DivMod
<1>2. b \in Nat /\ k \in 0 .. kt - 1 /\ y = b * kt + k BY DivMod
<1> HIDE DEF a, j, b, k
<1>3. Adjusted(u, x) =
        CASE j < min_iters_per_sk_unit_ -> a * kt
          [] j >= min_iters_per_sk_unit_ /\ j > kt - min_iters_per_sk_unit_ -> a * kt + kt
          [] OTHER -> a * kt + j
  BY <1>1, AdjustedParts
<1>4. Adjusted(u, y) =
        CASE k < min_iters_per_sk_unit_ -> b * kt
          [] k >= min_iters_per_sk_unit_ /\ k > kt - min_iters_per_sk_unit_ -> b * kt + kt
          [] OTHER -> b * kt + k
  BY <1>2, AdjustedParts
<1> HIDE DEF kt
<1> DEFINE s == a * kt
           t == b * kt
<1>5. s \in Nat /\ t \in Nat BY <1>1, <1>2
<1>6. a <= b
  <2>1. a < b + 1
    <3>1. b * kt + kt = (b + 1) * kt /\ (b + 1) * kt \in Nat BY <1>1, <1>2
    <3>2. a * kt + j < (b + 1) * kt BY <1>1, <1>2, <1>5, <3>1
    <3>3. QED BY <1>1, <1>2, <3>2, QuotientsAreInside
  <2>2. QED BY <1>1, <1>2, <2>1
<1>7. (a = b /\ s = t) \/ (b = a + 1 /\ t = s + kt) \/ t >= s + 2 * kt
  <2>1. CASE a = b BY <2>1
  <2>2. CASE b = a + 1 BY <1>1, <2>2
  <2>3. CASE b > a + 1
    <3>1. (b - a - 2) * kt \in Nat /\ (b - a - 2) * kt = b * kt - a * kt - 2 * kt
      BY <1>1, <1>2, <2>3
    <3>2. QED BY <1>1, <1>5, <3>1
  <2>4. QED BY <1>1, <1>2, <1>6, <2>1, <2>2, <2>3
<1> HIDE DEF s, t
<1>8. Adjusted(u, x) =
        (IF j < 8 THEN s ELSE IF j > kt - 8 THEN s + kt ELSE s + j)
  BY <1>1, <1>3 DEF s, min_iters_per_sk_unit_
<1>9. Adjusted(u, y) =
        (IF k < 8 THEN t ELSE IF k > kt - 8 THEN t + kt ELSE t + k)
  BY <1>2, <1>4 DEF t, min_iters_per_sk_unit_
<1>10. x = s + j /\ y = t + k BY <1>1, <1>2 DEF s, t
<1>11. Adjusted(u, x) \in Nat BY <1>1, <1>5, <1>8
<1>12. Adjusted(u, x) <= Adjusted(u, y) BY <1>1, <1>2, <1>5, <1>7, <1>8, <1>9, <1>10
<1>13. x + kt <= y => Adjusted(u, x) < Adjusted(u, y)
  BY <1>1, <1>2, <1>5, <1>7, <1>8, <1>9, <1>10
<1>14. QED BY <1>11, <1>12, <1>13 DEF kt

(* The shares that the units of a group get of the k tiles of their line,  *)
(* which the code counts for all blocks of a cluster at once.              *)
LEMMA SharesOfLine ==
  ASSUME NEW line \in Nat, NEW v \in Nat \ {0}, NEW size \in Nat \ {0}
  PROVE  LET per == (line * size) \div (v * size)
             big == (line * size - per * (v * size)) \div size
         IN  per \in Nat /\ big \in 0 .. v - 1 /\ per * v + big = line
<1> DEFINE k_tiles == line * size
           per == k_tiles \div (v * size)
           rest == k_tiles % (v * size)
           big == (k_tiles - per * (v * size)) \div size
<1>1. v * size \in Nat \ {0} /\ k_tiles \in Nat BY ProductPositive
<1> HIDE DEF k_tiles
<1>2. per \in Nat /\ rest \in 0 .. v * size - 1 /\ k_tiles = per * (v * size) + rest
  BY <1>1, DivMod
<1> HIDE DEF per, rest
<1>3. per * (v * size) = (per * v) * size /\ per * v \in Nat BY <1>2
<1>4. k_tiles - per * (v * size) = (line - per * v) * size BY <1>2, <1>3 DEF k_tiles
<1> DEFINE d == line - per * v
<1>5. d \in Int BY <1>3
<1>6. d * size = rest BY <1>1, <1>2, <1>3, <1>4
<1> HIDE DEF d
<1>7. d >= 0 /\ d < v
  <2>1. CASE d < 0
    <3>1. (-1 - d) * size \in Nat /\ (-1 - d) * size = -size - d * size BY <1>5, <2>1
    <3>2. d * size \in Int BY <1>5
    <3>3. QED BY <1>2, <1>6, <3>1, <3>2
  <2>2. CASE d >= v
    <3>1. (d - v) * size \in Nat /\ (d - v) * size = d * size - v * size BY <1>5, <2>2
    <3>2. d * size \in Int /\ v * size \in Int BY <1>5
    <3>3. QED BY <1>2, <1>6, <3>1, <3>2
  <2>3. QED BY <1>5, <2>1, <2>2
<1>8. big = d
  <2>1. d \in Nat /\ 0 \in 0 .. size - 1 BY <1>5, <1>7
  <2>2. (d * size + 0) \div size = d /\ d * size + 0 = d * size BY <2>1, DivModUnique
  <2>3. big = (d * size) \div size BY <1>4 DEF d
  <2>4. QED BY <2>2, <2>3
<1>9. per * v + d = line BY <1>3 DEF d
<1> HIDE DEF big
<1>10. per \in Nat /\ big \in 0 .. v - 1 /\ per * v + big = line
  BY <1>2, <1>5, <1>7, <1>8, <1>9
<1>11. QED BY <1>10 DEF big, per, k_tiles

(* The units of a line are one after another: each ends where the next one *)
(* starts, and together they have all k tiles of the line.                 *)
LEMMA SplitLineIsCut ==
  ASSUME NEW u, FittedParams(u), u.splits > 1, NEW l \in 0 .. Lines(u) - 1
  PROVE  \E border : CutLine(u, l, border)
<1> DEFINE per == u.k_tiles_per_sk_unit
           big == u.big_units
           kt == u.kt
           mnl == u.clusters_mnl
           at == l * kt
           border == [e \in 0 .. u.splits |-> at + Share(per, big, e)]
<1>1. /\ kt \in Nat \ {0} /\ Size(u) \in Nat \ {0} /\ u.splits \in Nat \ {0}
      /\ per \in Nat /\ big \in 0 .. u.splits - 1 /\ kt = per * u.splits + big
      /\ mnl \in Nat \ {0}
  BY SizeIsPositive DEF FittedParams, FittedSplit
<1>2. Lines(u) = mnl /\ UnitsPerLine(u) = u.splits
      /\ LineStart(u, l) = at /\ LineEnd(u, l) = at + kt
  BY DEF Lines, UnitsPerLine, LineStart, LineEnd
<1>3. at \in Nat /\ l \in 0 .. mnl - 1 BY <1>1, <1>2
<1>4. Share(per, big, 0) = 0 /\ Share(per, big, u.splits) = kt
  <2>1. big \in 0 .. u.splits /\ u.splits \in Nat BY <1>1
  <2> HIDE DEF per, big
  <2>2. QED BY <1>1, <2>1, ShareEnds
<1> HIDE DEF at
<1>5. \A d, e \in Nat : d <= e =>
        /\ Share(per, big, d) \in Nat /\ Share(per, big, d) <= Share(per, big, e)
        /\ Share(per, big, d + 1) = Share(per, big, d) + per + (IF d < big THEN 1 ELSE 0)
  <2>1. per \in Nat /\ big \in Nat BY <1>1
  <2> HIDE DEF per, big
  <2>2. QED BY <2>1, ShareGrows
<1>6. ASSUME NEW e \in 0 .. u.splits - 1, NEW r \in 0 .. Size(u) - 1
      PROVE  UnitRange(u, (e * mnl + l) * Size(u) + r)
               = [start |-> at + Share(per, big, e), end |-> at + Share(per, big, e + 1)]
  <2> DEFINE c == e * mnl + l
             i == c * Size(u) + r
  <2>1. c \in Nat /\ e \in Nat BY <1>1, <1>3
  <2>2. c \div mnl = e /\ c % mnl = l
    <3> HIDE DEF mnl
    <3>1. QED BY <1>1, <1>3, <2>1, DivModUnique
  <2> HIDE DEF c
  <2>3. i \div Size(u) = c BY <1>1, <2>1, DivModUnique
  <2>4. UnitRange(u, i) = [start |-> kt * l + per * e + Lesser(e, big),
                           end |-> kt * l + per * e + Lesser(e, big) + per
                                   + IF e < big THEN 1 ELSE 0]
    BY <2>2, <2>3 DEF UnitRange, SplitKRange
  <2>5. kt * l = at /\ per * e \in Nat /\ Lesser(e, big) \in Nat
    BY <1>1, <1>3 DEF at, Lesser
  <2>6. kt * l + per * e + Lesser(e, big) = at + Share(per, big, e)
    BY <1>3, <2>5 DEF Share
  <2>7. kt * l + per * e + Lesser(e, big) + per + (IF e < big THEN 1 ELSE 0)
          = at + Share(per, big, e + 1)
    <3>1. Share(per, big, e + 1) = Share(per, big, e) + per + (IF e < big THEN 1 ELSE 0)
          /\ Share(per, big, e) \in Nat
      BY <1>5
    <3>2. QED BY <1>1, <1>3, <2>6, <3>1
  <2>8. QED BY <2>4, <2>6, <2>7 DEF c
<1>7. border \in [0 .. u.splits -> Nat] BY <1>1, <1>3, <1>5
<1>8. \A d, e \in 0 .. u.splits : d <= e => border[d] <= border[e]
  <2>1. ASSUME NEW d \in 0 .. u.splits, NEW e \in 0 .. u.splits, d <= e
        PROVE  border[d] <= border[e]
    <3>1. /\ Share(per, big, d) \in Nat /\ Share(per, big, e) \in Nat
          /\ Share(per, big, d) <= Share(per, big, e)
      BY <1>1, <1>5, <2>1
    <3>2. border[d] = at + Share(per, big, d) /\ border[e] = at + Share(per, big, e)
      OBVIOUS
    <3>3. QED BY <1>3, <3>1, <3>2
  <2>2. QED BY <2>1
<1>9. border[0] = at /\ border[u.splits] = at + kt BY <1>1, <1>3, <1>4
<1>10. \A e \in 0 .. u.splits - 1 :
         border[e] = at + Share(per, big, e) /\ border[e + 1] = at + Share(per, big, e + 1)
  BY <1>1
<1>11. Busy(u, l) => \A e \in 0 .. u.splits - 1 : border[e] < border[e + 1]
  <2> SUFFICES ASSUME per > 0, NEW e \in 0 .. u.splits - 1 PROVE border[e] < border[e + 1]
    BY DEF Busy
  <2>1. e \in Nat /\ e <= e /\ at \in Nat /\ per \in Nat BY <1>1, <1>3
  <2>2. Share(per, big, e) \in Nat
        /\ Share(per, big, e + 1) = Share(per, big, e) + per + (IF e < big THEN 1 ELSE 0)
    BY <1>5, <2>1
  <2> HIDE DEF border, per
  <2>3. QED BY <1>10, <2>1, <2>2
<1> HIDE DEF border, per, big, kt, mnl
<1>12. CutLine(u, l, border) BY <1>2, <1>6, <1>7, <1>8, <1>9, <1>10, <1>11 DEF CutLine
<1>13. QED BY <1>12

LEMMA StreamKLineIsCut ==
  ASSUME NEW u, FittedParams(u), u.splits = 1, u.sk_units > 0, NEW l \in 0 .. Lines(u) - 1
  PROVE  UnitsPerLine(u) \in Nat \ {0} /\ \E border : CutLine(u, l, border)
<1>1. /\ u.kt \in Nat \ {0} /\ Size(u) \in Nat \ {0} /\ u.groups \in Nat \ {0}
      /\ FittedStreamK(u)
  BY SizeIsPositive DEF FittedParams
<1>2. Lines(u) = u.groups /\ LineStart(u, l) = 0 /\ LineEnd(u, l) = TilesOfLine(u, l) * u.kt
      /\ UnitsPerLine(u) = u.units_per_group \div Size(u)
  BY DEF Lines, LineStart, LineEnd, UnitsPerLine
<1>3. PICK v \in Nat \ {0} : u.units_per_group = v * Size(u) BY <1>1 DEF FittedStreamK
<1>4. UnitsPerLine(u) = v
  <2>1. 0 \in 0 .. Size(u) - 1 BY <1>1
  <2>2. (v * Size(u) + 0) \div Size(u) = v /\ v * Size(u) + 0 = v * Size(u)
    BY <1>1, <2>1, DivModUnique
  <2>3. QED BY <1>2, <1>3, <2>2
<1> DEFINE tiles == TilesOfLine(u, l)
           line == tiles * u.kt
           per == (line * Size(u)) \div (v * Size(u))
           big == (line * Size(u) - per * (v * Size(u))) \div Size(u)
           border == [e \in 0 .. v |-> Adjusted(u, Share(per, big, e))]
<1>5. l \in Nat /\ l < u.groups BY <1>1, <1>2
<1>6. tiles \in Nat BY <1>5, LineType
<1> HIDE DEF tiles
<1>7. line \in Nat /\ tiles * Size(u) * u.kt = line * Size(u) BY <1>1, <1>6
<1> HIDE DEF line
<1>8. per \in Nat /\ big \in 0 .. v - 1 /\ per * v + big = line
  BY <1>1, <1>7, SharesOfLine
<1>9. ASSUME NEW e \in 0 .. v - 1, NEW r \in 0 .. Size(u) - 1
      PROVE  UnitRange(u, (e * u.groups + l) * Size(u) + r)
               = [start |-> Adjusted(u, Share(per, big, e)),
                  end   |-> Adjusted(u, Share(per, big, e + 1))]
  <2> DEFINE c == e * u.groups + l
             i == c * Size(u) + r
  <2>1. c \in Nat /\ e \in Nat BY <1>1, <1>5
  <2>2. c \div u.groups = e /\ c % u.groups = l
    <3>1. l \in 0 .. u.groups - 1 BY <1>1, <1>5
    <3>2. QED BY <1>1, <2>1, <3>1, DivModUnique
  <2>3. l % u.groups = l
    <3>1. l \in 0 .. u.groups - 1 /\ 0 \in Nat BY <1>1, <1>5
    <3>2. (0 * u.groups + l) % u.groups = l BY <1>1, <3>1, DivModUnique
    <3>3. 0 * u.groups + l = l BY <1>1, <1>5
    <3>4. QED BY <3>2, <3>3
  <2> HIDE DEF c
  <2>4. i \div Size(u) = c BY <1>1, <2>1, DivModUnique
  <2>5. tiles = (u.sk_tiles \div Size(u)) \div u.groups + IF l < u.big_groups THEN 1 ELSE 0
    BY <2>3 DEF tiles, TilesOfLine
  <2> HIDE DEF i
  <2> DEFINE start == per * e + Lesser(e, big)
             end == start + per + IF e < big THEN 1 ELSE 0
  <2>6. UnitRange(u, i) = [start |-> Adjusted(u, start), end |-> Adjusted(u, end)]
    <3>1. UnitRange(u, i) = StreamKRange(u, c) BY <2>4 DEF UnitRange
    <3>2. QED BY <1>3, <1>7, <2>2, <2>5, <3>1 DEF StreamKRange
  <2>7. start = Share(per, big, e) BY DEF Share
  <2>8. end = Share(per, big, e + 1)
    <3>1. per \in Nat /\ big \in Nat BY <1>8
    <3> HIDE DEF per, big
    <3>2. Share(per, big, e + 1) = Share(per, big, e) + per + (IF e < big THEN 1 ELSE 0)
      BY <2>1, <3>1, ShareGrows
    <3>3. QED BY <2>7, <3>2
  <2> HIDE DEF start, end
  <2>9. QED BY <2>6, <2>7, <2>8 DEF i, c
<1> HIDE DEF per, big
<1>10. Share(per, big, 0) = 0 /\ Share(per, big, v) = line
  <2>1. big \in 0 .. v /\ v \in Nat BY <1>8
  <2>2. QED BY <1>8, <2>1, ShareEnds
<1>11. \A d, e \in Nat : d <= e =>
         Share(per, big, d) \in Nat /\ Share(per, big, d) <= Share(per, big, e)
  <2>1. big \in Nat BY <1>8
  <2>2. QED BY <1>8, <2>1, ShareGrows
<1>12. \A x, y \in Nat : x <= y =>
         Adjusted(u, x) \in Nat /\ Adjusted(u, x) <= Adjusted(u, y)
  BY <1>1, AdjustedGrows
<1>13. ASSUME NEW d \in 0 .. v, NEW e \in 0 .. v, d <= e
       PROVE  border[d] \in Nat /\ border[d] <= border[e]
  <2>1. Share(per, big, d) \in Nat /\ Share(per, big, e) \in Nat
        /\ Share(per, big, d) <= Share(per, big, e)
    BY <1>11, <1>13
  <2>2. border[d] = Adjusted(u, Share(per, big, d)) /\ border[e] = Adjusted(u, Share(per, big, e))
    OBVIOUS
  <2>3. QED BY <1>12, <2>1, <2>2
<1>14. border \in [0 .. v -> Nat]
  <2>1. \A d \in 0 .. v : border[d] \in Nat BY <1>13
  <2>2. QED BY <2>1
<1>15. ASSUME NEW a \in Nat PROVE Adjusted(u, a * u.kt) = a * u.kt
  <2>1. 0 \in 0 .. u.kt - 1 /\ a * u.kt + 0 = a * u.kt BY <1>1
  <2>2. Adjusted(u, a * u.kt + 0) = a * u.kt
    BY <1>1, <2>1, AdjustedParts DEF min_iters_per_sk_unit_
  <2>3. QED BY <2>1, <2>2
<1>16. border[0] = 0 /\ border[v] = line
  <2>1. Adjusted(u, 0 * u.kt) = 0 * u.kt /\ 0 * u.kt = 0 BY <1>1, <1>15
  <2>2. Adjusted(u, line) = line BY <1>6, <1>15 DEF line
  <2>3. QED BY <1>10, <2>1, <2>2
<1>17. \A e \in 0 .. v - 1 : border[e] = Adjusted(u, Share(per, big, e))
                             /\ border[e + 1] = Adjusted(u, Share(per, big, e + 1))
  OBVIOUS
<1>20. Busy(u, l) => \A e \in 0 .. v - 1 : border[e] < border[e + 1]
  <2> SUFFICES ASSUME v <= tiles, NEW e \in 0 .. v - 1 PROVE border[e] < border[e + 1]
    BY <1>4 DEF Busy, tiles
  <2>1. per >= u.kt
    <3>1. CASE per < u.kt
      <4>1. (u.kt - 1 - per) * v \in Nat /\ (u.kt - 1 - per) * v = u.kt * v - v - per * v
        BY <1>1, <1>8, <3>1
      <4>2. (tiles - v) * u.kt \in Nat /\ (tiles - v) * u.kt = tiles * u.kt - v * u.kt
        BY <1>1, <1>6
      <4>3. per * v \in Nat /\ v * u.kt \in Nat /\ u.kt * v = v * u.kt /\ tiles * u.kt \in Nat
        BY <1>1, <1>6, <1>8
      <4>4. per * v + big = tiles * u.kt /\ big < v /\ big \in Nat BY <1>8 DEF line
      <4>5. QED BY <4>1, <4>2, <4>3, <4>4
    <3>2. QED BY <1>1, <1>8, <3>1
  <2>2. e \in Nat /\ e + 1 \in Nat /\ e <= e + 1 /\ per \in Nat /\ big \in Nat BY <1>8
  <2>3. Share(per, big, e) \in Nat /\ Share(per, big, e + 1) \in Nat BY <1>11, <2>2
  <2>4. Share(per, big, e) + u.kt <= Share(per, big, e + 1)
    <3>1. Share(per, big, e + 1) = Share(per, big, e) + per + (IF e < big THEN 1 ELSE 0)
      BY <2>2, ShareGrows
    <3>2. QED BY <1>1, <2>1, <2>2, <2>3, <3>1
  <2>5. Share(per, big, e) <= Share(per, big, e + 1) BY <1>11, <2>2
  <2>6. Adjusted(u, Share(per, big, e)) < Adjusted(u, Share(per, big, e + 1))
    BY <1>1, <2>3, <2>4, <2>5, AdjustedGrows
  <2> HIDE DEF border
  <2>7. QED BY <1>17, <2>6
<1> HIDE DEF border
<1>18. CutLine(u, l, border)
  BY <1>2, <1>4, <1>9, <1>13, <1>14, <1>16, <1>17, <1>20 DEF CutLine, line, tiles
<1>19. QED BY <1>4, <1>18

(* The parameters whose units share tiles, and their lines. *)
Shared(u) == u.splits > 1 \/ u.sk_units > 0

LEMMA LinesAreCut ==
  ASSUME NEW u, FittedParams(u), Shared(u)
  PROVE  /\ Lines(u) \in Nat \ {0} /\ UnitsPerLine(u) \in Nat \ {0}
         /\ \A l \in 0 .. Lines(u) - 1 : \E border : CutLine(u, l, border)
<1>1. u.groups \in Nat \ {0} /\ u.splits \in Nat \ {0} BY DEF FittedParams
<1>2. CASE u.splits > 1
  <2>1. u.clusters_mnl \in Nat \ {0} BY <1>2 DEF FittedParams, FittedSplit
  <2>2. Lines(u) \in Nat \ {0} /\ UnitsPerLine(u) \in Nat \ {0}
    BY <1>1, <1>2, <2>1 DEF Lines, UnitsPerLine
  <2>3. QED BY <1>2, <2>2, SplitLineIsCut
<1>3. CASE ~(u.splits > 1)
  <2>1. u.splits = 1
    <3>1. \A n \in Nat \ {0} : n > 1 \/ n = 1 OBVIOUS
    <3>2. QED BY <1>1, <1>3, <3>1
  <2>2. Lines(u) \in Nat \ {0} BY <1>1, <1>3 DEF Lines
  <2>3. 0 \in 0 .. Lines(u) - 1 BY <2>2
  <2>4. u.sk_units > 0 BY <1>3 DEF Shared
  <2>5. QED BY <2>1, <2>2, <2>3, <2>4, StreamKLineIsCut
<1>4. QED BY <1>2, <1>3

(* A place in a cut line is in one unit only, and in some unit. *)
LEMMA UnitsDoNotOverlap ==
  ASSUME NEW v \in Nat \ {0}, NEW border \in [0 .. v -> Nat],
         \A d, e \in 0 .. v : d <= e => border[d] <= border[e],
         NEW d \in 0 .. v - 1, NEW e \in 0 .. v - 1, NEW at \in Int,
         border[d] <= at, at < border[d + 1], border[e] <= at, at < border[e + 1]
  PROVE  d = e
<1>1. /\ border[d] \in Nat /\ border[d + 1] \in Nat /\ border[e] \in Nat /\ border[e + 1] \in Nat
  OBVIOUS
<1>2. CASE d < e
  <2>1. border[d + 1] <= border[e] BY <1>2
  <2>2. QED BY <1>1, <2>1
<1>3. CASE e < d
  <2>1. border[e + 1] <= border[d] BY <1>3
  <2>2. QED BY <1>1, <2>1
<1>4. QED BY <1>2, <1>3

LEMMA UnitsFillTheLine ==
  ASSUME NEW v \in Nat \ {0}, NEW border \in [0 .. v -> Nat], NEW at \in Int,
         border[0] <= at, at < border[v]
  PROVE  \E e \in 0 .. v - 1 : border[e] <= at /\ at < border[e + 1]
<1> DEFINE Beyond == {e \in Nat : e \in 0 .. v /\ at < border[e]}
<1>1. v \in Beyond OBVIOUS
<1> DEFINE less == OpToRel(<, Nat)
<1>2. PICK n \in Beyond : \A m \in Beyond : <<m, n>> \notin less
  <2>1. Beyond \subseteq Nat /\ Beyond # {} BY <1>1
  <2> HIDE DEF Beyond
  <2>2. QED BY <2>1, WFMin, NatLessThanWellFounded
<1>8. \A m \in Beyond : n <= m
  <2>1. \A i, j \in Nat : i < j => <<i, j>> \in less BY DEF OpToRel
  <2>2. \A m \in Beyond : m \in Nat /\ n \in Nat OBVIOUS
  <2>3. ASSUME NEW m \in Beyond PROVE ~ m < n
    <3>1. <<m, n>> \notin less BY <1>2
    <3>2. m \in Nat /\ n \in Nat BY <2>2
    <3> HIDE DEF Beyond, less
    <3>3. QED BY <2>1, <3>1, <3>2
  <2> HIDE DEF Beyond
  <2>4. QED BY <2>2, <2>3
<1>3. n \in 0 .. v /\ at < border[n] /\ n # 0
  <2>1. n \in 0 .. v /\ at < border[n] OBVIOUS
  <2>2. border[0] \in Nat OBVIOUS
  <2>3. QED BY <2>1, <2>2
<1>4. n - 1 \in 0 .. v - 1 /\ n - 1 \in 0 .. v /\ n - 1 \in Nat /\ n - 1 + 1 = n BY <1>3
<1>5. n - 1 \notin Beyond BY <1>4, <1>8
<1>6. border[n - 1] <= at
  <2>1. border[n - 1] \in Nat BY <1>4
  <2>2. QED BY <1>4, <1>5, <2>1
<1>7. QED BY <1>3, <1>4, <1>6

-----------------------------------------------------------------------------
(* 11. Every output tile has an index of its own.                          *)

(* Equal numbers have equal parts. *)
LEMMA SameParts ==
  ASSUME NEW d \in Nat \ {0}, NEW a \in Int, NEW b \in Int,
         NEW r \in 0 .. d - 1, NEW s \in 0 .. d - 1, a * d + r = b * d + s
  PROVE  a = b /\ r = s
<1>1. (a * d + r) \div d = a /\ (a * d + r) % d = r BY IntDivModUnique
<1>2. (b * d + s) \div d = b /\ (b * d + s) % d = s BY IntDivModUnique
<1>3. QED BY <1>1, <1>2

Tiles(u) == [m : 0 .. u.tiles.m - 1, n : 0 .. u.tiles.n - 1, l : 0 .. u.tiles.l - 1]
TileIndex(u, t) == t.l * u.batch + LinearIdx(u, t)

LEMMA TileParts ==
  ASSUME NEW u, Divisors(u), NEW rows, WholeGroups(u, rows), NEW t,
         Minor(u, t) \in 0 .. Minor(u, u.tiles) - 1, Major(u, t) \in 0 .. Major(u, u.tiles) - 1
  PROVE  \E off \in 0 .. u.major - 1, in_group \in 0 .. u.swizzle - 1,
            column \in 0 .. u.blk_major - 1, row \in 0 .. rows - 1, place \in 0 .. u.minor - 1 :
           /\ Minor(u, t) = (row * u.swizzle + in_group) * u.minor + place
           /\ Major(u, t) = column * u.major + off
           /\ LinearIdx(u, t)
                = (((row * u.blk_major + column) * u.swizzle + in_group) * u.major + off) * u.minor
                  + place
<1>1. /\ u.minor \in Nat \ {0} /\ u.major \in Nat \ {0}
      /\ u.swizzle \in Nat \ {0} /\ u.blk_major \in Nat \ {0} /\ rows \in Nat \ {0}
  BY DEF Divisors, WholeGroups
<1>2. /\ Minor(u, u.tiles) = (rows * u.swizzle) * u.minor
      /\ Major(u, u.tiles) = u.blk_major * u.major
  BY DEF WholeGroups
<1>3. rows * u.swizzle \in Nat /\ (rows * u.swizzle) * u.minor \in Nat /\ u.blk_major * u.major \in Nat
  BY <1>1
<1> DEFINE a == Minor(u, t)
           b == Major(u, t)
           cluster == a \div u.minor
           place == a % u.minor
           row == cluster \div u.swizzle
           in_group == cluster % u.swizzle
           column == b \div u.major
           off == b % u.major
<1>4. a \in Nat /\ a < (rows * u.swizzle) * u.minor /\ b \in Nat /\ b < u.blk_major * u.major
  BY <1>2, <1>3
<1> HIDE DEF a, b
<1>5. cluster \in Nat /\ place \in 0 .. u.minor - 1 /\ a = cluster * u.minor + place
  BY <1>1, <1>4, DivMod
<1>6. column \in Nat /\ off \in 0 .. u.major - 1 /\ b = column * u.major + off
  BY <1>1, <1>4, DivMod
<1> HIDE DEF cluster, place, column, off
<1>7. cluster < rows * u.swizzle BY <1>1, <1>3, <1>4, <1>5, QuotientsAreInside
<1>8. column < u.blk_major BY <1>1, <1>4, <1>6, QuotientsAreInside
<1>9. row \in Nat /\ in_group \in 0 .. u.swizzle - 1 /\ cluster = row * u.swizzle + in_group
  BY <1>1, <1>5, DivMod
<1> HIDE DEF row, in_group
<1>10. row < rows BY <1>1, <1>7, <1>9, QuotientsAreInside
<1>11. row \in 0 .. rows - 1 /\ column \in 0 .. u.blk_major - 1
  BY <1>1, <1>6, <1>8, <1>9, <1>10
<1>12. Minor(u, t) = (row * u.swizzle + in_group) * u.minor + place
       /\ Major(u, t) = column * u.major + off
  BY <1>5, <1>6, <1>9 DEF a, b
<1>13. LinearIdx(u, t)
         = (((row * u.blk_major + column) * u.swizzle + in_group) * u.major + off) * u.minor + place
  BY <1>5, <1>6, <1>9, <1>11, <1>12, LinearIdxOfParts
<1>14. QED BY <1>5, <1>6, <1>9, <1>11, <1>12, <1>13

(* The index of a tile is within its batch ... *)
LEMMA LinearIdxInside ==
  ASSUME NEW u, Divisors(u), NEW rows, WholeGroups(u, rows), NEW t,
         Minor(u, t) \in 0 .. Minor(u, u.tiles) - 1, Major(u, t) \in 0 .. Major(u, u.tiles) - 1
  PROVE  LinearIdx(u, t) \in 0 .. u.batch - 1
<1>1. PICK off \in 0 .. u.major - 1, in_group \in 0 .. u.swizzle - 1,
           column \in 0 .. u.blk_major - 1, row \in 0 .. rows - 1, place \in 0 .. u.minor - 1 :
        LinearIdx(u, t)
          = (((row * u.blk_major + column) * u.swizzle + in_group) * u.major + off) * u.minor + place
  BY TileParts
<1>2. /\ u.minor \in Nat \ {0} /\ u.major \in Nat \ {0}
      /\ u.swizzle \in Nat \ {0} /\ u.blk_major \in Nat \ {0} /\ rows \in Nat \ {0}
      /\ u.batch = (((rows * u.blk_major) * u.swizzle) * u.major) * u.minor
  BY DEF Divisors, WholeGroups
<1> DEFINE a == row * u.blk_major + column
           b == a * u.swizzle + in_group
           c == b * u.major + off
           x == rows * u.blk_major
           y == x * u.swizzle
           z == y * u.major
<1>3. row \in Nat /\ row < rows /\ x \in Nat /\ a \in Nat BY <1>2
<1>4. a < x BY <1>2, <1>3, PlacesAreInside
<1> HIDE DEF a, x
<1>5. b \in Nat /\ y \in Nat BY <1>2, <1>3
<1>6. b < y BY <1>2, <1>3, <1>4, PlacesAreInside
<1> HIDE DEF b, y
<1>7. c \in Nat /\ z \in Nat BY <1>2, <1>5
<1>8. c < z BY <1>2, <1>5, <1>6, PlacesAreInside
<1> HIDE DEF c, z
<1>9. c * u.minor + place \in Nat /\ z * u.minor \in Nat BY <1>2, <1>7
<1>10. c * u.minor + place < z * u.minor BY <1>2, <1>7, <1>8, PlacesAreInside
<1>11. LinearIdx(u, t) = c * u.minor + place /\ u.batch = z * u.minor
  BY <1>1, <1>2 DEF a, b, c, x, y, z
<1>12. QED BY <1>9, <1>10, <1>11

(* ... and no other tile of the batch has it. *)
LEMMA LinearIdxSeparates ==
  ASSUME NEW u, Divisors(u), NEW rows, WholeGroups(u, rows), NEW s, NEW t,
         Minor(u, s) \in 0 .. Minor(u, u.tiles) - 1, Major(u, s) \in 0 .. Major(u, u.tiles) - 1,
         Minor(u, t) \in 0 .. Minor(u, u.tiles) - 1, Major(u, t) \in 0 .. Major(u, u.tiles) - 1,
         LinearIdx(u, s) = LinearIdx(u, t)
  PROVE  Minor(u, s) = Minor(u, t) /\ Major(u, s) = Major(u, t)
<1>1. /\ u.minor \in Nat \ {0} /\ u.major \in Nat \ {0}
      /\ u.swizzle \in Nat \ {0} /\ u.blk_major \in Nat \ {0} /\ rows \in Nat \ {0}
  BY DEF Divisors, WholeGroups
<1>2. PICK off \in 0 .. u.major - 1, in_group \in 0 .. u.swizzle - 1,
           column \in 0 .. u.blk_major - 1, row \in 0 .. rows - 1, place \in 0 .. u.minor - 1 :
        /\ Minor(u, s) = (row * u.swizzle + in_group) * u.minor + place
        /\ Major(u, s) = column * u.major + off
        /\ LinearIdx(u, s)
             = (((row * u.blk_major + column) * u.swizzle + in_group) * u.major + off) * u.minor
               + place
  BY TileParts
<1>3. PICK off2 \in 0 .. u.major - 1, in_group2 \in 0 .. u.swizzle - 1,
           column2 \in 0 .. u.blk_major - 1, row2 \in 0 .. rows - 1, place2 \in 0 .. u.minor - 1 :
        /\ Minor(u, t) = (row2 * u.swizzle + in_group2) * u.minor + place2
        /\ Major(u, t) = column2 * u.major + off2
        /\ LinearIdx(u, t)
             = (((row2 * u.blk_major + column2) * u.swizzle + in_group2) * u.major + off2) * u.minor
               + place2
  BY TileParts
<1> DEFINE a == row * u.blk_major + column
           b == a * u.swizzle + in_group
           c == b * u.major + off
           a2 == row2 * u.blk_major + column2
           b2 == a2 * u.swizzle + in_group2
           c2 == b2 * u.major + off2
<1>4. row \in Nat /\ row2 \in Nat /\ a \in Nat /\ a2 \in Nat BY <1>1
<1>5. a = a2 => row = row2 /\ column = column2 BY <1>1, <1>4, SameParts
<1> HIDE DEF a, a2
<1>6. b \in Nat /\ b2 \in Nat BY <1>1, <1>4
<1>7. b = b2 => a = a2 /\ in_group = in_group2 BY <1>1, <1>4, SameParts
<1> HIDE DEF b, b2
<1>8. c \in Nat /\ c2 \in Nat BY <1>1, <1>6
<1>9. c = c2 => b = b2 /\ off = off2 BY <1>1, <1>6, SameParts
<1> HIDE DEF c, c2
<1>10. c * u.minor + place = c2 * u.minor + place2 BY <1>2, <1>3 DEF a, b, c, a2, b2, c2
<1>11. c = c2 /\ place = place2
  <2>1. c \in Int /\ c2 \in Int BY <1>8
  <2>2. u.minor \in Nat \ {0} /\ place \in 0 .. u.minor - 1 /\ place2 \in 0 .. u.minor - 1
    BY <1>1
  <2> DEFINE d == u.minor
  <2>3. d \in Nat \ {0} /\ place \in 0 .. d - 1 /\ place2 \in 0 .. d - 1
        /\ c * d + place = c2 * d + place2
    BY <1>10, <2>2
  <2> HIDE DEF d
  <2>4. QED BY <2>1, <2>3, SameParts
<1>12. QED BY <1>2, <1>3, <1>5, <1>7, <1>9, <1>11

LEMMA TilesHaveIndices ==
  ASSUME NEW p \in Problems, NEW u, Same(u, UnderlyingParams(p)), NEW t \in Tiles(u)
  PROVE  /\ TileIndex(u, t) \in 0 .. u.blocks_per_problem - 1
         /\ \A s \in Tiles(u) : TileIndex(u, s) = TileIndex(u, t) => s = t
<1> DEFINE v == UnderlyingParams(p)
<1>1. /\ u.blocks_per_problem = v.blocks_per_problem /\ u.along_n = v.along_n
      /\ u.batch = v.batch /\ u.major = v.major /\ u.minor = v.minor
      /\ u.swizzle = v.swizzle /\ u.blk_major = v.blk_major /\ u.tiles = v.tiles
  BY DEF Same
<1>2. Problem(p) /\ p.l \in Nat \ {0} BY ProblemType DEF Problem
<1>3. v.blocks_per_problem = v.batch * v.tiles.l /\ v.tiles.l = p.l
  BY DEF UnderlyingParams, BlocksIn, Swizzled, TiledCtaShape
<1>4. PICK rows : WholeGroups(v, rows) BY <1>2, ParamsAreWhole
<1>5. Divisors(v) BY <1>2, ParamsAreWhole
<1> HIDE DEF v
<1>6. Divisors(u) /\ WholeGroups(u, rows)
  BY <1>1, <1>4, <1>5 DEF Divisors, WholeGroups, Minor, Major
<1>7. u.batch \in Nat \ {0}
  <2>1. /\ u.minor \in Nat \ {0} /\ u.major \in Nat \ {0}
        /\ u.swizzle \in Nat \ {0} /\ u.blk_major \in Nat \ {0} /\ rows \in Nat \ {0}
        /\ u.batch = (((rows * u.blk_major) * u.swizzle) * u.major) * u.minor
    BY <1>6 DEF Divisors, WholeGroups
  <2>2. rows * u.blk_major \in Nat \ {0} BY <2>1, ProductPositive
  <2>3. (rows * u.blk_major) * u.swizzle \in Nat \ {0} BY <2>1, <2>2, ProductPositive
  <2>4. ((rows * u.blk_major) * u.swizzle) * u.major \in Nat \ {0}
    BY <2>1, <2>3, ProductPositive
  <2>5. QED BY <2>1, <2>4, ProductPositive
<1>8. ASSUME NEW s \in Tiles(u)
      PROVE  /\ s.l \in 0 .. u.tiles.l - 1 /\ s.l \in Nat
             /\ Minor(u, s) \in 0 .. Minor(u, u.tiles) - 1
             /\ Major(u, s) \in 0 .. Major(u, u.tiles) - 1
             /\ LinearIdx(u, s) \in 0 .. u.batch - 1
  <2>1. /\ s.l \in 0 .. u.tiles.l - 1
        /\ Minor(u, s) \in 0 .. Minor(u, u.tiles) - 1
        /\ Major(u, s) \in 0 .. Major(u, u.tiles) - 1
    BY DEF Tiles, Minor, Major
  <2>2. QED BY <1>6, <2>1, LinearIdxInside
<1>9. TileIndex(u, t) \in 0 .. u.blocks_per_problem - 1
  <2> DEFINE idx == LinearIdx(u, t)
  <2>1. t.l \in Nat /\ t.l < u.tiles.l /\ u.tiles.l \in Nat /\ idx \in 0 .. u.batch - 1
    BY <1>1, <1>2, <1>3, <1>8
  <2> HIDE DEF idx
  <2>2. t.l * u.batch + idx < u.tiles.l * u.batch BY <1>7, <2>1, PlacesAreInside
  <2>3. u.blocks_per_problem = u.tiles.l * u.batch BY <1>1, <1>3, <1>7, <2>1
  <2>4. t.l * u.batch + idx \in Nat /\ u.tiles.l * u.batch \in Nat BY <1>7, <2>1
  <2>5. QED BY <2>2, <2>3, <2>4 DEF TileIndex, idx
<1>10. ASSUME NEW s \in Tiles(u), TileIndex(u, s) = TileIndex(u, t) PROVE s = t
  <2>1. s.l = t.l /\ LinearIdx(u, s) = LinearIdx(u, t)
    <3>1. s.l * u.batch + LinearIdx(u, s) = t.l * u.batch + LinearIdx(u, t)
      BY <1>10 DEF TileIndex
    <3> DEFINE a == s.l
               b == t.l
               i == LinearIdx(u, s)
               j == LinearIdx(u, t)
    <3>2. a \in Int /\ b \in Int /\ i \in 0 .. u.batch - 1 /\ j \in 0 .. u.batch - 1
      BY <1>8
    <3>3. a * u.batch + i = b * u.batch + j BY <3>1
    <3> HIDE DEF a, b, i, j
    <3>4. a = b /\ i = j BY <1>7, <3>2, <3>3, SameParts
    <3>5. QED BY <3>4 DEF a, b, i, j
  <2>2. Minor(u, s) = Minor(u, t) /\ Major(u, s) = Major(u, t)
    BY <1>6, <1>8, <2>1, LinearIdxSeparates
  <2>3. s.m = t.m /\ s.n = t.n BY <2>2 DEF Minor, Major
  <2>4. QED BY <2>1, <2>3 DEF Tiles
<1>11. QED BY <1>9, <1>10

-----------------------------------------------------------------------------
(* 12. Every k tile is computed by one unit.                               *)

(* The units in front of those of whole tiles. *)
SharedUnits(u) == IF u.splits > 1 THEN Units(u) ELSE u.sk_units

LEMMA UnitsType ==
  ASSUME NEW u, FittedParams(u)
  PROVE  /\ Units(u) \in Nat /\ SharedUnits(u) \in Nat /\ SharedUnits(u) <= Units(u)
         /\ u.splits = 1 \/ u.splits > 1
         /\ u.splits = 1 => /\ Units(u) = u.blocks_per_problem - u.sk_tiles + u.sk_units
                            /\ u.sk_units \in Nat /\ u.sk_tiles \in Nat
                            /\ u.sk_tiles <= u.blocks_per_problem
         /\ u.blocks_per_problem \in Nat /\ u.units_per_problem \in Int
<1>1. Size(u) \in Nat \ {0} /\ u.splits \in Nat \ {0} BY SizeIsPositive DEF FittedParams
<1>2. PICK blocks \in Nat \ {0} : u.blocks_per_problem = blocks * Size(u)
  BY DEF FittedParams
<1>3. u.blocks_per_problem \in Nat BY <1>1, <1>2
<1>4. u.splits = 1 \/ u.splits > 1
  <2>1. \A n \in Nat \ {0} : n = 1 \/ n > 1 OBVIOUS
  <2>2. QED BY <1>1, <2>1
<1>5. CASE u.splits > 1
  <2>1. u.units_per_problem = u.blocks_per_problem BY <1>5 DEF FittedParams, FittedSplit
  <2>2. Units(u) \in Nat BY <1>1, <1>3, <2>1 DEF Units
  <2>3. QED BY <1>3, <1>5, <2>1, <2>2 DEF SharedUnits
<1>6. CASE u.splits = 1
  <2>1. FittedStreamK(u) BY <1>6 DEF FittedParams
  <2>2. PICK tiles \in Nat : u.sk_tiles = tiles * Size(u) BY <2>1 DEF FittedStreamK
  <2>3. /\ u.sk_tiles \in Nat /\ u.sk_units \in Nat /\ u.sk_tiles <= u.blocks_per_problem
        /\ u.units_per_problem = u.blocks_per_problem - u.sk_tiles + u.sk_units
    BY <1>1, <2>1, <2>2 DEF FittedStreamK
  <2>4. Units(u) = u.blocks_per_problem - u.sk_tiles + u.sk_units
    BY <1>3, <1>6, <2>3 DEF Units
  <2>5. QED BY <1>3, <1>6, <2>3, <2>4 DEF SharedUnits
<1>7. QED BY <1>4, <1>5, <1>6

LEMMA SharedUnitsAreLines ==
  ASSUME NEW u, FittedParams(u), Shared(u)
  PROVE  SharedUnits(u) = (UnitsPerLine(u) * Lines(u)) * Size(u)
<1>1. Size(u) \in Nat \ {0} /\ u.splits \in Nat \ {0} /\ u.groups \in Nat \ {0}
  BY SizeIsPositive DEF FittedParams
<1>2. u.splits = 1 \/ u.splits > 1 BY UnitsType
<1>3. CASE u.splits > 1
  <2>1. /\ u.units_per_problem = u.clusters_mnl * Size(u) /\ u.clusters_mnl \in Nat
        /\ UnitsPerLine(u) = u.splits /\ Lines(u) = u.clusters_mnl
    BY <1>3 DEF FittedParams, FittedSplit, UnitsPerLine, Lines
  <2>2. (u.clusters_mnl * Size(u)) * u.splits = (u.splits * u.clusters_mnl) * Size(u)
    BY <1>1, <2>1
  <2>3. QED BY <1>3, <2>1, <2>2 DEF SharedUnits, Units
<1>4. CASE u.splits = 1
  <2>1. u.sk_units > 0 /\ FittedStreamK(u) BY <1>4 DEF Shared, FittedParams
  <2>2. PICK v \in Nat \ {0} : /\ u.units_per_group = v * Size(u)
                               /\ u.sk_units = (v * u.groups) * Size(u)
    BY <2>1 DEF FittedStreamK
  <2>3. u.units_per_group \div Size(u) = v
    <3>1. 0 \in 0 .. Size(u) - 1 BY <1>1
    <3>2. (v * Size(u) + 0) \div Size(u) = v /\ v * Size(u) + 0 = v * Size(u)
      BY <1>1, <3>1, DivModUnique
    <3>3. QED BY <2>2, <3>2
  <2>4. UnitsPerLine(u) = v /\ Lines(u) = u.groups BY <1>4, <2>3 DEF UnitsPerLine, Lines
  <2>5. QED BY <1>4, <2>2, <2>4 DEF SharedUnits
<1>5. QED BY <1>2, <1>3, <1>4

(* A unit that is not that of a whole tile is the e-th one of line l, and  *)
(* for each of them there is a unit.                                       *)
LEMMA UnitHasLine ==
  ASSUME NEW u, FittedParams(u), NEW o \in 0 .. Units(u) - 1, ~WholeUnit(u, o)
  PROVE  /\ Shared(u)
         /\ \E e \in 0 .. UnitsPerLine(u) - 1, l \in 0 .. Lines(u) - 1, r \in 0 .. Size(u) - 1 :
              o = (e * Lines(u) + l) * Size(u) + r
<1>1. /\ Units(u) \in Nat /\ SharedUnits(u) \in Nat /\ (u.splits = 1 \/ u.splits > 1)
      /\ u.splits = 1 => u.sk_units \in Nat
  BY UnitsType
<1>2. o \in Nat /\ o < SharedUnits(u) /\ Shared(u)
  BY <1>1 DEF WholeUnit, SharedUnits, Shared
<1> DEFINE s == Size(u)
           n == Lines(u)
           v == UnitsPerLine(u)
           c == o \div s
           e == c \div n
           l == c % n
           r == o % s
<1>3. s \in Nat \ {0} /\ n \in Nat \ {0} /\ v \in Nat \ {0} /\ SharedUnits(u) = (v * n) * s
  BY <1>2, SizeIsPositive, LinesAreCut, SharedUnitsAreLines DEF FittedParams
<1> HIDE DEF s, n, v
<1>4. c \in Nat /\ r \in 0 .. s - 1 /\ o = c * s + r BY <1>2, <1>3, DivMod
<1> HIDE DEF c, r
<1>5. v * n \in Nat /\ c < v * n
  <2>1. v * n \in Nat BY <1>3
  <2>2. c * s + r < (v * n) * s BY <1>2, <1>3, <1>4
  <2> DEFINE y == v * n
  <2> HIDE DEF y
  <2>3. c < y
    <3>1. y \in Nat /\ c * s + r < y * s BY <2>1, <2>2 DEF y
    <3>2. QED BY <1>3, <1>4, <3>1, QuotientsAreInside
  <2>4. QED BY <2>1, <2>3 DEF y
<1>6. e \in Nat /\ l \in 0 .. n - 1 /\ c = e * n + l BY <1>3, <1>4, DivMod
<1> HIDE DEF e, l
<1>7. e < v BY <1>3, <1>5, <1>6, QuotientsAreInside
<1>8. e \in 0 .. v - 1 BY <1>3, <1>6, <1>7
<1>9. o = (e * n + l) * s + r BY <1>4, <1>6
<1>10. QED BY <1>2, <1>4, <1>6, <1>8, <1>9 DEF s, n, v

LEMMA LineHasUnit ==
  ASSUME NEW u, FittedParams(u), Shared(u), NEW e \in 0 .. UnitsPerLine(u) - 1,
         NEW l \in 0 .. Lines(u) - 1, NEW r \in 0 .. Size(u) - 1
  PROVE  LET o == (e * Lines(u) + l) * Size(u) + r
         IN  o \in 0 .. Units(u) - 1 /\ ~WholeUnit(u, o)
<1>1. /\ Units(u) \in Nat /\ SharedUnits(u) \in Nat /\ (u.splits = 1 \/ u.splits > 1)
      /\ SharedUnits(u) <= Units(u)
  BY UnitsType
<1> DEFINE s == Size(u)
           n == Lines(u)
           v == UnitsPerLine(u)
           c == e * n + l
           y == v * n
           o == c * s + r
<1>2. s \in Nat \ {0} /\ n \in Nat \ {0} /\ v \in Nat \ {0} /\ SharedUnits(u) = y * s
  BY SizeIsPositive, LinesAreCut, SharedUnitsAreLines DEF FittedParams
<1>3. e \in 0 .. v - 1 /\ l \in 0 .. n - 1 /\ r \in 0 .. s - 1 OBVIOUS
<1> HIDE DEF s, n, v
<1>4. e \in Nat /\ e < v /\ c \in Nat /\ y \in Nat BY <1>2, <1>3
<1>5. c < y BY <1>2, <1>3, <1>4, PlacesAreInside
<1> HIDE DEF c, y
<1>6. o < y * s /\ o \in Nat BY <1>2, <1>3, <1>4, <1>5, PlacesAreInside
<1> HIDE DEF o
<1>7. o < SharedUnits(u) BY <1>2, <1>6
<1>8. o \in 0 .. Units(u) - 1 /\ ~WholeUnit(u, o)
  <2>1. o < Units(u) BY <1>1, <1>6, <1>7
  <2>2. u.splits = 1 => ~(o >= u.sk_units) BY <1>1, <1>6, <1>7 DEF SharedUnits
  <2>3. QED BY <1>1, <1>6, <2>1, <2>2 DEF WholeUnit
<1>9. QED BY <1>8 DEF o, c, s, n

(* Which tiles of a line the k tiles of a line belong to. *)
GroupOfLine(u, l) == IF u.splits > 1 THEN 0 ELSE l

LEMMA GroupOfUnit ==
  ASSUME NEW u, FittedParams(u), Shared(u), NEW e \in Nat, NEW l \in 0 .. Lines(u) - 1
  PROVE  /\ (e * Lines(u) + l) % u.groups = GroupOfLine(u, l)
         /\ GroupOfLine(u, l) \in 0 .. u.groups - 1
<1>1. u.groups \in Nat \ {0} /\ (u.splits = 1 \/ u.splits > 1)
  BY UnitsType DEF FittedParams
<1>2. Lines(u) \in Nat \ {0} BY LinesAreCut
<1>3. CASE u.splits > 1
  <2>1. u.groups = 1 /\ 0 \in 0 .. 1 - 1 BY <1>3 DEF FittedParams, FittedSplit
  <2> DEFINE c == e * Lines(u) + l
  <2>2. c \in Nat BY <1>2
  <2> HIDE DEF c
  <2>3. c % 1 = 0 BY <2>2
  <2>4. QED BY <1>3, <2>1, <2>3 DEF c, GroupOfLine
<1>4. CASE u.splits = 1
  <2>1. Lines(u) = u.groups /\ GroupOfLine(u, l) = l BY <1>4 DEF Lines, GroupOfLine
  <2>2. l \in 0 .. u.groups - 1 BY <2>1
  <2>3. (e * u.groups + l) % u.groups = l BY <1>1, <2>2, DivModUnique
  <2>4. QED BY <2>1, <2>2, <2>3
<1>5. QED BY <1>1, <1>3, <1>4

LEMMA CoversByPlace ==
  ASSUME NEW u, FittedParams(u), Shared(u), NEW e \in 0 .. UnitsPerLine(u) - 1,
         NEW l \in 0 .. Lines(u) - 1, NEW r \in 0 .. Size(u) - 1,
         NEW border, CutLine(u, l, border), NEW o, o = (e * Lines(u) + l) * Size(u) + r,
         NEW i, NEW k, NEW f
  PROVE  Covers(u, i, k, o, f) <=>
           \E y \in Nat :
             /\ k \in 0 .. u.kt - 1 /\ i = (y * u.groups + GroupOfLine(u, l)) * Size(u) + r
             /\ border[e] <= y * u.kt + k /\ y * u.kt + k < border[e + 1]
             /\ f = y * u.kt + k - border[e] + 1
<1> DEFINE s == Size(u)
           kt == u.kt
           c == e * Lines(u) + l
           from == border[e]
           to == border[e + 1]
           at == from + f - 1
           g == GroupOfLine(u, l)
<1>1. s \in Nat \ {0} /\ Lines(u) \in Nat \ {0} /\ kt \in Nat \ {0} /\ e \in Nat
      /\ UnitsPerLine(u) \in Nat \ {0}
  BY SizeIsPositive, LinesAreCut DEF FittedParams
<1>2. c \in Nat BY <1>1
<1>3. o \in 0 .. Units(u) - 1 /\ ~WholeUnit(u, o) BY LineHasUnit
<1>4. UnitRange(u, o) = [start |-> from, end |-> to] /\ from \in Nat /\ to \in Nat
  <2>1. e \in 0 .. UnitsPerLine(u) /\ e + 1 \in 0 .. UnitsPerLine(u) BY <1>1
  <2>2. QED BY <2>1 DEF CutLine
<1>5. c % u.groups = g BY <1>1, GroupOfUnit
<1> HIDE DEF c, g, from, to
<1>6. o \div s = c /\ o % s = r
  <2>1. o = c * s + r BY DEF c
  <2>2. QED BY <1>1, <1>2, <2>1, DivModUnique
<1>7. Covers(u, i, k, o, f) <=>
        /\ f \in 1 .. to - from /\ k = at % kt
        /\ i = ((at \div kt) * u.groups + g) * s + r
  BY <1>3, <1>4, <1>5, <1>6 DEF Covers
<1> HIDE DEF s, kt
<1>8. ASSUME f \in 1 .. to - from, k = at % kt, i = ((at \div kt) * u.groups + g) * s + r
      PROVE  \E y \in Nat : /\ k \in 0 .. kt - 1 /\ i = (y * u.groups + g) * s + r
                            /\ from <= y * kt + k /\ y * kt + k < to
                            /\ f = y * kt + k - from + 1
  <2>1. at \in Nat /\ from <= at /\ at < to /\ f = at - from + 1 BY <1>4, <1>8
  <2>2. k = at % kt /\ i = ((at \div kt) * u.groups + g) * s + r BY <1>8
  <2> HIDE DEF at
  <2> DEFINE y == at \div kt
  <2>3. y \in Nat /\ k \in 0 .. kt - 1 /\ at = y * kt + k BY <1>1, <2>1, <2>2, DivMod
  <2>4. i = (y * u.groups + g) * s + r BY <2>2
  <2> HIDE DEF y
  <2>5. from <= y * kt + k /\ y * kt + k < to /\ f = y * kt + k - from + 1
    BY <1>1, <1>4, <2>1, <2>3
  <2>6. QED BY <2>3, <2>4, <2>5
<1>9. ASSUME NEW y \in Nat, k \in 0 .. kt - 1, i = (y * u.groups + g) * s + r,
             from <= y * kt + k, y * kt + k < to, f = y * kt + k - from + 1
      PROVE  f \in 1 .. to - from /\ k = at % kt /\ i = ((at \div kt) * u.groups + g) * s + r
  <2>1. y * kt \in Nat /\ k \in Nat BY <1>1, <1>9
  <2>2. f \in 1 .. to - from /\ at = y * kt + k BY <1>4, <1>9, <2>1
  <2> HIDE DEF at
  <2>3. at \div kt = y /\ at % kt = k BY <1>1, <1>9, <2>2, DivModUnique
  <2>4. QED BY <1>9, <2>2, <2>3
<1>10. QED BY <1>7, <1>8, <1>9 DEF s, kt, g, from, to

(* A k tile that a unit shares out is within the line of the unit, and its *)
(* output tile has a lock.                                                 *)
LEMMA PlaceInLine ==
  ASSUME NEW u, FittedParams(u), Shared(u), NEW l \in 0 .. Lines(u) - 1, NEW y \in Nat,
         NEW k \in 0 .. u.kt - 1, LineStart(u, l) <= y * u.kt + k, y * u.kt + k < LineEnd(u, l)
  PROVE  /\ u.splits > 1 => y = l
         /\ y < TilesOfLine(u, l)
         /\ \A r \in 0 .. Size(u) - 1 :
              (y * u.groups + GroupOfLine(u, l)) * Size(u) + r \in 0 .. LockBase(u) - 1
<1>1. /\ u.kt \in Nat \ {0} /\ u.groups \in Nat \ {0} /\ Size(u) \in Nat \ {0}
      /\ (u.splits = 1 \/ u.splits > 1) /\ Lines(u) \in Nat \ {0} /\ l \in Nat
  BY SizeIsPositive, UnitsType, LinesAreCut DEF FittedParams
<1>2. l % u.groups = GroupOfLine(u, l) /\ GroupOfLine(u, l) \in 0 .. u.groups - 1
  <2>1. 0 \in Nat /\ 0 * Lines(u) + l = l BY <1>1
  <2>2. (0 * Lines(u) + l) % u.groups = GroupOfLine(u, l)
        /\ GroupOfLine(u, l) \in 0 .. u.groups - 1
    BY GroupOfUnit
  <2>3. QED BY <2>1, <2>2
<1> DEFINE g == GroupOfLine(u, l)
           tiles == TilesOfLine(u, l)
           s == Size(u)
<1>3. tiles \in Nat BY <1>1, LineType
<1>4. PICK all \in Nat : /\ LockBase(u) = all * s
                         /\ \A tile \in Nat : tile < tiles => tile * u.groups + g < all
  BY <1>1, <1>2, LineType
<1>5. (u.splits > 1 => y = l) /\ y < tiles
  <2>1. CASE u.splits > 1
    <3>1. l * u.kt <= y * u.kt + k /\ y * u.kt + k < l * u.kt + u.kt
      BY <2>1 DEF LineStart, LineEnd
    <3>2. (l + 1) * u.kt = l * u.kt + u.kt /\ l + 1 \in Nat BY <1>1
    <3>3. y < l + 1
      <4> DEFINE n == l + 1
      <4>1. y * u.kt + k < n * u.kt /\ n \in Nat BY <3>1, <3>2
      <4> HIDE DEF n
      <4>2. y < n BY <1>1, <4>1, QuotientsAreInside
      <4>3. QED BY <4>2 DEF n
    <3>4. ~(y < l)
      <4>1. y < l => y * u.kt + k < l * u.kt BY <1>1, PlacesAreInside
      <4>2. l * u.kt \in Nat /\ y * u.kt + k \in Nat BY <1>1
      <4>3. QED BY <3>1, <4>1, <4>2
    <3>5. y = l BY <1>1, <3>3, <3>4
    <3>6. l < u.clusters_mnl /\ tiles = u.clusters_mnl
      <4>1. Lines(u) = u.clusters_mnl /\ tiles = u.clusters_mnl
        BY <2>1 DEF Lines, TilesOfLine
      <4>2. QED BY <1>1, <4>1
    <3>7. QED BY <3>5, <3>6
  <2>2. CASE u.splits = 1
    <3>1. y * u.kt + k < tiles * u.kt BY <2>2 DEF LineEnd
    <3> HIDE DEF tiles
    <3>2. y < tiles BY <1>1, <1>3, <3>1, QuotientsAreInside
    <3>3. QED BY <2>2, <3>2
  <2>3. QED BY <1>1, <2>1, <2>2
<1>6. ASSUME NEW r \in 0 .. s - 1
      PROVE  (y * u.groups + g) * s + r \in 0 .. LockBase(u) - 1
  <2> DEFINE x == y * u.groups + g
  <2>1. x \in Nat /\ x < all BY <1>1, <1>2, <1>4, <1>5
  <2> HIDE DEF x, s
  <2>2. s \in Nat \ {0} BY <1>1 DEF s
  <2>3. x * s + r < all * s BY <2>1, <2>2, PlacesAreInside
  <2>4. x * s + r \in Nat /\ all * s \in Nat BY <2>1, <2>2
  <2>5. x * s + r \in 0 .. LockBase(u) - 1 BY <1>4, <2>3, <2>4
  <2>6. QED BY <2>5 DEF x
<1>7. QED BY <1>5, <1>6

(* Where a k tile of a shared unit is: e-th unit of line l, place y of the *)
(* line, r-th block of the cluster.                                        *)
At(u, i, k, o, f, border, e, l, r, y) ==
  /\ e \in 0 .. UnitsPerLine(u) - 1 /\ l \in 0 .. Lines(u) - 1 /\ r \in 0 .. Size(u) - 1
  /\ y \in Nat /\ k \in 0 .. u.kt - 1
  /\ CutLine(u, l, border)
  /\ o = (e * Lines(u) + l) * Size(u) + r
  /\ i = (y * u.groups + GroupOfLine(u, l)) * Size(u) + r
  /\ border[e] <= y * u.kt + k /\ y * u.kt + k < border[e + 1]
  /\ f = y * u.kt + k - border[e] + 1

LEMMA CoversIsAt ==
  ASSUME NEW u, FittedParams(u), NEW i, NEW k, NEW o, NEW f, Covers(u, i, k, o, f),
         ~WholeUnit(u, o)
  PROVE  Shared(u) /\ \E border, e, l, r, y : At(u, i, k, o, f, border, e, l, r, y)
<1>1. o \in 0 .. Units(u) - 1 BY DEF Covers
<1>2. Shared(u) BY <1>1, UnitHasLine
<1>3. PICK e \in 0 .. UnitsPerLine(u) - 1, l \in 0 .. Lines(u) - 1, r \in 0 .. Size(u) - 1 :
        o = (e * Lines(u) + l) * Size(u) + r
  BY <1>1, UnitHasLine
<1>4. PICK border : CutLine(u, l, border) BY <1>2, LinesAreCut
<1>5. PICK y \in Nat :
        /\ k \in 0 .. u.kt - 1 /\ i = (y * u.groups + GroupOfLine(u, l)) * Size(u) + r
        /\ border[e] <= y * u.kt + k /\ y * u.kt + k < border[e + 1]
        /\ f = y * u.kt + k - border[e] + 1
  BY <1>2, <1>3, <1>4, CoversByPlace
<1>6. At(u, i, k, o, f, border, e, l, r, y) BY <1>3, <1>4, <1>5 DEF At
<1>7. QED BY <1>2, <1>6

LEMMA AtIsInLine ==
  ASSUME NEW u, FittedParams(u), Shared(u), NEW i, NEW k, NEW o, NEW f,
         NEW border, NEW e, NEW l, NEW r, NEW y, At(u, i, k, o, f, border, e, l, r, y)
  PROVE  /\ u.splits > 1 => y = l
         /\ i \in 0 .. LockBase(u) - 1
<1> DEFINE v == UnitsPerLine(u)
           at == y * u.kt + k
<1>1. v \in Nat \ {0} /\ e \in 0 .. v - 1 /\ u.kt \in Nat \ {0}
  BY LinesAreCut DEF At, FittedParams
<1>2. e \in 0 .. v /\ e + 1 \in 0 .. v /\ 0 \in 0 .. v /\ v \in 0 .. v /\ 0 <= e /\ e + 1 <= v
  BY <1>1
<1>3. /\ border \in [0 .. v -> Nat]
      /\ border[0] = LineStart(u, l) /\ border[v] = LineEnd(u, l)
      /\ \A d, c \in 0 .. v : d <= c => border[d] <= border[c]
  BY DEF At, CutLine
<1>4. border[0] <= border[e] /\ border[e + 1] <= border[v] BY <1>2, <1>3
<1>5. border[e] <= at /\ at < border[e + 1] /\ at \in Nat BY <1>1 DEF At
<1>6. border[0] \in Nat /\ border[v] \in Nat /\ border[e] \in Nat /\ border[e + 1] \in Nat
  BY <1>2, <1>3
<1>7. border[0] <= at /\ at < border[v]
  <2> HIDE DEF at
  <2>1. QED BY <1>4, <1>5, <1>6
<1>8. LineStart(u, l) <= y * u.kt + k /\ y * u.kt + k < LineEnd(u, l) BY <1>3, <1>7
<1>9. l \in 0 .. Lines(u) - 1 /\ y \in Nat /\ k \in 0 .. u.kt - 1 /\ r \in 0 .. Size(u) - 1
      /\ i = (y * u.groups + GroupOfLine(u, l)) * Size(u) + r
  BY DEF At
<1>10. QED BY <1>8, <1>9, PlaceInLine

(* No k tile of an output tile is computed twice ... *)
LEMMA CoversOnce ==
  ASSUME NEW u, FittedParams(u), NEW i, NEW k, NEW o, NEW f, NEW o2, NEW f2,
         Covers(u, i, k, o, f), Covers(u, i, k, o2, f2)
  PROVE  o = o2 /\ f = f2
<1>1. /\ Units(u) \in Nat /\ (u.splits = 1 \/ u.splits > 1)
      /\ u.splits = 1 => u.sk_units \in Nat /\ u.sk_tiles \in Nat
      /\ o \in 0 .. Units(u) - 1 /\ o2 \in 0 .. Units(u) - 1
  BY UnitsType DEF Covers
<1>2. ASSUME NEW a \in 0 .. Units(u) - 1, NEW b, Covers(u, i, k, a, b), WholeUnit(u, a)
      PROVE  k \in 0 .. u.kt - 1 /\ b = k + 1 /\ i = a - u.sk_units + u.sk_tiles /\ i >= LockBase(u)
  <2>1. k \in 0 .. u.kt - 1 /\ b = k + 1 /\ i = a - u.sk_units + u.sk_tiles
    BY <1>2 DEF Covers
  <2>2. u.splits = 1 /\ a >= u.sk_units /\ LockBase(u) = u.sk_tiles
    BY <1>2 DEF WholeUnit, LockBase
  <2>3. QED BY <1>1, <2>1, <2>2
<1>3. ASSUME NEW a \in 0 .. Units(u) - 1, NEW b, Covers(u, i, k, a, b), ~WholeUnit(u, a)
      PROVE  i \in 0 .. LockBase(u) - 1
  <2>1. Shared(u) BY <1>3, CoversIsAt
  <2>2. PICK border, e, l, r, y : At(u, i, k, a, b, border, e, l, r, y)
    BY <1>3, CoversIsAt
  <2>3. QED BY <2>1, <2>2, AtIsInLine
<1>4. LockBase(u) \in Int
  <2>1. PICK all \in Nat : LockBase(u) = all * Size(u)
    <3>1. 0 \in Nat OBVIOUS
    <3>2. QED BY <3>1, LineType
  <2>2. Size(u) \in Nat BY SizeIsPositive DEF FittedParams
  <2>3. QED BY <2>1, <2>2
<1>5. CASE WholeUnit(u, o) /\ WholeUnit(u, o2)
  <2>1. f = k + 1 /\ i = o - u.sk_units + u.sk_tiles BY <1>1, <1>2, <1>5
  <2>2. f2 = k + 1 /\ i = o2 - u.sk_units + u.sk_tiles BY <1>1, <1>2, <1>5
  <2>3. u.splits = 1 BY <1>5 DEF WholeUnit
  <2>4. QED BY <1>1, <2>1, <2>2, <2>3
<1>6. CASE WholeUnit(u, o) /\ ~WholeUnit(u, o2)
  <2>1. i >= LockBase(u) BY <1>1, <1>2, <1>6
  <2>2. i \in 0 .. LockBase(u) - 1 BY <1>1, <1>3, <1>6
  <2>3. QED BY <1>4, <2>1, <2>2
<1>7. CASE ~WholeUnit(u, o) /\ WholeUnit(u, o2)
  <2>1. i >= LockBase(u) BY <1>1, <1>2, <1>7
  <2>2. i \in 0 .. LockBase(u) - 1 BY <1>1, <1>3, <1>7
  <2>3. QED BY <1>4, <2>1, <2>2
<1>8. CASE ~WholeUnit(u, o) /\ ~WholeUnit(u, o2)
  <2>1. Shared(u) BY <1>8, CoversIsAt
  <2>2. PICK border, e, l, r, y : At(u, i, k, o, f, border, e, l, r, y)
    BY <1>8, CoversIsAt
  <2>3. PICK border2, e2, l2, r2, y2 : At(u, i, k, o2, f2, border2, e2, l2, r2, y2)
    BY <1>8, CoversIsAt
  <2> DEFINE s == Size(u)
             g == GroupOfLine(u, l)
             g2 == GroupOfLine(u, l2)
             x == y * u.groups + g
             x2 == y2 * u.groups + g2
  <2>4. /\ s \in Nat \ {0} /\ u.groups \in Nat \ {0} /\ y \in Int /\ y2 \in Int
        /\ r \in 0 .. s - 1 /\ r2 \in 0 .. s - 1 /\ x * s + r = x2 * s + r2
        /\ l \in 0 .. Lines(u) - 1 /\ l2 \in 0 .. Lines(u) - 1 /\ u.kt \in Nat
    BY <2>2, <2>3, SizeIsPositive DEF At, FittedParams
  <2>5. g \in 0 .. u.groups - 1 /\ g2 \in 0 .. u.groups - 1
    <3>1. 0 \in Nat OBVIOUS
    <3>2. QED BY <2>1, <2>4, <3>1, GroupOfUnit
  <2> HIDE DEF g, g2, s
  <2>6. x \in Int /\ x2 \in Int BY <2>4, <2>5
  <2>7. x = x2 => y = y2 /\ g = g2
    <3> SUFFICES ASSUME x = x2 PROVE y = y2 /\ g = g2
      OBVIOUS
    <3> DEFINE d == u.groups
    <3>1. d \in Nat \ {0} /\ g \in 0 .. d - 1 /\ g2 \in 0 .. d - 1 /\ y * d + g = y2 * d + g2
      BY <2>4, <2>5
    <3> HIDE DEF d, x, x2
    <3>2. QED BY <2>4, <3>1, SameParts
  <2> HIDE DEF x, x2
  <2>8. x = x2 /\ r = r2 BY <2>4, <2>6, SameParts
  <2>9. l = l2
    <3>1. CASE u.splits > 1 BY <2>1, <2>2, <2>3, <2>7, <2>8, <3>1, AtIsInLine
    <3>2. CASE u.splits = 1 BY <2>7, <2>8, <3>2 DEF g, g2, GroupOfLine
    <3>3. QED BY <1>1, <3>1, <3>2
  <2> DEFINE v == UnitsPerLine(u)
             at == y * u.kt + k
  <2>10. v \in Nat \ {0} /\ e \in 0 .. v - 1 /\ e2 \in 0 .. v - 1
         /\ CutLine(u, l, border) /\ CutLine(u, l, border2) /\ at \in Int
    BY <2>1, <2>2, <2>3, <2>4, <2>9, LinesAreCut DEF At
  <2>11. border \in [0 .. v -> Nat] /\ \A d, c \in 0 .. v : d <= c => border[d] <= border[c]
    BY <2>10 DEF CutLine
  <2>12. border[e] <= at /\ at < border[e + 1] /\ f = at - border[e] + 1
    <3>1. /\ border[e] <= y * u.kt + k /\ y * u.kt + k < border[e + 1]
          /\ f = y * u.kt + k - border[e] + 1
      BY <2>2 DEF At
    <3>2. border[e] \in Int /\ k \in Int BY <2>2, <2>10, <2>11 DEF At
    <3>3. QED BY <2>4, <3>1, <3>2
  <2>13. border2[e2] <= at /\ at < border2[e2 + 1] /\ f2 = at - border2[e2] + 1
    <3>1. /\ border2[e2] <= y2 * u.kt + k /\ y2 * u.kt + k < border2[e2 + 1]
          /\ f2 = y2 * u.kt + k - border2[e2] + 1
      BY <2>3 DEF At
    <3>2. y = y2 BY <2>7, <2>8
    <3>3. border2 \in [0 .. v -> Nat] /\ k \in Int BY <2>2, <2>10 DEF CutLine, At
    <3>4. border2[e2] \in Int BY <2>10, <3>3
    <3>5. QED BY <2>4, <3>1, <3>2, <3>3, <3>4
  <2>14. border[e2] = border2[e2] /\ border[e2 + 1] = border2[e2 + 1]
    <3>1. 0 \in 0 .. Size(u) - 1 BY <2>4 DEF s
    <3>2. UnitRange(u, (e2 * Lines(u) + l) * Size(u) + 0) = [start |-> border[e2], end |-> border[e2 + 1]]
      BY <2>10, <3>1 DEF CutLine
    <3>3. UnitRange(u, (e2 * Lines(u) + l) * Size(u) + 0) = [start |-> border2[e2], end |-> border2[e2 + 1]]
      BY <2>10, <3>1 DEF CutLine
    <3> DEFINE range == UnitRange(u, (e2 * Lines(u) + l) * Size(u) + 0)
    <3>4. /\ range.start = border[e2] /\ range.end = border[e2 + 1] BY <3>2
    <3>5. /\ range.start = border2[e2] /\ range.end = border2[e2 + 1] BY <3>3
    <3>6. QED BY <3>4, <3>5
  <2> HIDE DEF v, at
  <2>15. e = e2 BY <2>10, <2>11, <2>12, <2>13, <2>14, UnitsDoNotOverlap
  <2>16. f = f2 BY <2>12, <2>13, <2>14, <2>15
  <2>17. o = o2 BY <2>2, <2>3, <2>8, <2>9, <2>15 DEF At
  <2>18. QED BY <2>16, <2>17
<1>9. QED BY <1>5, <1>6, <1>7, <1>8

(* ... and each is computed by some unit. *)
LEMMA LineHasPlace ==
  ASSUME NEW u, FittedParams(u), u.splits = 1, NEW tiles \in Nat, u.sk_tiles = tiles * Size(u),
         u.big_groups = tiles % u.groups, NEW x \in Nat, x < tiles
  PROVE  x \div u.groups < TilesOfLine(u, x % u.groups)
<1> DEFINE d == u.groups
           y == x \div d
           g == x % d
           a == tiles \div d
           b == tiles % d
<1>1. d \in Nat \ {0} /\ Size(u) \in Nat \ {0} BY SizeIsPositive DEF FittedParams
<1>2. TilesOfLine(u, g) = (u.sk_tiles \div Size(u)) \div d + IF g % d < b THEN 1 ELSE 0
  BY DEF TilesOfLine
<1>3. u.sk_tiles \div Size(u) = tiles
  <2>1. 0 \in 0 .. Size(u) - 1 BY <1>1
  <2>2. (tiles * Size(u) + 0) \div Size(u) = tiles BY <1>1, <2>1, DivModUnique
  <2>3. tiles * Size(u) + 0 = tiles * Size(u) BY <1>1
  <2>4. QED BY <2>2, <2>3
<1> HIDE DEF d
<1>4. y \in Nat /\ g \in 0 .. d - 1 /\ x = y * d + g BY <1>1, DivMod
<1>5. a \in Nat /\ b \in 0 .. d - 1 /\ tiles = a * d + b BY <1>1, DivMod
<1>6. TilesOfLine(u, g) = a + IF g % d < b THEN 1 ELSE 0 BY <1>2, <1>3
<1> HIDE DEF y, g, a, b
<1>7. g % d = g
  <2>1. (0 * d + g) % d = g BY <1>1, <1>4, DivModUnique
  <2>2. 0 * d + g = g BY <1>1, <1>4
  <2>3. QED BY <2>1, <2>2
<1>8. y < a + 1
  <2>1. a + 1 \in Nat /\ (a + 1) * d = a * d + d BY <1>1, <1>5
  <2>2. a * d \in Nat /\ y * d \in Nat BY <1>1, <1>4, <1>5
  <2>3. y * d + g < (a + 1) * d BY <1>1, <1>4, <1>5, <2>1, <2>2
  <2> DEFINE n == a + 1
  <2>4. n \in Nat /\ y * d + g < n * d BY <2>1, <2>3
  <2> HIDE DEF n
  <2>5. y < n BY <1>1, <1>4, <2>4, QuotientsAreInside
  <2>6. QED BY <2>5 DEF n
<1>9. y = a => g < b
  <2> SUFFICES ASSUME y = a PROVE g < b
    OBVIOUS
  <2>1. a * d \in Nat /\ a * d + g < a * d + b BY <1>1, <1>4, <1>5
  <2>2. QED BY <1>1, <1>4, <1>5, <2>1
<1>10. y < TilesOfLine(u, g) BY <1>1, <1>4, <1>5, <1>6, <1>7, <1>8, <1>9
<1>11. QED BY <1>10 DEF y, g, d

LEMMA UnitCovers ==
  ASSUME NEW u, FittedParams(u), u.splits = 1 /\ u.sk_tiles > 0 => u.sk_units > 0,
         NEW i \in 0 .. u.blocks_per_problem - 1, NEW k \in 0 .. u.kt - 1
  PROVE  \E o \in 0 .. Units(u) - 1, f \in Nat : Covers(u, i, k, o, f)
<1>1. /\ u.kt \in Nat \ {0} /\ u.groups \in Nat \ {0} /\ Size(u) \in Nat \ {0}
      /\ (u.splits = 1 \/ u.splits > 1) /\ u.blocks_per_problem \in Nat /\ i \in Nat /\ k \in Nat
      /\ Units(u) \in Nat
      /\ u.splits = 1 => /\ Units(u) = u.blocks_per_problem - u.sk_tiles + u.sk_units
                         /\ u.sk_units \in Nat /\ u.sk_tiles \in Nat
                         /\ u.sk_tiles <= u.blocks_per_problem
  BY SizeIsPositive, UnitsType DEF FittedParams
<1>2. CASE u.splits = 1 /\ i >= u.sk_tiles
  <2> DEFINE o == i - u.sk_tiles + u.sk_units
  <2>1. o \in 0 .. Units(u) - 1 /\ o >= u.sk_units /\ i = o - u.sk_units + u.sk_tiles
    BY <1>1, <1>2
  <2> HIDE DEF o
  <2>2. Covers(u, i, k, o, k + 1) /\ k + 1 \in Nat
    BY <1>1, <1>2, <2>1 DEF Covers, WholeUnit
  <2>3. QED BY <2>1, <2>2
<1>3. CASE u.splits > 1 \/ (u.splits = 1 /\ i < u.sk_tiles)
  <2>1. Shared(u) BY <1>1, <1>3 DEF Shared
  <2> DEFINE s == Size(u)
             x == i \div s
             r == i % s
             y == x \div u.groups
             g == x % u.groups
             l == IF u.splits > 1 THEN x ELSE g
             at == y * u.kt + k
  <2>2. x \in Nat /\ r \in 0 .. s - 1 /\ i = x * s + r BY <1>1, DivMod
  <2>3. s \in Nat \ {0} BY <1>1
  <2> HIDE DEF x, r, s
  <2>4. y \in Nat /\ g \in 0 .. u.groups - 1 /\ x = y * u.groups + g
    BY <1>1, <2>2, DivMod
  <2>5. g = GroupOfLine(u, l) /\ l \in 0 .. Lines(u) - 1
        /\ LineStart(u, l) <= at /\ at < LineEnd(u, l)
    <3>1. CASE u.splits > 1
      <4>1. /\ u.groups = 1 /\ u.clusters_mnl \in Nat \ {0}
            /\ u.blocks_per_problem = u.clusters_mnl * s
        BY <3>1 DEF FittedParams, FittedSplit, s
      <4>2. g = 0 /\ y = x BY <2>2, <2>4, <4>1
      <4>3. x < u.clusters_mnl
        <5>1. x * s + r < u.clusters_mnl * s BY <1>1, <2>2, <4>1
        <5>2. QED BY <2>2, <2>3, <4>1, <5>1, QuotientsAreInside
      <4>4. Lines(u) = u.clusters_mnl /\ LineStart(u, l) = x * u.kt /\ LineEnd(u, l) = x * u.kt + u.kt
            /\ GroupOfLine(u, l) = 0 /\ l = x
        BY <3>1 DEF Lines, LineStart, LineEnd, GroupOfLine
      <4>5. x * u.kt \in Nat /\ at = x * u.kt + k BY <1>1, <2>2, <4>2
      <4> HIDE DEF g, y, l, at
      <4>6. QED BY <1>1, <2>2, <4>1, <4>2, <4>3, <4>4, <4>5
    <3>2. CASE u.splits = 1 /\ i < u.sk_tiles
      <4>1. FittedStreamK(u) BY <3>2 DEF FittedParams
      <4>2. PICK tiles \in Nat : u.sk_tiles = tiles * Size(u) /\ u.big_groups = tiles % u.groups
        BY <4>1 DEF FittedStreamK
      <4>3. x < tiles
        <5>1. x * s + r < tiles * s BY <2>2, <3>2, <4>2 DEF s
        <5>2. QED BY <2>2, <2>3, <5>1, QuotientsAreInside
      <4>4. Lines(u) = u.groups /\ LineStart(u, l) = 0 /\ LineEnd(u, l) = TilesOfLine(u, g) * u.kt
            /\ GroupOfLine(u, l) = g /\ l = g
        BY <3>2 DEF Lines, LineStart, LineEnd, GroupOfLine
      <4>5. y < TilesOfLine(u, g) BY <2>2, <3>2, <4>2, <4>3, LineHasPlace
      <4>6. TilesOfLine(u, g) \in Nat
        <5>1. g \in Nat BY <1>1, <2>4
        <5> HIDE DEF g
        <5>2. QED BY <5>1, LineType
      <4> DEFINE n == TilesOfLine(u, g)
      <4>7. n \in Nat /\ y < n BY <4>5, <4>6
      <4> HIDE DEF n, g, y
      <4>8. at < n * u.kt /\ at \in Nat
        <5>1. y * u.kt + k < n * u.kt BY <1>1, <2>4, <4>7, PlacesAreInside
        <5>2. y * u.kt \in Nat BY <1>1, <2>4
        <5>3. QED BY <1>1, <5>1, <5>2
      <4> HIDE DEF l, at
      <4>9. QED BY <2>4, <4>4, <4>8 DEF n
    <3>3. QED BY <1>3, <3>1, <3>2
  <2> HIDE DEF y, g, l
  <2>6. PICK border : CutLine(u, l, border) BY <2>1, <2>5, LinesAreCut
  <2> DEFINE v == UnitsPerLine(u)
  <2>7. v \in Nat \ {0} /\ border \in [0 .. v -> Nat] /\ at \in Nat
        /\ border[0] <= at /\ at < border[v]
    <3>1. /\ v \in Nat \ {0} /\ border \in [0 .. v -> Nat]
          /\ border[0] = LineStart(u, l) /\ border[v] = LineEnd(u, l)
      BY <2>1, <2>6, LinesAreCut DEF CutLine
    <3>2. at \in Nat BY <1>1, <2>4
    <3>3. QED BY <2>5, <3>1, <3>2
  <2>8. PICK e \in 0 .. v - 1 : border[e] <= at /\ at < border[e + 1]
    <3> HIDE DEF v, at
    <3>1. at \in Int BY <2>7
    <3>2. QED BY <2>7, <3>1, UnitsFillTheLine
  <2> DEFINE o == (e * Lines(u) + l) * Size(u) + r
             f == y * u.kt + k - border[e] + 1
  <2>9. r \in 0 .. Size(u) - 1 /\ i = (y * u.groups + GroupOfLine(u, l)) * Size(u) + r
    BY <2>2, <2>4, <2>5 DEF s
  <2>10. o \in 0 .. Units(u) - 1 BY <2>1, <2>5, <2>8, <2>9, LineHasUnit
  <2>11. f \in Nat
    <3>1. border[e] \in Nat BY <2>7, <2>8
    <3>2. y * u.kt \in Nat BY <1>1, <2>4
    <3>3. QED BY <1>1, <2>8, <3>1, <3>2
  <2>12. Covers(u, i, k, o, f)
    <3>1. \E z \in Nat :
             /\ k \in 0 .. u.kt - 1 /\ i = (z * u.groups + GroupOfLine(u, l)) * Size(u) + r
             /\ border[e] <= z * u.kt + k /\ z * u.kt + k < border[e + 1]
             /\ f = z * u.kt + k - border[e] + 1
      BY <2>4, <2>8, <2>9
    <3> HIDE DEF o, f
    <3>2. o = (e * Lines(u) + l) * Size(u) + r BY DEF o
    <3>3. QED BY <2>1, <2>5, <2>6, <2>8, <2>9, <3>1, <3>2, CoversByPlace
  <2> HIDE DEF o, f
  <2>13. QED BY <2>10, <2>11, <2>12
<1>4. QED BY <1>1, <1>2, <1>3

(* What a launched kernel's units compute: each k tile of each output tile *)
(* is one k tile of one unit (set_params, get_current_work and the two     *)
(* schedulers' division of the k tiles).                                   *)
THEOREM UnitsPartition ==
  ASSUME NEW p \in Problems,
         LET g == GridShape(p, TiledCtaShape(p), p.scheduler = "static", p.scheduler = "stream-K")
         IN  g.x % p.cm = 0 /\ g.y % p.cn = 0,
         NEW i \in 0 .. Params(p).blocks_per_problem - 1, NEW k \in 0 .. Params(p).kt - 1
  PROVE  \E o \in 0 .. Units(Params(p)) - 1, f \in Nat :
           /\ Covers(Params(p), i, k, o, f)
           /\ \A x, y : Covers(Params(p), i, k, x, y) => x = o /\ y = f
<1> DEFINE u == Params(p)
           g == GridShape(p, TiledCtaShape(p), p.scheduler = "static", p.scheduler = "stream-K")
<1>1. FittedParams(u) /\ UsedUnits(u, GridSize(g)) BY LaunchedFits, LaunchedUnits
<1> HIDE DEF u, g
<1>2. i \in 0 .. u.blocks_per_problem - 1 /\ k \in 0 .. u.kt - 1 BY DEF u
<1>3. PICK o \in 0 .. Units(u) - 1, f \in Nat : Covers(u, i, k, o, f)
  BY <1>1, <1>2, UnitCovers DEF UsedUnits
<1>4. \A x, y : Covers(u, i, k, x, y) => x = o /\ y = f BY <1>1, <1>3, CoversOnce
<1>5. QED BY <1>3, <1>4 DEF u

-----------------------------------------------------------------------------
(* 13. What the works of a unit cover.                                     *)

(* The work w of unit o is on the last count k tiles of those that remain. *)
WorkCovers(u, o, w) ==
  /\ o \in 0 .. Units(u) - 1 /\ TileOf(w) \in Tiles(u)
  /\ w.k \in Nat /\ w.count \in Nat \ {0} /\ w.k + w.count <= u.kt
  /\ w.remaining \in Nat /\ w.count <= w.remaining
  /\ \A n \in 0 .. w.count - 1 :
       Covers(u, TileIndex(u, TileOf(w)), w.k + n, o, w.remaining - w.count + 1 + n)

(* What a block that has fetched unit idx works on. *)
HasWork(u, idx, start, w) ==
  IF idx >= Units(u) THEN w = InvalidWork
  ELSE IF WholeUnit(u, idx)
  THEN w = WholeTile(u, idx - u.sk_units + u.sk_tiles, BlockIdInCluster(u, idx))
  ELSE /\ start = UnitRange(u, idx).start
       /\ w.remaining \in Int
       /\ w.remaining <= UnitRange(u, idx).end - UnitRange(u, idx).start
       /\ w.remaining > 0 \/ w.remaining = UnitRange(u, idx).end - UnitRange(u, idx).start
       /\ w = LastTile(u, idx, start, w.remaining)

(* The place of the tile in the order of indices. *)
LEMMA PlacedIndex ==
  ASSUME NEW p \in Problems, NEW u, Same(u, UnderlyingParams(p)), FittedParams(u),
         NEW x \in Nat, NEW r \in 0 .. Size(u) - 1, NEW lo \in 0 .. u.minor - 1,
         x * Size(u) + r < u.blocks_per_problem, NEW k, NEW count, NEW remaining
  PROVE  LET w == WorkAt(u, x, lo, r, k, count, remaining)
         IN  TileOf(w) \in Tiles(u) /\ TileIndex(u, TileOf(w)) = x * Size(u) + r
<1> DEFINE cta == BlockIdInCluster(u, r)
           t == TileAt(u, x * Size(u) + Major(u, cta) * u.minor + lo, cta)
           w == WorkOn(t, k, count, remaining)
<1>1. /\ t \in [m : 0 .. u.tiles.m - 1, n : 0 .. u.tiles.n - 1, l : 0 .. u.tiles.l - 1]
      /\ t.l * u.batch + LinearIdx(u, t) = x * Size(u) + r
  BY TileOnItsPlace
<1>2. t = [m |-> t.m, n |-> t.n, l |-> t.l] BY DEF TileAt
<1> HIDE DEF t
<1>3. TileOf(w) = t BY <1>2 DEF TileOf, WorkOn
<1>4. TileOf(w) \in Tiles(u) /\ TileIndex(u, TileOf(w)) = x * Size(u) + r
  BY <1>1, <1>3 DEF Tiles, TileIndex
<1>5. QED BY <1>4 DEF w, t, WorkAt

(* The k tiles of a unit that shares its tiles lie within its line. *)
LEMMA RangeOfUnit ==
  ASSUME NEW u, FittedParams(u), NEW o \in 0 .. Units(u) - 1, ~WholeUnit(u, o)
  PROVE  LET range == UnitRange(u, o)
         IN  /\ range.start \in Nat /\ range.end \in Nat
             /\ range.end <= TilesOfLine(u, o \div Size(u)) * u.kt
<1> DEFINE c == o \div Size(u)
           r == o % Size(u)
<1>1. Size(u) \in Nat \ {0} /\ Units(u) \in Nat /\ o \in Nat
  BY SizeIsPositive, UnitsType DEF FittedParams
<1>2. c \in Nat /\ r \in 0 .. Size(u) - 1 /\ c * Size(u) + r = o BY <1>1, DivMod
<1> HIDE DEF c, r
<1>3. c * Size(u) + r < u.units_per_problem * u.splits BY <1>1, <1>2 DEF Units
<1>4. ~(u.splits = 1 /\ c * Size(u) + r >= u.sk_units) BY <1>2 DEF WholeUnit
<1>5. LET range == UnitRange(u, c * Size(u) + r)
      IN  range.start \in Nat /\ range.end \in Nat /\ range.end <= TilesOfLine(u, c) * u.kt
  BY <1>2, <1>3, <1>4, RangeFits
<1>6. QED BY <1>2, <1>5 DEF c

LEMMA LastTileCovers ==
  ASSUME NEW p \in Problems, NEW u, Same(u, UnderlyingParams(p)), FittedParams(u),
         NEW o \in 0 .. Units(u) - 1, ~WholeUnit(u, o), NEW remaining \in Nat \ {0},
         remaining <= UnitRange(u, o).end - UnitRange(u, o).start
  PROVE  LET w == LastTile(u, o, UnitRange(u, o).start, remaining)
         IN  WorkCovers(u, o, w) /\ w.remaining = remaining
<1> DEFINE s == Size(u)
           c == o \div s
           r == o % s
           start == UnitRange(u, o).start
           end == UnitRange(u, o).end
           w == LastTile(u, o, start, remaining)
<1>1. /\ u.kt \in Nat \ {0} /\ s \in Nat \ {0} /\ u.groups \in Nat \ {0}
      /\ u.minor \in Nat \ {0} /\ Units(u) \in Nat /\ o \in Nat
  BY SizeIsPositive, UnitsType DEF FittedParams, Divisors
<1>2. c \in Nat /\ r \in 0 .. s - 1 /\ o = c * s + r BY <1>1, DivMod
<1>3. start \in Nat /\ end \in Nat /\ end <= TilesOfLine(u, c) * u.kt BY RangeOfUnit
<1>4. remaining <= end - start OBVIOUS
<1>5. o \div s = c /\ o % s = r OBVIOUS
<1> HIDE DEF start, end, c, r
<1>6. PICK tile \in Nat, k \in Nat, count \in 1 .. remaining, x \in Nat :
        /\ x = tile * u.groups + (c % u.groups)
        /\ x * Size(u) + r < LockBase(u) /\ x * Size(u) + r < u.blocks_per_problem
        /\ LastWork(u, c, r, start, remaining, tile, k, count)
  <2>1. start + remaining <= TilesOfLine(u, c) * u.kt
    <3>1. TilesOfLine(u, c) \in Nat BY <1>2, LineType
    <3>2. TilesOfLine(u, c) * u.kt \in Nat BY <1>1, <3>1
    <3>3. QED BY <1>3, <1>4, <3>2
  <2>2. QED BY <1>2, <1>3, <2>1, LastTileIsPlaced
<1> DEFINE i == x * s + r
<1>7. /\ w = WorkAt(u, x, 0, r, k, count, remaining) /\ k + count <= u.kt
      /\ \A n \in 0 .. count - 1 :
           start + (remaining - count + 1 + n) - 1 = tile * u.kt + (k + n)
  BY <1>2, <1>6 DEF LastWork
<1> HIDE DEF w
<1>8. TileOf(w) \in Tiles(u) /\ TileIndex(u, TileOf(w)) = i
  <2>1. 0 \in 0 .. u.minor - 1 BY <1>1
  <2>2. LET v == WorkAt(u, x, 0, r, k, count, remaining)
        IN  TileOf(v) \in Tiles(u) /\ TileIndex(u, TileOf(v)) = x * Size(u) + r
    BY <1>2, <1>6, <2>1, PlacedIndex
  <2>3. QED BY <1>7, <2>2
<1>9. w.k = k /\ w.count = count /\ w.remaining = remaining BY <1>7 DEF WorkAt, WorkOn
<1>10. ASSUME NEW n \in 0 .. count - 1
       PROVE  Covers(u, i, k + n, o, remaining - count + 1 + n)
  <2> DEFINE f == remaining - count + 1 + n
             at == start + f - 1
             j == k + n
  <2>1. f \in 1 .. end - start BY <1>3, <1>4
  <2>2. at = tile * u.kt + j BY <1>7
  <2>3. j \in 0 .. u.kt - 1 BY <1>1, <1>7
  <2> HIDE DEF f, at, j
  <2>4. at \div u.kt = tile /\ at % u.kt = j BY <1>1, <2>2, <2>3, DivModUnique
  <2>5. i = ((at \div u.kt) * u.groups + (c % u.groups)) * s + r BY <1>6, <2>4
  <2> HIDE DEF i
  <2>6. Covers(u, i, j, o, f)
    <3>1. at = UnitRange(u, o).start + f - 1 /\ f \in 1 .. UnitRange(u, o).end - UnitRange(u, o).start
      BY <2>1 DEF at, start, end
    <3>2. QED BY <1>5, <2>4, <2>5, <3>1 DEF Covers
  <2>7. QED BY <2>6 DEF f, j
<1> HIDE DEF i
<1>11. WorkCovers(u, o, w)
  <2>1. k \in Nat /\ count \in Nat \ {0} /\ remaining \in Nat /\ count <= remaining
    OBVIOUS
  <2>2. QED BY <1>7, <1>8, <1>9, <1>10, <2>1 DEF WorkCovers
<1>12. QED BY <1>9, <1>11 DEF w, start

LEMMA WholeTileCovers ==
  ASSUME NEW p \in Problems, NEW u, Same(u, UnderlyingParams(p)), FittedParams(u),
         NEW o \in 0 .. Units(u) - 1, WholeUnit(u, o)
  PROVE  LET w == WholeTile(u, o - u.sk_units + u.sk_tiles, BlockIdInCluster(u, o))
         IN  WorkCovers(u, o, w) /\ w.remaining = u.kt /\ w.count = u.kt
<1> DEFINE c == o \div Size(u)
           r == o % Size(u)
           id == o - u.sk_units + u.sk_tiles
           w == WholeTile(u, id, BlockIdInCluster(u, o))
<1>1. /\ Size(u) \in Nat \ {0} /\ u.kt \in Nat \ {0} /\ Units(u) \in Nat
      /\ u.splits = 1 /\ o >= u.sk_units /\ u.units_per_problem \in Int
  BY SizeIsPositive, UnitsType DEF FittedParams, WholeUnit
<1>2. c \in Nat /\ r \in 0 .. Size(u) - 1 /\ o = c * Size(u) + r /\ o \in Nat
  <2>1. o \in Nat BY <1>1
  <2>2. QED BY <1>1, <2>1, DivMod
<1>3. o < u.units_per_problem BY <1>1 DEF Units
<1> HIDE DEF c, r
<1>4. PICK x \in Nat, lo \in 0 .. u.minor - 1 :
        /\ id = x * Size(u) + r /\ id < u.blocks_per_problem
        /\ w = WorkAt(u, x, lo, r, 0, u.kt, u.kt)
  BY <1>1, <1>2, <1>3, WholeTileIsPlaced
<1> HIDE DEF id, w
<1>5. TileOf(w) \in Tiles(u) /\ TileIndex(u, TileOf(w)) = id
  <2>1. x * Size(u) + r < u.blocks_per_problem BY <1>4
  <2>2. LET v == WorkAt(u, x, lo, r, 0, u.kt, u.kt)
        IN  TileOf(v) \in Tiles(u) /\ TileIndex(u, TileOf(v)) = x * Size(u) + r
    BY <1>2, <2>1, PlacedIndex
  <2>3. QED BY <1>4, <2>2
<1>6. w.k = 0 /\ w.count = u.kt /\ w.remaining = u.kt BY <1>4 DEF WorkAt, WorkOn
<1>7. ASSUME NEW n \in 0 .. u.kt - 1 PROVE Covers(u, id, 0 + n, o, u.kt - u.kt + 1 + n)
  <2>1. 0 + n = n /\ u.kt - u.kt + 1 + n = n + 1 BY <1>1
  <2>2. Covers(u, id, n, o, n + 1) BY DEF Covers, id
  <2>3. QED BY <2>1, <2>2
<1>8. WorkCovers(u, o, w) BY <1>1, <1>5, <1>6, <1>7 DEF WorkCovers
<1>9. QED BY <1>6, <1>8 DEF w, id

(* A valid work covers what it says, and an empty unit covers nothing. *)
LEMMA HasWorkCovers ==
  ASSUME NEW p \in Problems, NEW u, Same(u, UnderlyingParams(p)), FittedParams(u),
         NEW idx \in Nat, NEW start, NEW w, HasWork(u, idx, start, w)
  PROVE  /\ IsValid(w) => WorkCovers(u, idx, w)
         /\ ~IsValid(w) => \A i, k, f : ~Covers(u, i, k, idx, f)
<1>1. Units(u) \in Nat /\ u.kt \in Nat \ {0} BY UnitsType DEF FittedParams
<1>2. CASE idx >= Units(u)
  <2>1. ~IsValid(w) BY <1>2 DEF HasWork, InvalidWork, IsValid
  <2>2. \A i, k, f : ~Covers(u, i, k, idx, f) BY <1>1, <1>2 DEF Covers
  <2>3. QED BY <2>1, <2>2
<1>3. CASE idx < Units(u) /\ WholeUnit(u, idx)
  <2>1. w = WholeTile(u, idx - u.sk_units + u.sk_tiles, BlockIdInCluster(u, idx))
        /\ idx \in 0 .. Units(u) - 1
    BY <1>1, <1>3 DEF HasWork
  <2>2. WorkCovers(u, idx, w) BY <1>3, <2>1, WholeTileCovers
  <2>3. IsValid(w) BY <2>2 DEF IsValid, WorkCovers
  <2>4. QED BY <2>2, <2>3
<1>4. CASE idx < Units(u) /\ ~WholeUnit(u, idx)
  <2> DEFINE range == UnitRange(u, idx)
             left == w.remaining
  <2>1. /\ start = range.start /\ left \in Int /\ left <= range.end - range.start
        /\ left > 0 \/ left = range.end - range.start
        /\ w = LastTile(u, idx, range.start, left)
        /\ idx \in 0 .. Units(u) - 1
    BY <1>1, <1>4 DEF HasWork
  <2>2. CASE left > 0
    <3>1. left \in Nat \ {0} BY <2>1, <2>2
    <3> HIDE DEF left
    <3>2. WorkCovers(u, idx, w) BY <1>4, <2>1, <3>1, LastTileCovers
    <3>3. IsValid(w) BY <3>2 DEF IsValid, WorkCovers
    <3>4. QED BY <3>2, <3>3
  <2>3. CASE ~(left > 0)
    <3>1. left = range.end - range.start /\ left <= 0 BY <2>1, <2>3
    <3>2. \A i, k, f : ~Covers(u, i, k, idx, f)
      <4> SUFFICES ASSUME NEW i, NEW k, NEW f, Covers(u, i, k, idx, f) PROVE FALSE
        OBVIOUS
      <4>1. f \in 1 .. range.end - range.start BY <1>4 DEF Covers
      <4> HIDE DEF range, left
      <4>2. QED BY <2>1, <3>1, <4>1
    <3>3. ~IsValid(w)
      <4>1. range.start \in Nat BY <1>4, <2>1, RangeOfUnit
      <4> HIDE DEF left, range
      <4>2. w.count = left BY <1>1, <2>1, <3>1, <4>1, EmptyWork
      <4>3. QED BY <2>1, <3>1, <4>2 DEF IsValid
    <3>4. QED BY <3>2, <3>3
  <2>4. QED BY <2>2, <2>3
<1>5. QED BY <1>1, <1>2, <1>3, <1>4

(* A block that has come to an empty unit has no unit behind it. *)
LEMMA EmptyIsLast ==
  ASSUME NEW u, FittedParams(u), NEW grid \in Nat, UsedUnits(u, grid),
         NEW o \in 0 .. Units(u) - 1, ~WholeUnit(u, o),
         NEW empty, empty = UnitRange(u, o), empty.end <= empty.start
  PROVE  o + grid >= Units(u)
<1>1. /\ Units(u) \in Nat /\ (u.splits = 1 \/ u.splits > 1)
      /\ u.groups \in Nat \ {0} /\ Size(u) \in Nat \ {0}
  BY UnitsType, SizeIsPositive DEF FittedParams
<1>2. /\ Shared(u)
      /\ \E e \in 0 .. UnitsPerLine(u) - 1, l \in 0 .. Lines(u) - 1, r \in 0 .. Size(u) - 1 :
           o = (e * Lines(u) + l) * Size(u) + r
  BY UnitHasLine
<1>3. PICK e \in 0 .. UnitsPerLine(u) - 1, l \in 0 .. Lines(u) - 1, r \in 0 .. Size(u) - 1 :
        o = (e * Lines(u) + l) * Size(u) + r
  BY <1>2
<1>4. /\ Lines(u) \in Nat \ {0} /\ UnitsPerLine(u) \in Nat \ {0}
      /\ \E border : CutLine(u, l, border)
  BY <1>2, LinesAreCut
<1>5. PICK border : CutLine(u, l, border) BY <1>4
<1>6. empty = [start |-> border[e], end |-> border[e + 1]] BY <1>3, <1>5 DEF CutLine
<1>7. border[e] \in Nat /\ border[e + 1] \in Nat
  <2>1. e \in 0 .. UnitsPerLine(u) /\ e + 1 \in 0 .. UnitsPerLine(u) BY <1>4
  <2>2. QED BY <1>5, <2>1 DEF CutLine
<1>8. ~Busy(u, l)
  <2>1. SUFFICES ASSUME Busy(u, l) PROVE FALSE OBVIOUS
  <2>2. border[e] < border[e + 1] BY <1>5, <2>1 DEF CutLine
  <2>3. empty.start = border[e] /\ empty.end = border[e + 1] BY <1>6
  <2>4. QED BY <1>7, <2>2, <2>3
<1>9. u.splits = 1 BY <1>1, <1>8 DEF Busy, UsedUnits
<1>10. ~(u.sk_tiles >= u.sk_units)
  <2>1. SUFFICES ASSUME u.sk_tiles >= u.sk_units PROVE FALSE OBVIOUS
  <2>2. u.sk_units > 0 /\ FittedStreamK(u) BY <1>2, <1>9 DEF Shared, FittedParams
  <2>3. PICK tiles \in Nat : u.sk_tiles = tiles * Size(u) BY <2>2 DEF FittedStreamK
  <2>4. PICK v \in Nat \ {0} : u.units_per_group = v * Size(u)
                               /\ u.sk_units = (v * u.groups) * Size(u)
    BY <2>2 DEF FittedStreamK
  <2>5. UnitsPerLine(u) = v
    <3>1. (v * Size(u)) \div Size(u) = v
      <4>1. v * Size(u) = v * Size(u) + 0 /\ 0 \in 0 .. Size(u) - 1 BY <1>1
      <4>2. QED BY <1>1, <4>1, DivModUnique
    <3>2. QED BY <1>9, <2>4, <3>1 DEF UnitsPerLine
  <2>6. tiles >= v * u.groups
    <3> DEFINE n == v * u.groups
    <3>1. n \in Nat BY <1>1
    <3> HIDE DEF n
    <3>2. tiles * Size(u) >= n * Size(u) BY <2>1, <2>3, <2>4 DEF n
    <3>3. tiles >= n
      <4>1. CASE tiles < n
        <5>1. (n - tiles - 1) * Size(u) \in Nat
              /\ (n - tiles - 1) * Size(u) = n * Size(u) - tiles * Size(u) - Size(u)
          BY <1>1, <3>1, <4>1
        <5>2. n * Size(u) \in Nat /\ tiles * Size(u) \in Nat BY <1>1, <3>1
        <5>3. QED BY <1>1, <3>2, <5>1, <5>2
      <4>2. QED BY <3>1, <4>1
    <3>4. QED BY <3>3 DEF n
  <2> DEFINE a == tiles \div u.groups
             rest == tiles % u.groups
  <2>7. a \in Nat /\ rest \in 0 .. u.groups - 1 /\ tiles = a * u.groups + rest
    BY <1>1, DivMod
  <2>8. u.sk_tiles \div Size(u) = tiles
    <3>1. tiles * Size(u) = tiles * Size(u) + 0 /\ 0 \in 0 .. Size(u) - 1 BY <1>1
    <3>2. QED BY <1>1, <2>3, <3>1, DivModUnique
  <2>9. TilesOfLine(u, l) \in {a, a + 1}
    <3>1. TilesOfLine(u, l) = a + IF l % u.groups < u.big_groups THEN 1 ELSE 0
      BY <1>9, <2>8 DEF TilesOfLine
    <3> HIDE DEF a
    <3>2. QED BY <2>7, <3>1
  <2> HIDE DEF a, rest
  <2>10. a >= v
    <3>1. CASE a < v
      <4>1. (v - a - 1) * u.groups \in Nat
            /\ (v - a - 1) * u.groups = v * u.groups - a * u.groups - u.groups
        BY <1>1, <2>7, <3>1
      <4>2. v * u.groups \in Nat /\ a * u.groups \in Nat BY <1>1, <2>7
      <4>3. QED BY <1>1, <2>6, <2>7, <4>1, <4>2
    <3>2. QED BY <2>7, <3>1
  <2>11. UnitsPerLine(u) <= TilesOfLine(u, l) BY <2>5, <2>7, <2>9, <2>10
  <2>12. QED BY <1>8, <1>9, <2>11 DEF Busy
<1>11. Units(u) <= grid BY <1>2, <1>9, <1>10 DEF Shared, UsedUnits
<1>12. QED BY <1>1, <1>11

(* What a block fetches is the work of the unit, from its last k tile on.  *)
LEMMA FetchedHasWork ==
  ASSUME NEW u, FittedParams(u), u.scheduler \in {"static", "stream-K"},
         NEW grid \in Nat, UsedUnits(u, grid), NEW bl, NEW idx \in Nat
  PROVE  LET new == FetchedUnit(u, bl, idx)
         IN  /\ HasWork(u, idx, new.start, new.work)
             /\ ~IsValid(new.work) => idx + grid >= Units(u)
             /\ \A i, k, f : Covers(u, i, k, idx, f) => f \in 1 .. new.work.remaining
<1> DEFINE new == FetchedUnit(u, bl, idx)
           w == CurrentWork(u, idx)
           range == UnitRange(u, idx)
<1>1. /\ Units(u) \in Nat /\ (u.splits = 1 \/ u.splits > 1) /\ u.kt \in Nat \ {0}
      /\ u.splits = 1 => u.sk_units \in Nat
  BY UnitsType DEF FittedParams
<1>2. new.work = w BY DEF FetchedUnit
<1>3. CASE idx >= Units(u)
  <2>1. w = InvalidWork BY <1>1, <1>3 DEF CurrentWork, Units
  <2>2. HasWork(u, idx, new.start, w) BY <1>3, <2>1 DEF HasWork
  <2>3. \A i, k, f : ~Covers(u, i, k, idx, f) BY <1>1, <1>3 DEF Covers
  <2>4. idx + grid >= Units(u) BY <1>1, <1>3
  <2> HIDE DEF new, w
  <2>5. QED BY <1>2, <2>2, <2>3, <2>4 DEF new
<1>4. CASE idx < Units(u) /\ WholeUnit(u, idx)
  <2>1. w = WholeTile(u, idx - u.sk_units + u.sk_tiles, BlockIdInCluster(u, idx))
    BY <1>1, <1>4 DEF CurrentWork, Units, WholeUnit
  <2>2. HasWork(u, idx, new.start, w) BY <1>1, <1>4, <2>1 DEF HasWork
  <2>3. w.count = u.kt /\ w.remaining = u.kt BY <2>1 DEF WholeTile, WorkOn
  <2> HIDE DEF new, w
  <2>4. ASSUME NEW i, NEW k, NEW f, Covers(u, i, k, idx, f) PROVE f \in 1 .. w.remaining
    <3>1. k \in 0 .. u.kt - 1 /\ f = k + 1 BY <1>4, <2>4 DEF Covers
    <3>2. QED BY <1>1, <2>3, <3>1
  <2>5. IsValid(w) BY <1>1, <2>3 DEF IsValid
  <2>6. QED BY <1>2, <2>2, <2>4, <2>5 DEF new
<1>5. CASE idx < Units(u) /\ ~WholeUnit(u, idx)
  <2>1. idx \in 0 .. Units(u) - 1 BY <1>1, <1>5
  <2>2. w = LastTile(u, idx, range.start, range.end - range.start)
    BY <1>1, <1>5 DEF CurrentWork, Units, WholeUnit
  <2>3. u.scheduler = "stream-K"
    <3>1. SUFFICES ASSUME u.scheduler = "static" PROVE FALSE OBVIOUS
    <3>2. u.splits = 1 /\ u.sk_units = 0 BY <3>1 DEF UsedUnits
    <3>3. QED BY <1>5, <3>2 DEF WholeUnit
  <2>4. new.start = range.start BY <1>1, <1>5, <2>3 DEF FetchedUnit, Units, WholeUnit
  <2>5. range.start \in Nat /\ range.end \in Nat BY <1>5, <2>1, RangeOfUnit
  <2> DEFINE left == range.end - range.start
  <2>6. w.remaining = left BY <2>2 DEF LastTile, WorkOn
  <2>7. left \in Int
    <3> HIDE DEF range
    <3>1. QED BY <2>5
  <2>8. left <= range.end - range.start /\ left = range.end - range.start
    <3> HIDE DEF range
    <3>1. QED BY <2>5
  <2> HIDE DEF left
  <2>9. HasWork(u, idx, new.start, w)
    <3> HIDE DEF w, new
    <3>1. new.start = UnitRange(u, idx).start BY <2>4
    <3>2. w = LastTile(u, idx, new.start, w.remaining) BY <2>2, <2>4, <2>6, <2>8
    <3>3. w.remaining \in Int /\ w.remaining <= UnitRange(u, idx).end - UnitRange(u, idx).start
          /\ w.remaining = UnitRange(u, idx).end - UnitRange(u, idx).start
      BY <2>6, <2>7, <2>8
    <3>4. ~(idx >= Units(u)) BY <1>1, <1>5
    <3>5. QED BY <1>5, <3>1, <3>2, <3>3, <3>4 DEF HasWork
  <2>10. ASSUME NEW i, NEW k, NEW f, Covers(u, i, k, idx, f) PROVE f \in 1 .. w.remaining
    <3>1. f \in 1 .. range.end - range.start BY <1>5, <2>10 DEF Covers
    <3> HIDE DEF w, range
    <3>2. QED BY <2>6, <2>8, <3>1
  <2>11. ASSUME ~IsValid(w) PROVE idx + grid >= Units(u)
    <3>1. left <= 0
      <4>1. CASE left > 0
        <5>1. \A n \in Int : n > 0 => n \in Nat \ {0} OBVIOUS
        <5>2. left \in Nat \ {0} BY <2>7, <4>1, <5>1
        <5> HIDE DEF w
        <5>3. w.count > 0
          <6> DEFINE start == range.start
                     c == idx \div Size(u)
                     r == idx % Size(u)
          <6>1. start \in Nat /\ Size(u) \in Nat \ {0}
            BY <2>5, SizeIsPositive DEF FittedParams
          <6>2. c \in Nat /\ r \in 0 .. Size(u) - 1 /\ c * Size(u) + r = idx
            BY <6>1, DivMod
          <6>3. w = LastTile(u, idx, start, left) BY <2>2, <2>8 DEF w
          <6> HIDE DEF start, c, r
          <6>4. PICK tile \in Nat, k \in Nat, count \in 1 .. left :
                  LastWork(u, c, r, start, left, tile, k, count)
            BY <5>2, <6>1, <6>2, LastTileParts
          <6>5. w.count = count BY <6>2, <6>3, <6>4 DEF LastWork, WorkAt, WorkOn
          <6>6. QED BY <5>2, <6>5
        <5>4. QED BY <2>11, <5>3 DEF IsValid
      <4>2. QED BY <2>7, <4>1
    <3>2. range.end <= range.start
      <4> HIDE DEF range
      <4>1. QED BY <2>5, <2>8, <3>1
    <3> HIDE DEF range
    <3>3. range = UnitRange(u, idx) BY DEF range
    <3>4. QED BY <1>5, <2>1, <3>2, <3>3, EmptyIsLast
  <2> HIDE DEF new, w
  <2>12. QED BY <1>2, <2>9, <2>10, <2>11 DEF new
<1>6. QED BY <1>1, <1>3, <1>4, <1>5

(* The next work of the unit is on the k tiles before; there is none only  *)
(* if none are left.                                                       *)
LEMMA NextHasWork ==
  ASSUME NEW p \in Problems, NEW u, Same(u, UnderlyingParams(p)), FittedParams(u),
         NEW grid, UsedUnits(u, grid),
         NEW idx \in Nat, NEW start, NEW w, HasWork(u, idx, start, w), IsValid(w)
  PROVE  LET v == ContinueWork(u, idx, start, w)
         IN  /\ IsValid(v) => /\ HasWork(u, idx, start, v)
                              /\ v.remaining = w.remaining - w.count
             /\ ~IsValid(v) => w.remaining = w.count
<1> DEFINE v == ContinueWork(u, idx, start, w)
           left == w.remaining - w.count
           range == UnitRange(u, idx)
<1>1. /\ WorkCovers(u, idx, w) /\ Units(u) \in Nat /\ u.kt \in Nat \ {0}
      /\ idx \in 0 .. Units(u) - 1
  <2>1. WorkCovers(u, idx, w) BY HasWorkCovers
  <2>2. QED BY <2>1, UnitsType DEF FittedParams, WorkCovers
<1>2. /\ w.count \in Nat \ {0} /\ w.remaining \in Nat /\ w.count <= w.remaining
  BY <1>1 DEF WorkCovers
<1>3. CASE WholeUnit(u, idx)
  <2>1. w.remaining = u.kt /\ w.count = u.kt
    <3>1. w = WholeTile(u, idx - u.sk_units + u.sk_tiles, BlockIdInCluster(u, idx))
      BY <1>1, <1>3 DEF HasWork
    <3>2. QED BY <3>1 DEF WholeTile, WorkOn
  <2>2. ~IsValid(v) BY <2>1 DEF ContinueWork, InvalidWork, IsValid
  <2> HIDE DEF v
  <2>3. QED BY <2>1, <2>2 DEF v
<1>4. CASE ~WholeUnit(u, idx)
  <2>1. /\ start = range.start /\ w.remaining <= range.end - range.start
    BY <1>1, <1>4 DEF HasWork
  <2>2. u.scheduler # "static"
    <3>1. SUFFICES ASSUME u.scheduler = "static" PROVE FALSE OBVIOUS
    <3>2. u.splits = 1 /\ u.sk_units = 0 BY <3>1 DEF UsedUnits
    <3>3. QED BY <1>1, <1>4, <3>2 DEF WholeUnit
  <2>3. CASE w.remaining = w.count
    <3>1. v = InvalidWork BY <2>3 DEF ContinueWork
    <3> HIDE DEF v
    <3>2. ~IsValid(v) BY <3>1 DEF InvalidWork, IsValid
    <3>3. QED BY <2>3, <3>2 DEF v
  <2>4. CASE w.remaining # w.count
    <3>1. v = LastTile(u, idx, range.start, left) BY <2>1, <2>2, <2>4 DEF ContinueWork
    <3>2. left \in Nat \ {0} /\ left <= w.remaining BY <1>2, <2>4
    <3>3. range.start \in Nat /\ range.end \in Nat
      <4>1. idx \in 0 .. Units(u) - 1 BY <1>1
      <4>2. QED BY <1>4, <4>1, RangeOfUnit
    <3> HIDE DEF left
    <3>4. left <= range.end - range.start
      <4> HIDE DEF range
      <4>1. QED BY <1>2, <2>1, <3>2, <3>3
    <3>5. WorkCovers(u, idx, v) /\ v.remaining = left
      <4> HIDE DEF v
      <4>1. LET x == LastTile(u, idx, UnitRange(u, idx).start, left)
            IN  WorkCovers(u, idx, x) /\ x.remaining = left
        BY <1>1, <1>4, <3>2, <3>4, LastTileCovers
      <4>2. QED BY <3>1, <4>1
    <3>6. IsValid(v) BY <3>5 DEF WorkCovers, IsValid
    <3>7. HasWork(u, idx, start, v)
      <4> HIDE DEF v
      <4>1. ~(idx >= Units(u)) BY <1>1
      <4>2. v = LastTile(u, idx, start, v.remaining) BY <2>1, <3>1, <3>5
      <4>3. /\ start = UnitRange(u, idx).start /\ v.remaining \in Int
            /\ v.remaining <= UnitRange(u, idx).end - UnitRange(u, idx).start
            /\ v.remaining > 0
        BY <2>1, <3>2, <3>4, <3>5
      <4>4. QED BY <1>4, <4>1, <4>2, <4>3 DEF HasWork
    <3> HIDE DEF v
    <3>8. QED BY <3>5, <3>6, <3>7 DEF v, left
  <2>5. QED BY <2>3, <2>4
<1>5. QED BY <1>3, <1>4

-----------------------------------------------------------------------------
(* 14. What a block has done.                                              *)

(* A block with record bl is beyond its unit's k tile f, counted from the  *)
(* first: units come in the order of their numbers, and the k tiles of a   *)
(* unit from the last to the first.  In the states pcs it has done its     *)
(* work, and not only what came before it.                                 *)
Beyond(bl, o, f, pcs) ==
  \/ bl.idx > o
  \/ /\ bl.idx = o /\ bl.pc # "pending"
     /\ f > bl.work.remaining - (IF bl.pc \in pcs THEN bl.work.count ELSE 0)

(* The work w is on k tile k of the tile with index i. *)
Owns(u, w, i, k) == i = TileIndex(u, TileOf(w)) /\ w.k <= k /\ k < w.k + w.count

LEMMA CoversType ==
  ASSUME NEW u, FittedParams(u), NEW i, NEW k, NEW o, NEW f, Covers(u, i, k, o, f)
  PROVE  o \in Nat /\ o < Units(u) /\ k \in 0 .. u.kt - 1 /\ f \in Nat \ {0}
<1>1. Units(u) \in Nat /\ o \in 0 .. Units(u) - 1 /\ u.kt \in Nat \ {0}
  BY UnitsType DEF Covers, FittedParams
<1>2. CASE WholeUnit(u, o) BY <1>1, <1>2 DEF Covers
<1>3. CASE ~WholeUnit(u, o)
  <2>1. \E border, e, l, r, y : At(u, i, k, o, f, border, e, l, r, y)
    BY <1>3, CoversIsAt
  <2>2. k \in 0 .. u.kt - 1 BY <2>1 DEF At
  <2>3. f \in 1 .. UnitRange(u, o).end - UnitRange(u, o).start BY <1>3 DEF Covers
  <2> DEFINE e == UnitRange(u, o).end - UnitRange(u, o).start
  <2>4. f \in 1 .. e BY <2>3
  <2> HIDE DEF e
  <2>5. f \in Nat \ {0} BY <2>4
  <2>6. QED BY <1>1, <2>2, <2>5
<1>4. QED BY <1>2, <1>3

LEMMA CoversWhat ==
  ASSUME NEW u, FittedParams(u), NEW i, NEW k, NEW j, NEW m, NEW o, NEW f,
         Covers(u, i, k, o, f), Covers(u, j, m, o, f)
  PROVE  i = j /\ k = m
<1>1. k \in 0 .. u.kt - 1 /\ m \in 0 .. u.kt - 1 /\ u.kt \in Nat
  BY CoversType DEF FittedParams
<1>2. CASE WholeUnit(u, o) BY <1>1, <1>2 DEF Covers
<1>3. CASE ~WholeUnit(u, o) BY <1>3 DEF Covers
<1>4. QED BY <1>2, <1>3

(* The k tiles that a work owns are the last ones of those that remain to  *)
(* its unit.                                                               *)
LEMMA WorkOwns ==
  ASSUME NEW u, FittedParams(u), NEW idx, NEW w, WorkCovers(u, idx, w),
         NEW i, NEW k, NEW o, NEW f, Covers(u, i, k, o, f)
  PROVE  Owns(u, w, i, k) <=> o = idx /\ f > w.remaining - w.count /\ f <= w.remaining
<1>1. /\ w.k \in Nat /\ w.count \in Nat \ {0} /\ w.remaining \in Nat /\ w.count <= w.remaining
      /\ \A n \in 0 .. w.count - 1 :
           Covers(u, TileIndex(u, TileOf(w)), w.k + n, idx, w.remaining - w.count + 1 + n)
  BY DEF WorkCovers
<1>2. k \in Nat /\ f \in Nat BY CoversType DEF FittedParams
<1>3. ASSUME Owns(u, w, i, k)
      PROVE  o = idx /\ f > w.remaining - w.count /\ f <= w.remaining
  <2> DEFINE n == k - w.k
  <2>1. n \in 0 .. w.count - 1 /\ w.k + n = k BY <1>1, <1>2, <1>3 DEF Owns
  <2>2. Covers(u, i, k, idx, w.remaining - w.count + 1 + n) BY <1>1, <1>3, <2>1 DEF Owns
  <2>3. o = idx /\ f = w.remaining - w.count + 1 + n BY <2>2, CoversOnce
  <2> HIDE DEF n
  <2>4. QED BY <1>1, <2>1, <2>3
<1>4. ASSUME o = idx, f > w.remaining - w.count, f <= w.remaining
      PROVE  Owns(u, w, i, k)
  <2> DEFINE n == f - (w.remaining - w.count + 1)
  <2>1. n \in 0 .. w.count - 1 /\ w.remaining - w.count + 1 + n = f BY <1>1, <1>2, <1>4
  <2> HIDE DEF n
  <2>2. Covers(u, TileIndex(u, TileOf(w)), w.k + n, o, f) BY <1>1, <1>4, <2>1
  <2>3. i = TileIndex(u, TileOf(w)) /\ k = w.k + n BY <2>2, CoversWhat
  <2>4. QED BY <1>1, <1>2, <2>1, <2>3 DEF Owns
<1>5. QED BY <1>3, <1>4

(* A block that comes to a state in which its work is done has done what   *)
(* it owns, and had not done it before.                                    *)
LEMMA BeyondOwned ==
  ASSUME NEW u, FittedParams(u), NEW bl, NEW new, NEW pcs, NEW s, bl.idx \in Nat,
         new.idx = bl.idx, new.work = bl.work, new.pc = s, s \in pcs, bl.pc \notin pcs,
         s # "pending", bl.pc # "pending", WorkCovers(u, bl.idx, bl.work),
         NEW i, NEW k, NEW o, NEW f, Covers(u, i, k, o, f)
  PROVE  /\ Beyond(new, o, f, pcs) <=> Beyond(bl, o, f, pcs) \/ Owns(u, bl.work, i, k)
         /\ Owns(u, bl.work, i, k) => ~Beyond(bl, o, f, pcs)
<1> DEFINE w == bl.work
<1>1. Owns(u, w, i, k) <=> o = bl.idx /\ f > w.remaining - w.count /\ f <= w.remaining
  BY WorkOwns
<1>2. o \in Nat /\ f \in Nat /\ w.remaining \in Nat /\ w.count \in Nat
  BY CoversType DEF WorkCovers
<1>3. Beyond(bl, o, f, pcs) <=> bl.idx > o \/ (bl.idx = o /\ f > w.remaining)
  BY <1>2 DEF Beyond
<1>4. Beyond(new, o, f, pcs) <=> bl.idx > o \/ (bl.idx = o /\ f > w.remaining - w.count)
  BY <1>2 DEF Beyond
<1> HIDE DEF w
<1>5. /\ Beyond(new, o, f, pcs) <=> Beyond(bl, o, f, pcs) \/ Owns(u, w, i, k)
      /\ Owns(u, w, i, k) => ~Beyond(bl, o, f, pcs)
  BY <1>1, <1>2, <1>3, <1>4
<1>6. QED BY <1>5 DEF w

(* A block that goes on to a unit of its own has done the units before. *)
LEMMA BeyondFetched ==
  ASSUME NEW u, FittedParams(u), u.scheduler \in {"static", "stream-K"},
         NEW grid \in Nat \ {0}, UsedUnits(u, grid), NEW bl, NEW idx \in Nat,
         NEW pcs, "mainloop" \notin pcs, NEW i, NEW k, NEW o, NEW f, Covers(u, i, k, o, f)
  PROVE  Beyond(FetchedUnit(u, bl, idx), o, f, pcs) <=> idx > o
<1> DEFINE new == FetchedUnit(u, bl, idx)
<1>1. new.idx = idx /\ new.pc = "mainloop" BY DEF FetchedUnit
<1>2. /\ HasWork(u, idx, new.start, new.work)
      /\ \A x, y, g : Covers(u, x, y, idx, g) => g \in 1 .. new.work.remaining
  BY FetchedHasWork
<1> HIDE DEF new
<1>3. Beyond(new, o, f, pcs) <=> idx > o \/ (idx = o /\ f > new.work.remaining - 0)
  BY <1>1 DEF Beyond
<1>4. ASSUME idx = o, f > new.work.remaining - 0 PROVE FALSE
  <2> DEFINE n == new.work.remaining
  <2>1. f \in 1 .. n BY <1>2, <1>4
  <2> HIDE DEF n
  <2>2. n \in Int
    <3>1. u.kt \in Nat BY DEF FittedParams
    <3>2. QED BY <1>2, <3>1 DEF n, HasWork, InvalidWork, WholeTile, WorkOn
  <2>3. f > n - 0 BY <1>4 DEF n
  <2>4. QED BY <2>1, <2>2, <2>3
<1>5. QED BY <1>3, <1>4 DEF new

(* Block b of a grid of that size computes the units b, b + size, and so   *)
(* on, all of them up to the last, and goes where its work belongs.        *)
UnitOnce(u, size, b, bl) ==
  /\ bl.idx \in Nat /\ bl.idx % size = b
  /\ bl.pc # "pending" =>
       /\ HasWork(u, bl.idx, bl.start, bl.work)
       /\ ~IsValid(bl.work) => bl.idx + size >= Units(u)
  /\ bl.pc = "exit" => ~IsValid(bl.work)
  /\ bl.pc \in {"store", "lock", "reduce", "arrive", "epilogue", "next"} => IsValid(bl.work)
  /\ bl.pc \in {"store", "reduce", "arrive"} => ~ComputeEpilogue(u, bl.work)
  /\ bl.pc = "epilogue" => ComputeEpilogue(u, bl.work)

LEMMA SameBlock ==
  ASSUME NEW size \in Nat \ {0}, NEW x \in Nat, NEW o \in Nat, x % size = o % size
  PROVE  x + size > o <=> x >= o
<1> DEFINE a == x \div size
           c == o \div size
           r == x % size
<1>1. a \in Nat /\ c \in Nat /\ r \in Nat /\ x = a * size + r /\ o = c * size + r
  <2>1. a \in Nat /\ r \in 0 .. size - 1 /\ x = a * size + r BY DivMod
  <2>2. c \in Nat /\ o = c * size + (o % size) BY DivMod
  <2>3. o % size = r OBVIOUS
  <2> HIDE DEF a, c, r
  <2>4. r \in Nat BY <2>1
  <2>5. QED BY <2>1, <2>2, <2>3, <2>4
<1> HIDE DEF a, c, r
<1>2. a * size \in Nat /\ c * size \in Nat BY <1>1
<1>3. CASE a >= c
  <2>1. (a - c) * size \in Nat /\ (a - c) * size = a * size - c * size BY <1>1, <1>3
  <2>2. QED BY <1>1, <1>2, <2>1
<1>4. CASE a < c
  <2>1. (c - a - 1) * size \in Nat /\ (c - a - 1) * size = c * size - a * size - size
    BY <1>1, <1>4
  <2>2. QED BY <1>1, <1>2, <2>1
<1>5. QED BY <1>1, <1>3, <1>4

LEMMA UnitAfter ==
  ASSUME NEW size \in Nat \ {0}, NEW x \in Nat
  PROVE  (x + size) % size = x % size
<1> DEFINE a == x \div size
           r == x % size
<1>1. a \in Nat /\ r \in 0 .. size - 1 /\ x = a * size + r BY DivMod
<1> HIDE DEF a, r
<1>2. x + size = (a + 1) * size + r /\ a + 1 \in Int
  <2>1. a * size \in Nat /\ (a + 1) * size = a * size + size BY <1>1
  <2>2. QED BY <1>1, <2>1
<1> DEFINE n == a + 1
<1> HIDE DEF n
<1>3. (x + size) % size = r
  <2>1. x + size = n * size + r /\ n \in Nat BY <1>1, <1>2 DEF n
  <2>2. (n * size + r) % size = r BY <1>1, <2>1, DivModUnique
  <2>3. QED BY <2>1, <2>2
<1>4. QED BY <1>3 DEF r

LEMMA NextOnce ==
  ASSUME NEW p \in Problems, NEW u, Same(u, UnderlyingParams(p)), FittedParams(u),
         u.scheduler \in {"static", "stream-K"}, NEW size \in Nat \ {0}, UsedUnits(u, size),
         NEW b, NEW bl, DOMAIN bl = {"idx", "work", "start", "nth", "pc"},
         UnitOnce(u, size, b, bl), bl.pc = "next"
  PROVE  /\ UnitOnce(u, size, b, NextUnit(u, size, bl))
         /\ \A pcs, i, k, o, f :
              "next" \in pcs /\ "mainloop" \notin pcs /\ Covers(u, i, k, o, f) /\ o % size = b =>
                (Beyond(NextUnit(u, size, bl), o, f, pcs) <=> Beyond(bl, o, f, pcs))
<1> DEFINE v == ContinueWork(u, bl.idx, bl.start, bl.work)
           new == NextUnit(u, size, bl)
<1>1. bl.idx \in Nat /\ bl.idx % size = b /\ HasWork(u, bl.idx, bl.start, bl.work)
      /\ IsValid(bl.work)
  BY DEF UnitOnce
<1>2. /\ IsValid(v) => /\ HasWork(u, bl.idx, bl.start, v)
                       /\ v.remaining = bl.work.remaining - bl.work.count
      /\ ~IsValid(v) => bl.work.remaining = bl.work.count
  <2>1. LET x == ContinueWork(u, bl.idx, bl.start, bl.work)
        IN  /\ IsValid(x) => /\ HasWork(u, bl.idx, bl.start, x)
                             /\ x.remaining = bl.work.remaining - bl.work.count
            /\ ~IsValid(x) => bl.work.remaining = bl.work.count
    BY <1>1, NextHasWork
  <2>2. QED BY <2>1
<1>3. bl.work.remaining \in Nat /\ bl.work.count \in Nat
  <2>1. WorkCovers(u, bl.idx, bl.work) BY <1>1, HasWorkCovers
  <2>2. QED BY <2>1 DEF WorkCovers
<1>4. CASE IsValid(v)
  <2>1. new = [bl EXCEPT !.work = v, !.nth = @ + 1, !.pc = "mainloop"]
    BY <1>4 DEF NextUnit
  <2> HIDE DEF new, v
  <2>2. new.idx = bl.idx /\ new.start = bl.start /\ new.work = v /\ new.pc = "mainloop"
    BY <2>1
  <2>3. UnitOnce(u, size, b, new) BY <1>1, <1>2, <1>4, <2>2 DEF UnitOnce
  <2>4. ASSUME NEW pcs, NEW o, NEW f, "next" \in pcs, "mainloop" \notin pcs, f \in Nat
        PROVE  Beyond(new, o, f, pcs) <=> Beyond(bl, o, f, pcs)
    <3>1. Beyond(new, o, f, pcs)
            <=> bl.idx > o \/ (bl.idx = o /\ f > v.remaining - 0)
      BY <2>2, <2>4 DEF Beyond
    <3>2. Beyond(bl, o, f, pcs)
            <=> bl.idx > o \/ (bl.idx = o /\ f > bl.work.remaining - bl.work.count)
      BY <2>4 DEF Beyond
    <3>3. v.remaining - 0 = bl.work.remaining - bl.work.count BY <1>2, <1>3, <1>4
    <3>4. QED BY <3>1, <3>2, <3>3
  <2>5. \A pcs, i, k, o, f :
          "next" \in pcs /\ "mainloop" \notin pcs /\ Covers(u, i, k, o, f) /\ o % size = b =>
            (Beyond(new, o, f, pcs) <=> Beyond(bl, o, f, pcs))
    BY <2>4, CoversType
  <2>6. QED BY <2>3, <2>5 DEF new
<1>5. CASE ~IsValid(v)
  <2>1. new = FetchedUnit(u, bl, bl.idx + size) BY <1>5 DEF NextUnit
  <2> DEFINE n == bl.idx + size
             fetched == FetchedUnit(u, bl, n)
  <2>2. n \in Nat /\ n % size = b
    <3>1. (bl.idx + size) % size = bl.idx % size BY <1>1, UnitAfter
    <3>2. QED BY <1>1, <3>1
  <2>3. fetched.idx = n /\ fetched.pc = "mainloop" BY DEF FetchedUnit
  <2> HIDE DEF n
  <2>4. /\ HasWork(u, n, fetched.start, fetched.work)
        /\ ~IsValid(fetched.work) => n + size >= Units(u)
    <3>1. LET x == FetchedUnit(u, bl, n)
          IN  /\ HasWork(u, n, x.start, x.work)
              /\ ~IsValid(x.work) => n + size >= Units(u)
              /\ \A i, k, f : Covers(u, i, k, n, f) => f \in 1 .. x.work.remaining
      BY <2>2, FetchedHasWork
    <3>2. QED BY <3>1
  <2>5. ASSUME NEW pcs, NEW i, NEW k, NEW o, NEW f, "next" \in pcs, "mainloop" \notin pcs,
               Covers(u, i, k, o, f), o % size = b
        PROVE  Beyond(fetched, o, f, pcs) <=> Beyond(bl, o, f, pcs)
    <3>1. Beyond(fetched, o, f, pcs) <=> n > o BY <2>2, <2>5, BeyondFetched
    <3>2. o \in Nat /\ f \in Nat \ {0} BY <2>5, CoversType
    <3>3. n > o <=> bl.idx >= o BY <1>1, <2>5, <3>2, SameBlock DEF n
    <3>4. Beyond(bl, o, f, pcs) <=> bl.idx > o \/ (bl.idx = o /\ f > bl.work.remaining - bl.work.count)
      BY <2>5 DEF Beyond
    <3>5. bl.work.remaining - bl.work.count = 0 BY <1>2, <1>3, <1>5
    <3>6. QED BY <1>1, <3>1, <3>2, <3>3, <3>4, <3>5
  <2> HIDE DEF fetched, new
  <2>6. new = fetched BY <2>1 DEF fetched, n
  <2>7. UnitOnce(u, size, b, new) BY <2>2, <2>3, <2>4, <2>6 DEF UnitOnce
  <2>8. QED BY <2>5, <2>6, <2>7 DEF new
<1>6. QED BY <1>4, <1>5

(* The k tile k of the tile with index i is done by the blocks B of a grid. *)
Done(u, B, i, k, pcs) ==
  \E o, f : /\ Covers(u, i, k, o, f) /\ DOMAIN B # {}
            /\ Beyond(B[o % Cardinality(DOMAIN B)], o, f, pcs)

LEMMA DoneStays ==
  ASSUME NEW u, NEW B, NEW C, DOMAIN B = DOMAIN C, NEW pcs,
         \A i, k, o, f : Covers(u, i, k, o, f) =>
           LET b == o % Cardinality(DOMAIN B)
           IN  Beyond(C[b], o, f, pcs) <=> Beyond(B[b], o, f, pcs)
  PROVE  \A i, k : Done(u, C, i, k, pcs) <=> Done(u, B, i, k, pcs)
<1> SUFFICES ASSUME NEW i, NEW k
             PROVE  Done(u, C, i, k, pcs) <=> Done(u, B, i, k, pcs)
  OBVIOUS
<1>1. ASSUME NEW o, NEW f, Covers(u, i, k, o, f)
      PROVE  Beyond(C[o % Cardinality(DOMAIN B)], o, f, pcs)
               <=> Beyond(B[o % Cardinality(DOMAIN B)], o, f, pcs)
  BY <1>1
<1>2. QED BY <1>1 DEF Done

(* A block that finishes its work adds what it owns, which nobody has done *)
(* before.                                                                 *)
LEMMA DoneOwned ==
  ASSUME NEW u, FittedParams(u), NEW B, NEW C, NEW a \in DOMAIN B, NEW s, NEW pcs,
         NEW new, new.idx = B[a].idx, new.work = B[a].work, new.pc = s,
         DOMAIN C = DOMAIN B, C[a] = new, \A b \in DOMAIN B : b # a => C[b] = B[b],
         \A o \in Nat : o % Cardinality(DOMAIN B) \in DOMAIN B,
         s \in pcs, B[a].pc \notin pcs, s # "pending", B[a].pc # "pending",
         B[a].idx \in Nat, B[a].idx % Cardinality(DOMAIN B) = a,
         WorkCovers(u, B[a].idx, B[a].work)
  PROVE  \A i, k \in Nat :
           /\ Done(u, C, i, k, pcs) <=> Done(u, B, i, k, pcs) \/ Owns(u, B[a].work, i, k)
           /\ Owns(u, B[a].work, i, k) => ~Done(u, B, i, k, pcs)
<1> DEFINE size == Cardinality(DOMAIN B)
           w == B[a].work
<1> SUFFICES ASSUME NEW i \in Nat, NEW k \in Nat
             PROVE  /\ Done(u, C, i, k, pcs) <=> Done(u, B, i, k, pcs) \/ Owns(u, w, i, k)
                    /\ Owns(u, w, i, k) => ~Done(u, B, i, k, pcs)
  OBVIOUS
<1>1. ASSUME NEW o, NEW f, Covers(u, i, k, o, f)
      PROVE  /\ Beyond(new, o, f, pcs) <=> Beyond(B[a], o, f, pcs) \/ Owns(u, w, i, k)
             /\ Owns(u, w, i, k) => ~Beyond(B[a], o, f, pcs) /\ o % size = a
             /\ o % size \in DOMAIN B
  <2>1. /\ Beyond(new, o, f, pcs) <=> Beyond(B[a], o, f, pcs) \/ Owns(u, w, i, k)
        /\ Owns(u, w, i, k) => ~Beyond(B[a], o, f, pcs)
    BY <1>1, BeyondOwned
  <2>2. Owns(u, w, i, k) => o = B[a].idx BY <1>1, WorkOwns
  <2>3. o % size \in DOMAIN B BY <1>1, CoversType
  <2>4. QED BY <2>1, <2>2, <2>3
<1>2. ASSUME Owns(u, w, i, k)
      PROVE  \E o, f : Covers(u, i, k, o, f)
  <2>1. /\ w.k \in Nat /\ w.count \in Nat
        /\ \A n \in 0 .. w.count - 1 :
             Covers(u, TileIndex(u, TileOf(w)), w.k + n, B[a].idx, w.remaining - w.count + 1 + n)
    BY DEF WorkCovers
  <2> DEFINE n == k - w.k
  <2>2. n \in 0 .. w.count - 1 /\ w.k + n = k BY <1>2, <2>1 DEF Owns
  <2> HIDE DEF n
  <2>3. Covers(u, i, k, B[a].idx, w.remaining - w.count + 1 + n)
    BY <1>2, <2>1, <2>2 DEF Owns
  <2>4. QED BY <2>3
<1> HIDE DEF w
<1>3. ASSUME Done(u, C, i, k, pcs) PROVE Done(u, B, i, k, pcs) \/ Owns(u, w, i, k)
  <2>1. PICK o, f : Covers(u, i, k, o, f) /\ Beyond(C[o % size], o, f, pcs)
    BY <1>3 DEF Done
  <2>2. CASE o % size = a
    <3>1. Beyond(B[o % size], o, f, pcs) \/ Owns(u, w, i, k) BY <1>1, <2>1, <2>2
    <3>2. QED BY <2>1, <3>1 DEF Done
  <2>3. CASE o % size # a
    <3>1. Beyond(B[o % size], o, f, pcs) BY <1>1, <2>1, <2>3
    <3>2. QED BY <2>1, <3>1 DEF Done
  <2>4. QED BY <2>2, <2>3
<1>4. ASSUME Done(u, B, i, k, pcs) PROVE Done(u, C, i, k, pcs)
  <2>1. PICK o, f : Covers(u, i, k, o, f) /\ Beyond(B[o % size], o, f, pcs)
    BY <1>4 DEF Done
  <2>2. Beyond(C[o % size], o, f, pcs) BY <1>1, <2>1
  <2>3. QED BY <2>1, <2>2 DEF Done
<1>5. ASSUME Owns(u, w, i, k) PROVE Done(u, C, i, k, pcs) /\ ~Done(u, B, i, k, pcs)
  <2>1. PICK o, f : Covers(u, i, k, o, f) BY <1>2, <1>5 DEF w
  <2>2. Beyond(C[o % size], o, f, pcs) BY <1>1, <1>5, <2>1
  <2>3. Done(u, C, i, k, pcs) BY <2>1, <2>2 DEF Done
  <2>4. ASSUME Done(u, B, i, k, pcs) PROVE FALSE
    <3>1. PICK x, y : Covers(u, i, k, x, y) /\ Beyond(B[x % size], x, y, pcs)
      BY <2>4 DEF Done
    <3>2. QED BY <1>1, <1>5, <3>1
  <2>5. QED BY <2>3, <2>4
<1>6. QED BY <1>3, <1>4, <1>5

(* Every output tile was written as often as its last k tile was done.     *)
TimesAreDone(u, B, O) ==
  \A t \in DOMAIN O :
    /\ DOMAIN O[t] = {"sum", "times"}
    /\ O[t].times = IF Done(u, B, TileIndex(u, t), u.kt - 1, {"next"}) THEN 1 ELSE 0

OnceInv ==
  /\ WorkInv
  /\ host \in {"wait", "done"} => Blocks # {}
  /\ host = "done" => \A b \in Blocks : blk[b].pc = "exit"
  /\ \A b \in Blocks : UnitOnce(q, Cardinality(Blocks), b, blk[b])
  /\ TimesAreDone(q, blk, out)

LEMMA LaunchedGrid ==
  ASSUME TogetherInv, NEW b \in Blocks
  PROVE  /\ Cardinality(Blocks) \in Nat \ {0} /\ UsedUnits(q, Cardinality(Blocks))
         /\ \A o \in Nat : o % Cardinality(Blocks) \in Blocks
<1> DEFINE g == GridShape(problem, TiledCtaShape(problem),
                          problem.scheduler = "static", problem.scheduler = "stream-K")
           size == GridSize(Grid)
<1>1. problem \in Problems /\ q = Params(problem) BY DEF TogetherInv
<1>2. WholeClusters(Grid) /\ Grid = g BY DEF TogetherInv, GridIsLaunched, Grid
<1>3. g.x % problem.cm = 0 /\ g.y % problem.cn = 0 BY <1>2 DEF WholeClusters
<1>4. size \in Nat \ {0} /\ Blocks = 0 .. size - 1 /\ Cardinality(Blocks) = size
  BY Launched
<1>5. UsedUnits(Params(problem), GridSize(g)) BY <1>1, <1>3, LaunchedUnits
<1>6. UsedUnits(q, size) BY <1>1, <1>2, <1>5
<1> HIDE DEF size
<1>7. \A o \in Nat : o % size \in 0 .. size - 1 BY <1>4, DivMod
<1>8. QED BY <1>4, <1>6, <1>7

(* A valid work covers what it says. *)
LEMMA WorkOfBlock ==
  ASSUME OnceInv, NEW b \in Blocks, blk[b].pc # "pending", IsValid(blk[b].work)
  PROVE  WorkCovers(q, blk[b].idx, blk[b].work)
<1>1. /\ problem \in Problems /\ FittedParams(q) /\ Same(q, UnderlyingParams(problem))
  BY LaunchedFitted DEF OnceInv, WorkInv
<1>2. blk[b].idx \in Nat /\ HasWork(q, blk[b].idx, blk[b].start, blk[b].work)
  BY DEF OnceInv, UnitOnce
<1>3. QED BY <1>1, <1>2, HasWorkCovers

LEMMA GotoOnce ==
  ASSUME OnceInv, WorkInv', NEW a \in Blocks, NEW s, Goto(a, s), UNCHANGED <<q, host>>,
         blk[a].pc \notin {"pending", "exit"}, s # "pending",
         s = "exit" => ~IsValid(blk[a].work),
         s \in {"store", "lock", "reduce", "arrive", "epilogue", "next"} => IsValid(blk[a].work),
         s \in {"store", "reduce", "arrive"} => ~ComputeEpilogue(q, blk[a].work),
         s = "epilogue" => ComputeEpilogue(q, blk[a].work),
         TimesAreDone(q, blk', out')
  PROVE  OnceInv'
<1>1. Blocks' = Blocks /\ DOMAIN blk' = DOMAIN blk BY DEF Goto, Blocks
<1>2. /\ host # "done" /\ host' = host /\ q' = q BY DEF OnceInv
<1>3. ASSUME NEW b \in Blocks PROVE UnitOnce(q, Cardinality(Blocks), b, blk'[b])
  <2>1. UnitOnce(q, Cardinality(Blocks), b, blk[b]) BY DEF OnceInv
  <2>2. CASE b # a
    <3>1. blk'[b] = blk[b] BY <2>2 DEF Goto, Blocks
    <3>2. QED BY <2>1, <3>1
  <2>3. CASE b = a
    <3>1. DOMAIN blk[a] = {"idx", "work", "start", "nth", "pc"}
      BY DEF OnceInv, WorkInv, TogetherInv, Placed
    <3>2. /\ blk'[b].pc = s /\ blk'[b].idx = blk[a].idx /\ blk'[b].start = blk[a].start
          /\ blk'[b].work = blk[a].work
      BY <2>3, <3>1 DEF Goto, Blocks
    <3>3. QED BY <2>1, <2>3, <3>2 DEF UnitOnce
  <2>4. QED BY <2>2, <2>3
<1>4. TimesAreDone(q', blk', out') BY <1>2
<1>5. Blocks' # {} /\ \A b \in Blocks' : UnitOnce(q', Cardinality(Blocks'), b, blk'[b])
  BY <1>1, <1>2, <1>3
<1>6. QED BY <1>2, <1>4, <1>5 DEF OnceInv

(* A step of a block to a state in which its work is as much done as       *)
(* before does nothing.                                                    *)
LEMMA QuietStep ==
  ASSUME OnceInv, NEW a \in Blocks, NEW s, Goto(a, s), NEW pcs,
         blk[a].pc # "pending", s # "pending", blk[a].pc \in pcs <=> s \in pcs
  PROVE  \A i, k : Done(q, blk', i, k, pcs) <=> Done(q, blk, i, k, pcs)
<1>1. DOMAIN blk' = DOMAIN blk /\ a \in DOMAIN blk BY DEF Goto, Blocks
<1>2. DOMAIN blk[a] = {"idx", "work", "start", "nth", "pc"}
  BY DEF OnceInv, WorkInv, TogetherInv, Placed
<1>3. /\ blk'[a].pc = s /\ blk'[a].idx = blk[a].idx /\ blk'[a].work = blk[a].work
      /\ \A b \in Blocks : b # a => blk'[b] = blk[b]
  BY <1>1, <1>2 DEF Goto, Blocks
<1>4. ASSUME NEW o, NEW f, NEW b \in Blocks
      PROVE  Beyond(blk'[b], o, f, pcs) <=> Beyond(blk[b], o, f, pcs)
  <2>1. CASE b # a BY <1>3, <2>1
  <2>2. CASE b = a BY <1>3, <2>2 DEF Beyond
  <2>3. QED BY <2>1, <2>2
<1>5. FittedParams(q) /\ \A o \in Nat : o % Cardinality(Blocks) \in Blocks
  BY LaunchedGrid, LaunchedFitted DEF OnceInv, WorkInv
<1>6. \A i, k, o, f : Covers(q, i, k, o, f) =>
        LET b == o % Cardinality(DOMAIN blk)
        IN  Beyond(blk'[b], o, f, pcs) <=> Beyond(blk[b], o, f, pcs)
  BY <1>4, <1>5, CoversType DEF Blocks
<1>7. QED BY <1>1, <1>6, DoneStays

LEMMA QuietTimes ==
  ASSUME OnceInv, NEW a \in Blocks, NEW s, Goto(a, s), out' = out,
         blk[a].pc \notin {"pending", "next"}, s \notin {"pending", "next"}
  PROVE  TimesAreDone(q, blk', out')
<1>1. \A i, k : Done(q, blk', i, k, {"next"}) <=> Done(q, blk, i, k, {"next"})
  BY QuietStep
<1>2. QED BY <1>1 DEF OnceInv, TimesAreDone

(* A block that finishes its work has done what it owns. *)
LEMMA DoneByGoto ==
  ASSUME OnceInv, NEW a \in Blocks, NEW s, Goto(a, s), NEW pcs, s \in pcs, s # "pending",
         blk[a].pc # "pending", blk[a].pc \notin pcs, IsValid(blk[a].work)
  PROVE  \A i, k \in Nat :
           /\ Done(q, blk', i, k, pcs) <=> Done(q, blk, i, k, pcs) \/ Owns(q, blk[a].work, i, k)
           /\ Owns(q, blk[a].work, i, k) => ~Done(q, blk, i, k, pcs)
<1> DEFINE new == [blk[a] EXCEPT !.pc = s]
<1>1. /\ DOMAIN blk' = DOMAIN blk /\ a \in DOMAIN blk /\ blk'[a] = new
      /\ \A b \in DOMAIN blk : b # a => blk'[b] = blk[b]
  BY DEF Goto, Blocks
<1>2. DOMAIN blk[a] = {"idx", "work", "start", "nth", "pc"}
  BY DEF OnceInv, WorkInv, TogetherInv, Placed
<1>3. new.pc = s /\ new.idx = blk[a].idx /\ new.work = blk[a].work BY <1>2
<1>4. FittedParams(q) /\ \A o \in Nat : o % Cardinality(DOMAIN blk) \in DOMAIN blk
  BY LaunchedGrid, LaunchedFitted DEF OnceInv, WorkInv, Blocks
<1>5. blk[a].idx \in Nat /\ blk[a].idx % Cardinality(DOMAIN blk) = a
  BY DEF OnceInv, UnitOnce, Blocks
<1>6. WorkCovers(q, blk[a].idx, blk[a].work) BY WorkOfBlock
<1> DEFINE C == blk'
<1> HIDE DEF new, C
<1>7. /\ DOMAIN C = DOMAIN blk /\ C[a] = new
      /\ \A b \in DOMAIN blk : b # a => C[b] = blk[b]
  BY <1>1 DEF C
<1>8. \A i, k \in Nat :
        /\ Done(q, C, i, k, pcs) <=> Done(q, blk, i, k, pcs) \/ Owns(q, blk[a].work, i, k)
        /\ Owns(q, blk[a].work, i, k) => ~Done(q, blk, i, k, pcs)
  BY <1>1, <1>3, <1>4, <1>5, <1>6, <1>7, DoneOwned
<1>9. QED BY <1>8 DEF C

(* The tiles that are written have indices of their own. *)
LEMMA TilesOfOut ==
  ASSUME OnceInv, NEW b \in Blocks
  PROVE  /\ DOMAIN out = Tiles(q) /\ q.kt \in Nat \ {0}
         /\ \A t \in Tiles(q) : TileIndex(q, t) \in Nat
         /\ \A s, t \in Tiles(q) : TileIndex(q, s) = TileIndex(q, t) => s = t
<1>1. /\ problem \in Problems /\ FittedParams(q) /\ Same(q, UnderlyingParams(problem))
  BY LaunchedFitted DEF OnceInv, WorkInv
<1>2. ASSUME NEW t \in Tiles(q)
      PROVE  /\ TileIndex(q, t) \in 0 .. q.blocks_per_problem - 1
             /\ \A s \in Tiles(q) : TileIndex(q, s) = TileIndex(q, t) => s = t
  BY <1>1, TilesHaveIndices
<1>3. DOMAIN out = Tiles(q) BY DEF OnceInv, WorkInv, Tiles
<1>4. q.blocks_per_problem \in Nat /\ q.kt \in Nat \ {0}
  BY <1>1, UnitsType DEF FittedParams
<1>5. \A t \in Tiles(q) : TileIndex(q, t) \in Nat BY <1>2, <1>4
<1>6. QED BY <1>2, <1>3, <1>4, <1>5

(* Who arrives has not done the last k tile of its output tile. *)
LEMMA ArriveTimes ==
  ASSUME OnceInv, NEW a \in Blocks, Goto(a, "next"), out' = out,
         blk[a].pc \notin {"pending", "next"}, IsValid(blk[a].work),
         ~ComputeEpilogue(q, blk[a].work)
  PROVE  TimesAreDone(q, blk', out')
<1> DEFINE w == blk[a].work
<1>1. /\ DOMAIN out = Tiles(q) /\ q.kt \in Nat \ {0}
      /\ \A t \in Tiles(q) : TileIndex(q, t) \in Nat
  BY TilesOfOut
<1>2. \A i, k \in Nat :
        Done(q, blk', i, k, {"next"}) <=> Done(q, blk, i, k, {"next"}) \/ Owns(q, w, i, k)
  BY DoneByGoto
<1>3. w.k \in Nat /\ w.count \in Nat /\ w.k + w.count <= q.kt /\ w.k + w.count # q.kt
  BY WorkOfBlock DEF WorkCovers, ComputeEpilogue
<1> HIDE DEF w
<1>4. \A i : ~Owns(q, w, i, q.kt - 1) BY <1>1, <1>3 DEF Owns
<1>5. q.kt - 1 \in Nat BY <1>1
<1>6. ASSUME NEW t \in DOMAIN out
      PROVE  Done(q, blk', TileIndex(q, t), q.kt - 1, {"next"})
               <=> Done(q, blk, TileIndex(q, t), q.kt - 1, {"next"})
  BY <1>1, <1>2, <1>4, <1>5
<1>7. QED BY <1>6 DEF OnceInv, TimesAreDone

(* Who writes its output tile has just done its last k tile. *)
LEMMA EpilogueTimes ==
  ASSUME OnceInv, NEW a \in Blocks, Epilogue(a)
  PROVE  TimesAreDone(q, blk', out')
<1> DEFINE w == blk[a].work
           tile == TileOf(w)
           sum == IF RequiresFixup(q, w) THEN Append(partial[Tile(a)], Own(a)) ELSE <<Own(a)>>
<1>1. /\ DOMAIN out = Tiles(q) /\ q.kt \in Nat \ {0}
      /\ \A t \in Tiles(q) : TileIndex(q, t) \in Nat
      /\ \A s, t \in Tiles(q) : TileIndex(q, s) = TileIndex(q, t) => s = t
  BY TilesOfOut
<1>2. /\ blk[a].pc = "epilogue" /\ Goto(a, "next")
      /\ out' = [out EXCEPT ![tile] = [sum |-> sum, times |-> @.times + 1]]
  BY DEF Epilogue
<1>3. IsValid(w) /\ ComputeEpilogue(q, w) BY <1>2 DEF OnceInv, UnitOnce
<1>4. \A i, k \in Nat :
        /\ Done(q, blk', i, k, {"next"}) <=> Done(q, blk, i, k, {"next"}) \/ Owns(q, w, i, k)
        /\ Owns(q, w, i, k) => ~Done(q, blk, i, k, {"next"})
  BY <1>2, <1>3, DoneByGoto
<1>5. /\ w.k \in Nat /\ w.count \in Nat \ {0} /\ w.k + w.count = q.kt /\ tile \in Tiles(q)
  BY <1>2, <1>3, WorkOfBlock DEF WorkCovers, ComputeEpilogue
<1>6. \A i : Owns(q, w, i, q.kt - 1) <=> i = TileIndex(q, tile)
  <2> DEFINE k == w.k
             count == w.count
             kt == q.kt
  <2>1. k \in Nat /\ count \in Nat \ {0} /\ k + count = kt /\ kt \in Nat BY <1>1, <1>5
  <2> HIDE DEF k, count, kt
  <2>2. k <= kt - 1 /\ kt - 1 < k + count BY <2>1
  <2>3. QED BY <2>2 DEF Owns, k, count, kt
<1> HIDE DEF w, sum, tile
<1>7. q.kt - 1 \in Nat BY <1>1
<1>8. DOMAIN out' = DOMAIN out BY <1>2
<1>9. ASSUME NEW t \in DOMAIN out
      PROVE  /\ DOMAIN out'[t] = {"sum", "times"}
             /\ out'[t].times = IF Done(q, blk', TileIndex(q, t), q.kt - 1, {"next"}) THEN 1 ELSE 0
  <2> DEFINE i == TileIndex(q, t)
             before == Done(q, blk, i, q.kt - 1, {"next"})
             after == Done(q, blk', i, q.kt - 1, {"next"})
  <2>1. i \in Nat /\ t \in Tiles(q) BY <1>1
  <2>2. DOMAIN out[t] = {"sum", "times"} /\ out[t].times = IF before THEN 1 ELSE 0
    BY DEF OnceInv, TimesAreDone
  <2>3. /\ after <=> before \/ Owns(q, w, i, q.kt - 1)
        /\ Owns(q, w, i, q.kt - 1) => ~before
    BY <1>4, <1>7, <2>1
  <2>4. Owns(q, w, i, q.kt - 1) <=> t = tile BY <1>1, <1>5, <1>6, <2>1
  <2> HIDE DEF before, after
  <2>5. CASE t = tile
    <3>1. DOMAIN out'[t] = {"sum", "times"} /\ out'[t].times = out[t].times + 1
      BY <1>2, <2>5
    <3>2. after /\ ~before BY <2>3, <2>4, <2>5
    <3>3. out'[t].times = IF after THEN 1 ELSE 0 BY <2>2, <3>1, <3>2
    <3>4. QED BY <3>1, <3>3 DEF after
  <2>6. CASE t # tile
    <3>1. out'[t] = out[t] BY <1>2, <2>6
    <3>2. out'[t].times = IF after THEN 1 ELSE 0 BY <2>2, <2>3, <2>4, <2>6, <3>1
    <3>3. QED BY <2>2, <3>1, <3>2 DEF after
  <2>7. QED BY <2>5, <2>6
<1>10. QED BY <1>8, <1>9 DEF TimesAreDone

(* Steps that leave what has been done, with pcs in general. *)
LEMMA FetchOnce ==
  ASSUME OnceInv, WorkInv', NEW a \in Blocks, FetchNextWork(a)
  PROVE  /\ OnceInv'
         /\ \A pcs : "next" \in pcs /\ "mainloop" \notin pcs =>
              \A i, k : Done(q, blk', i, k, pcs) <=> Done(q, blk, i, k, pcs)
<1> DEFINE size == Cardinality(Blocks)
           new == NextUnit(q, size, blk[a])
<1>1. /\ host' = host /\ q' = q /\ out' = out /\ blk[a].pc = "next"
      /\ blk' = [blk EXCEPT ![a] = new]
  BY DEF FetchNextWork, NextUnit, FetchedUnit, Fetched, hostvars
<1>2. /\ Blocks' = Blocks /\ DOMAIN blk' = DOMAIN blk /\ blk'[a] = new
      /\ \A b \in Blocks : b # a => blk'[b] = blk[b]
  BY <1>1 DEF Blocks
<1>3. size \in Nat \ {0} /\ UsedUnits(q, size) /\ \A o \in Nat : o % size \in Blocks
  BY LaunchedGrid DEF OnceInv, WorkInv
<1>4. /\ problem \in Problems /\ FittedParams(q) /\ Same(q, UnderlyingParams(problem))
      /\ q.scheduler \in {"static", "stream-K"}
  BY LaunchedFitted DEF OnceInv, WorkInv
<1>5. DOMAIN blk[a] = {"idx", "work", "start", "nth", "pc"}
  BY DEF OnceInv, WorkInv, TogetherInv, Placed
<1>6. \A b \in Blocks : UnitOnce(q, size, b, blk[b]) BY DEF OnceInv
<1>7. /\ UnitOnce(q, size, a, new)
      /\ \A pcs, i, k, o, f :
           "next" \in pcs /\ "mainloop" \notin pcs /\ Covers(q, i, k, o, f) /\ o % size = a =>
             (Beyond(new, o, f, pcs) <=> Beyond(blk[a], o, f, pcs))
  <2> HIDE DEF size
  <2>1. QED BY <1>1, <1>3, <1>4, <1>5, <1>6, NextOnce
<1> HIDE DEF new
<1>8. ASSUME NEW pcs, "next" \in pcs, "mainloop" \notin pcs
      PROVE  \A i, k : Done(q, blk', i, k, pcs) <=> Done(q, blk, i, k, pcs)
  <2>1. ASSUME NEW i, NEW k, NEW o, NEW f, Covers(q, i, k, o, f)
        PROVE  Beyond(blk'[o % size], o, f, pcs) <=> Beyond(blk[o % size], o, f, pcs)
    <3>1. o % size \in Blocks BY <1>3, <1>4, <2>1, CoversType
    <3>2. CASE o % size = a BY <1>2, <1>7, <1>8, <2>1, <3>2
    <3>3. CASE o % size # a BY <1>2, <3>1, <3>3
    <3>4. QED BY <3>2, <3>3
  <2>2. \A i, k, o, f : Covers(q, i, k, o, f) =>
          LET b == o % Cardinality(DOMAIN blk)
          IN  Beyond(blk'[b], o, f, pcs) <=> Beyond(blk[b], o, f, pcs)
    BY <2>1 DEF Blocks
  <2>3. QED BY <1>2, <2>2, DoneStays
<1>9. TimesAreDone(q', blk', out')
  <2>1. \A i, k : Done(q, blk', i, k, {"next"}) <=> Done(q, blk, i, k, {"next"}) BY <1>8
  <2>2. QED BY <1>1, <2>1 DEF OnceInv, TimesAreDone
<1>10. \A b \in Blocks' : UnitOnce(q', Cardinality(Blocks'), b, blk'[b])
  BY <1>1, <1>2, <1>6, <1>7
<1>11. host # "done" BY <1>1 DEF OnceInv
<1>12. OnceInv' BY <1>1, <1>2, <1>9, <1>10, <1>11 DEF OnceInv
<1>13. QED BY <1>8, <1>12

LEMMA DispatchOnce ==
  ASSUME OnceInv, WorkInv', Dispatch
  PROVE  /\ OnceInv'
         /\ \A pcs : "mainloop" \notin pcs =>
              \A i, k : Done(q, blk', i, k, pcs) <=> Done(q, blk, i, k, pcs)
<1> DEFINE size == Cardinality(Blocks)
           new(b) == FetchedUnit(q, blk[b], b)
<1>1. /\ host' = host /\ host = "wait" /\ q' = q /\ out' = out
      /\ blk' = [b \in Blocks |-> IF Cluster(b) = next THEN new(b) ELSE blk[b]]
  BY DEF Dispatch, FetchedUnit, Fetched
<1>2. Blocks' = Blocks /\ DOMAIN blk' = DOMAIN blk /\ Blocks # {}
  BY <1>1 DEF Blocks, OnceInv
<1>3. /\ size \in Nat \ {0} /\ UsedUnits(q, size) /\ \A o \in Nat : o % size \in Blocks
      /\ FittedParams(q) /\ q.scheduler \in {"static", "stream-K"} /\ \A b \in Blocks : b \in Nat
  BY <1>2, LaunchedGrid, LaunchedFitted, Launched DEF OnceInv, WorkInv
<1>4. ASSUME NEW b \in Blocks, Cluster(b) = next
      PROVE  blk[b].pc = "pending" /\ blk[b].idx = b /\ b % size = b
  <2>1. next \in Nat /\ UnitOnce(q, size, b, blk[b])
    BY DEF OnceInv, WorkInv, TogetherInv
  <2>2. blk[b].pc = "pending" /\ blk[b].idx = b
    BY <1>4, <2>1 DEF OnceInv, WorkInv, TogetherInv, PendingBlocks
  <2>3. QED BY <2>1, <2>2 DEF UnitOnce
<1>5. ASSUME NEW b \in Blocks PROVE UnitOnce(q, size, b, blk'[b])
  <2>1. CASE Cluster(b) = next
    <3> DEFINE fetched == new(b)
    <3>1. blk'[b] = fetched /\ fetched.idx = b /\ fetched.pc = "mainloop"
      BY <1>1, <2>1 DEF FetchedUnit
    <3>2. b \in Nat /\ b % size = b BY <1>3, <1>4, <2>1
    <3>3. /\ HasWork(q, b, fetched.start, fetched.work)
          /\ ~IsValid(fetched.work) => b + size >= Units(q)
      <4> HIDE DEF size
      <4>1. LET x == FetchedUnit(q, blk[b], b)
            IN  /\ HasWork(q, b, x.start, x.work)
                /\ ~IsValid(x.work) => b + size >= Units(q)
                /\ \A i, k, f : Covers(q, i, k, b, f) => f \in 1 .. x.work.remaining
        BY <1>3, <3>2, FetchedHasWork
      <4>2. QED BY <4>1
    <3> HIDE DEF new, fetched
    <3>4. QED BY <3>1, <3>2, <3>3 DEF UnitOnce
  <2>2. CASE Cluster(b) # next BY <1>1, <2>2 DEF OnceInv
  <2>3. QED BY <2>1, <2>2
<1>6. ASSUME NEW pcs, "mainloop" \notin pcs
      PROVE  \A i, k : Done(q, blk', i, k, pcs) <=> Done(q, blk, i, k, pcs)
  <2>1. ASSUME NEW i, NEW k, NEW o, NEW f, Covers(q, i, k, o, f)
        PROVE  Beyond(blk'[o % size], o, f, pcs) <=> Beyond(blk[o % size], o, f, pcs)
    <3> DEFINE b == o % size
    <3>1. b \in Blocks BY <1>3, <2>1, CoversType
    <3> HIDE DEF b
    <3>2. CASE Cluster(b) = next
      <4>1. blk'[b] = FetchedUnit(q, blk[b], b) BY <1>1, <3>1, <3>2
      <4>2. b \in Nat BY <1>3, <3>1
      <4>3. Beyond(FetchedUnit(q, blk[b], b), o, f, pcs) <=> b > o
        <5> HIDE DEF size
        <5>1. QED BY <1>3, <1>6, <2>1, <4>2, BeyondFetched
      <4>4. Beyond(blk[b], o, f, pcs) <=> b > o BY <1>4, <3>1, <3>2 DEF Beyond
      <4>5. QED BY <4>1, <4>3, <4>4 DEF b
    <3>3. CASE Cluster(b) # next BY <1>1, <3>1, <3>3 DEF b
    <3>4. QED BY <3>2, <3>3
  <2>2. \A i, k, o, f : Covers(q, i, k, o, f) =>
          LET b == o % Cardinality(DOMAIN blk)
          IN  Beyond(blk'[b], o, f, pcs) <=> Beyond(blk[b], o, f, pcs)
    BY <2>1 DEF Blocks
  <2>3. QED BY <1>2, <2>2, DoneStays
<1>7. TimesAreDone(q', blk', out')
  <2>1. \A i, k : Done(q, blk', i, k, {"next"}) <=> Done(q, blk, i, k, {"next"}) BY <1>6
  <2>2. QED BY <1>1, <2>1 DEF OnceInv, TimesAreDone
<1>8. \A b \in Blocks' : UnitOnce(q', Cardinality(Blocks'), b, blk'[b])
  BY <1>1, <1>2, <1>5
<1>9. OnceInv' BY <1>1, <1>2, <1>7, <1>8 DEF OnceInv
<1>10. QED BY <1>6, <1>9

(* A new grid has done nothing yet. *)
LEMMA RunGrid ==
  ASSUME TogetherInv, Run, WholeClusters(Grid)
  PROVE  /\ GridSize(Grid) \in Nat \ {0} /\ FittedParams(q)
         /\ Blocks' = 0 .. GridSize(Grid) - 1 /\ DOMAIN blk' = Blocks'
         /\ Cardinality(Blocks') = GridSize(Grid)
         /\ \A b \in Blocks' : /\ blk'[b].pc = "pending" /\ blk'[b].idx = b
                               /\ blk'[b].work = InvalidWork
<1> DEFINE g == GridShape(problem, TiledCtaShape(problem),
                          problem.scheduler = "static", problem.scheduler = "stream-K")
           size == GridSize(Grid)
<1>1. problem \in Problems /\ q = Params(problem) /\ Grid = g BY DEF TogetherInv, Grid
<1>2. g.x % problem.cm = 0 /\ g.y % problem.cn = 0 BY <1>1 DEF WholeClusters
<1>3. FittedParams(q) BY <1>1, <1>2, LaunchedFits
<1>4. g.x \in Nat \ {0} /\ g.y \in Nat \ {0} BY <1>1, GridType
<1>5. size \in Nat \ {0}
  <2> HIDE DEF g
  <2>1. QED BY <1>1, <1>4 DEF GridSize
<1>6. blk' = [b \in 0 .. size - 1 |->
                [pc |-> "pending", idx |-> b, start |-> 0, work |-> InvalidWork, nth |-> 0]]
  BY DEF Run
<1> HIDE DEF size
<1>7. Cardinality(0 .. size - 1) = size BY <1>5, FS_Interval
<1>8. Blocks' = 0 .. size - 1 /\ DOMAIN blk' = Blocks' /\ Cardinality(Blocks') = size
  BY <1>6, <1>7 DEF Blocks
<1>9. QED BY <1>3, <1>5, <1>6, <1>8 DEF size

LEMMA RunOnce ==
  ASSUME OnceInv, WorkInv', Run, WholeClusters(Grid)
  PROVE  /\ OnceInv'
         /\ \A pcs, i, k : ~Done(q, blk', i, k, pcs)
<1> DEFINE size == GridSize(Grid)
<1>1. /\ size \in Nat \ {0} /\ FittedParams(q)
      /\ Blocks' = 0 .. size - 1 /\ DOMAIN blk' = Blocks' /\ Cardinality(Blocks') = size
      /\ \A b \in Blocks' : /\ blk'[b].pc = "pending" /\ blk'[b].idx = b
                            /\ blk'[b].work = InvalidWork
  BY RunGrid DEF OnceInv, WorkInv
<1>2. /\ host' = "wait" /\ q' = q /\ out' = [t \in DOMAIN out |-> [out[t] EXCEPT !.times = 0]]
  BY DEF Run
<1> HIDE DEF size
<1>3. ASSUME NEW pcs, NEW i, NEW k, Done(q, blk', i, k, pcs) PROVE FALSE
  <2>1. PICK o, f : Covers(q, i, k, o, f) /\ Beyond(blk'[o % size], o, f, pcs)
    BY <1>1, <1>3 DEF Done
  <2>2. o \in Nat BY <1>1, <2>1, CoversType
  <2> DEFINE b == o % size
  <2>3. b \in 0 .. size - 1 /\ b <= o
    <3>1. /\ o \div size \in Nat /\ o % size \in 0 .. size - 1
          /\ o = (o \div size) * size + (o % size)
      BY <1>1, <2>2, DivMod
    <3> DEFINE c == o \div size
               r == o % size
    <3>2. c \in Nat /\ r \in 0 .. size - 1 /\ o = c * size + r BY <3>1
    <3> HIDE DEF c, r
    <3>3. r <= o
      <4>1. c * size \in Nat /\ r \in Nat BY <1>1, <3>2
      <4>2. QED BY <3>2, <4>1
    <3>4. QED BY <3>1, <3>3 DEF r
  <2> HIDE DEF b
  <2>4. blk'[b].pc = "pending" /\ blk'[b].idx = b BY <1>1, <2>3
  <2>5. Beyond(blk'[b], o, f, pcs) BY <2>1 DEF b
  <2>6. b > o BY <2>4, <2>5 DEF Beyond
  <2>7. QED BY <1>1, <2>2, <2>3, <2>6
<1>4. TimesAreDone(q', blk', out')
  <2>1. /\ DOMAIN out' = DOMAIN out
        /\ \A t \in DOMAIN out : DOMAIN out'[t] = {"sum", "times"} /\ out'[t].times = 0
    <3>1. \A t \in DOMAIN out : DOMAIN out[t] = {"sum", "times"}
      BY DEF OnceInv, TimesAreDone
    <3>2. QED BY <1>2, <3>1
  <2>2. QED BY <1>2, <1>3, <2>1 DEF TimesAreDone
<1>5. ASSUME NEW b \in Blocks' PROVE UnitOnce(q', Cardinality(Blocks'), b, blk'[b])
  <2>1. b \in Nat /\ b \in 0 .. size - 1 BY <1>1
  <2>2. b % size = b
    <3>1. b = 0 * size + b BY <1>1, <2>1
    <3>2. (0 * size + b) % size = b BY <1>1, <2>1, DivModUnique
    <3>3. QED BY <3>1, <3>2
  <2>3. blk'[b].pc = "pending" /\ blk'[b].idx = b BY <1>1
  <2>4. UnitOnce(q', size, b, blk'[b]) BY <2>1, <2>2, <2>3 DEF UnitOnce
  <2>5. QED BY <1>1, <2>4
<1>6. Blocks' # {}
  <2>1. 0 \in 0 .. size - 1 BY <1>1
  <2>2. QED BY <1>1, <2>1
<1>7. OnceInv' BY <1>2, <1>4, <1>5, <1>6 DEF OnceInv
<1>8. QED BY <1>3, <1>7

LEMMA InitiallyOnce == Init => OnceInv
<1> SUFFICES ASSUME Init PROVE OnceInv
  OBVIOUS
<1>1. WorkInv BY InitiallyFits
<1>2. Blocks = {} /\ DOMAIN blk = {} /\ host = "initialize" BY DEF Init, Blocks
<1>3. out = [t \in Tiles(q) |-> [sum |-> <<>>, times |-> 0]] BY DEF Init, Tiles
<1>4. \A i, k, pcs : ~Done(q, blk, i, k, pcs) BY <1>2 DEF Done
<1>5. TimesAreDone(q, blk, out) BY <1>3, <1>4 DEF TimesAreDone
<1>6. QED BY <1>1, <1>2, <1>5 DEF OnceInv

(* The steps of the host, except for a launch. *)
LEMMA HostOnce ==
  ASSUME OnceInv, WorkInv', UNCHANGED <<q, blk, out>>, host' \in {"wait", "done"} => Blocks # {},
         host' = "done" => \A b \in Blocks : blk[b].pc = "exit"
  PROVE  OnceInv'
  BY DEF OnceInv, Blocks

(* The mainloop goes where its work belongs. *)
LEMMA MainloopGoes ==
  ASSUME OnceInv, NEW a \in Blocks, Mainloop(a)
  PROVE  \E s \in {"exit", "epilogue", "store", "lock"} :
           /\ Goto(a, s) /\ UNCHANGED <<q, host, out, lock, partial, runs, next>>
           /\ s = "exit" <=> ~IsValid(blk[a].work)
           /\ s = "store" => ~ComputeEpilogue(q, blk[a].work) /\ blk[a].work.k = 0
           /\ s = "epilogue" => ComputeEpilogue(q, blk[a].work) /\ ~RequiresFixup(q, blk[a].work)
           /\ s = "lock" => blk[a].work.k > 0
<1> DEFINE w == blk[a].work
           to == CASE ~IsValid(w) -> "exit"
                   [] IsValid(w) /\ ~RequiresFixup(q, w) ->
                        IF ComputeEpilogue(q, w) THEN "epilogue" ELSE "next"
                   [] RequiresFixup(q, w) /\ ~ComputeEpilogue(q, w) /\ w.k = 0 -> "store"
                   [] OTHER -> "lock"
<1>1. Goto(a, to) /\ blk[a].pc = "mainloop" /\ UNCHANGED <<q, host, out, lock, partial, runs, next>>
  BY DEF Mainloop, hostvars
<1>2. IsValid(w) => WorkCovers(q, blk[a].idx, w) /\ q.kt \in Nat
  BY <1>1, WorkOfBlock, TilesOfOut
<1>3. IsValid(w) => /\ w.k \in Nat /\ w.count \in Nat \ {0} /\ q.kt \in Nat
                    /\ w.k + w.count <= q.kt
  BY <1>2 DEF WorkCovers
<1> HIDE DEF w
<1>4. CASE ~IsValid(w)
  <2>1. to = "exit" BY <1>4 DEF RequiresFixup
  <2> HIDE DEF to
  <2>2. QED BY <1>1, <1>4, <2>1 DEF w
<1>5. CASE IsValid(w) /\ ~RequiresFixup(q, w)
  <2>1. w.count = q.kt BY <1>5 DEF RequiresFixup
  <2>2. ComputeEpilogue(q, w) BY <1>3, <1>5, <2>1 DEF ComputeEpilogue
  <2>3. to = "epilogue" BY <1>5, <2>2
  <2> HIDE DEF to
  <2>4. QED BY <1>1, <1>5, <2>2, <2>3 DEF w
<1>6. CASE IsValid(w) /\ RequiresFixup(q, w) /\ ~ComputeEpilogue(q, w) /\ w.k = 0
  <2>1. to = "store" BY <1>6
  <2> HIDE DEF to
  <2>2. QED BY <1>1, <1>6, <2>1 DEF w
<1>7. CASE IsValid(w) /\ RequiresFixup(q, w) /\ ~(~ComputeEpilogue(q, w) /\ w.k = 0)
  <2>1. to = "lock" BY <1>7
  <2>2. w.k > 0
    <3>1. CASE w.k = 0
      <4>1. w.count = q.kt BY <1>3, <1>7, <3>1 DEF ComputeEpilogue
      <4>2. QED BY <1>7, <4>1 DEF RequiresFixup
    <3>2. QED BY <1>3, <1>7, <3>1
  <2> HIDE DEF to
  <2>3. QED BY <1>1, <1>7, <2>1, <2>2 DEF w
<1>8. QED BY <1>4, <1>5, <1>6, <1>7

LEMMA OnceStep == OnceInv /\ [Next]_vars => OnceInv'
<1> SUFFICES ASSUME OnceInv, [Next]_vars PROVE OnceInv'
  OBVIOUS
<1>1. WorkInv' BY FitsStep DEF OnceInv
<1>2. CASE Initialize BY <1>1, <1>2, HostOnce DEF Initialize
<1>3. CASE Run
  <2>1. CASE WholeClusters(Grid) BY <1>1, <1>3, <2>1, RunOnce
  <2>2. CASE ~WholeClusters(Grid) BY <1>1, <1>3, <2>2, HostOnce DEF Run
  <2>3. QED BY <2>1, <2>2
<1>4. CASE Synchronize
  <2>1. /\ host = "wait" /\ UNCHANGED <<q, blk, out>> /\ \A c \in Clusters : Exited(c)
    BY <1>4 DEF Synchronize
  <2>2. \A b \in Blocks : blk[b].pc = "exit" BY <2>1 DEF Clusters, Exited
  <2>3. Blocks # {} BY <2>1 DEF OnceInv
  <2>4. QED BY <1>1, <2>1, <2>2, <2>3, HostOnce
<1>5. CASE Dispatch BY <1>1, <1>5, DispatchOnce
<1>6. ASSUME NEW b \in Blocks, Block(b) PROVE OnceInv'
  <2>1. UnitOnce(q, Cardinality(Blocks), b, blk[b]) BY DEF OnceInv
  <2>2. CASE Mainloop(b)
    <3>1. PICK s \in {"exit", "epilogue", "store", "lock"} :
            /\ Goto(b, s) /\ UNCHANGED <<q, host, out>>
            /\ s = "exit" <=> ~IsValid(blk[b].work)
            /\ s = "store" => ~ComputeEpilogue(q, blk[b].work)
            /\ s = "epilogue" => ComputeEpilogue(q, blk[b].work)
      BY <2>2, MainloopGoes
    <3>2. blk[b].pc = "mainloop" BY <2>2 DEF Mainloop
    <3>3. TimesAreDone(q, blk', out') BY <3>1, <3>2, QuietTimes
    <3>4. QED BY <1>1, <3>1, <3>2, <3>3, GotoOnce
  <2>3. CASE Store(b)
    <3>1. Goto(b, "arrive") /\ UNCHANGED <<q, host, out>> /\ blk[b].pc = "store"
      BY <2>3 DEF Store, hostvars
    <3>2. IsValid(blk[b].work) /\ ~ComputeEpilogue(q, blk[b].work)
      BY <2>1, <3>1 DEF UnitOnce
    <3>3. TimesAreDone(q, blk', out') BY <3>1, QuietTimes
    <3>4. QED BY <1>1, <3>1, <3>2, <3>3, GotoOnce
  <2>4. CASE Lock(b)
    <3> DEFINE to == IF ComputeEpilogue(q, blk[b].work) THEN "epilogue" ELSE "reduce"
    <3>1. Goto(b, to) /\ UNCHANGED <<q, host, out>> /\ blk[b].pc = "lock"
      BY <2>4 DEF Lock, hostvars
    <3>2. /\ IsValid(blk[b].work) /\ to \in {"epilogue", "reduce"}
          /\ to = "reduce" => ~ComputeEpilogue(q, blk[b].work)
          /\ to = "epilogue" => ComputeEpilogue(q, blk[b].work)
      BY <2>1, <3>1 DEF UnitOnce
    <3> HIDE DEF to
    <3>3. TimesAreDone(q, blk', out') BY <3>1, <3>2, QuietTimes
    <3>4. QED BY <1>1, <3>1, <3>2, <3>3, GotoOnce
  <2>5. CASE Reduce(b)
    <3>1. Goto(b, "arrive") /\ UNCHANGED <<q, host, out>> /\ blk[b].pc = "reduce"
      BY <2>5 DEF Reduce, hostvars
    <3>2. IsValid(blk[b].work) /\ ~ComputeEpilogue(q, blk[b].work)
      BY <2>1, <3>1 DEF UnitOnce
    <3>3. TimesAreDone(q, blk', out') BY <3>1, QuietTimes
    <3>4. QED BY <1>1, <3>1, <3>2, <3>3, GotoOnce
  <2>6. CASE Arrive(b)
    <3>1. Goto(b, "next") /\ UNCHANGED <<q, host, out>> /\ blk[b].pc = "arrive"
      BY <2>6 DEF Arrive, hostvars
    <3>2. IsValid(blk[b].work) /\ ~ComputeEpilogue(q, blk[b].work)
      BY <2>1, <3>1 DEF UnitOnce
    <3>3. TimesAreDone(q, blk', out') BY <3>1, <3>2, ArriveTimes
    <3>4. QED BY <1>1, <3>1, <3>2, <3>3, GotoOnce
  <2>7. CASE Epilogue(b)
    <3>1. Goto(b, "next") /\ UNCHANGED <<q, host>> /\ blk[b].pc = "epilogue"
      BY <2>7 DEF Epilogue, hostvars
    <3>2. IsValid(blk[b].work) BY <2>1, <3>1 DEF UnitOnce
    <3>3. TimesAreDone(q, blk', out') BY <2>7, EpilogueTimes
    <3>4. QED BY <1>1, <3>1, <3>2, <3>3, GotoOnce
  <2>8. CASE FetchNextWork(b) BY <1>1, <2>8, FetchOnce
  <2>9. QED BY <1>6, <2>2, <2>3, <2>4, <2>5, <2>6, <2>7, <2>8 DEF Block
<1>7. CASE Terminated \/ UNCHANGED vars
  <2>1. UNCHANGED <<host, q, blk, out>> BY <1>7 DEF Terminated, vars
  <2>2. QED BY <1>1, <2>1, HostOnce DEF OnceInv
<1>8. QED BY <1>2, <1>3, <1>4, <1>5, <1>6, <1>7 DEF Next

(* In every reachable state an output tile has been written as often as    *)
(* its last k tile has been done, which is never more than once: the walk  *)
(* of the persistent blocks over the units, for every problem and grid.    *)
THEOREM OnceInvariance == Spec => []OnceInv
  BY InitiallyOnce, OnceStep, PTL DEF Spec

(* A grid that has ended has done everything. *)
LEMMA AllIsDone ==
  ASSUME OnceInv, host = "done", NEW i \in 0 .. q.blocks_per_problem - 1,
         NEW k \in 0 .. q.kt - 1, NEW pcs
  PROVE  Done(q, blk, i, k, pcs)
<1> DEFINE size == Cardinality(Blocks)
<1>1. PICK a \in Blocks : TRUE BY DEF OnceInv
<1>2. /\ size \in Nat \ {0} /\ UsedUnits(q, size) /\ \A o \in Nat : o % size \in Blocks
      /\ problem \in Problems /\ FittedParams(q) /\ Same(q, UnderlyingParams(problem))
  BY <1>1, LaunchedGrid, LaunchedFitted DEF OnceInv, WorkInv
<1>3. q.splits = 1 /\ q.sk_tiles > 0 => q.sk_units > 0 BY <1>2 DEF UsedUnits
<1>4. PICK o \in 0 .. Units(q) - 1, f \in Nat : Covers(q, i, k, o, f)
  BY <1>2, <1>3, UnitCovers
<1>5. o \in Nat /\ o < Units(q) /\ f \in Nat /\ Units(q) \in Nat
  BY <1>2, <1>4, CoversType, UnitsType
<1> DEFINE b == o % size
<1>6. b \in Blocks BY <1>2, <1>5
<1>7. blk[b].pc = "exit" /\ UnitOnce(q, size, b, blk[b]) BY <1>6 DEF OnceInv
<1>8. /\ blk[b].idx \in Nat /\ blk[b].idx % size = o % size
      /\ ~IsValid(blk[b].work) /\ blk[b].idx + size >= Units(q)
      /\ HasWork(q, blk[b].idx, blk[b].start, blk[b].work)
  BY <1>7 DEF UnitOnce
<1> HIDE DEF b
<1>9. blk[b].idx >= o
  <2> HIDE DEF size
  <2>1. blk[b].idx + size > o BY <1>2, <1>5, <1>8
  <2>2. QED BY <1>2, <1>5, <1>8, <2>1, SameBlock
<1>10. blk[b].idx # o
  <2>1. \A x, y, z : ~Covers(q, x, y, blk[b].idx, z) BY <1>2, <1>8, HasWorkCovers
  <2>2. QED BY <1>4, <2>1
<1>11. blk[b].idx > o BY <1>5, <1>8, <1>9, <1>10
<1>12. Beyond(blk[o % Cardinality(DOMAIN blk)], o, f, pcs)
  BY <1>11 DEF Beyond, b, Blocks
<1>13. QED BY <1>1, <1>4, <1>12 DEF Done, Blocks

LEMMA InvImpliesOnce == OnceInv => EachTileOnce
<1> SUFFICES ASSUME OnceInv, NEW t \in DOMAIN out
             PROVE  out[t].times <= 1 /\ (host = "done" => out[t].times = 1)
  BY DEF EachTileOnce
<1>1. out[t].times = IF Done(q, blk, TileIndex(q, t), q.kt - 1, {"next"}) THEN 1 ELSE 0
  BY DEF OnceInv, TimesAreDone
<1>2. ASSUME host = "done" PROVE Done(q, blk, TileIndex(q, t), q.kt - 1, {"next"})
  <2>1. PICK a \in Blocks : TRUE BY <1>2 DEF OnceInv
  <2>2. problem \in Problems /\ FittedParams(q) /\ Same(q, UnderlyingParams(problem))
    BY <2>1, LaunchedFitted DEF OnceInv, WorkInv
  <2>3. t \in Tiles(q) /\ q.kt \in Nat \ {0} BY <2>1, TilesOfOut
  <2>4. TileIndex(q, t) \in 0 .. q.blocks_per_problem - 1
    BY <2>2, <2>3, TilesHaveIndices
  <2>5. q.kt - 1 \in 0 .. q.kt - 1 BY <2>3
  <2>6. QED BY <1>2, <2>4, <2>5, AllIsDone
<1>3. QED BY <1>1, <1>2

(* Every output tile is written once: the swizzled raster of the tiles,    *)
(* the division of their k tiles among units, and the walk of the blocks   *)
(* over the units leave out no tile and do none twice, for every problem,  *)
(* decomposition and grid.                                                 *)
THEOREM TilesOnce == Spec => []EachTileOnce
  BY OnceInvariance, InvImpliesOnce, PTL

-----------------------------------------------------------------------------
(* 15. Sums of parts.                                                      *)

Covering(s, k) == {j \in DOMAIN s : s[j].k <= k /\ k < s[j].k + s[j].count}

(* The sum s has the k tiles K, each once, and all from one launch. *)
HoldsParts(s, run, K, kt) ==
  /\ s \in Seq([run : {run}, k : Nat, count : Nat])
  /\ \A k \in 0 .. kt - 1 :
       IF k \in K THEN \E j : Covering(s, k) = {j} ELSE Covering(s, k) = {}

(* Its parts follow one another from the first k tile on up to n. *)
Ordered(s, n) ==
  /\ Len(s) > 0 /\ s[1].k = 0 /\ s[Len(s)].k + s[Len(s)].count = n
  /\ \A j \in 1 .. Len(s) - 1 : s[j + 1].k = s[j].k + s[j].count

PartsOf(w) == w.k .. w.k + w.count - 1
Part(run, w) == [run |-> run, k |-> w.k, count |-> w.count]

LEMMA AppendHolds ==
  ASSUME NEW s, NEW run, NEW K, NEW kt \in Nat, HoldsParts(s, run, K, kt),
         NEW w, w.k \in Nat, w.count \in Nat, K \cap PartsOf(w) = {}
  PROVE  HoldsParts(Append(s, Part(run, w)), run, K \cup PartsOf(w), kt)
<1> DEFINE X == [run : {run}, k : Nat, count : Nat]
           x == Part(run, w)
           z == Append(s, x)
           n == Len(s)
<1>1. s \in Seq(X) /\ x \in X BY DEF HoldsParts, Part
<1>2. x.k = w.k /\ x.count = w.count BY DEF Part
<1> HIDE DEF X, x
<1>3. /\ z \in Seq(X) /\ n \in Nat /\ Len(z) = n + 1 /\ DOMAIN z = 1 .. n + 1 /\ DOMAIN s = 1 .. n
      /\ z[n + 1] = x /\ \A j \in 1 .. n : z[j] = s[j]
  BY <1>1
<1> HIDE DEF z, n
<1>4. ASSUME NEW k \in 0 .. kt - 1
      PROVE  IF k \in K \cup PartsOf(w) THEN \E j : Covering(z, k) = {j} ELSE Covering(z, k) = {}
  <2>1. k \in PartsOf(w) <=> x.k <= k /\ k < x.k + x.count BY <1>2 DEF PartsOf
  <2>2. Covering(z, k) = Covering(s, k) \cup (IF k \in PartsOf(w) THEN {n + 1} ELSE {})
    BY <1>3, <2>1 DEF Covering
  <2>3. IF k \in K THEN \E j : Covering(s, k) = {j} ELSE Covering(s, k) = {}
    BY DEF HoldsParts
  <2>4. CASE k \in PartsOf(w)
    <3>1. Covering(s, k) = {} BY <2>3, <2>4
    <3>2. Covering(z, k) = {n + 1} BY <2>2, <2>4, <3>1
    <3>3. QED BY <2>4, <3>2
  <2>5. CASE k \notin PartsOf(w) BY <2>2, <2>3, <2>5
  <2>6. QED BY <2>4, <2>5
<1>5. QED BY <1>3, <1>4 DEF HoldsParts, X, z, x

LEMMA FirstHolds ==
  ASSUME NEW run, NEW kt \in Nat, NEW w, w.k \in Nat, w.count \in Nat
  PROVE  HoldsParts(<<Part(run, w)>>, run, PartsOf(w), kt)
<1>1. HoldsParts(<<>>, run, {}, kt) BY DEF HoldsParts, Covering
<1>2. HoldsParts(Append(<<>>, Part(run, w)), run, {} \cup PartsOf(w), kt)
  BY <1>1, AppendHolds
<1>3. Append(<<>>, Part(run, w)) = <<Part(run, w)>> /\ {} \cup PartsOf(w) = PartsOf(w)
  OBVIOUS
<1>4. QED BY <1>2, <1>3

LEMMA AppendOrdered ==
  ASSUME NEW X, NEW s \in Seq(X), NEW run, NEW w, w.k \in Nat, w.count \in Nat, Ordered(s, w.k),
         Part(run, w) \in X
  PROVE  Ordered(Append(s, Part(run, w)), w.k + w.count)
<1> DEFINE x == Part(run, w)
           z == Append(s, x)
           n == Len(s)
<1>1. x.k = w.k /\ x.count = w.count BY DEF Part
<1> HIDE DEF x
<1>2. /\ n \in Nat /\ Len(z) = n + 1 /\ z[n + 1] = x /\ \A j \in 1 .. n : z[j] = s[j]
  BY DEF x
<1>3. n > 0 /\ s[1].k = 0 /\ s[n].k + s[n].count = w.k
      /\ \A j \in 1 .. n - 1 : s[j + 1].k = s[j].k + s[j].count
  BY DEF Ordered
<1> HIDE DEF z, n
<1>4. z[1].k = 0 /\ z[Len(z)].k + z[Len(z)].count = w.k + w.count BY <1>1, <1>2, <1>3
<1>5. ASSUME NEW j \in 1 .. Len(z) - 1 PROVE z[j + 1].k = z[j].k + z[j].count
  <2>1. CASE j = n BY <1>1, <1>2, <1>3, <2>1
  <2>2. CASE j # n
    <3>1. j \in 1 .. n - 1 /\ j + 1 \in 1 .. n /\ j \in 1 .. n BY <1>2, <2>2
    <3>2. QED BY <1>2, <1>3, <3>1
  <2>3. QED BY <2>1, <2>2
<1>6. QED BY <1>2, <1>3, <1>4, <1>5 DEF Ordered, z, x

LEMMA FirstOrdered ==
  ASSUME NEW run, NEW w, w.k = 0, w.count \in Nat
  PROVE  Ordered(<<Part(run, w)>>, w.k + w.count)
<1>1. Len(<<Part(run, w)>>) = 1 /\ <<Part(run, w)>>[1] = Part(run, w) OBVIOUS
<1>2. Part(run, w).k = 0 /\ Part(run, w).count = w.count BY DEF Part
<1>3. QED BY <1>1, <1>2 DEF Ordered

(* What is known of an output tile with index i whose k tiles D are done,  *)
(* and A added to the workspace or done: its lock l, below base, counts    *)
(* what is done; until the tile is written, its workspace s has what was   *)
(* added, and from then on what was written has everything.                *)
TileSums(u, i, base, run, D, A, times, l, s, sum) ==
  /\ D \subseteq A /\ A \subseteq 0 .. u.kt - 1
  /\ D # {} => 0 \in D
  /\ A # {} => 0 \in A
  /\ u.deterministic => \E n \in Nat : D = 0 .. n - 1
  /\ times = 0 /\ i < base => l = Cardinality(D)
  /\ times = 0 /\ A # {} =>
       /\ HoldsParts(s, run, A, u.kt)
       /\ u.deterministic => \E n \in Nat : A = 0 .. n - 1 /\ Ordered(s, n)
  /\ times # 0 =>
       /\ D = 0 .. u.kt - 1 /\ HoldsParts(sum, run, D, u.kt)
       /\ u.deterministic => Ordered(sum, u.kt)

(* ... and of a block that works on it. *)
BlockSums(u, D, A, pc, w) ==
  /\ pc = "store" => w.k = 0
  /\ pc = "lock" => w.k > 0
  /\ pc = "reduce" => 0 \in D
  /\ pc = "arrive" => (w.k = 0 \/ 0 \in D) /\ PartsOf(w) \subseteq A
  /\ pc = "epilogue" /\ RequiresFixup(u, w) => 0 .. w.k - 1 \subseteq D
  /\ u.deterministic /\ pc \in {"store", "reduce", "arrive"} => D = 0 .. w.k - 1

(* A work within the tile, none of whose k tiles is done or added. *)
Pending(u, w, K) ==
  /\ u.kt \in Nat /\ w.k \in Nat /\ w.count \in Nat \ {0} /\ w.k + w.count <= u.kt
  /\ K \cap PartsOf(w) = {}

(* A prefix that goes up to a pending work and has what is before it. *)
LEMMA PrefixUpTo ==
  ASSUME NEW u, NEW w, NEW K, Pending(u, w, K), NEW n \in Nat, K = 0 .. n - 1,
         0 .. w.k - 1 \subseteq K
  PROVE  n = w.k
<1>1. w.k \in Nat /\ w.k \in PartsOf(w) BY DEF Pending, PartsOf
<1>2. w.k \notin 0 .. n - 1 BY <1>1 DEF Pending
<1>3. n <= w.k BY <1>1, <1>2
<1>4. CASE n < w.k
  <2>1. n \in 0 .. w.k - 1 /\ n \notin 0 .. n - 1 BY <1>1, <1>4
  <2>2. QED BY <2>1
<1>5. QED BY <1>1, <1>3, <1>4

LEMMA PartsExtend ==
  ASSUME NEW k \in Nat, NEW count \in Nat
  PROVE  (0 .. k - 1) \cup (k .. k + count - 1) = 0 .. (k + count) - 1
  OBVIOUS

(* The first peer stores its part. *)
LEMMA StoreSums ==
  ASSUME NEW u, NEW i, NEW base, NEW run, NEW D, NEW A, NEW l, NEW s, NEW sum, NEW w,
         TileSums(u, i, base, run, D, A, 0, l, s, sum), Pending(u, w, A), w.k = 0
  PROVE  TileSums(u, i, base, run, D, A \cup PartsOf(w), 0, l, <<Part(run, w)>>, sum)
<1>1. u.kt \in Nat /\ w.count \in Nat \ {0} /\ w.k + w.count <= u.kt BY DEF Pending
<1>2. 0 \in PartsOf(w) /\ PartsOf(w) \subseteq 0 .. u.kt - 1 /\ PartsOf(w) = 0 .. w.count - 1
  BY <1>1 DEF PartsOf
<1>3. A = {} BY <1>2 DEF Pending, TileSums
<1>4. HoldsParts(<<Part(run, w)>>, run, PartsOf(w), u.kt) BY <1>1, FirstHolds
<1>5. Ordered(<<Part(run, w)>>, w.count)
  <2>1. Ordered(<<Part(run, w)>>, w.k + w.count) BY <1>1, FirstOrdered
  <2>2. w.k + w.count = w.count BY <1>1
  <2>3. QED BY <2>1, <2>2
<1>6. A \cup PartsOf(w) = PartsOf(w) BY <1>3
<1>7. QED BY <1>1, <1>2, <1>3, <1>4, <1>5, <1>6 DEF TileSums

(* What a work adds to the parts before it. *)
LEMMA AddedSums ==
  ASSUME NEW u, NEW i, NEW base, NEW run, NEW D, NEW A, NEW l, NEW s, NEW sum, NEW w,
         TileSums(u, i, base, run, D, A, 0, l, s, sum), Pending(u, w, A), 0 \in D,
         u.deterministic => 0 .. w.k - 1 \subseteq D
  PROVE  /\ HoldsParts(Append(s, Part(run, w)), run, A \cup PartsOf(w), u.kt)
         /\ u.deterministic => /\ A = 0 .. w.k - 1
                               /\ A \cup PartsOf(w) = 0 .. (w.k + w.count) - 1
                               /\ Ordered(Append(s, Part(run, w)), w.k + w.count)
<1>1. /\ u.kt \in Nat /\ w.k \in Nat /\ w.count \in Nat \ {0} /\ A \cap PartsOf(w) = {}
  BY DEF Pending
<1>2. /\ D \subseteq A /\ A # {} /\ HoldsParts(s, run, A, u.kt)
      /\ u.deterministic => \E n \in Nat : A = 0 .. n - 1 /\ Ordered(s, n)
  BY DEF TileSums
<1>3. HoldsParts(Append(s, Part(run, w)), run, A \cup PartsOf(w), u.kt)
  BY <1>1, <1>2, AppendHolds
<1>4. ASSUME u.deterministic
      PROVE  /\ A = 0 .. w.k - 1 /\ A \cup PartsOf(w) = 0 .. (w.k + w.count) - 1
             /\ Ordered(Append(s, Part(run, w)), w.k + w.count)
  <2>1. PICK n \in Nat : A = 0 .. n - 1 /\ Ordered(s, n) BY <1>2, <1>4
  <2>2. n = w.k BY <1>2, <1>4, <2>1, PrefixUpTo
  <2>3. Part(run, w) \in [run : {run}, k : Nat, count : Nat] BY <1>1 DEF Part
  <2>4. Ordered(Append(s, Part(run, w)), w.k + w.count)
    BY <1>1, <1>2, <2>1, <2>2, <2>3, AppendOrdered DEF HoldsParts
  <2>5. A \cup PartsOf(w) = 0 .. (w.k + w.count) - 1
    BY <1>1, <2>1, <2>2, PartsExtend DEF PartsOf
  <2>6. QED BY <2>1, <2>2, <2>4, <2>5
<1>5. QED BY <1>3, <1>4

LEMMA ReduceSums ==
  ASSUME NEW u, NEW i, NEW base, NEW run, NEW D, NEW A, NEW l, NEW s, NEW sum, NEW w,
         TileSums(u, i, base, run, D, A, 0, l, s, sum), Pending(u, w, A), 0 \in D,
         u.deterministic => D = 0 .. w.k - 1
  PROVE  TileSums(u, i, base, run, D, A \cup PartsOf(w), 0, l, Append(s, Part(run, w)), sum)
<1>1. /\ HoldsParts(Append(s, Part(run, w)), run, A \cup PartsOf(w), u.kt)
      /\ u.deterministic => /\ A \cup PartsOf(w) = 0 .. (w.k + w.count) - 1
                            /\ Ordered(Append(s, Part(run, w)), w.k + w.count)
  <2>1. u.deterministic => 0 .. w.k - 1 \subseteq D OBVIOUS
  <2>2. /\ HoldsParts(Append(s, Part(run, w)), run, A \cup PartsOf(w), u.kt)
        /\ u.deterministic => /\ A = 0 .. w.k - 1
                              /\ A \cup PartsOf(w) = 0 .. (w.k + w.count) - 1
                              /\ Ordered(Append(s, Part(run, w)), w.k + w.count)
    BY <2>1, AddedSums
  <2>3. QED BY <2>2
<1>2. w.k + w.count \in Nat /\ PartsOf(w) \subseteq 0 .. u.kt - 1
  BY DEF Pending, PartsOf
<1>3. 0 \in A \cup PartsOf(w) /\ A \cup PartsOf(w) \subseteq 0 .. u.kt - 1
      /\ D \subseteq A \cup PartsOf(w)
  BY <1>2 DEF TileSums
<1>4. u.deterministic =>
        \E n \in Nat : A \cup PartsOf(w) = 0 .. n - 1 /\ Ordered(Append(s, Part(run, w)), n)
  BY <1>1, <1>2
<1>5. QED BY <1>1, <1>3, <1>4 DEF TileSums

(* A peer that arrives adds to the lock what it has done. *)
LEMMA ArriveSums ==
  ASSUME NEW u, NEW i, NEW base, NEW run, NEW D, NEW A, NEW l, NEW s, NEW sum, NEW w,
         TileSums(u, i, base, run, D, A, 0, l, s, sum), Pending(u, w, D),
         BlockSums(u, D, A, "arrive", w)
  PROVE  TileSums(u, i, base, run, D \cup PartsOf(w), A, 0, l + w.count, s, sum)
<1>1. /\ u.kt \in Nat /\ w.k \in Nat /\ w.count \in Nat \ {0} /\ D \cap PartsOf(w) = {}
  BY DEF Pending
<1>2. D \subseteq A /\ A \subseteq 0 .. u.kt - 1 /\ PartsOf(w) \subseteq A
  BY DEF TileSums, BlockSums
<1>3. 0 \in D \cup PartsOf(w)
  <2>1. w.k = 0 \/ 0 \in D BY DEF BlockSums
  <2>2. w.k \in PartsOf(w) BY <1>1 DEF PartsOf
  <2>3. QED BY <2>1, <2>2
<1>4. u.deterministic => \E n \in Nat : D \cup PartsOf(w) = 0 .. n - 1
  <2>1. u.deterministic => D \cup PartsOf(w) = 0 .. (w.k + w.count) - 1
    BY <1>1, PartsExtend DEF BlockSums, PartsOf
  <2>2. w.k + w.count \in Nat BY <1>1
  <2>3. QED BY <2>1, <2>2
<1>5. Cardinality(D \cup PartsOf(w)) = Cardinality(D) + w.count
  <2>1. IsFiniteSet(0 .. u.kt - 1)
    <3>1. u.kt - 1 \in Int BY <1>1
    <3>2. QED BY <3>1, FS_Interval
  <2>2. IsFiniteSet(D) BY <1>2, <2>1, FS_Subset
  <2>3. IsFiniteSet(PartsOf(w)) /\ Cardinality(PartsOf(w)) = w.count
    <3> DEFINE b == w.k + w.count - 1
    <3>1. w.k \in Int /\ b \in Int BY <1>1
    <3>2. /\ IsFiniteSet(w.k .. b)
          /\ Cardinality(w.k .. b) = IF w.k > b THEN 0 ELSE b - w.k + 1
      <4> HIDE DEF b
      <4>1. QED BY <3>1, FS_Interval
    <3>3. ~(w.k > b) /\ b - w.k + 1 = w.count BY <1>1
    <3>4. QED BY <3>2, <3>3 DEF PartsOf
  <2>4. Cardinality(D \cup PartsOf(w))
          = Cardinality(D) + Cardinality(PartsOf(w)) - Cardinality(D \cap PartsOf(w))
    BY <2>2, <2>3, FS_Union
  <2>5. Cardinality(D \cap PartsOf(w)) = 0 BY <1>1, FS_EmptySet
  <2>6. Cardinality(D) \in Nat BY <2>2, FS_CardinalityType
  <2>7. QED BY <1>1, <2>3, <2>4, <2>5, <2>6
<1>6. i < base => l + w.count = Cardinality(D \cup PartsOf(w)) BY <1>5 DEF TileSums
<1>7. QED BY <1>2, <1>3, <1>4, <1>6 DEF TileSums

(* The last peer writes what is in the workspace and its own part. *)
LEMMA EpilogueSums ==
  ASSUME NEW u, NEW i, NEW base, NEW run, NEW D, NEW A, NEW l, NEW s, NEW sum, NEW w,
         TileSums(u, i, base, run, D, A, 0, l, s, sum), Pending(u, w, A), w.k + w.count = u.kt,
         w.k # 0 => 0 .. w.k - 1 \subseteq D
  PROVE  TileSums(u, i, base, run, D \cup PartsOf(w), A \cup PartsOf(w), 1, l, s,
                  IF w.k # 0 THEN Append(s, Part(run, w)) ELSE <<Part(run, w)>>)
<1> DEFINE new == IF w.k # 0 THEN Append(s, Part(run, w)) ELSE <<Part(run, w)>>
<1>1. /\ u.kt \in Nat \ {0} /\ w.k \in Nat /\ w.count \in Nat \ {0} /\ A \cap PartsOf(w) = {}
  BY DEF Pending
<1>2. D \subseteq A /\ A \subseteq 0 .. u.kt - 1 BY DEF TileSums
<1>3. 0 .. w.k - 1 \subseteq D BY <1>1
<1>4. D \cup PartsOf(w) = 0 .. u.kt - 1 /\ A \cup PartsOf(w) = 0 .. u.kt - 1
  <2>1. (0 .. w.k - 1) \cup PartsOf(w) = 0 .. u.kt - 1 BY <1>1 DEF PartsOf
  <2>2. PartsOf(w) \subseteq 0 .. u.kt - 1 BY <2>1
  <2>3. QED BY <1>2, <1>3, <2>1, <2>2
<1>5. HoldsParts(new, run, 0 .. u.kt - 1, u.kt) /\ (u.deterministic => Ordered(new, u.kt))
  <2>1. CASE w.k # 0
    <3>1. 0 \in D
      <4>1. 0 \in 0 .. w.k - 1 BY <1>1, <2>1
      <4>2. QED BY <1>3, <4>1
    <3>2. /\ HoldsParts(Append(s, Part(run, w)), run, A \cup PartsOf(w), u.kt)
          /\ u.deterministic => Ordered(Append(s, Part(run, w)), w.k + w.count)
      BY <1>3, <3>1, AddedSums
    <3>3. QED BY <1>4, <2>1, <3>2
  <2>2. CASE w.k = 0
    <3>1. HoldsParts(<<Part(run, w)>>, run, PartsOf(w), u.kt) /\ PartsOf(w) = 0 .. u.kt - 1
      <4>1. HoldsParts(<<Part(run, w)>>, run, PartsOf(w), u.kt) BY <1>1, FirstHolds
      <4>2. PartsOf(w) = 0 .. u.kt - 1 BY <1>1, <2>2 DEF PartsOf
      <4>3. QED BY <4>1, <4>2
    <3>2. Ordered(<<Part(run, w)>>, w.k + w.count) BY <1>1, <2>2, FirstOrdered
    <3>3. QED BY <2>2, <3>1, <3>2
  <2>3. QED BY <2>1, <2>2
<1>6. 0 \in 0 .. u.kt - 1 /\ \E n \in Nat : 0 .. u.kt - 1 = 0 .. n - 1 BY <1>1
<1> HIDE DEF new
<1>7. TileSums(u, i, base, run, D \cup PartsOf(w), A \cup PartsOf(w), 1, l, s, new)
  <2> DEFINE all == 0 .. u.kt - 1
  <2>1. HoldsParts(new, run, all, u.kt) /\ (u.deterministic => Ordered(new, u.kt))
    BY <1>5
  <2>2. 0 \in all /\ all \subseteq 0 .. u.kt - 1 /\ all = 0 .. u.kt - 1
        /\ \E n \in Nat : all = 0 .. n - 1
    BY <1>6
  <2> HIDE DEF all
  <2>3. TileSums(u, i, base, run, all, all, 1, l, s, new) BY <2>1, <2>2 DEF TileSums
  <2>4. QED BY <1>4, <2>3 DEF all
<1>8. QED BY <1>7 DEF new

(* A lock that counts up to a work says that all before it is done. *)
LEMMA LockSums ==
  ASSUME NEW u, NEW i, NEW base, NEW run, NEW D, NEW A, NEW l, NEW s, NEW sum, NEW w,
         TileSums(u, i, base, run, D, A, 0, l, s, sum), Pending(u, w, D), i < base,
         l = w.k, u.deterministic \/ w.k + w.count = u.kt
  PROVE  D = 0 .. w.k - 1
<1>1. /\ u.kt \in Nat /\ w.k \in Nat /\ w.count \in Nat \ {0} /\ D \cap PartsOf(w) = {}
  BY DEF Pending
<1>2. Cardinality(D) = w.k /\ D \subseteq 0 .. u.kt - 1 BY DEF TileSums
<1>3. CASE u.deterministic
  <2>1. PICK n \in Nat : D = 0 .. n - 1 BY <1>3 DEF TileSums
  <2>2. Cardinality(0 .. n - 1) = n
    <3>1. Cardinality(0 .. n - 1) = IF 0 > n - 1 THEN 0 ELSE (n - 1) - 0 + 1
      BY FS_Interval
    <3>2. QED BY <3>1
  <2>3. QED BY <1>2, <2>1, <2>2
<1>4. CASE w.k + w.count = u.kt
  <2>1. D \subseteq 0 .. w.k - 1
    <3>1. \A k \in 0 .. u.kt - 1 : k \in PartsOf(w) \/ k \in 0 .. w.k - 1
      BY <1>1, <1>4 DEF PartsOf
    <3>2. QED BY <1>1, <1>2, <3>1
  <2>2. IsFiniteSet(0 .. w.k - 1) /\ Cardinality(0 .. w.k - 1) = w.k
    <3> DEFINE n == w.k
    <3>1. n \in Nat BY <1>1
    <3> HIDE DEF n
    <3>2. IsFiniteSet(0 .. n - 1) /\ Cardinality(0 .. n - 1) = IF 0 > n - 1 THEN 0 ELSE (n - 1) - 0 + 1
      BY <3>1, FS_Interval
    <3>3. Cardinality(0 .. n - 1) = n BY <3>1, <3>2
    <3>4. QED BY <3>2, <3>3 DEF n
  <2>3. D = 0 .. w.k - 1 BY <1>2, <2>1, <2>2, FS_Subset
  <2>4. QED BY <2>3
<1>5. QED BY <1>3, <1>4

-----------------------------------------------------------------------------
(* 16. What was written is whole.                                          *)

(* The k tiles that are done, or are at least added to the workspace.      *)
PartsIn(u, B, i, pcs) == {k \in 0 .. u.kt - 1 : Done(u, B, i, k, pcs)}
DoneParts(u, B, i) == PartsIn(u, B, i, {"next"})
AddedParts(u, B, i) == PartsIn(u, B, i, {"arrive", "next"})

IndexOf(u, w) == TileIndex(u, TileOf(w))

SumOfTile(u, B, O, L, P, run, base, t) ==
  TileSums(u, TileIndex(u, t), base, run,
           DoneParts(u, B, TileIndex(u, t)), AddedParts(u, B, TileIndex(u, t)),
           O[t].times, L[TileIndex(u, t)], P[TileIndex(u, t)], O[t].sum)

SumOfBlock(u, B, bl) ==
  BlockSums(u, DoneParts(u, B, IndexOf(u, bl.work)), AddedParts(u, B, IndexOf(u, bl.work)),
            bl.pc, bl.work)

(* The number of locks that count; the host has not cleared them yet.      *)
ClearedLocks(u, h) == IF h = "initialize" THEN 0 ELSE LockBase(u)

SumsInv ==
  /\ OnceInv
  /\ runs \in Nat /\ (runs = 0 => Blocks = {}) /\ (host = "initialize" => runs = 0)
  /\ DOMAIN partial = 0 .. q.blocks_per_problem - 1
  /\ WholeClusters(Grid) /\ (runs <= 1 \/ LockBase(q) = 0) =>
       /\ \A t \in DOMAIN out :
            SumOfTile(q, blk, out, lock, partial, runs, ClearedLocks(q, host), t)
       /\ \A b \in Blocks : SumOfBlock(q, blk, blk[b])

LEMMA PartsStay ==
  ASSUME OnceInv, NEW a \in Blocks, NEW s, Goto(a, s), NEW pcs,
         blk[a].pc # "pending", s # "pending", blk[a].pc \in pcs <=> s \in pcs
  PROVE  \A i : PartsIn(q, blk', i, pcs) = PartsIn(q, blk, i, pcs)
  BY QuietStep DEF PartsIn

(* A step of a block to a state in which its work is done.                 *)
LEMMA PartsGrow ==
  ASSUME OnceInv, NEW a \in Blocks, NEW s, Goto(a, s), NEW pcs, s \in pcs, s # "pending",
         blk[a].pc # "pending", blk[a].pc \notin pcs, IsValid(blk[a].work)
  PROVE  LET w == blk[a].work IN
         \A i \in Nat : PartsIn(q, blk', i, pcs)
           = PartsIn(q, blk, i, pcs) \cup IF i = IndexOf(q, w) THEN PartsOf(w) ELSE {}
<1> DEFINE w == blk[a].work
<1>1. \A i, k \in Nat : Done(q, blk', i, k, pcs) <=> Done(q, blk, i, k, pcs) \/ Owns(q, w, i, k)
  BY DoneByGoto
<1>2. w.k \in Nat /\ w.count \in Nat \ {0} /\ w.k + w.count <= q.kt
  BY WorkOfBlock DEF WorkCovers
<1>3. q.kt \in Nat BY TilesOfOut
<1>4. ASSUME NEW i \in Nat, NEW k \in 0 .. q.kt - 1
      PROVE  k \in PartsIn(q, blk', i, pcs) <=>
               \/ k \in PartsIn(q, blk, i, pcs)
               \/ i = IndexOf(q, w) /\ k \in PartsOf(w)
  <2>1. k \in Nat BY <1>3
  <2>2. Owns(q, w, i, k) <=> i = IndexOf(q, w) /\ k \in PartsOf(w)
    BY <1>2, <2>1 DEF Owns, IndexOf, PartsOf
  <2>3. QED BY <1>1, <2>1, <2>2 DEF PartsIn
<1>5. PartsOf(w) \subseteq 0 .. q.kt - 1 BY <1>2, <1>3 DEF PartsOf
<1>6. \A i : /\ PartsIn(q, blk', i, pcs) \subseteq 0 .. q.kt - 1
             /\ PartsIn(q, blk, i, pcs) \subseteq 0 .. q.kt - 1
  BY DEF PartsIn
<1> HIDE DEF w
<1>7. ASSUME NEW i \in Nat
      PROVE  PartsIn(q, blk', i, pcs)
               = PartsIn(q, blk, i, pcs) \cup IF i = IndexOf(q, w) THEN PartsOf(w) ELSE {}
  BY <1>4, <1>5, <1>6
<1>8. QED BY <1>7 DEF w

(* What a block works on is not done as long as it has not said so.        *)
LEMMA WorkIsPending ==
  ASSUME OnceInv, NEW a \in Blocks, NEW pcs, "next" \in pcs, blk[a].pc # "pending",
         blk[a].pc \notin pcs, IsValid(blk[a].work)
  PROVE  Pending(q, blk[a].work, PartsIn(q, blk, IndexOf(q, blk[a].work), pcs))
<1> DEFINE w == blk[a].work
           i == IndexOf(q, w)
<1>1. WorkCovers(q, blk[a].idx, w) BY WorkOfBlock
<1>2. w.k \in Nat /\ w.count \in Nat \ {0} /\ w.k + w.count <= q.kt /\ TileOf(w) \in Tiles(q)
  BY <1>1 DEF WorkCovers
<1>3. q.kt \in Nat /\ i \in Nat BY <1>2, TilesOfOut DEF IndexOf
<1>4. FittedParams(q) /\ UnitOnce(q, Cardinality(Blocks), a, blk[a])
  BY LaunchedFitted DEF OnceInv, WorkInv
<1>5. ASSUME NEW k \in PartsOf(w), Done(q, blk, i, k, pcs) PROVE FALSE
  <2>1. Owns(q, w, i, k) BY <1>2 DEF Owns, PartsOf, IndexOf
  <2>2. PICK o, f : Covers(q, i, k, o, f) /\ Beyond(blk[o % Cardinality(Blocks)], o, f, pcs)
    BY <1>5 DEF Done, Blocks
  <2>3. o = blk[a].idx /\ f <= w.remaining BY <1>1, <1>4, <2>1, <2>2, WorkOwns
  <2>4. o % Cardinality(Blocks) = a /\ o \in Nat BY <1>4, <2>3 DEF UnitOnce
  <2>5. f > w.remaining
    <3>1. w.remaining \in Nat BY <1>1 DEF WorkCovers
    <3>2. QED BY <2>2, <2>3, <2>4, <3>1 DEF Beyond
  <2>6. w.remaining \in Nat /\ f \in Nat BY <1>1, <1>4, <2>2, CoversType DEF WorkCovers
  <2>7. QED BY <2>3, <2>5, <2>6
<1>6. PartsIn(q, blk, i, pcs) \cap PartsOf(w) = {} BY <1>5 DEF PartsIn
<1>7. QED BY <1>2, <1>3, <1>6 DEF Pending

(* Blocks work on different parts. *)
LEMMA WorksApart ==
  ASSUME OnceInv, NEW a \in Blocks, NEW b \in Blocks, a # b,
         blk[a].pc # "pending", IsValid(blk[a].work), blk[b].pc # "pending", IsValid(blk[b].work),
         IndexOf(q, blk[a].work) = IndexOf(q, blk[b].work)
  PROVE  PartsOf(blk[a].work) \cap PartsOf(blk[b].work) = {}
<1> DEFINE w == blk[a].work
           v == blk[b].work
           i == IndexOf(q, w)
<1>1. /\ WorkCovers(q, blk[a].idx, w) /\ WorkCovers(q, blk[b].idx, v)
      /\ FittedParams(q) /\ blk[a].idx % Cardinality(Blocks) = a
      /\ blk[b].idx % Cardinality(Blocks) = b
  BY WorkOfBlock, LaunchedFitted DEF OnceInv, WorkInv, UnitOnce
<1>2. /\ w.k \in Nat /\ w.count \in Nat \ {0} /\ v.k \in Nat /\ v.count \in Nat \ {0}
      /\ \A n \in 0 .. w.count - 1 :
           Covers(q, i, w.k + n, blk[a].idx, w.remaining - w.count + 1 + n)
      /\ \A n \in 0 .. v.count - 1 :
           Covers(q, i, v.k + n, blk[b].idx, v.remaining - v.count + 1 + n)
  BY <1>1 DEF WorkCovers, IndexOf
<1> HIDE DEF w, v, i
<1>3. ASSUME NEW k \in PartsOf(w), k \in PartsOf(v) PROVE FALSE
  <2>1. /\ k - w.k \in 0 .. w.count - 1 /\ w.k + (k - w.k) = k
        /\ k - v.k \in 0 .. v.count - 1 /\ v.k + (k - v.k) = k
    BY <1>2, <1>3 DEF PartsOf
  <2>2. PICK f : Covers(q, i, k, blk[a].idx, f) BY <1>2, <2>1
  <2>3. PICK g : Covers(q, i, k, blk[b].idx, g) BY <1>2, <2>1
  <2>4. blk[a].idx = blk[b].idx BY <1>1, <2>2, <2>3, CoversOnce
  <2>5. QED BY <1>1, <2>4
<1>4. QED BY <1>3 DEF w, v

Moving == {"mainloop", "store", "lock", "reduce", "arrive", "epilogue"}

LEMMA PartsByGoto ==
  ASSUME OnceInv, NEW a \in Blocks, NEW s, Goto(a, s), blk[a].pc \in Moving,
         s \notin {"pending", "mainloop"}, blk[a].pc = "arrive" => s = "next",
         IsValid(blk[a].work) \/ s = "exit"
  PROVE  \A i \in Nat :
           /\ DoneParts(q, blk', i) = DoneParts(q, blk, i)
                \cup IF s = "next" /\ i = IndexOf(q, blk[a].work) THEN PartsOf(blk[a].work) ELSE {}
           /\ AddedParts(q, blk', i) = AddedParts(q, blk, i)
                \cup IF /\ s \in {"arrive", "next"} /\ blk[a].pc # "arrive"
                        /\ i = IndexOf(q, blk[a].work)
                     THEN PartsOf(blk[a].work) ELSE {}
<1> DEFINE w == blk[a].work
           j == IndexOf(q, w)
<1>1. blk[a].pc # "pending" /\ blk[a].pc # "next" /\ blk[a].pc \notin {"next"}
  BY DEF Moving
<1>2. ASSUME NEW i \in Nat
      PROVE  PartsIn(q, blk', i, {"next"})
               = PartsIn(q, blk, i, {"next"}) \cup IF s = "next" /\ i = j THEN PartsOf(w) ELSE {}
  <2>1. CASE s = "next" BY <1>1, <2>1, PartsGrow
  <2>2. CASE s # "next" BY <1>1, <2>2, PartsStay
  <2>3. QED BY <2>1, <2>2
<1>3. ASSUME NEW i \in Nat
      PROVE  PartsIn(q, blk', i, {"arrive", "next"})
               = PartsIn(q, blk, i, {"arrive", "next"})
                   \cup IF s \in {"arrive", "next"} /\ blk[a].pc # "arrive" /\ i = j
                        THEN PartsOf(w) ELSE {}
  <2>1. CASE s \in {"arrive", "next"} /\ blk[a].pc # "arrive" BY <1>1, <2>1, PartsGrow
  <2>2. CASE ~(s \in {"arrive", "next"} /\ blk[a].pc # "arrive")
    BY <1>1, <2>2, PartsStay
  <2>3. QED BY <2>1, <2>2
<1>4. QED BY <1>2, <1>3 DEF DoneParts, AddedParts

(* What is known of a block at its work. *)
LEMMA SumsOfWork ==
  ASSUME SumsInv, NEW a \in Blocks, blk[a].pc \in Moving, IsValid(blk[a].work)
  PROVE  LET w == blk[a].work
             i == IndexOf(q, w)
             D == DoneParts(q, blk, i)
             A == AddedParts(q, blk, i)
         IN  /\ WholeClusters(Grid) /\ host # "initialize" /\ i = Tile(a)
             /\ TileOf(w) \in DOMAIN out /\ i \in DOMAIN lock /\ i \in DOMAIN partial /\ i \in Nat
             /\ Pending(q, w, D) /\ (blk[a].pc # "arrive" => Pending(q, w, A))
             /\ runs <= 1 \/ LockBase(q) = 0 =>
                  /\ out[TileOf(w)].times = 0
                  /\ TileSums(q, i, LockBase(q), runs, D, A, 0, lock[i], partial[i],
                              out[TileOf(w)].sum)
                  /\ BlockSums(q, D, A, blk[a].pc, w)
<1> DEFINE w == blk[a].work
           t == TileOf(w)
           i == IndexOf(q, w)
           D == DoneParts(q, blk, i)
           A == AddedParts(q, blk, i)
<1>1. WholeClusters(Grid) /\ host # "initialize" /\ OnceInv
  BY DEF SumsInv, OnceInv, WorkInv, TogetherInv, GridIsLaunched
<1>2. i = Tile(a) BY DEF IndexOf, Tile, OutputTileIndex, TileIndex, TileOf
<1>3. blk[a].pc # "pending" /\ blk[a].pc \notin {"next"} BY DEF Moving
<1>4. WorkCovers(q, blk[a].idx, w) BY <1>1, <1>3, WorkOfBlock
<1>5. t \in Tiles(q) /\ t \in DOMAIN out /\ i \in Nat
  BY <1>1, <1>4, TilesOfOut DEF WorkCovers, IndexOf
<1>6. /\ problem \in Problems /\ Same(q, UnderlyingParams(problem))
      /\ DOMAIN lock = 0 .. q.blocks_per_problem - 1
      /\ DOMAIN partial = 0 .. q.blocks_per_problem - 1
  BY <1>1, LaunchedFitted DEF OnceInv, WorkInv, SumsInv
<1>7. i \in DOMAIN lock /\ i \in DOMAIN partial
  BY <1>5, <1>6, TilesHaveIndices DEF IndexOf
<1>8. Pending(q, w, D) /\ (blk[a].pc # "arrive" => Pending(q, w, A))
  BY <1>1, <1>3, WorkIsPending DEF DoneParts, AddedParts
<1>9. ASSUME runs <= 1 \/ LockBase(q) = 0
      PROVE  /\ out[t].times = 0
             /\ TileSums(q, i, LockBase(q), runs, D, A, 0, lock[i], partial[i], out[t].sum)
             /\ BlockSums(q, D, A, blk[a].pc, w)
  <2>1. /\ TileSums(q, i, LockBase(q), runs, D, A, out[t].times, lock[i], partial[i], out[t].sum)
        /\ BlockSums(q, D, A, blk[a].pc, w)
    BY <1>1, <1>5, <1>9 DEF SumsInv, SumOfTile, SumOfBlock, IndexOf, ClearedLocks
  <2>2. ASSUME out[t].times # 0 PROVE FALSE
    <3>1. D = 0 .. q.kt - 1 BY <2>1, <2>2 DEF TileSums
    <3>2. w.k \in D /\ w.k \in PartsOf(w) BY <1>8, <3>1 DEF Pending, PartsOf
    <3>3. QED BY <1>8, <3>2 DEF Pending
  <2>3. QED BY <2>1, <2>2
<1>10. QED BY <1>1, <1>2, <1>5, <1>7, <1>8, <1>9

(* A block's step leaves what is known of the other tiles and blocks.      *)
LEMMA OthersStay ==
  ASSUME SumsInv, NEW a \in Blocks, NEW s, Goto(a, s), blk[a].pc \in Moving,
         s \notin {"pending", "mainloop"}, blk[a].pc = "arrive" => s = "next",
         IsValid(blk[a].work), runs <= 1 \/ LockBase(q) = 0,
         s = "next" /\ q.deterministic =>
           0 .. blk[a].work.k - 1 \subseteq DoneParts(q, blk, IndexOf(q, blk[a].work)),
         NEW b \in Blocks, b # a
  PROVE  SumOfBlock(q, blk', blk'[b])
<1> DEFINE w == blk[a].work
           v == blk[b].work
           i == IndexOf(q, v)
           D == DoneParts(q, blk, i)
           A == AddedParts(q, blk, i)
           E == DoneParts(q, blk', i)
           F == AddedParts(q, blk', i)
<1>1. OnceInv /\ WholeClusters(Grid) /\ blk'[b] = blk[b] /\ Pending(q, w, DoneParts(q, blk, IndexOf(q, w)))
  BY SumsOfWork DEF SumsInv, Goto, Blocks
<1>2. BlockSums(q, D, A, blk[b].pc, v) BY <1>1 DEF SumsInv, SumOfBlock
<1>3. CASE blk[b].pc \notin {"store", "lock", "reduce", "arrive", "epilogue"}
  <2>1. BlockSums(q, E, F, blk[b].pc, v) BY <1>3 DEF BlockSums
  <2>2. QED BY <1>1, <2>1 DEF SumOfBlock
<1>4. CASE blk[b].pc \in {"store", "lock", "reduce", "arrive", "epilogue"}
  <2>1. IsValid(v) /\ blk[b].pc # "pending" /\ blk[a].pc # "pending"
    BY <1>1, <1>4 DEF OnceInv, UnitOnce, Moving
  <2>2. /\ v.k \in Nat /\ v.count \in Nat \ {0} /\ i \in Nat
    BY <1>1, <2>1, WorkOfBlock, TilesOfOut DEF WorkCovers, IndexOf
  <2>3. /\ E = D \cup IF s = "next" /\ i = IndexOf(q, w) THEN PartsOf(w) ELSE {}
        /\ A \subseteq F
    BY <1>1, <2>2, PartsByGoto
  <2>4. ASSUME q.deterministic, blk[b].pc \in {"store", "reduce", "arrive"} PROVE E = D
    <3>1. D = 0 .. v.k - 1 BY <1>2, <2>4 DEF BlockSums
    <3>2. CASE s = "next" /\ i = IndexOf(q, w)
      <4>1. w.k \in Nat /\ w.count \in Nat \ {0} /\ D \cap PartsOf(w) = {} /\ 0 .. w.k - 1 \subseteq D
        BY <1>1, <2>4, <3>2 DEF Pending
      <4>2. PartsOf(w) \cap PartsOf(v) = {} BY <1>1, <2>1, <3>2, WorksApart
      <4>3. w.k \in PartsOf(w) /\ v.k \in PartsOf(v) BY <2>2, <4>1 DEF PartsOf
      <4>4. v.k <= w.k BY <2>2, <3>1, <4>1, <4>3
      <4>5. w.k <= v.k
        <5>1. w.k - 1 \in 0 .. v.k - 1 \/ w.k = 0 BY <3>1, <4>1
        <5>2. QED BY <2>2, <4>1, <5>1
      <4>6. QED BY <2>2, <4>1, <4>2, <4>3, <4>4, <4>5
    <3>3. QED BY <2>3, <3>2
  <2>5. D \subseteq E BY <2>3
  <2> HIDE DEF D, A, E, F, v
  <2>6. BlockSums(q, E, F, blk[b].pc, v) BY <1>2, <2>3, <2>4, <2>5 DEF BlockSums
  <2>7. QED BY <1>1, <2>6 DEF SumOfBlock, E, F, i, v
<1>5. QED BY <1>3, <1>4

(* A block's step keeps the invariant if it keeps what is known of its own *)
(* tile.                                                                   *)
LEMMA SumsByGoto ==
  ASSUME SumsInv, OnceInv', NEW a \in Blocks, NEW s, Goto(a, s),
         UNCHANGED <<problem, q, host, runs>>, blk[a].pc \in Moving,
         s \notin {"pending", "mainloop"}, blk[a].pc = "arrive" => s = "next",
         IsValid(blk[a].work),
         DOMAIN partial' = DOMAIN partial, DOMAIN out' = DOMAIN out,
         \A i \in DOMAIN partial : i # Tile(a) => lock'[i] = lock[i] /\ partial'[i] = partial[i],
         \A t \in DOMAIN out : t # TileOf(blk[a].work) => out'[t] = out[t],
         runs <= 1 \/ LockBase(q) = 0 =>
           LET w == blk[a].work
               D == DoneParts(q, blk', IndexOf(q, w))
               A == AddedParts(q, blk', IndexOf(q, w))
           IN  /\ TileSums(q, Tile(a), LockBase(q), runs, D, A, out'[TileOf(w)].times,
                           lock'[Tile(a)], partial'[Tile(a)], out'[TileOf(w)].sum)
               /\ BlockSums(q, D, A, s, w)
               /\ s = "next" /\ q.deterministic =>
                    0 .. w.k - 1 \subseteq DoneParts(q, blk, IndexOf(q, w))
  PROVE  SumsInv'
<1> DEFINE w == blk[a].work
           j == IndexOf(q, w)
<1>1. /\ OnceInv /\ WholeClusters(Grid) /\ host # "initialize" /\ j = Tile(a) /\ j \in Nat
      /\ TileOf(w) \in DOMAIN out
  BY SumsOfWork DEF SumsInv
<1>2. Blocks' = Blocks /\ Grid' = Grid /\ (WholeClusters(Grid))' = WholeClusters(Grid)
  BY DEF Goto, Blocks, Grid, WholeClusters
<1>3. DOMAIN blk[a] = {"idx", "work", "start", "nth", "pc"}
  BY <1>1 DEF OnceInv, WorkInv, TogetherInv, Placed
<1>4. blk'[a].pc = s /\ blk'[a].work = w BY <1>3 DEF Goto, Blocks
<1>5. ASSUME runs <= 1 \/ LockBase(q) = 0, NEW t \in DOMAIN out
      PROVE  SumOfTile(q, blk', out', lock', partial', runs, LockBase(q), t)
  <2>1. CASE t = TileOf(w)
    <3>1. TileIndex(q, t) = j BY <2>1 DEF IndexOf
    <3>2. TileSums(q, j, LockBase(q), runs, DoneParts(q, blk', j), AddedParts(q, blk', j),
                   out'[t].times, lock'[j], partial'[j], out'[t].sum)
      BY <1>1, <1>5, <2>1
    <3>3. QED BY <3>1, <3>2 DEF SumOfTile
  <2>2. CASE t # TileOf(w)
    <3> DEFINE i == TileIndex(q, t)
    <3>1. i \in Nat /\ i # j /\ i \in DOMAIN partial
      <4>1. /\ i \in Nat /\ i # j /\ t \in Tiles(q)
            /\ problem \in Problems /\ Same(q, UnderlyingParams(problem))
        BY <1>1, <2>2, TilesOfOut, LaunchedFitted DEF IndexOf, OnceInv, WorkInv
      <4>2. QED BY <4>1, TilesHaveIndices DEF SumsInv
    <3>2. DoneParts(q, blk', i) = DoneParts(q, blk, i) /\ AddedParts(q, blk', i) = AddedParts(q, blk, i)
      <4>1. /\ DoneParts(q, blk', i) = DoneParts(q, blk, i)
                 \cup IF s = "next" /\ i = j THEN PartsOf(w) ELSE {}
            /\ AddedParts(q, blk', i) = AddedParts(q, blk, i)
                 \cup IF s \in {"arrive", "next"} /\ blk[a].pc # "arrive" /\ i = j
                      THEN PartsOf(w) ELSE {}
        BY <1>1, <3>1, PartsByGoto
      <4>2. QED BY <3>1, <4>1
    <3>3. out'[t] = out[t] /\ lock'[i] = lock[i] /\ partial'[i] = partial[i]
      BY <1>1, <2>2, <3>1
    <3>4. SumOfTile(q, blk, out, lock, partial, runs, LockBase(q), t)
      BY <1>1, <1>5 DEF SumsInv, ClearedLocks
    <3>5. QED BY <3>2, <3>3, <3>4 DEF SumOfTile
  <2>3. QED BY <2>1, <2>2
<1>6. ASSUME runs <= 1 \/ LockBase(q) = 0, NEW b \in Blocks
      PROVE  SumOfBlock(q, blk', blk'[b])
  <2>1. CASE b = a BY <1>4, <1>6, <2>1 DEF SumOfBlock
  <2>2. CASE b # a BY <1>6, <2>2, OthersStay
  <2>3. QED BY <2>1, <2>2
<1>7. ClearedLocks(q', host') = LockBase(q) BY <1>1 DEF ClearedLocks
<1>8. /\ runs' \in Nat /\ (runs' = 0 => Blocks' = {}) /\ (host' = "initialize" => runs' = 0)
      /\ DOMAIN partial' = 0 .. q'.blocks_per_problem - 1
  BY <1>2 DEF SumsInv
<1>9. runs' <= 1 \/ LockBase(q') = 0 =>
        /\ \A t \in DOMAIN out' :
             SumOfTile(q', blk', out', lock', partial', runs', ClearedLocks(q', host'), t)
        /\ \A b \in Blocks' : SumOfBlock(q', blk', blk'[b])
  BY <1>2, <1>5, <1>6, <1>7
<1>10. QED BY <1>8, <1>9 DEF SumsInv

(* A step that does no part of any tile. *)
LEMMA SumsStay ==
  ASSUME SumsInv, OnceInv', Blocks' = Blocks, UNCHANGED <<problem, q, runs, out, lock, partial>>,
         host' = "initialize" <=> host = "initialize",
         \A i : DoneParts(q, blk', i) = DoneParts(q, blk, i),
         \A i : AddedParts(q, blk', i) = AddedParts(q, blk, i),
         \A b \in Blocks : \/ blk'[b] = blk[b]
                           \/ blk'[b].pc \notin {"store", "lock", "reduce", "arrive", "epilogue"}
  PROVE  SumsInv'
<1>1. (WholeClusters(Grid))' = WholeClusters(Grid) /\ ClearedLocks(q', host') = ClearedLocks(q, host)
  BY DEF Grid, WholeClusters, ClearedLocks
<1>2. ASSUME WholeClusters(Grid), runs <= 1 \/ LockBase(q) = 0, NEW t \in DOMAIN out
      PROVE  SumOfTile(q, blk', out, lock, partial, runs, ClearedLocks(q, host), t)
  BY <1>2 DEF SumsInv, SumOfTile
<1>3. ASSUME WholeClusters(Grid), runs <= 1 \/ LockBase(q) = 0, NEW b \in Blocks
      PROVE  SumOfBlock(q, blk', blk'[b])
  <2>1. CASE blk'[b] = blk[b] BY <1>3, <2>1 DEF SumsInv, SumOfBlock
  <2>2. CASE blk'[b].pc \notin {"store", "lock", "reduce", "arrive", "epilogue"}
    BY <2>2 DEF SumOfBlock, BlockSums
  <2>3. QED BY <2>1, <2>2
<1>4. QED BY <1>1, <1>2, <1>3 DEF SumsInv

LEMMA MainloopKeepsSums ==
  ASSUME SumsInv, OnceInv', NEW a \in Blocks, Mainloop(a)
  PROVE  SumsInv'
<1> DEFINE w == blk[a].work
           i == IndexOf(q, w)
           D == DoneParts(q, blk, i)
           A == AddedParts(q, blk, i)
<1>1. PICK s \in {"exit", "epilogue", "store", "lock"} :
        /\ Goto(a, s) /\ UNCHANGED <<q, host, out, lock, partial, runs>>
        /\ s = "exit" <=> ~IsValid(w)
        /\ s = "store" => ~ComputeEpilogue(q, w) /\ w.k = 0
        /\ s = "epilogue" => ComputeEpilogue(q, w) /\ ~RequiresFixup(q, w)
        /\ s = "lock" => w.k > 0
  BY MainloopGoes DEF SumsInv
<1>2. OnceInv /\ blk[a].pc = "mainloop" /\ problem' = problem /\ blk[a].pc \in Moving
  BY DEF Mainloop, hostvars, SumsInv, Moving
<1>3. \A pcs \in {{"next"}, {"arrive", "next"}} : \A j :
        PartsIn(q, blk', j, pcs) = PartsIn(q, blk, j, pcs)
  BY <1>1, <1>2, PartsStay
<1>4. \A j : /\ DoneParts(q, blk', j) = DoneParts(q, blk, j)
             /\ AddedParts(q, blk', j) = AddedParts(q, blk, j)
  BY <1>3 DEF DoneParts, AddedParts
<1>5. CASE s = "exit"
  <2>1. Blocks' = Blocks BY <1>1 DEF Goto, Blocks
  <2>2. DOMAIN blk[a] = {"idx", "work", "start", "nth", "pc"}
    BY <1>2 DEF OnceInv, WorkInv, TogetherInv, Placed
  <2>3. \A b \in Blocks : blk'[b] = blk[b] \/ blk'[b].pc = "exit"
    BY <1>1, <1>5, <2>2 DEF Goto, Blocks
  <2>4. QED BY <1>1, <1>2, <1>4, <2>1, <2>3, SumsStay
<1>6. CASE s # "exit"
  <2>1. IsValid(w) BY <1>1, <1>6
  <2>2. /\ i = Tile(a) /\ Pending(q, w, D) /\ Pending(q, w, A)
        /\ runs <= 1 \/ LockBase(q) = 0 =>
             /\ out[TileOf(w)].times = 0
             /\ TileSums(q, i, LockBase(q), runs, D, A, 0, lock[i], partial[i],
                         out[TileOf(w)].sum)
    BY <1>2, <2>1, SumsOfWork
  <2>3. ASSUME runs <= 1 \/ LockBase(q) = 0
        PROVE  /\ BlockSums(q, D, A, s, w)
               /\ TileSums(q, i, LockBase(q), runs, D, A, out[TileOf(w)].times, lock[i], partial[i],
                           out[TileOf(w)].sum)
    <3>1. ASSUME s = "store" PROVE D = 0 .. w.k - 1
      <4>1. w.k = 0 /\ 0 \in PartsOf(w) BY <1>1, <2>2, <3>1 DEF Pending, PartsOf
      <4>2. D = {} BY <2>2, <2>3, <4>1 DEF Pending, TileSums
      <4>3. QED BY <4>1, <4>2
    <3>2. BlockSums(q, D, A, s, w) BY <1>1, <1>6, <3>1 DEF BlockSums
    <3>3. QED BY <2>2, <2>3, <3>2
  <2>4. s \notin {"pending", "mainloop", "next"} OBVIOUS
  <2>5. QED BY <1>1, <1>2, <1>4, <2>1, <2>2, <2>3, <2>4, SumsByGoto
<1>7. QED BY <1>5, <1>6

LEMMA StoreKeepsSums ==
  ASSUME SumsInv, OnceInv', NEW a \in Blocks, Store(a)
  PROVE  SumsInv'
<1> DEFINE w == blk[a].work
           i == IndexOf(q, w)
           D == DoneParts(q, blk, i)
           A == AddedParts(q, blk, i)
<1>1. /\ blk[a].pc = "store" /\ Goto(a, "arrive") /\ UNCHANGED <<problem, q, host, runs, lock, out>>
      /\ partial' = [partial EXCEPT ![Tile(a)] = <<Part(runs, w)>>]
  BY DEF Store, hostvars, Own, Part
<1>2. OnceInv /\ IsValid(w) /\ blk[a].pc \in Moving
  BY <1>1 DEF SumsInv, OnceInv, UnitOnce, Moving
<1>3. /\ i = Tile(a) /\ i \in Nat /\ i \in DOMAIN partial /\ Pending(q, w, D) /\ Pending(q, w, A)
      /\ runs <= 1 \/ LockBase(q) = 0 =>
           /\ out[TileOf(w)].times = 0
           /\ TileSums(q, i, LockBase(q), runs, D, A, 0, lock[i], partial[i], out[TileOf(w)].sum)
           /\ BlockSums(q, D, A, "store", w)
  BY <1>1, <1>2, SumsOfWork
<1>4. DoneParts(q, blk', i) = D /\ AddedParts(q, blk', i) = A \cup PartsOf(w)
  <2>1. /\ DoneParts(q, blk', i)
             = D \cup IF "arrive" = "next" /\ i = i THEN PartsOf(w) ELSE {}
        /\ AddedParts(q, blk', i)
             = A \cup IF "arrive" \in {"arrive", "next"} /\ blk[a].pc # "arrive" /\ i = i
                      THEN PartsOf(w) ELSE {}
    BY <1>1, <1>2, <1>3, PartsByGoto
  <2>2. QED BY <1>1, <2>1
<1>5. ASSUME runs <= 1 \/ LockBase(q) = 0
      PROVE  /\ TileSums(q, i, LockBase(q), runs, D, A \cup PartsOf(w), out'[TileOf(w)].times,
                         lock'[i], partial'[i], out'[TileOf(w)].sum)
             /\ BlockSums(q, D, A \cup PartsOf(w), "arrive", w)
  <2>1. w.k = 0 /\ (q.deterministic => D = 0 .. w.k - 1) BY <1>3, <1>5 DEF BlockSums
  <2>2. BlockSums(q, D, A \cup PartsOf(w), "arrive", w) BY <2>1 DEF BlockSums
  <2>3. TileSums(q, i, LockBase(q), runs, D, A \cup PartsOf(w), 0, lock[i], <<Part(runs, w)>>,
                 out[TileOf(w)].sum)
    BY <1>3, <1>5, <2>1, StoreSums
  <2>4. partial'[i] = <<Part(runs, w)>> BY <1>1, <1>3
  <2>5. QED BY <1>1, <1>3, <1>5, <2>2, <2>3, <2>4
<1>6. /\ DOMAIN partial' = DOMAIN partial
      /\ \A j \in DOMAIN partial : j # Tile(a) => lock'[j] = lock[j] /\ partial'[j] = partial[j]
      /\ \A t \in DOMAIN out : out'[t] = out[t]
  BY <1>1
<1>7. QED BY <1>1, <1>2, <1>3, <1>4, <1>5, <1>6, SumsByGoto

LEMMA LockKeepsSums ==
  ASSUME SumsInv, OnceInv', NEW a \in Blocks, Lock(a)
  PROVE  SumsInv'
<1> DEFINE w == blk[a].work
           i == IndexOf(q, w)
           D == DoneParts(q, blk, i)
           A == AddedParts(q, blk, i)
           s == IF ComputeEpilogue(q, w) THEN "epilogue" ELSE "reduce"
<1>1. /\ blk[a].pc = "lock" /\ Goto(a, s) /\ MayReduce(a)
      /\ UNCHANGED <<problem, q, host, runs, lock, partial, out>>
  BY DEF Lock, hostvars
<1>2. OnceInv /\ IsValid(w) /\ blk[a].pc \in Moving
  BY <1>1 DEF SumsInv, OnceInv, UnitOnce, Moving
<1>3. /\ i = Tile(a) /\ i \in Nat /\ Pending(q, w, D) /\ i \in DOMAIN lock
      /\ runs <= 1 \/ LockBase(q) = 0 =>
           /\ out[TileOf(w)].times = 0
           /\ TileSums(q, i, LockBase(q), runs, D, A, 0, lock[i], partial[i], out[TileOf(w)].sum)
           /\ BlockSums(q, D, A, "lock", w)
  BY <1>1, <1>2, SumsOfWork
<1>4. i < LockBase(q) /\ lock[i] \in Nat
  BY <1>1, <1>2, <1>3, WorkHasLocks DEF LocksAreCleared, OnceInv, WorkInv
<1>5. s \in {"epilogue", "reduce"} /\ (s = "reduce" <=> ~ComputeEpilogue(q, w)) OBVIOUS
<1> HIDE DEF s
<1>6. DoneParts(q, blk', i) = D /\ AddedParts(q, blk', i) = A
  <2>1. /\ DoneParts(q, blk', i) = D \cup IF s = "next" /\ i = i THEN PartsOf(w) ELSE {}
        /\ AddedParts(q, blk', i)
             = A \cup IF s \in {"arrive", "next"} /\ blk[a].pc # "arrive" /\ i = i
                      THEN PartsOf(w) ELSE {}
    BY <1>1, <1>2, <1>3, <1>5, PartsByGoto
  <2>2. QED BY <1>5, <2>1
<1>7. ASSUME runs <= 1 \/ LockBase(q) = 0 PROVE BlockSums(q, D, A, s, w)
  <2>1. w.k \in Nat /\ w.k > 0 /\ 0 \in 0 .. w.k - 1
    BY <1>3, <1>7 DEF BlockSums, Pending
  <2>2. CASE q.deterministic \/ ComputeEpilogue(q, w)
    <3>1. lock[i] = w.k /\ (q.deterministic \/ w.k + w.count = q.kt)
      BY <1>1, <1>3, <2>2 DEF MayReduce, ComputeEpilogue
    <3>2. D = 0 .. w.k - 1
      <4>1. TileSums(q, i, LockBase(q), runs, D, A, 0, lock[i], partial[i], out[TileOf(w)].sum)
        BY <1>3, <1>7
      <4> HIDE DEF w, i, D, A
      <4>2. QED BY <1>3, <1>4, <3>1, <4>1, LockSums
    <3>3. QED BY <1>5, <2>1, <3>2 DEF BlockSums
  <2>3. CASE ~(q.deterministic \/ ComputeEpilogue(q, w))
    <3>1. lock[i] >= 1 /\ lock[i] = Cardinality(D)
      BY <1>1, <1>3, <1>4, <1>7, <2>3 DEF MayReduce, TileSums
    <3>2. D # {} BY <3>1, FS_EmptySet
    <3>3. 0 \in D BY <1>3, <1>7, <3>2 DEF TileSums
    <3>4. QED BY <1>5, <2>3, <3>3 DEF BlockSums
  <2>4. QED BY <2>2, <2>3
<1>8. ASSUME runs <= 1 \/ LockBase(q) = 0
      PROVE  TileSums(q, i, LockBase(q), runs, D, A, out'[TileOf(w)].times, lock'[i], partial'[i],
                      out'[TileOf(w)].sum)
  BY <1>1, <1>3, <1>8
<1>9. QED BY <1>1, <1>2, <1>3, <1>5, <1>6, <1>7, <1>8, SumsByGoto

LEMMA ReduceKeepsSums ==
  ASSUME SumsInv, OnceInv', NEW a \in Blocks, Reduce(a)
  PROVE  SumsInv'
<1> DEFINE w == blk[a].work
           i == IndexOf(q, w)
           D == DoneParts(q, blk, i)
           A == AddedParts(q, blk, i)
<1>1. /\ blk[a].pc = "reduce" /\ Goto(a, "arrive") /\ UNCHANGED <<problem, q, host, runs, lock, out>>
      /\ partial' = [partial EXCEPT ![Tile(a)] = Append(@, Part(runs, w))]
  BY DEF Reduce, hostvars, Own, Part
<1>2. OnceInv /\ IsValid(w) /\ blk[a].pc \in Moving
  BY <1>1 DEF SumsInv, OnceInv, UnitOnce, Moving
<1>3. /\ i = Tile(a) /\ i \in Nat /\ i \in DOMAIN partial /\ Pending(q, w, D) /\ Pending(q, w, A)
      /\ runs <= 1 \/ LockBase(q) = 0 =>
           /\ out[TileOf(w)].times = 0
           /\ TileSums(q, i, LockBase(q), runs, D, A, 0, lock[i], partial[i], out[TileOf(w)].sum)
           /\ BlockSums(q, D, A, "reduce", w)
  BY <1>1, <1>2, SumsOfWork
<1>4. DoneParts(q, blk', i) = D /\ AddedParts(q, blk', i) = A \cup PartsOf(w)
  <2>1. /\ DoneParts(q, blk', i)
             = D \cup IF "arrive" = "next" /\ i = i THEN PartsOf(w) ELSE {}
        /\ AddedParts(q, blk', i)
             = A \cup IF "arrive" \in {"arrive", "next"} /\ blk[a].pc # "arrive" /\ i = i
                      THEN PartsOf(w) ELSE {}
    BY <1>1, <1>2, <1>3, PartsByGoto
  <2>2. QED BY <1>1, <2>1
<1>5. ASSUME runs <= 1 \/ LockBase(q) = 0
      PROVE  /\ TileSums(q, i, LockBase(q), runs, D, A \cup PartsOf(w), out'[TileOf(w)].times,
                         lock'[i], partial'[i], out'[TileOf(w)].sum)
             /\ BlockSums(q, D, A \cup PartsOf(w), "arrive", w)
  <2>1. 0 \in D /\ (q.deterministic => D = 0 .. w.k - 1) BY <1>3, <1>5 DEF BlockSums
  <2>2. BlockSums(q, D, A \cup PartsOf(w), "arrive", w) BY <2>1 DEF BlockSums
  <2>3. TileSums(q, i, LockBase(q), runs, D, A \cup PartsOf(w), 0, lock[i],
                 Append(partial[i], Part(runs, w)), out[TileOf(w)].sum)
    BY <1>3, <1>5, <2>1, ReduceSums
  <2>4. partial'[i] = Append(partial[i], Part(runs, w)) BY <1>1, <1>3
  <2>5. QED BY <1>1, <1>3, <1>5, <2>2, <2>3, <2>4
<1>6. /\ DOMAIN partial' = DOMAIN partial
      /\ \A j \in DOMAIN partial : j # Tile(a) => lock'[j] = lock[j] /\ partial'[j] = partial[j]
      /\ \A t \in DOMAIN out : out'[t] = out[t]
  BY <1>1
<1>7. QED BY <1>1, <1>2, <1>3, <1>4, <1>5, <1>6, SumsByGoto

LEMMA ArriveKeepsSums ==
  ASSUME SumsInv, OnceInv', NEW a \in Blocks, Arrive(a)
  PROVE  SumsInv'
<1> DEFINE w == blk[a].work
           i == IndexOf(q, w)
           D == DoneParts(q, blk, i)
           A == AddedParts(q, blk, i)
<1>1. /\ blk[a].pc = "arrive" /\ Goto(a, "next")
      /\ UNCHANGED <<problem, q, host, runs, partial, out>>
      /\ lock' = [lock EXCEPT ![Tile(a)] = @ + w.count]
  BY DEF Arrive, hostvars
<1>2. OnceInv /\ IsValid(w) /\ blk[a].pc \in Moving
  BY <1>1 DEF SumsInv, OnceInv, UnitOnce, Moving
<1>3. /\ i = Tile(a) /\ i \in Nat /\ i \in DOMAIN lock /\ Pending(q, w, D)
      /\ runs <= 1 \/ LockBase(q) = 0 =>
           /\ out[TileOf(w)].times = 0
           /\ TileSums(q, i, LockBase(q), runs, D, A, 0, lock[i], partial[i], out[TileOf(w)].sum)
           /\ BlockSums(q, D, A, "arrive", w)
  BY <1>1, <1>2, SumsOfWork
<1>4. DoneParts(q, blk', i) = D \cup PartsOf(w) /\ AddedParts(q, blk', i) = A
  <2>1. /\ DoneParts(q, blk', i) = D \cup IF "next" = "next" /\ i = i THEN PartsOf(w) ELSE {}
        /\ AddedParts(q, blk', i)
             = A \cup IF "next" \in {"arrive", "next"} /\ blk[a].pc # "arrive" /\ i = i
                      THEN PartsOf(w) ELSE {}
    BY <1>1, <1>2, <1>3, PartsByGoto
  <2>2. QED BY <1>1, <2>1
<1>5. ASSUME runs <= 1 \/ LockBase(q) = 0
      PROVE  /\ TileSums(q, i, LockBase(q), runs, D \cup PartsOf(w), A, out'[TileOf(w)].times,
                         lock'[i], partial'[i], out'[TileOf(w)].sum)
             /\ BlockSums(q, D \cup PartsOf(w), A, "next", w)
             /\ q.deterministic => 0 .. w.k - 1 \subseteq D
  <2>1. TileSums(q, i, LockBase(q), runs, D \cup PartsOf(w), A, 0, lock[i] + w.count, partial[i],
                 out[TileOf(w)].sum)
    BY <1>3, <1>5, ArriveSums
  <2>2. lock'[i] = lock[i] + w.count BY <1>1, <1>3
  <2>3. BlockSums(q, D \cup PartsOf(w), A, "next", w) BY DEF BlockSums
  <2>4. q.deterministic => 0 .. w.k - 1 \subseteq D BY <1>3, <1>5 DEF BlockSums
  <2>5. QED BY <1>1, <1>3, <1>5, <2>1, <2>2, <2>3, <2>4
<1>6. /\ DOMAIN partial = DOMAIN lock
      /\ \A j \in DOMAIN partial : j # Tile(a) => lock'[j] = lock[j] /\ partial'[j] = partial[j]
      /\ \A t \in DOMAIN out : out'[t] = out[t]
  BY <1>1, <1>2 DEF SumsInv, OnceInv, WorkInv
<1>7. QED BY <1>1, <1>2, <1>3, <1>4, <1>5, <1>6, SumsByGoto

LEMMA EpilogueKeepsSums ==
  ASSUME SumsInv, OnceInv', NEW a \in Blocks, Epilogue(a)
  PROVE  SumsInv'
<1> DEFINE w == blk[a].work
           t == TileOf(w)
           i == IndexOf(q, w)
           D == DoneParts(q, blk, i)
           A == AddedParts(q, blk, i)
           sum == IF w.k # 0 THEN Append(partial[i], Part(runs, w)) ELSE <<Part(runs, w)>>
<1>1. /\ blk[a].pc = "epilogue" /\ Goto(a, "next")
      /\ UNCHANGED <<problem, q, host, runs, lock, partial>>
      /\ out' = [out EXCEPT ![t] =
           [sum |-> IF RequiresFixup(q, w) THEN Append(partial[Tile(a)], Part(runs, w))
                    ELSE <<Part(runs, w)>>,
            times |-> @.times + 1]]
  BY DEF Epilogue, hostvars, Own, Part
<1>2. OnceInv /\ IsValid(w) /\ ComputeEpilogue(q, w) /\ blk[a].pc \in Moving
  BY <1>1 DEF SumsInv, OnceInv, UnitOnce, Moving
<1>3. /\ i = Tile(a) /\ i \in Nat /\ t \in DOMAIN out /\ Pending(q, w, D) /\ Pending(q, w, A)
      /\ runs <= 1 \/ LockBase(q) = 0 =>
           /\ out[t].times = 0
           /\ TileSums(q, i, LockBase(q), runs, D, A, 0, lock[i], partial[i], out[t].sum)
           /\ BlockSums(q, D, A, "epilogue", w)
  BY <1>1, <1>2, SumsOfWork
<1>4. DoneParts(q, blk', i) = D \cup PartsOf(w) /\ AddedParts(q, blk', i) = A \cup PartsOf(w)
  <2>1. /\ DoneParts(q, blk', i) = D \cup IF "next" = "next" /\ i = i THEN PartsOf(w) ELSE {}
        /\ AddedParts(q, blk', i)
             = A \cup IF "next" \in {"arrive", "next"} /\ blk[a].pc # "arrive" /\ i = i
                      THEN PartsOf(w) ELSE {}
    BY <1>1, <1>2, <1>3, PartsByGoto
  <2>2. QED BY <1>1, <2>1
<1>5. /\ w.k \in Nat /\ w.count \in Nat /\ w.k + w.count = q.kt /\ q.kt \in Nat
      /\ RequiresFixup(q, w) <=> w.k # 0
  BY <1>2, <1>3 DEF Pending, ComputeEpilogue, RequiresFixup
<1>6. ASSUME runs <= 1 \/ LockBase(q) = 0
      PROVE  /\ TileSums(q, i, LockBase(q), runs, D \cup PartsOf(w), A \cup PartsOf(w), 1, lock[i],
                         partial[i], sum)
             /\ out'[t].times = 1 /\ out'[t].sum = sum
             /\ BlockSums(q, D \cup PartsOf(w), A \cup PartsOf(w), "next", w)
             /\ q.deterministic => 0 .. w.k - 1 \subseteq D
  <2>1. 0 .. w.k - 1 \subseteq D BY <1>3, <1>5, <1>6 DEF BlockSums
  <2>2. TileSums(q, i, LockBase(q), runs, D \cup PartsOf(w), A \cup PartsOf(w), 1, lock[i],
                 partial[i], sum)
    <3>1. TileSums(q, i, LockBase(q), runs, D, A, 0, lock[i], partial[i], out[t].sum)
      BY <1>3, <1>6
    <3>2. Pending(q, w, A) /\ w.k + w.count = q.kt /\ (w.k # 0 => 0 .. w.k - 1 \subseteq D)
      BY <1>3, <1>5, <2>1
    <3> HIDE DEF w, i, D, A, t
    <3>3. QED BY <3>1, <3>2, EpilogueSums
  <2>3. out'[t].times = 1 /\ out'[t].sum = sum BY <1>1, <1>3, <1>5, <1>6
  <2>4. BlockSums(q, D \cup PartsOf(w), A \cup PartsOf(w), "next", w) BY DEF BlockSums
  <2>5. QED BY <2>1, <2>2, <2>3, <2>4
<1>7. /\ DOMAIN out' = DOMAIN out /\ DOMAIN partial' = DOMAIN partial
      /\ \A j \in DOMAIN partial : j # Tile(a) => lock'[j] = lock[j] /\ partial'[j] = partial[j]
      /\ \A x \in DOMAIN out : x # t => out'[x] = out[x]
  BY <1>1
<1> HIDE DEF sum
<1>8. QED BY <1>1, <1>2, <1>3, <1>4, <1>6, <1>7, SumsByGoto

LEMMA FetchKeepsSums ==
  ASSUME SumsInv, OnceInv', NEW a \in Blocks, FetchNextWork(a)
  PROVE  SumsInv'
<1>1. \A pcs : "next" \in pcs /\ "mainloop" \notin pcs =>
        \A i, k : Done(q, blk', i, k, pcs) <=> Done(q, blk, i, k, pcs)
  BY FetchOnce DEF SumsInv, OnceInv
<1>2. /\ \A i : DoneParts(q, blk', i) = DoneParts(q, blk, i)
      /\ \A i : AddedParts(q, blk', i) = AddedParts(q, blk, i)
  BY <1>1 DEF DoneParts, AddedParts, PartsIn
<1>3. /\ UNCHANGED <<problem, q, host, runs, out, lock, partial>> /\ Blocks' = Blocks
      /\ \A b \in Blocks : blk'[b] = blk[b] \/ blk'[b].pc = "mainloop"
  <2>1. DOMAIN blk[a] = {"idx", "work", "start", "nth", "pc"}
    BY DEF SumsInv, OnceInv, WorkInv, TogetherInv, Placed
  <2>2. QED BY <2>1 DEF FetchNextWork, hostvars, Fetched, Blocks
<1>4. QED BY <1>2, <1>3, SumsStay

LEMMA DispatchKeepsSums ==
  ASSUME SumsInv, OnceInv', Dispatch
  PROVE  SumsInv'
<1>1. \A pcs : "mainloop" \notin pcs =>
        \A i, k : Done(q, blk', i, k, pcs) <=> Done(q, blk, i, k, pcs)
  BY DispatchOnce DEF SumsInv, OnceInv
<1>2. /\ \A i : DoneParts(q, blk', i) = DoneParts(q, blk, i)
      /\ \A i : AddedParts(q, blk', i) = AddedParts(q, blk, i)
  BY <1>1 DEF DoneParts, AddedParts, PartsIn
<1>3. /\ UNCHANGED <<problem, q, host, runs, out, lock, partial>> /\ Blocks' = Blocks
      /\ \A b \in Blocks : blk'[b] = blk[b] \/ blk'[b].pc = "mainloop"
  BY DEF Dispatch, Fetched, Blocks
<1>4. QED BY <1>2, <1>3, SumsStay

(* A grid that has done nothing finds the locks cleared.                   *)
LEMMA FreshSums ==
  ASSUME NEW u, NEW i, NEW base, NEW run, NEW l, NEW s, NEW sum, i < base => l = 0
  PROVE  TileSums(u, i, base, run, {}, {}, 0, l, s, sum)
<1>1. Cardinality({}) = 0 /\ {} = 0 .. 0 - 1 BY FS_EmptySet
<1>2. QED BY <1>1 DEF TileSums

LEMMA TilesOfGrid ==
  ASSUME WorkInv, WholeClusters(Grid), NEW t \in DOMAIN out
  PROVE  TileIndex(q, t) \in DOMAIN lock /\ TileIndex(q, t) \in Nat
         /\ LockBase(q) \in {0, Workspace(problem)}
<1> DEFINE g == GridShape(problem, TiledCtaShape(problem),
                          problem.scheduler = "static", problem.scheduler = "stream-K")
<1>1. problem \in Problems /\ q = Params(problem) /\ t \in Tiles(q)
  BY DEF WorkInv, TogetherInv, Tiles
<1>2. g.x % problem.cm = 0 /\ g.y % problem.cn = 0 BY DEF WholeClusters, Grid
<1>3. Same(q, UnderlyingParams(problem)) /\ LockBase(q) \in {0, Workspace(problem)}
  BY <1>1, <1>2, LaunchedFits, HostAgrees
<1>4. QED BY <1>1, <1>3, TilesHaveIndices DEF WorkInv

LEMMA InitiallyNoSums == Init => SumsInv
<1> SUFFICES ASSUME Init PROVE SumsInv
  OBVIOUS
<1>1. OnceInv /\ Blocks = {} BY InitiallyOnce DEF Init, Blocks
<1>2. /\ runs = 0 /\ host = "initialize" /\ DOMAIN partial = 0 .. q.blocks_per_problem - 1
      /\ out = [t \in Tiles(q) |-> [sum |-> <<>>, times |-> 0]]
  BY DEF Init, Tiles
<1>3. ASSUME WholeClusters(Grid), NEW t \in DOMAIN out
      PROVE  SumOfTile(q, blk, out, lock, partial, runs, ClearedLocks(q, host), t)
  <2>1. TileIndex(q, t) \in Nat /\ ClearedLocks(q, host) = 0 /\ out[t].times = 0
    BY <1>1, <1>2, <1>3, TilesOfGrid DEF OnceInv, ClearedLocks
  <2>2. /\ DoneParts(q, blk, TileIndex(q, t)) = {} /\ AddedParts(q, blk, TileIndex(q, t)) = {}
    BY <1>1 DEF DoneParts, AddedParts, PartsIn, Done, Blocks
  <2>3. ~(TileIndex(q, t) < 0) BY <2>1
  <2>4. QED BY <2>1, <2>2, <2>3, FreshSums DEF SumOfTile
<1>4. QED BY <1>1, <1>2, <1>3 DEF SumsInv

LEMMA InitializeKeepsSums ==
  ASSUME SumsInv, OnceInv', Initialize
  PROVE  SumsInv'
<1>1. /\ host = "initialize" /\ host' = "run" /\ UNCHANGED <<problem, runs, q, blk, partial, out>>
      /\ lock' = [t \in DOMAIN lock |->
                    IF t < Workspace(problem) /\ LockBase(q) = Workspace(problem)
                    THEN 0 ELSE lock[t]]
  BY DEF Initialize
<1>2. /\ WorkInv /\ runs = 0 /\ Blocks = {} /\ Blocks' = {} /\ TimesAreDone(q, blk, out)
      /\ Grid' = Grid /\ (WholeClusters(Grid))' = WholeClusters(Grid)
  BY <1>1 DEF SumsInv, OnceInv, Blocks, Grid, WholeClusters
<1>3. ASSUME WholeClusters(Grid), NEW t \in DOMAIN out
      PROVE  SumOfTile(q, blk, out, lock', partial, runs, ClearedLocks(q, host'), t)
  <2> DEFINE i == TileIndex(q, t)
  <2>1. i \in DOMAIN lock /\ i \in Nat /\ LockBase(q) \in {0, Workspace(problem)}
        /\ ClearedLocks(q, host') = LockBase(q)
    BY <1>1, <1>2, <1>3, TilesOfGrid DEF ClearedLocks
  <2>2. /\ DoneParts(q, blk, i) = {} /\ AddedParts(q, blk, i) = {}
        /\ ~Done(q, blk, i, q.kt - 1, {"next"})
    BY <1>2 DEF DoneParts, AddedParts, PartsIn, Done, Blocks
  <2>3. out[t].times = 0 BY <1>2, <2>2 DEF TimesAreDone
  <2>4. i < LockBase(q) => lock'[i] = 0 BY <1>1, <2>1
  <2>5. QED BY <2>1, <2>2, <2>3, <2>4, FreshSums DEF SumOfTile
<1>4. QED BY <1>1, <1>2, <1>3 DEF SumsInv

(* A launch: nothing is done yet, and the locks are as the host has        *)
(* cleared them, or there are none.                                        *)
LEMMA RunKeepsSums ==
  ASSUME SumsInv, OnceInv', Run, WholeClusters(Grid)
  PROVE  SumsInv'
<1>1. /\ host = "run" /\ host' = "wait" /\ runs' = runs + 1 /\ runs \in Nat
      /\ UNCHANGED <<problem, q, lock, partial>> /\ DOMAIN out' = DOMAIN out
      /\ (WholeClusters(Grid))' = WholeClusters(Grid)
  BY DEF Run, SumsInv, Grid, WholeClusters
<1>2. /\ WorkInv /\ OnceInv /\ TimesAreDone(q', blk', out') /\ TimesAreDone(q, blk, out)
  BY DEF SumsInv, OnceInv
<1>3. \A pcs, i, k : ~Done(q, blk', i, k, pcs) BY <1>2, RunOnce DEF OnceInv
<1>4. \A b \in Blocks' : blk'[b].pc = "pending" BY <1>2, RunGrid DEF WorkInv
<1>5. ASSUME runs + 1 <= 1 \/ LockBase(q) = 0, NEW t \in DOMAIN out
      PROVE  SumOfTile(q, blk', out', lock, partial, runs', LockBase(q), t)
  <2> DEFINE i == TileIndex(q, t)
  <2>1. i \in DOMAIN lock /\ i \in Nat BY <1>2, TilesOfGrid
  <2>2. DoneParts(q, blk', i) = {} /\ AddedParts(q, blk', i) = {}
    BY <1>3 DEF DoneParts, AddedParts, PartsIn
  <2>3. out'[t].times = 0 BY <1>1, <1>2, <1>3 DEF TimesAreDone
  <2>4. i < LockBase(q) => lock[i] = 0
    <3>1. CASE LockBase(q) = 0 BY <2>1, <3>1
    <3>2. CASE runs + 1 <= 1
      <4>1. runs = 0 /\ Blocks = {} /\ ClearedLocks(q, host) = LockBase(q)
        BY <1>1, <3>2 DEF SumsInv, ClearedLocks
      <4>2. /\ DoneParts(q, blk, i) = {} /\ ~Done(q, blk, i, q.kt - 1, {"next"})
        BY <4>1 DEF DoneParts, PartsIn, Done, Blocks
      <4>3. out[t].times = 0 /\ SumOfTile(q, blk, out, lock, partial, runs, LockBase(q), t)
        BY <1>2, <4>1, <4>2 DEF TimesAreDone, SumsInv
      <4>4. QED BY <4>2, <4>3, FS_EmptySet DEF SumOfTile, TileSums
    <3>3. QED BY <1>5, <3>1, <3>2
  <2>5. QED BY <2>2, <2>3, <2>4, FreshSums DEF SumOfTile
<1>6. \A b \in Blocks' : SumOfBlock(q, blk', blk'[b]) BY <1>4 DEF SumOfBlock, BlockSums
<1>7. ClearedLocks(q', host') = LockBase(q) BY <1>1 DEF ClearedLocks
<1>8. QED BY <1>1, <1>5, <1>6, <1>7 DEF SumsInv

LEMMA SumsStep == SumsInv /\ [Next]_vars => SumsInv'
<1> SUFFICES ASSUME SumsInv, [Next]_vars PROVE SumsInv'
  OBVIOUS
<1>1. OnceInv' BY OnceStep DEF SumsInv
<1>2. CASE Initialize BY <1>1, <1>2, InitializeKeepsSums
<1>3. CASE Run
  <2>1. CASE WholeClusters(Grid) BY <1>1, <1>3, <2>1, RunKeepsSums
  <2>2. CASE ~WholeClusters(Grid)
    <3>1. UNCHANGED <<problem, q, runs, blk, out, lock, partial>> /\ host = "run" /\ host' = "refused"
      BY <1>3, <2>2 DEF Run
    <3>2. QED BY <1>1, <3>1, SumsStay DEF Blocks
  <2>3. QED BY <2>1, <2>2
<1>4. CASE Synchronize
  <2>1. /\ UNCHANGED <<problem, q, runs, blk, out, lock, partial>>
        /\ host = "wait" /\ host' \in {"run", "done"}
    BY <1>4 DEF Synchronize
  <2>2. QED BY <1>1, <2>1, SumsStay DEF Blocks
<1>5. CASE Dispatch BY <1>1, <1>5, DispatchKeepsSums
<1>6. ASSUME NEW b \in Blocks, Block(b) PROVE SumsInv'
  BY <1>1, <1>6, MainloopKeepsSums, StoreKeepsSums, LockKeepsSums, ReduceKeepsSums,
     ArriveKeepsSums, EpilogueKeepsSums, FetchKeepsSums DEF Block
<1>7. CASE Terminated \/ UNCHANGED vars
  <2>1. UNCHANGED <<problem, q, runs, host, blk, out, lock, partial>>
    BY <1>7 DEF Terminated, vars
  <2>2. QED BY <1>1, <2>1, SumsStay DEF Blocks
<1>8. QED BY <1>2, <1>3, <1>4, <1>5, <1>6, <1>7 DEF Next

(* In every reachable state of a launch that finds the locks cleared, a    *)
(* lock counts the k tiles of its output tile that are done, what is in    *)
(* the workspace of a tile is what its peers have added, each part once,   *)
(* and whoever goes on to add or to write knows that what it has to come   *)
(* after is there: the order that Barrier::wait_eq, wait_lt and            *)
(* arrive_inc keep among the peers of a tile.                              *)
THEOREM SumsInvariance == Spec => []SumsInv
  BY InitiallyNoSums, SumsStep, PTL DEF Spec

LEMMA InvImpliesSums ==
  ASSUME SumsInv, runs <= 1 \/ LockBase(q) = 0
  PROVE  SumsAreWhole
<1> SUFFICES ASSUME NEW t \in DOMAIN out, out[t].times > 0
             PROVE  Whole(out[t].sum) /\ (q.deterministic => InOrder(out[t].sum))
  BY DEF SumsAreWhole
<1> DEFINE i == TileIndex(q, t)
           s == out[t].sum
<1>1. OnceInv /\ out[t].times = IF Done(q, blk, i, q.kt - 1, {"next"}) THEN 1 ELSE 0
  BY DEF SumsInv, OnceInv, TimesAreDone
<1>2. Blocks # {} BY <1>1 DEF Done, Blocks
<1>3. WholeClusters(Grid) /\ host # "initialize"
  BY <1>1, <1>2 DEF OnceInv, WorkInv, TogetherInv, GridIsLaunched, SumsInv
<1>4. SumOfTile(q, blk, out, lock, partial, runs, LockBase(q), t)
  BY <1>3 DEF SumsInv, ClearedLocks
<1>5. /\ HoldsParts(s, runs, 0 .. q.kt - 1, q.kt) /\ (q.deterministic => Ordered(s, q.kt))
  BY <1>1, <1>4 DEF SumOfTile, TileSums
<1> HIDE DEF s
<1>6. \A j \in DOMAIN s : s[j].run = runs
  <2> DEFINE X == [run : {runs}, k : Nat, count : Nat]
  <2>1. s \in Seq(X) BY <1>5 DEF HoldsParts
  <2>2. \A x \in X : x.run = runs OBVIOUS
  <2> HIDE DEF X
  <2>3. \A j \in DOMAIN s : s[j] \in X BY <2>1
  <2>4. QED BY <2>2, <2>3
<1>7. ASSUME NEW k \in 0 .. q.kt - 1
      PROVE  Cardinality({j \in DOMAIN s : s[j].k <= k /\ k < s[j].k + s[j].count}) = 1
  <2>1. PICK j : Covering(s, k) = {j} BY <1>5 DEF HoldsParts
  <2>2. QED BY <2>1, FS_Singleton DEF Covering
<1>8. Whole(s) BY <1>6, <1>7 DEF Whole
<1>9. q.deterministic => InOrder(s) BY <1>5, <1>6 DEF InOrder, Ordered
<1>10. QED BY <1>8, <1>9 DEF s

(* However the peers of an output tile interleave, what is written has     *)
(* each k tile once, nothing of what was in the workspace before, and in   *)
(* deterministic mode always the same order of additions: for every        *)
(* problem, decomposition and grid, in the first launch after              *)
(* initialize(), and in every launch whose kernel needs no lock.           *)
THEOREM SumsWhole == Spec => [](runs <= 1 \/ LockBase(q) = 0 => SumsAreWhole)
<1>1. SumsInv => (runs <= 1 \/ LockBase(q) = 0 => SumsAreWhole) BY InvImpliesSums
<1>2. QED
  BY <1>1, SumsInvariance, PTL
=============================================================================
