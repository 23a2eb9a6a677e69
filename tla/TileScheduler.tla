--------------------------- MODULE TileScheduler ---------------------------
(***************************************************************************)
(* The arithmetic of the persistent tile schedulers: how many thread       *)
(* blocks are launched and which output tile a linear work index stands    *)
(* for (include/cutlass/gemm/kernel/tile_scheduler_params.h,               *)
(* static_tile_scheduler.hpp and sm90_tile_scheduler.hpp).                 *)
(* A problem p is a record: m, n, l its output tiles; cm, cn the cluster;  *)
(* max_swizzle_size, raster_order, sm_count, max_active_clusters as in the *)
(* code.  Blocks b are the output tiles after rounding, [m, n, l].         *)
(***************************************************************************)
EXTENDS Integers

CeilDiv(x, d) == (x + d - 1) \div d
RoundUp(x, d) == CeilDiv(x, d) * d
Lesser(x, y) == IF x < y THEN x ELSE y
Greater(x, y) == IF x > y THEN x ELSE y

ClusterSize(p) == p.cm * p.cn

(* Round up to whole clusters. *)
TiledCtaShape(p) == [m |-> RoundUp(p.m, p.cm), n |-> RoundUp(p.n, p.cn), l |-> p.l]

(* 1 << get_log_swizzle_size(): the largest swizzle that is allowed and     *)
(* that the problem is wide enough for.                                    *)
SwizzleSize(b, max_swizzle_size) ==
  LET Fits(s) == /\ max_swizzle_size >= s
                 /\ Lesser(b.m, b.n) >= CASE s = 1 -> 0 [] s = 2 -> 2 [] s = 4 -> 3 [] s = 8 -> 6
  IN  CHOOSE s \in {1, 2, 4, 8} :
        (s = 1 \/ Fits(s)) /\ \A r \in {2, 4, 8} : r > s => ~Fits(r)

(* Round up to whole swizzled groups of clusters. *)
Swizzled(p, b) ==
  LET s == SwizzleSize(b, p.max_swizzle_size) IN
  [m |-> RoundUp(b.m, s * p.cm), n |-> RoundUp(b.n, s * p.cn), l |-> b.l]

BlocksIn(b) == b.m * b.n * b.l

(* get_rasterization_order, for rounded blocks. *)
AlongN(p, b) ==
  \/ p.raster_order = "AlongN"
  \/ p.raster_order = "Heuristic" /\ b.n <= b.m

max_sm_per_gpc == 18

MaxCtaOccupancy(p) ==
  LET Whole(sms) == sms - (sms % ClusterSize(p))
      few  == p.sm_count < max_sm_per_gpc
      gpcs == IF few THEN 1 ELSE p.sm_count \div max_sm_per_gpc
      rest == IF few THEN 0 ELSE p.sm_count % max_sm_per_gpc
  IN  Lesser(p.sm_count, gpcs * Whole(max_sm_per_gpc) + Whole(rest))

(* get_grid_shape.  One dimension of the grid is that of the cluster, the  *)
(* other is as large as the device allows.                                 *)
GridShape(p, blocks, truncate, bypass_occupancy) ==
  LET b     == Swizzled(p, blocks)
      Fit(x, y) == IF truncate THEN Lesser(x, y) ELSE x
      minor == IF AlongN(p, b) THEN p.cm ELSE p.cn
      major == IF AlongN(p, b) THEN p.cn ELSE p.cm
      ctas  == IF bypass_occupancy THEN p.sm_count ELSE MaxCtaOccupancy(p)
      known == /\ ClusterSize(p) > 1
               /\ p.max_active_clusters # 0
               /\ p.max_active_clusters * ClusterSize(p) <= p.sm_count
      long  == CASE ClusterSize(p) = 1 -> Fit(p.sm_count, BlocksIn(b))
                 [] known -> p.max_active_clusters * major
                 [] OTHER -> Fit(ctas \div minor, BlocksIn(b) \div minor)
  IN  IF AlongN(p, b) THEN [x |-> minor, y |-> long] ELSE [x |-> long, y |-> minor]

GridSize(g) == g.x * g.y

(* PersistentTileSchedulerSm90Params::initialize. *)
UnderlyingParams(p) ==
  LET b == Swizzled(p, TiledCtaShape(p))
      n == AlongN(p, b)
  IN  [blocks_per_problem |-> BlocksIn(b), tiles |-> b,
       swizzle |-> SwizzleSize(TiledCtaShape(p), p.max_swizzle_size),
       along_n |-> n,
       batch   |-> b.m * b.n,                                (* divmod_batch_ *)
       major   |-> IF n THEN p.cn ELSE p.cm,         (* divmod_cluster_shape_major_ *)
       minor   |-> IF n THEN p.cm ELSE p.cn,         (* divmod_cluster_shape_minor_ *)
       blk_major |-> IF n THEN b.n \div p.cn ELSE b.m \div p.cm]

(* A faulty form, for a mutation: always as for rasters along M. *)
BlockIdInClusterAlongM(q, i) == [m |-> (i \div q.minor) % q.major, n |-> i % q.minor]

(* block_id_in_cluster() of the block with linear index i: the schedulers  *)
(* number the blocks of a cluster one after another.                       *)
BlockIdInCluster(q, i) ==
  LET minor == i % q.minor
      major == (i \div q.minor) % q.major
  IN  IF q.along_n THEN [m |-> minor, n |-> major] ELSE [m |-> major, n |-> minor]

(* A faulty form, for a mutation: the place within the swizzle is lost. *)
WorkIdxInRows(q, blk_per_grid_dim, cta) ==
  LET cluster_id == blk_per_grid_dim \div q.major
      extra      == cluster_id \div q.swizzle
      minor == (extra \div q.blk_major) * q.swizzle * q.minor + (IF q.along_n THEN cta.m ELSE cta.n)
      major == (extra % q.blk_major) * q.major + (blk_per_grid_dim % q.major)
  IN  IF q.along_n THEN [m |-> minor, n |-> major] ELSE [m |-> major, n |-> minor]

(* get_work_idx_m_and_n. *)
WorkIdx(q, blk_per_grid_dim, cta) ==
  LET cluster_id == blk_per_grid_dim \div q.major
      extra      == cluster_id \div q.swizzle
      cluster_minor == (extra \div q.blk_major) * q.swizzle + (cluster_id % q.swizzle)
      minor == cluster_minor * q.minor + (IF q.along_n THEN cta.m ELSE cta.n)
      major == (extra % q.blk_major) * q.major + (blk_per_grid_dim % q.major)
  IN  IF q.along_n THEN [m |-> minor, n |-> major] ELSE [m |-> major, n |-> minor]

(* A faulty form, for a mutation: the index is not taken within its batch. *)
TileAtInOneBatch(q, id, cta) ==
  LET at == WorkIdx(q, id \div q.minor, cta)
  IN  [m |-> at.m, n |-> at.n, l |-> id \div q.batch]

(* The tile of a linear tile index: the batch, and the place in it. *)
TileAt(q, id, cta) ==
  LET at == WorkIdx(q, (id % q.batch) \div q.minor, cta)
  IN  [m |-> at.m, n |-> at.n, l |-> id \div q.batch]

(* get_linear_idx_from_m_and_n, meant to invert get_work_idx_m_and_n. *)
LinearIdx(q, t) ==
  LET minor == IF q.along_n THEN t.m ELSE t.n
      major == IF q.along_n THEN t.n ELSE t.m
      idx_minor == minor \div q.minor
      extra == (idx_minor \div q.swizzle) * q.blk_major + major \div q.major
      cluster_id == extra * q.swizzle + (idx_minor % q.swizzle)
  IN  (cluster_id * q.major + (major % q.major)) * q.minor + (minor % q.minor)
=============================================================================
