-------------------------- MODULE StreamKScheduler --------------------------
(***************************************************************************)
(* The stream-K tile scheduler: how the k tiles of the output tiles are    *)
(* divided among work units, and what a unit computes (include/cutlass/    *)
(* gemm/kernel/tile_scheduler_params.h, sm90_tile_scheduler_stream_k.hpp). *)
(* A problem p also has: kt, the k tiles of an output tile; scheduler,     *)
(* "static" or "stream-K"; splits, decomposition_mode, Deterministic.      *)
(* Separate reduction is switched off in this code (tile_scheduler_params. *)
(* h:1284), and the sm90 scheduler leaves ktile_start_alignment_count_ at  *)
(* 1; what depends on them is left out.                                    *)
(***************************************************************************)
EXTENDS TileScheduler

min_iters_per_sk_unit_ == 8
max_sk_groups_ == 8

(* A record with the fields of two. *)
Joined(r, s) ==
  [f \in DOMAIN r \cup DOMAIN s |-> IF f \in DOMAIN r THEN r[f] ELSE s[f]]

CtasPerWave(p, blocks) == GridSize(GridShape(p, blocks, FALSE, TRUE))

(* get_num_sk_tiles *)
NumSkTiles(p, output_tiles, ctas_per_wave) ==
  LET full_waves == output_tiles \div ctas_per_wave
      dp_waves   == IF full_waves > 1 THEN full_waves - 1 ELSE 0
      tail_tiles == output_tiles - full_waves * ctas_per_wave
      none == \/ p.decomposition_mode \in {"DataParallel", "SplitK"}
              \/ tail_tiles = 0
              \/ p.kt <= min_iters_per_sk_unit_
              \/ p.decomposition_mode = "Heuristic" /\ 2 * tail_tiles >= ctas_per_wave
  IN  IF none THEN 0 ELSE output_tiles - dp_waves * ctas_per_wave

(* get_num_sk_units, called with the whole clusters of a wave. *)
NumSkUnits(p, ctas_per_wave, sk_tiles) ==
  LET Whole(ctas) == (ctas \div ClusterSize(p)) * ClusterSize(p)
  IN  Lesser(Whole(ctas_per_wave), Whole((p.kt * sk_tiles) \div min_iters_per_sk_unit_))

(* adjust_split_count *)
AdjustSplitCount(p) == Lesser(Lesser(p.splits, p.sm_count), p.kt)

(* calculate_groups: the largest grouping that is ideal, else the largest  *)
(* that is valid, else one group.                                          *)
Groups(p, b, sk_tiles, sk_units) ==
  LET max_groups == Lesser(max_sk_groups_, IF AlongN(p, b) THEN b.n \div p.cn ELSE b.m \div p.cm)
      cluster_tiles == sk_tiles \div ClusterSize(p)
      cluster_units == sk_units \div ClusterSize(p)
      SplitsTooSmall(g) ==
        ((cluster_tiles \div g) * ClusterSize(p) * p.kt) \div (sk_units \div g)
          < min_iters_per_sk_unit_
      valid == {g \in 2 .. max_groups : cluster_units % g = 0 /\ ~SplitsTooSmall(g)}
      ideal == {g \in valid : cluster_tiles % g = 0}
      Largest(S) == CHOOSE g \in S : \A h \in S : h <= g
  IN  Largest(IF ideal # {} THEN ideal ELSE valid \cup {1})

(* What initialize() leaves in the parameters for split-K and data-parallel *)
(* decompositions (set_params_basic) ...                                   *)
ParamsBasic(p, q, splits) ==
  Joined(q, [units_per_problem |-> q.blocks_per_problem, splits |-> splits,
             clusters_mnl |-> q.blocks_per_problem \div ClusterSize(p),
             k_tiles_per_sk_unit |-> p.kt \div splits, big_units |-> p.kt % splits,
             sk_tiles |-> 0, sk_units |-> 0,
             groups |-> 1, units_per_group |-> 1, big_groups |-> 0])

(* ... and for stream-K (set_params_stream_k). *)
ParamsStreamK(p, q, sk_tiles, sk_units, groups) ==
  Joined(q, [units_per_problem |-> q.blocks_per_problem - sk_tiles + sk_units, splits |-> 1,
             clusters_mnl |-> sk_units \div ClusterSize(p),
             k_tiles_per_sk_unit |-> 0, big_units |-> 0,      (* not read *)
             sk_tiles |-> sk_tiles, sk_units |-> sk_units,
             groups |-> groups, units_per_group |-> sk_units \div groups,
             big_groups |-> (sk_tiles \div ClusterSize(p)) % groups])

SplitKIsRequired(p) ==
  \/ p.decomposition_mode = "SplitK"
  \/ p.decomposition_mode = "Heuristic" /\ p.splits > 1

(* select_decomposition_mode and set_params *)
Params(p) ==
  LET blocks == TiledCtaShape(p)
      q == Joined(UnderlyingParams(p), [kt |-> p.kt, deterministic |-> p.deterministic,
                                        scheduler |-> p.scheduler])
      ctas_per_wave == CtasPerWave(p, blocks)
      sk_tiles == NumSkTiles(p, q.blocks_per_problem, ctas_per_wave)
      sk_units == NumSkUnits(p, ctas_per_wave, sk_tiles)
      split == p.scheduler = "static" \/ SplitKIsRequired(p)
  IN  CASE split -> ParamsBasic(p, q, IF p.scheduler = "static" THEN 1 ELSE AdjustSplitCount(p))
        [] ~split /\ (sk_tiles = 0 \/ sk_units = 0)
             -> ParamsBasic(p, q, 1)
        [] ~split /\ p.decomposition_mode = "Heuristic" /\ sk_tiles > 0
           /\ sk_tiles < sk_units /\ sk_units % sk_tiles = 0
             -> ParamsBasic(p, q, sk_units \div sk_tiles)
        [] OTHER
             -> ParamsStreamK(p, q, sk_tiles, sk_units,
                              Groups(p, Swizzled(p, blocks), sk_tiles, sk_units))

(* A faulty form, for a mutation: the blocks are not rounded to whole      *)
(* swizzled groups, and a split that the heuristic selects is not foreseen. *)
WorkspaceUnrounded(p) ==
  LET b == TiledCtaShape(p)
      sk_tiles == NumSkTiles(p, BlocksIn(b), CtasPerWave(p, b))
      whole == p.scheduler = "static" \/ p.decomposition_mode = "DataParallel"
  IN  CASE whole -> 0
        [] ~whole /\ SplitKIsRequired(p) /\ AdjustSplitCount(p) > 1 -> BlocksIn(b)
        [] OTHER -> sk_tiles

(* get_workspace_component_sizes: the tiles that the host makes room for   *)
(* in the reduction workspace, and the tiles whose locks it clears behind  *)
(* it.  It rounds the blocks before it asks for the grid, and decides on   *)
(* its own which tiles will be split.                                      *)
Workspace(p) ==
  LET b == Swizzled(p, TiledCtaShape(p))
      ctas_per_wave == CtasPerWave(p, b)
      sk_tiles == NumSkTiles(p, BlocksIn(b), ctas_per_wave)
      sk_units == NumSkUnits(p, ctas_per_wave, sk_tiles)
      required == SplitKIsRequired(p) /\ AdjustSplitCount(p) > 1
      selected == /\ p.decomposition_mode = "Heuristic"
                  /\ sk_tiles # 0 /\ sk_units > sk_tiles /\ sk_units % sk_tiles = 0
      whole == p.scheduler = "static" \/ p.decomposition_mode = "DataParallel"
  IN  CASE whole -> 0
        [] ~whole /\ (required \/ selected) -> BlocksIn(b)
        [] OTHER -> sk_tiles

(* Where the kernel looks for the locks: behind the reduction workspace.   *)
LockBase(q) == IF q.splits > 1 THEN q.units_per_problem ELSE q.sk_tiles

-----------------------------------------------------------------------------
InvalidWork == [m |-> -1, n |-> -1, l |-> -1, k |-> -1, count |-> 0, remaining |-> 0]

(* Work on count k tiles of a tile, from k on. *)
WorkOn(t, k, count, remaining) ==
  [m |-> t.m, n |-> t.n, l |-> t.l, k |-> k, count |-> count, remaining |-> remaining]

IsValid(w) == w.count > 0

TileOf(w) == [m |-> w.m, n |-> w.n, l |-> w.l]

Size(q) == q.minor * q.major                        (* get_cluster_size *)

(* A unit whose border falls within min_iters_per_sk_unit_ of the border   *)
(* of an output tile moves it there; its neighbour does the same.          *)
Adjusted(q, iter) ==
  LET k == iter % q.kt IN
  CASE k < min_iters_per_sk_unit_ -> iter - k
    [] k >= min_iters_per_sk_unit_ /\ k > q.kt - min_iters_per_sk_unit_ -> iter + (q.kt - k)
    [] OTHER -> iter

(* The range of k tiles of a split-K unit, in the line of all tiles. *)
SplitKRange(q, cluster) ==
  LET split == cluster \div q.clusters_mnl
      tile  == cluster % q.clusters_mnl
      start == q.kt * tile + q.k_tiles_per_sk_unit * split + Lesser(split, q.big_units)
  IN  [start |-> start,
       end   |-> start + q.k_tiles_per_sk_unit + IF split < q.big_units THEN 1 ELSE 0]

(* The range of a stream-K unit, in the line of the tiles of its group.    *)
StreamKRange(q, cluster) ==
  LET group == cluster % q.groups
      unit  == cluster \div q.groups
      tiles == (q.sk_tiles \div Size(q)) \div q.groups + IF group < q.big_groups THEN 1 ELSE 0
      k_tiles  == tiles * Size(q) * q.kt
      per_unit == k_tiles \div q.units_per_group
      big_units == (k_tiles - per_unit * q.units_per_group) \div Size(q)
      start == per_unit * unit + Lesser(unit, big_units)
      end   == start + per_unit + IF unit < big_units THEN 1 ELSE 0
  IN  [start |-> Adjusted(q, start), end |-> Adjusted(q, end)]

(* get_current_work_iter_start_possible_update_work_tile_k_remaining *)
UnitRange(q, linear_idx) ==
  LET cluster == linear_idx \div Size(q)
  IN  IF q.splits > 1 THEN SplitKRange(q, cluster) ELSE StreamKRange(q, cluster)

(* update_output_tile_id_and_work_tile_k and update_work_tile_m_n_l: the   *)
(* last output tile that the remaining k tiles of the unit reach into.     *)
LastTile(q, linear_idx, unit_iter_start, remaining) ==
  LET cta == BlockIdInCluster(q, linear_idx)
      iter_end   == unit_iter_start + remaining
      tile       == (iter_end - 1) \div q.kt
      tile_start == tile * q.kt
      from == Greater(tile_start, unit_iter_start)
      id   == (tile * q.groups + ((linear_idx \div Size(q)) % q.groups)) * Size(q)
              + (IF q.along_n THEN cta.n ELSE cta.m) * q.minor
  IN  WorkOn(TileAt(q, id, cta), from - tile_start,
             Lesser(tile_start + q.kt, iter_end) - from, remaining)

WholeTile(q, id, cta) == WorkOn(TileAt(q, id, cta), 0, q.kt, q.kt)

(* get_current_work_for_linear_idx and assign_work, of either scheduler *)
CurrentWork(q, linear_idx) ==
  LET cta   == BlockIdInCluster(q, linear_idx)
      range == UnitRange(q, linear_idx)
  IN  CASE linear_idx >= q.units_per_problem * q.splits -> InvalidWork
        [] /\ linear_idx < q.units_per_problem * q.splits
           /\ q.splits = 1 /\ linear_idx >= q.sk_units
             -> WholeTile(q, linear_idx - q.sk_units + q.sk_tiles, cta)
        [] OTHER -> LastTile(q, linear_idx, range.start, range.end - range.start)

(* continue_current_work: go on with the unit, from its last tile back to  *)
(* its first.  The static scheduler never does.                            *)
ContinueWork(q, linear_idx, unit_iter_start, w) ==
  IF q.scheduler = "static" \/ w.remaining = w.count THEN InvalidWork
  ELSE LastTile(q, linear_idx, unit_iter_start, w.remaining - w.count)

RequiresFixup(q, w) == IsValid(w) /\ w.count # q.kt

(* compute_epilogue: the unit with the last k tiles of an output tile. *)
ComputeEpilogue(q, w) == IsValid(w) /\ w.k + w.count = q.kt

(* output_tile_index *)
OutputTileIndex(q, w) == w.l * q.batch + LinearIdx(q, TileOf(w))
=============================================================================
