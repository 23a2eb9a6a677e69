--------------------------- MODULE PersistentGemm ---------------------------
(***************************************************************************)
(* A persistent GEMM on a device: the host prepares the workspace and      *)
(* launches a grid, the device dispatches its clusters in order, and the   *)
(* blocks fetch work from the tile scheduler, sum up their k tiles, reduce *)
(* partial sums with other blocks through the workspace, and write output  *)
(* tiles (fixup_helper of sm90_tile_scheduler_stream_k.hpp, the locks of   *)
(* cutlass/barrier.h, the loop of sm90_gemm_tma_warpspecialized_           *)
(* cooperative.hpp and gemm/device/gemm_universal_adapter.h).              *)
(* A sum is the sequence of the ranges of k tiles that were added to it,   *)
(* each with the launch that computed it.  One math warp group stands for  *)
(* all: each has locks and a share of the workspace of its own.            *)
(***************************************************************************)
EXTENDS StreamKScheduler, Sequences, FiniteSets

CONSTANT Problems
(* Beside its shape a problem has: slots, the clusters that are resident   *)
(* at a time, and runs, how often it is launched after one initialize().   *)

(* The sides of a cluster are powers of two, as its FastDivmodU64Pow2      *)
(* divisors (tile_scheduler_params.h:91-92) need, and it has at most the   *)
(* 16 blocks that sm90_shapes.py emits: in a group of 18 multiprocessors   *)
(* get_max_cta_occupancy would find no place for a larger one.  The device *)
(* has room for one cluster, else none would ever run.                     *)
ASSUME PersistentGemmAssumption ==
  \A p \in Problems :
    /\ {p.m, p.n, p.l, p.kt, p.splits, p.sm_count, p.slots, p.runs} \subseteq Nat \ {0}
    /\ {p.cm, p.cn} \subseteq {1, 2, 4, 8, 16}
    /\ ClusterSize(p) <= 16 /\ p.sm_count >= ClusterSize(p)
    /\ p.max_swizzle_size \in Nat \ {0} /\ p.max_active_clusters \in Nat
    /\ p.raster_order \in {"Heuristic", "AlongM", "AlongN"}
    /\ p.scheduler \in {"static", "stream-K"} /\ p.deterministic \in BOOLEAN
    (* can_implement *)
    /\ p.splits = 1 \/ p.decomposition_mode \in {"Heuristic", "SplitK"}
    /\ p.decomposition_mode \in {"Heuristic", "DataParallel", "SplitK", "StreamK"}

VARIABLES
  problem,    (* never changes *)
  host,       (* "initialize", "run", "wait", "refused", "done" *)
  runs,       (* launches so far *)
  q,          (* the parameters of the scheduler *)
  next,       (* clusters dispatched in this launch *)
  blk,        (* the blocks of the grid, by linear index *)
  lock,       (* the locks, by output tile *)
  partial,    (* the reduction workspace, by output tile *)
  out         (* the output tiles, and how often each was written in this launch *)

vars == <<problem, host, runs, q, next, blk, lock, partial, out>>
hostvars == <<problem, host, runs, q, next>>

(* What a former kernel left in the memory of the workspace. *)
StaleLock == 1
StaleSum == <<[run |-> 0, k |-> 0, count |-> problem.kt]>>

Blocks == DOMAIN blk
Cluster(b) == b \div Size(q)
Clusters == {Cluster(b) : b \in Blocks}

Init ==
  /\ problem \in Problems
  /\ host = "initialize" /\ runs = 0 /\ next = 0
  /\ q = Params(problem)
  /\ blk = <<>>
  /\ lock = [t \in 0 .. q.blocks_per_problem - 1 |-> StaleLock]
  /\ partial = [t \in 0 .. q.blocks_per_problem - 1 |-> StaleSum]
  /\ out = [t \in [m : 0 .. q.tiles.m - 1, n : 0 .. q.tiles.n - 1, l : 0 .. q.tiles.l - 1] |->
              [sum |-> <<>>, times |-> 0]]

-----------------------------------------------------------------------------
(* The host *)

(* initialize(): the locks behind the workspace are cleared, the sums are  *)
(* not.                                                                    *)
Initialize ==
  /\ host = "initialize"
  /\ \E cleared \in {Workspace(problem)} :
       lock' = [t \in DOMAIN lock |->
                  IF t < cleared /\ LockBase(q) = cleared THEN 0 ELSE lock[t]]
  /\ host' = "run"
  /\ UNCHANGED <<problem, runs, q, next, blk, partial, out>>

Grid == GridShape(problem, TiledCtaShape(problem),
                  problem.scheduler = "static", problem.scheduler = "stream-K")

(* check_cluster_dims: a grid that is not made of whole clusters is not    *)
(* launched.                                                               *)
WholeClusters(g) == g.x % problem.cm = 0 /\ g.y % problem.cn = 0

(* run(), for the first time or once more: it launches and does nothing    *)
(* else.                                                                   *)
Run ==
  /\ host = "run"
  /\ IF WholeClusters(Grid)
     THEN /\ host' = "wait"
          /\ runs' = runs + 1
          /\ next' = 0
          /\ blk' = [b \in 0 .. GridSize(Grid) - 1 |->
                       [pc |-> "pending", idx |-> b, start |-> 0, work |-> InvalidWork,
                        nth |-> 0]]
          /\ out' = [t \in DOMAIN out |-> [out[t] EXCEPT !.times = 0]]
          /\ UNCHANGED <<problem, q, lock, partial>>
     ELSE /\ host' = "refused"
          /\ UNCHANGED <<problem, runs, q, next, blk, lock, partial, out>>

Exited(c) == \A b \in Blocks : Cluster(b) = c => blk[b].pc = "exit"

(* The kernel has ended. *)
Synchronize ==
  /\ host = "wait" /\ next = Cardinality(Clusters) /\ \A c \in Clusters : Exited(c)
  /\ host' = IF runs < problem.runs THEN "run" ELSE "done"
  /\ UNCHANGED <<problem, runs, q, next, blk, lock, partial, out>>

-----------------------------------------------------------------------------
(* The device *)

(* get_current_work; a stream-K unit keeps its start. *)
Fetched(bl, linear_idx) ==
  LET new == q.scheduler = "stream-K" /\ linear_idx < q.units_per_problem * q.splits
             /\ ~(q.splits = 1 /\ linear_idx >= q.sk_units)
  IN  [idx |-> linear_idx, work |-> CurrentWork(q, linear_idx),
       start |-> IF new THEN UnitRange(q, linear_idx).start ELSE bl.start,
       nth |-> bl.nth + 1, pc |-> "mainloop"]

(* The next cluster gets a place on the device. *)
Dispatch ==
  /\ host = "wait" /\ next \in Clusters
  /\ Cardinality({c \in 0 .. next - 1 : ~Exited(c)}) < problem.slots
  /\ blk' = [b \in Blocks |-> IF Cluster(b) = next THEN Fetched(blk[b], b) ELSE blk[b]]
  /\ next' = next + 1
  /\ UNCHANGED <<problem, host, runs, q, lock, partial, out>>

Goto(b, pc) == blk' = [blk EXCEPT ![b].pc = pc]

(* The block sums up the k tiles of its work, if there are any left, and   *)
(* goes to the branch of fixup_helper, or to the epilogue, that it is for. *)
Mainloop(b) ==
  LET w == blk[b].work IN
  /\ blk[b].pc = "mainloop"
  /\ Goto(b, CASE ~IsValid(w) -> "exit"
               [] IsValid(w) /\ ~RequiresFixup(q, w) ->
                    IF ComputeEpilogue(q, w) THEN "epilogue" ELSE "next"
               [] RequiresFixup(q, w) /\ ~ComputeEpilogue(q, w) /\ w.k = 0 -> "store"
               [] OTHER -> "lock")
  /\ UNCHANGED <<hostvars, lock, partial, out>>

Tile(b) == OutputTileIndex(q, blk[b].work)
Own(b) == [run |-> runs, k |-> blk[b].work.k, count |-> blk[b].work.count]

(* The first peer initializes the partial sums of the tile. *)
Store(b) ==
  /\ blk[b].pc = "store"
  /\ partial' = [partial EXCEPT ![Tile(b)] = <<Own(b)>>]
  /\ Goto(b, "arrive")
  /\ UNCHANGED <<hostvars, lock, out>>

(* A faulty form, for a mutation: nobody waits for more than the first peer. *)
MayReduceAfterTheFirst(b) == lock[Tile(b)] >= 1

(* wait_eq and wait_lt: in deterministic mode, and before the epilogue in  *)
(* either mode, for all k tiles before the block's; else for the first     *)
(* peer.                                                                   *)
MayReduce(b) ==
  IF q.deterministic \/ ComputeEpilogue(q, blk[b].work)
  THEN lock[Tile(b)] = blk[b].work.k
  ELSE lock[Tile(b)] >= 1

Lock(b) ==
  /\ blk[b].pc = "lock"
  /\ MayReduce(b)
  /\ Goto(b, IF ComputeEpilogue(q, blk[b].work) THEN "epilogue" ELSE "reduce")
  /\ UNCHANGED <<hostvars, lock, partial, out>>

(* Atomic additions: those of several blocks may come in any order. *)
Reduce(b) ==
  /\ blk[b].pc = "reduce"
  /\ partial' = [partial EXCEPT ![Tile(b)] = Append(@, Own(b))]
  /\ Goto(b, "arrive")
  /\ UNCHANGED <<hostvars, lock, out>>

(* A faulty form, for a mutation: peers are counted instead of k tiles. *)
ArriveByOne(b) ==
  /\ blk[b].pc = "arrive"
  /\ lock' = [lock EXCEPT ![Tile(b)] = @ + 1]
  /\ Goto(b, "next")
  /\ UNCHANGED <<hostvars, partial, out>>

Arrive(b) ==
  /\ blk[b].pc = "arrive"
  /\ lock' = [lock EXCEPT ![Tile(b)] = @ + blk[b].work.count]
  /\ Goto(b, "next")
  /\ UNCHANGED <<hostvars, partial, out>>

(* load_add, if there are partial sums, and the epilogue *)
Epilogue(b) ==
  /\ blk[b].pc = "epilogue"
  /\ out' = [out EXCEPT ![TileOf(blk[b].work)] =
       [sum |-> IF RequiresFixup(q, blk[b].work) THEN Append(partial[Tile(b)], Own(b))
                ELSE <<Own(b)>>,
        times |-> @.times + 1]]
  /\ Goto(b, "next")
  /\ UNCHANGED <<hostvars, lock, partial>>

(* fetch_next_work: the next tile of the unit, or the unit one grid on. *)
FetchNextWork(b) ==
  LET bl == blk[b]
      w  == ContinueWork(q, bl.idx, bl.start, bl.work)
  IN  /\ bl.pc = "next"
      /\ blk' = [blk EXCEPT ![b] =
           IF IsValid(w)
           THEN [bl EXCEPT !.work = w, !.nth = @ + 1, !.pc = "mainloop"]
           ELSE Fetched(bl, bl.idx + Cardinality(Blocks))]
      /\ UNCHANGED <<hostvars, lock, partial, out>>

Block(b) ==
  \/ Mainloop(b) \/ Store(b) \/ Lock(b) \/ Reduce(b) \/ Arrive(b) \/ Epilogue(b) \/ FetchNextWork(b)

Terminated == host \in {"refused", "done"} /\ UNCHANGED vars

Next == Initialize \/ Run \/ Synchronize \/ Dispatch \/ (\E b \in Blocks : Block(b)) \/ Terminated

Spec == Init /\ [][Next]_vars

(* The device keeps running whatever can run, and the host waits for it.   *)
(* All work is finite.                                                     *)
FairSpec == Spec /\ WF_vars(Next)

-----------------------------------------------------------------------------
TypeOK ==
  /\ host \in {"initialize", "run", "wait", "refused", "done"}
  /\ \A b \in Blocks :
       /\ blk[b].pc \in {"pending", "mainloop", "store", "lock", "reduce", "arrive",
                        "epilogue", "next", "exit"}
       /\ IsValid(blk[b].work) =>
            TileOf(blk[b].work) \in DOMAIN out /\ Tile(b) \in DOMAIN lock
            /\ blk[b].work.k + blk[b].work.count <= q.kt
  /\ \A t \in DOMAIN lock : lock[t] \in Nat

(* The ranges of a sum follow one another from the first k tile to the     *)
(* last, and this launch computed them all.                                *)
InOrder(s) ==
  /\ \A i \in DOMAIN s : s[i].run = runs
  /\ s[1].k = 0 /\ s[Len(s)].k + s[Len(s)].count = q.kt
  /\ \A i \in 1 .. Len(s) - 1 : s[i + 1].k = s[i].k + s[i].count

(* Every k tile is in the sum once. *)
Whole(s) ==
  /\ \A i \in DOMAIN s : s[i].run = runs
  /\ \A k \in 0 .. q.kt - 1 :
       Cardinality({i \in DOMAIN s : s[i].k <= k /\ k < s[i].k + s[i].count}) = 1

(* However the peers of a tile interleave, what is written to the output   *)
(* has each k tile exactly once, nothing that was in the workspace before, *)
(* and, in deterministic mode, always the same order of additions.         *)
SumsAreWhole ==
  \A t \in DOMAIN out :
    out[t].times > 0 => Whole(out[t].sum) /\ (q.deterministic => InOrder(out[t].sum))

(* Every output tile is written once: units and grid, rasterization and    *)
(* swizzle together cover the problem, and no block stops at an empty unit *)
(* with work behind it.                                                    *)
EachTileOnce ==
  \A t \in DOMAIN out : out[t].times <= 1 /\ (host = "done" => out[t].times = 1)

(* The blocks of a cluster, which load operands for each other, work on    *)
(* the same k tiles of the tiles of one cluster, each on its own place.    *)
ClustersWorkTogether ==
  \A b \in Blocks : LET w == blk[b].work
                        first == Cluster(b) * Size(q)
                        v == blk[first].work IN
    /\ IsValid(w) =>
         w.m % problem.cm = BlockIdInCluster(q, b).m /\ w.n % problem.cn = BlockIdInCluster(q, b).n
    /\ blk[b].nth = blk[first].nth =>
         /\ w.k = v.k /\ w.count = v.count /\ w.l = v.l
         /\ w.m \div problem.cm = v.m \div problem.cm /\ w.n \div problem.cn = v.n \div problem.cn

(* A lock that a block waits on or arrives at is one that the host has     *)
(* cleared, although host and kernel compute place and number on their own.*)
LocksAreCleared ==
  \A b \in Blocks : blk[b].pc \in {"store", "lock", "reduce", "arrive"} =>
    Tile(b) < Workspace(problem) /\ LockBase(q) = Workspace(problem)

(* Every launch that is not refused ends, although only some clusters are  *)
(* resident and blocks wait for blocks.                                    *)
Termination == <>(host \in {"done", "refused"})

(* "Overload that allows a user to re-launch the same kernel without       *)
(* updating internal params struct" (gemm_universal_adapter.h:592): the    *)
(* kernel so launched ends, too.                                           *)
RelaunchEnds == host = "run" /\ runs = 1 ~> host # "wait" /\ runs = 2

(* "Both total_tiles and sm_count are multiples of cluster size due to     *)
(* padding added prior to kernel launch" (tile_scheduler_params.h:915): no *)
(* grid that the scheduler asks for is refused.                            *)
GridsAreWholeClusters == host # "refused"
=============================================================================
