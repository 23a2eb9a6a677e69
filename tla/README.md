# Formal models of CUTLASS pipelines, kernels and schedulers

TLA+ models of the synchronisation core of this repository: the software
pipelines in shared memory with which warp-specialised GEMM kernels overlap
copies, matrix multiplies and stores, and the schedulers and locks in global
memory with which their thread blocks divide a problem.  The models are checked
with TLC on small instances; for six of them the safety properties are also
proved with TLAPS for every instance, and for the arithmetic of the tile schedulers
what it computes for every problem.

The kernels are written against hardware that runs behind the threads' backs:
`cp.async` and bulk (TMA) copies land late and out of order, `wgmma` multiplies
retire late, blocks of a cluster write into each other's shared memory, and all
of that meets in barriers of which a thread can only test one parity bit.  Above
that, blocks that are not all resident at once wait for each other's partial sums.
A mistake shows as a rare wrong number or a hang on one tile shape.  That is what
the properties here are about; arithmetic and data layout are not.

## 1. The system

All paths are below `include/cutlass/` unless they start otherwise.

| Component | State it keeps | Operations | Hard part | What makes it correct |
|---|---|---|---|---|
| `PipelineState` (`pipeline/sm90_pipeline.hpp`) | index, phase, count | `++`, `advance(n)`, start states | parity of wrap-arounds | the n-th use of a slot has the phase of its round |
| `ClusterBarrier`, `ClusterTransactionBarrier` (`arch/barrier.h`) | arrivals to come, bytes to come, phase | init, arrive (local, remote), expect, complete, wait | only the parity is visible | a wait never mistakes one round for another |
| `PipelineAsync` | full and empty barrier per slot | acquire, commit (with a tied arrival), try_wait/wait, release, tail | arrivals while copies are in flight | a bounded buffer of tiles |
| `PipelineTmaAsync` | the same, shared by a cluster | acquire + expect, release to a row and column | multicast, arrival counts, early exit | as above, across blocks |
| `PipelineTransactionAsync`, `PipelineTmaStore` | barriers; batches of stores | expect after copy; commit, wait for all but n | stores tracked by age only | slots are reused only when read |
| `OrderedSequenceBarrier` | barrier per stage and group | wait, arrive | start phases | groups take turns |
| cp.async GEMM (`gemm/collective/sm90_mma_multistage_gmma_ss_warpspecialized.hpp`, `gemm/kernel/sm90_gemm_warpspecialized_cooperative.hpp`) | cursors of each thread, multiplies in flight | load, load_tail, mma, mma_tail, persistent loop | release lag, cursors carried to the next work tile | multiplies read whole tiles, work tiles get their own k tiles |
| TMA GEMM (`gemm/collective/sm90_mma_tma_gmma_ss_warpspecialized.hpp`, `gemm/kernel/sm90_gemm_tma_warpspecialized.hpp`) | as above per block | the same with multicast | peers in front or behind | the same; nothing reaches an exited block |
| TMA epilogue (`epilogue/collective/sm90_epilogue_tma_warpspecialized.hpp`) | load, wait, release and store cursors, stores in flight | load, load_tail, store, store_tail | D in the slots of C, delayed stores | no piece is overwritten that is still needed |
| Pingpong kernels (`gemm/kernel/sm90_gemm_tma_warpspecialized_pingpong.hpp`, `sm90_gemm_array_tma_warpspecialized_pingpong.hpp`) | cursors of two math groups on one pipeline, tensor maps | the loops of four warp roles | cursors that skip the other group's tiles, shared slots of D | a group multiplies and stores its own tile only; a tensor map outlives its copies |
| Tile schedulers (`gemm/kernel/tile_scheduler_params.h`, `static_tile_scheduler.hpp`, `sm90_tile_scheduler.hpp`, `sm90_tile_scheduler_stream_k.hpp`) | parameters computed by the host, a work index per block | initialize, get_grid_shape, get_current_work, continue_current_work, fetch_next_work | rounding, swizzle, borders of units | each k tile of each tile is computed once, clusters stay together |
| Stream-K fixup and the generic barrier (`sm90_tile_scheduler_stream_k.hpp`, `barrier.h`), the adapter (`gemm/device/gemm_universal_adapter.h`) | locks and partial sums in global memory | store, wait, reduce, arrive, load_add; initialize, run | waiting for blocks that are not resident | sums are whole and every launch ends |
| Serial split-K (`gemm/kernel/gemm.h`, `semaphore.h`, `gemm/device/gemm.h`, `gemm/threadblock/threadblock_swizzle.h`) | one semaphore per tile | fetch, wait, release | block order, several grids | slices are added in order, once |
| Group scheduler, grouped problem visitor (`gemm/kernel/sm90_tile_scheduler_group.hpp`, `grouped_problem_visitor.h`) | the group a warp is in | search with shuffles | | not modelled |
| Blackwell pipelines and launch control (`pipeline/sm100_pipeline.hpp`, `gemm/kernel/sm100_tile_scheduler.hpp`) | as the sm90 ones, and a scheduler response | | dynamic work fetch | not modelled |
| Ampere mainloops (`gemm/threadblock/mma_multistage.h`) | cp.async groups | | group counting | not modelled |

How they interact: the host computes the scheduler's parameters, clears the locks
in the workspace and launches a grid of clusters; every block derives its work from
its index, the parameters and the size of the grid.  A kernel creates the pipelines
in shared memory, splits its warps into producers and consumers and lets each side
walk the same list of work tiles on its own.  The sides never exchange a message.
Each derives from its cursor which slot and which phase is next, and only the
barriers tie them.  Blocks that share an output tile meet only in its lock.  So most
properties are about the agreement of computations that no code compares: of cursors
with cursors, of units with units, of the host's sizes with the kernel's.

## 2. Modules

| Module | Models | Correspondence |
|---|---|---|
| `PipelineState` | the cursor | `Inc` is `operator++`, `Advance` is `advance`, both cases kept. `StateAt` and `Visits` are reference definitions for the proofs. |
| `ClusterBarrier` | the arrival barrier | A record of count, pending arrivals and a phase *number*; code sees it only through `PhaseDone`, which compares parities. `CpAsyncArrive` adds an arrival (the form without `.noinc`); delivery is `Arrive`. |
| `TransactionBarrier` | the barrier with a byte count | A phase ends when no arrival and no byte is missing; bytes may complete before they are expected. |
| `PipelineAsync` | the pipeline's operations | one operator per method |
| `CpAsyncGemm` | one block of the cp.async GEMM | one action per step of `load`, `load_tail`, `mma`, `mma_tail` and of the kernel's loop, per thread; `CopiesLand` and `MmaRetires` are the hardware |
| `TileFifo` | what a pipeline promises | a bounded buffer, no barriers; `CpAsyncGemm` implements it (`ImplementsFifo`) |
| `CpAsyncGemmInv`, `CpAsyncGemmProofs` | | inductive invariant, its proof, the theorems |
| `PipelineLemmas` | | lemmas on cursors and on how barriers count |
| `OrderedSequenceBarrier`, `OrderedSequence` | the order barrier; groups of threads that use it as `test/unit/pipeline/sequence_barrier.cu` does | `Wait` and `Leave` around a section |
| `OrderedSequenceInv`, `OrderedSequenceProofs` | | inductive invariant and theorems |
| `ClusterLayout` | who signals whom in a cluster | `SpreadArrivals` keeps the bit swizzle on the thread index |
| `TmaClusterGemm` | the TMA mainloop of all blocks of a cluster | one producer thread per block; of the consumers, exactly the threads that `Signals` picks; `Land` is a multicast share that arrives |
| `TmaClusterGemmInv`, `TmaClusterGemmProofs` | | inductive invariant, its proof, the theorems |
| `TmaEpilogue` | the TMA epilogue of one block over several work tiles | lanes of the load warp, math threads, loads and stores in flight; `Synchronize` is the named barrier |
| `TmaEpilogueInv`, `TmaEpilogueProofs` | | inductive invariant, its proof, the theorems |
| `Pingpong` | one block of either pingpong kernel | the mainloop load warp, the epilogue load warp, two math warp groups; actions follow the order of calls in the kernel's loops |
| `PingpongInv`, `PingpongProofs` | | inductive invariant in seven layers, its proof, the theorems |
| `TileScheduler` | grid shapes, rasterisation, swizzle | one operator per function of the code, over the record of a problem |
| `StreamKScheduler` | decomposition, units, workspace | the same; `Params` is what `initialize` leaves, `CurrentWork` and `ContinueWork` what a block asks for |
| `PersistentGemm` | host, device and blocks of a persistent kernel, with the fixup | one action per branch of `fixup_helper` between two accesses to global memory |
| `PersistentGemmProofs` | | what `TileScheduler` computes; what `Params` leaves; inductive invariant of the work loops and theorems |
| `SplitK` | the serial split-K GEMM | one action per access to semaphore or output |
| `SplitKProofs` | | inductive invariant and theorems |
| `MC*` | | instances for TLC |

Composition: `CpAsyncGemm` = `PipelineAsync` (= `PipelineState` + `ClusterBarrier`)
driven by two groups of threads; `TmaClusterGemm` = `PipelineState` + both barriers
+ `ClusterLayout`; `TmaEpilogue` = two instances of `PipelineState` (the load and
the store pipeline may have different numbers of slots) + both barriers; `Pingpong`
= three instances of `PipelineState`, two of `OrderedSequenceBarrier`, and the
mainloop and the epilogue of the two former at a coarser grain; `PersistentGemm` =
`StreamKScheduler` (= `TileScheduler` and more) + locks.

Several kernels, policies or problems are checked in one run: a variable that is
chosen in `Init` and never changes (`cluster`, `policy`, `kernel`, `problem`) says
which one a behaviour is about.

Operators introduced with "A faulty form" are plausible mistakes, for mutation
testing: a lost increment, a forgotten phase flip, a wait for one store too few.
No action uses them.  Put in the place of the definition that follows, each makes
one of the properties fail, which shows that the property depends on that code.
`PROJECT.json` lists the pairs.

### Abstractions common to the models

* A tile is its number; a slot of shared memory holds, per share or per thread,
  the number of the tile it was filled with, or `Torn` while a copy is under way.
  A sum of partial products is the sequence of what was added to it.
* A barrier's phase is counted instead of flipped, so that a property can say
  which round is meant; waits see only the parity.
* Counters are not cut to 32 bits: no decision of the modelled code depends on
  a wrap of `count_` (the store pipeline compares it with a constant only when
  `always_wait` is off).
* Memory-ordering fences, acquire loads and release stores are taken to do what
  they are for; the models are sequentially consistent.
* A multiply is issued by a warp group together; in `CpAsyncGemm` each consumer
  stands for a warp group's thread with multiplies of its own, in
  `TmaClusterGemm` the joint issue is explicit (`Multiply`), because there only
  some threads of a warp signal a block; in `Pingpong` a warp or a warp group is one
  actor and each barrier counts actors.
* `try_wait` and its token are kept in `CpAsyncGemm`; in the other modules the pair
  try_wait/wait is one step: the token is consumed at once and only skips the wait
  it has already passed.
* In `Pingpong` the bulk loads of one warp land in the order of their issue, which
  the kernel itself relies on when it waits for its last load only.
* In `PersistentGemm` one math warp group stands for all of a block, since each has
  locks and a share of the workspace of its own; an atomic addition to the workspace
  is one step.

## 3. Properties and runs

| Run | Instance | Question | States |
|---|---|---|---|
| `CpAsyncGemm` | 2 producers, 1 MMA thread, 3 slots, work tiles of 1, 4 and 2 k tiles, lag 2 | Is a slot ever overwritten under a multiply (`MmaReadsWholeTiles`), a parity test fooled (`WaitsAreExact`), a k tile lost or taken from another work tile (`EpilogueHasItsTiles`), a producer gone too early (`TailHoldsProducers`)? Is it a bounded buffer (`ImplementsFifo`), also under fairness (`ImplementsFairFifo`), does everybody end (`Termination`), is `IInv` an invariant? | 24,555 |
| `OrderedSequence` | 3 groups of 2 threads, 2 stages, 6 sections each | Do groups take turns (`OrderHolds`, `StagesAreExclusive`), does everybody end, is `IInv` an invariant? | 1,225 |
| `TmaClusterGemm` | a 2x1 cluster with 2 warp groups per block and a 1x2 cluster with 1; 2 slots, 3 k tiles | Whole tiles across blocks (`MmaReadsWholeTiles`); is a block that exited left alone (`ExitedBlocksAreQuiet`); are the signals that come those the empty barriers count (`Termination`)? | 228,858 |
| `TmaEpilogue` | 2 lanes, 2 threads; 7 policies: slots shared or separate, stores delayed or not, no source, no work, the excluded one; 3 subtiles, 2 work tiles | Is a piece of C read that is not the one loaded (`SourceIsIntact`), does a store copy out anything but its subtile (`StoresAreIntact`), do too many stores run (`StoresAreBounded`), does anything outlive the block (`NothingOutlivesTheBlock`), does it end, except where a static assertion says that it will deadlock (`Termination`, `AssertedDeadlock`)? Deadlock checking is off because that policy does stop. | 67,987 |
| `Pingpong` | 9 kernels of 0 to 4 work tiles, plain and grouped; 2 slots each, 3 subtiles | Does a math group read a k tile, a subtile of C or a slot of D of the other (`MmaReadsItsTile`, `SourceIsIntact`, `StoresAreIntact`), is a tensor map of A, B or C rewritten under a load (`LoadsUseTheirTensorMap`), do all warps end? | 112,761 |
| `PersistentGemm` | 168 problems: 8 families over shapes, clusters of 1 to 4 blocks, rasters, swizzles, decompositions, both reduction modes, numbers of active clusters that the host was told, 1 to 4 resident clusters | Is every sum whole (`SumsAreWhole`), every tile written once (`EachTileOnce`), do the blocks of a cluster work on the same k tiles (`ClustersWorkTogether`), do host and kernel agree on the locks (`LocksAreCleared`), does every launch end? | 44,175 |
| `SplitK` | 2x3 tiles, 3 slices, swizzle 4, 3 places on the device, 2 grids | Is every tile the sum of its slices in order (`SumsInOrder`), does every grid end? | 171,489 |
| `TmaEpilogue_mixed`, `Pingpong_idle`, `Pingpong_remap`, `PersistentGemm_relaunch`, `PersistentGemm_grid` | | Findings 1 to 5 below. | |

**Why the bounds are enough to be interesting.**  Everything in shared memory
repeats with the parity of a slot's round, so an instance must reuse each slot at
least twice: `CpAsyncGemm` moves 7 tiles through 3 slots and then acquires every
slot again, `TmaClusterGemm` 3 tiles through 2 and acquires again, `TmaEpilogue` 6
subtiles through 3, `Pingpong` up to 12 k tiles and 12 subtiles through 2,
`OrderedSequence` uses each stage three times.  `CpAsyncGemm` runs with a lag of 2,
one more than the collective instantiates (line 193) and within its static assertion,
and with work tiles shorter than the lag, equal to it and longer than the buffer,
because `advance` and the prologue treat them differently.  With the lag of 1 and at
least one k tile (406) none is shorter; the proofs are for every lag.  Two threads on a side are what it takes for one to
be in front of its own group.  A 2x2 cluster (each block with peers in both
directions) is beyond TLC; the two shapes run have peers in one direction each, and
the proofs cover the others.

The schedulers have no concurrency in their arithmetic, so most problems of
`PersistentGemm` are run one cluster at a time, over sizes that divide and that do
not, tiles that are split over two and more units, units that span several tiles,
and units left empty by the alignment of their borders; `Crowds` and `Queues` then
interleave up to four clusters, with all or half of them resident.  `Wide` has 4x1, 2x2
and 1x4 clusters; of one with 8 or 16 blocks TLC cannot run through the interleavings,
and only the proofs cover it.  In `Occupied` the host was told how many clusters are
active at a time, and the grid has fewer clusters than the problem, or more.  k tile counts
lie around `min_iters_per_sk_unit_` (8) and its double, where the border rules
change.

`SplitK` has a swizzle wider than the row of tiles, so that some blocks are idle, and
fewer places than blocks, so that later slices wait for earlier ones to make room.
The proofs have no bounds.

**Fairness.**  Weak fairness of each thread's steps, of each copy, store and multiply
that was issued, and of the named barrier once all are there (`CpAsyncGemm`,
`OrderedSequence`, `TmaEpilogue`); of each block and of the dispatch (`SplitK`).
The threads of a block are resident together, and so are the blocks of a cluster, so
a thread whose wait has become true is eventually scheduled: a spin on `try_wait` ends
when the phase has changed and no other step can change it back, which the safety
properties show (one round at most).  `TmaClusterGemm`, `Pingpong` and
`PersistentGemm` have finite behaviours in which every step makes progress; there
weak fairness of `Next` as a whole is assumed, which says only that the hardware does
not stop while something can run, and `Termination` says that no reachable state is
stuck short of the end.  No strong fairness is assumed.  Clusters and blocks get their
places in the order of their indices and keep them until they exit; the schedulers
and the semaphore rely on it.

## 4. Findings

1. `TmaEpilogue_mixed`.  With `ReuseSmemC` and `SmemLayoutC` different from
   `SmemLayoutD`, a thread's write of D (line 855 of the sm90 epilogue) can hit C
   that another thread has not read (line 795): no barrier separates the two.
   The requirements at 169-171 and the builder (which compares element widths)
   let this through.  The sm100 epilogue has a `synchronize()` for exactly this case
   (line 840).  With equal layouts a thread overwrites only what it has read itself;
   the other policies show that this is enough.
2. `Pingpong_idle`.  The epilogue load warp of the plain pingpong kernel waits for
   the load order (551) before it looks whether its block has any work (552), and
   without work nobody arrives.  The comment at 586 says that blocks may start
   without work, the cooperative kernel looks first and the array kernel returns
   early.  It takes a grid larger than the number of tiles, which `get_grid_shape`
   returns when `max_active_clusters` is given (`tile_scheduler_params.h:268-276`).
3. `Pingpong_remap`.  The array kernel rewrites the tensor map of D (915) before
   `store_tail` (936) has waited for the stores that were issued with it.  For the
   loads it waits first (650), and `tma_desc_wait_group` in
   `include/cute/arch/copy_sm90_tma.hpp:1188` is documented as the wait that a
   rewrite needs.
4. `PersistentGemm_relaunch`.  `run(stream)` is documented to launch the same kernel
   again without new parameters.  With a tile that is split, the locks still hold the
   counts of the first launch, since only `initialize` clears them: a block that waits
   for an exact count waits for ever, or is let through too early and takes what the
   first launch left in the workspace, so that `SumsAreWhole` is false, too.  The
   stream-K example (74) initializes before each launch.
5. `PersistentGemm_grid`.  The stream-K parameters ask for a grid of `sm_count` blocks
   divided by one side of the cluster, without rounding to clusters, although a
   comment (915) takes padding for granted.  On 114 multiprocessors and with 2x2
   clusters the launch is refused, unless `max_active_clusters` is given.

Seen while reading, and not runs of their own:

* `static_assert((0 <= K_PIPE_MMAS) ...)` at line 398 of the multistage mainloop
  admits a lag of 0, but the first multiply is issued before any count is looked at
  (409-429), so each work tile would consume one k tile too many.  Latent: line 193
  fixes the lag at 1, and the models assume it positive.
* Split-K through the stream-K scheduler may have more units than the grid has
  clusters.  With deterministic reduction, and a device that cannot hold all clusters
  of the grid at once, all resident ones may wait for one that is not: `Termination`
  fails for one output tile in 4 splits on 2 clusters and 1 place.  The number of
  splits is cut to the number of multiprocessors, not of clusters.
* `store_tail` of the epilogue releases at most one work tile's subtiles although
  stores are counted over all work tiles, so it relies on `StagesD` not exceeding the
  subtiles of a work tile, which the builder ensures and no assertion states (the
  models assume it).

## 5. Proofs

`tlapm` checks, for every value of the constants:

* `CpAsyncGemmProofs`, for every number of threads, slots, work tiles and k tiles and
  every lag from 1 to Stages - 1: `TypeCorrectness`, `ReadsAreWhole`, `ExactWaits`,
  `EpilogueIsComplete`, `TailIsSafe`, and `Refinement` (the GEMM implements
  `TileFifo`).
* `TmaClusterGemmProofs`, for every cluster shape of 2 to 16 blocks, set of consumer
  warp groups, number of slots and of k tiles: `TypeCorrectness`, `ReadsAreWhole`,
  `QuietAfterExit`, and of the layout `SignalersToCount` and `SharesCount`.
* `TmaEpilogueProofs`, for every load warp, set of math threads and instance of the
  template: `TypeCorrect`, `SourceIsRead`, `StoresCopyResults`, `BoundedStores`,
  `QuietExit`.  `SourceIsRead` has the hypothesis `SameLayout`: where C and D share
  slots, a thread writes D where it read C.  Without it the property is false
  (finding 1).
* `OrderedSequenceProofs`, for every number of groups, threads, stages and
  sections: `TypeCorrectness`, `OrderIsKept`, `Exclusion`.
* `PingpongProofs`, for both kernels, any numbers of stages, subtiles, work tiles and k
  tiles, with and without a source and `ReuseSmemC`: `TypeCorrect`, `ReadsItsTile`,
  `SourceIsRead`, `StoresCopyResults`, `LoadsKeepTheirMaps`.
* `SplitKProofs`, for every grid of tiles, number of slices, swizzle, number of places
  on the device and number of grids: `TypeCorrect`, `SumsCorrect`,
  `EpiloguesAreExclusive`.
* `PersistentGemmProofs`, for every problem, cluster (sides that are powers of two, up
  to 16 blocks), raster order, swizzle, decomposition, device and number of launches: `ClustersTogether`, `TypeCorrect`,
  `LocksClear`, `TilesOnce`, `SumsWhole`; and of the tile schedulers
  `LinearIdxInverts`, `IndexDeterminesTile` and `UnitsPartition`.  `SumsWhole` is for
  first launches and for launches without locks; otherwise the property is false
  (finding 4).
* `PipelineLemmas!AdvanceStateAt`: `advance(n)` is n increments.

**The argument for the GEMM.**  A thread sees a parity, so none of the properties
is inductive alone: parity says nothing unless the barrier is known to be within
one round of the thread.  `CpAsyncGemmInv` therefore counts, for each slot s and
each thread, how often the thread has visited s (`Visits`), and states the chain

    empty.phase <= releases <= waits <= full.phase <= landings
                <= acquisitions <= empty.phase + 1

Together with the position of each thread's cursors relative to its work tile
(`ProducerCursors`, `ConsumerCursors`), the meaning of the pending counts
(`FullBarrier`, `EmptyBarrier`: the barrier waits for exactly the threads whose
visits equal its phase, and on the full barrier once more for those whose copies
are outstanding) and the contents of slots and accumulators, it is inductive.  One
lemma per action shows that it is preserved; the theorems follow from it.  That the
chain closes, "at most one round apart", is what makes one bit enough.

**The argument for the cluster.**  Here no barrier is shared by two blocks: the full
barrier of a block waits for its own leader's arrival and for bytes that peers send,
the empty barrier for signals of threads in other blocks.  For each slot, with c a
thread of block d that signals block b and x a share that b copies to d, the chain of
`TmaClusterGemmInv` goes from b to d and back,

    empty[b].phase <= releases of c <= waits of c <= full[d].phase
        <= landings of x in d <= copies of b <= grants of b <= empty[b].phase + 1

so blocks of one row or column are at most a round apart (`AtMostOneRound`), and blocks
of different rows and columns may be further.  It closes only if for each share there
is a thread that signals its sender.  That is a property of the swizzle: the sixteen
candidates of a warp group reach sixteen different blocks (`SpreadOnto`,
`SpreadInjective`), so exactly (m + n - 1) threads per warp group signal a block
(`SignalersToCount`, the count given to the empty barriers), and m + n shares of bytes
reach it (`SharesCount`, the bytes a leader expects).  `FullBarrier` says what the byte
count means: what the round still lacks, or, while the leader has not arrived, what
peers have sent too early, which is at most one round of them (`LandExact`).  When a
producer leaves, it has been granted every slot once more, so all who signal it have
finished, and all that is sent to its block has been waited for.

**The argument for the epilogue.**  The chain of the load pipeline is the same, for a
slot, a lane and a math thread,

    empty.phase <= slots given back <= waits <= full.phase
        <= commits, loads landed <= slots acquired <= empty.phase + 1

but two of its links need more than the load pipeline.  With `ReuseSmemC` no thread
waits by a cursor of its own: `store` rebuilds one from the store cursor with the
phase flipped (`FlippedCursor`), and what goes back after a store is the slot of an
older one, so `FreeCursor` ties the slots given back to the stores counted (all but
the last StagesD - 1) and `StoreCursor` ties those to the subtile of the loop, delayed
stores being one behind.  The pieces in shared memory are then a matter of windows:
a piece of C is needed until its thread has read it (`SourcesAreThere`), a piece of D
from its write until its store has read it (`ResultsAreThere`, over `Live`), and no two
needs for one place overlap: a load meets neither an unread C (`NoSourceLeft`) nor a
live D (`NoResultLeft`), and a write of D meets neither another live D
(`WriteAvoidsResults`, where the named barriers count: `InStep` says that all threads
have passed them equally often) nor, in the same layout, a C that its thread has yet to
read (`WriteAvoidsSources`).  The acquire after each store and the two tails bound the
stores in flight (`StoresInFlight`).

**The argument for the pingpong kernels.**  Two groups read one mainloop pipeline and one
epilogue, each for every other work tile, and each moves its cursors over the tiles of
the other by calculation, without touching a barrier.  That this is sound rests on the
turns, so the layers of `PingpongInv` are proved one after the other, each from those
before it:

1. `OrderInv`: the turns that the groups have passed on differ by at most two, and each
   turn, to multiply or for the epilogue, is one group's at a time.  The parities of the
   order barrier mean just that.
2. `CursorInv`, `EpilogueCursorInv`: a cursor stands where its work tile starts, plus
   what has been done of it; also after `advance`, by twice the count of k tiles in the
   plain kernel, and in the grouped one by the count of the group's own tile and, once
   the next tile is fetched, by that of the other group's.
3. `MainloopInv`: the k tiles waited for are a prefix (`Waited`: what the group that is
   further has waited for), and those a group holds are at most two.  The producer is at
   most `Stages` ahead of each held k tile.  With this a full barrier is in one of two
   states and an empty barrier lacks one visit just where a k tile is held
   (`FullBarrier`, `EmptyBarrier`), and each parity test is exact although two groups
   with different cursors use one barrier (`KTurns`).
4. `SourceInv`: the same for the sources, whose slots go back in batches: where slots are
   shared, those of older stores, and after the last store of a tile all that is left.
5. `MemoryInv`: a store that still reads belongs to the group in its epilogue and is one
   of its last (`StoreInFlight`), because a group drains its stores before it hands over;
   and the sources landed and not yet read are intact.  A result is written to a slot
   that no store and no such source is in (`SlotFacts` with the window of the acquire).
6. `MapsInv`: every load in flight belongs to a work tile of the current tensor map.  A
   map of A and B is rewritten after a wait for the last load's barrier, and loads land in
   the order of their issue; a map of C after a wait for the last source's.

The map of D is not among them: it is rewritten under stores in flight (finding 3).

**The argument for the order barrier** is the same with groups instead of slots:
each group is at most a round of stages ahead of the next one (`Ordered`), and each
barrier's phase is the least number of turns of the group that arrives on it.

**The argument for split-K.**  That a sum is whole when a grid has ended says nothing
while it runs, so the invariant says what the semaphore of a tile means at any time:
it is the number of the block whose turn it is (`TurnIsTrue`, which also holds for
what a block fetched early and goes by later), the blocks of lower slices have ended,
and no others unless all have, when it is 0 again (`EndedInOrder`), and the tile holds
just the slices below it (`SumsSoFar`).  Two facts about the code carry the steps: the
swizzle gives each working block a slice of a tile of its own (`SwizzleInjective`) and
leaves no tile out (`SwizzleCovers`), and no two tiles share a semaphore
(`BlockIdxInjective`).  That the last slice resets the semaphore is what makes `Run`,
which clears nothing, keep the invariant.

**The argument for the tile schedulers.**  A linear index is a number whose digits have
different bases: the row of clusters, the column, the place in the swizzle, the place
in the cluster (`WorkIdxParts`).  `get_work_idx_m_and_n` rearranges the digits into two
coordinates and `get_linear_idx_from_m_and_n` puts them back (`LinearIdxOfParts`); both
take digits off by division, which is right because each digit is below its base.
That the coordinates stay within the problem needs the host's rounding: the parameters
describe whole groups of clusters (`ParamsAreWhole`, `WorkIdxIsInside`).  It follows that
no two indices share an output tile, and no two tiles a lock of stream-K
(`IndexDeterminesTile`).

**The argument for the work loops.**  The blocks of a cluster each compute their work for
themselves, from a linear index of their own, and run apart: one may be at the epilogue of
its first tile while another is two units further.  Multicast loads are right only if they
nevertheless agree.  `ClustersWorkTogether` compares blocks that have fetched equally
often, possibly at different times, so the invariant (`TogetherInv`) gives each cluster one
list of work (`InStep`): what a block holds after its i-th fetch is the i-th entry, up to
the block's own place, and any block at an entry goes on to the next one.  A block that is
ahead makes the list longer, those behind follow it.  What remains is that the next unit
depends on nothing but the entry (`NextTogether`): that every function of the scheduler
uses the index only through the number of the cluster and the block's place along the major
dimension.  This holds because all the numbers it divides by are whole clusters, for every
problem the host accepts: the tiles after rounding (`BlocksAreWhole`), the grid
(`GridIsWhole`, from `check_cluster_dims`, see finding 5), the tiles and units that
stream-K sets apart (`SkTilesAreWhole`, `SkUnitsAreWhole`), its groups, which divide the
units (`GroupsType`), and so all that `Params` leaves (`LaunchedParams`).  Every block then
stays on its own place in the cluster (`Placed`, `OnTheirPlaces`), also where stream-K moves
on to another output tile of a unit (`LastTileTogether`).  The invariant speaks of lists of
any length, so TLC checks what it implies and not itself.

**The argument for the locks and the work.**  The host sizes the workspace before the
kernel's parameters exist, from blocks it has rounded to whole swizzles and then passes
through the same rounding and the grid computation again; the kernel starts from the blocks
as they are.  Rounding may turn the raster, and with it the shape of the grid and the size
of a wave.  It turns only from the shorter side of the cluster to the longer
(`RasterIsStable`), and then a wave that can be launched counts the same blocks
(`SameWave`); so the place where the kernel looks for its locks is the one where the host
has cleared them, or there are none (`HostAgrees`).  That a block looks for no lock behind
them takes the ranges of the units: whatever the split, and also when a border is moved to
the border of a tile (`AdjustedFits`), a unit lies within the line of the tiles it was cut
from (`RangeFits`), so the tiles that a block works through from its last back to its first
are tiles below `sk_tiles`, or below all of them in split-K (`LastTileFits`), and the index
of the lock is the index the tile was computed from (`TileOnItsPlace`).  The invariant
(`WorkInv`) adds to `TogetherInv` that the work of every block fits its unit, and that only
work on a part of a tile comes to a lock.

**The argument for the tiles.**  That every tile is written once has two halves.  The first
is arithmetic (`UnitsPartition`): each k tile of each output tile is the f-th k tile of one
unit o, and of no other (`Covers`).  Units cut up lines of tiles, one line for each group of
stream-K or each tile of a split; on a line a unit starts where the one before it ends, also
when the borders are moved, since moving keeps their order (`AdjustedGrows`, `CutLine`), so a
k tile lies in the last unit that starts at or before it (`UnitsFillTheLine`) and in no
other (`UnitsDoNotOverlap`), with no induction over the units.  From the place in the line
the index of the output tile follows, and each tile has an index of its own
(`TilesHaveIndices`).  The second half is the walk: a block computes units one grid apart,
each from its last k tile back to its first, so what has been done can be read off the
block's record (`Beyond`): all its units before the present one, and of that one the k tiles
behind those that remain.  The invariant (`OnceInv`) says that a tile has been written if
and only if its last k tile is done.  A block that finishes its work adds exactly the k tiles
that the work is on, none of which was done (`DoneOwned`), and fetching adds none
(`NextOnce`, `FetchedHasWork`).  A block stops at the first empty unit.  Stream-K may leave
units empty when it moves their borders; that no unit with work is behind one holds because
either the grid has a block for every unit, or every unit has at least a tile
(`LaunchedUnits`, `EmptyIsLast`).

**The argument for the sums.**  A lock counts k tiles and says nothing of who added them,
so the invariant (`SumsInv`) gives it its meaning from the walk of the blocks: of each
tile the k tiles that are done and those that are at least added to the workspace
(`DoneParts`, `AddedParts`) are read off the blocks' records as in `OnceInv`.  The lock is
the number of those done; the workspace has just those added, each covered by one part
of this launch (`HoldsParts`); and the first k tile is among them as soon as any is, so
the stale workspace has been overwritten.  Each step of the fixup relies on what is done
before it (`BlockSums`): a block that adds to the workspace, that the first part is there;
the one that writes the tile, that all lower k tiles are done.  The waits give just that.
A count below the whole says which k tiles are done only where they are known to be a
prefix, in deterministic mode; otherwise the block with the last k tile waits until as
many are done as lie before its own, and as none of its own are, these are all of them
(`LockSums`).  Blocks never disturb each other because their works have no k tile in
common (`WorksApart`, from `UnitsPartition`).  In deterministic mode what is done and what
is added are prefixes, and a block adds at the end of the prefix, so the parts come in
order (`Ordered`).  All this needs locks that start at zero: `initialize()` clears them,
and a launch does not, which is why the invariant speaks of the first launch or of none
that count.

Assumptions: those named in the modules (`ThreadsAssumption`: finite, nonempty
groups; `WorkAssumption`: every work tile has a k tile, as the code asserts;
`PipeAssumption`: the static assertion on the lag; `LengthAssumption`,
`SequenceAssumption`, `StagesAssumption`; `TmaAssumption`: clusters of 2 to 16 blocks,
more slots than the lag; `EpilogueAssumption`: finite groups, the static assertions on
the stages, and no more store stages than subtiles, as the builder picks them;
`PingpongAssumption`: two stages or more, no more store stages than load stages or subtiles,
every work tile has a k tile, and in the plain kernel all have equally many and one
problem; `SplitKAssumption`: at least one tile and
two slices, a swizzle of 1, 2, 4 or 8; `PersistentGemmAssumption`).  TLC evaluates them on the
instances of the runs.

`PersistentGemmAssumption` says of each problem:

* Extents, batches, k tiles, splits, multiprocessors, resident clusters and launches are
  positive, and so is `max_swizzle_size`; `max_active_clusters` may be 0, for unknown.
* The sides of the cluster are 1, 2, 4, 8 or 16, since the kernel divides by them with
  `FastDivmodU64Pow2` (`tile_scheduler_params.h:91-92`), and their product is at most
  16.  These are all shapes of `SM90_CLUSTER_SIZES`
  (`python/cutlass_library/sm90_shapes.py:68-80`), 8x1, 1x8 and 4x4 among them.
  `check_cluster_dims` would let 32 blocks pass, but `get_max_cta_occupancy` counts
  whole clusters in groups of 18 multiprocessors and would find no place for one.
* The device has at least as many multiprocessors as the cluster has blocks; on a
  smaller one no cluster ever runs.
* Raster order, scheduler and decomposition mode are among those of the code, and more
  than one split goes with the modes that `can_implement` admits only.

**Model-checked only.**  Liveness and the fair refinement (the prover handles neither
fairness nor ENABLED).  What the `expect: violation` runs show is by its nature not
proved.

## 6. What could follow

1. `Pingpong` as an implementation of two blocks of `CpAsyncGemm` that take turns.
2. Cluster launch control and the dynamic persistent scheduler, with
   `clusterlaunchcontrol.try_cancel` as an external action.

## 7. Not modelled

* Numeric types and conversions, MMA and copy atoms, CuTe layout algebra: pure
  compile-time or arithmetic code without control state, and by far most of the
  repository's lines.  Of CuTe only the swizzle that spreads signals is modelled.
* Convolution kernels and iterators: the same mainloops with other address
  computations.
* The group scheduler and the grouped problem visitors: each warp searches the list of
  problems by itself with shuffles; `Pingpong` takes the list of tiles it produces as
  given.
* Blackwell: its pipelines repeat the sm90 ones with arrivals issued by the tensor
  core; its dynamic scheduler depends on an instruction that the repository uses and
  does not describe.
* The Ampere mainloop: one group of threads in lock step between `__syncthreads`.
* In the stream-K scheduler: separate reduction (`should_perform_separate_reduction`
  returns false) and k tile alignment (no sm90 caller sets it).
* `update()` of the adapters, programmatic dependent launch, CUDA graphs.
* Library, profiler, Python generators, examples, documentation: host tooling.
* Fusion callbacks of the epilogue that use shared memory, and reduction subtiles.
* Named-barrier numbering, fences, cluster-wide initialisation: taken as done
  before the models start (`Init` is the state after the cluster barrier).
