------------------------------- MODULE SplitK -------------------------------
(***************************************************************************)
(* Serial split-K: the blocks that share an output tile add their slices   *)
(* of k to it in turn, each after the one before it has released the       *)
(* semaphore of the tile, and the last one leaves the semaphore as the     *)
(* next grid needs it (include/cutlass/semaphore.h, gemm/kernel/gemm.h,    *)
(* gemm/device/gemm.h, GemmIdentityThreadblockSwizzle).                    *)
(* A tile of D is the sequence of the slices added to it, each with the    *)
(* grid that computed it.  The k loop of a block is not modelled.          *)
(***************************************************************************)
EXTENDS Integers, Sequences, FiniteSets

CONSTANTS
  M, N,         (* grid_tiled_shape: the output tiles *)
  Slices,       (* and the slices of k *)
  Swizzle,      (* the parameter N of GemmIdentityThreadblockSwizzle *)
  Slots,        (* how many blocks are resident at a time *)
  MaxGrids      (* run() is called so often *)

(* One slice alone uses no semaphore. *)
ASSUME SplitKAssumption ==
  /\ M \in Nat \ {0} /\ N \in Nat \ {0} /\ Slots \in Nat \ {0} /\ MaxGrids \in Nat
  /\ Slices \in Nat /\ Slices > 1
  /\ Swizzle \in {1, 2, 4, 8}

-----------------------------------------------------------------------------
(* The swizzle *)

(* 1 << get_log_tile() *)
TileWidth ==
  CASE Swizzle = 8 /\ N >= 6 -> 8
    [] Swizzle >= 4 /\ N >= 3 /\ (Swizzle = 4 \/ N < 6) -> 4
    [] Swizzle >= 2 /\ N >= 2 /\ (Swizzle = 2 \/ N < 3) -> 2
    [] Swizzle = 1 \/ N = 1 -> 1

(* get_grid_shape: with the last column of tiles incomplete, some blocks   *)
(* have no tile.                                                           *)
Blocks == [x : 0 .. M * TileWidth - 1, y : 0 .. (N + TileWidth - 1) \div TileWidth - 1,
           z : 0 .. Slices - 1]

(* get_tile_offset *)
TileOf(b) == [m |-> b.x \div TileWidth, n |-> b.y * TileWidth + (b.x % TileWidth)]

Tiles == [m : 0 .. M - 1, n : 0 .. N - 1]

Working == {b \in Blocks : TileOf(b) \in Tiles}

(* block_idx, the place of the semaphore of a tile *)
BlockIdx(t) == t.m + t.n * M

-----------------------------------------------------------------------------
VARIABLES
  grid,         (* the grids launched so far *)
  pc,           (* where each block is *)
  state,        (* Semaphore::state of each block *)
  source,       (* what the epilogue of each block has read *)
  lock,         (* the semaphores, in global memory *)
  D             (* the output tiles *)

vars == <<grid, pc, state, source, lock, D>>

(* initialize() clears the semaphores; D holds anything. *)
Init ==
  /\ grid = 0
  /\ pc = [b \in Blocks |-> "exit"]
  /\ state = [b \in Blocks |-> -1]
  /\ source = [b \in Blocks |-> <<>>]
  /\ lock = [i \in 0 .. M * N - 1 |-> 0]
  /\ D = [t \in Tiles |-> <<>>]

(* run(): a grid starts when the one before it, on its stream, has ended.  *)
(* Nobody clears the semaphores.                                           *)
Run ==
  /\ grid < MaxGrids
  /\ \A b \in Blocks : pc[b] = "exit"
  /\ grid' = grid + 1
  /\ pc' = [b \in Blocks |-> "pending"]
  /\ state' = [b \in Blocks |-> -1]
  /\ UNCHANGED <<source, lock, D>>

Before(a, b) ==
  \/ a.z < b.z
  \/ a.z = b.z /\ a.y < b.y
  \/ a.z = b.z /\ a.y = b.y /\ a.x < b.x

Resident == {b \in Blocks : pc[b] \notin {"pending", "exit"}}

(* A faulty form, for a mutation: the last block first. *)
DispatchBackwards(b) ==
  /\ pc[b] = "pending"
  /\ \A a \in Blocks : Before(b, a) => pc[a] # "pending"
  /\ Cardinality(Resident) < Slots
  /\ pc' = [pc EXCEPT ![b] = "start"]
  /\ UNCHANGED <<grid, state, source, lock, D>>

(* The device starts the blocks in the order of their indices. *)
Dispatch(b) ==
  /\ pc[b] = "pending"
  /\ \A a \in Blocks : Before(a, b) => pc[a] # "pending"
  /\ Cardinality(Resident) < Slots
  /\ pc' = [pc EXCEPT ![b] = "start"]
  /\ UNCHANGED <<grid, state, source, lock, D>>

(* A block without a tile leaves at once. *)
Start(b) ==
  /\ pc[b] = "start"
  /\ pc' = [pc EXCEPT ![b] = IF b \in Working THEN "fetch" ELSE "exit"]
  /\ UNCHANGED <<grid, state, source, lock, D>>

Lock(b) == lock[BlockIdx(TileOf(b))]

(* semaphore.fetch(), early, without blocking *)
Fetch(b) ==
  /\ pc[b] = "fetch"
  /\ state' = [state EXCEPT ![b] = Lock(b)]
  /\ pc' = [pc EXCEPT ![b] = "wait"]
  /\ UNCHANGED <<grid, source, lock, D>>

(* semaphore.wait(k): what was fetched will do if it is k, and is fetched  *)
(* again if not.                                                           *)
Wait(b) ==
  /\ pc[b] = "wait"
  /\ IF state[b] = b.z
     THEN pc' = [pc EXCEPT ![b] = "load"] /\ UNCHANGED state
     ELSE state' = [state EXCEPT ![b] = Lock(b)] /\ UNCHANGED pc
  /\ UNCHANGED <<grid, source, lock, D>>

(* A faulty form, for a mutation: every slice starts from C. *)
LoadOfC(b) ==
  /\ pc[b] = "load"
  /\ source' = [source EXCEPT ![b] = <<>>]
  /\ pc' = [pc EXCEPT ![b] = "store"]
  /\ UNCHANGED <<grid, state, lock, D>>

(* The epilogue reads C, and D if a slice is there already ... *)
Load(b) ==
  /\ pc[b] = "load"
  /\ source' = [source EXCEPT ![b] = IF b.z = 0 THEN <<>> ELSE D[TileOf(b)]]
  /\ pc' = [pc EXCEPT ![b] = "store"]
  /\ UNCHANGED <<grid, state, lock, D>>

(* ... and writes D. *)
Store(b) ==
  /\ pc[b] = "store"
  /\ D' = [D EXCEPT ![TileOf(b)] = Append(source[b], <<grid, b.z>>)]
  /\ pc' = [pc EXCEPT ![b] = "release"]
  /\ UNCHANGED <<grid, state, source, lock>>

(* A faulty form, for a mutation: the last block does not start anew. *)
ReleaseToTheNext(b) ==
  /\ pc[b] = "release"
  /\ lock' = [lock EXCEPT ![BlockIdx(TileOf(b))] = b.z + 1]
  /\ pc' = [pc EXCEPT ![b] = "exit"]
  /\ UNCHANGED <<grid, state, source, D>>

(* "The final threadblock resets the semaphore for subsequent grids." *)
Release(b) ==
  /\ pc[b] = "release"
  /\ lock' = [lock EXCEPT ![BlockIdx(TileOf(b))] = IF b.z = Slices - 1 THEN 0 ELSE b.z + 1]
  /\ pc' = [pc EXCEPT ![b] = "exit"]
  /\ UNCHANGED <<grid, state, source, D>>

Block(b) ==
  \/ Start(b) \/ Fetch(b) \/ Wait(b) \/ Load(b) \/ Store(b) \/ Release(b)

Done == grid = MaxGrids /\ \A b \in Blocks : pc[b] = "exit"

Terminated == Done /\ UNCHANGED vars

Next == Run \/ (\E b \in Blocks : Dispatch(b) \/ Block(b)) \/ Terminated

Spec == Init /\ [][Next]_vars

(* Resident blocks are run side by side, and a free slot gets a block.     *)
FairSpec ==
  /\ Spec
  /\ WF_vars(Run)
  /\ \A b \in Blocks : WF_vars(Dispatch(b)) /\ WF_vars(Block(b))

-----------------------------------------------------------------------------
(* The slices 0 to k - 1 of a grid, in order *)
Sum(g, k) == [i \in 1 .. k |-> <<g, i - 1>>]

TypeOK ==
  /\ grid \in 0 .. MaxGrids
  /\ pc \in [Blocks -> {"pending", "start", "fetch", "wait", "load", "store", "release", "exit"}]
  /\ state \in [Blocks -> -1 .. Slices - 1]
  /\ lock \in [0 .. M * N - 1 -> 0 .. Slices - 1]
  /\ DOMAIN source = Blocks /\ DOMAIN D = Tiles

(* When a grid has ended, every tile of D is the sum of all slices of that *)
(* grid, each added once and in the order of k, so that the rounding is    *)
(* the same every time; nothing of D from before is left in it.            *)
SumsInOrder ==
  grid > 0 /\ (\A b \in Blocks : pc[b] = "exit") =>
    \A t \in Tiles : D[t] = Sum(grid, Slices)

(* Every grid ends: a block waits only for blocks started before it, and   *)
(* the semaphores are again as the next grid needs them.                   *)
Termination == <>Done
=============================================================================
