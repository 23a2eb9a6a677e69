--------------------------- MODULE TmaClusterGemm ---------------------------
(***************************************************************************)
(* A cluster of thread blocks that share their loads: one output tile per  *)
(* block of the warp specialized TMA kernel (include/cutlass/gemm/kernel/  *)
(* sm90_gemm_tma_warpspecialized.hpp, collective/sm90_mma_tma_gmma_ss_     *)
(* warpspecialized.hpp) over PipelineTmaAsync.  In every block one         *)
(* producer thread copies its share of the A and B tiles by multicast into *)
(* the same slot of all blocks of its row or column; the consumer warp     *)
(* groups multiply and signal the blocks whose copies reached them.        *)
(***************************************************************************)
EXTENDS PipelineState, ClusterBarrier, TransactionBarrier

CONSTANTS
  Clusters,     (* the kernels to look at: the extents m and n of the cluster,
                   and the set wgs of consumer warp groups of a block *)
  KTiles        (* k_tile_count *)

K_PIPE_MMAS == 1

ASSUME TmaAssumption ==
  /\ \A c \in Clusters :
       /\ c.m \in Nat \ {0} /\ c.n \in Nat \ {0} /\ c.m * c.n \in 2 .. 16
       /\ IsFiniteSet(c.wgs) /\ c.wgs # {}
  /\ KTiles \in Nat \ {0}
  /\ K_PIPE_MMAS < Stages

VARIABLES
  cluster,    (* the kernel's cluster: it never changes *)
  full,       (* full_barrier_[slot] of each block *)
  empty,      (* empty_barrier_[slot] of each block *)
  landed,     (* landed[d][s][x]: how often share x has arrived in slot s *)
  ppc, pwrite,           (* the producer of each block and its cursor *)
  cpc, cread, crelease   (* the signaling consumer threads and their cursors *)

producers == <<ppc, pwrite>>
consumers == <<cpc, cread, crelease>>
vars == <<cluster, full, empty, landed, producers, consumers>>

INSTANCE ClusterLayout WITH ClusterM <- cluster.m, ClusterN <- cluster.n

(* The consumer threads that signal a block: <<block, warp group, thread>> *)
ClusterSignalers ==
  {c \in Blocks \X cluster.wgs \X (0 .. NumThreadsPerWarpGroup - 1) : Signals(c[3], c[1])}

Signalers == DOMAIN cpc
Block(c) == c[1]
Dst(c) == SpreadArrivals(c[3])    (* dst_blockid_ *)
Members(b, w) == {c \in Signalers : c[1] = b /\ c[2] = w}

(* What arrives in a slot of block d: a share of the tile of each operand  *)
(* from every block of its row or column.  A share is one unit of          *)
(* transaction_bytes.                                                      *)
Shares(d) == {<<"A", b>> : b \in {x \in Blocks : d \in MulticastA(x)}}
               \cup {<<"B", b>> : b \in {x \in Blocks : d \in MulticastB(x)}}

(* A faulty form, for a mutation: the shares of one operand. *)
TransactionUnitsOfA == cluster.n

TransactionUnits == cluster.m + cluster.n

Init ==
  /\ cluster \in Clusters
  /\ full = [b \in Blocks |-> [s \in Index |-> TxInit(1)]]
  /\ empty = [b \in Blocks |->
       [s \in Index |-> BarrierInit(ConsumerArrivals(Cardinality(cluster.wgs)))]]
  /\ landed = [d \in Blocks |-> [s \in Index |-> [x \in Shares(d) |-> 0]]]
  /\ ppc = [b \in Blocks |-> "acquire"]
  /\ pwrite = [b \in Blocks |-> ProducerStartState]
  /\ cpc = [c \in ClusterSignalers |-> "wait"]
  /\ cread = [c \in ClusterSignalers |-> DefaultState]
  /\ crelease = [c \in ClusterSignalers |-> DefaultState]

-----------------------------------------------------------------------------
(* producer_acquire: the leader waits for the slot and arms the barrier *)
Acquire(b) ==
  LET s == pwrite[b].index IN
  /\ ppc[b] = "acquire"
  /\ PhaseDone(empty[b][s], pwrite[b].phase)
  /\ full' = [full EXCEPT ![b][s] = ArriveAndExpectTx(@, TransactionUnits)]
  /\ ppc' = [ppc EXCEPT ![b] = "copy"]
  /\ UNCHANGED <<cluster, empty, landed, pwrite, consumers>>

(* The two multicast copies are issued and the cursor moves on. *)
Copy(b) ==
  /\ ppc[b] = "copy"
  /\ pwrite' = [pwrite EXCEPT ![b] = Inc(@)]
  /\ ppc' = [ppc EXCEPT ![b] = IF pwrite[b].count + 1 < KTiles THEN "acquire" ELSE "tail"]
  /\ UNCHANGED <<cluster, full, empty, landed, consumers>>

(* A faulty form, for a mutation: the producer leaves without waiting. *)
LoadTailSkipped(b) ==
  /\ ppc[b] = "tail"
  /\ ppc' = [ppc EXCEPT ![b] = "done"]
  /\ UNCHANGED <<cluster, full, empty, landed, pwrite, consumers>>

(* A faulty form, for a mutation: the loop does not count. *)
LoadTailAgain(b) ==
  /\ ppc[b] = "tail"
  /\ PhaseDone(empty[b][pwrite[b].index], pwrite[b].phase)
  /\ UNCHANGED vars

(* load_tail: producer_tail waits for every slot once more, starting at    *)
(* the cursor that the kernel advanced by k_tile_count.                    *)
LoadTail(b) ==
  /\ ppc[b] = "tail"
  /\ PhaseDone(empty[b][pwrite[b].index], pwrite[b].phase)
  /\ pwrite' = [pwrite EXCEPT ![b] = Inc(@)]
  /\ ppc' = [ppc EXCEPT ![b] = IF pwrite[b].count + 1 < KTiles + Stages THEN "tail" ELSE "done"]
  /\ UNCHANGED <<cluster, full, empty, landed, consumers>>

(* Copies into slot s that the producer of b has issued *)
Issued(b, s) == Visits(IF pwrite[b].count < KTiles THEN pwrite[b].count ELSE KTiles, s)

(* A copy ends: a share is in the slot and its bytes are complete.  Copies *)
(* end in any order.                                                       *)
Land(d, s, x) ==
  /\ landed[d][s][x] < Issued(x[2], s)
  /\ landed' = [landed EXCEPT ![d][s][x] = @ + 1]
  /\ full' = [full EXCEPT ![d][s] = CompleteTransaction(@, 1)]
  /\ UNCHANGED <<cluster, empty, producers, consumers>>

-----------------------------------------------------------------------------
(* consumer_try_wait and consumer_wait *)
Wait(c) ==
  /\ cpc[c] = "wait"
  /\ PhaseDone(full[Block(c)][cread[c].index], cread[c].phase)
  /\ cpc' = [cpc EXCEPT ![c] = "mma"]
  /\ UNCHANGED <<cluster, full, empty, landed, producers, cread, crelease>>

(* After a multiply: tiles remain, or mma_tail is next. *)
AfterTile(count) == IF count < KTiles THEN "wait" ELSE "tail"

(* The multiply is a collective operation of the warp group's threads.     *)
(* The first one is the prologue's: it releases nothing.                   *)
Multiply(b, w) ==
  LET group == Members(b, w) IN
  /\ \A c \in group : cpc[c] = "mma"
  /\ cread' = [c \in Signalers |-> IF c \in group THEN Inc(cread[c]) ELSE cread[c]]
  /\ cpc' = [c \in Signalers |->
       IF c \notin group THEN cpc[c]
       ELSE IF cread[c].count < K_PIPE_MMAS THEN AfterTile(cread[c].count + 1)
            ELSE "release"]
  /\ UNCHANGED <<cluster, full, empty, landed, producers, crelease>>

(* consumer_release: tells one block of the row or column *)
SignalEmpty(c, slot) ==
  empty' = [empty EXCEPT ![Dst(c)][slot] = Arrive(@)]

(* warpgroup_wait<K_PIPE_MMAS> retired all multiplies but the last. *)
Release(c) ==
  /\ cpc[c] = "release"
  /\ SignalEmpty(c, crelease[c].index)
  /\ crelease' = [crelease EXCEPT ![c] = Inc(@)]
  /\ cpc' = [cpc EXCEPT ![c] = AfterTile(cread[c].count)]
  /\ UNCHANGED <<cluster, full, landed, producers, cread>>

(* mma_tail: all multiplies are done and the prologue's slots, counted     *)
(* from the start of the work tile, are released.                          *)
MmaTail(c) ==
  LET r == Advance(DefaultState, KTiles - K_PIPE_MMAS) IN
  /\ cpc[c] = "tail"
  /\ SignalEmpty(c, r.index)
  /\ crelease' = [crelease EXCEPT ![c] = Inc(r)]
  /\ cpc' = [cpc EXCEPT ![c] = "done"]
  /\ UNCHANGED <<cluster, full, landed, producers, cread>>

Producer(b) == Acquire(b) \/ Copy(b) \/ LoadTail(b)
Consumer(c) == Wait(c) \/ Release(c) \/ MmaTail(c)

AllDone == (\A b \in Blocks : ppc[b] = "done") /\ (\A c \in Signalers : cpc[c] = "done")

(* The cluster ends. *)
Terminated == AllDone /\ UNCHANGED vars

Next ==
  \/ \E b \in Blocks : Producer(b) \/ \E w \in cluster.wgs : Multiply(b, w)
  \/ \E c \in Signalers : Consumer(c)
  \/ \E d \in Blocks, s \in Index : \E x \in Shares(d) : Land(d, s, x)
  \/ Terminated

Spec == Init /\ [][Next]_vars

(* The blocks of a cluster are resident together and the hardware runs     *)
(* whatever can run: as long as a thread or a copy can take a step, some   *)
(* step is taken.  Every kernel is finite, so nothing more is needed.      *)
FairSpec == Spec /\ WF_vars(Next)

-----------------------------------------------------------------------------
TypeOK ==
  /\ \A b \in Blocks, s \in Index :
       /\ full[b][s] \in [count : {1}, pending : {0, 1}, phase : Nat,
                          tx : -TransactionUnits .. TransactionUnits]
       /\ empty[b][s] \in Barrier /\ empty[b][s].pending \in 1 .. empty[b][s].count
       /\ landed[b][s] \in [Shares(b) -> Nat]
  /\ ppc \in [Blocks -> {"acquire", "copy", "tail", "done"}]
  /\ pwrite \in [Blocks -> Cursor]
  /\ cpc \in [Signalers -> {"wait", "mma", "release", "tail", "done"}]
  /\ cread \in [Signalers -> Cursor] /\ crelease \in [Signalers -> Cursor]

(* Multiplies in flight: issued, and not retired by the warpgroup_wait     *)
(* that comes before a thread's signal.                                    *)
InFlight(b, w) ==
  {n \in 0 .. KTiles - 1 :
     \A c \in Members(b, w) : crelease[c].count <= n /\ n < cread[c].count}

(* While a warp group multiplies with tile n, every share of exactly that  *)
(* tile is in the slot and no block's producer has issued the next copy    *)
(* into it: the parity bits, the byte counts and the signals of the row    *)
(* and column are enough, although a peer may copy into a slot that the    *)
(* block itself has not acquired yet.                                      *)
MmaReadsWholeTiles ==
  \A b \in Blocks, w \in cluster.wgs : \A n \in InFlight(b, w) :
    LET s == n % Stages
        round == n \div Stages + 1
    IN  \A x \in Shares(b) : landed[b][s][x] = round /\ Issued(x[2], s) = round

(* "This helps avoid early exit of blocks in Cluster": when all threads of *)
(* a block have ended, no signal and no copy is still to come for it.      *)
ExitedBlocksAreQuiet ==
  \A d \in Blocks :
    ppc[d] = "done" /\ (\A c \in Signalers : Block(c) = d => cpc[c] = "done")
    => /\ \A c \in Signalers : Dst(c) = d => cpc[c] = "done"
       /\ \A s \in Index : \A x \in Shares(d) : landed[d][s][x] = Issued(x[2], s)

(* The kernel ends in every block. *)
Termination == <>AllDone
=============================================================================
