---------------------------- MODULE ClusterLayout ----------------------------
(***************************************************************************)
(* Which thread of a consumer warp group tells which thread block of the   *)
(* cluster that a buffer is free (PipelineTmaAsync,                        *)
(* include/cutlass/pipeline/sm90_pipeline.hpp), and which blocks a         *)
(* multicast copy reaches (load() of the TMA collective mainloop).         *)
(***************************************************************************)
EXTENDS Naturals

CONSTANTS ClusterM, ClusterN    (* size<0> and size<1> of ClusterShape *)

NumThreadsPerWarpGroup == 128
MaxClusterSize == 16

ClusterSize == ClusterM * ClusterN

(* Ranks of the blocks; block_id.x = rank % ClusterM, .y = rank / ClusterM *)
Blocks == 0 .. ClusterSize - 1

SameM(b, d) == b % ClusterM = d % ClusterM
SameN(b, d) == b \div ClusterM = d \div ClusterM

(* is_same_row_or_col(dst_block_id, block_id, cluster_shape) *)
SameRowOrCol(d, b) == SameM(d, b) \/ SameN(d, b)

(* Exclusive or of two numbers of two bits *)
Xor2(i, j) == 2 * ((i \div 2 + j \div 2) % 2) + ((i + j) % 2)

(* spread_arrivals_to_warpgroup: the block that a thread signals.  The     *)
(* layout (row, col) -> 4 row + col is composed with Swizzle<2,0,-2>,      *)
(* which adds (bitwise) the low two bits to the next two.                  *)
SpreadArrivals(thread) ==
  LET row == (thread \div 32) % 4
      col == (thread \div 8) % 4
  IN  4 * Xor2(row, col) + col

(* is_signaling_thread_ after both steps of the constructor *)
Signals(thread, b) ==
  /\ thread % (NumThreadsPerWarpGroup \div MaxClusterSize) = 0
  /\ SpreadArrivals(thread) < ClusterSize
  /\ SameRowOrCol(SpreadArrivals(thread), b)

SignalingThreads(b) == {t \in 0 .. NumThreadsPerWarpGroup - 1 : Signals(t, b)}

(* multicast_consumer_arrival_count *)
ConsumerArrivals(warpGroups) == (ClusterM + ClusterN - 1) * warpGroups

(* mcast_mask_a and mcast_mask_b: the blocks that b's share of the A tile  *)
(* and of the B tile is copied to                                          *)
MulticastA(b) == {d \in Blocks : SameM(d, b)}
MulticastB(b) == {d \in Blocks : SameN(d, b)}
=============================================================================
