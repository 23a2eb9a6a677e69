-------------------------- MODULE MCTmaClusterGemm --------------------------
(* Instances of TmaClusterGemm for TLC. *)
EXTENDS TmaClusterGemm

CONSTANTS w1, w2

(* Two blocks that share the tiles of B, with two consumer warp groups     *)
(* each, and two blocks that share the tiles of A.                         *)
RowAndColumn == {[m |-> 2, n |-> 1, wgs |-> {w1, w2}], [m |-> 1, n |-> 2, wgs |-> {w1}]}
=============================================================================
