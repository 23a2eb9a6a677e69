------------------------------ MODULE MCSplitK ------------------------------
(* SplitK for TLC: six tiles, in columns of four, cut off at three. *)
EXTENDS SplitK
=============================================================================
