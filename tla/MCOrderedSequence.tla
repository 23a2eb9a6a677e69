-------------------------- MODULE MCOrderedSequence --------------------------
(* Instances of OrderedSequence for TLC. *)
EXTENDS OrderedSequenceInv

CONSTANTS t1, t2

TwoThreads == {t1, t2}
OneThread == {t1}
=============================================================================
