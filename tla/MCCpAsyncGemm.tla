--------------------------- MODULE MCCpAsyncGemm ---------------------------
(* Instances of CpAsyncGemm for TLC. *)
EXTENDS CpAsyncGemmInv

CONSTANTS p1, p2, c1

TwoProducers == {p1, p2}
OneConsumer == {c1}

(* A work tile shorter than the release lag among longer ones. *)
Work_1_4_2 == <<0, 1, 5, 7>>
=============================================================================
