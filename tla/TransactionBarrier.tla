------------------------- MODULE TransactionBarrier -------------------------
(***************************************************************************)
(* The barrier that also counts bytes still to be copied                   *)
(* (cutlass::arch::ClusterTransactionBarrier, include/cutlass/arch/        *)
(* barrier.h).  A phase completes when all its arrivals are in and the     *)
(* byte count is zero.  Bytes may be completed before they are expected:   *)
(* the count is negative then, and the missing arrival holds the phase.    *)
(***************************************************************************)
EXTENDS Integers

(* init(arrive_count) *)
TxInit(n) == [count |-> n, pending |-> n, tx |-> 0, phase |-> 0]

(* A faulty form, for a mutation: the count is not armed again. *)
SettleUnarmed(b) ==
  IF b.pending = 0 /\ b.tx = 0 THEN [b EXCEPT !.phase = b.phase + 1] ELSE b

(* The completed phase arms the next one. *)
Settle(b) ==
  IF b.pending = 0 /\ b.tx = 0
  THEN [b EXCEPT !.pending = b.count, !.phase = b.phase + 1]
  ELSE b

(* arrive_and_expect_tx(n) *)
ArriveAndExpectTx(b, n) ==
  Settle([b EXCEPT !.pending = b.pending - 1, !.tx = b.tx + n])

(* expect_transaction(n) *)
ExpectTx(b, n) == [b EXCEPT !.tx = b.tx + n]

(* arrive() *)
ArriveTx(b) == ArriveAndExpectTx(b, 0)

(* complete_transaction(n), and a bulk copy of n units that ends *)
CompleteTransaction(b, n) == Settle([b EXCEPT !.tx = b.tx - n])
=============================================================================
