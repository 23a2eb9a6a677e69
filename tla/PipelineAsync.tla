--------------------------- MODULE PipelineAsync ---------------------------
(***************************************************************************)
(* cutlass::PipelineAsync (include/cutlass/pipeline/sm90_pipeline.hpp):    *)
(* one full and one empty barrier per slot.  Each operation is given the   *)
(* barrier array it works on and the cursor of the calling thread; a wait  *)
(* is the condition under which it returns, an arrival returns the array   *)
(* after it.                                                               *)
(***************************************************************************)
EXTENDS PipelineState, ClusterBarrier

(* init_barriers for the array whose phases need n arrivals *)
InitBarriers(n) == [s \in Index |-> BarrierInit(n)]

(* producer_acquire without a token blocks until this holds *)
ProducerAcquired(empty, st) == PhaseDone(empty[st.index], st.phase)

(* producer_commit(state) *)
ProducerCommit(full, st) == [full EXCEPT ![st.index] = Arrive(@)]

(* producer_commit(state, op) first hands the slot's full barrier to op;   *)
(* here op is cpasync_barrier_arrive                                       *)
ProducerCommitOp(full, st) == [full EXCEPT ![st.index] = CpAsyncArrive(@)]

(* consumer_try_wait returns WaitDone (TRUE) or WaitAgain (FALSE) *)
ConsumerTryWait(full, st) == PhaseDone(full[st.index], st.phase)

(* consumer_wait(state, token) returns at once on a WaitDone token and     *)
(* blocks on the barrier otherwise                                         *)
ConsumerWaited(full, st, token) == token \/ PhaseDone(full[st.index], st.phase)

(* consumer_release(state) *)
ConsumerRelease(empty, st) == [empty EXCEPT ![st.index] = Arrive(@)]
=============================================================================
