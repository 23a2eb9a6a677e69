--------------------------- MODULE ClusterBarrier ---------------------------
(***************************************************************************)
(* The shared memory barrier object (mbarrier) as                          *)
(* cutlass::arch::ClusterBarrier uses it (include/cutlass/arch/barrier.h). *)
(* The object counts the arrivals its current phase still needs; the last  *)
(* of them completes the phase and arms the next one with the same count.  *)
(* A wait names a phase only by its parity: it sees whether the phase of   *)
(* that parity is the completed one or the current one, and nothing else.  *)
(***************************************************************************)
EXTENDS Naturals, FiniteSets

Barrier == [count : Nat, pending : Nat, phase : Nat]

(* init(arrive_count) *)
BarrierInit(n) == [count |-> n, pending |-> n, phase |-> 0]

(* arrive(): one arrival on the current phase *)
Arrive(b) ==
  IF b.pending = 1
  THEN [b EXCEPT !.pending = b.count, !.phase = b.phase + 1]
  ELSE [b EXCEPT !.pending = b.pending - 1]

(* A faulty form, for a mutation: the noinc form of the instruction, which *)
(* leaves the pending count to whoever initialised the barrier.            *)
CpAsyncArriveNoInc(b) == b

(* cpasync_barrier_arrive(): adds one pending arrival at once; the barrier *)
(* receives it, as an Arrive, when the thread's earlier copies completed   *)
CpAsyncArrive(b) == [b EXCEPT !.pending = b.pending + 1]

(* test_wait, try_wait and wait(parity): the phase of that parity completed *)
PhaseDone(b, parity) == b.phase % 2 # parity

-----------------------------------------------------------------------------
(* Barrier b counts rounds of the threads in T: thread t has arrived v[t]  *)
(* times, and the current phase waits for those that have not arrived more *)
(* often than it has completed.                                            *)
CountedBy(b, T, v) ==
  /\ b \in Barrier /\ b.pending > 0
  /\ b.count = Cardinality(T)
  /\ b.pending = Cardinality({t \in T : v[t] = b.phase})
  /\ \A t \in T : b.phase <= v[t]
=============================================================================
