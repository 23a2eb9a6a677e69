--------------------------- MODULE OrderedSequence ---------------------------
(***************************************************************************)
(* Groups of threads that pass through the stages of an                    *)
(* OrderedSequenceBarrier: each thread repeats wait(), the stage's code,   *)
(* arrive(), as in test/unit/pipeline/sequence_barrier.cu and as the math  *)
(* warp groups of the pingpong kernels do.                                 *)
(***************************************************************************)
EXTENDS OrderedSequenceBarrier, FiniteSets

CONSTANTS
  Threads,     (* thread_idx_in_group of the members of each group *)
  NumSections  (* stages each thread passes through, over all iterations *)

ASSUME SequenceAssumption ==
  /\ IsFiniteSet(Threads) /\ Threads # {}
  /\ NumSections \in Nat

VARIABLES
  barrier,     (* barrier[s][g]: the barrier that group g waits on for stage s *)
  stage,       (* stage[g][t]: the stage_ of the thread's barrier object *)
  inside       (* inside[g][t]: the thread is between wait() and arrive() *)

vars == <<barrier, stage, inside>>

Init ==
  /\ barrier = OrderInit(Cardinality(Threads))
  /\ stage = [g \in Group |-> [t \in Threads |-> OrderStart(g)]]
  /\ inside = [g \in Group |-> [t \in Threads |-> FALSE]]

Wait(g, t) ==
  /\ ~inside[g][t] /\ stage[g][t].count < NumSections
  /\ OrderWaited(barrier, stage[g][t], g)
  /\ inside' = [inside EXCEPT ![g][t] = TRUE]
  /\ UNCHANGED <<barrier, stage>>

(* A faulty form, for a mutation: stage_ does not move on, and nobody is   *)
(* signalled.                                                              *)
LeaveAndStay(g, t) ==
  /\ inside[g][t]
  /\ inside' = [inside EXCEPT ![g][t] = FALSE]
  /\ UNCHANGED <<barrier, stage>>

Leave(g, t) ==
  /\ inside[g][t]
  /\ barrier' = OrderArrive(barrier, stage[g][t], g)
  /\ stage' = [stage EXCEPT ![g][t] = Inc(@)]
  /\ inside' = [inside EXCEPT ![g][t] = FALSE]

AllDone == \A g \in Group, t \in Threads : stage[g][t].count = NumSections

(* The kernel ends. *)
Terminated == AllDone /\ UNCHANGED vars

Next ==
  \/ \E g \in Group, t \in Threads : Wait(g, t) \/ Leave(g, t)
  \/ Terminated

Spec == Init /\ [][Next]_vars

(* Every resident thread is scheduled. *)
FairSpec ==
  Spec /\ \A g \in Group, t \in Threads : WF_vars(Wait(g, t) \/ Leave(g, t))

-----------------------------------------------------------------------------
TypeOK ==
  /\ barrier \in [Index -> [Group -> Barrier]]
  /\ stage \in [Group -> [Threads -> Cursor]]
  /\ inside \in [Group -> [Threads -> BOOLEAN]]

(* Sections a thread has entered. *)
Entered(g, t) == stage[g][t].count + (IF inside[g][t] THEN 1 ELSE 0)

(* "for all i < j - only after id i arrives at a particular stage m will   *)
(* the wait() for id j succeed for the same stage": a thread that entered  *)
(* its n-th section found that all threads of every earlier group had      *)
(* left theirs, and those of every later group their section one round of  *)
(* stages before.                                                          *)
OrderHolds ==
  \A i, j \in Group : i < j =>
    \A t, u \in Threads :
      /\ stage[i][t].count >= Entered(j, u)
      /\ stage[j][u].count + Stages >= Entered(i, t)

(* The code of a stage runs for one group at a time: two threads inside    *)
(* the same stage are of the same group and in the same round (the         *)
(* pingpong kernels share the tensor cores and the epilogue's shared       *)
(* memory between the math warp groups on the strength of this).           *)
StagesAreExclusive ==
  \A g, h \in Group : \A t, u \in Threads :
    /\ inside[g][t] /\ inside[h][u]
    /\ stage[g][t].index = stage[h][u].index
    => g = h /\ stage[g][t].count = stage[h][u].count

(* "Goal of this kernel is to complete deadlock-free" (the unit test). *)
Termination == <>AllDone
=============================================================================
