----------------------- MODULE OrderedSequenceBarrier -----------------------
(***************************************************************************)
(* cutlass::OrderedSequenceBarrier (include/cutlass/pipeline/              *)
(* sm90_pipeline.hpp): Length groups of threads take turns at each of      *)
(* Depth stages.  The barrier of a stage and a group completes a phase     *)
(* when every thread of the group before it has left the stage.  Here      *)
(* Stages is the depth of the sequence.                                    *)
(***************************************************************************)
EXTENDS PipelineState, ClusterBarrier

CONSTANT Length    (* SequenceLength: the number of groups *)

ASSUME LengthAssumption == Length \in Nat \ {0}

Group == 0 .. Length - 1

(* A faulty form, for a mutation: one arrival instead of group_size. *)
OrderInitOne(groupSize) == [s \in Index |-> [g \in Group |-> BarrierInit(1)]]

(* barrier_[SequenceDepth][SequenceLength], each for group_size arrivals *)
OrderInit(groupSize) == [s \in Index |-> [g \in Group |-> BarrierInit(groupSize)]]

(* A faulty form, for a mutation: no group is held back at the start. *)
OrderStartAll(g) == [index |-> 0, phase |-> 1, count |-> 0]

(* stage_: group 0 starts with the opposite phase *)
OrderStart(g) == [index |-> 0, phase |-> IF g = 0 THEN 1 ELSE 0, count |-> 0]

(* wait() returns when this holds *)
OrderWaited(barrier, stage, g) == PhaseDone(barrier[stage.index][g], stage.phase)

(* The group that arrive() signals. *)
NextGroup(g) == (g + 1) % Length

(* arrive(); the caller's stage_ moves on with Inc *)
OrderArrive(barrier, stage, g) ==
  [barrier EXCEPT ![stage.index][NextGroup(g)] = Arrive(@)]
=============================================================================
