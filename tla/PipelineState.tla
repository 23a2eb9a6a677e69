--------------------------- MODULE PipelineState ---------------------------
(***************************************************************************)
(* The circular cursor with which every thread of a CUTLASS software       *)
(* pipeline walks over the Stages shared memory buffers: an index, the     *)
(* phase bit that flips whenever the index wraps, and a running count      *)
(* (cutlass::PipelineState, include/cutlass/pipeline/sm90_pipeline.hpp).   *)
(* Counts are kept below 2^31 by every caller (they are numbers of k       *)
(* tiles), so the arithmetic is that of the natural numbers.               *)
(***************************************************************************)
EXTENDS Naturals

CONSTANT Stages

ASSUME StagesAssumption == Stages \in Nat \ {0}

Index == 0 .. Stages - 1

Cursor == [index : Index, phase : {0, 1}, count : Nat]

(* phase_ ^= 1 *)
Flip(phase) == 1 - phase

(* The default constructor: a consumer starts at slot 0 with phase 0. *)
DefaultState == [index |-> 0, phase |-> 0, count |-> 0]

(* A producer starts with the opposite phase as the buffers are empty. *)
ProducerStartState == [index |-> 0, phase |-> 1, count |-> 0]

(* A faulty form, for a mutation: the phase bit is not flipped. *)
IncKeepsPhase(s) ==
  [index |-> (s.index + 1) % Stages, phase |-> s.phase, count |-> s.count + 1]

(* A faulty form, for a mutation: the index does not wrap. *)
IncNeverWraps(s) ==
  [index |-> s.index + 1, phase |-> s.phase, count |-> s.count + 1]

(* operator++ *)
Inc(s) ==
  LET wraps == s.index + 1 = Stages
  IN  [index |-> IF wraps THEN 0 ELSE s.index + 1,
       phase |-> IF wraps THEN Flip(s.phase) ELSE s.phase,
       count |-> s.count + 1]

(* A faulty form, for a mutation: the index is not reduced. *)
AdvanceNeverWraps(s, n) ==
  [index |-> s.index + n, phase |-> s.phase, count |-> s.count + n]

(* advance(n), and operator+= and make_pipeline_state that call it *)
Advance(s, n) ==
  LET crossesOnce == n < Stages /\ s.index + n >= Stages
      crossesOdd  == n >= Stages /\ ((s.index + n) \div Stages) % 2 = 1
  IN  [index |-> (s.index + n) % Stages,
       phase |-> IF crossesOnce \/ crossesOdd THEN Flip(s.phase) ELSE s.phase,
       count |-> s.count + n]

-----------------------------------------------------------------------------
(***************************************************************************)
(* Reference definitions.                                                  *)
(***************************************************************************)

(* The cursor after n steps from slot 0 with the given starting phase. *)
StateAt(phase0, n) ==
  [index |-> n % Stages, phase |-> (phase0 + n \div Stages) % 2, count |-> n]

(* How many of the first n steps were made at slot s. *)
Visits(n, s) == (n + Stages - 1 - s) \div Stages
=============================================================================
