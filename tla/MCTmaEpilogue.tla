---------------------------- MODULE MCTmaEpilogue ----------------------------
(* Instances of TmaEpilogue for TLC. *)
EXTENDS TmaEpilogue

CONSTANTS l1, l2, t1, t2

TwoLanes == {l1, l2}
TwoThreads == {t1, t2}

(* C and D in the same layout: a thread writes where it read. *)
SamePlace == [t \in Threads |-> t]
(* C and D in different layouts: it writes where another thread reads. *)
OtherPlace == [t \in Threads |-> CHOOSE u \in Threads : u # t]

(* C and D share their slots: three slots, at most two stores in flight. *)
Reuse == [StagesC |-> 3, StagesD |-> 2, ReuseSmemC |-> TRUE, DelayTmaStore |-> FALSE,
          LoadNeeded |-> TRUE, Subtiles |-> 3, NumTiles |-> 2, DPlace |-> SamePlace]
Separate == [Reuse EXCEPT !.StagesC = 2, !.ReuseSmemC = FALSE, !.DPlace = OtherPlace]
Delay == [Reuse EXCEPT !.DelayTmaStore = TRUE]
SeparateDelay == [Separate EXCEPT !.DelayTmaStore = TRUE]
NoSource == [Reuse EXCEPT !.LoadNeeded = FALSE]
NoWork == [Reuse EXCEPT !.NumTiles = 0]
(* As many stores as slots, and delayed: excluded by a static assertion. *)
Excluded == [Delay EXCEPT !.StagesC = 2, !.NumTiles = 1]
(* Shared slots with different layouts *)
Mixed == [Reuse EXCEPT !.Subtiles = 2, !.NumTiles = 1, !.DPlace = OtherPlace]

AllPolicies == {Reuse, Separate, Delay, SeparateDelay, NoSource, NoWork, Excluded}
OnlyMixed == {Mixed}
=============================================================================
