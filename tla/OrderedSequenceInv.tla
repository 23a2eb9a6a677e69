------------------------- MODULE OrderedSequenceInv -------------------------
(***************************************************************************)
(* The inductive invariant of OrderedSequence.  OrderHolds alone is not    *)
(* inductive: a wait sees one parity bit, and only the counts behind the   *)
(* bit, together with the bound on how far apart two groups can be, rule   *)
(* out that it is the bit of a phase two rounds old.                       *)
(***************************************************************************)
EXTENDS OrderedSequence

StartPhase(g) == IF g = 0 THEN 1 ELSE 0

(* The group whose arrivals the barriers of group g count. *)
PrevGroup(g) == IF g = 0 THEN Length - 1 ELSE g - 1

Left(g, t) == stage[g][t].count

(* How often the threads of group g have left stage s. *)
Turns(g, s) == [t \in Threads |-> Visits(Left(g, t), s)]

Cursors(g, t) == stage[g][t] = StateAt(StartPhase(g), Left(g, t))

(* The barrier counts the arrivals of the group before and is never more   *)
(* than what lets group g into the stage behind them.                      *)
BarrierCounts(s, g) ==
  /\ CountedBy(barrier[s][g], Threads, Turns(PrevGroup(g), s))
  /\ \A t \in Threads : Visits(Entered(g, t), s) <= barrier[s][g].phase + StartPhase(g)

(* No thread is in front of one of an earlier group, nor a whole round of  *)
(* stages in front of one of its own or of a later group.                  *)
Ordered(i, j) ==
  \A t, u \in Threads :
    /\ i < j => Left(i, t) >= Entered(j, u)
    /\ i <= j => Left(j, u) + Stages >= Entered(i, t)

IInv ==
  /\ TypeOK
  /\ \A g \in Group, t \in Threads : Cursors(g, t)
  /\ \A s \in Index, g \in Group : BarrierCounts(s, g)
  /\ \A i, j \in Group : Ordered(i, j)
=============================================================================
