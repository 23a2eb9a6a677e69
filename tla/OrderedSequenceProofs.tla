------------------------ MODULE OrderedSequenceProofs ------------------------
(***************************************************************************)
(* For every depth, number of groups and group size: a parity bit per      *)
(* stage is enough to keep the groups of an OrderedSequenceBarrier in      *)
(* order and out of each other's way.                                      *)
(***************************************************************************)
EXTENDS OrderedSequenceInv, PipelineLemmas

-----------------------------------------------------------------------------
(* The groups form a ring. *)
LEMMA GroupFacts ==
  ASSUME NEW g \in Group
  PROVE  /\ PrevGroup(g) \in Group /\ NextGroup(g) \in Group
         /\ PrevGroup(NextGroup(g)) = g /\ StartPhase(g) \in {0, 1}
         /\ \A h \in Group : PrevGroup(h) = g => h = NextGroup(g)
<1>1. CASE g + 1 = Length
  <2>1. NextGroup(g) = 0
    BY <1>1, LengthAssumption DEF NextGroup, Group
  <2> QED BY <1>1, <2>1, LengthAssumption DEF PrevGroup, StartPhase, Group
<1>2. CASE g + 1 # Length
  <2>1. NextGroup(g) = g + 1
    BY <1>2, LengthAssumption DEF NextGroup, Group
  <2> QED BY <1>2, <2>1, LengthAssumption DEF PrevGroup, StartPhase, Group
<1> QED BY <1>1, <1>2

(* A thread is in at most one section that it has not left. *)
LEMMA Counts ==
  ASSUME TypeOK, NEW g \in Group, NEW t \in Threads
  PROVE  /\ Left(g, t) \in Nat /\ Entered(g, t) \in Nat
         /\ Entered(g, t) = IF inside[g][t] THEN Left(g, t) + 1 ELSE Left(g, t)
         /\ Left(g, t) <= Entered(g, t)
         /\ \A s \in Index : /\ Visits(Left(g, t), s) \in Nat
                             /\ Visits(Entered(g, t), s) \in Nat
                             /\ Visits(Left(g, t), s) <= Visits(Entered(g, t), s)
<1>1. Left(g, t) \in Nat
  BY DEF TypeOK, Cursor, Left
<1>2. /\ Entered(g, t) = IF inside[g][t] THEN Left(g, t) + 1 ELSE Left(g, t)
      /\ Entered(g, t) \in Nat
  BY <1>1 DEF Entered, Left
<1>3. Left(g, t) <= Entered(g, t)
  BY <1>1, <1>2
<1> QED BY <1>1, <1>2, <1>3, VisitsType, VisitsMonotone

(* The invariant holds at the start. *)
LEMMA InitInvariant == Init => IInv
<1> SUFFICES ASSUME Init PROVE IInv
  OBVIOUS
<1>1. ASSUME NEW g \in Group, NEW t \in Threads
      PROVE  /\ stage[g][t] = StateAt(StartPhase(g), 0) /\ stage[g][t] \in Cursor
             /\ Left(g, t) = 0 /\ Entered(g, t) = 0 /\ inside[g][t] = FALSE
  <2>1. stage[g][t] = OrderStart(g) /\ inside[g][t] = FALSE
    BY DEF Init
  <2>2. OrderStart(g) = StateAt(StartPhase(g), 0)
    BY StartStates DEF OrderStart, StartPhase, ProducerStartState, DefaultState
  <2>3. StateAt(StartPhase(g), 0) \in Cursor
    BY GroupFacts, StateAtType
  <2> QED BY <2>1, <2>2, <2>3 DEF Left, Entered, StateAt
<1>2. ASSUME NEW s \in Index, NEW g \in Group
      PROVE  /\ barrier[s][g] = BarrierInit(Cardinality(Threads))
             /\ CountedBy(barrier[s][g], Threads, Turns(PrevGroup(g), s))
  <2>1. barrier[s][g] = BarrierInit(Cardinality(Threads))
    BY DEF Init, OrderInit
  <2>2. \A t \in Threads : Turns(PrevGroup(g), s)[t] = 0
    BY <1>1, GroupFacts, VisitsZero DEF Turns
  <2> QED BY <2>1, <2>2, CountedInit, SequenceAssumption
<1>3. TypeOK
  <2>1. barrier \in [Index -> [Group -> Barrier]]
    BY <1>2 DEF CountedBy, Init, OrderInit
  <2>2. stage \in [Group -> [Threads -> Cursor]]
    BY <1>1 DEF Init
  <2> QED BY <2>1, <2>2 DEF TypeOK, Init
<1>4. \A g \in Group, t \in Threads : Cursors(g, t)
  BY <1>1 DEF Cursors
<1>5. \A s \in Index, g \in Group : BarrierCounts(s, g)
  <2>1. SUFFICES ASSUME NEW s \in Index, NEW g \in Group PROVE BarrierCounts(s, g)
    OBVIOUS
  <2>2. barrier[s][g].phase = 0 /\ StartPhase(g) \in {0, 1}
    BY <1>2, GroupFacts DEF BarrierInit
  <2>3. \A t \in Threads : Visits(Entered(g, t), s) = 0
    BY <1>1, VisitsZero
  <2>4. \A t \in Threads : Visits(Entered(g, t), s) <= barrier[s][g].phase + StartPhase(g)
    BY <2>2, <2>3
  <2> QED BY <1>2, <2>4 DEF BarrierCounts
<1>6. \A i, j \in Group : Ordered(i, j)
  <2>1. \A g \in Group, t \in Threads : Left(g, t) = 0 /\ Entered(g, t) = 0
    BY <1>1
  <2>2. 0 + Stages >= 0 /\ 0 >= 0
    BY StagesAssumption
  <2> QED BY <2>1, <2>2 DEF Ordered
<1> QED BY <1>3, <1>4, <1>5, <1>6 DEF IInv

-----------------------------------------------------------------------------
(* Where the parity test of group g > 0 succeeds, all threads of the group *)
(* before have left the section the caller is about to enter.              *)
LEMMA FollowerPass ==
  ASSUME IInv, NEW g \in Group, NEW t \in Threads, g > 0, ~inside[g][t],
         OrderWaited(barrier, stage[g][t], g)
  PROVE  LET n == Left(g, t) IN
         /\ barrier[n % Stages][g].phase = (n \div Stages) + 1
         /\ \A u \in Threads : Left(g - 1, u) >= n + 1
<1> DEFINE n == Left(g, t)
           s == n % Stages
           q == n \div Stages
           f == barrier[s][g].phase
<1>1. TypeOK /\ Cursors(g, t)
  BY DEF IInv
<1>2. n \in Nat /\ Entered(g, t) = n
  BY <1>1, Counts
<1>3. s \in Index /\ q \in Nat /\ Visits(n, s) = q
  BY <1>2, DivMod, VisitsAtCursor
<1>4. stage[g][t].index = s /\ stage[g][t].phase = (0 + q) % 2
  BY <1>1 DEF Cursors, StartPhase, StateAt
<1>5. f % 2 # (0 + q) % 2
  BY <1>4 DEF OrderWaited, PhaseDone
<1>6. g - 1 \in Group /\ PrevGroup(g) = g - 1 /\ StartPhase(g) = 0
  BY LengthAssumption DEF Group, PrevGroup, StartPhase
<1>7. BarrierCounts(s, g)
  BY <1>3 DEF IInv
<1>8. f \in Nat /\ q <= f
  BY <1>1, <1>2, <1>3, <1>6, <1>7 DEF BarrierCounts, TypeOK, Barrier
<1>9. \A u \in Threads : f <= Visits(Left(g - 1, u), s)
  BY <1>6, <1>7 DEF BarrierCounts, CountedBy, Turns
<1>10. \A u \in Threads : Left(g - 1, u) <= n + Stages /\ Left(g - 1, u) \in Nat
  <2>1. SUFFICES ASSUME NEW u \in Threads
                 PROVE  Left(g - 1, u) <= n + Stages /\ Left(g - 1, u) \in Nat
    OBVIOUS
  <2>2. Ordered(g - 1, g) /\ g - 1 < g
    BY <1>6 DEF IInv, Group
  <2>3. n + Stages >= Entered(g - 1, u)
    BY <2>2, <1>6 DEF Ordered, Group
  <2>4. /\ Left(g - 1, u) \in Nat /\ Entered(g - 1, u) \in Nat
        /\ Left(g - 1, u) <= Entered(g - 1, u)
    BY <1>1, <1>6, Counts
  <2> HIDE DEF n
  <2> QED BY <1>2, <2>3, <2>4, StagesAssumption
<1>11. \A u \in Threads : /\ Visits(Left(g - 1, u), s) <= q + 1
                          /\ Visits(Left(g - 1, u), s) \in Nat
                          /\ Left(g - 1, u) <= n => Visits(Left(g - 1, u), s) <= q
  BY <1>2, <1>3, <1>10, VisitsBeyond, VisitsType
<1>12. f = q + 1
  <2>1. PICK u \in Threads : TRUE
    BY SequenceAssumption
  <2>2. f <= q + 1
    <3> HIDE DEF n, s, q, f
    <3> QED BY <1>3, <1>8, <1>9, <1>11, <2>1
  <2> HIDE DEF n, s, q, f
  <2> QED BY <1>3, <1>5, <1>8, <2>2
<1>13. \A u \in Threads : Left(g - 1, u) >= n + 1
  <2> HIDE DEF n, s, q, f
  <2> QED BY <1>2, <1>3, <1>9, <1>10, <1>11, <1>12
<1> QED BY <1>12, <1>13

(* Where the parity test of group 0 succeeds, all threads of the last      *)
(* group have left the stage's section of the round before.                *)
LEMMA LeaderPass ==
  ASSUME IInv, NEW t \in Threads, ~inside[0][t], OrderWaited(barrier, stage[0][t], 0)
  PROVE  LET n == Left(0, t) IN
         /\ barrier[n % Stages][0].phase = n \div Stages
         /\ \A u \in Threads : Left(Length - 1, u) + Stages >= n + 1
<1> DEFINE n == Left(0, t)
           s == n % Stages
           q == n \div Stages
           f == barrier[s][0].phase
<1>1. TypeOK /\ 0 \in Group /\ Length - 1 \in Group /\ Cursors(0, t)
  BY LengthAssumption DEF IInv, Group
<1>2. n \in Nat /\ Entered(0, t) = n
  BY <1>1, Counts
<1>3. s \in Index /\ q \in Nat /\ Visits(n, s) = q
  BY <1>2, DivMod, VisitsAtCursor
<1>4. stage[0][t].index = s /\ stage[0][t].phase = (1 + q) % 2
  BY <1>1 DEF Cursors, StartPhase, StateAt
<1>5. f % 2 # (1 + q) % 2
  BY <1>4 DEF OrderWaited, PhaseDone
<1>6. PrevGroup(0) = Length - 1 /\ StartPhase(0) = 1
  BY DEF PrevGroup, StartPhase
<1>7. BarrierCounts(s, 0)
  BY <1>1, <1>3 DEF IInv
<1>8. f \in Nat /\ q <= f + 1
  BY <1>1, <1>2, <1>3, <1>6, <1>7 DEF BarrierCounts, TypeOK, Barrier
<1>9. \A u \in Threads : f <= Visits(Left(Length - 1, u), s)
  BY <1>6, <1>7 DEF BarrierCounts, CountedBy, Turns
<1>10. \E u \in Threads : Left(Length - 1, u) <= n
  <2>1. CASE Length = 1
    BY <1>2, <2>1
  <2>2. CASE Length # 1
    <3>1. Ordered(0, Length - 1) /\ 0 < Length - 1
      BY <1>1, <2>2, LengthAssumption DEF IInv
    <3>2. n >= Entered(Length - 1, t)
      BY <3>1 DEF Ordered
    <3>3. /\ Left(Length - 1, t) \in Nat /\ Entered(Length - 1, t) \in Nat
          /\ Left(Length - 1, t) <= Entered(Length - 1, t)
      BY <1>1, Counts
    <3> HIDE DEF n
    <3> QED BY <1>2, <3>2, <3>3
  <2> QED BY <2>1, <2>2
<1>11. ASSUME NEW u \in Threads
       PROVE  /\ Left(Length - 1, u) \in Nat
              /\ Visits(Left(Length - 1, u), s) \in Nat
              /\ Left(Length - 1, u) <= n => Visits(Left(Length - 1, u), s) <= q
              /\ Visits(Left(Length - 1, u) + Stages, s) =
                   Visits(Left(Length - 1, u), s) + 1
              /\ Left(Length - 1, u) + Stages <= n =>
                   Visits(Left(Length - 1, u) + Stages, s) <= q
  <2>1. Left(Length - 1, u) \in Nat
    BY <1>1, Counts
  <2>2. Left(Length - 1, u) + Stages \in Nat
    BY <2>1, StagesAssumption
  <2> QED BY <1>2, <1>3, <2>1, <2>2, VisitsBeyond, VisitsType, VisitsRound
<1>12. f = q
  <2>1. f <= q
    <3>1. PICK u \in Threads : Left(Length - 1, u) <= n
      BY <1>10
    <3> HIDE DEF n, s, q, f
    <3> QED BY <1>3, <1>8, <1>9, <1>11, <3>1
  <2> HIDE DEF n, s, q, f
  <2> QED BY <1>3, <1>5, <1>8, <2>1
<1>13. \A u \in Threads : Left(Length - 1, u) + Stages >= n + 1
  <2>1. SUFFICES ASSUME NEW u \in Threads, Left(Length - 1, u) + Stages <= n
                 PROVE  FALSE
    BY <1>2, <1>11, StagesAssumption
  <2> HIDE DEF n, s, q, f
  <2> QED BY <1>3, <1>9, <1>11, <1>12, <2>1
<1> QED BY <1>12, <1>13

(* What a successful wait tells: the stage has been left by every earlier  *)
(* group, and by the others one round of stages ago.                       *)
LEMMA WaitGrants ==
  ASSUME IInv, NEW g \in Group, NEW t \in Threads, ~inside[g][t],
         OrderWaited(barrier, stage[g][t], g)
  PROVE  LET n == Left(g, t) IN
         /\ barrier[n % Stages][g].phase + StartPhase(g) = (n \div Stages) + 1
         /\ \A i \in Group, u \in Threads : i < g => Left(i, u) >= n + 1
         /\ \A j \in Group, u \in Threads : j >= g => Left(j, u) + Stages >= n + 1
<1> DEFINE n == Left(g, t)
<1>1. TypeOK /\ n \in Nat /\ n \div Stages \in Nat
  BY Counts, DivMod DEF IInv
<1>2. ASSUME NEW h \in Group, NEW u \in Threads
      PROVE  Left(h, u) \in Nat /\ Entered(h, u) \in Nat /\ Left(h, u) <= Entered(h, u)
  BY <1>1, Counts
<1>3. ASSUME NEW i \in Group, NEW j \in Group, NEW v \in Threads, NEW u \in Threads
      PROVE  /\ i < j => Left(i, v) >= Entered(j, u)
             /\ i <= j => Left(j, u) + Stages >= Entered(i, v)
  BY DEF IInv, Ordered
<1>4. CASE g = 0
  <2>1. /\ barrier[n % Stages][0].phase = n \div Stages
        /\ \A u \in Threads : Left(Length - 1, u) + Stages >= n + 1
    BY <1>4, LeaderPass
  <2>2. barrier[n % Stages][g].phase + StartPhase(g) = (n \div Stages) + 1
    BY <1>4, <2>1 DEF StartPhase
  <2>3. ASSUME NEW i \in Group, i < g PROVE FALSE
    BY <1>4, <2>3 DEF Group
  <2>4. ASSUME NEW j \in Group, NEW u \in Threads PROVE Left(j, u) + Stages >= n + 1
    <3>1. CASE j = Length - 1
      BY <2>1, <3>1
    <3>2. CASE j # Length - 1
      <4>1. Length - 1 \in Group /\ j < Length - 1
        BY <3>2, LengthAssumption DEF Group
      <4>2. Left(j, u) >= Entered(Length - 1, u)
        BY <1>3, <4>1
      <4>3. /\ Left(Length - 1, u) \in Nat /\ Entered(Length - 1, u) \in Nat
            /\ Left(Length - 1, u) <= Entered(Length - 1, u) /\ Left(j, u) \in Nat
        BY <1>2, <4>1
      <4>4. Left(Length - 1, u) + Stages >= n + 1
        BY <2>1
      <4> HIDE DEF n
      <4> QED BY <1>1, <4>2, <4>3, <4>4, StagesAssumption
    <3> QED BY <3>1, <3>2
  <2> QED BY <2>2, <2>3, <2>4
<1>5. CASE g # 0
  <2>1. g > 0 /\ g - 1 \in Group /\ g - 1 < g
    BY <1>5, LengthAssumption DEF Group
  <2>2. /\ barrier[n % Stages][g].phase = (n \div Stages) + 1
        /\ \A u \in Threads : Left(g - 1, u) >= n + 1
    BY <2>1, FollowerPass
  <2>3. barrier[n % Stages][g].phase + StartPhase(g) = (n \div Stages) + 1
    <3>1. StartPhase(g) = 0
      BY <1>5 DEF StartPhase
    <3> HIDE DEF n
    <3> QED BY <1>1, <2>2, <3>1
  <2>4. ASSUME NEW i \in Group, NEW u \in Threads, i < g PROVE Left(i, u) >= n + 1
    <3>1. CASE i = g - 1
      BY <2>2, <3>1
    <3>2. CASE i # g - 1
      <4>1. i < g - 1
        BY <2>4, <3>2, LengthAssumption DEF Group
      <4>2. Left(i, u) >= Entered(g - 1, u) /\ Left(g - 1, u) >= n + 1
        BY <1>3, <2>1, <2>2, <4>1
      <4> HIDE DEF n
      <4> QED BY <1>1, <1>2, <2>1, <4>2
    <3> QED BY <3>1, <3>2
  <2>5. ASSUME NEW j \in Group, NEW u \in Threads, j >= g
        PROVE  Left(j, u) + Stages >= n + 1
    <3>1. g - 1 <= j
      BY <2>5, LengthAssumption DEF Group
    <3>2. Left(j, u) + Stages >= Entered(g - 1, t) /\ Left(g - 1, t) >= n + 1
      BY <1>3, <2>1, <2>2, <3>1
    <3> HIDE DEF n
    <3> QED BY <1>1, <1>2, <2>1, <3>2, StagesAssumption
  <2> QED BY <2>3, <2>4, <2>5
<1> QED BY <1>4, <1>5

-----------------------------------------------------------------------------
(* Entering a section keeps the invariant. *)
LEMMA WaitStep ==
  ASSUME IInv, NEW g \in Group, NEW t \in Threads, Wait(g, t)
  PROVE  IInv'
<1> DEFINE n == Left(g, t)
<1>1. /\ ~inside[g][t] /\ OrderWaited(barrier, stage[g][t], g)
      /\ inside' = [inside EXCEPT ![g][t] = TRUE]
      /\ barrier' = barrier /\ stage' = stage
  BY DEF Wait
<1>2. TypeOK /\ n \in Nat /\ Entered(g, t) = n
  BY <1>1, Counts DEF IInv
<1>3. /\ inside' \in [Group -> [Threads -> BOOLEAN]] /\ inside'[g][t] = TRUE
      /\ \A h \in Group, u \in Threads : <<h, u>> # <<g, t>> => inside'[h][u] = inside[h][u]
  BY <1>1, <1>2 DEF TypeOK
<1>4. TypeOK'
  BY <1>1, <1>2, <1>3 DEF TypeOK
<1>5. \A h \in Group, u \in Threads : Left(h, u)' = Left(h, u)
  BY <1>1 DEF Left
<1>6. /\ Entered(g, t)' = n + 1
      /\ \A h \in Group, u \in Threads : <<h, u>> # <<g, t>> => Entered(h, u)' = Entered(h, u)
  BY <1>1, <1>2, <1>3 DEF Entered, Left
<1>7. /\ barrier[n % Stages][g].phase + StartPhase(g) = (n \div Stages) + 1
      /\ \A i \in Group, u \in Threads : i < g => Left(i, u) >= n + 1
      /\ \A j \in Group, u \in Threads : j >= g => Left(j, u) + Stages >= n + 1
  BY <1>1, WaitGrants
<1>8. \A h \in Group, u \in Threads : Cursors(h, u)'
  BY <1>1 DEF IInv, Cursors, Left, StartPhase
<1>9. ASSUME NEW s \in Index, NEW h \in Group PROVE BarrierCounts(s, h)'
  <2>1. BarrierCounts(s, h)
    BY DEF IInv
  <2>2. Turns(PrevGroup(h), s)' = Turns(PrevGroup(h), s)
    BY <1>1 DEF Turns, Left, PrevGroup
  <2>3. CountedBy(barrier[s][h], Threads, Turns(PrevGroup(h), s))'
    BY <1>1, <2>1, <2>2 DEF BarrierCounts, CountedBy
  <2>4. ASSUME NEW u \in Threads
        PROVE  Visits(Entered(h, u)', s) <= barrier[s][h].phase + StartPhase(h)
    <3>1. Visits(Entered(h, u), s) <= barrier[s][h].phase + StartPhase(h)
      BY <2>1 DEF BarrierCounts
    <3>2. CASE <<h, u>> # <<g, t>>
      BY <1>6, <3>1, <3>2
    <3>3. CASE <<h, u>> = <<g, t>>
      <4>1. Visits(n + 1, s) = IF s = n % Stages THEN Visits(n, s) + 1 ELSE Visits(n, s)
        BY <1>2, VisitsStep
      <4>2. Visits(n, n % Stages) = n \div Stages
        BY <1>2, VisitsAtCursor
      <4>3. CASE s = n % Stages
        <5>1. Visits(n + 1, s) = (n \div Stages) + 1
          BY <4>1, <4>2, <4>3
        <5>2. (n \div Stages) + 1 <= barrier[s][h].phase + StartPhase(h)
          <6>1. (n \div Stages) + 1 \in Nat
            BY <1>2, DivMod
          <6> HIDE DEF n
          <6> QED BY <1>7, <3>3, <4>3, <6>1
        <5> QED BY <1>6, <3>3, <5>1, <5>2
      <4>4. CASE s # n % Stages
        BY <1>2, <1>6, <3>1, <3>3, <4>1, <4>4
      <4> QED BY <4>3, <4>4
    <3> QED BY <3>2, <3>3
  <2>5. \A u \in Threads : Visits(Entered(h, u)', s) <= (barrier[s][h].phase)' + StartPhase(h)
    BY <1>1, <2>4
  <2> QED BY <2>3, <2>5 DEF BarrierCounts, Visits, StartPhase
<1>10. ASSUME NEW i \in Group, NEW j \in Group PROVE Ordered(i, j)'
  <2>1. SUFFICES ASSUME NEW v \in Threads, NEW u \in Threads
        PROVE  /\ i < j => Left(i, v) >= Entered(j, u)'
               /\ i <= j => Left(j, u) + Stages >= Entered(i, v)'
    BY <1>5 DEF Ordered
  <2>2. /\ i < j => Left(i, v) >= Entered(j, u)
        /\ i <= j => Left(j, u) + Stages >= Entered(i, v)
    BY DEF IInv, Ordered
  <2>3. i < j => Left(i, v) >= Entered(j, u)'
    BY <1>6, <1>7, <2>2
  <2>4. i <= j => Left(j, u) + Stages >= Entered(i, v)'
    <3>1. CASE <<i, v>> # <<g, t>>
      BY <1>6, <2>2, <3>1
    <3>2. CASE <<i, v>> = <<g, t>>
      <4>1. i <= j => j >= g
        BY <3>2, LengthAssumption DEF Group
      <4> QED BY <1>6, <1>7, <3>2, <4>1
    <3> QED BY <3>1, <3>2
  <2> QED BY <2>3, <2>4
<1> QED BY <1>4, <1>8, <1>9, <1>10 DEF IInv

(* The barrier a leaving thread arrives on still waits for it, and no      *)
(* thread of its group is two arrivals ahead.                              *)
LEMMA LeaveExpected ==
  ASSUME IInv, NEW g \in Group, NEW t \in Threads, inside[g][t]
  PROVE  LET n == Left(g, t)
             b == barrier[n % Stages][NextGroup(g)]
         IN  /\ CountedBy(b, Threads, Turns(g, n % Stages))
             /\ Turns(g, n % Stages) \in [Threads -> Nat]
             /\ Turns(g, n % Stages)[t] = b.phase
             /\ \A u \in Threads : Turns(g, n % Stages)[u] <= b.phase + 1
<1> DEFINE n == Left(g, t)
           s == n % Stages
           q == n \div Stages
           b == barrier[s][NextGroup(g)]
           v == Turns(g, s)
<1>1. TypeOK /\ n \in Nat /\ Entered(g, t) = n + 1 /\ s \in Index /\ q \in Nat
  BY Counts, DivMod DEF IInv
<1>2. ASSUME NEW u \in Threads
      PROVE  Left(g, u) \in Nat /\ Entered(g, u) \in Nat /\ Left(g, u) <= Entered(g, u)
  BY <1>1, Counts
<1>3. CountedBy(b, Threads, v)
  BY <1>1, GroupFacts DEF IInv, BarrierCounts
<1>4. v = [u \in Threads |-> Visits(Left(g, u), s)]
  BY DEF Turns
<1>5. v \in [Threads -> Nat]
  BY <1>1, <1>2, <1>4, VisitsType
<1>6. v[t] = q
  BY <1>1, <1>4, VisitsAtCursor
<1>7. ASSUME NEW u \in Threads PROVE v[u] >= q /\ v[u] <= q + 1
  <2>1. Left(g, u) + Stages >= n + 1 /\ n + Stages >= Entered(g, u)
    <3>1. Ordered(g, g) /\ g <= g
      BY LengthAssumption DEF IInv, Group
    <3> QED BY <1>1, <3>1 DEF Ordered
  <2>2. /\ Left(g, u) <= n + Stages /\ Left(g, u) + Stages > n
        /\ Left(g, u) + Stages \in Nat
    <3> HIDE DEF n
    <3> QED BY <1>1, <1>2, <2>1, StagesAssumption
  <2>3. /\ Visits(Left(g, u), s) <= q + 1
        /\ Visits(Left(g, u) + Stages, s) >= q + 1
    BY <1>1, <1>2, <2>2, VisitsBeyond
  <2>4. Visits(Left(g, u) + Stages, s) = v[u] + 1
    BY <1>1, <1>2, <1>4, VisitsRound
  <2>5. v[u] <= q + 1 /\ v[u] + 1 >= q + 1 /\ v[u] \in Nat
    BY <1>4, <1>5, <2>3, <2>4
  <2> HIDE DEF v, q
  <2> QED BY <1>1, <2>5
<1>8. b.phase = q
  <2>1. /\ b.phase \in Nat /\ b.phase <= v[t] /\ b.pending > 0
        /\ b.pending = Cardinality({u \in Threads : v[u] = b.phase})
    BY <1>3 DEF CountedBy, Barrier
  <2>2. {u \in Threads : v[u] = b.phase} # {}
    <3> HIDE DEF b, v
    <3> QED BY <2>1, FS_EmptySet
  <2>3. PICK u \in Threads : v[u] = b.phase
    BY <2>2
  <2>4. v[u] >= q
    BY <1>7
  <2> HIDE DEF b, v, q
  <2> QED BY <1>1, <1>6, <2>1, <2>3, <2>4
<1> QED BY <1>3, <1>5, <1>6, <1>7, <1>8

(* Leaving a section, and passing the turn, keeps the invariant. *)
LEMMA LeaveStep ==
  ASSUME IInv, NEW g \in Group, NEW t \in Threads, Leave(g, t)
  PROVE  IInv'
<1>1. PICK n \in Nat : n = Left(g, t)
  BY Counts DEF IInv
<1> DEFINE s == n % Stages
           h == NextGroup(g)
<1>2. inside[g][t] /\ TypeOK /\ Cursors(g, t) /\ s \in Index /\ h \in Group
  BY <1>1, DivMod, GroupFacts DEF IInv, Leave
<1>3. stage[g][t].index = s /\ Inc(stage[g][t]) = StateAt(StartPhase(g), n + 1)
  <2>1. stage[g][t] = StateAt(StartPhase(g), n)
    BY <1>1, <1>2 DEF Cursors
  <2>2. StartPhase(g) \in {0, 1}
    BY GroupFacts
  <2>3. Inc(StateAt(StartPhase(g), n)) = StateAt(StartPhase(g), n + 1)
    BY <1>1, <2>2, IncStateAt
  <2>4. StateAt(StartPhase(g), n).index = s
    BY DEF StateAt
  <2> QED BY <2>1, <2>3, <2>4
<1>4. /\ stage'[g][t] = StateAt(StartPhase(g), n + 1)
      /\ stage' \in [Group -> [Threads -> Cursor]]
      /\ \A j \in Group, u \in Threads : <<j, u>> # <<g, t>> => stage'[j][u] = stage[j][u]
  <2>1. stage' = [stage EXCEPT ![g][t] = StateAt(StartPhase(g), n + 1)]
    BY <1>3 DEF Leave
  <2>2. StateAt(StartPhase(g), n + 1) \in Cursor
    BY <1>1, GroupFacts, StateAtType
  <2> QED BY <1>2, <2>1, <2>2 DEF TypeOK
<1>5. /\ inside'[g][t] = FALSE /\ inside' \in [Group -> [Threads -> BOOLEAN]]
      /\ \A j \in Group, u \in Threads : <<j, u>> # <<g, t>> => inside'[j][u] = inside[j][u]
  BY <1>2 DEF Leave, TypeOK
<1>6. /\ Left(g, t)' = n + 1
      /\ \A j \in Group, u \in Threads : <<j, u>> # <<g, t>> => Left(j, u)' = Left(j, u)
  BY <1>4 DEF Left, StateAt
<1>7. ASSUME NEW j \in Group, NEW u \in Threads
      PROVE  /\ Entered(j, u)' = Entered(j, u) /\ Left(j, u)' >= Left(j, u)
             /\ Left(j, u)' \in Nat /\ Left(j, u) \in Nat /\ Entered(j, u) \in Nat
  <2>1. Left(j, u) \in Nat /\ Entered(j, u) \in Nat
    BY <1>2, Counts
  <2>2. CASE <<j, u>> = <<g, t>>
    BY <1>1, <1>2, <1>5, <1>6, <2>1, <2>2 DEF Entered, Left
  <2>3. CASE <<j, u>> # <<g, t>>
    BY <1>5, <1>6, <2>1, <2>3 DEF Entered, Left
  <2> QED BY <2>2, <2>3
<1>8. /\ CountedBy(barrier[s][h], Threads, Turns(g, s))
      /\ Turns(g, s) \in [Threads -> Nat]
      /\ Turns(g, s)[t] = barrier[s][h].phase
      /\ \A u \in Threads : Turns(g, s)[u] <= barrier[s][h].phase + 1
  BY <1>1, <1>2, LeaveExpected
<1>9. ASSUME NEW j \in Group, NEW k \in Index, NEW u \in Threads
      PROVE  /\ Turns(j, k)'[u] = IF <<j, k, u>> = <<g, s, t>>
                                  THEN Turns(j, k)[u] + 1 ELSE Turns(j, k)[u]
             /\ Turns(j, k)'[u] \in Nat
  <2>1. /\ Turns(j, k)'[u] = Visits(Left(j, u)', k)
        /\ Turns(j, k)[u] = Visits(Left(j, u), k)
    BY DEF Turns, Visits
  <2>2. CASE <<j, u>> = <<g, t>>
    BY <1>1, <1>6, <2>1, <2>2, VisitsStep, VisitsType
  <2>3. CASE <<j, u>> # <<g, t>>
    BY <1>6, <1>7, <2>1, <2>3, VisitsType
  <2> QED BY <2>2, <2>3
<1>10. ASSUME NEW j \in Group, NEW k \in Index
       PROVE  Turns(j, k)' = [u \in Threads |-> Turns(j, k)'[u]]
              /\ Turns(j, k) = [u \in Threads |-> Turns(j, k)[u]]
  BY DEF Turns
<1>11. /\ barrier'[s][h] = Arrive(barrier[s][h])
       /\ \A k \in Index, j \in Group : <<k, j>> # <<s, h>> => barrier'[k][j] = barrier[k][j]
       /\ barrier' = [barrier EXCEPT ![s][h] = Arrive(barrier[s][h])]
  BY <1>2, <1>3 DEF Leave, OrderArrive, TypeOK
<1>12. /\ CountedBy(barrier[s][h], Threads, Turns(g, s))'
       /\ barrier'[s][h].phase >= barrier[s][h].phase
  <2>1. Turns(g, s)' \in [Threads -> Nat]
    BY <1>2, <1>9, <1>10
  <2>2. /\ CountedBy(Arrive(barrier[s][h]), Threads, Turns(g, s)')
        /\ Arrive(barrier[s][h]).phase >= barrier[s][h].phase
    <3>1. /\ Turns(g, s)'[t] = Turns(g, s)[t] + 1
          /\ \A u \in Threads : u # t => Turns(g, s)'[u] = Turns(g, s)[u]
      BY <1>2, <1>9
    <3> HIDE DEF s, h
    <3> QED BY <1>8, <2>1, <3>1, CountedArrival, SequenceAssumption
  <2> QED BY <1>11, <2>2 DEF CountedBy
<1>13. TypeOK'
  <2>1. barrier' \in [Index -> [Group -> Barrier]]
    <3>1. Arrive(barrier[s][h]) \in Barrier
      BY <1>8, ArriveType DEF CountedBy
    <3> HIDE DEF s, h
    <3> QED BY <1>2, <1>11, <3>1 DEF TypeOK
  <2> QED BY <1>4, <1>5, <2>1 DEF TypeOK
<1>14. ASSUME NEW j \in Group, NEW u \in Threads PROVE Cursors(j, u)'
  <2>1. Cursors(j, u)
    BY DEF IInv
  <2>2. CASE <<j, u>> = <<g, t>>
    BY <1>4, <1>6, <2>2 DEF Cursors, StartPhase, StateAt
  <2>3. CASE <<j, u>> # <<g, t>>
    BY <1>4, <1>6, <2>1, <2>3 DEF Cursors, StartPhase, StateAt
  <2> QED BY <2>2, <2>3
<1>15. ASSUME NEW k \in Index, NEW j \in Group PROVE BarrierCounts(k, j)'
  <2>1. BarrierCounts(k, j) /\ PrevGroup(j) \in Group
    BY GroupFacts DEF IInv
  <2>2. CASE <<k, j>> = <<s, h>>
    <3>1. PrevGroup(j) = g
      BY <2>2, GroupFacts
    <3>2. CountedBy(barrier[k][j], Threads, Turns(PrevGroup(j), k))'
      BY <1>12, <2>2, <3>1 DEF PrevGroup
    <3>3. \A u \in Threads : Visits(Entered(j, u), k) <= barrier'[k][j].phase + StartPhase(j)
      <4>1. SUFFICES ASSUME NEW u \in Threads
                     PROVE  Visits(Entered(j, u), k) <= barrier'[k][j].phase + StartPhase(j)
        OBVIOUS
      <4>2. Visits(Entered(j, u), k) <= barrier[k][j].phase + StartPhase(j)
        BY <2>1 DEF BarrierCounts
      <4>3. Visits(Entered(j, u), k) \in Nat /\ StartPhase(j) \in {0, 1}
        BY <1>2, Counts, GroupFacts
      <4>4. /\ barrier[k][j].phase \in Nat /\ barrier'[k][j].phase \in Nat
            /\ barrier'[k][j].phase >= barrier[k][j].phase
        BY <1>2, <1>12, <1>13, <2>2 DEF TypeOK, Barrier
      <4> QED BY <4>2, <4>3, <4>4
    <3> QED BY <1>7, <3>2, <3>3 DEF BarrierCounts, Visits, StartPhase
  <2>3. CASE <<k, j>> # <<s, h>>
    <3>1. <<PrevGroup(j), k>> # <<g, s>>
      BY <2>3, GroupFacts
    <3>2. Turns(PrevGroup(j), k)' = Turns(PrevGroup(j), k)
      BY <1>9, <1>10, <2>1, <3>1
    <3>3. barrier'[k][j] = barrier[k][j]
      BY <1>11, <2>3
    <3>4. CountedBy(barrier[k][j], Threads, Turns(PrevGroup(j), k))'
      BY <2>1, <3>2, <3>3 DEF BarrierCounts, CountedBy, PrevGroup
    <3> QED BY <1>7, <2>1, <3>3, <3>4 DEF BarrierCounts, Visits, StartPhase
  <2> QED BY <2>2, <2>3
<1>16. ASSUME NEW i \in Group, NEW j \in Group PROVE Ordered(i, j)'
  <2>1. SUFFICES ASSUME NEW v \in Threads, NEW u \in Threads
        PROVE  /\ i < j => Left(i, v)' >= Entered(j, u)
               /\ i <= j => Left(j, u)' + Stages >= Entered(i, v)
    BY <1>7 DEF Ordered
  <2>2. /\ i < j => Left(i, v) >= Entered(j, u)
        /\ i <= j => Left(j, u) + Stages >= Entered(i, v)
    BY DEF IInv, Ordered
  <2> QED BY <1>7, <2>2, StagesAssumption
<1> QED BY <1>13, <1>14, <1>15, <1>16 DEF IInv

-----------------------------------------------------------------------------
(* Nothing happens. *)
LEMMA Stutter == IInv /\ UNCHANGED vars => IInv'
<1> SUFFICES ASSUME IInv, UNCHANGED vars PROVE IInv'
  OBVIOUS
<1>1. barrier' = barrier /\ stage' = stage /\ inside' = inside
  BY DEF vars
<1>2. TypeOK' /\ \A g \in Group, t \in Threads : Cursors(g, t)'
  BY <1>1 DEF IInv, TypeOK, Cursors, StateAt, Left, StartPhase
<1>3. ASSUME NEW s \in Index, NEW g \in Group PROVE BarrierCounts(s, g)'
  <2>1. BarrierCounts(s, g)
    BY DEF IInv
  <2>2. Turns(PrevGroup(g), s)' = Turns(PrevGroup(g), s)
    BY <1>1 DEF Turns, Left, PrevGroup, Visits
  <2> QED BY <1>1, <2>1, <2>2 DEF BarrierCounts, CountedBy, Entered, Visits, StartPhase
<1>4. \A i, j \in Group : Ordered(i, j)'
  BY <1>1 DEF IInv, Ordered, Left, Entered
<1> QED BY <1>2, <1>3, <1>4 DEF IInv

(* The invariant holds for every number of stages, groups and threads.     *)
THEOREM Invariance == Spec => []IInv
<1>1. Init => IInv
  BY InitInvariant
<1>2. IInv /\ [Next]_vars => IInv'
  BY WaitStep, LeaveStep, Stutter DEF Next, Terminated
<1> QED BY <1>1, <1>2, PTL DEF Spec

(* Cursors stay within the stages and barriers within their counts. *)
THEOREM TypeCorrectness == Spec => []TypeOK
<1>1. IInv => TypeOK
  BY DEF IInv
<1> QED BY <1>1, Invariance, PTL

(* The order that the class's comment promises (sm90_pipeline.hpp:1203).   *)
THEOREM OrderIsKept == Spec => []OrderHolds
<1>1. IInv => OrderHolds
  <2> SUFFICES ASSUME IInv, NEW i \in Group, NEW j \in Group, i < j,
                      NEW t \in Threads, NEW u \in Threads
               PROVE  Left(i, t) >= Entered(j, u) /\ Left(j, u) + Stages >= Entered(i, t)
    BY DEF OrderHolds, Left
  <2>1. Ordered(i, j) /\ i <= j
    BY LengthAssumption DEF IInv, Group
  <2> QED BY <2>1 DEF Ordered
<1> QED BY <1>1, Invariance, PTL

(* Two threads inside the same stage are of one group and in one round:    *)
(* what the pingpong kernels rely on when two math warp groups take turns  *)
(* on the tensor cores and on the epilogue's shared memory.                *)
THEOREM Exclusion == Spec => []StagesAreExclusive
<1>1. IInv => StagesAreExclusive
  <2>1. SUFFICES ASSUME IInv, NEW g \in Group, NEW h \in Group,
                        NEW t \in Threads, NEW u \in Threads,
                        inside[g][t], inside[h][u],
                        stage[g][t].index = stage[h][u].index
                 PROVE  g = h /\ stage[g][t].count = stage[h][u].count
    BY DEF StagesAreExclusive
  <2>2. ASSUME NEW i \in Group, NEW v \in Threads, inside[i][v]
        PROVE  /\ Left(i, v) \in Nat /\ Entered(i, v) = Left(i, v) + 1
               /\ stage[i][v].index = Left(i, v) % Stages
    <3>1. TypeOK /\ Cursors(i, v)
      BY <2>1 DEF IInv
    <3>2. stage[i][v].index = Left(i, v) % Stages
      BY <3>1 DEF Cursors, StateAt
    <3> QED BY <2>2, <3>1, <3>2, Counts
  <2>3. ASSUME NEW i \in Group, NEW j \in Group, NEW v \in Threads, NEW w \in Threads,
               i < j, inside[i][v], inside[j][w], stage[i][v].index = stage[j][w].index
        PROVE  FALSE
    <3>1. /\ Left(i, v) >= Left(j, w) + 1 /\ Left(j, w) + Stages >= Left(i, v) + 1
          /\ Left(i, v) \in Nat /\ Left(j, w) \in Nat
      <4>1. Ordered(i, j) /\ i <= j
        BY <2>1, <2>3, LengthAssumption DEF IInv, Group
      <4> QED BY <2>2, <2>3, <4>1 DEF Ordered
    <3>2. Left(j, w) < Left(i, v) /\ Left(i, v) < Left(j, w) + Stages
      BY <3>1, StagesAssumption
    <3> QED BY <2>2, <2>3, <3>1, <3>2, DistinctSlots
  <2>4. g = h
    BY <2>1, <2>3, LengthAssumption DEF Group
  <2>5. /\ Left(h, u) + Stages >= Left(g, t) + 1 /\ Left(g, t) + Stages >= Left(h, u) + 1
        /\ Left(g, t) \in Nat /\ Left(h, u) \in Nat
    <3>1. Ordered(g, g) /\ g <= g
      BY <2>1, LengthAssumption DEF IInv, Group
    <3> QED BY <2>1, <2>2, <2>4, <3>1 DEF Ordered
  <2>6. ~(Left(g, t) < Left(h, u)) /\ ~(Left(h, u) < Left(g, t))
    <3>1. /\ Left(g, t) < Left(h, u) => Left(h, u) < Left(g, t) + Stages
          /\ Left(h, u) < Left(g, t) => Left(g, t) < Left(h, u) + Stages
      BY <2>5, StagesAssumption
    <3> QED BY <2>1, <2>2, <2>5, <3>1, DistinctSlots
  <2>7. Left(g, t) = Left(h, u)
    BY <2>5, <2>6
  <2> QED BY <2>4, <2>7 DEF Left
<1> QED BY <1>1, Invariance, PTL
=============================================================================
