--------------------------- MODULE PingpongProofs ---------------------------
(***************************************************************************)
(* The invariant of PingpongInv is inductive, for every kernel and every   *)
(* number of stages, subtiles and work tiles, and implies the safety       *)
(* properties that the model's run checks.                                 *)
(***************************************************************************)
EXTENDS PingpongInv, TLAPS

(* The facts about cursors, for the three pipelines. *)
KL == INSTANCE PipelineLemmas
CL == INSTANCE PipelineLemmas WITH Stages <- StagesC
DL == INSTANCE PipelineLemmas WITH Stages <- StoreStages

(* Those about quotients and remainders, for the subtiles of a tile. *)
TL == INSTANCE PipelineLemmas WITH Stages <- Subtiles

-----------------------------------------------------------------------------
(* 1. The turns.                                                           *)

(* The other group. *)
LEMMA Groups ==
  /\ WarpGroups = {0, 1}
  /\ \A w \in WarpGroups : 1 - w \in WarpGroups /\ 1 - (1 - w) = w /\ 1 - w # w
  BY DEF WarpGroups, NumMmaWarpGroups

(* A kernel of the model, and the number of its k tiles. *)
LEMMA KernelType ==
  ASSUME kernel \in Kernels
  PROVE  /\ kernel.Array \in BOOLEAN /\ kernel.ReuseSmemC \in BOOLEAN
         /\ kernel.LoadNeeded \in BOOLEAN /\ NumTiles \in Nat
  BY PingpongAssumption DEF NumTiles

PCs == {"order", "tail", "turn", "exit"} \cup MmaSection \cup EpilogueSection

(* What the turns say of one group. *)
LEMMA GroupOrder ==
  ASSUME OrderInv, NEW w \in WarpGroups
  PROVE  /\ wpc[w] \in PCs
         /\ tile[w] \in Nat \ {0} /\ tile[w] = 2 * Round(w) + w + 1 /\ Round(w) \in Nat
         /\ Late(w) \in {0, 1} /\ InTurn(w) \in {0, 1}
         /\ Passed(w) = 2 * Round(w) + Late(w)
         /\ turn[w].index = Late(w) /\ turn[w].phase = (1 - w + Round(w)) % 2
         /\ mathorder[Late(w)][w].phase =
              Round(1 - w) + IF Late(w) = 0 THEN Late(1 - w) ELSE 0
<1>1. wpc[w] \in PCs /\ tile[w] = 2 * Round(w) + w + 1 /\ Round(w) \in Nat
  BY DEF OrderInv, PCs
<1>2. Late(w) \in {0, 1} /\ InTurn(w) \in {0, 1}
  BY DEF Late, InTurn
<1>3. tile[w] \in Nat \ {0}
  BY <1>1, Groups
<1>4. turn[w].index = Late(w) /\ turn[w].phase = (1 - w + Round(w)) % 2
  BY DEF OrderInv
<1>5. mathorder[Late(w)][w].phase = Round(1 - w) + IF Late(w) = 0 THEN Late(1 - w) ELSE 0
  BY <1>2 DEF OrderInv
<1> QED BY <1>1, <1>2, <1>3, <1>4, <1>5 DEF Passed

(* The last two conjuncts of the invariant, and the counts they relate. *)
LEMMA Turns ==
  ASSUME OrderInv
  PROVE  /\ Passed(1) + InTurn(1) <= Passed(0)
         /\ Passed(0) + InTurn(0) <= Passed(1) + 2
         /\ Passed(0) = 2 * Round(0) + Late(0) /\ tile[0] = 2 * Round(0) + 1
         /\ Passed(1) = 2 * Round(1) + Late(1) /\ tile[1] = 2 * Round(1) + 2
         /\ Round(0) \in Nat /\ Late(0) \in {0, 1} /\ InTurn(0) \in {0, 1}
         /\ Round(1) \in Nat /\ Late(1) \in {0, 1} /\ InTurn(1) \in {0, 1}
<1>1. Passed(1) + InTurn(1) <= Passed(0) /\ Passed(0) + InTurn(0) <= Passed(1) + 2
  BY DEF OrderInv
<1>2. 0 \in WarpGroups /\ 1 \in WarpGroups
  BY Groups
<1>3. /\ Passed(0) = 2 * Round(0) + Late(0) /\ tile[0] = 2 * Round(0) + 0 + 1
      /\ Round(0) \in Nat /\ Late(0) \in {0, 1} /\ InTurn(0) \in {0, 1}
  BY <1>2, GroupOrder
<1>4. /\ Passed(1) = 2 * Round(1) + Late(1) /\ tile[1] = 2 * Round(1) + 1 + 1
      /\ Round(1) \in Nat /\ Late(1) \in {0, 1} /\ InTurn(1) \in {0, 1}
  BY <1>2, GroupOrder
<1> QED BY <1>1, <1>3, <1>4

(* A group that is in its turn, or may enter it. *)
MayBeIn(w) ==
  /\ w = 0 => Passed(0) + 1 <= Passed(1) + 2
  /\ w = 1 => Passed(1) + 1 <= Passed(0)

(* A group whose wait is over may enter: no parity is taken for another. *)
LEMMA LetIn ==
  ASSUME OrderInv, NEW w \in WarpGroups, MyTurn(w), wpc[w] \in {"order", "turn"}
  PROVE  MayBeIn(w)
<1>1. MyTurn(w) <=> mathorder[turn[w].index][w].phase % 2 # turn[w].phase
  BY DEF MyTurn, MathOrder!OrderWaited, MathOrder!PhaseDone
<1>2. (Round(1 - w) + IF Late(w) = 0 THEN Late(1 - w) ELSE 0) % 2 # (1 - w + Round(w)) % 2
  BY <1>1, GroupOrder
<1>3. CASE w = 0
  <2>0. 1 - w = 1
    BY <1>3
  <2>1. (Round(1) + IF Late(0) = 0 THEN Late(1) ELSE 0) % 2 # (1 + Round(0)) % 2
    BY <2>0, <1>2, <1>3
  <2>2. (Round(1) + IF Late(0) = 0 THEN Late(1) ELSE 0) = Round(0) \/ (Round(1) + IF Late(0) = 0 THEN Late(1) ELSE 0) = Round(0) - 1
    BY Turns
  <2>3. (Round(1) + IF Late(0) = 0 THEN Late(1) ELSE 0) = Round(0)
    BY <2>1, <2>2, Turns
  <2> QED BY <2>3, <1>3, Turns DEF MayBeIn
<1>4. CASE w = 1
  <2>0. 1 - w = 0
    BY <1>4
  <2>1. (Round(0) + IF Late(1) = 0 THEN Late(0) ELSE 0) % 2 # (0 + Round(1)) % 2
    BY <2>0, <1>2, <1>4
  <2>2. (Round(0) + IF Late(1) = 0 THEN Late(0) ELSE 0) = Round(1) \/ (Round(0) + IF Late(1) = 0 THEN Late(0) ELSE 0) = Round(1) + 1
    BY Turns
  <2>3. (Round(0) + IF Late(1) = 0 THEN Late(0) ELSE 0) = Round(1) + 1
    BY <2>1, <2>2, Turns
  <2> QED BY <2>3, <1>4, Turns DEF MayBeIn
<1> QED BY <1>3, <1>4, Groups

(* Where the other group is when a group is in its turn to multiply ...    *)
LEMMA MmaOwner ==
  ASSUME OrderInv, NEW w \in WarpGroups,
         wpc[w] \in MmaSection \/ (wpc[w] = "order" /\ MyTurn(w))
  PROVE  \/ Late(1 - w) = 1 /\ tile[w] = tile[1 - w] + 1
         \/ wpc[1 - w] \in {"order", "exit"} /\ tile[1 - w] = tile[w] + 1
<1>1. Late(w) = 0
  BY DEF Late, MmaSection, EpilogueSection
<1>2. MayBeIn(w)
  <2>1. wpc[w] \in MmaSection => InTurn(w) = 1
    BY DEF InTurn
  <2>2. ASSUME InTurn(w) = 1 PROVE MayBeIn(w)
    BY <2>2, Turns DEF MayBeIn
  <2> QED BY <2>1, <2>2, LetIn
<1>3. wpc[1 - w] \in PCs /\ (Late(1 - w) = 0 /\ InTurn(1 - w) = 0 => wpc[1 - w] \in {"order", "exit"})
  BY Groups, GroupOrder DEF Late, InTurn, PCs
<1>4. CASE w = 0
  <2>1. 1 - w = 1
    BY <1>4
  <2>2. \/ Late(1) = 1 /\ tile[0] = tile[1] + 1
        \/ Late(1) = 0 /\ InTurn(1) = 0 /\ tile[1] = tile[0] + 1
    BY <1>1, <1>2, <1>4, Turns DEF MayBeIn
  <2> QED BY <2>1, <2>2, <1>3, <1>4
<1>5. CASE w = 1
  <2>1. 1 - w = 0
    BY <1>5
  <2>2. \/ Late(0) = 1 /\ tile[1] = tile[0] + 1
        \/ Late(0) = 0 /\ InTurn(0) = 0 /\ tile[0] = tile[1] + 1
    BY <1>1, <1>2, <1>5, Turns DEF MayBeIn
  <2> QED BY <2>1, <2>2, <1>3, <1>5
<1> QED BY <1>4, <1>5, Groups

(* ... and when it is in its turn for the epilogue.                        *)
LEMMA EpilogueOwner ==
  ASSUME OrderInv, NEW w \in WarpGroups,
         wpc[w] \in EpilogueSection \/ (wpc[w] = "turn" /\ MyTurn(w))
  PROVE  wpc[1 - w] \notin EpilogueSection /\ tile[1 - w] = tile[w] + 1
<1>1. Late(w) = 1
  BY DEF Late, EpilogueSection
<1>2. MayBeIn(w)
  <2>1. wpc[w] \in EpilogueSection => InTurn(w) = 1
    BY DEF InTurn
  <2>2. ASSUME InTurn(w) = 1 PROVE MayBeIn(w)
    BY <2>2, Turns DEF MayBeIn
  <2> QED BY <2>1, <2>2, LetIn
<1>3. wpc[1 - w] \in EpilogueSection => Late(1 - w) = 1 /\ InTurn(1 - w) = 1
  BY DEF Late, InTurn
<1>4. CASE w = 0
  <2>1. 1 - w = 1
    BY <1>4
  <2>2. ~(Late(1) = 1 /\ InTurn(1) = 1) /\ tile[1] = tile[0] + 1
    BY <1>1, <1>2, <1>4, Turns DEF MayBeIn
  <2> QED BY <2>1, <2>2, <1>3, <1>4
<1>5. CASE w = 1
  <2>1. 1 - w = 0
    BY <1>5
  <2>2. ~(Late(0) = 1 /\ InTurn(0) = 1) /\ tile[0] = tile[1] + 1
    BY <1>1, <1>2, <1>5, Turns DEF MayBeIn
  <2> QED BY <2>1, <2>2, <1>3, <1>5
<1> QED BY <1>4, <1>5, Groups

(* A group moves on within a turn, or enters the one it may enter. *)
LEMMA OrderMove ==
  ASSUME OrderInv, NEW w \in WarpGroups, NEW pc \in PCs, Goto(w, pc),
         UNCHANGED <<kernel, tile, turn, mathorder>>,
         Late(w)' = Late(w),
         pc \notin {"order", "exit"} => IsValid(tile[w]),
         pc = "exit" => ~IsValid(tile[w]),
         InTurn(w)' = 1 => InTurn(w) = 1 \/ MayBeIn(w)
  PROVE  OrderInv'
<1>1. wpc' = [wpc EXCEPT ![w] = pc] /\ wpc' \in [WarpGroups -> PCs] /\ wpc'[w] = pc
  BY DEF OrderInv, Goto, PCs
<1>2. \A u \in WarpGroups : u # w => wpc'[u] = wpc[u]
  BY <1>1 DEF OrderInv
<1>3. \A u \in WarpGroups : Late(u)' = Late(u) /\ Round(u)' = Round(u) /\ Passed(u)' = Passed(u)
  <2> TAKE u \in WarpGroups
  <2>1. Round(u)' = Round(u)
    BY DEF Round
  <2>2. Late(u)' = Late(u)
    BY <1>2 DEF Late
  <2> QED BY <2>1, <2>2 DEF Passed
<1>4. \A u \in WarpGroups : u # w => InTurn(u)' = InTurn(u)
  BY <1>2 DEF InTurn
<1>5. InTurn(w)' \in {0, 1}
  BY DEF InTurn
<1>6. \A u \in WarpGroups : IsValid(tile[u])' = IsValid(tile[u]) /\ NumTiles' = NumTiles
  BY DEF IsValid, NumTiles
<1>7. /\ Passed(1)' + InTurn(1)' <= Passed(0)'
      /\ Passed(0)' + InTurn(0)' <= Passed(1)' + 2
  <2>1. Passed(0)' = Passed(0) /\ Passed(1)' = Passed(1)
    BY <1>3, Groups
  <2>2. CASE w = 0
    <3>1. InTurn(1)' = InTurn(1)
      BY <1>4, <2>2, Groups
    <3> QED BY <1>5, <2>1, <2>2, <3>1, Turns DEF MayBeIn
  <2>3. CASE w = 1
    <3>1. InTurn(0)' = InTurn(0)
      BY <1>4, <2>3, Groups
    <3> QED BY <1>5, <2>1, <2>3, <3>1, Turns DEF MayBeIn
  <2> QED BY <2>2, <2>3, Groups
<1>8. \A u \in WarpGroups :
        /\ tile'[u] = 2 * Round(u)' + u + 1 /\ Round(u)' \in Nat
        /\ wpc'[u] \notin {"order", "exit"} => IsValid(tile[u])'
        /\ wpc'[u] = "exit" => ~IsValid(tile[u])'
        /\ tile'[u] <= NumTiles' + 2
  <2> TAKE u \in WarpGroups
  <2>1. tile[u] = 2 * Round(u) + u + 1 /\ Round(u) \in Nat /\ tile[u] <= NumTiles + 2
        /\ (wpc[u] \notin {"order", "exit"} => IsValid(tile[u]))
        /\ (wpc[u] = "exit" => ~IsValid(tile[u]))
    BY DEF OrderInv
  <2> QED BY <2>1, <1>1, <1>2, <1>3, <1>6
<1>9. turn' = [u \in WarpGroups |->
         [index |-> Late(u)', phase |-> (1 - u + Round(u)') % 2, count |-> Passed(u)']]
  BY <1>3 DEF OrderInv
<1>10. mathorder' = [s \in {0, 1} |-> [g \in WarpGroups |->
         [count |-> 1, pending |-> 1,
          phase |-> Round(1 - g)' + IF s = 0 THEN Late(1 - g)' ELSE 0]]]
  <2>1. \A g \in WarpGroups : Round(1 - g)' = Round(1 - g) /\ Late(1 - g)' = Late(1 - g)
    BY <1>3, Groups
  <2> QED BY <2>1 DEF OrderInv
<1> QED BY <1>1, <1>7, <1>8, <1>9, <1>10 DEF OrderInv, PCs

(* The last arrival, where one is enough, completes the phase. *)
LEMMA ArriveAlone ==
  ASSUME NEW p
  PROVE  /\ Arrive([count |-> 1, pending |-> 1, phase |-> p]) =
              [count |-> 1, pending |-> 1, phase |-> p + 1]
         /\ MathOrder!Arrive([count |-> 1, pending |-> 1, phase |-> p]) =
              [count |-> 1, pending |-> 1, phase |-> p + 1]
  BY DEF Arrive, MathOrder!Arrive

(* The turn after a turn *)
LEMMA TurnInc ==
  ASSUME NEW i, NEW p, NEW c
  PROVE  MathOrder!Inc([index |-> i, phase |-> p, count |-> c]) =
           [index |-> IF i + 1 = 2 THEN 0 ELSE i + 1, phase |-> IF i + 1 = 2 THEN 1 - p ELSE p,
            count |-> c + 1]
  BY DEF MathOrder!Inc, MathOrder!Flip

(* A group passes the turn on, after its multiplies or its epilogue. *)
LEMMA OrderPass ==
  ASSUME OrderInv, NEW w \in WarpGroups, PassTurn(w), UNCHANGED kernel, InTurn(w) = 1,
         \/ Goto(w, "tail") /\ Late(w) = 0 /\ UNCHANGED tile
         \/ /\ Goto(w, "order") /\ Late(w) = 1
            /\ tile' = [tile EXCEPT ![w] = @ + NumMmaWarpGroups]
  PROVE  OrderInv'
<1> PICK pc \in {"tail", "order"} :
      /\ Goto(w, pc)
      /\ \/ pc = "tail" /\ Late(w) = 0 /\ tile' = tile
         \/ pc = "order" /\ Late(w) = 1 /\ tile' = [tile EXCEPT ![w] = @ + 2]
  BY DEF NumMmaWarpGroups
<1>1. wpc' = [wpc EXCEPT ![w] = pc] /\ wpc' \in [WarpGroups -> PCs] /\ wpc'[w] = pc
      /\ \A u \in WarpGroups : u # w => wpc'[u] = wpc[u]
  BY DEF OrderInv, Goto, PCs
<1>2. tile' \in [WarpGroups -> Nat] /\ tile'[w] = tile[w] + 2 * Late(w)
      /\ \A u \in WarpGroups : u # w => tile'[u] = tile[u]
  <2>1. tile \in [WarpGroups -> Nat]
    BY DEF OrderInv
  <2> QED BY <2>1
<1>3. Late(w)' = 1 - Late(w) /\ InTurn(w)' = 0
  <2>1. pc = "tail" => Late(w)' = 1
    BY <1>1 DEF Late
  <2>2. pc = "order" => Late(w)' = 0
    BY <1>1 DEF Late, EpilogueSection
  <2>3. InTurn(w)' = 0
    BY <1>1 DEF InTurn, MmaSection, EpilogueSection
  <2> QED BY <2>1, <2>2, <2>3
<1>4. Round(w)' = Round(w) + Late(w) /\ Passed(w)' = Passed(w) + 1
  <2>1. tile[w] = 2 * Round(w) + w + 1 /\ Round(w) \in Nat /\ Late(w) \in {0, 1}
    BY GroupOrder
  <2>2. Round(w)' = (tile'[w] - w - 1) \div 2
    BY DEF Round
  <2>3. Round(w)' = Round(w) + Late(w)
    <3>1. w \in {0, 1}
      BY Groups
    <3> QED BY <2>1, <2>2, <1>2, <3>1
  <2> QED BY <1>3, <2>1, <2>3 DEF Passed
<1>5. ASSUME NEW u \in WarpGroups, u # w
      PROVE  Round(u)' = Round(u) /\ Late(u)' = Late(u) /\ InTurn(u)' = InTurn(u)
             /\ Passed(u)' = Passed(u)
  <2>1. Round(u)' = Round(u)
    BY <1>2, <1>5 DEF Round
  <2>2. Late(u)' = Late(u)
    BY <1>1, <1>5 DEF Late
  <2>3. InTurn(u)' = InTurn(u)
    BY <1>1, <1>5 DEF InTurn
  <2> QED BY <2>1, <2>2, <2>3 DEF Passed
<1>6. /\ Passed(1)' + InTurn(1)' <= Passed(0)'
      /\ Passed(0)' + InTurn(0)' <= Passed(1)' + 2
  <2>1. CASE w = 0
    <3>1. 1 \in WarpGroups /\ 1 # w
      BY <2>1, Groups
    <3>2. InTurn(1)' = InTurn(1) /\ Passed(1)' = Passed(1)
      BY <3>1, <1>5
    <3> QED BY <1>3, <1>4, <2>1, <3>2, Turns
  <2>2. CASE w = 1
    <3>1. 0 \in WarpGroups /\ 0 # w
      BY <2>2, Groups
    <3>2. InTurn(0)' = InTurn(0) /\ Passed(0)' = Passed(0)
      BY <3>1, <1>5
    <3> QED BY <1>3, <1>4, <2>2, <3>2, Turns
  <2> QED BY <2>1, <2>2, Groups
<1>7. ASSUME NEW u \in WarpGroups
      PROVE  /\ tile'[u] = 2 * Round(u)' + u + 1 /\ Round(u)' \in Nat
             /\ wpc'[u] \notin {"order", "exit"} => IsValid(tile[u])'
             /\ wpc'[u] = "exit" => ~IsValid(tile[u])'
             /\ tile'[u] <= NumTiles' + 2
  <2>1. tile[u] = 2 * Round(u) + u + 1 /\ Round(u) \in Nat /\ tile[u] <= NumTiles + 2
        /\ (wpc[u] \notin {"order", "exit"} => IsValid(tile[u]))
        /\ (wpc[u] = "exit" => ~IsValid(tile[u])) /\ tile[u] \in Nat
    BY DEF OrderInv
  <2>2. NumTiles' = NumTiles /\ NumTiles \in Nat
    BY KernelType DEF OrderInv, NumTiles
  <2>3. CASE u = w
    <3>1. IsValid(tile[w])
      BY <2>1, <2>3 DEF InTurn, MmaSection, EpilogueSection
    <3>2. Late(w) \in {0, 1}
      BY GroupOrder
    <3>3. tile'[w] = 2 * (Round(w) + Late(w)) + w + 1
      BY <1>2, <2>1, <2>3, <3>2, Groups
    <3>4. tile'[w] <= NumTiles + 2
      BY <1>2, <2>1, <2>2, <2>3, <3>1, <3>2 DEF IsValid
    <3>5. pc = "tail" => IsValid(tile[w])'
      BY <3>1, <1>2, <2>2 DEF IsValid
    <3> QED BY <2>1, <2>2, <2>3, <1>1, <1>4, <3>2, <3>3, <3>4, <3>5
  <2>4. CASE u # w
    <3>1. IsValid(tile[u])' = IsValid(tile[u])
      BY <1>2, <2>2, <2>4 DEF IsValid
    <3> QED BY <2>1, <2>2, <2>4, <3>1, <1>1, <1>2, <1>5
  <2> QED BY <2>3, <2>4
<1>8. turn' = [u \in WarpGroups |->
         [index |-> Late(u)', phase |-> (1 - u + Round(u)') % 2, count |-> Passed(u)']]
  <2>1. turn' = [turn EXCEPT ![w] = MathOrder!Inc(turn[w])]
    BY DEF PassTurn
  <2>2. turn = [u \in WarpGroups |->
          [index |-> Late(u), phase |-> (1 - u + Round(u)) % 2, count |-> Passed(u)]]
    BY DEF OrderInv
  <2>3. MathOrder!Inc(turn[w]) =
          [index |-> IF Late(w) + 1 = 2 THEN 0 ELSE Late(w) + 1,
           phase |-> IF Late(w) + 1 = 2 THEN 1 - ((1 - w + Round(w)) % 2) ELSE (1 - w + Round(w)) % 2,
           count |-> Passed(w) + 1]
    <3>1. turn[w] = [index |-> Late(w), phase |-> (1 - w + Round(w)) % 2, count |-> Passed(w)]
      BY <2>2
    <3> QED BY <3>1, TurnInc
  <2>4. /\ (IF Late(w) + 1 = 2 THEN 0 ELSE Late(w) + 1) = Late(w)'
        /\ (IF Late(w) + 1 = 2 THEN 1 - ((1 - w + Round(w)) % 2) ELSE (1 - w + Round(w)) % 2)
             = (1 - w + Round(w)') % 2
    <3>1. Late(w) \in {0, 1} /\ Round(w) \in Nat /\ w \in {0, 1}
      BY GroupOrder, Groups
    <3> QED BY <3>1, <1>3, <1>4
  <2>5. MathOrder!Inc(turn[w]) =
          [index |-> Late(w)', phase |-> (1 - w + Round(w)') % 2, count |-> Passed(w)']
    BY <2>3, <2>4, <1>4
  <2> QED BY <2>1, <2>2, <2>5, <1>5
<1>9. mathorder' = [s \in {0, 1} |-> [g \in WarpGroups |->
         [count |-> 1, pending |-> 1,
          phase |-> Round(1 - g)' + IF s = 0 THEN Late(1 - g)' ELSE 0]]]
  <2>1. MathOrder!NextGroup(w) = 1 - w
    BY Groups DEF MathOrder!NextGroup, NumMmaWarpGroups
  <2>2. turn[w].index = Late(w) /\ Late(w) \in {0, 1}
    BY GroupOrder
  <2>3. mathorder' = [mathorder EXCEPT ![Late(w)][1 - w] = MathOrder!Arrive(mathorder[Late(w)][1 - w])]
    BY <2>1, <2>2 DEF PassTurn, MathOrder!OrderArrive
  <2>4. mathorder = [s \in {0, 1} |-> [g \in WarpGroups |->
          [count |-> 1, pending |-> 1,
           phase |-> Round(1 - g) + IF s = 0 THEN Late(1 - g) ELSE 0]]]
    BY DEF OrderInv
  <2>5. 1 - w \in WarpGroups /\ 1 - (1 - w) = w
    BY Groups
  <2>6. mathorder[Late(w)][1 - w] =
          [count |-> 1, pending |-> 1, phase |-> Round(w) + IF Late(w) = 0 THEN Late(w) ELSE 0]
    BY <2>2, <2>4, <2>5
  <2>7. MathOrder!Arrive(mathorder[Late(w)][1 - w]) =
          [count |-> 1, pending |-> 1, phase |-> Round(w) + (IF Late(w) = 0 THEN Late(w) ELSE 0) + 1]
    BY <2>6, ArriveAlone
  <2>8. ASSUME NEW s \in {0, 1}, NEW g \in WarpGroups
        PROVE  mathorder'[s][g] =
                 [count |-> 1, pending |-> 1,
                  phase |-> Round(1 - g)' + IF s = 0 THEN Late(1 - g)' ELSE 0]
    <3>1. CASE g = w
      <4>1. 1 - g \in WarpGroups /\ 1 - g # w /\ g # 1 - w
        BY <3>1, Groups
      <4>2. mathorder'[s][g] = mathorder[s][g]
        BY <2>2, <2>3, <2>4, <4>1
      <4>3. Round(1 - g)' = Round(1 - g) /\ Late(1 - g)' = Late(1 - g)
        BY <4>1, <1>5
      <4> QED BY <2>4, <4>2, <4>3
    <3>2. CASE g = 1 - w
      <4>1. 1 - g = w
        BY <3>2, Groups
      <4>2. Late(w) \in {0, 1} /\ Round(w) \in Nat
        BY GroupOrder
      <4>3. CASE s = Late(w)
        <5>1. mathorder'[s][g] =
                [count |-> 1, pending |-> 1, phase |-> Round(w) + (IF Late(w) = 0 THEN Late(w) ELSE 0) + 1]
          BY <2>2, <2>3, <2>4, <2>5, <2>7, <3>2, <4>3
        <5>2. Round(w) + (IF Late(w) = 0 THEN Late(w) ELSE 0) + 1 =
                Round(w)' + IF s = 0 THEN Late(w)' ELSE 0
          BY <4>2, <4>3, <1>3, <1>4
        <5> QED BY <4>1, <5>1, <5>2
      <4>4. CASE s # Late(w)
        <5>1. mathorder'[s][g] = mathorder[s][g]
          BY <2>2, <2>3, <2>4, <2>5, <4>4
        <5>2. mathorder[s][g] =
                [count |-> 1, pending |-> 1, phase |-> Round(w) + IF s = 0 THEN Late(w) ELSE 0]
          BY <2>4, <4>1
        <5>3. (Round(w) + IF s = 0 THEN Late(w) ELSE 0) = (Round(w)' + IF s = 0 THEN Late(w)' ELSE 0)
          BY <4>2, <4>4, <1>3, <1>4
        <5> QED BY <4>1, <5>1, <5>2, <5>3
      <4> QED BY <4>3, <4>4
    <3> QED BY <3>1, <3>2, Groups
  <2>9. mathorder' = [s \in {0, 1} |-> [g \in WarpGroups |-> mathorder'[s][g]]]
    BY <2>2, <2>3, <2>4, <2>5
  <2> QED BY <2>8, <2>9
<1>10. kernel' \in Kernels
  BY DEF OrderInv
<1> QED BY <1>1, <1>2, <1>6, <1>7, <1>8, <1>9, <1>10 DEF OrderInv, PCs

(* The turns do not change when what they are about does not. *)
LEMMA OrderFrame ==
  ASSUME OrderInv, UNCHANGED <<kernel, wpc, tile, turn, mathorder>>
  PROVE  OrderInv'
<1>1. \A u \in WarpGroups : Round(u)' = Round(u) /\ Late(u)' = Late(u)
  BY DEF Round, Late
<1>2. \A u \in WarpGroups : Passed(u)' = Passed(u) /\ InTurn(u)' = InTurn(u)
  BY <1>1 DEF Passed, InTurn
<1>3. \A u \in WarpGroups : IsValid(tile[u])' = IsValid(tile[u]) /\ NumTiles' = NumTiles
  BY DEF IsValid, NumTiles
<1>4. /\ Passed(1)' + InTurn(1)' <= Passed(0)'
      /\ Passed(0)' + InTurn(0)' <= Passed(1)' + 2
  BY <1>2, Groups, Turns
<1>5. \A g \in WarpGroups : Round(1 - g)' = Round(1 - g) /\ Late(1 - g)' = Late(1 - g)
  BY <1>1, Groups
<1>6. mathorder' = [s \in {0, 1} |-> [g \in WarpGroups |->
         [count |-> 1, pending |-> 1,
          phase |-> Round(1 - g)' + IF s = 0 THEN Late(1 - g)' ELSE 0]]]
  BY <1>5 DEF OrderInv
<1>7. turn' = [u \in WarpGroups |->
         [index |-> Late(u)', phase |-> (1 - u + Round(u)') % 2, count |-> Passed(u)']]
  BY <1>1, <1>2 DEF OrderInv
<1> QED BY <1>1, <1>3, <1>4, <1>6, <1>7 DEF OrderInv

(* Before the kernel starts, no turn has been passed. *)
LEMMA OrderInit == Init => OrderInv
<1> SUFFICES ASSUME Init PROVE OrderInv
  OBVIOUS
<1>1. kernel \in Kernels /\ NumTiles \in Nat /\ kernel.Array \in BOOLEAN
  BY KernelType DEF Init
<1>2. ASSUME NEW w \in WarpGroups
      PROVE  /\ tile[w] = w + 1 /\ wpc[w] \in {"order", "exit"}
             /\ wpc[w] = "exit" => ~IsValid(tile[w])
             /\ Late(w) = 0 /\ InTurn(w) = 0 /\ Round(w) = 0 /\ Passed(w) = 0
  <2>1. tile[w] = w + 1 /\ wpc[w] = IF LeavesAtOnce(w + 1) THEN "exit" ELSE "order"
    BY DEF Init
  <2>2. wpc[w] \in {"order", "exit"} /\ (wpc[w] = "exit" => ~IsValid(tile[w]))
    BY <2>1 DEF LeavesAtOnce
  <2>3. Late(w) = 0 /\ InTurn(w) = 0
    BY <2>2 DEF Late, InTurn, MmaSection, EpilogueSection
  <2>4. Round(w) = 0
    BY <2>1, Groups DEF Round
  <2> QED BY <2>1, <2>2, <2>3, <2>4 DEF Passed
<1>3. /\ tile \in [WarpGroups -> Nat]
      /\ wpc \in [WarpGroups -> {"order", "tail", "turn", "exit"} \cup MmaSection \cup EpilogueSection]
  BY <1>2, Groups DEF Init
<1>4. turn = [w \in WarpGroups |->
         [index |-> Late(w), phase |-> (1 - w + Round(w)) % 2, count |-> Passed(w)]]
  <2>1. ASSUME NEW w \in WarpGroups
        PROVE  MathOrder!OrderStart(w) =
                 [index |-> Late(w), phase |-> (1 - w + Round(w)) % 2, count |-> Passed(w)]
    <3>1. (IF w = 0 THEN 1 ELSE 0) = (1 - w + 0) % 2
      BY Groups
    <3> QED BY <3>1, <1>2 DEF MathOrder!OrderStart
  <2> QED BY <2>1 DEF Init
<1>5. mathorder = [s \in {0, 1} |-> [g \in WarpGroups |->
         [count |-> 1, pending |-> 1,
          phase |-> Round(1 - g) + IF s = 0 THEN Late(1 - g) ELSE 0]]]
  <2>1. MathOrder!Index = {0, 1} /\ MathOrder!Group = WarpGroups
    BY DEF MathOrder!Index, MathOrder!Group, WarpGroups, NumMmaWarpGroups
  <2>2. mathorder = [s \in {0, 1} |-> [g \in WarpGroups |->
          [count |-> 1, pending |-> 1, phase |-> 0]]]
    BY <2>1 DEF Init, MathOrder!OrderInit, MathOrder!BarrierInit
  <2>3. \A g \in WarpGroups, s \in {0, 1} : Round(1 - g) + (IF s = 0 THEN Late(1 - g) ELSE 0) = 0
    BY <1>2, Groups
  <2> QED BY <2>2, <2>3
<1>6. Passed(1) + InTurn(1) <= Passed(0) /\ Passed(0) + InTurn(0) <= Passed(1) + 2
  BY <1>2, Groups
<1>7. ASSUME NEW w \in WarpGroups
      PROVE  /\ tile[w] = 2 * Round(w) + w + 1 /\ Round(w) \in Nat
             /\ wpc[w] \notin {"order", "exit"} => IsValid(tile[w])
             /\ wpc[w] = "exit" => ~IsValid(tile[w])
             /\ tile[w] <= NumTiles + 2
  BY <1>1, <1>2, Groups
<1> QED BY <1>1, <1>3, <1>4, <1>5, <1>6, <1>7 DEF OrderInv

(* Every step keeps the order of the turns. *)
LEMMA OrderStep ==
  ASSUME OrderInv, [Next]_vars
  PROVE  OrderInv'
<1>1. ASSUME UNCHANGED <<kernel, mathorder, math>> PROVE OrderInv'
  BY <1>1, OrderFrame DEF math
<1>2. CASE LoadWarp
  BY <1>1, <1>2 DEF LoadWarp, LoadBegin, Load, Loaded, RewriteMapAB, LoadAdvance, LoadTail
<1>3. CASE EpilogueLoadWarp
  BY <1>1, <1>3 DEF EpilogueLoadWarp, EpilogueBegin, LoadSource, RewriteMapC, EpilogueLoadTail
<1>4. CASE Land \/ LandSource \/ \E x \in storing : StoreReads(x)
  BY <1>1, <1>4 DEF Land, LandSource, StoreReads
<1>5. CASE UNCHANGED vars
  BY <1>1, <1>5 DEF vars
<1>6. ASSUME NEW w \in WarpGroups, MathWarpGroup(w) PROVE OrderInv'
  <2>1. ASSUME NEW pc \in PCs, Goto(w, pc), UNCHANGED <<kernel, tile, turn, mathorder>>,
               \/ wpc[w] \in MmaSection /\ pc \in MmaSection
               \/ wpc[w] \in {"tail", "turn"} /\ pc = "turn"
               \/ wpc[w] \in EpilogueSection /\ pc \in EpilogueSection
               \/ wpc[w] = "order" /\ pc = "wait" /\ MyTurn(w) /\ IsValid(tile[w])
               \/ wpc[w] = "turn" /\ pc \in EpilogueSection /\ MyTurn(w)
               \/ wpc[w] = "order" /\ pc = "exit" /\ ~IsValid(tile[w])
        PROVE  OrderInv'
    <3>1. wpc'[w] = pc
      BY <2>1 DEF OrderInv, Goto
    <3>2. Late(w)' = Late(w)
      BY <2>1, <3>1 DEF Late, MmaSection, EpilogueSection
    <3>3. /\ pc \notin {"order", "exit"} => IsValid(tile[w])
          /\ pc = "exit" => ~IsValid(tile[w])
      BY <2>1 DEF OrderInv, MmaSection, EpilogueSection
    <3>4. InTurn(w)' = 1 => InTurn(w) = 1 \/ MayBeIn(w)
      BY <2>1, <3>1, LetIn DEF InTurn, MmaSection, EpilogueSection
    <3> QED BY <2>1, <3>2, <3>3, <3>4, OrderMove
  <2> USE DEF math
  <2>2. CASE MmaBegin(w)
    BY <2>1, <2>2 DEF MmaBegin, PCs, MmaSection
  <2>3. CASE WaitTile(w)
    BY <2>1, <2>3 DEF WaitTile, PCs, MmaSection
  <2>4. CASE Multiply(w)
    BY <2>1, <2>4 DEF Multiply, PCs, MmaSection
  <2>5. CASE Release(w)
    <3>1. PICK pc \in {"wait", "pass"} : Goto(w, pc)
      BY <2>5 DEF Release
    <3> QED BY <2>1, <2>5, <3>1 DEF Release, PCs, MmaSection
  <2>6. CASE MmaPass(w)
    <3>1. InTurn(w) = 1 /\ Late(w) = 0
      BY <2>6 DEF MmaPass, InTurn, Late, MmaSection, EpilogueSection
    <3> QED BY <2>6, <3>1, OrderPass DEF MmaPass
  <2>7. CASE MmaTail(w)
    BY <2>1, <2>7 DEF MmaTail, PCs
  <2>8. CASE EpilogueTurn(w)
    <3>1. PICK pc \in {"source", "write"} : Goto(w, pc)
      BY <2>8 DEF EpilogueTurn
    <3> QED BY <2>1, <2>8, <3>1 DEF EpilogueTurn, PCs, EpilogueSection
  <2>9. CASE WaitSource(w)
    BY <2>1, <2>9 DEF WaitSource, PCs, EpilogueSection
  <2>10. CASE ReadSource(w)
    BY <2>1, <2>10 DEF ReadSource, PCs, EpilogueSection
  <2>11. CASE WriteAndStore(w)
    BY <2>1, <2>11 DEF WriteAndStore, PCs, EpilogueSection
  <2>12. CASE AcquireStore(w)
    <3>1. PICK pc \in {"stored", "source", "write"} : Goto(w, pc)
      BY <2>12 DEF AcquireStore
    <3> QED BY <2>1, <2>12, <3>1 DEF AcquireStore, PCs, EpilogueSection
  <2>13. CASE FetchNext(w)
    BY <2>1, <2>13 DEF FetchNext, PCs, EpilogueSection
  <2>14. CASE StoreTail(w)
    BY <2>1, <2>14 DEF StoreTail, StoreTailDone, PCs, EpilogueSection
  <2>15. CASE EpiloguePass(w)
    <3>1. InTurn(w) = 1 /\ Late(w) = 1
      BY <2>15 DEF EpiloguePass, InTurn, Late, EpilogueSection
    <3> QED BY <2>15, <3>1, OrderPass DEF EpiloguePass
  <2>16. CASE Leave(w)
    BY <2>1, <2>16 DEF Leave, PCs
  <2> QED BY <1>6, <2>2, <2>3, <2>4, <2>5, <2>6, <2>7, <2>8, <2>9, <2>10, <2>11, <2>12, <2>13,
             <2>14, <2>15, <2>16 DEF MathWarpGroup
<1> QED BY <1>2, <1>3, <1>4, <1>5, <1>6 DEF Next, Terminated

-----------------------------------------------------------------------------
(* 2. The k tiles of the work tiles, and the cursors of the three          *)
(* pipelines.                                                              *)

(* The parameters of an instance. *)
LEMMA Parameters ==
  /\ Stages \in Nat /\ Stages > 1 /\ StagesC \in Nat /\ StagesC > 0
  /\ Subtiles \in Nat /\ Subtiles > 0 /\ StagesD \in Nat /\ 0 < StagesD
  /\ StagesD <= Subtiles /\ StagesD <= StagesC
  /\ UnacquiredStages = StagesD - 1 /\ UnacquiredStages \in Nat
  /\ StoreStages \in Nat /\ StagesD <= StoreStages
  /\ ReuseSmemC => StoreStages = StagesC
  /\ KL!StagesAssumption /\ CL!StagesAssumption /\ DL!StagesAssumption /\ TL!StagesAssumption
<1>1. /\ Stages \in Nat /\ Stages > 1 /\ StagesC \in Nat /\ StagesC > 0
      /\ Subtiles \in Nat /\ Subtiles > 0 /\ StagesD \in Nat /\ 0 < StagesD
      /\ StagesD <= Subtiles /\ StagesD <= StagesC
  BY PingpongAssumption
<1>2. StoreStages \in Nat /\ StagesD <= StoreStages /\ (ReuseSmemC => StoreStages = StagesC)
  BY <1>1 DEF StoreStages
<1>3. KL!StagesAssumption /\ CL!StagesAssumption /\ DL!StagesAssumption /\ TL!StagesAssumption
  BY <1>1, <1>2 DEF KL!StagesAssumption, CL!StagesAssumption, DL!StagesAssumption, TL!StagesAssumption
<1> QED BY <1>1, <1>2, <1>3 DEF UnacquiredStages

(* The tiles of a kernel follow one another, and none is empty. *)
LEMMA Tiles ==
  ASSUME kernel \in Kernels
  PROVE  /\ Start(1) = 0
         /\ \A t \in 1 .. NumTiles + 1 : Start(t) \in Nat
         /\ \A s, t \in 1 .. NumTiles + 1 : s < t => Start(s) < Start(t)
         /\ \A t \in 1 .. NumTiles : /\ Start(t) \in Nat /\ Start(t + 1) \in Nat
                                     /\ Start(t) < Start(t + 1)
                                     /\ KTileCount(t) = Start(t + 1) - Start(t)
                                     /\ kernel.batch[t] \in Nat
                                     /\ ~kernel.Array => /\ Start(t + 1) = t * Start(2)
                                                         /\ kernel.batch[t] = 0
<1>1. /\ NumTiles \in Nat /\ Start(1) = 0
      /\ \A t \in 1 .. NumTiles + 1 : Start(t) \in Nat
      /\ \A s, t \in 1 .. NumTiles + 1 : s < t => Start(s) < Start(t)
      /\ \A t \in 1 .. NumTiles : kernel.batch[t] \in Nat
      /\ \A t \in 1 .. NumTiles : ~kernel.Array => /\ Start(t + 1) = t * Start(2)
                                                   /\ kernel.batch[t] = 0
  BY PingpongAssumption DEF NumTiles, Start
<1>2. \A t \in 1 .. NumTiles : /\ t \in 1 .. NumTiles + 1 /\ t + 1 \in 1 .. NumTiles + 1 /\ t < t + 1
                               /\ KTileCount(t) = Start(t + 1) - Start(t)
  BY <1>1 DEF KTileCount, Start
<1> QED BY <1>1, <1>2

(* Cursors of the mainloop pipeline *)
LEMMA KCursor ==
  /\ K!ProducerStartState = K!StateAt(1, 0) /\ K!DefaultState = K!StateAt(0, 0)
  /\ \A p \in {0, 1}, n \in Nat :
       /\ K!StateAt(p, n) \in K!Cursor
       /\ K!Inc(K!StateAt(p, n)) = K!StateAt(p, n + 1)
       /\ \A k \in Nat : K!Advance(K!StateAt(p, n), k) = K!StateAt(p, n + k)
<1>1. K!ProducerStartState = KL!ProducerStartState /\ K!DefaultState = KL!DefaultState
  BY DEF K!ProducerStartState, KL!ProducerStartState, K!DefaultState, KL!DefaultState
<1>2. /\ K!Cursor = KL!Cursor /\ \A p, n : K!StateAt(p, n) = KL!StateAt(p, n)
      /\ \A s : K!Inc(s) = KL!Inc(s) /\ \A k : K!Advance(s, k) = KL!Advance(s, k)
  BY DEF K!Cursor, KL!Cursor, K!Index, KL!Index, K!StateAt, KL!StateAt, K!Inc, KL!Inc,
         K!Advance, KL!Advance, K!Flip, KL!Flip
<1>3. KL!ProducerStartState = KL!StateAt(1, 0) /\ KL!DefaultState = KL!StateAt(0, 0)
  BY Parameters, KL!StartStates
<1>4. ASSUME NEW p \in {0, 1}, NEW n \in Nat
      PROVE  KL!StateAt(p, n) \in KL!Cursor /\ KL!Inc(KL!StateAt(p, n)) = KL!StateAt(p, n + 1)
  BY Parameters, KL!StateAtType, KL!IncStateAt
<1>5. ASSUME NEW p \in {0, 1}, NEW n \in Nat, NEW k \in Nat
      PROVE  KL!Advance(KL!StateAt(p, n), k) = KL!StateAt(p, n + k)
  BY Parameters, KL!AdvanceStateAt
<1> QED BY <1>1, <1>2, <1>3, <1>4, <1>5

(* A step, or several, of a cursor of the mainloop pipeline. *)
LEMMA KMoves ==
  ASSUME NEW p \in {0, 1}, NEW n \in Nat, NEW s, s = K!StateAt(p, n)
  PROVE  /\ K!Inc(s) = K!StateAt(p, n + 1)
         /\ \A k \in Nat : K!Advance(s, k) = K!StateAt(p, n + k)
  BY KCursor

(* What a cursor of the mainloop pipeline holds. *)
LEMMA KFields ==
  ASSUME NEW p, NEW n
  PROVE  /\ K!StateAt(p, n).index = n % Stages /\ K!StateAt(p, n).count = n
         /\ K!StateAt(p, n).phase = (p + n \div Stages) % 2
  BY DEF K!StateAt

(* Cursors of the epilogue load pipeline *)
LEMMA CCursor ==
  /\ C!ProducerStartState = C!StateAt(1, 0) /\ C!DefaultState = C!StateAt(0, 0)
  /\ \A p \in {0, 1}, n \in Nat :
       /\ C!StateAt(p, n) \in C!Cursor
       /\ C!Inc(C!StateAt(p, n)) = C!StateAt(p, n + 1)
       /\ \A k \in Nat : C!Advance(C!StateAt(p, n), k) = C!StateAt(p, n + k)
<1>1. C!ProducerStartState = CL!ProducerStartState /\ C!DefaultState = CL!DefaultState
  BY DEF C!ProducerStartState, CL!ProducerStartState, C!DefaultState, CL!DefaultState
<1>2. /\ C!Cursor = CL!Cursor /\ \A p, n : C!StateAt(p, n) = CL!StateAt(p, n)
      /\ \A s : C!Inc(s) = CL!Inc(s) /\ \A k : C!Advance(s, k) = CL!Advance(s, k)
  BY DEF C!Cursor, CL!Cursor, C!Index, CL!Index, C!StateAt, CL!StateAt, C!Inc, CL!Inc,
         C!Advance, CL!Advance, C!Flip, CL!Flip
<1>3. CL!ProducerStartState = CL!StateAt(1, 0) /\ CL!DefaultState = CL!StateAt(0, 0)
  BY Parameters, CL!StartStates
<1>4. ASSUME NEW p \in {0, 1}, NEW n \in Nat
      PROVE  CL!StateAt(p, n) \in CL!Cursor /\ CL!Inc(CL!StateAt(p, n)) = CL!StateAt(p, n + 1)
  BY Parameters, CL!StateAtType, CL!IncStateAt
<1>5. ASSUME NEW p \in {0, 1}, NEW n \in Nat, NEW k \in Nat
      PROVE  CL!Advance(CL!StateAt(p, n), k) = CL!StateAt(p, n + k)
  BY Parameters, CL!AdvanceStateAt
<1> QED BY <1>1, <1>2, <1>3, <1>4, <1>5

(* The same for the epilogue load pipeline. *)
LEMMA CMoves ==
  ASSUME NEW p \in {0, 1}, NEW n \in Nat, NEW s, s = C!StateAt(p, n)
  PROVE  /\ C!Inc(s) = C!StateAt(p, n + 1)
         /\ \A k \in Nat : C!Advance(s, k) = C!StateAt(p, n + k)
  BY CCursor

(* What a cursor of the epilogue load pipeline holds. *)
LEMMA CFields ==
  ASSUME NEW p, NEW n
  PROVE  /\ C!StateAt(p, n).index = n % StagesC /\ C!StateAt(p, n).count = n
         /\ C!StateAt(p, n).phase = (p + n \div StagesC) % 2
  BY DEF C!StateAt

(* Cursors of the store pipeline *)
LEMMA DCursor ==
  /\ D!ProducerStartState = D!StateAt(1, 0)
  /\ \A n \in Nat :
       /\ D!StateAt(1, n) \in D!Cursor
       /\ D!Inc(D!StateAt(1, n)) = D!StateAt(1, n + 1)
       /\ \A k \in Nat : D!Advance(D!StateAt(1, n), k) = D!StateAt(1, n + k)
       /\ n % StoreStages \in D!Index
<1>1. D!ProducerStartState = DL!ProducerStartState
  BY DEF D!ProducerStartState, DL!ProducerStartState
<1>2. /\ D!Cursor = DL!Cursor /\ D!Index = DL!Index
      /\ \A p, n : D!StateAt(p, n) = DL!StateAt(p, n)
      /\ \A s : D!Inc(s) = DL!Inc(s) /\ \A k : D!Advance(s, k) = DL!Advance(s, k)
  BY DEF D!Cursor, DL!Cursor, D!Index, DL!Index, D!StateAt, DL!StateAt, D!Inc, DL!Inc,
         D!Advance, DL!Advance, D!Flip, DL!Flip
<1>3. DL!ProducerStartState = DL!StateAt(1, 0)
  BY Parameters, DL!StartStates
<1>4. ASSUME NEW n \in Nat
      PROVE  /\ DL!StateAt(1, n) \in DL!Cursor /\ DL!Inc(DL!StateAt(1, n)) = DL!StateAt(1, n + 1)
             /\ n % StoreStages \in DL!Index
  BY Parameters, DL!StateAtType, DL!IncStateAt, DL!DivMod
<1>5. ASSUME NEW n \in Nat, NEW k \in Nat
      PROVE  DL!Advance(DL!StateAt(1, n), k) = DL!StateAt(1, n + k)
  BY Parameters, DL!AdvanceStateAt
<1> QED BY <1>1, <1>2, <1>3, <1>4, <1>5

(* The same for the store pipeline. *)
LEMMA DMoves ==
  ASSUME NEW n \in Nat, NEW s, s = D!StateAt(1, n)
  PROVE  /\ D!Inc(s) = D!StateAt(1, n + 1)
         /\ \A k \in Nat : D!Advance(s, k) = D!StateAt(1, n + k)
  BY DCursor

(* What a cursor of the store pipeline holds. *)
LEMMA DFields ==
  ASSUME NEW p, NEW n
  PROVE  /\ D!StateAt(p, n).index = n % StoreStages /\ D!StateAt(p, n).count = n
         /\ D!StateAt(p, n).phase = (p + n \div StoreStages) % 2
  BY DEF D!StateAt

(* No step changes the kernel. *)
LEMMA NextKeeps ==
  ASSUME [Next]_vars
  PROVE  kernel' = kernel
  BY DEF Next, LoadWarp, LoadBegin, Load, Loaded, RewriteMapAB, LoadAdvance, LoadTail,
         EpilogueLoadWarp, EpilogueBegin, LoadSource, RewriteMapC, EpilogueLoadTail,
         Land, LandSource, StoreReads, Terminated, vars, MathWarpGroup,
         MmaBegin, WaitTile, Multiply, Release, MmaPass, MmaTail, EpilogueTurn, WaitSource,
         ReadSource, WriteAndStore, AcquireStore, FetchNext, StoreTail, StoreTailDone,
         EpiloguePass, Leave

(* The steps of the load warps, of the copies and of the stores leave the  *)
(* math groups alone.                                                      *)
LEMMA OthersKeepMath ==
  ASSUME \/ LoadWarp \/ EpilogueLoadWarp \/ Land \/ LandSource \/ \E x \in storing : StoreReads(x)
         \/ UNCHANGED vars
  PROVE  UNCHANGED <<wpc, tile, turn, mstate, read, sub, wait, rstate, sstate, issued>>
  BY DEF LoadWarp, LoadBegin, Load, Loaded, RewriteMapAB, LoadAdvance, LoadTail,
         EpilogueLoadWarp, EpilogueBegin, LoadSource, RewriteMapC, EpilogueLoadTail,
         Land, LandSource, StoreReads, vars, math, store

(* A step of a math group leaves the other one, and the load warps, alone. *)
LEMMA MathKeepsOthers ==
  ASSUME NEW w \in WarpGroups, MathWarpGroup(w)
  PROVE  /\ UNCHANGED <<ppc, ptile, pstate, pwrite, epc, etile, estate, landed, clanded, full, cfull>>
         /\ \A u \in WarpGroups : u # w =>
              /\ wpc'[u] = wpc[u] /\ tile'[u] = tile[u]
              /\ mstate'[u] = mstate[u] /\ read'[u] = read[u]
              /\ sub'[u] = sub[u] /\ wait'[u] = wait[u] /\ rstate'[u] = rstate[u]
              /\ sstate'[u] = sstate[u] /\ issued'[u] = issued[u]
<1> USE DEF math, store, loader, eloader, mainloop, source, Goto, PassTurn, ReleaseSource
<1>1. CASE MmaBegin(w)
  BY <1>1 DEF MmaBegin
<1>2. CASE WaitTile(w)
  BY <1>2 DEF WaitTile
<1>3. CASE Multiply(w)
  BY <1>3 DEF Multiply
<1>4. CASE Release(w)
  BY <1>4 DEF Release
<1>5. CASE MmaPass(w)
  BY <1>5 DEF MmaPass
<1>6. CASE MmaTail(w)
  BY <1>6 DEF MmaTail
<1>7. CASE EpilogueTurn(w)
  BY <1>7 DEF EpilogueTurn
<1>8. CASE WaitSource(w)
  BY <1>8 DEF WaitSource
<1>9. CASE ReadSource(w)
  <2>1. rstate' = rstate \/ rstate' = [rstate EXCEPT ![w] = C!Inc(rstate[w])]
    BY <1>9 DEF ReadSource
  <2>2. /\ wait' = [wait EXCEPT ![w] = C!Inc(wait[w])]
        /\ wpc' = [wpc EXCEPT ![w] = "write"]
        /\ UNCHANGED <<mainloop, cfull, clanded, loader, eloader, tile, turn, mstate, read, sub,
                       sstate, issued>>
    BY <1>9 DEF ReadSource
  <2>3. CASE rstate' = rstate
    BY <2>2, <2>3
  <2>4. CASE rstate' = [rstate EXCEPT ![w] = C!Inc(rstate[w])]
    BY <2>2, <2>4
  <2> QED BY <2>1, <2>3, <2>4
<1>10. CASE WriteAndStore(w)
  BY <1>10 DEF WriteAndStore
<1>11. CASE AcquireStore(w)
  <2>1. rstate' = rstate \/ rstate' = [rstate EXCEPT ![w] = C!Inc(rstate[w])]
    BY <1>11 DEF AcquireStore
  <2>2. PICK s, pc :
          /\ sub' = [sub EXCEPT ![w] = s] /\ wpc' = [wpc EXCEPT ![w] = pc]
          /\ UNCHANGED <<mainloop, cfull, clanded, loader, eloader, tile, turn, mstate, read, wait,
                         sstate, issued>>
    BY <1>11 DEF AcquireStore
  <2>3. CASE rstate' = rstate
    BY <2>2, <2>3
  <2>4. CASE rstate' = [rstate EXCEPT ![w] = C!Inc(rstate[w])]
    BY <2>2, <2>4
  <2> QED BY <2>1, <2>3, <2>4
<1>12. CASE FetchNext(w)
  <2>1. mstate' = mstate \/ mstate' = [mstate EXCEPT ![w] = Skip(mstate[w], KTileCount(tile[w] + 1))]
    BY <1>12, Zenon DEF FetchNext
  <2>2. /\ wpc' = [wpc EXCEPT ![w] = "drain"]
        /\ UNCHANGED <<mainloop, source, loader, eloader, tile, turn, read, store>>
    BY <1>12, Zenon DEF FetchNext
  <2>3. CASE mstate' = mstate
    BY <2>2, <2>3
  <2>4. CASE mstate' = [mstate EXCEPT ![w] = Skip(mstate[w], KTileCount(tile[w] + 1))]
    BY <2>2, <2>4
  <2> QED BY <2>1, <2>3, <2>4
<1>13. CASE StoreTail(w)
  BY <1>13 DEF StoreTail, StoreTailDone
<1>14. CASE EpiloguePass(w)
  BY <1>14 DEF EpiloguePass
<1>15. CASE Leave(w)
  BY <1>15 DEF Leave
<1> QED BY <1>1, <1>2, <1>3, <1>4, <1>5, <1>6, <1>7, <1>8, <1>9, <1>10, <1>11, <1>12, <1>13,
           <1>14, <1>15 DEF MathWarpGroup

-----------------------------------------------------------------------------
(* 3. The cursors of the mainloop.                                         *)

(* What the turns and the cursors say of one group. *)
LEMMA GroupTiles ==
  ASSUME OrderInv, NEW w \in WarpGroups
  PROVE  /\ tile[w] \in 1 .. NumTiles + 2 /\ NumTiles \in Nat
         /\ wpc[w] \notin {"order", "exit"} => tile[w] \in 1 .. NumTiles
         /\ tile[w] # 1 => tile[w] - 1 \in 1 .. NumTiles + 1
<1>1. tile[w] \in Nat \ {0} /\ NumTiles \in Nat /\ tile[w] <= NumTiles + 2
      /\ (wpc[w] \notin {"order", "exit"} => IsValid(tile[w]))
  BY GroupOrder, KernelType DEF OrderInv
<1> QED BY <1>1 DEF IsValid

(* A group's cursors stay right when that group does not move. *)
LEMMA ConsumerFrame ==
  ASSUME NEW u \in WarpGroups, ConsumerCursor(u), kernel' = kernel,
         wpc'[u] = wpc[u], tile'[u] = tile[u], mstate'[u] = mstate[u], read'[u] = read[u]
  PROVE  ConsumerCursor(u)'
  BY DEF ConsumerCursor, Start, IsValid, NumTiles

(* Through the epilogue only the skip of the other group's tile matters. *)
LEMMA ConsumerInEpilogue ==
  ASSUME NEW w \in WarpGroups, ConsumerCursor(w), kernel' = kernel,
         tile'[w] = tile[w], mstate'[w] = mstate[w], read'[w] = read[w],
         \/ /\ wpc[w] \in {"turn", "source", "read", "write", "acquire"}
            /\ wpc'[w] \in {"source", "read", "write", "acquire", "stored"}
         \/ wpc[w] = "drain" /\ wpc'[w] = "hand"
         \/ wpc'[w] = "exit"
  PROVE  ConsumerCursor(w)'
  BY DEF ConsumerCursor, Start, IsValid, NumTiles, MmaSection

(* The load warp's cursors stay right when it does not move. *)
LEMMA ProducerFrame ==
  ASSUME ProducerCursor, kernel' = kernel, UNCHANGED <<ppc, ptile, pstate, pwrite>>
  PROVE  ProducerCursor'
  BY DEF ProducerCursor, Start, IsValid, NumTiles

(* All cursors start at the first k tile of their work tile. *)
LEMMA CursorInit == Init => CursorInv
<1> SUFFICES ASSUME Init PROVE CursorInv
  OBVIOUS
<1>1. kernel \in Kernels /\ NumTiles \in Nat /\ kernel.Array \in BOOLEAN
  BY KernelType DEF Init
<1>2. ProducerCursor
  <2>1. ptile = 1 /\ pstate = K!StateAt(1, 0) /\ pwrite = K!StateAt(1, 0)
    BY KCursor DEF Init
  <2>2. ppc \in {"fetch", "exit"} /\ (ppc = "exit" => ~IsValid(1))
    BY DEF Init, LeavesAtOnce
  <2>3. Start(1) = 0
    BY <1>1, Tiles
  <2>4. ptile \in 1 .. NumTiles + 1 /\ (ppc = "exit" => ptile = NumTiles + 1)
    BY <1>1, <2>1, <2>2 DEF IsValid
  <2>5. pstate.count = 0 /\ pwrite.count = 0
    BY <2>1, KFields
  <2> QED BY <2>1, <2>2, <2>3, <2>4, <2>5, Parameters DEF ProducerCursor
<1>3. ASSUME NEW w \in WarpGroups PROVE ConsumerCursor(w) /\ mstate[w] \in K!Cursor /\ read[w] \in K!Cursor
  <2>1. read[w] = K!StateAt(0, 0) /\ tile[w] = w + 1 /\ wpc[w] \in {"order", "exit"}
    BY KCursor DEF Init
  <2>2. PICK m \in Nat : mstate[w] = K!StateAt(0, m) /\ (IsValid(tile[w]) => m = Start(tile[w]))
    <3>1. CASE w = 0 \/ NumTiles = 0
      <4>1. mstate[w] = K!StateAt(0, 0)
        BY <3>1, KCursor DEF Init
      <4>2. IsValid(tile[w]) => w = 0
        BY <2>1, <3>1, Groups DEF IsValid
      <4> QED BY <4>1, <4>2, <1>1, <2>1, Tiles
    <3>2. CASE w = 1 /\ NumTiles # 0
      <4>1. 1 \in 1 .. NumTiles /\ Start(1) = 0 /\ Start(1 + 1) \in Nat /\ KTileCount(1) = Start(1 + 1) - Start(1)
        BY <1>1, <3>2, Tiles
      <4>2. KTileCount(1) \in Nat /\ 0 + KTileCount(1) = Start(2) /\ 0 \in Nat
        BY <4>1
      <4>3. mstate[w] = K!Advance(K!StateAt(0, 0), KTileCount(1))
        BY <3>2, KCursor DEF Init, Skip
      <4>4. mstate[w] = K!StateAt(0, 0 + KTileCount(1))
        BY <4>2, <4>3, KCursor
      <4> QED BY <4>2, <4>4, <2>1, <3>2
    <3> QED BY <3>1, <3>2, Groups
  <2>3. mstate[w].count = m /\ read[w].count = 0
    BY <2>1, <2>2, KFields
  <2>4. mstate[w] \in K!Cursor /\ read[w] \in K!Cursor
    BY <2>1, <2>2, KCursor
  <2> QED BY <2>1, <2>2, <2>3, <2>4 DEF ConsumerCursor, MmaSection
<1>4. DOMAIN mstate = WarpGroups /\ DOMAIN read = WarpGroups
      /\ mstate = [w \in WarpGroups |-> mstate[w]] /\ read = [w \in WarpGroups |-> read[w]]
  BY DEF Init
<1> QED BY <1>2, <1>3, <1>4 DEF CursorInv

(* The cursors of a group, with their types. *)
LEMMA ConsumerFields ==
  ASSUME CursorInv, NEW w \in WarpGroups
  PROVE  /\ ConsumerCursor(w)
         /\ mstate[w] = K!StateAt(0, mstate[w].count) /\ mstate[w].count \in Nat
         /\ read[w] = K!StateAt(0, read[w].count) /\ read[w].count \in Nat
         /\ DOMAIN mstate = WarpGroups /\ DOMAIN read = WarpGroups
<1>1. ConsumerCursor(w) /\ DOMAIN mstate = WarpGroups /\ DOMAIN read = WarpGroups
  BY DEF CursorInv
<1> QED BY <1>1 DEF ConsumerCursor

(* The steps of a group that move its own cursors. *)
LEMMA ConsumerStep ==
  ASSUME OrderInv, CursorInv, NEW w \in WarpGroups, MathWarpGroup(w), kernel' = kernel
  PROVE  ConsumerCursor(w)'
<1> DEFINE t == tile[w]
           m == mstate[w].count
           r == read[w].count
<1>1. ConsumerCursor(w) /\ mstate[w] = K!StateAt(0, m) /\ m \in Nat
      /\ read[w] = K!StateAt(0, r) /\ r \in Nat /\ DOMAIN mstate = WarpGroups /\ DOMAIN read = WarpGroups
  BY ConsumerFields
<1>2. wpc \in [WarpGroups -> PCs] /\ tile \in [WarpGroups -> Nat] /\ kernel \in Kernels
  BY DEF OrderInv, PCs
<1>3. wpc[w] \notin {"order", "exit"} =>
        /\ t \in 1 .. NumTiles /\ Start(t) \in Nat /\ Start(t + 1) \in Nat /\ Start(t) < Start(t + 1)
        /\ KTileCount(t) = Start(t + 1) - Start(t)
  BY <1>2, GroupTiles, Tiles
<1>4. /\ \A s : Start(s)' = Start(s) /\ IsValid(s)' = IsValid(s)
      /\ NumTiles \in Nat /\ kernel.Array \in BOOLEAN
  BY <1>2, KernelType DEF Start, IsValid, NumTiles
<1>5. ASSUME tile'[w] = t, mstate'[w] = mstate[w], NEW n \in Nat, read'[w] = K!StateAt(0, n),
             \/ wpc[w] = "order" /\ IsValid(t) /\ wpc'[w] = "wait" /\ n = m
             \/ wpc[w] = "wait" /\ wpc'[w] = "mma" /\ n = r
             \/ wpc[w] = "mma" /\ wpc'[w] = "release" /\ n = r + 1
             \/ wpc[w] = "release" /\ wpc'[w] = "wait" /\ n = r /\ r - m < KTileCount(t)
             \/ wpc[w] = "release" /\ wpc'[w] = "pass" /\ n = r /\ ~(r - m < KTileCount(t))
             \/ wpc[w] = "pass" /\ wpc'[w] = "tail" /\ n = r
      PROVE  ConsumerCursor(w)'
  <2>1. IsValid(t) => t \in 1 .. NumTiles /\ Start(t) \in Nat /\ Start(t + 1) \in Nat /\ Start(t) < Start(t + 1)
    BY <1>2, <1>4, GroupTiles, Tiles DEF IsValid
  <2>2. read'[w].count = n
    BY <1>5, KFields
  <2>3. (wpc[w] = "order" /\ IsValid(t) => m = Start(t))
        /\ (wpc[w] \in MmaSection => m = Start(t))
    BY <1>1 DEF ConsumerCursor
  <2>4. wpc'[w] \in MmaSection \cup {"tail"} /\ m = Start(t)
    BY <1>5, <2>3 DEF MmaSection
  <2>5. /\ wpc'[w] \in {"wait", "mma"} => Start(t) <= n /\ n < Start(t + 1)
        /\ wpc'[w] = "release" => Start(t) < n /\ n <= Start(t + 1)
        /\ wpc'[w] \in {"pass", "tail"} => n = Start(t + 1)
    <3>1. /\ wpc[w] \in {"wait", "mma"} => Start(t) <= r /\ r < Start(t + 1)
          /\ wpc[w] = "release" => Start(t) < r /\ r <= Start(t + 1)
          /\ wpc[w] = "pass" => r = Start(t + 1)
      BY <1>1 DEF ConsumerCursor
    <3> HIDE DEF t, m, r
    <3>2. CASE wpc[w] = "order"
      BY <1>5, <2>1, <2>4, <3>2
    <3>3. CASE wpc[w] # "order"
      BY <1>1, <1>3, <1>5, <2>4, <3>1, <3>3
    <3> QED BY <3>2, <3>3
  <2> QED BY <1>1, <1>4, <1>5, <2>2, <2>4, <2>5 DEF ConsumerCursor, MmaSection
<1>6. ASSUME NEW k, NEW n \in Nat, tile'[w] = t, mstate'[w] = K!StateAt(0, n), read'[w] = read[w],
             \/ wpc[w] = "tail" /\ wpc'[w] = "turn"
                /\ (IF kernel.Array THEN n = Start(t + 1) ELSE IsValid(t + 2) => n = Start(t + 2))
             \/ wpc[w] = "stored" /\ wpc'[w] = "drain" /\ (IsValid(t + 2) => n = Start(t + 2))
      PROVE  ConsumerCursor(w)'
  <2>1. mstate'[w].count = n
    BY <1>6, KFields
  <2> QED BY <1>1, <1>4, <1>6, <2>1 DEF ConsumerCursor, MmaSection
<1>7. CASE MmaBegin(w)
  <2>1. /\ wpc[w] = "order" /\ IsValid(t) /\ wpc'[w] = "wait" /\ read'[w] = mstate[w]
        /\ tile'[w] = t /\ mstate'[w] = mstate[w]
    BY <1>1, <1>2, <1>7 DEF MmaBegin, Goto
  <2> QED BY <2>1, <1>1, <1>5
<1>8. CASE WaitTile(w)
  <2>1. wpc[w] = "wait" /\ wpc'[w] = "mma" /\ read' = read /\ tile' = tile /\ mstate' = mstate
    BY <1>2, <1>8 DEF WaitTile, Goto
  <2> QED BY <2>1, <1>1, <1>5
<1>9. CASE Multiply(w)
  <2>1. /\ wpc[w] = "mma" /\ wpc'[w] = "release" /\ read'[w] = K!Inc(read[w])
        /\ tile'[w] = t /\ mstate'[w] = mstate[w]
    BY <1>1, <1>2, <1>9 DEF Multiply, Goto
  <2>2. read'[w] = K!StateAt(0, r + 1) /\ r + 1 \in Nat
    <3>1. K!Inc(read[w]) = K!StateAt(0, r + 1)
      BY <1>1, KMoves
    <3> QED BY <3>1, <2>1, <1>1
  <2> QED BY <2>1, <2>2, <1>5
<1>10. CASE Release(w)
  <2>1. /\ wpc[w] = "release" /\ tile'[w] = t /\ mstate'[w] = mstate[w] /\ read'[w] = read[w]
        /\ wpc'[w] = IF Multiplied(w) < KTileCount(tile[w]) THEN "wait" ELSE "pass"
    BY <1>1, <1>2, <1>10 DEF Release, Goto
  <2>2. Multiplied(w) = r - m
    BY DEF Multiplied
  <2> QED BY <2>1, <2>2, <1>1, <1>5
<1>11. CASE MmaPass(w)
  <2>1. wpc[w] = "pass" /\ wpc'[w] = "tail" /\ read' = read /\ tile' = tile /\ mstate' = mstate
    BY <1>2, <1>11 DEF MmaPass, Goto
  <2> QED BY <2>1, <1>1, <1>5
<1>12. CASE MmaTail(w)
  <2> DEFINE d == IF kernel.Array THEN KTileCount(t) ELSE KTileCount(t) * NumMmaWarpGroups
  <2>1. /\ wpc[w] = "tail" /\ wpc'[w] = "turn" /\ read'[w] = read[w] /\ tile'[w] = t
        /\ mstate'[w] = K!Advance(mstate[w], d)
    BY <1>1, <1>2, <1>12 DEF MmaTail, Goto, Skip
  <2>2. m = Start(t)
    BY <1>1, <2>1 DEF ConsumerCursor
  <2>3. KTileCount(t) \in Nat /\ KTileCount(t) = Start(t + 1) - Start(t) /\ Start(t) \in Nat
        /\ Start(t + 1) \in Nat /\ t \in 1 .. NumTiles
    BY <2>1, <1>3
  <2>4. d \in Nat
    BY <2>3 DEF NumMmaWarpGroups
  <2>5. mstate'[w] = K!StateAt(0, m + d) /\ m + d \in Nat
    <3> HIDE DEF d
    <3>1. K!Advance(mstate[w], d) = K!StateAt(0, m + d)
      BY <2>4, <1>1, KMoves
    <3> QED BY <3>1, <2>1, <2>4, <1>1
  <2>6. kernel.Array => m + d = Start(t + 1)
    BY <2>2, <2>3
  <2>7. ~kernel.Array /\ IsValid(t + 2) => m + d = Start(t + 2)
    <3> SUFFICES ASSUME ~kernel.Array, IsValid(t + 2) PROVE m + d = Start(t + 2)
      OBVIOUS
    <3>1. t - 1 \in Nat /\ t \in Nat /\ t + 1 \in 1 .. NumTiles /\ (t # 1 => t - 1 \in 1 .. NumTiles)
      BY <2>3, <1>4 DEF IsValid
    <3>2. Start(t + 1) = t * Start(2) /\ Start(t + 1 + 1) = (t + 1) * Start(2)
      BY <3>1, <2>3, <1>2, Tiles
    <3>3. t # 1 => Start(t - 1 + 1) = (t - 1) * Start(2)
      BY <3>1, <1>2, Tiles
    <3>4. t - 1 + 1 = t /\ t + 1 + 1 = t + 2
      BY <3>1
    <3>5. 2 \in 1 .. NumTiles + 1 /\ Start(2) \in Nat /\ Start(1) = 0
      BY <3>1, <1>2, <1>4, Tiles
    <3>6. Start(t) = (t - 1) * Start(2)
      BY <3>1, <3>3, <3>4, <3>5
    <3>7. d = (Start(t + 1) - Start(t)) * 2
      BY <2>3 DEF NumMmaWarpGroups
    <3>8. \A a, b \in Nat : (a - 1) * b + (a * b - (a - 1) * b) * 2 = (a + 1) * b
      OBVIOUS
    <3> QED BY <2>2, <3>1, <3>2, <3>4, <3>5, <3>6, <3>7, <3>8
  <2> HIDE DEF d
  <2> QED BY <2>1, <2>5, <2>6, <2>7, <1>6
<1>13. CASE EpilogueTurn(w) \/ WaitSource(w) \/ WriteAndStore(w) \/ StoreTail(w) \/ Leave(w)
  <2>1. tile' = tile /\ mstate' = mstate /\ read' = read
    BY <1>13 DEF EpilogueTurn, WaitSource, WriteAndStore, StoreTail, StoreTailDone, Leave
  <2>2. \/ /\ wpc[w] \in {"turn", "source", "read", "write", "acquire"}
           /\ wpc'[w] \in {"source", "read", "write", "acquire", "stored"}
        \/ wpc[w] = "drain" /\ wpc'[w] = "hand"
        \/ wpc'[w] = "exit"
    BY <1>2, <1>13 DEF EpilogueTurn, WaitSource, WriteAndStore, StoreTail, StoreTailDone, Leave, Goto
  <2>3. mstate'[w] = mstate[w] /\ read'[w] = read[w]
    BY <2>1
  <2> QED BY <2>1, <2>2, <2>3, <1>1, ConsumerInEpilogue
<1>14. CASE ReadSource(w) \/ AcquireStore(w)
  <2>1. tile' = tile /\ mstate' = mstate /\ read' = read
    BY <1>14 DEF ReadSource, AcquireStore
  <2>2. /\ wpc[w] \in {"turn", "source", "read", "write", "acquire"}
        /\ wpc'[w] \in {"source", "read", "write", "acquire", "stored"}
    BY <1>2, <1>14 DEF ReadSource, AcquireStore, Goto
  <2> QED BY <2>1, <2>2, <1>1, ConsumerInEpilogue
<1>15. CASE FetchNext(w)
  <2>1. wpc[w] = "stored" /\ wpc'[w] = "drain" /\ tile' = tile /\ read' = read
    BY <1>2, <1>15 DEF FetchNext, Goto
  <2>2. IF kernel.Array /\ IsValid(t + 1)
        THEN mstate' = [mstate EXCEPT ![w] = Skip(mstate[w], KTileCount(t + 1))]
        ELSE mstate' = mstate
    BY <1>15, Zenon DEF FetchNext
  <2>3. IF kernel.Array THEN m = Start(t + 1) ELSE IsValid(t + 2) => m = Start(t + 2)
    BY <1>1, <2>1 DEF ConsumerCursor
  <2>4. CASE kernel.Array /\ IsValid(t + 1)
    <3>1. t + 1 \in 1 .. NumTiles
      BY <2>1, <2>4, <1>3, <1>4 DEF IsValid
    <3>2. /\ KTileCount(t + 1) = Start(t + 1 + 1) - Start(t + 1) /\ Start(t + 1) \in Nat
          /\ Start(t + 1 + 1) \in Nat /\ Start(t + 1) < Start(t + 1 + 1)
      BY <3>1, <1>2, Tiles
    <3>3. t + 1 + 1 = t + 2
      BY <2>1, <1>3
    <3>4. KTileCount(t + 1) \in Nat /\ m + KTileCount(t + 1) = Start(t + 2)
      BY <2>3, <2>4, <3>2, <3>3
    <3>5. mstate'[w] = K!StateAt(0, m + KTileCount(t + 1)) /\ m + KTileCount(t + 1) \in Nat
      <4>1. mstate'[w] = K!Advance(mstate[w], KTileCount(t + 1))
        BY <2>2, <2>4, <1>1 DEF Skip
      <4>2. K!Advance(mstate[w], KTileCount(t + 1)) = K!StateAt(0, m + KTileCount(t + 1))
        BY <3>4, <1>1, KMoves
      <4> QED BY <4>1, <4>2, <3>4, <1>1
    <3> QED BY <2>1, <3>4, <3>5, <1>6
  <2>5. CASE ~(kernel.Array /\ IsValid(t + 1))
    <3>1. IsValid(t + 2) => IsValid(t + 1)
      BY <2>1, <1>3, <1>4 DEF IsValid
    <3>2. mstate'[w] = K!StateAt(0, m) /\ (IsValid(t + 2) => m = Start(t + 2))
      BY <2>2, <2>3, <2>5, <3>1, <1>1
    <3> QED BY <2>1, <3>2, <1>1, <1>6
  <2> QED BY <2>4, <2>5
<1>16. CASE EpiloguePass(w)
  <2>1. /\ wpc[w] = "hand" /\ wpc'[w] = "order" /\ tile'[w] = t + 2
        /\ mstate' = mstate /\ read' = read
    BY <1>2, <1>16 DEF EpiloguePass, Goto, NumMmaWarpGroups
  <2>2. IsValid(t + 2) => m = Start(t + 2)
    BY <1>1, <2>1 DEF ConsumerCursor
  <2>3. mstate'[w] = mstate[w] /\ read'[w] = read[w]
    BY <2>1
  <2> QED BY <1>1, <1>4, <2>1, <2>2, <2>3 DEF ConsumerCursor, MmaSection
<1> QED BY <1>7, <1>8, <1>9, <1>10, <1>11, <1>12, <1>13, <1>14, <1>15, <1>16 DEF MathWarpGroup

(* A step of a group changes no function at another group. *)
OnlyAt(f, g, w) == g = f \/ g = [f EXCEPT ![w] = g[w]]

(* A function changed in one place keeps its type. *)
LEMMA OnlyAtType ==
  ASSUME NEW S, NEW f \in [WarpGroups -> S], NEW w \in WarpGroups, NEW g, OnlyAt(f, g, w), g[w] \in S
  PROVE  g \in [WarpGroups -> S]
  BY DEF OnlyAt

(* EXCEPT changes a function in one place. *)
LEMMA OnlyAtExcept ==
  ASSUME NEW S, NEW f \in [WarpGroups -> S], NEW w \in WarpGroups, NEW v, NEW g, g = [f EXCEPT ![w] = v]
  PROVE  OnlyAt(f, g, w)
<1>1. g[w] = v
  OBVIOUS
<1> QED BY <1>1 DEF OnlyAt

(* A group moves no cursor of the other group. *)
LEMMA MathCursors ==
  ASSUME CursorInv, NEW w \in WarpGroups, MathWarpGroup(w)
  PROVE  OnlyAt(mstate, mstate', w) /\ OnlyAt(read, read', w)
<1> USE DEF math
<1>1. mstate \in [WarpGroups -> K!Cursor] /\ read \in [WarpGroups -> K!Cursor]
  BY DEF CursorInv
<1>2. /\ mstate' = mstate => OnlyAt(mstate, mstate', w)
      /\ read' = read => OnlyAt(read, read', w)
  BY DEF OnlyAt
<1>3. CASE MmaBegin(w) \/ Multiply(w)
  <2>1. mstate' = mstate /\ (read' = [read EXCEPT ![w] = mstate[w]] \/ read' = [read EXCEPT ![w] = K!Inc(read[w])])
    BY <1>3 DEF MmaBegin, Multiply
  <2> QED BY <2>1, <1>1, <1>2, OnlyAtExcept
<1>4. CASE MmaTail(w)
  <2>1. read' = read /\ \E d : mstate' = [mstate EXCEPT ![w] = Skip(mstate[w], d)]
    BY <1>4 DEF MmaTail
  <2> QED BY <2>1, <1>1, <1>2, OnlyAtExcept
<1>5. CASE FetchNext(w)
  <2>1. mstate' = mstate \/ mstate' = [mstate EXCEPT ![w] = Skip(mstate[w], KTileCount(tile[w] + 1))]
    BY <1>5, Zenon DEF FetchNext
  <2>2. read' = read
    BY <1>5 DEF FetchNext
  <2> QED BY <2>1, <2>2, <1>1, <1>2, OnlyAtExcept
<1>6. CASE WaitTile(w) \/ Release(w) \/ MmaPass(w) \/ EpilogueTurn(w) \/ WaitSource(w)
           \/ WriteAndStore(w) \/ StoreTail(w) \/ EpiloguePass(w) \/ Leave(w)
  <2>1. mstate' = mstate /\ read' = read
    BY <1>6 DEF WaitTile, Release, MmaPass, EpilogueTurn, WaitSource, WriteAndStore, StoreTail,
                StoreTailDone, EpiloguePass, Leave
  <2> QED BY <2>1, <1>2
<1>7. CASE ReadSource(w) \/ AcquireStore(w)
  <2>1. mstate' = mstate /\ read' = read
    BY <1>7 DEF ReadSource, AcquireStore
  <2> QED BY <2>1, <1>2
<1> QED BY <1>3, <1>4, <1>5, <1>6, <1>7 DEF MathWarpGroup

(* Each step of the load warp leaves its cursors where they belong. *)
LEMMA ProducerStep ==
  ASSUME OrderInv, CursorInv, LoadWarp, kernel' = kernel
  PROVE  ProducerCursor'
<1> DEFINE p == pstate.count
           a == pwrite.count
           t == ptile
<1>1. /\ ProducerCursor /\ t \in 1 .. NumTiles + 1
      /\ pstate = K!StateAt(1, p) /\ p \in Nat /\ pwrite = K!StateAt(1, a) /\ a \in Nat
      /\ NumTiles \in Nat /\ Stages \in Nat /\ Stages > 1 /\ kernel \in Kernels
  BY KernelType, Parameters DEF CursorInv, ProducerCursor, OrderInv
<1>2. (\A s : Start(s)' = Start(s) /\ IsValid(s)' = IsValid(s)) /\ NumTiles' = NumTiles
  BY DEF Start, IsValid, NumTiles
<1>3. /\ Start(t) \in Nat
      /\ IsValid(t) => /\ t \in 1 .. NumTiles /\ t + 1 \in 1 .. NumTiles + 1 /\ Start(t + 1) \in Nat
                       /\ Start(t) < Start(t + 1) /\ KTileCount(t) = Start(t + 1) - Start(t)
      /\ ~IsValid(t) => t = NumTiles + 1
  <2>1. (IsValid(t) => t \in 1 .. NumTiles) /\ (~IsValid(t) => t = NumTiles + 1)
    BY <1>1 DEF IsValid
  <2> QED BY <1>1, <2>1, Tiles
<1>4. CASE LoadBegin
  <2>1. /\ ppc = "fetch" /\ pwrite' = pstate /\ pstate' = pstate /\ ptile' = ptile
        /\ ppc' = IF IsValid(ptile) THEN "load" ELSE "tail"
    BY <1>4 DEF LoadBegin
  <2>2. p = Start(t)
    BY <1>1, <2>1 DEF ProducerCursor
  <2> QED BY <2>1, <2>2, <1>1, <1>2, <1>3 DEF ProducerCursor
<1>5. CASE Load
  <2>1. /\ ppc = "load" /\ pwrite' = K!Inc(pwrite) /\ pstate' = pstate /\ ptile' = ptile
        /\ ppc' = IF a + 1 = Start(t + 1) THEN "loaded" ELSE "load"
    BY <1>5 DEF Load, Start
  <2>2. IsValid(t) /\ p = Start(t) /\ p <= a /\ a < Start(t + 1)
    BY <1>1, <2>1 DEF ProducerCursor
  <2>3. pwrite' = K!StateAt(1, a + 1)
    BY <2>1, <1>1, KMoves
  <2>4. pwrite'.count = a + 1
    BY <2>3, KFields
  <2>5. ppc' \in {"load", "loaded"} /\ (ppc' = "load" => a + 1 < Start(t + 1))
        /\ (ppc' = "loaded" => a + 1 = Start(t + 1))
    BY <2>1, <2>2, <1>1, <1>3
  <2> QED BY <2>1, <2>2, <2>3, <2>4, <2>5, <1>1, <1>2, <1>3 DEF ProducerCursor
<1>6. CASE Loaded
  <2>1. /\ ppc = "loaded" /\ pwrite' = pwrite /\ pstate' = K!Advance(pstate, KTileCount(t) - 1)
        /\ ptile' = t + 1 /\ ppc' \in {"remap", "advance"}
        /\ ppc' = "remap" => IsValid(t + 1)
    BY <1>6 DEF Loaded
  <2>2. IsValid(t) /\ p = Start(t) /\ a = Start(t + 1)
    BY <1>1, <2>1 DEF ProducerCursor
  <2>3. KTileCount(t) - 1 \in Nat /\ p + (KTileCount(t) - 1) = a - 1 /\ a > 0 /\ a - 1 \in Nat
    BY <2>2, <1>1, <1>3
  <2>4. pstate' = K!StateAt(1, a - 1)
    <3>1. K!Advance(pstate, KTileCount(t) - 1) = K!StateAt(1, p + (KTileCount(t) - 1))
      BY <2>3, <1>1, KMoves
    <3> QED BY <2>1, <2>3, <3>1
  <2>5. pstate'.count = a - 1
    BY <2>4, KFields
  <2> QED BY <2>1, <2>2, <2>3, <2>4, <2>5, <1>1, <1>2, <1>3 DEF ProducerCursor
<1>7. CASE RewriteMapAB
  <2>1. ppc = "remap" /\ pwrite' = pwrite /\ pstate' = pstate /\ ptile' = ptile /\ ppc' = "advance"
    BY <1>7 DEF RewriteMapAB
  <2> QED BY <2>1, <1>1, <1>2 DEF ProducerCursor
<1>8. CASE LoadAdvance
  <2>1. ppc = "advance" /\ pwrite' = pwrite /\ pstate' = K!Advance(pstate, 1) /\ ptile' = ptile
        /\ ppc' = "fetch"
    BY <1>8 DEF LoadAdvance
  <2>2. a = Start(t) /\ p = a - 1 /\ a > 0
    BY <1>1, <2>1 DEF ProducerCursor
  <2>3. p + 1 = a
    BY <2>2, <1>1
  <2>4. pstate' = K!StateAt(1, a)
    BY <2>1, <2>3, <1>1, KMoves
  <2>5. pstate'.count = a
    BY <2>4, KFields
  <2> QED BY <2>1, <2>2, <2>4, <2>5, <1>1, <1>2 DEF ProducerCursor
<1>9. CASE LoadTail
  <2>1. ppc = "tail" /\ t = NumTiles + 1 /\ p = Start(t) /\ p <= a /\ a <= p + Stages
    BY <1>1, <1>9 DEF LoadTail, ProducerCursor
  <2>2. CASE a < p + Stages
    <3>1. pwrite' = K!Inc(pwrite) /\ pstate' = pstate /\ ptile' = ptile /\ ppc' = "tail"
      BY <1>9, <2>1, <2>2 DEF LoadTail
    <3>2. pwrite' = K!StateAt(1, a + 1)
      BY <3>1, <1>1, KMoves
    <3>3. pwrite'.count = a + 1
      BY <3>2, KFields
    <3>4. p <= a + 1 /\ a + 1 <= p + Stages /\ a + 1 \in Nat
      BY <2>1, <2>2, <1>1
    <3> QED BY <2>1, <3>1, <3>2, <3>3, <3>4, <1>1, <1>2 DEF ProducerCursor
  <2>3. CASE ~(a < p + Stages)
    <3>1. UNCHANGED <<pwrite, pstate, ptile>> /\ ppc' = "exit"
      BY <1>9, <2>3 DEF LoadTail
    <3> QED BY <2>1, <3>1, <1>1, <1>2 DEF ProducerCursor
  <2> QED BY <2>2, <2>3
<1> QED BY <1>4, <1>5, <1>6, <1>7, <1>8, <1>9 DEF LoadWarp

(* The cursors of the mainloop stand where the invariant says. *)
LEMMA CursorStep ==
  ASSUME OrderInv, CursorInv, [Next]_vars
  PROVE  CursorInv'
<1>1. kernel' = kernel
  BY NextKeeps
<1>2. CASE LoadWarp
  <2>1. ProducerCursor'
    BY <1>1, <1>2, ProducerStep
  <2>2. UNCHANGED <<wpc, tile, mstate, read>>
    BY <1>2, OthersKeepMath
  <2>3. \A u \in WarpGroups : ConsumerCursor(u)'
    BY <1>1, <2>2, ConsumerFrame DEF CursorInv
  <2> QED BY <2>1, <2>2, <2>3 DEF CursorInv
<1>3. CASE EpilogueLoadWarp \/ Land \/ LandSource \/ (\E x \in storing : StoreReads(x))
           \/ UNCHANGED vars
  <2>1. UNCHANGED <<ppc, ptile, pstate, pwrite>>
    BY <1>3 DEF EpilogueLoadWarp, EpilogueBegin, LoadSource, RewriteMapC, EpilogueLoadTail, Land,
                LandSource, StoreReads, vars, loader
  <2>2. UNCHANGED <<wpc, tile, mstate, read>>
    BY <1>3, OthersKeepMath
  <2>3. \A u \in WarpGroups : ConsumerCursor(u)'
    BY <1>1, <2>2, ConsumerFrame DEF CursorInv
  <2>4. ProducerCursor'
    BY <1>1, <2>1, ProducerFrame DEF CursorInv
  <2> QED BY <2>2, <2>3, <2>4 DEF CursorInv
<1>4. ASSUME NEW w \in WarpGroups, MathWarpGroup(w) PROVE CursorInv'
  <2>1. ConsumerCursor(w)'
    BY <1>1, <1>4, ConsumerStep
  <2>2. ASSUME NEW u \in WarpGroups, u # w PROVE ConsumerCursor(u)'
    <3>1. wpc'[u] = wpc[u] /\ tile'[u] = tile[u] /\ mstate'[u] = mstate[u] /\ read'[u] = read[u]
      BY <1>4, <2>2, MathKeepsOthers
    <3>2. ConsumerCursor(u)
      BY DEF CursorInv
    <3> QED BY <1>1, <3>1, <3>2, ConsumerFrame
  <2>3. ProducerCursor'
    <3>1. UNCHANGED <<ppc, ptile, pstate, pwrite>>
      BY <1>4, MathKeepsOthers
    <3> QED BY <1>1, <3>1, ProducerFrame DEF CursorInv
  <2>4. mstate' \in [WarpGroups -> K!Cursor] /\ read' \in [WarpGroups -> K!Cursor]
    <3>1. OnlyAt(mstate, mstate', w) /\ OnlyAt(read, read', w)
      BY <1>4, MathCursors
    <3>2. mstate'[w] \in K!Cursor /\ read'[w] \in K!Cursor
      BY <2>1, KCursor DEF ConsumerCursor
    <3> QED BY <3>1, <3>2, OnlyAtType DEF CursorInv
  <2> QED BY <2>1, <2>2, <2>3, <2>4 DEF CursorInv
<1> QED BY <1>2, <1>3, <1>4 DEF Next, Terminated

-----------------------------------------------------------------------------
(* 4. The slots of the pipelines, and the parity tests on them.            *)

(* The slots of the mainloop pipeline *)
LEMMA KSlots ==
  /\ \A n \in Nat : /\ n % Stages \in K!Index /\ n \div Stages \in Nat
                     /\ K!Visits(n, n % Stages) = n \div Stages
                     /\ (n + Stages) % Stages = n % Stages
  /\ \A i \in K!Index :
       /\ K!Visits(0, i) = 0
       /\ \A n \in Nat :
            /\ K!Visits(n, i) \in Nat
            /\ K!Visits(n + 1, i) = IF i = n % Stages THEN K!Visits(n, i) + 1 ELSE K!Visits(n, i)
       /\ \A m, n \in Nat : m <= n => K!Visits(m, i) <= K!Visits(n, i)
  /\ \A m, n \in Nat : m < n /\ n < m + Stages => m % Stages # n % Stages
<1>1. K!Index = KL!Index /\ \A n, i : K!Visits(n, i) = KL!Visits(n, i)
  BY DEF K!Index, KL!Index, K!Visits, KL!Visits
<1>2. ASSUME NEW n \in Nat
      PROVE  /\ n % Stages \in KL!Index /\ n \div Stages \in Nat
             /\ KL!Visits(n, n % Stages) = n \div Stages /\ (n + Stages) % Stages = n % Stages
  BY Parameters, KL!DivMod, KL!VisitsAtCursor, KL!RoundDivMod
<1>3. ASSUME NEW i \in KL!Index PROVE KL!Visits(0, i) = 0
  BY Parameters, KL!VisitsZero
<1>4. ASSUME NEW i \in KL!Index, NEW n \in Nat
      PROVE  /\ KL!Visits(n, i) \in Nat
             /\ KL!Visits(n + 1, i) = IF i = n % Stages THEN KL!Visits(n, i) + 1 ELSE KL!Visits(n, i)
  BY Parameters, KL!VisitsType, KL!VisitsStep
<1>5. ASSUME NEW i \in KL!Index, NEW m \in Nat, NEW n \in Nat, m <= n
      PROVE  KL!Visits(m, i) <= KL!Visits(n, i)
  BY <1>5, Parameters, KL!VisitsMonotone
<1>6. ASSUME NEW m \in Nat, NEW n \in Nat, m < n, n < m + Stages
      PROVE  m % Stages # n % Stages
  BY <1>6, Parameters, KL!DistinctSlots
<1> QED BY <1>1, <1>2, <1>3, <1>4, <1>5, <1>6

(* What the visits of a slot tell of two places in the mainloop pipeline   *)
(* that are at most a round apart: whether the acquire, the wait or the    *)
(* tail at n goes by a round that is over.                                 *)
LEMMA KTurns ==
  ASSUME NEW m \in Nat, NEW n \in Nat
  PROVE  /\ m <= n /\ n <= m + Stages =>
              /\ K!Visits(m, n % Stages) \in Nat /\ n \div Stages \in Nat
              /\ \/ K!Visits(m, n % Stages) = n \div Stages
                 \/ K!Visits(m, n % Stages) + 1 = n \div Stages
              /\ K!Visits(m, n % Stages) = n \div Stages <=> n < m + Stages
         /\ n <= m /\ m <= n + Stages =>
              /\ K!Visits(m, n % Stages) \in Nat /\ n \div Stages \in Nat
              /\ \/ K!Visits(m, n % Stages) = n \div Stages
                 \/ K!Visits(m, n % Stages) = (n \div Stages) + 1
              /\ m > n => K!Visits(m, n % Stages) = (n \div Stages) + 1
              /\ K!Visits(m, n % Stages) = (n \div Stages) + 1 => m > n
         /\ m <= n /\ n <= m + Stages /\ n > 0 =>
              /\ K!Visits(m, (n - 1) % Stages) \in Nat /\ (n - 1) \div Stages \in Nat
              /\ \/ K!Visits(m, (n - 1) % Stages) = (n - 1) \div Stages
                 \/ K!Visits(m, (n - 1) % Stages) = ((n - 1) \div Stages) + 1
              /\ K!Visits(m, (n - 1) % Stages) = ((n - 1) \div Stages) + 1 => m = n
<1>1. \A k, i : K!Visits(k, i) = KL!Visits(k, i)
  BY DEF K!Visits, KL!Visits
<1>2. ASSUME m <= n, n <= m + Stages
      PROVE  /\ KL!Visits(m, n % Stages) \in Nat /\ n \div Stages \in Nat
             /\ \/ KL!Visits(m, n % Stages) = n \div Stages
                \/ KL!Visits(m, n % Stages) + 1 = n \div Stages
             /\ KL!Visits(m, n % Stages) = n \div Stages <=> n < m + Stages
  BY <1>2, Parameters, KL!AcquireTurn
<1>3. ASSUME n <= m, m <= n + Stages
      PROVE  /\ KL!Visits(m, n % Stages) \in Nat /\ n \div Stages \in Nat
             /\ \/ KL!Visits(m, n % Stages) = n \div Stages
                \/ KL!Visits(m, n % Stages) = (n \div Stages) + 1
             /\ m > n => KL!Visits(m, n % Stages) = (n \div Stages) + 1
             /\ KL!Visits(m, n % Stages) = (n \div Stages) + 1 => m > n
  BY <1>3, Parameters, KL!WaitTurn
<1>4. ASSUME m <= n, n <= m + Stages, n > 0
      PROVE  /\ KL!Visits(m, (n - 1) % Stages) \in Nat /\ (n - 1) \div Stages \in Nat
             /\ \/ KL!Visits(m, (n - 1) % Stages) = (n - 1) \div Stages
                \/ KL!Visits(m, (n - 1) % Stages) = ((n - 1) \div Stages) + 1
             /\ KL!Visits(m, (n - 1) % Stages) = ((n - 1) \div Stages) + 1 => m = n
  BY <1>4, Parameters, KL!DrainTurn
<1> QED BY <1>1, <1>2, <1>3, <1>4

(* The slots of the epilogue load pipeline *)
LEMMA CSlots ==
  /\ \A n \in Nat : /\ n % StagesC \in C!Index /\ n \div StagesC \in Nat
                     /\ C!Visits(n, n % StagesC) = n \div StagesC
                     /\ (n + StagesC) % StagesC = n % StagesC
  /\ \A i \in C!Index :
       /\ C!Visits(0, i) = 0
       /\ \A n \in Nat :
            /\ C!Visits(n, i) \in Nat
            /\ C!Visits(n + 1, i) = IF i = n % StagesC THEN C!Visits(n, i) + 1 ELSE C!Visits(n, i)
       /\ \A m, n \in Nat : m <= n => C!Visits(m, i) <= C!Visits(n, i)
  /\ \A m, n \in Nat : m < n /\ n < m + StagesC => m % StagesC # n % StagesC
<1>1. C!Index = CL!Index /\ \A n, i : C!Visits(n, i) = CL!Visits(n, i)
  BY DEF C!Index, CL!Index, C!Visits, CL!Visits
<1>2. ASSUME NEW n \in Nat
      PROVE  /\ n % StagesC \in CL!Index /\ n \div StagesC \in Nat
             /\ CL!Visits(n, n % StagesC) = n \div StagesC /\ (n + StagesC) % StagesC = n % StagesC
  BY Parameters, CL!DivMod, CL!VisitsAtCursor, CL!RoundDivMod
<1>3. ASSUME NEW i \in CL!Index PROVE CL!Visits(0, i) = 0
  BY Parameters, CL!VisitsZero
<1>4. ASSUME NEW i \in CL!Index, NEW n \in Nat
      PROVE  /\ CL!Visits(n, i) \in Nat
             /\ CL!Visits(n + 1, i) = IF i = n % StagesC THEN CL!Visits(n, i) + 1 ELSE CL!Visits(n, i)
  BY Parameters, CL!VisitsType, CL!VisitsStep
<1>5. ASSUME NEW i \in CL!Index, NEW m \in Nat, NEW n \in Nat, m <= n
      PROVE  CL!Visits(m, i) <= CL!Visits(n, i)
  BY <1>5, Parameters, CL!VisitsMonotone
<1>6. ASSUME NEW m \in Nat, NEW n \in Nat, m < n, n < m + StagesC
      PROVE  m % StagesC # n % StagesC
  BY <1>6, Parameters, CL!DistinctSlots
<1> QED BY <1>1, <1>2, <1>3, <1>4, <1>5, <1>6

(* The same for the epilogue load pipeline. *)
LEMMA CTurns ==
  ASSUME NEW m \in Nat, NEW n \in Nat
  PROVE  /\ m <= n /\ n <= m + StagesC =>
              /\ C!Visits(m, n % StagesC) \in Nat /\ n \div StagesC \in Nat
              /\ \/ C!Visits(m, n % StagesC) = n \div StagesC
                 \/ C!Visits(m, n % StagesC) + 1 = n \div StagesC
              /\ C!Visits(m, n % StagesC) = n \div StagesC <=> n < m + StagesC
         /\ n <= m /\ m <= n + StagesC =>
              /\ C!Visits(m, n % StagesC) \in Nat /\ n \div StagesC \in Nat
              /\ \/ C!Visits(m, n % StagesC) = n \div StagesC
                 \/ C!Visits(m, n % StagesC) = (n \div StagesC) + 1
              /\ m > n => C!Visits(m, n % StagesC) = (n \div StagesC) + 1
              /\ C!Visits(m, n % StagesC) = (n \div StagesC) + 1 => m > n
         /\ m <= n /\ n <= m + StagesC /\ n > 0 =>
              /\ C!Visits(m, (n - 1) % StagesC) \in Nat /\ (n - 1) \div StagesC \in Nat
              /\ \/ C!Visits(m, (n - 1) % StagesC) = (n - 1) \div StagesC
                 \/ C!Visits(m, (n - 1) % StagesC) = ((n - 1) \div StagesC) + 1
              /\ C!Visits(m, (n - 1) % StagesC) = ((n - 1) \div StagesC) + 1 => m = n
<1>1. \A k, i : C!Visits(k, i) = CL!Visits(k, i)
  BY DEF C!Visits, CL!Visits
<1>2. ASSUME m <= n, n <= m + StagesC
      PROVE  /\ CL!Visits(m, n % StagesC) \in Nat /\ n \div StagesC \in Nat
             /\ \/ CL!Visits(m, n % StagesC) = n \div StagesC
                \/ CL!Visits(m, n % StagesC) + 1 = n \div StagesC
             /\ CL!Visits(m, n % StagesC) = n \div StagesC <=> n < m + StagesC
  BY <1>2, Parameters, CL!AcquireTurn
<1>3. ASSUME n <= m, m <= n + StagesC
      PROVE  /\ CL!Visits(m, n % StagesC) \in Nat /\ n \div StagesC \in Nat
             /\ \/ CL!Visits(m, n % StagesC) = n \div StagesC
                \/ CL!Visits(m, n % StagesC) = (n \div StagesC) + 1
             /\ m > n => CL!Visits(m, n % StagesC) = (n \div StagesC) + 1
             /\ CL!Visits(m, n % StagesC) = (n \div StagesC) + 1 => m > n
  BY <1>3, Parameters, CL!WaitTurn
<1>4. ASSUME m <= n, n <= m + StagesC, n > 0
      PROVE  /\ CL!Visits(m, (n - 1) % StagesC) \in Nat /\ (n - 1) \div StagesC \in Nat
             /\ \/ CL!Visits(m, (n - 1) % StagesC) = (n - 1) \div StagesC
                \/ CL!Visits(m, (n - 1) % StagesC) = ((n - 1) \div StagesC) + 1
             /\ CL!Visits(m, (n - 1) % StagesC) = ((n - 1) \div StagesC) + 1 => m = n
  BY <1>4, Parameters, CL!DrainTurn
<1> QED BY <1>1, <1>2, <1>3, <1>4

(* A barrier for one arrival and one unit of bytes *)
Landed(n) == [count |-> 1, pending |-> 1, tx |-> 0, phase |-> n]
Flying(n) == [count |-> 1, pending |-> 0, tx |-> 1, phase |-> n]
Free(n) == [count |-> 1, pending |-> 1, phase |-> n]

(* The operations on the barriers of a slot, and the parity tests. *)
LEMMA BarrierSteps ==
  ASSUME NEW n \in Nat
  PROVE  /\ ArriveAndExpectTx(Landed(n), 1) = Flying(n)
         /\ CompleteTransaction(Flying(n), 1) = Landed(n + 1)
         /\ Arrive(Free(n)) = Free(n + 1)
         /\ \A p : PhaseDone(Landed(n), p) <=> n % 2 # p
         /\ \A p : PhaseDone(Flying(n), p) <=> n % 2 # p
         /\ \A p : PhaseDone(Free(n), p) <=> n % 2 # p
<1>1. ArriveAndExpectTx(Landed(n), 1) = Flying(n)
  <2>1. [Landed(n) EXCEPT !.pending = Landed(n).pending - 1, !.tx = Landed(n).tx + 1] = Flying(n)
    <3>1. Landed(n).pending - 1 = 0 /\ Landed(n).tx + 1 = 1
      BY DEF Landed
    <3>2. [[Landed(n) EXCEPT !.pending = 0] EXCEPT !.tx = 1] = Flying(n)
      <4>1. [Landed(n) EXCEPT !.pending = 0] = [count |-> 1, pending |-> 0, tx |-> 0, phase |-> n]
        BY DEF Landed
      <4>2. [[count |-> 1, pending |-> 0, tx |-> 0, phase |-> n] EXCEPT !.tx = 1] = Flying(n)
        BY DEF Flying
      <4> QED BY <4>1, <4>2
    <3> QED BY <3>1, <3>2
  <2>2. Settle(Flying(n)) = Flying(n)
    BY DEF Settle, Flying
  <2> QED BY <2>1, <2>2 DEF ArriveAndExpectTx
<1>2. CompleteTransaction(Flying(n), 1) = Landed(n + 1)
  <2>1. [Flying(n) EXCEPT !.tx = Flying(n).tx - 1] = [count |-> 1, pending |-> 0, tx |-> 0, phase |-> n]
    <3>1. Flying(n).tx - 1 = 0
      BY DEF Flying
    <3>2. [Flying(n) EXCEPT !.tx = 0] = [count |-> 1, pending |-> 0, tx |-> 0, phase |-> n]
      BY DEF Flying
    <3> QED BY <3>1, <3>2
  <2>2. Settle([count |-> 1, pending |-> 0, tx |-> 0, phase |-> n]) = Landed(n + 1)
    BY DEF Settle, Landed
  <2> QED BY <2>1, <2>2 DEF CompleteTransaction
<1>3. Arrive(Free(n)) = Free(n + 1)
  BY ArriveAlone DEF Free
<1> QED BY <1>1, <1>2, <1>3 DEF PhaseDone, Landed, Flying, Free

(* Two counts one apart have different parities. *)
LEMMA Parity ==
  ASSUME NEW v \in Nat, NEW q \in Nat
  PROVE  /\ v + 1 = q => ~(v % 2 # (1 + q) % 2)
         /\ v = q => ~(v % 2 # (0 + q) % 2)
         /\ v = q => v % 2 # (1 + q) % 2
         /\ v = q + 1 => v % 2 # (0 + q) % 2
  OBVIOUS


-----------------------------------------------------------------------------
(* 5. The mainloop pipeline.                                               *)

(* The k tiles that a group waited for, and those it holds. *)
LEMMA GroupWaited ==
  ASSUME OrderInv, CursorInv, NEW w \in WarpGroups
  PROVE  /\ WaitedBy(w) \in Nat /\ HeldFrom(w) \in Nat /\ HeldFrom(w) <= WaitedBy(w)
         /\ wpc[w] \in MmaSection \cup {"tail"} =>
              /\ Start(tile[w]) \in Nat /\ Start(tile[w] + 1) \in Nat
              /\ Start(tile[w]) <= HeldFrom(w) /\ WaitedBy(w) <= Start(tile[w] + 1)
         /\ wpc[w] \notin MmaSection \cup {"tail"} => HeldFrom(w) = WaitedBy(w)
<1> DEFINE t == tile[w]
           r == read[w].count
<1>1. wpc[w] \in PCs /\ ConsumerCursor(w) /\ r \in Nat /\ kernel \in Kernels
  BY GroupOrder, ConsumerFields DEF OrderInv
<1>2. wpc[w] \notin {"order", "exit"} =>
        Start(t) \in Nat /\ Start(t + 1) \in Nat /\ Start(t) < Start(t + 1)
  BY <1>1, GroupTiles, Tiles
<1>3. CASE wpc[w] \in {"order", "exit"}
  <2>1. t # 1 => Start(t - 1) \in Nat
    BY <1>1, GroupTiles, Tiles
  <2>2. WaitedBy(w) \in Nat
    BY <2>1, <1>3 DEF WaitedBy
  <2>3. HeldFrom(w) = WaitedBy(w)
    BY <1>3 DEF HeldFrom
  <2>4. wpc[w] \notin MmaSection \cup {"tail"}
    BY <1>3 DEF MmaSection
  <2> QED BY <2>2, <2>3, <2>4
<1>4. CASE wpc[w] \in {"wait", "mma"}
  <2>1. Start(t) <= r /\ r < Start(t + 1)
    BY <1>1, <1>4 DEF ConsumerCursor
  <2>2. WaitedBy(w) = IF wpc[w] = "mma" THEN r + 1 ELSE r
    BY <1>4 DEF WaitedBy
  <2>3. HeldFrom(w) = IF r = Start(t) THEN r ELSE r - 1
    BY <1>4 DEF HeldFrom
  <2> QED BY <2>1, <2>2, <2>3, <1>1, <1>2, <1>4 DEF MmaSection
<1>5. CASE wpc[w] = "release"
  <2>1. Start(t) < r /\ r <= Start(t + 1)
    BY <1>1, <1>5 DEF ConsumerCursor
  <2>2. WaitedBy(w) = r
    BY <1>5 DEF WaitedBy
  <2>3. HeldFrom(w) = IF r = Start(t) + 1 THEN r - 1 ELSE r - 2
    BY <1>5 DEF HeldFrom
  <2> QED BY <2>1, <2>2, <2>3, <1>1, <1>2, <1>5 DEF MmaSection
<1>6. CASE wpc[w] \in {"pass", "tail"}
  <2>1. r = Start(t + 1)
    BY <1>1, <1>6 DEF ConsumerCursor
  <2>2. WaitedBy(w) = r
    BY <1>6 DEF WaitedBy
  <2>3. HeldFrom(w) = r - 1
    BY <1>6 DEF HeldFrom
  <2> QED BY <2>1, <2>2, <2>3, <1>1, <1>2, <1>6 DEF MmaSection
<1>7. CASE wpc[w] \in {"turn"} \cup EpilogueSection
  <2>1. WaitedBy(w) = Start(t + 1) /\ HeldFrom(w) = WaitedBy(w)
    BY <1>7 DEF WaitedBy, HeldFrom, EpilogueSection
  <2>2. Start(t + 1) \in Nat /\ wpc[w] \notin MmaSection \cup {"tail"}
    BY <1>2, <1>7 DEF EpilogueSection, MmaSection
  <2> QED BY <2>1, <2>2
<1> QED BY <1>1, <1>3, <1>4, <1>5, <1>6, <1>7 DEF PCs, MmaSection

(* Held k tiles have been waited for, and some group has waited for all    *)
(* that were.                                                              *)
LEMMA WaitedFacts ==
  ASSUME OrderInv, CursorInv
  PROVE  /\ Waited \in Nat /\ WaitedBy(0) <= Waited /\ WaitedBy(1) <= Waited
         /\ Waited = WaitedBy(0) \/ Waited = WaitedBy(1)
         /\ \A n \in Nat : Held(n) => n < Waited
<1>1. WaitedBy(0) \in Nat /\ WaitedBy(1) \in Nat
  BY Groups, GroupWaited
<1>2. Waited = IF WaitedBy(0) < WaitedBy(1) THEN WaitedBy(1) ELSE WaitedBy(0)
  BY DEF Waited, Larger
<1>3. Waited \in Nat /\ WaitedBy(0) <= Waited /\ WaitedBy(1) <= Waited
      /\ (Waited = WaitedBy(0) \/ Waited = WaitedBy(1))
  BY <1>1, <1>2
<1>4. ASSUME NEW n \in Nat, Held(n) PROVE n < Waited
  <2>1. n < WaitedBy(0) \/ n < WaitedBy(1)
    BY <1>4 DEF Held, HeldBy
  <2> QED BY <2>1, <1>1, <1>3
<1> QED BY <1>3, <1>4

(* The group in its turn to multiply waits for the first k tile that none  *)
(* has waited for.                                                         *)
LEMMA WaitedByOwner ==
  ASSUME OrderInv, CursorInv, NEW w \in WarpGroups,
         wpc[w] \in MmaSection \/ (wpc[w] = "order" /\ MyTurn(w) /\ IsValid(tile[w]))
  PROVE  /\ WaitedBy(1 - w) = Start(tile[w])
         /\ Waited = IF wpc[w] = "order" THEN Start(tile[w]) ELSE WaitedBy(w)
<1> DEFINE v == 1 - w
           t == tile[w]
<1>0. v \in WarpGroups /\ t \in Nat \ {0} /\ tile[v] \in Nat \ {0} /\ wpc[v] \in PCs
      /\ kernel \in Kernels /\ NumTiles \in Nat
  BY Groups, GroupOrder, KernelType DEF OrderInv
<1>1. \/ Late(v) = 1 /\ t = tile[v] + 1
      \/ wpc[v] \in {"order", "exit"} /\ tile[v] = t + 1
  BY MmaOwner
<1>2. WaitedBy(v) = Start(t)
  <2>1. CASE Late(v) = 1 /\ t = tile[v] + 1
    <3>1. wpc[v] \in {"tail", "turn"} \cup EpilogueSection
      BY <2>1 DEF Late
    <3>2. CASE wpc[v] = "tail"
      <4>1. read[v].count = Start(tile[v] + 1)
        BY <1>0, <3>2, ConsumerFields DEF ConsumerCursor
      <4> QED BY <4>1, <2>1, <3>2 DEF WaitedBy
    <3>3. CASE wpc[v] # "tail"
      <4>1. WaitedBy(v) = Start(tile[v] + 1)
        BY <3>1, <3>3 DEF WaitedBy, EpilogueSection
      <4> QED BY <4>1, <2>1
    <3> QED BY <3>2, <3>3
  <2>2. CASE wpc[v] \in {"order", "exit"} /\ tile[v] = t + 1
    <3>1. tile[v] # 1 /\ tile[v] - 1 = t
      BY <1>0, <2>2
    <3> QED BY <2>2, <3>1 DEF WaitedBy
  <2> QED BY <1>1, <2>1, <2>2
<1>3. WaitedBy(0) \in Nat /\ WaitedBy(1) \in Nat /\ WaitedBy(w) \in Nat /\ WaitedBy(v) \in Nat
  BY <1>0, Groups, GroupWaited
<1>4. Waited = Larger(WaitedBy(w), WaitedBy(v))
  <2>1. CASE w = 0
    <3>1. v = 1
      BY <2>1
    <3> QED BY <2>1, <3>1 DEF Waited
  <2>2. CASE w = 1
    <3>1. v = 0
      BY <2>2
    <3> QED BY <2>2, <3>1, <1>3 DEF Waited, Larger
  <2> QED BY <2>1, <2>2, Groups
<1>5. CASE wpc[w] \in MmaSection
  <2>1. Start(t) \in Nat /\ Start(t) <= WaitedBy(w)
    <3>1. Start(t) \in Nat /\ Start(t) <= HeldFrom(w) /\ HeldFrom(w) <= WaitedBy(w) /\ HeldFrom(w) \in Nat
      BY <1>5, GroupWaited
    <3> QED BY <3>1, <1>3
  <2>2. Waited = WaitedBy(w)
    BY <2>1, <1>2, <1>3, <1>4 DEF Larger
  <2> QED BY <2>2, <1>2, <1>5 DEF MmaSection
<1>6. CASE wpc[w] = "order" /\ IsValid(t)
  <2>1. WaitedBy(w) = IF t = 1 THEN 0 ELSE Start(t - 1)
    BY <1>6 DEF WaitedBy
  <2>2. WaitedBy(w) <= Start(t)
    <3>1. t \in 1 .. NumTiles + 1 /\ (t # 1 => t - 1 \in 1 .. NumTiles + 1 /\ t - 1 < t)
      BY <1>0, <1>6 DEF IsValid
    <3>2. Start(t) \in Nat /\ (t # 1 => Start(t - 1) \in Nat /\ Start(t - 1) < Start(t))
      BY <1>0, <3>1, Tiles
    <3> QED BY <2>1, <3>2
  <2>3. Waited = Start(t)
    BY <2>2, <1>2, <1>3, <1>4 DEF Larger
  <2> QED BY <2>3, <1>2, <1>6
<1> QED BY <1>5, <1>6

(* No k tile is held by both groups: they are of different work tiles. *)
LEMMA HeldOnce ==
  ASSUME OrderInv, CursorInv, NEW n \in Nat, HeldBy(0, n)
  PROVE  ~HeldBy(1, n)
<1> SUFFICES ASSUME HeldBy(1, n) PROVE FALSE
  OBVIOUS
<1>1. ASSUME NEW w \in WarpGroups, HeldBy(w, n)
      PROVE  /\ tile[w] \in 1 .. NumTiles /\ NumTiles \in Nat
             /\ Start(tile[w]) <= n /\ n < Start(tile[w] + 1)
  <2>1. WaitedBy(w) \in Nat /\ HeldFrom(w) \in Nat /\ HeldFrom(w) <= n /\ n < WaitedBy(w)
    BY <1>1, GroupWaited DEF HeldBy
  <2>2. wpc[w] \in MmaSection \cup {"tail"}
    <3>1. HeldFrom(w) # WaitedBy(w)
      BY <2>1
    <3> QED BY <3>1, GroupWaited
  <2>3. /\ Start(tile[w]) \in Nat /\ Start(tile[w] + 1) \in Nat
        /\ Start(tile[w]) <= HeldFrom(w) /\ WaitedBy(w) <= Start(tile[w] + 1)
    BY <2>2, GroupWaited
  <2>4. tile[w] \in 1 .. NumTiles /\ NumTiles \in Nat
    BY <2>2, GroupTiles DEF MmaSection
  <2> QED BY <2>1, <2>3, <2>4
<1>2. /\ tile[0] \in 1 .. NumTiles /\ Start(tile[0]) <= n /\ n < Start(tile[0] + 1)
      /\ tile[1] \in 1 .. NumTiles /\ Start(tile[1]) <= n /\ n < Start(tile[1] + 1)
      /\ NumTiles \in Nat /\ kernel \in Kernels
  BY <1>1, Groups DEF OrderInv
<1>3. tile[0] < tile[1] \/ tile[1] < tile[0]
  BY <1>2, Turns
<1>4. ASSUME NEW s \in 1 .. NumTiles, NEW t \in 1 .. NumTiles, s < t
      PROVE  Start(s + 1) <= Start(t) /\ Start(s + 1) \in Nat /\ Start(t) \in Nat
  <2>1. s + 1 \in 1 .. NumTiles + 1 /\ t \in 1 .. NumTiles + 1 /\ (s + 1 = t \/ s + 1 < t)
    BY <1>2, <1>4
  <2> QED BY <1>2, <2>1, Tiles
<1>5. CASE tile[0] < tile[1]
  <2>1. Start(tile[0] + 1) <= Start(tile[1]) /\ Start(tile[0] + 1) \in Nat /\ Start(tile[1]) \in Nat
    BY <1>2, <1>4, <1>5
  <2> QED BY <1>2, <2>1
<1>6. CASE tile[1] < tile[0]
  <2>1. Start(tile[1] + 1) <= Start(tile[0]) /\ Start(tile[1] + 1) \in Nat /\ Start(tile[0]) \in Nat
    BY <1>2, <1>4, <1>6
  <2> QED BY <1>2, <2>1
<1> QED BY <1>3, <1>5, <1>6

(* The loads issued, which the tail no longer adds to. *)
LEMMA IssuedFacts ==
  ASSUME OrderInv, CursorInv
  PROVE  /\ LoadsIssued \in Nat /\ pwrite.count \in Nat /\ LoadsIssued <= pwrite.count
         /\ Start(NumTiles + 1) \in Nat
         /\ LoadsIssued = IF pwrite.count < Start(NumTiles + 1) THEN pwrite.count ELSE Start(NumTiles + 1)
         /\ ppc = "load" => pwrite.count < Start(NumTiles + 1)
         /\ ppc = "tail" => Start(NumTiles + 1) <= pwrite.count
<1>1. kernel \in Kernels /\ NumTiles \in Nat /\ pwrite.count \in Nat
  BY KernelType DEF OrderInv, CursorInv, ProducerCursor
<1>2. NumTiles + 1 \in 1 .. NumTiles + 1
  BY <1>1
<1>3. Start(NumTiles + 1) \in Nat
  BY <1>1, <1>2, Tiles
<1>4. LoadsIssued = IF pwrite.count < Start(NumTiles + 1) THEN pwrite.count ELSE Start(NumTiles + 1)
  BY DEF LoadsIssued, Min2, Start
<1>5. ppc = "load" => pwrite.count < Start(NumTiles + 1)
  <2> SUFFICES ASSUME ppc = "load" PROVE pwrite.count < Start(NumTiles + 1)
    OBVIOUS
  <2>1. IsValid(ptile) /\ ptile \in 1 .. NumTiles + 1 /\ pwrite.count < Start(ptile + 1)
    BY DEF CursorInv, ProducerCursor
  <2>2. ptile + 1 \in 1 .. NumTiles + 1 /\ (ptile + 1 = NumTiles + 1 \/ ptile + 1 < NumTiles + 1)
    BY <1>1, <2>1 DEF IsValid
  <2>3. Start(ptile + 1) \in Nat /\ Start(ptile + 1) <= Start(NumTiles + 1)
    BY <1>1, <1>2, <1>3, <2>2, Tiles
  <2> QED BY <1>1, <1>3, <2>1, <2>3
<1>6. ppc = "tail" => Start(NumTiles + 1) <= pwrite.count
  BY DEF CursorInv, ProducerCursor
<1> QED BY <1>1, <1>3, <1>4, <1>5, <1>6

(* What a group waited for and holds depends on its own state only. *)
LEMMA WaitedFrame ==
  ASSUME NEW u \in WarpGroups, kernel' = kernel,
         wpc'[u] = wpc[u], tile'[u] = tile[u], read'[u] = read[u]
  PROVE  WaitedBy(u)' = WaitedBy(u) /\ HeldFrom(u)' = HeldFrom(u)
<1>1. WaitedBy(u)' = WaitedBy(u)
  BY DEF WaitedBy, Start
<1> QED BY <1>1 DEF HeldFrom, Start

(* What a step of a group makes of the k tiles it waited for and holds. *)
LEMMA GroupMoves ==
  ASSUME OrderInv, CursorInv, NEW w \in WarpGroups, MathWarpGroup(w), kernel' = kernel
  PROVE  \/ /\ MmaBegin(w) /\ HeldFrom(w) = WaitedBy(w) /\ WaitedBy(w)' = Start(tile[w])
            /\ HeldFrom(w)' = WaitedBy(w)' /\ empty' = empty
         \/ /\ WaitTile(w) /\ WaitedBy(w)' = WaitedBy(w) + 1 /\ HeldFrom(w)' = HeldFrom(w)
            /\ empty' = empty
         \/ /\ WaitedBy(w)' = WaitedBy(w) /\ HeldFrom(w)' = HeldFrom(w) + 1
            /\ HeldFrom(w) < WaitedBy(w)
            /\ empty' = [empty EXCEPT ![HeldFrom(w) % Stages] = Arrive(@)]
         \/ WaitedBy(w)' = WaitedBy(w) /\ HeldFrom(w)' = HeldFrom(w) /\ empty' = empty
<1> DEFINE t == tile[w]
           m == mstate[w].count
           r == read[w].count
<1>1. ConsumerCursor(w) /\ mstate[w] = K!StateAt(0, m) /\ m \in Nat
      /\ read[w] = K!StateAt(0, r) /\ r \in Nat /\ DOMAIN read = WarpGroups
  BY ConsumerFields
<1>2. wpc \in [WarpGroups -> PCs] /\ tile \in [WarpGroups -> Nat] /\ kernel \in Kernels
  BY DEF OrderInv, PCs
<1>3. wpc[w] \notin {"order", "exit"} =>
        /\ t \in 1 .. NumTiles /\ Start(t) \in Nat /\ Start(t + 1) \in Nat /\ Start(t) < Start(t + 1)
        /\ KTileCount(t) = Start(t + 1) - Start(t)
  BY <1>2, GroupTiles, Tiles
<1>4. \A s : Start(s)' = Start(s)
  BY DEF Start
<1>5. (wpc[w] \in MmaSection \cup {"tail"} => m = Start(t))
      /\ (wpc[w] = "order" /\ IsValid(t) => m = Start(t))
  BY <1>1 DEF ConsumerCursor
<1>6. CASE MmaBegin(w)
  <2>1. /\ wpc[w] = "order" /\ IsValid(t) /\ wpc'[w] = "wait" /\ read'[w] = mstate[w]
        /\ tile'[w] = t /\ empty' = empty
    BY <1>1, <1>2, <1>6 DEF MmaBegin, Goto, mainloop
  <2>2. m = Start(t)
    BY <2>1, <1>5
  <2>3. WaitedBy(w)' = m
    BY <2>1 DEF WaitedBy
  <2>4. HeldFrom(w)' = m
    BY <2>1, <2>2, <1>4 DEF HeldFrom
  <2>5. HeldFrom(w) = WaitedBy(w)
    BY <2>1 DEF HeldFrom
  <2> QED BY <1>6, <2>1, <2>2, <2>3, <2>4, <2>5
<1>7. CASE WaitTile(w)
  <2>1. wpc[w] = "wait" /\ wpc'[w] = "mma" /\ read' = read /\ tile' = tile /\ empty' = empty
    BY <1>2, <1>7 DEF WaitTile, Goto, mainloop
  <2>2. WaitedBy(w)' = r + 1 /\ WaitedBy(w) = r
    BY <2>1 DEF WaitedBy
  <2>3. HeldFrom(w)' = HeldFrom(w)
    BY <2>1, <1>4 DEF HeldFrom
  <2> QED BY <1>7, <2>1, <2>2, <2>3
<1>8. CASE Multiply(w)
  <2>1. /\ wpc[w] = "mma" /\ wpc'[w] = "release" /\ read'[w] = K!Inc(read[w])
        /\ tile'[w] = t /\ empty' = empty
    BY <1>1, <1>2, <1>8 DEF Multiply, Goto, mainloop
  <2>2. K!Inc(read[w]) = K!StateAt(0, r + 1)
    BY <1>1, KMoves
  <2>3. read'[w].count = r + 1
    BY <2>1, <2>2, KFields
  <2>4. WaitedBy(w)' = r + 1 /\ WaitedBy(w) = r + 1
    BY <2>1, <2>3 DEF WaitedBy
  <2>5. HeldFrom(w) = IF r = Start(t) THEN r ELSE r - 1
    BY <2>1 DEF HeldFrom
  <2>6. HeldFrom(w)' = IF read'[w].count = Start(tile[w])' + 1 THEN read'[w].count - 1
                       ELSE read'[w].count - 2
    BY <2>1 DEF HeldFrom
  <2>7. Start(t) \in Nat /\ Start(tile[w])' = Start(t)
    BY <2>1, <1>3 DEF Start
  <2>8. HeldFrom(w)' = HeldFrom(w)
    <3>1. CASE r = Start(t)
      <4>1. read'[w].count = Start(tile[w])' + 1 /\ read'[w].count - 1 = r
        BY <2>3, <2>7, <3>1, <1>1
      <4> QED BY <4>1, <2>5, <2>6, <3>1
    <3>2. CASE r # Start(t)
      <4>1. read'[w].count # Start(tile[w])' + 1 /\ read'[w].count - 2 = r - 1
        BY <2>3, <2>7, <3>2, <1>1
      <4> QED BY <4>1, <2>5, <2>6, <3>2
    <3> QED BY <3>1, <3>2
  <2> QED BY <2>1, <2>4, <2>8
<1>9. CASE Release(w)
  <2>1. /\ wpc[w] = "release" /\ wpc'[w] \in {"wait", "pass"} /\ read' = read /\ tile' = tile
        /\ empty' = IF Multiplied(w) <= 1 THEN empty
                    ELSE [empty EXCEPT ![K!Advance(mstate[w], Multiplied(w) - 1 - 1).index] = Arrive(@)]
    BY <1>2, <1>9 DEF Release, Goto, K_PIPE_MMAS
  <2>2. m = Start(t) /\ Multiplied(w) = r - m /\ Start(t) < r /\ r <= Start(t + 1) /\ Start(t) \in Nat
        /\ Start(t + 1) \in Nat
    BY <2>1, <1>1, <1>3, <1>5 DEF ConsumerCursor, Multiplied, MmaSection
  <2>3. WaitedBy(w)' = r /\ WaitedBy(w) = r
    BY <2>1 DEF WaitedBy
  <2>4. HeldFrom(w) = IF r = Start(t) + 1 THEN r - 1 ELSE r - 2
    BY <2>1 DEF HeldFrom
  <2>5. HeldFrom(w)' = r - 1
    <3>1. CASE wpc'[w] = "wait"
      <4>1. HeldFrom(w)' = IF r = Start(t) THEN r ELSE r - 1
        BY <2>1, <3>1, <1>4 DEF HeldFrom
      <4> QED BY <4>1, <2>2
    <3>2. CASE wpc'[w] = "pass"
      BY <2>1, <3>2 DEF HeldFrom
    <3> QED BY <2>1, <3>1, <3>2
  <2>6. CASE r = Start(t) + 1
    <3>1. Multiplied(w) <= 1
      BY <2>2, <2>6
    <3> QED BY <2>1, <2>3, <2>4, <2>5, <2>6, <3>1
  <2>7. CASE r # Start(t) + 1
    <3>1. ~(Multiplied(w) <= 1) /\ r - m - 2 \in Nat /\ m + (r - m - 2) = r - 2
          /\ Multiplied(w) - 1 - 1 = r - m - 2 /\ r - 2 \in Nat
      BY <2>2, <2>7, <1>1
    <3>2. K!Advance(mstate[w], r - m - 2) = K!StateAt(0, m + (r - m - 2))
      <4> DEFINE k == r - m - 2
      <4> HIDE DEF m, k
      <4>1. K!Advance(mstate[w], k) = K!StateAt(0, m + k)
        BY <3>1, <1>1, KMoves DEF k
      <4> QED BY <4>1 DEF k
    <3>3. K!Advance(mstate[w], Multiplied(w) - 1 - 1).index = (r - 2) % Stages
      BY <3>1, <3>2, KFields
    <3>4. HeldFrom(w) = r - 2 /\ r - 1 = r - 2 + 1 /\ r - 2 < r
      BY <2>4, <2>7, <1>1
    <3> HIDE DEF r, m, t
    <3>5. empty' = [empty EXCEPT ![(r - 2) % Stages] = Arrive(@)]
      BY <2>1, <3>1, <3>3
    <3> QED BY <2>3, <2>5, <3>4, <3>5
  <2> QED BY <2>6, <2>7
<1>10. CASE MmaPass(w)
  <2>1. wpc[w] = "pass" /\ wpc'[w] = "tail" /\ read' = read /\ tile' = tile /\ empty' = empty
    BY <1>2, <1>10 DEF MmaPass, Goto, mainloop
  <2>2. WaitedBy(w)' = r /\ WaitedBy(w) = r
    BY <2>1 DEF WaitedBy
  <2>3. HeldFrom(w)' = r - 1 /\ HeldFrom(w) = r - 1
    BY <2>1 DEF HeldFrom
  <2> QED BY <2>1, <2>2, <2>3
<1>11. CASE MmaTail(w)
  <2>1. /\ wpc[w] = "tail" /\ wpc'[w] = "turn" /\ read' = read /\ tile' = tile
        /\ empty' = [empty EXCEPT ![K!Advance(mstate[w], KTileCount(t) - 1).index] = Arrive(@)]
    BY <1>2, <1>11 DEF MmaTail, Goto, K_PIPE_MMAS
  <2>2. m = Start(t) /\ r = Start(t + 1) /\ Start(t) \in Nat /\ Start(t) < Start(t + 1)
        /\ KTileCount(t) = Start(t + 1) - Start(t) /\ Start(t + 1) \in Nat
    BY <2>1, <1>1, <1>3, <1>5 DEF ConsumerCursor
  <2>3. KTileCount(t) - 1 \in Nat /\ m + (KTileCount(t) - 1) = r - 1
    BY <2>2
  <2>4. K!Advance(mstate[w], KTileCount(t) - 1) = K!StateAt(0, m + (KTileCount(t) - 1))
    <3> DEFINE k == KTileCount(t) - 1
    <3> HIDE DEF m, k
    <3>1. K!Advance(mstate[w], k) = K!StateAt(0, m + k)
      BY <2>3, <1>1, KMoves DEF k
    <3> QED BY <3>1 DEF k
  <2>5. K!Advance(mstate[w], KTileCount(t) - 1).index = (r - 1) % Stages
    BY <2>3, <2>4, KFields
  <2>6. WaitedBy(w) = r /\ HeldFrom(w) = r - 1
    BY <2>1 DEF WaitedBy, HeldFrom
  <2>7. WaitedBy(w)' = Start(t + 1) /\ HeldFrom(w)' = WaitedBy(w)'
    BY <2>1, <1>4 DEF WaitedBy, HeldFrom
  <2>8. r - 1 + 1 = r /\ r - 1 < r
    BY <1>1
  <2>9. empty' = [empty EXCEPT ![(r - 1) % Stages] = Arrive(@)]
    <3> HIDE DEF r, m, t
    <3> QED BY <2>1, <2>5
  <2> QED BY <2>2, <2>6, <2>7, <2>8, <2>9
<1>12. ASSUME wpc[w] \in {"turn"} \cup EpilogueSection, wpc'[w] \in EpilogueSection,
              UNCHANGED <<tile, read, empty>>
       PROVE  WaitedBy(w)' = WaitedBy(w) /\ HeldFrom(w)' = HeldFrom(w) /\ empty' = empty
  <2>1. WaitedBy(w)' = Start(t + 1) /\ WaitedBy(w) = Start(t + 1)
    BY <1>12, <1>4 DEF WaitedBy, EpilogueSection
  <2>2. HeldFrom(w)' = WaitedBy(w)' /\ HeldFrom(w) = WaitedBy(w)
    BY <1>12 DEF HeldFrom, EpilogueSection
  <2> QED BY <1>12, <2>1, <2>2
<1>13. CASE EpilogueTurn(w) \/ WaitSource(w) \/ WriteAndStore(w) \/ FetchNext(w) \/ StoreTail(w)
  <2>1. /\ wpc[w] \in {"turn"} \cup EpilogueSection /\ wpc'[w] \in EpilogueSection
        /\ UNCHANGED <<tile, read, empty>>
    BY <1>2, <1>13 DEF EpilogueTurn, WaitSource, WriteAndStore, FetchNext, StoreTail, StoreTailDone,
                       Goto, EpilogueSection, mainloop
  <2> QED BY <2>1, <1>12
<1>14. CASE ReadSource(w) \/ AcquireStore(w)
  <2>1. /\ wpc[w] \in {"turn"} \cup EpilogueSection /\ wpc'[w] \in EpilogueSection
        /\ UNCHANGED <<tile, read, empty>>
    BY <1>2, <1>14 DEF ReadSource, AcquireStore, Goto, EpilogueSection, mainloop
  <2> QED BY <2>1, <1>12
<1>15. CASE EpiloguePass(w)
  <2>1. /\ wpc[w] = "hand" /\ wpc'[w] = "order" /\ tile'[w] = t + 2 /\ read' = read /\ empty' = empty
    BY <1>2, <1>15 DEF EpiloguePass, Goto, NumMmaWarpGroups, mainloop
  <2>2. t + 2 # 1 /\ t + 2 - 1 = t + 1
    BY <2>1, <1>3
  <2>3. WaitedBy(w) = Start(t + 1) /\ HeldFrom(w) = WaitedBy(w)
    BY <2>1 DEF WaitedBy, HeldFrom
  <2>4. WaitedBy(w)' = Start(t + 1)
    <3>1. tile'[w] # 1 /\ tile'[w] - 1 = t + 1
      <4>1. t \in Nat
        BY <1>2
      <4> QED BY <4>1, <2>1, <2>2
    <3>2. WaitedBy(w)' = Start(tile[w] - 1)'
      <4>1. WaitedBy(w)' = IF tile'[w] = 1 THEN 0 ELSE Start(tile[w] - 1)'
        BY <2>1 DEF WaitedBy
      <4>2. tile'[w] # 1
        BY <3>1
      <4> HIDE DEF t
      <4> QED BY <4>1, <4>2, SMT
    <3>3. Start(tile[w] - 1)' = kernel'.start[tile'[w] - 1]
      BY DEF Start
    <3> QED BY <3>1, <3>2, <3>3 DEF Start
  <2>5. HeldFrom(w)' = WaitedBy(w)'
    BY <2>1 DEF HeldFrom
  <2> QED BY <2>1, <2>3, <2>4, <2>5
<1>16. CASE Leave(w)
  <2>1. wpc[w] = "order" /\ wpc'[w] = "exit" /\ tile' = tile /\ read' = read /\ empty' = empty
    BY <1>2, <1>16 DEF Leave, Goto, mainloop
  <2>2. WaitedBy(w)' = WaitedBy(w)
    BY <2>1, <1>4 DEF WaitedBy
  <2>3. HeldFrom(w) = WaitedBy(w) /\ HeldFrom(w)' = WaitedBy(w)'
    BY <2>1 DEF HeldFrom
  <2> QED BY <2>1, <2>2, <2>3
<1> QED BY <1>6, <1>7, <1>8, <1>9, <1>10, <1>11, <1>13, <1>14, <1>15, <1>16 DEF MathWarpGroup

(* The same of all k tiles waited for and held: a group waits for the next *)
(* one, or gives back one of those it holds, or leaves them as they are.   *)
LEMMA MathWaited ==
  ASSUME OrderInv, CursorInv, NEW w \in WarpGroups, MathWarpGroup(w), kernel' = kernel
  PROVE  \/ /\ Waited' = Waited + 1 /\ \A n \in Nat : Held(n)' <=> Held(n) \/ n = Waited
            /\ empty' = empty
            /\ PhaseDone(full[Waited % Stages], (0 + Waited \div Stages) % 2)
         \/ \E x \in Nat :
              /\ Held(x) /\ Waited' = Waited /\ \A n \in Nat : Held(n)' <=> Held(n) /\ n # x
              /\ empty' = [empty EXCEPT ![x % Stages] = Arrive(@)]
         \/ Waited' = Waited /\ (\A n \in Nat : Held(n)' <=> Held(n)) /\ empty' = empty
<1> DEFINE v == 1 - w
<1>1. v \in WarpGroups /\ v # w /\ w \in {0, 1} /\ v \in {0, 1}
  BY Groups
<1>2. WaitedBy(v)' = WaitedBy(v) /\ HeldFrom(v)' = HeldFrom(v)
  <2>1. wpc'[v] = wpc[v] /\ tile'[v] = tile[v] /\ read'[v] = read[v]
    BY <1>1, MathKeepsOthers
  <2> QED BY <1>1, <2>1, WaitedFrame
<1>3. /\ WaitedBy(w) \in Nat /\ WaitedBy(v) \in Nat /\ HeldFrom(w) \in Nat /\ HeldFrom(v) \in Nat
      /\ HeldFrom(w) <= WaitedBy(w)
  BY <1>1, GroupWaited
<1>4. \A n \in Nat : Held(n) <=> \/ HeldFrom(w) <= n /\ n < WaitedBy(w)
                                 \/ HeldFrom(v) <= n /\ n < WaitedBy(v)
  <2>1. CASE w = 0
    BY <2>1 DEF Held, HeldBy
  <2>2. CASE w = 1
    <3>1. v = 0
      BY <2>2
    <3> QED BY <2>2, <3>1 DEF Held, HeldBy
  <2> QED BY <2>1, <2>2, <1>1
<1>5. \A n \in Nat : Held(n)' <=> \/ HeldFrom(w)' <= n /\ n < WaitedBy(w)'
                                  \/ HeldFrom(v)' <= n /\ n < WaitedBy(v)'
  <2>1. CASE w = 0
    BY <2>1 DEF Held, HeldBy
  <2>2. CASE w = 1
    <3>1. v = 0
      BY <2>2
    <3> QED BY <2>2, <3>1 DEF Held, HeldBy
  <2> QED BY <2>1, <2>2, <1>1
<1>6. /\ Waited \in {WaitedBy(w), WaitedBy(v)} /\ WaitedBy(w) <= Waited /\ WaitedBy(v) <= Waited
      /\ Waited \in Nat
  <2>1. CASE w = 0
    BY <2>1, WaitedFacts
  <2>2. CASE w = 1
    <3>1. v = 0
      BY <2>2
    <3> QED BY <2>2, <3>1, WaitedFacts
  <2> QED BY <2>1, <2>2, <1>1
<1>7. WaitedBy(w)' \in Nat => Waited' = Larger(WaitedBy(w)', WaitedBy(v)')
  <2>1. Waited' = Larger(WaitedBy(0)', WaitedBy(1)')
    BY DEF Waited, Larger
  <2>2. CASE w = 0
    BY <2>1, <2>2
  <2>3. CASE w = 1
    <3>1. v = 0
      BY <2>3
    <3>2. WaitedBy(0)' \in Nat
      BY <3>1, <1>2, <1>3
    <3> HIDE DEF v
    <3> QED BY <2>1, <2>3, <3>1, <3>2 DEF Larger
  <2> QED BY <2>2, <2>3, <1>1
<1> HIDE DEF v
<1>8. CASE MmaBegin(w) /\ HeldFrom(w) = WaitedBy(w) /\ WaitedBy(w)' = Start(tile[w])
           /\ HeldFrom(w)' = WaitedBy(w)' /\ empty' = empty
  <2>1. WaitedBy(v) = Start(tile[w]) /\ Waited = Start(tile[w])
    BY <1>8, WaitedByOwner DEF MmaBegin, v
  <2>2. Waited' = Waited
    BY <2>1, <1>2, <1>3, <1>7, <1>8 DEF Larger
  <2>3. \A n \in Nat : Held(n)' <=> Held(n)
    BY <2>1, <1>2, <1>3, <1>4, <1>5, <1>8
  <2> QED BY <2>2, <2>3, <1>8
<1>9. CASE WaitTile(w) /\ WaitedBy(w)' = WaitedBy(w) + 1 /\ HeldFrom(w)' = HeldFrom(w)
           /\ empty' = empty
  <2>1. wpc[w] = "wait" /\ PhaseDone(full[read[w].index], read[w].phase)
    BY <1>9 DEF WaitTile
  <2>2. Waited = WaitedBy(w)
    BY <2>1, WaitedByOwner DEF MmaSection
  <2>3. Waited' = Waited + 1
    BY <2>2, <1>2, <1>3, <1>6, <1>7, <1>9 DEF Larger
  <2>4. \A n \in Nat : Held(n)' <=> Held(n) \/ n = Waited
    BY <2>2, <1>2, <1>3, <1>4, <1>5, <1>9
  <2>5. PhaseDone(full[Waited % Stages], (0 + Waited \div Stages) % 2)
    <3>1. WaitedBy(w) = read[w].count
      BY <2>1 DEF WaitedBy
    <3>2. read[w] = K!StateAt(0, read[w].count)
      BY ConsumerFields
    <3>3. read[w].index = Waited % Stages /\ read[w].phase = (0 + Waited \div Stages) % 2
      BY <2>2, <3>1, <3>2, KFields
    <3> QED BY <2>1, <3>3
  <2> QED BY <2>3, <2>4, <2>5, <1>9
<1>10. CASE WaitedBy(w)' = WaitedBy(w) /\ HeldFrom(w)' = HeldFrom(w) + 1
            /\ HeldFrom(w) < WaitedBy(w)
            /\ empty' = [empty EXCEPT ![HeldFrom(w) % Stages] = Arrive(@)]
  <2>1. Waited' = Waited
    BY <1>2, <1>3, <1>6, <1>7, <1>10 DEF Larger
  <2>2. PICK x \in Nat : x = HeldFrom(w)
    BY <1>3
  <2>3. Held(x)
    BY <2>2, <1>3, <1>4, <1>10
  <2>4. ~(HeldFrom(v) <= x /\ x < WaitedBy(v))
    <3>1. HeldBy(w, x)
      BY <2>2, <1>3, <1>10 DEF HeldBy
    <3>2. ~HeldBy(v, x)
      <4>1. CASE w = 0
        BY <3>1, <4>1, HeldOnce DEF v
      <4>2. CASE w = 1
        <5>1. v = 0
          BY <4>2 DEF v
        <5> QED BY <3>1, <4>2, <5>1, HeldOnce
      <4> QED BY <4>1, <4>2, <1>1
    <3> QED BY <3>2 DEF HeldBy
  <2>5. \A n \in Nat : Held(n)' <=> Held(n) /\ n # x
    BY <2>2, <2>4, <1>2, <1>3, <1>4, <1>5, <1>10
  <2> QED BY <2>1, <2>2, <2>3, <2>5, <1>10
<1>11. CASE WaitedBy(w)' = WaitedBy(w) /\ HeldFrom(w)' = HeldFrom(w) /\ empty' = empty
  <2>1. Waited' = Waited
    BY <1>2, <1>3, <1>6, <1>7, <1>11 DEF Larger
  <2>2. \A n \in Nat : Held(n)' <=> Held(n)
    BY <1>2, <1>4, <1>5, <1>11
  <2> QED BY <2>1, <2>2, <1>11
<1> QED BY <1>8, <1>9, <1>10, <1>11, GroupMoves

(* What the invariant says of the counts. *)
LEMMA MainFacts ==
  ASSUME OrderInv, CursorInv, MainloopInv
  PROVE  /\ Waited \in Nat /\ landed \in Nat /\ LoadsIssued \in Nat /\ pwrite.count \in Nat
         /\ Stages \in Nat /\ Stages > 1
         /\ Waited <= landed /\ landed <= LoadsIssued /\ LoadsIssued <= pwrite.count
         /\ pwrite.count <= Waited + Stages
         /\ \A n \in Nat : Held(n) => n < Waited /\ pwrite.count <= n + Stages
<1>1. Waited \in Nat /\ \A n \in Nat : Held(n) => n < Waited
  BY WaitedFacts
<1>2. LoadsIssued \in Nat /\ pwrite.count \in Nat /\ LoadsIssued <= pwrite.count
  BY IssuedFacts
<1>3. /\ landed \in Nat /\ Waited <= landed /\ landed <= LoadsIssued
      /\ pwrite.count <= Waited + Stages /\ \A n \in Nat : Held(n) => pwrite.count <= n + Stages
  BY DEF MainloopInv
<1> QED BY <1>1, <1>2, <1>3, Parameters

(* Of the k tiles within a round each has a slot of its own. *)
LEMMA OwnSlot ==
  ASSUME NEW a \in Nat, NEW m \in Nat, NEW n \in Nat,
         m < a, a <= m + Stages, n < a, a <= n + Stages, m % Stages = n % Stages
  PROVE  m = n
<1>1. m < n => n < m + Stages
  BY Parameters
<1>2. n < m => m < n + Stages
  BY Parameters
<1>3. ~(m < n) /\ ~(n < m)
  BY <1>1, <1>2, KSlots
<1> QED BY <1>3

(* The barriers of a slot, by name *)
FlyingAt(i) == K!Visits(LoadsIssued, i) # K!Visits(landed, i)

(* A full barrier is that of a slot in flight, or that of one at rest. *)
LEMMA FullForm ==
  ASSUME NEW i
  PROVE  /\ FlyingAt(i) => (FullBarrier(i) <=> full[i] = Flying(K!Visits(landed, i)))
         /\ ~FlyingAt(i) => (FullBarrier(i) <=> full[i] = Landed(K!Visits(landed, i)))
         /\ FlyingAt(i)' => (FullBarrier(i)' <=> full'[i] = Flying(K!Visits(landed', i)))
         /\ ~FlyingAt(i)' => (FullBarrier(i)' <=> full'[i] = Landed(K!Visits(landed', i)))
<1>1. ASSUME FlyingAt(i) PROVE FullBarrier(i) <=> full[i] = Flying(K!Visits(landed, i))
  BY <1>1 DEF FullBarrier, FlyingAt, Flying
<1>2. ASSUME ~FlyingAt(i) PROVE FullBarrier(i) <=> full[i] = Landed(K!Visits(landed, i))
  BY <1>2 DEF FullBarrier, FlyingAt, Landed
<1>3. ASSUME FlyingAt(i)' PROVE FullBarrier(i)' <=> full'[i] = Flying(K!Visits(landed', i))
  BY <1>3 DEF FullBarrier, FlyingAt, Flying
<1>4. ASSUME ~FlyingAt(i)' PROVE FullBarrier(i)' <=> full'[i] = Landed(K!Visits(landed', i))
  BY <1>4 DEF FullBarrier, FlyingAt, Landed
<1> QED BY <1>1, <1>2, <1>3, <1>4

HeldAt(i) == \E n \in Nat : Held(n) /\ n % Stages = i

(* An empty barrier lacks one visit as long as a k tile is held. *)
LEMMA EmptyForm ==
  ASSUME NEW i \in K!Index, Waited \in Nat, Waited' \in Nat
  PROVE  /\ HeldAt(i) => (EmptyBarrier(i) <=> empty[i] = Free(K!Visits(Waited, i) - 1))
         /\ ~HeldAt(i) => (EmptyBarrier(i) <=> empty[i] = Free(K!Visits(Waited, i)))
         /\ HeldAt(i)' => (EmptyBarrier(i)' <=> empty'[i] = Free(K!Visits(Waited', i) - 1))
         /\ ~HeldAt(i)' => (EmptyBarrier(i)' <=> empty'[i] = Free(K!Visits(Waited', i)))
<1>1. K!Visits(Waited, i) \in Nat /\ K!Visits(Waited', i) \in Nat
  BY KSlots
<1>2. \A v \in Nat : v - 0 = v
  OBVIOUS
<1>3. ASSUME HeldAt(i) PROVE EmptyBarrier(i) <=> empty[i] = Free(K!Visits(Waited, i) - 1)
  BY <1>3 DEF EmptyBarrier, HeldAt, Free
<1>4. ASSUME ~HeldAt(i) PROVE EmptyBarrier(i) <=> empty[i] = Free(K!Visits(Waited, i))
  <2>1. EmptyBarrier(i) <=> empty[i] = Free(K!Visits(Waited, i) - 0)
    BY <1>4 DEF EmptyBarrier, HeldAt, Free
  <2> QED BY <1>1, <1>2, <2>1
<1>5. ASSUME HeldAt(i)' PROVE EmptyBarrier(i)' <=> empty'[i] = Free(K!Visits(Waited', i) - 1)
  BY <1>5 DEF EmptyBarrier, HeldAt, Free
<1>6. ASSUME ~HeldAt(i)' PROVE EmptyBarrier(i)' <=> empty'[i] = Free(K!Visits(Waited', i))
  <2>1. EmptyBarrier(i)' <=> empty'[i] = Free(K!Visits(Waited', i) - 0)
    BY <1>6 DEF EmptyBarrier, HeldAt, Free
  <2> QED BY <1>1, <1>2, <2>1
<1> QED BY <1>3, <1>4, <1>5, <1>6

(* A slot that is not filled or emptied keeps its barriers. *)
LEMMA FullKeeps ==
  ASSUME MainloopInv, UNCHANGED <<full, landed>>, LoadsIssued' = LoadsIssued
  PROVE  DOMAIN full' = K!Index /\ \A i \in K!Index : FullBarrier(i)'
<1>1. DOMAIN full = K!Index /\ \A i \in K!Index : FullBarrier(i)
  BY DEF MainloopInv
<1>2. ASSUME NEW i \in K!Index PROVE FullBarrier(i)'
  <2>1. FlyingAt(i)' <=> FlyingAt(i)
    BY DEF FlyingAt
  <2> QED BY <1>1, <2>1, FullForm
<1> QED BY <1>1, <1>2

(* The empty barriers stay right when no k tile is taken or given back. *)
LEMMA EmptyKeeps ==
  ASSUME OrderInv, CursorInv, MainloopInv, empty' = empty, Waited' = Waited,
         \A n \in Nat : Held(n)' <=> Held(n)
  PROVE  DOMAIN empty' = K!Index /\ \A i \in K!Index : EmptyBarrier(i)'
<1>1. DOMAIN empty = K!Index /\ (\A i \in K!Index : EmptyBarrier(i)) /\ Waited \in Nat
  BY MainFacts DEF MainloopInv
<1>2. ASSUME NEW i \in K!Index PROVE EmptyBarrier(i)'
  <2>1. HeldAt(i)' <=> HeldAt(i)
    BY DEF HeldAt
  <2> QED BY <1>1, <2>1, EmptyForm
<1> QED BY <1>1, <1>2

-----------------------------------------------------------------------------
(* The producer finds its slot given back: no parity is taken for another, *)
(* and no group holds what was in the slot.                                *)
LEMMA SlotIsFree ==
  ASSUME OrderInv, CursorInv, MainloopInv, PhaseDone(empty[pwrite.index], pwrite.phase)
  PROVE  /\ pwrite.count < Waited + Stages
         /\ \A n \in Nat : Held(n) => pwrite.count < n + Stages
         /\ K!Visits(Waited, pwrite.count % Stages) = pwrite.count \div Stages
<1> DEFINE a == pwrite.count
           i == a % Stages
           q == a \div Stages
<1>1. /\ Waited \in Nat /\ a \in Nat /\ Waited <= a /\ a <= Waited + Stages
      /\ \A n \in Nat : Held(n) => n < Waited /\ a <= n + Stages
  BY MainFacts
<1>2. pwrite = K!StateAt(1, a)
  BY DEF CursorInv, ProducerCursor
<1>3. PhaseDone(empty[i], (1 + q) % 2)
  BY <1>2, KFields
<1>4. i \in K!Index /\ q \in Nat /\ K!Visits(a, i) = q
  BY <1>1, KSlots
<1>5. /\ K!Visits(Waited, i) \in Nat
      /\ K!Visits(Waited, i) = q \/ K!Visits(Waited, i) + 1 = q
      /\ K!Visits(Waited, i) = q <=> a < Waited + Stages
  BY <1>1, KTurns
<1> HIDE DEF i, q, a
<1>6. ~HeldAt(i)
  <2> SUFFICES ASSUME HeldAt(i) PROVE FALSE
    OBVIOUS
  <2>1. PICK n \in Nat : Held(n) /\ n % Stages = i
    BY DEF HeldAt
  <2>2. n < Waited /\ a <= n + Stages
    BY <1>1, <2>1
  <2>3. a = n + Stages
    <3>1. ~(a < n + Stages)
      <4> SUFFICES ASSUME a < n + Stages PROVE FALSE
        OBVIOUS
      <4>1. n < a
        BY <1>1, <2>2
      <4>2. n % Stages # a % Stages
        BY <4>1, <1>1, KSlots
      <4> QED BY <4>2, <2>1 DEF i
    <3> QED BY <3>1, <2>2, <1>1, Parameters
  <2>4. a < Waited + Stages
    BY <2>2, <2>3, <1>1, Parameters
  <2>5. K!Visits(Waited, i) = q
    BY <1>5, <2>4
  <2>6. empty[i] = Free(q - 1)
    <3>1. EmptyBarrier(i)
      BY <1>4 DEF MainloopInv
    <3>2. EmptyBarrier(i) <=> empty[i] = Free(K!Visits(Waited, i) - 1)
      <4>1. ASSUME NEW j \in K!Index, HeldAt(j)
            PROVE  EmptyBarrier(j) <=> empty[j] = Free(K!Visits(Waited, j) - 1)
        BY <4>1 DEF EmptyBarrier, HeldAt, Free
      <4> QED BY <4>1, <1>4
    <3> QED BY <3>1, <3>2, <2>5
  <2>7. q - 1 \in Nat /\ q - 1 + 1 = q
    <3>1. K!Visits(n + 1, i) <= K!Visits(Waited, i) /\ K!Visits(n + 1, i) = K!Visits(n, i) + 1
          /\ K!Visits(n, i) \in Nat
      <4>1. n + 1 \in Nat /\ n + 1 <= Waited
        BY <2>2, <1>1
      <4> QED BY <4>1, <1>1, <1>4, <2>1, KSlots
    <3> QED BY <3>1, <2>5, <1>4
  <2>8. (q - 1) % 2 # (1 + q) % 2
    BY <1>3, <2>6, <2>7, BarrierSteps
  <2> QED BY <2>7, <2>8, <1>4, Parity
<1>7. empty[i] = Free(K!Visits(Waited, i))
  <2>1. EmptyBarrier(i)
    BY <1>4 DEF MainloopInv
  <2>2. EmptyBarrier(i) <=> empty[i] = Free(K!Visits(Waited, i) - 0)
    <3>1. ASSUME NEW j, ~HeldAt(j)
          PROVE  EmptyBarrier(j) <=> empty[j] = Free(K!Visits(Waited, j) - 0)
      BY <3>1 DEF EmptyBarrier, HeldAt, Free
    <3> QED BY <3>1, <1>6
  <2>3. K!Visits(Waited, i) - 0 = K!Visits(Waited, i)
    BY <1>5
  <2> QED BY <2>1, <2>2, <2>3
<1>8. K!Visits(Waited, i) = q
  <2>1. K!Visits(Waited, i) % 2 # (1 + q) % 2
    BY <1>3, <1>5, <1>7, BarrierSteps
  <2>2. ~(K!Visits(Waited, i) + 1 = q)
    BY <2>1, <1>4, <1>5, Parity
  <2> QED BY <2>2, <1>5
<1>9. ASSUME NEW n \in Nat, Held(n) PROVE a < n + Stages
  <2>1. a <= n + Stages
    BY <1>1, <1>9
  <2>2. a # n + Stages
    <3> SUFFICES ASSUME a = n + Stages PROVE FALSE
      OBVIOUS
    <3>1. n % Stages = i
      BY KSlots DEF i
    <3> QED BY <3>1, <1>6, <1>9 DEF HeldAt
  <2> QED BY <2>1, <2>2, <1>1, Parameters
<1>10. a < Waited + Stages
  BY <1>5, <1>8
<1> QED BY <1>8, <1>9, <1>10 DEF a, i, q

(* A load is issued: its slot, whose loads have all landed, takes it. *)
LEMMA FullLoad ==
  ASSUME OrderInv, CursorInv, MainloopInv, landed' = landed,
         LoadsIssued = pwrite.count, LoadsIssued' = LoadsIssued + 1,
         K!Visits(Waited, pwrite.count % Stages) = pwrite.count \div Stages,
         full' = [full EXCEPT ![pwrite.count % Stages] = ArriveAndExpectTx(@, 1)]
  PROVE  DOMAIN full' = K!Index /\ \A i \in K!Index : FullBarrier(i)'
<1>0. PICK s \in K!Index : s = pwrite.count % Stages
  <2>1. pwrite.count \in Nat
    BY MainFacts
  <2> QED BY <2>1, KSlots
<1> DEFINE a == pwrite.count
<1>1. /\ DOMAIN full = K!Index /\ (\A i \in K!Index : FullBarrier(i))
      /\ Waited \in Nat /\ landed \in Nat /\ a \in Nat /\ Waited <= landed /\ landed <= a
  BY MainFacts DEF MainloopInv
<1>2. s \in K!Index /\ K!Visits(a, s) = a \div Stages /\ a \div Stages \in Nat
  BY <1>0, <1>1, KSlots
<1>3. DOMAIN full' = K!Index /\ full'[s] = ArriveAndExpectTx(full[s], 1)
      /\ \A i \in K!Index : i # s => full'[i] = full[i]
  BY <1>0, <1>1, <1>2
<1>4. K!Visits(landed, s) = a \div Stages /\ K!Visits(landed, s) \in Nat
  <2>1. K!Visits(Waited, s) <= K!Visits(landed, s) /\ K!Visits(landed, s) <= K!Visits(a, s)
        /\ K!Visits(landed, s) \in Nat
    <3>1. /\ K!Visits(Waited, s) <= K!Visits(landed, s)
          /\ K!Visits(landed, s) <= K!Visits(a, s) /\ K!Visits(landed, s) \in Nat
          /\ K!Visits(Waited, s) \in Nat
      BY <1>0, <1>1, KSlots
    <3> QED BY <3>1
  <2>2. K!Visits(Waited, s) = a \div Stages
    BY <1>0
  <2> HIDE DEF a
  <2> QED BY <2>1, <2>2, <1>2
<1>5. FullBarrier(s)'
  <2>1. ~FlyingAt(s)
    BY <1>2, <1>4 DEF FlyingAt
  <2>2. full[s] = Landed(K!Visits(landed, s))
    BY <1>1, <1>2, <2>1, FullForm
  <2>3. full'[s] = Flying(K!Visits(landed', s))
    BY <1>3, <1>4, <2>2, BarrierSteps
  <2>4. FlyingAt(s)'
    <3>1. K!Visits(a + 1, s) = K!Visits(a, s) + 1
      BY <1>0, <1>1, <1>2, KSlots
    <3>2. K!Visits(LoadsIssued', s) # K!Visits(landed', s)
      BY <3>1, <1>2, <1>4
    <3> QED BY <3>2 DEF FlyingAt
  <2> QED BY <2>3, <2>4, FullForm
<1>6. ASSUME NEW i \in K!Index, i # s PROVE FullBarrier(i)'
  <2>1. K!Visits(a + 1, i) = K!Visits(a, i)
    BY <1>0, <1>1, <1>6, KSlots
  <2>2. K!Visits(LoadsIssued', i) = K!Visits(LoadsIssued, i)
    BY <2>1
  <2>3. FlyingAt(i)' <=> FlyingAt(i)
    BY <2>2 DEF FlyingAt
  <2> QED BY <1>1, <1>3, <1>6, <2>3, FullForm
<1> QED BY <1>3, <1>5, <1>6

(* A load ends: its slot is full. *)
LEMMA FullLand ==
  ASSUME OrderInv, CursorInv, MainloopInv, landed < LoadsIssued, landed' = landed + 1,
         LoadsIssued' = LoadsIssued,
         full' = [full EXCEPT ![landed % Stages] = CompleteTransaction(@, 1)]
  PROVE  DOMAIN full' = K!Index /\ \A i \in K!Index : FullBarrier(i)'
<1>0. PICK s \in K!Index : s = landed % Stages
  <2>1. landed \in Nat
    BY MainFacts
  <2> QED BY <2>1, KSlots
<1> DEFINE v == K!Visits(landed, s)
<1>1. /\ DOMAIN full = K!Index /\ (\A i \in K!Index : FullBarrier(i))
      /\ landed \in Nat /\ LoadsIssued \in Nat /\ LoadsIssued <= landed + Stages
  <2>1. /\ landed \in Nat /\ LoadsIssued \in Nat /\ Waited \in Nat /\ pwrite.count \in Nat
        /\ LoadsIssued <= pwrite.count /\ pwrite.count <= Waited + Stages /\ Waited <= landed
        /\ Stages \in Nat
    BY MainFacts
  <2> QED BY <2>1 DEF MainloopInv
<1>2. s \in K!Index /\ v \in Nat /\ v = landed \div Stages
  BY <1>0, <1>1, KSlots
<1>3. DOMAIN full' = K!Index /\ full'[s] = CompleteTransaction(full[s], 1)
      /\ \A i \in K!Index : i # s => full'[i] = full[i]
  BY <1>0, <1>1, <1>2
<1>4. K!Visits(LoadsIssued, s) = v + 1
  <2>1. K!Visits(LoadsIssued, s) = (landed \div Stages) + 1
    BY <1>0, <1>1, KTurns
  <2> QED BY <2>1, <1>2
<1>5. K!Visits(landed', s) = v + 1
  BY <1>0, <1>1, <1>2, KSlots
<1> HIDE DEF v
<1>6. FullBarrier(s)'
  <2>1. FlyingAt(s)
    BY <1>2, <1>4 DEF FlyingAt, v
  <2>2. full[s] = Flying(v)
    BY <1>1, <1>2, <2>1, FullForm DEF v
  <2>3. full'[s] = Landed(v + 1)
    BY <1>2, <1>3, <2>2, BarrierSteps
  <2>4. ~FlyingAt(s)'
    BY <1>4, <1>5 DEF FlyingAt
  <2> QED BY <1>5, <2>3, <2>4, FullForm
<1>7. ASSUME NEW i \in K!Index, i # s PROVE FullBarrier(i)'
  <2>1. K!Visits(landed', i) = K!Visits(landed, i)
    BY <1>0, <1>1, <1>7, KSlots
  <2>2. FlyingAt(i)' <=> FlyingAt(i)
    BY <2>1 DEF FlyingAt
  <2> QED BY <1>1, <1>3, <1>7, <2>1, <2>2, FullForm
<1> QED BY <1>3, <1>6, <1>7

(* A group waits for the next k tile, and holds it. *)
LEMMA EmptyWait ==
  ASSUME OrderInv, CursorInv, MainloopInv, empty' = empty, Waited < landed,
         Waited' = Waited + 1, \A n \in Nat : Held(n)' <=> Held(n) \/ n = Waited
  PROVE  DOMAIN empty' = K!Index /\ \A i \in K!Index : EmptyBarrier(i)'
<1>0. PICK s \in K!Index : s = Waited % Stages
  <2>1. Waited \in Nat
    BY MainFacts
  <2> QED BY <2>1, KSlots
<1> DEFINE a == pwrite.count
<1>1. /\ DOMAIN empty = K!Index /\ (\A i \in K!Index : EmptyBarrier(i))
      /\ Waited \in Nat /\ Waited' \in Nat /\ a \in Nat /\ Waited < a /\ a <= Waited + Stages
      /\ \A n \in Nat : Held(n) => n < Waited /\ a <= n + Stages
  <2>1. /\ landed \in Nat /\ LoadsIssued \in Nat /\ Waited \in Nat /\ pwrite.count \in Nat
        /\ LoadsIssued <= pwrite.count /\ landed <= LoadsIssued
        /\ pwrite.count <= Waited + Stages
        /\ \A n \in Nat : Held(n) => n < Waited /\ a <= n + Stages
    BY MainFacts
  <2> QED BY <2>1 DEF MainloopInv
<1>2. s \in K!Index /\ K!Visits(Waited, s) \in Nat
      /\ K!Visits(Waited', s) = K!Visits(Waited, s) + 1
  BY <1>0, <1>1, KSlots
<1> HIDE DEF a
<1>3. EmptyBarrier(s)'
  <2>1. ~HeldAt(s)
    <3> SUFFICES ASSUME NEW n \in Nat, Held(n), n % Stages = s PROVE FALSE
      BY DEF HeldAt
    <3>1. n < Waited /\ n < a /\ a <= n + Stages
      BY <1>1
    <3>2. n = Waited
      BY <1>0, <1>1, <3>1, OwnSlot
    <3> QED BY <1>1, <3>1, <3>2
  <2>2. HeldAt(s)'
    <3>1. PICK n \in Nat : n = Waited
      BY <1>1
    <3>2. Held(n)' /\ n % Stages = s
      BY <1>0, <3>1
    <3> QED BY <3>2 DEF HeldAt
  <2>3. empty'[s] = Free(K!Visits(Waited, s))
    BY <1>1, <1>2, <2>1, EmptyForm
  <2>4. K!Visits(Waited', s) - 1 = K!Visits(Waited, s)
    BY <1>2
  <2> QED BY <1>1, <1>2, <2>2, <2>3, <2>4, EmptyForm
<1>4. ASSUME NEW i \in K!Index, i # s PROVE EmptyBarrier(i)'
  <2>1. K!Visits(Waited', i) = K!Visits(Waited, i)
    BY <1>0, <1>1, <1>4, KSlots
  <2>2. HeldAt(i)' <=> HeldAt(i)
    BY <1>0, <1>4 DEF HeldAt
  <2> QED BY <1>1, <1>4, <2>1, <2>2, EmptyForm
<1> QED BY <1>1, <1>3, <1>4

(* A group gives a k tile back. *)
LEMMA EmptyFree ==
  ASSUME OrderInv, CursorInv, MainloopInv, Waited' = Waited, NEW x \in Nat, Held(x),
         \A n \in Nat : Held(n)' <=> Held(n) /\ n # x,
         empty' = [empty EXCEPT ![x % Stages] = Arrive(@)]
  PROVE  DOMAIN empty' = K!Index /\ \A i \in K!Index : EmptyBarrier(i)'
<1>0. PICK s \in K!Index : s = x % Stages
  <2>1. x \in Nat
    BY MainFacts
  <2> QED BY <2>1, KSlots
<1> DEFINE a == pwrite.count
           v == K!Visits(Waited, s)
<1>1. /\ DOMAIN empty = K!Index /\ (\A i \in K!Index : EmptyBarrier(i))
      /\ Waited \in Nat /\ Waited' \in Nat /\ a \in Nat /\ Waited <= a
      /\ \A n \in Nat : Held(n) => n < Waited /\ a <= n + Stages
  <2>1. /\ landed \in Nat /\ LoadsIssued \in Nat /\ Waited \in Nat /\ pwrite.count \in Nat
        /\ LoadsIssued <= pwrite.count /\ landed <= LoadsIssued /\ Waited <= landed
        /\ \A n \in Nat : Held(n) => n < Waited /\ a <= n + Stages
    BY MainFacts
  <2> QED BY <2>1 DEF MainloopInv
<1>2. s \in K!Index /\ v \in Nat /\ v - 1 \in Nat /\ v - 1 + 1 = v
  <2>1. s \in K!Index /\ v \in Nat
    BY <1>1, KSlots
  <2>2. x + 1 \in Nat /\ x + 1 <= Waited
    BY <1>1
  <2>3. K!Visits(x + 1, s) <= v /\ K!Visits(x + 1, s) = K!Visits(x, s) + 1 /\ K!Visits(x, s) \in Nat
    BY <1>0, <1>1, <2>1, <2>2, KSlots
  <2> QED BY <2>1, <2>3
<1>3. DOMAIN empty' = K!Index /\ empty'[s] = Arrive(empty[s])
      /\ \A i \in K!Index : i # s => empty'[i] = empty[i]
  BY <1>0, <1>1, <1>2
<1> HIDE DEF a, v
<1>4. EmptyBarrier(s)'
  <2>1. HeldAt(s)
    BY <1>0 DEF HeldAt
  <2>2. ~HeldAt(s)'
    <3> SUFFICES ASSUME NEW n \in Nat, Held(n)', n % Stages = s PROVE FALSE
      BY DEF HeldAt
    <3>1. Held(n) /\ n # x
      OBVIOUS
    <3>2. n < Waited /\ a <= n + Stages /\ x < Waited /\ a <= x + Stages
      BY <1>1, <3>1
    <3>3. n < a /\ x < a
      BY <1>1, <3>2
    <3>4. n = x
      BY <1>0, <1>1, <3>2, <3>3, OwnSlot
    <3> QED BY <3>1, <3>4
  <2>3. empty[s] = Free(v - 1)
    BY <1>1, <1>2, <2>1, EmptyForm DEF v
  <2>4. empty'[s] = Free(v)
    BY <1>2, <1>3, <2>3, BarrierSteps
  <2> QED BY <1>1, <1>2, <2>2, <2>4, EmptyForm DEF v
<1>5. ASSUME NEW i \in K!Index, i # s PROVE EmptyBarrier(i)'
  <2>1. HeldAt(i)' <=> HeldAt(i)
    BY <1>0, <1>5 DEF HeldAt
  <2> QED BY <1>1, <1>3, <1>5, <2>1, EmptyForm
<1> QED BY <1>3, <1>4, <1>5

(* The k tiles held do not change when no group moves. *)
LEMMA WaitedSame ==
  ASSUME OrderInv, CursorInv, kernel' = kernel, UNCHANGED <<wpc, tile, read>>
  PROVE  Waited' = Waited /\ \A n \in Nat : Held(n)' <=> Held(n)
<1>1. /\ WaitedBy(0)' = WaitedBy(0) /\ HeldFrom(0)' = HeldFrom(0)
      /\ WaitedBy(1)' = WaitedBy(1) /\ HeldFrom(1)' = HeldFrom(1)
  BY Groups, WaitedFrame
<1>2. Waited' = Waited
  BY <1>1 DEF Waited, Larger
<1>3. ASSUME NEW n \in Nat PROVE Held(n)' <=> Held(n)
  BY <1>1 DEF Held, HeldBy
<1> QED BY <1>2, <1>3

(* The mainloop pipeline starts empty. *)
LEMMA MainloopInit == Init => MainloopInv
<1> SUFFICES ASSUME Init PROVE MainloopInv
  OBVIOUS
<1>1. OrderInv /\ CursorInv
  BY OrderInit, CursorInit
<1>2. ASSUME NEW w \in WarpGroups PROVE WaitedBy(w) = 0 /\ HeldFrom(w) = 0
  <2>1. wpc[w] \in {"order", "exit"} /\ tile[w] = w + 1 /\ kernel \in Kernels
    BY DEF Init
  <2>2. Start(1) = 0
    BY <2>1, Tiles
  <2>3. tile[w] # 1 => tile[w] - 1 = 1
    BY <2>1, Groups
  <2>4. WaitedBy(w) = 0
    BY <2>1, <2>2, <2>3 DEF WaitedBy
  <2> QED BY <2>1, <2>4 DEF HeldFrom
<1>3. Waited = 0 /\ \A n \in Nat : ~Held(n)
  BY <1>2, Groups DEF Waited, Larger, Held, HeldBy
<1>4. landed = 0 /\ pwrite.count = 0 /\ LoadsIssued = 0
  <2>1. landed = 0 /\ pwrite = K!StateAt(1, 0)
    BY KCursor DEF Init
  <2>2. pwrite.count = 0
    BY <2>1, KFields
  <2>3. LoadsIssued \in Nat /\ LoadsIssued <= pwrite.count
    BY <1>1, IssuedFacts
  <2> QED BY <2>1, <2>2, <2>3
<1>5. DOMAIN full = K!Index /\ DOMAIN empty = K!Index
      /\ \A i \in K!Index : full[i] = Landed(0) /\ empty[i] = Free(0)
  BY DEF Init, TxInit, BarrierInit, Landed, Free
<1>6. ASSUME NEW i \in K!Index PROVE FullBarrier(i) /\ EmptyBarrier(i)
  <2>1. K!Visits(0, i) = 0
    BY KSlots
  <2>2. ~FlyingAt(i)
    BY <1>4 DEF FlyingAt
  <2>3. FullBarrier(i)
    BY <1>4, <1>5, <2>1, <2>2, FullForm
  <2>4. EmptyBarrier(i)
    <3>1. EmptyBarrier(i) <=> empty[i] = Free(K!Visits(0, i) - 0)
      BY <1>3 DEF EmptyBarrier, Free
    <3> QED BY <3>1, <1>5, <2>1
  <2> QED BY <2>3, <2>4
<1>7. 0 <= 0 + Stages
  BY Parameters
<1> QED BY <1>3, <1>4, <1>5, <1>6, <1>7 DEF MainloopInv

(* The cursor of the loads only moves in load() and its tail. *)
LEMMA LoadsSame ==
  ASSUME kernel' = kernel, pwrite'.count = pwrite.count
  PROVE  LoadsIssued' = LoadsIssued
  BY DEF LoadsIssued, NumTiles, Min2

(* Every step keeps the mainloop pipeline. *)
LEMMA MainloopStep ==
  ASSUME OrderInv, CursorInv, MainloopInv, [Next]_vars
  PROVE  MainloopInv'
<1> DEFINE a == pwrite.count
           w0 == Waited
<1>1. kernel' = kernel
  BY NextKeeps
<1>2. /\ Waited \in Nat /\ landed \in Nat /\ LoadsIssued \in Nat /\ a \in Nat
      /\ Stages \in Nat /\ Stages > 1
      /\ Waited <= landed /\ landed <= LoadsIssued /\ LoadsIssued <= a /\ a <= Waited + Stages
      /\ \A n \in Nat : Held(n) => n < Waited /\ a <= n + Stages
  BY MainFacts
<1>3. pwrite = K!StateAt(1, a)
  BY DEF CursorInv, ProducerCursor
<1>4. ASSUME UNCHANGED <<full, empty, landed, wpc, tile, read>>, pwrite'.count = a
      PROVE  MainloopInv'
  <2>1. Waited' = Waited /\ (\A n \in Nat : Held(n)' <=> Held(n)) /\ LoadsIssued' = LoadsIssued
    BY <1>1, <1>4, WaitedSame, LoadsSame
  <2>2. /\ DOMAIN full' = K!Index /\ \A i \in K!Index : FullBarrier(i)'
        /\ DOMAIN empty' = K!Index /\ \A i \in K!Index : EmptyBarrier(i)'
    BY <1>4, <2>1, FullKeeps, EmptyKeeps
  <2> QED BY <1>2, <1>4, <2>1, <2>2 DEF MainloopInv
<1>5. CASE LoadBegin
  <2>1. ppc = "fetch" /\ pwrite' = pstate
    BY <1>5 DEF LoadBegin
  <2>2. pwrite'.count = a
    BY <2>1 DEF CursorInv, ProducerCursor
  <2> QED BY <1>4, <1>5, <2>2 DEF LoadBegin, mainloop, math
<1>6. CASE Loaded \/ RewriteMapAB \/ LoadAdvance \/ EpilogueLoadWarp \/ LandSource
           \/ (\E x \in storing : StoreReads(x)) \/ UNCHANGED vars
  <2>1. UNCHANGED <<full, empty, landed, wpc, tile, read, pwrite>>
    BY <1>6 DEF Loaded, RewriteMapAB, LoadAdvance, EpilogueLoadWarp, EpilogueBegin, LoadSource,
                RewriteMapC, EpilogueLoadTail, LandSource, StoreReads, vars, mainloop, math, loader
  <2> QED BY <1>4, <2>1
<1>7. CASE Load
  <2>1. /\ ppc = "load" /\ PhaseDone(empty[pwrite.index], pwrite.phase)
        /\ full' = [full EXCEPT ![pwrite.index] = ArriveAndExpectTx(@, 1)]
        /\ pwrite' = K!Inc(pwrite) /\ UNCHANGED <<empty, landed, wpc, tile, read>>
    BY <1>7 DEF Load, math
  <2>2. /\ a < Waited + Stages /\ \A n \in Nat : Held(n) => a < n + Stages
        /\ K!Visits(Waited, a % Stages) = a \div Stages
    BY <2>1, SlotIsFree
  <2>3. pwrite'.count = a + 1
    <3>1. K!Inc(pwrite) = K!StateAt(1, a + 1)
      BY <1>2, <1>3, KMoves
    <3> QED BY <2>1, <3>1, KFields
  <2>4. LoadsIssued = a /\ LoadsIssued' = a + 1
    <3>1. a < Start(NumTiles + 1) /\ Start(NumTiles + 1) \in Nat
      BY <2>1, IssuedFacts
    <3>2. LoadsIssued = a
      BY <3>1, IssuedFacts
    <3>3. LoadsIssued' = IF a + 1 < Start(NumTiles + 1) THEN a + 1 ELSE Start(NumTiles + 1)
      BY <1>1, <2>3 DEF LoadsIssued, Min2, Start, NumTiles
    <3> QED BY <3>1, <3>2, <3>3, <1>2
  <2>5. Waited' = Waited /\ (\A n \in Nat : Held(n)' <=> Held(n))
    BY <1>1, <2>1, WaitedSame
  <2>6. full' = [full EXCEPT ![a % Stages] = ArriveAndExpectTx(@, 1)]
    <3>1. pwrite.index = a % Stages
      BY <1>3, KFields
    <3> QED BY <2>1, <3>1
  <2>7. DOMAIN full' = K!Index /\ \A i \in K!Index : FullBarrier(i)'
    BY <2>1, <2>2, <2>4, <2>6, FullLoad
  <2>8. DOMAIN empty' = K!Index /\ \A i \in K!Index : EmptyBarrier(i)'
    BY <2>1, <2>5, EmptyKeeps
  <2>9. landed' \in Nat /\ Waited' <= landed' /\ landed' <= LoadsIssued'
        /\ pwrite'.count <= Waited' + Stages
        /\ \A n \in Nat : Held(n)' => pwrite'.count <= n + Stages
    BY <1>2, <2>1, <2>2, <2>3, <2>4, <2>5
  <2> QED BY <2>7, <2>8, <2>9 DEF MainloopInv
<1>8. CASE LoadTail
  <2>1. ppc = "tail" /\ UNCHANGED <<full, empty, landed, wpc, tile, read>>
    BY <1>8 DEF LoadTail, mainloop, math
  <2>2. CASE pwrite.count < pstate.count + Stages
    <3>1. PhaseDone(empty[pwrite.index], pwrite.phase) /\ pwrite' = K!Inc(pwrite)
      BY <1>8, <2>2 DEF LoadTail
    <3>2. a < Waited + Stages /\ \A n \in Nat : Held(n) => a < n + Stages
      BY <3>1, SlotIsFree
    <3>3. pwrite'.count = a + 1
      <4>1. K!Inc(pwrite) = K!StateAt(1, a + 1)
        BY <1>2, <1>3, KMoves
      <4> QED BY <3>1, <4>1, KFields
    <3>4. LoadsIssued' = LoadsIssued
      <4>1. Start(NumTiles + 1) <= a /\ Start(NumTiles + 1) \in Nat
        BY <2>1, IssuedFacts
      <4>2. LoadsIssued = Start(NumTiles + 1)
        BY <4>1, IssuedFacts
      <4>3. LoadsIssued' = IF a + 1 < Start(NumTiles + 1) THEN a + 1 ELSE Start(NumTiles + 1)
        BY <1>1, <3>3 DEF LoadsIssued, Min2, Start, NumTiles
      <4> QED BY <4>1, <4>2, <4>3, <1>2
    <3>5. Waited' = Waited /\ (\A n \in Nat : Held(n)' <=> Held(n))
      BY <1>1, <2>1, WaitedSame
    <3>6. /\ DOMAIN full' = K!Index /\ \A i \in K!Index : FullBarrier(i)'
          /\ DOMAIN empty' = K!Index /\ \A i \in K!Index : EmptyBarrier(i)'
      BY <2>1, <3>4, <3>5, FullKeeps, EmptyKeeps
    <3>7. landed' \in Nat /\ Waited' <= landed' /\ landed' <= LoadsIssued'
          /\ pwrite'.count <= Waited' + Stages
          /\ \A n \in Nat : Held(n)' => pwrite'.count <= n + Stages
      BY <1>2, <2>1, <3>2, <3>3, <3>4, <3>5
    <3> QED BY <3>6, <3>7 DEF MainloopInv
  <2>3. CASE ~(pwrite.count < pstate.count + Stages)
    <3>1. pwrite' = pwrite
      BY <1>8, <2>3 DEF LoadTail
    <3> QED BY <1>4, <2>1, <3>1
  <2> QED BY <2>2, <2>3
<1>9. CASE Land
  <2>1. /\ landed < LoadsIssued /\ landed' = landed + 1
        /\ full' = [full EXCEPT ![landed % Stages] = CompleteTransaction(@, 1)]
        /\ UNCHANGED <<empty, wpc, tile, read, pwrite>>
    BY <1>9 DEF Land, math, loader
  <2>2. LoadsIssued' = LoadsIssued
    BY <1>1, <2>1, LoadsSame
  <2>3. Waited' = Waited /\ (\A n \in Nat : Held(n)' <=> Held(n))
    BY <1>1, <2>1, WaitedSame
  <2>4. DOMAIN full' = K!Index /\ \A i \in K!Index : FullBarrier(i)'
    BY <2>1, <2>2, FullLand
  <2>5. DOMAIN empty' = K!Index /\ \A i \in K!Index : EmptyBarrier(i)'
    BY <2>1, <2>3, EmptyKeeps
  <2>6. landed' \in Nat /\ Waited' <= landed' /\ landed' <= LoadsIssued'
        /\ pwrite'.count <= Waited' + Stages
        /\ \A n \in Nat : Held(n)' => pwrite'.count <= n + Stages
    BY <1>2, <2>1, <2>2, <2>3
  <2> QED BY <2>4, <2>5, <2>6 DEF MainloopInv
<1>10. ASSUME NEW w \in WarpGroups, MathWarpGroup(w) PROVE MainloopInv'
  <2>1. UNCHANGED <<full, landed, pwrite>>
    BY <1>10, MathKeepsOthers
  <2>2. LoadsIssued' = LoadsIssued
    BY <1>1, <2>1, LoadsSame
  <2>3. DOMAIN full' = K!Index /\ \A i \in K!Index : FullBarrier(i)'
    BY <2>1, <2>2, FullKeeps
  <2>4. CASE /\ Waited' = Waited + 1 /\ \A n \in Nat : Held(n)' <=> Held(n) \/ n = Waited
             /\ empty' = empty /\ PhaseDone(full[Waited % Stages], (0 + Waited \div Stages) % 2)
    <3>1. Waited < landed
      <4> DEFINE s == Waited % Stages
                 q == Waited \div Stages
                 v == K!Visits(landed, s)
      <4>1. s \in K!Index /\ q \in Nat /\ v \in Nat /\ (v = q \/ v = q + 1) /\ (v = q + 1 => Waited < landed)
        <5>1. landed <= Waited + Stages
          BY <1>2
        <5>2. s \in K!Index
          BY <1>2, KSlots
        <5>3. landed \in Nat /\ Waited \in Nat /\ Waited <= landed
          BY <1>2
        <5>4. \A m \in Nat, k \in Nat : k <= m /\ m <= k + Stages =>
                /\ K!Visits(m, k % Stages) \in Nat /\ k \div Stages \in Nat
                /\ \/ K!Visits(m, k % Stages) = k \div Stages
                   \/ K!Visits(m, k % Stages) = (k \div Stages) + 1
                /\ K!Visits(m, k % Stages) = (k \div Stages) + 1 => m > k
          BY KTurns
        <5>5. /\ q \in Nat /\ v \in Nat /\ (v = q \/ v = q + 1)
              /\ v = q + 1 => landed > Waited
          BY ONLY <5>1, <5>3, <5>4
        <5> HIDE DEF s, q, v
        <5> QED BY <5>2, <5>3, <5>5
      <4>2. full[s] = Flying(v) \/ full[s] = Landed(v)
        <5>1. FullBarrier(s)
          BY <4>1 DEF MainloopInv
        <5> QED BY <5>1, FullForm
      <4>3. PhaseDone(full[s], (0 + q) % 2)
        BY <2>4
      <4> HIDE DEF s, q, v
      <4>4. v % 2 # (0 + q) % 2
        BY <4>1, <4>2, <4>3, BarrierSteps
      <4>5. v # q
        BY <4>1, <4>4
      <4> QED BY <4>1, <4>5
    <3>2. DOMAIN empty' = K!Index /\ \A i \in K!Index : EmptyBarrier(i)'
      BY <2>4, <3>1, EmptyWait
    <3>3. landed' \in Nat /\ Waited' <= landed' /\ landed' <= LoadsIssued'
          /\ pwrite'.count <= Waited' + Stages
          /\ \A n \in Nat : Held(n)' => pwrite'.count <= n + Stages
      BY <1>2, <2>1, <2>2, <2>4, <3>1
    <3> QED BY <2>3, <3>2, <3>3 DEF MainloopInv
  <2>5. ASSUME NEW x \in Nat, Held(x), Waited' = Waited,
               \A n \in Nat : Held(n)' <=> Held(n) /\ n # x,
               empty' = [empty EXCEPT ![x % Stages] = Arrive(@)]
        PROVE  MainloopInv'
    <3>1. DOMAIN empty' = K!Index /\ \A i \in K!Index : EmptyBarrier(i)'
      BY <2>5, EmptyFree
    <3>2. landed' \in Nat /\ Waited' <= landed' /\ landed' <= LoadsIssued'
          /\ pwrite'.count <= Waited' + Stages
          /\ \A n \in Nat : Held(n)' => pwrite'.count <= n + Stages
      BY <1>2, <2>1, <2>2, <2>5
    <3> QED BY <2>3, <3>1, <3>2 DEF MainloopInv
  <2>6. CASE Waited' = Waited /\ (\A n \in Nat : Held(n)' <=> Held(n)) /\ empty' = empty
    <3>1. DOMAIN empty' = K!Index /\ \A i \in K!Index : EmptyBarrier(i)'
      BY <2>6, EmptyKeeps
    <3>2. landed' \in Nat /\ Waited' <= landed' /\ landed' <= LoadsIssued'
          /\ pwrite'.count <= Waited' + Stages
          /\ \A n \in Nat : Held(n)' => pwrite'.count <= n + Stages
      BY <1>2, <2>1, <2>2, <2>6
    <3> QED BY <2>3, <3>1, <3>2 DEF MainloopInv
  <2> QED BY <1>1, <1>10, <2>4, <2>5, <2>6, MathWaited
<1> QED BY <1>5, <1>6, <1>7, <1>8, <1>9, <1>10 DEF Next, LoadWarp, Terminated

-----------------------------------------------------------------------------
(* 6. The cursors of the epilogue.                                         *)

(* Each work tile has as many subtiles. *)
LEMMA Bases ==
  /\ Base(1) = 0 /\ Base(2) = Subtiles
  /\ \A t \in Nat \ {0} : /\ Base(t) \in Nat /\ Base(t + 1) = Base(t) + Subtiles
                           /\ Base(t + 1) \in Nat /\ Base(t + 2) = Base(t) + 2 * Subtiles
                           /\ Base(t + 2) \in Nat
  /\ \A s, t \in Nat \ {0} : s < t => Base(s) + Subtiles <= Base(t)
  /\ \A n \in Nat : Base(n + 1) = n * Subtiles
<1>1. Subtiles \in Nat
  BY Parameters
<1>2. Base(1) = 0 /\ Base(2) = Subtiles
  BY <1>1 DEF Base
<1>3. ASSUME NEW t \in Nat \ {0}
      PROVE  /\ Base(t) \in Nat /\ Base(t + 1) = Base(t) + Subtiles
             /\ Base(t + 1) \in Nat /\ Base(t + 2) = Base(t) + 2 * Subtiles
             /\ Base(t + 2) \in Nat
  <2> DEFINE q == t - 1
  <2>1. q \in Nat /\ t - 1 = q /\ t + 1 - 1 = q + 1 /\ t + 2 - 1 = q + 2
    OBVIOUS
  <2> HIDE DEF q
  <2>2. Base(t) = q * Subtiles /\ Base(t + 1) = (q + 1) * Subtiles /\ Base(t + 2) = (q + 2) * Subtiles
    BY <2>1 DEF Base
  <2>3. (q + 1) * Subtiles = q * Subtiles + Subtiles /\ (q + 2) * Subtiles = q * Subtiles + 2 * Subtiles
        /\ q * Subtiles \in Nat
    BY <1>1, <2>1
  <2> QED BY <1>1, <2>2, <2>3
<1>4. ASSUME NEW s \in Nat \ {0}, NEW t \in Nat \ {0}, s < t
      PROVE  Base(s) + Subtiles <= Base(t)
  <2>1. PICK d \in Nat : t = s + 1 + d
    <3>1. t - s - 1 \in Nat /\ t = s + 1 + (t - s - 1)
      BY <1>4
    <3> QED BY <3>1
  <2>2. (t - 1) * Subtiles = (s - 1) * Subtiles + Subtiles + d * Subtiles
    <3>1. t - 1 = (s - 1) + 1 + d /\ s - 1 \in Nat
      BY <2>1
    <3>2. \A a, b, c \in Nat : (a + 1 + b) * c = a * c + c + b * c
      OBVIOUS
    <3> QED BY <1>1, <2>1, <3>1, <3>2
  <2>3. d * Subtiles \in Nat /\ (s - 1) * Subtiles \in Nat
    <3>1. s - 1 \in Nat /\ \A a, b \in Nat : a * b \in Nat
      OBVIOUS
    <3> QED BY <1>1, <2>1, <3>1
  <2> DEFINE x == (s - 1) * Subtiles
             y == d * Subtiles
             z == (t - 1) * Subtiles
  <2>4. Base(s) = x /\ Base(t) = z
    BY DEF Base
  <2> HIDE DEF x, y, z
  <2>5. z = x + Subtiles + y /\ y \in Nat /\ x \in Nat
    BY <2>2, <2>3 DEF x, y, z
  <2> QED BY <1>1, <2>4, <2>5
<1>5. ASSUME NEW n \in Nat PROVE Base(n + 1) = n * Subtiles
  <2>1. n + 1 - 1 = n
    OBVIOUS
  <2> QED BY <2>1 DEF Base
<1> QED BY <1>2, <1>3, <1>4, <1>5

(* The kernel stays the same, and with it the stages of the store pipeline. *)
LEMMA StoreSame ==
  ASSUME kernel' = kernel
  PROVE  /\ ReuseSmemC' = ReuseSmemC /\ StoreStages' = StoreStages /\ NumTiles' = NumTiles
         /\ D!Cursor' = D!Cursor /\ \A p, n : D!StateAt(p, n)' = D!StateAt(p, n)
         /\ \A t : IsValid(t)' = IsValid(t)
         /\ \A i : SlotD(i)' = SlotD(i)
<1>1. ReuseSmemC' = ReuseSmemC /\ NumTiles' = NumTiles
  BY DEF ReuseSmemC, NumTiles
<1>2. StoreStages' = StoreStages
  BY <1>1 DEF StoreStages
<1>3. D!Cursor' = D!Cursor /\ \A p, n : D!StateAt(p, n)' = D!StateAt(p, n)
  BY <1>2 DEF D!Cursor, D!Index, D!StateAt
<1> QED BY <1>1, <1>2, <1>3 DEF IsValid, SlotD

(* What the invariant says of one group. *)
LEMMA EpilogueFacts ==
  ASSUME OrderInv, EpilogueCursorInv, NEW w \in WarpGroups
  PROVE  /\ EpilogueCursor(w)
         /\ tile[w] \in Nat \ {0} /\ Base(tile[w]) \in Nat
         /\ Base(tile[w] + 1) = Base(tile[w]) + Subtiles /\ Base(tile[w] + 2) = Base(tile[w]) + 2 * Subtiles
         /\ sub[w] \in Nat /\ sub[w] < Subtiles /\ sub[w] + 1 <= Subtiles
         /\ Subtile(w) = Base(tile[w]) + sub[w] /\ Subtile(w) \in Nat
         /\ rstate[w] = C!StateAt(0, rstate[w].count) /\ rstate[w].count \in Nat
         /\ sub \in [WarpGroups -> Nat] /\ issued \in [WarpGroups -> Nat]
         /\ sstate \in [WarpGroups -> D!Cursor] /\ rstate \in [WarpGroups -> C!Cursor]
         /\ wait \in [WarpGroups -> C!Cursor]
<1>1. /\ EpilogueCursor(w) /\ sub \in [WarpGroups -> Nat] /\ issued \in [WarpGroups -> Nat]
      /\ sstate \in [WarpGroups -> D!Cursor] /\ rstate \in [WarpGroups -> C!Cursor]
      /\ wait \in [WarpGroups -> C!Cursor]
  BY DEF EpilogueCursorInv
<1>2. tile[w] \in Nat \ {0} /\ Subtiles \in Nat
  BY GroupOrder, Parameters
<1>3. Base(tile[w]) \in Nat /\ Base(tile[w] + 1) = Base(tile[w]) + Subtiles
      /\ Base(tile[w] + 2) = Base(tile[w]) + 2 * Subtiles
  BY <1>2, Bases
<1>4. /\ sub[w] \in 0 .. Subtiles - 1
      /\ rstate[w] = C!StateAt(0, rstate[w].count) /\ rstate[w].count \in Nat
  BY <1>1 DEF EpilogueCursor
<1>5. sub[w] \in Nat /\ sub[w] < Subtiles /\ sub[w] + 1 <= Subtiles
  BY <1>2, <1>4
<1>6. Subtile(w) = Base(tile[w]) + sub[w]
  BY DEF Subtile, Base
<1>7. Subtile(w) \in Nat
  BY <1>3, <1>5, <1>6
<1> QED BY <1>1, <1>2, <1>3, <1>4, <1>5, <1>6, <1>7

(* A group's epilogue cursors stay right when that group does not move. *)
LEMMA EpilogueFrame ==
  ASSUME NEW u \in WarpGroups, EpilogueCursor(u), kernel' = kernel,
         wpc'[u] = wpc[u], tile'[u] = tile[u], sub'[u] = sub[u], wait'[u] = wait[u],
         rstate'[u] = rstate[u], sstate'[u] = sstate[u], issued'[u] = issued[u]
  PROVE  EpilogueCursor(u)'
<1>1. Stored(u)' = Stored(u) /\ StoresWaited(u)' = StoresWaited(u)
  BY DEF Stored, StoresWaited
<1>2. Returned(u)' = Returned(u)
  BY <1>1, StoreSame DEF Returned, UnacquiredStages
<1>3. Subtile(u)' = Subtile(u)
  BY DEF Subtile
<1> QED BY <1>1, <1>2, <1>3, StoreSame DEF EpilogueCursor

(* Outside the epilogue a group only moves its program counter. *)
LEMMA EpilogueOutside ==
  ASSUME NEW u \in WarpGroups, EpilogueCursor(u), kernel' = kernel,
         wpc[u] \notin EpilogueSection, wpc'[u] \notin EpilogueSection,
         tile'[u] = tile[u], sub'[u] = sub[u], wait'[u] = wait[u],
         rstate'[u] = rstate[u], sstate'[u] = sstate[u], issued'[u] = issued[u]
  PROVE  EpilogueCursor(u)'
<1>1. Stored(u)' = 0 /\ Stored(u) = 0
  BY DEF Stored, EpilogueSection
<1> QED BY <1>1, StoreSame DEF EpilogueCursor, EpilogueSection

(* All epilogue cursors start at the first subtile of their work tile. *)
LEMMA EpilogueCursorInit == Init => EpilogueCursorInv
<1> SUFFICES ASSUME Init PROVE EpilogueCursorInv
  OBVIOUS
<1>1. kernel \in Kernels /\ NumTiles \in Nat /\ Subtiles \in Nat /\ Subtiles > 0
      /\ kernel.LoadNeeded \in BOOLEAN /\ StagesC \in Nat
  BY KernelType, Parameters DEF Init
<1>2. SourceCursor
  <2>1. estate = C!StateAt(1, 0) /\ etile = 1 /\ epc \in {"order", "exit"}
        /\ (~kernel.LoadNeeded => epc = "exit")
    BY CCursor DEF Init
  <2>2. estate.count = 0 /\ 1 \in 1 .. NumTiles + 1
    BY <1>1, <2>1, CFields
  <2> QED BY <2>1, <2>2 DEF SourceCursor
<1>3. ASSUME NEW w \in WarpGroups
      PROVE  EpilogueCursor(w) /\ sstate[w] \in D!Cursor /\ rstate[w] \in C!Cursor /\ wait[w] \in C!Cursor
  <2>1. /\ wpc[w] \in {"order", "exit"} /\ tile[w] = w + 1 /\ sub[w] = 0 /\ issued[w] = 0
        /\ wait[w] = C!DefaultState
    BY DEF Init
  <2>2. w \in Nat /\ w * Subtiles \in Nat /\ Base(tile[w]) = w * Subtiles
    <3>1. w \in Nat
      BY Groups
    <3> QED BY <1>1, <2>1, <3>1, Bases
  <2>3. rstate[w] = C!StateAt(0, w * Subtiles)
    <3>1. rstate[w] = C!Advance(C!StateAt(0, 0), w * Subtiles)
      BY CCursor DEF Init
    <3>2. C!Advance(C!StateAt(0, 0), w * Subtiles) = C!StateAt(0, 0 + w * Subtiles)
      BY <2>2, CCursor
    <3>3. 0 + w * Subtiles = w * Subtiles
      BY <2>2
    <3> QED BY <3>1, <3>2, <3>3
  <2>4. sstate[w] = D!StateAt(1, w * Subtiles)
    <3>1. sstate[w] = D!Advance(D!StateAt(1, 0), w * Subtiles)
      BY DCursor DEF Init
    <3>2. D!Advance(D!StateAt(1, 0), w * Subtiles) = D!StateAt(1, 0 + w * Subtiles)
      BY <2>2, DCursor
    <3>3. 0 + w * Subtiles = w * Subtiles
      BY <2>2
    <3> QED BY <3>1, <3>2, <3>3
  <2>5. rstate[w].count = w * Subtiles
    BY <2>3, CFields
  <2>6. Stored(w) = 0 /\ Base(tile[w]) + 0 = w * Subtiles /\ wpc[w] \notin EpilogueSection
    BY <2>1, <2>2 DEF Stored, EpilogueSection
  <2>7. 0 \in 0 .. Subtiles - 1
    BY <1>1
  <2>8. EpilogueCursor(w)
    <3>1. sstate[w] = D!StateAt(1, IF wpc[w] = "hand" THEN Base(tile[w] + 2) ELSE Base(tile[w]) + Stored(w))
      BY <2>1, <2>4, <2>6
    <3>2. rstate[w] = C!StateAt(0, rstate[w].count) /\ rstate[w].count \in Nat
      BY <2>2, <2>3, <2>5
    <3>3. rstate[w].count = Base(tile[w])
      BY <2>2, <2>5
    <3>4. wpc[w] \notin {"stored", "drain", "source", "read", "write", "acquire", "hand"}
      BY <2>1
    <3>5. sub[w] \in 0 .. Subtiles - 1 /\ issued[w] = Stored(w)
      BY <2>1, <2>6, <2>7
    <3> QED BY <2>6, <3>1, <3>2, <3>3, <3>4, <3>5 DEF EpilogueCursor
  <2>9. sstate[w] \in D!Cursor /\ rstate[w] \in C!Cursor /\ wait[w] \in C!Cursor
    <3>1. sstate[w] \in D!Cursor
      BY <2>2, <2>4, DCursor
    <3>2. rstate[w] \in C!Cursor
      BY <2>2, <2>3, CCursor
    <3>3. C!StateAt(0, 0) \in C!Cursor
      BY CCursor
    <3>4. wait[w] \in C!Cursor
      BY <2>1, <3>3, CCursor
    <3> QED BY <3>1, <3>2, <3>4
  <2> QED BY <2>8, <2>9
<1>4. sub \in [WarpGroups -> Nat] /\ issued \in [WarpGroups -> Nat]
  BY DEF Init
<1>5. sstate \in [WarpGroups -> D!Cursor] /\ rstate \in [WarpGroups -> C!Cursor]
      /\ wait \in [WarpGroups -> C!Cursor]
  <2>1. /\ DOMAIN sstate = WarpGroups /\ sstate = [w \in WarpGroups |-> sstate[w]]
        /\ DOMAIN rstate = WarpGroups /\ rstate = [w \in WarpGroups |-> rstate[w]]
        /\ DOMAIN wait = WarpGroups /\ wait = [w \in WarpGroups |-> wait[w]]
    BY DEF Init
  <2> QED BY <1>3, <2>1
<1> QED BY <1>2, <1>3, <1>4, <1>5 DEF EpilogueCursorInv

(* load_wait_state is the store cursor in the opposite phase. *)
LEMMA FlipState ==
  ASSUME NEW n \in Nat, ReuseSmemC, NEW s, s = D!StateAt(1, n)
  PROVE  [s EXCEPT !.phase = C!Flip(@)] = C!StateAt(0, n)
<1>1. D!StateAt(1, n) = [index |-> n % StagesC, phase |-> (1 + n \div StagesC) % 2, count |-> n]
  BY Parameters DEF D!StateAt
<1>2. n \div StagesC \in Nat
  BY CSlots
<1>3. \A q \in Nat : 1 - ((1 + q) % 2) = (0 + q) % 2
  OBVIOUS
<1>4. 1 - ((1 + n \div StagesC) % 2) = (0 + n \div StagesC) % 2
  BY <1>2, <1>3
<1>5. [s EXCEPT !.phase = C!Flip(@)]
        = [index |-> n % StagesC, phase |-> 1 - ((1 + n \div StagesC) % 2), count |-> n]
  BY <1>1 DEF C!Flip
<1> QED BY <1>4, <1>5 DEF C!StateAt

(* A step that leaves the cursors alone and counts no subtile *)
LEMMA EpilogueGoes ==
  ASSUME OrderInv, EpilogueCursorInv, NEW w \in WarpGroups, kernel' = kernel,
         tile'[w] = tile[w], sub'[w] = sub[w], wait'[w] = wait[w],
         rstate'[w] = rstate[w], sstate'[w] = sstate[w], issued'[w] = issued[w],
         \/ wpc[w] = "source" /\ wpc'[w] = "read"
         \/ wpc[w] = "stored" /\ wpc'[w] = "drain"
  PROVE  EpilogueCursor(w)'
<1>1. EpilogueCursor(w)
  BY EpilogueFacts
<1>2. Stored(w)' = Stored(w) /\ StoresWaited(w)' = StoresWaited(w)
  BY DEF Stored, StoresWaited
<1>3. Returned(w)' = Returned(w)
  BY <1>2, StoreSame DEF Returned, UnacquiredStages
<1>4. Subtile(w)' = Subtile(w)
  BY DEF Subtile
<1> QED BY <1>1, <1>2, <1>3, <1>4, StoreSame DEF EpilogueCursor, EpilogueSection

(* The epilogue begins: the cursors stand at the first subtile of the tile. *)
LEMMA EpilogueTurnStep ==
  ASSUME OrderInv, EpilogueCursorInv, NEW w \in WarpGroups, EpilogueTurn(w), kernel' = kernel
  PROVE  EpilogueCursor(w)' /\ wait'[w] = C!StateAt(0, wait'[w].count) /\ wait'[w].count \in Nat
<1> DEFINE t == tile[w]
           b == Base(t)
<1>1. EpilogueCursor(w) /\ b \in Nat /\ Subtiles \in Nat /\ Subtiles > 0
      /\ UnacquiredStages \in Nat /\ kernel.LoadNeeded \in BOOLEAN
  BY EpilogueFacts, Parameters, KernelType DEF OrderInv
<1>2. /\ wpc[w] = "turn" /\ wpc'[w] = IF kernel.LoadNeeded THEN "source" ELSE "write"
      /\ sub'[w] = 0 /\ tile' = tile /\ rstate' = rstate /\ sstate' = sstate /\ issued' = issued
      /\ wait'[w] = IF ReuseSmemC THEN [sstate[w] EXCEPT !.phase = C!Flip(@)] ELSE rstate[w]
  BY EpilogueFacts DEF EpilogueTurn, OrderInv, Goto
<1>3. Stored(w) = 0 /\ Stored(w)' = 0
  <2>1. sub'[w] = 0 /\ wpc'[w] \in {"source", "write"}
    BY <1>2
  <2> QED BY <1>2, <2>1 DEF Stored
<1>4. b + 0 = b
  BY <1>1
<1>5. /\ sstate[w] = D!StateAt(1, b) /\ issued[w] = 0
      /\ rstate[w] = C!StateAt(0, rstate[w].count) /\ rstate[w].count \in Nat
      /\ kernel.LoadNeeded => rstate[w].count = b
  <2> HIDE DEF b
  <2>1. sstate[w] = D!StateAt(1, b + Stored(w)) /\ issued[w] = Stored(w)
        /\ rstate[w] = C!StateAt(0, rstate[w].count) /\ rstate[w].count \in Nat
        /\ (kernel.LoadNeeded => rstate[w].count = b)
    BY <1>1, <1>2 DEF EpilogueCursor, EpilogueSection, b
  <2> QED BY <2>1, <1>3, <1>4
<1>6. wait'[w] = C!StateAt(0, IF ReuseSmemC THEN b ELSE rstate[w].count)
  BY <1>1, <1>2, <1>5, FlipState
<1>7. wait'[w].count = IF ReuseSmemC THEN b ELSE rstate[w].count
  BY <1>6, CFields
<1>8. kernel.LoadNeeded => wait'[w] = C!StateAt(0, b)
  BY <1>5, <1>6
<1>9. Subtile(w)' = b
  <2>1. Subtile(w)' = b + 0
    BY <1>2 DEF Subtile, Base
  <2> QED BY <2>1, <1>1
<1>10. kernel.LoadNeeded => Returned(w)' = 0
  <2> SUFFICES ASSUME kernel.LoadNeeded PROVE Returned(w)' = 0
    OBVIOUS
  <2>1. StoresWaited(w)' = 0 /\ wpc'[w] = "source" /\ sub'[w] = 0
    BY <1>2 DEF StoresWaited
  <2>2. UnacquiredStages' = UnacquiredStages
    BY DEF UnacquiredStages
  <2>3. UnacquiredStages = 0 \/ 0 < UnacquiredStages
    BY <1>1
  <2> QED BY <2>1, <2>2, <2>3 DEF Returned
<1> HIDE DEF b
<1>11. 0 \in 0 .. Subtiles - 1
  BY <1>1
<1>12. EpilogueCursor(w)'
  <2>1. sub'[w] \in 0 .. Subtiles - 1 /\ wpc'[w] \notin {"stored", "drain", "read", "acquire", "hand"}
        /\ (wpc'[w] = "source" => kernel'.LoadNeeded) /\ issued'[w] = Stored(w)'
    BY <1>2, <1>3, <1>5, <1>11
  <2>2. sstate'[w] = D!StateAt(1, IF wpc[w] = "hand" THEN Base(tile[w] + 2) ELSE Base(tile[w]) + Stored(w))'
    <3>1. wpc'[w] # "hand" /\ Base(tile[w])' + Stored(w)' = b
      BY <1>2, <1>3, <1>4 DEF b, Base
    <3> QED BY <1>2, <1>5, <3>1, StoreSame
  <2>3. wpc'[w] \in {"source", "write"} /\ (kernel'.LoadNeeded => wpc'[w] = "source")
    BY <1>2
  <2>4. Base(tile[w])' = b /\ (kernel'.LoadNeeded => rstate'[w].count = b + Returned(w)')
    BY <1>2, <1>4, <1>5, <1>10 DEF b, Base
  <2>5. rstate'[w] = C!StateAt(0, rstate'[w].count) /\ rstate'[w].count \in Nat
    BY <1>2, <1>5
  <2>6. wpc'[w] = "source" => wait'[w] = C!StateAt(0, Subtile(w)')
    BY <2>1, <1>8, <1>9
  <2> QED BY <2>1, <2>2, <2>3, <2>4, <2>5, <2>6 DEF EpilogueCursor, EpilogueSection
<1> QED BY <1>1, <1>5, <1>6, <1>7, <1>12

(* A subtile of C is read, and without reuse its slot given back. *)
LEMMA ReadSourceStep ==
  ASSUME OrderInv, EpilogueCursorInv, NEW w \in WarpGroups, ReadSource(w), kernel' = kernel
  PROVE  EpilogueCursor(w)' /\ wait'[w] = C!StateAt(0, wait'[w].count) /\ wait'[w].count \in Nat
<1> DEFINE b == Base(tile[w])
           s == sub[w]
           c == rstate[w].count
<1>1. /\ EpilogueCursor(w) /\ b \in Nat /\ s \in Nat /\ Subtile(w) = b + s /\ Subtile(w) \in Nat
      /\ rstate[w] = C!StateAt(0, c) /\ c \in Nat
  BY EpilogueFacts
<1>2. /\ wpc[w] = "read" /\ wpc'[w] = "write" /\ sub' = sub /\ tile' = tile /\ sstate' = sstate
      /\ issued' = issued /\ wait'[w] = C!Inc(wait[w])
      /\ IF ReuseSmemC THEN rstate' = rstate ELSE rstate'[w] = C!Inc(rstate[w])
  BY EpilogueFacts DEF ReadSource, ReleaseSource, OrderInv, Goto
<1>3. /\ kernel.LoadNeeded /\ wait[w] = C!StateAt(0, Subtile(w)) /\ c = b + Returned(w)
      /\ issued[w] = Stored(w) /\ sstate[w] = D!StateAt(1, b + Stored(w)) /\ s \in 0 .. Subtiles - 1
  BY <1>1, <1>2 DEF EpilogueCursor, EpilogueSection
<1>4. Stored(w)' = Stored(w) /\ Subtile(w)' = Subtile(w) /\ Base(tile[w])' = b
  BY <1>2 DEF Stored, Subtile, Base
<1>5. wait'[w] = C!StateAt(0, Subtile(w) + 1)
  BY <1>1, <1>2, <1>3, CMoves
<1>6. wait'[w].count = Subtile(w) + 1 /\ Subtile(w) + 1 \in Nat
  BY <1>1, <1>5, CFields
<1>7. rstate'[w] = C!StateAt(0, rstate'[w].count) /\ rstate'[w].count \in Nat
      /\ rstate'[w].count = b + Returned(w)'
  <2>1. CASE ReuseSmemC
    <3>1. StoresWaited(w)' = StoresWaited(w)
      BY <1>2 DEF StoresWaited
    <3>2. Returned(w)' = Returned(w)
      BY <2>1, <3>1, StoreSame DEF Returned, UnacquiredStages
    <3> QED BY <2>1, <3>2, <1>1, <1>2, <1>3
  <2>2. CASE ~ReuseSmemC
    <3>1. Returned(w) = s /\ Returned(w)' = s + 1
      BY <2>2, <1>2, StoreSame DEF Returned
    <3>2. rstate'[w] = C!StateAt(0, c + 1)
      BY <2>2, <1>1, <1>2, CMoves
    <3>3. rstate'[w].count = c + 1
      BY <3>2, CFields
    <3>4. c + 1 = b + (s + 1) /\ c + 1 \in Nat
      BY <3>1, <1>1, <1>3
    <3> QED BY <3>1, <3>2, <3>3, <3>4
  <2> QED BY <2>1, <2>2
<1>8. EpilogueCursor(w)'
  BY <1>2, <1>3, <1>4, <1>5, <1>7, StoreSame DEF EpilogueCursor, EpilogueSection
<1> QED BY <1>5, <1>6, <1>8

(* A store is issued. *)
LEMMA WriteStep ==
  ASSUME OrderInv, EpilogueCursorInv, NEW w \in WarpGroups, WriteAndStore(w), kernel' = kernel
  PROVE  EpilogueCursor(w)'
<1> DEFINE b == Base(tile[w])
           s == sub[w]
<1>1. /\ EpilogueCursor(w) /\ b \in Nat /\ s \in Nat /\ Subtile(w) = b + s /\ Subtile(w) \in Nat
  BY EpilogueFacts
<1>2. /\ wpc[w] = "write" /\ wpc'[w] = "acquire" /\ sub' = sub /\ tile' = tile /\ wait' = wait
      /\ rstate' = rstate /\ sstate'[w] = D!Inc(sstate[w]) /\ issued'[w] = issued[w] + 1
  BY EpilogueFacts DEF WriteAndStore, OrderInv, Goto
<1>3. Stored(w) = s /\ Stored(w)' = s + 1 /\ Subtile(w)' = Subtile(w) /\ Base(tile[w])' = b
      /\ StoresWaited(w)' = StoresWaited(w)
  BY <1>2 DEF Stored, Subtile, Base, StoresWaited
<1>4. Returned(w)' = Returned(w)
  BY <1>2, <1>3, StoreSame DEF Returned, UnacquiredStages
<1>5. issued[w] = s /\ sstate[w] = D!StateAt(1, b + s)
  BY <1>1, <1>2, <1>3 DEF EpilogueCursor
<1>6. sstate'[w] = D!StateAt(1, b + (s + 1))
  <2>1. b + s \in Nat /\ b + s + 1 = b + (s + 1)
    BY <1>1
  <2>2. D!Inc(sstate[w]) = D!StateAt(1, b + s + 1)
    BY <1>5, <2>1, DMoves
  <2> QED BY <1>2, <2>1, <2>2
<1> HIDE DEF b, s
<1>8. sstate'[w] = D!StateAt(1, IF wpc[w] = "hand" THEN Base(tile[w] + 2) ELSE Base(tile[w]) + Stored(w))'
  <2>1. wpc'[w] # "hand" /\ Base(tile[w])' + Stored(w)' = b + (s + 1)
    BY <1>2, <1>3
  <2> QED BY <1>6, <2>1, StoreSame
<1> QED BY <1>1, <1>2, <1>3, <1>4, <1>5, <1>8, StoreSame DEF EpilogueCursor, EpilogueSection, b, s

(* The oldest store that may still read is waited for, and with reuse its  *)
(* slot given back: as many slots are back as stores are known to be over. *)
LEMMA AcquireStep ==
  ASSUME OrderInv, EpilogueCursorInv, NEW w \in WarpGroups, AcquireStore(w), kernel' = kernel
  PROVE  EpilogueCursor(w)'
<1> DEFINE b == Base(tile[w])
           s == sub[w]
           c == rstate[w].count
           U == UnacquiredStages
<1>1. /\ EpilogueCursor(w) /\ b \in Nat /\ s \in Nat /\ s + 1 <= Subtiles
      /\ Subtile(w) = b + s /\ Subtile(w) \in Nat
      /\ rstate[w] = C!StateAt(0, c) /\ c \in Nat /\ U \in Nat /\ Subtiles \in Nat
  BY EpilogueFacts, Parameters
<1>2. /\ wpc[w] = "acquire"
      /\ wpc'[w] = IF s + 1 = Subtiles THEN "stored" ELSE IF kernel.LoadNeeded THEN "source" ELSE "write"
      /\ sub'[w] = IF s + 1 = Subtiles THEN s ELSE s + 1
      /\ tile' = tile /\ wait' = wait /\ sstate' = sstate /\ issued' = issued
      /\ IF ReuseSmemC /\ issued[w] > U THEN rstate'[w] = C!Inc(rstate[w]) ELSE rstate' = rstate
  BY EpilogueFacts DEF AcquireStore, ReleaseSource, OrderInv, Goto
<1>3. /\ issued[w] = s + 1 /\ Stored(w) = s + 1 /\ sstate[w] = D!StateAt(1, b + Stored(w))
      /\ kernel.LoadNeeded => c = b + Returned(w) /\ wait[w] = C!StateAt(0, Subtile(w) + 1)
  <2>1. Stored(w) = s + 1
    BY <1>2 DEF Stored
  <2> QED BY <2>1, <1>1, <1>2 DEF EpilogueCursor, EpilogueSection
<1>4. Stored(w)' = s + 1 /\ Base(tile[w])' = b
  BY <1>2 DEF Stored, Base
<1>5. kernel.LoadNeeded => Returned(w)' = Returned(w) + IF ReuseSmemC /\ s + 1 > U THEN 1 ELSE 0
  <2> SUFFICES ASSUME kernel.LoadNeeded
               PROVE  Returned(w)' = Returned(w) + IF ReuseSmemC /\ s + 1 > U THEN 1 ELSE 0
    OBVIOUS
  <2>1. CASE ReuseSmemC
    <3>1. StoresWaited(w) = s
      BY <1>2 DEF StoresWaited
    <3>2. StoresWaited(w)' = s + 1
      BY <1>2 DEF StoresWaited
    <3>3. UnacquiredStages' = U /\ ReuseSmemC'
      BY <2>1, StoreSame DEF UnacquiredStages
    <3>4. Returned(w) = IF s < U THEN 0 ELSE s - U
      BY <2>1, <3>1 DEF Returned
    <3>5. Returned(w)' = IF s + 1 < U THEN 0 ELSE s + 1 - U
      <4>1. Returned(w)' = IF StoresWaited(w)' < U THEN 0 ELSE StoresWaited(w)' - U
        BY <3>3 DEF Returned
      <4> QED BY <3>2, <4>1, <1>1
    <3> HIDE DEF U, s
    <3>6. (IF s + 1 < U THEN 0 ELSE s + 1 - U) = (IF s < U THEN 0 ELSE s - U) + IF s + 1 > U THEN 1 ELSE 0
      BY <1>1
    <3> QED BY <2>1, <3>4, <3>5, <3>6
  <2>2. CASE ~ReuseSmemC
    <3>1. Returned(w) = s + 1
      BY <2>2, <1>2 DEF Returned
    <3>2. Returned(w)' = s + 1
      BY <2>2, <1>2, StoreSame DEF Returned
    <3> QED BY <2>2, <3>1, <3>2, <1>1
  <2> QED BY <2>1, <2>2
<1>6. rstate'[w] = C!StateAt(0, c + IF ReuseSmemC /\ s + 1 > U THEN 1 ELSE 0)
  <2>1. rstate[w] = C!StateAt(0, c) /\ c \in Nat
    BY <1>1
  <2>2. C!Inc(rstate[w]) = C!StateAt(0, c + 1) /\ c + 0 = c
    BY <2>1, CMoves
  <2>3. CASE ReuseSmemC /\ s + 1 > U
    BY <2>2, <2>3, <1>2, <1>3
  <2>4. CASE ~(ReuseSmemC /\ s + 1 > U)
    BY <2>1, <2>2, <2>4, <1>2, <1>3
  <2> QED BY <2>3, <2>4
<1>7. rstate'[w].count = c + IF ReuseSmemC /\ s + 1 > U THEN 1 ELSE 0
  BY <1>6, CFields
<1> HIDE DEF U, c, b, s
<1>8. rstate'[w] = C!StateAt(0, rstate'[w].count) /\ rstate'[w].count \in Nat
  BY <1>1, <1>6, <1>7
<1>9. kernel.LoadNeeded => rstate'[w].count = b + Returned(w)'
  <2>1. kernel.LoadNeeded => Returned(w) \in Nat
    <3>1. StoresWaited(w) = s
      BY <1>2 DEF StoresWaited, s
    <3> QED BY <3>1, <1>1, <1>2 DEF Returned, U, s
  <2> QED BY <2>1, <1>1, <1>3, <1>5, <1>7
<1>10. sub'[w] \in 0 .. Subtiles - 1 /\ (wpc'[w] \in {"stored", "drain"} => sub'[w] + 1 = Subtiles)
  BY <1>1, <1>2
<1>11. kernel.LoadNeeded /\ wpc'[w] = "source" => wait'[w] = C!StateAt(0, Subtile(w)')
  <2> SUFFICES ASSUME kernel.LoadNeeded, wpc'[w] = "source"
               PROVE  wait'[w] = C!StateAt(0, Subtile(w)')
    OBVIOUS
  <2>1. sub'[w] = s + 1
    BY <1>2
  <2>2. Subtile(w)' = b + (s + 1)
    BY <2>1, <1>2 DEF Subtile, b, Base
  <2>3. b + (s + 1) = Subtile(w) + 1
    BY <1>1
  <2> QED BY <2>2, <2>3, <1>2, <1>3
<1>12. sstate'[w] = D!StateAt(1, IF wpc[w] = "hand" THEN Base(tile[w] + 2) ELSE Base(tile[w]) + Stored(w))'
  <2>1. wpc'[w] # "hand" /\ Base(tile[w])' + Stored(w)' = b + Stored(w)
    BY <1>2, <1>3, <1>4
  <2> QED BY <1>2, <1>3, <2>1, StoreSame
<1>13. wpc'[w] \in {"stored", "source", "write"} /\ (wpc'[w] = "source" => kernel'.LoadNeeded)
       /\ (wpc'[w] = "write" => ~kernel'.LoadNeeded) /\ issued'[w] = Stored(w)'
  BY <1>2, <1>3, <1>4
<1>14. kernel'.LoadNeeded => rstate'[w].count = Base(tile[w])' + Returned(w)'
  BY <1>4, <1>9
<1> QED BY <1>8, <1>10, <1>11, <1>12, <1>13, <1>14 DEF EpilogueCursor, EpilogueSection

(* store_tail: the remaining slots are given back and the subtiles of the  *)
(* other group are skipped.                                                *)
LEMMA StoreTailStep ==
  ASSUME OrderInv, EpilogueCursorInv, NEW w \in WarpGroups, StoreTail(w), kernel' = kernel
  PROVE  EpilogueCursor(w)'
<1> DEFINE b == Base(tile[w])
           s == sub[w]
           c == rstate[w].count
           U == UnacquiredStages
           n == IF ReuseSmemC THEN Min2(UnacquiredStages, Subtiles) ELSE 0
<1>1. /\ EpilogueCursor(w) /\ b \in Nat /\ s \in Nat /\ Base(tile[w] + 2) = b + 2 * Subtiles
      /\ rstate[w] = C!StateAt(0, c) /\ c \in Nat /\ U \in Nat /\ Subtiles \in Nat /\ U < Subtiles
  <2>1. UnacquiredStages \in Nat /\ UnacquiredStages < Subtiles /\ Subtiles \in Nat
    BY Parameters
  <2> QED BY <2>1, EpilogueFacts
<1>2. /\ wpc[w] = "drain" /\ wpc'[w] = "hand" /\ tile' = tile /\ wait' = wait /\ sub' = sub
      /\ sstate'[w] = D!Advance(sstate[w], Subtiles) /\ issued'[w] = 0
      /\ rstate'[w] = C!Advance(C!Advance(rstate[w], n), Subtiles)
  BY EpilogueFacts DEF StoreTail, StoreTailDone, OrderInv, Goto
<1>3. /\ s + 1 = Subtiles /\ Stored(w) = Subtiles /\ sstate[w] = D!StateAt(1, b + Stored(w))
      /\ kernel.LoadNeeded => c = b + Returned(w)
  <2>1. Stored(w) = s + 1
    BY <1>2 DEF Stored
  <2> QED BY <2>1, <1>1, <1>2 DEF EpilogueCursor, EpilogueSection
<1>4. n = (IF ReuseSmemC THEN U ELSE 0) /\ n \in Nat
  BY <1>1 DEF Min2
<1> HIDE DEF n
<1>5. Returned(w) + n = Subtiles
  <2>1. StoresWaited(w) = Subtiles
    BY <1>2, <1>3 DEF StoresWaited
  <2>2. CASE ReuseSmemC
    <3>1. Returned(w) = Subtiles - U
      BY <2>1, <2>2, <1>1 DEF Returned
    <3> QED BY <2>2, <3>1, <1>1, <1>4
  <2>3. CASE ~ReuseSmemC
    BY <2>3, <1>2, <1>3, <1>4, <1>1 DEF Returned
  <2> QED BY <2>2, <2>3
<1>6. rstate'[w] = C!StateAt(0, c + n + Subtiles) /\ c + n \in Nat /\ c + n + Subtiles \in Nat
  <2>1. c + n \in Nat /\ c + n + Subtiles \in Nat
    BY <1>1, <1>4
  <2>2. C!Advance(rstate[w], n) = C!StateAt(0, c + n)
    <3>1. rstate[w] = C!StateAt(0, c) /\ c \in Nat /\ n \in Nat
      BY <1>1, <1>4
    <3> HIDE DEF c
    <3>2. \A k \in Nat : C!Advance(rstate[w], k) = C!StateAt(0, c + k)
      BY <3>1, CMoves
    <3> QED BY <3>1, <3>2
  <2>3. C!Advance(C!StateAt(0, c + n), Subtiles) = C!StateAt(0, c + n + Subtiles)
    <3>1. \A m \in Nat, k \in Nat : C!Advance(C!StateAt(0, m), k) = C!StateAt(0, m + k)
      BY CMoves
    <3> QED BY <2>1, <3>1, <1>1
  <2> QED BY <2>1, <2>2, <2>3, <1>2
<1>7. rstate'[w].count = c + n + Subtiles
  BY <1>6, CFields
<1>8. sstate'[w] = D!StateAt(1, b + 2 * Subtiles)
  <2>1. b + Subtiles \in Nat /\ b + Subtiles + Subtiles = b + 2 * Subtiles
    BY <1>1
  <2>2. D!Advance(D!StateAt(1, b + Subtiles), Subtiles) = D!StateAt(1, b + Subtiles + Subtiles)
    BY <2>1, <1>1, DMoves
  <2> QED BY <2>1, <2>2, <1>2, <1>3
<1> HIDE DEF U, c, b, s
<1>9. kernel.LoadNeeded => rstate'[w].count = b + 2 * Subtiles
  <2> SUFFICES ASSUME kernel.LoadNeeded PROVE rstate'[w].count = b + 2 * Subtiles
    OBVIOUS
  <2>1. Returned(w) = Subtiles - n /\ c = b + Returned(w)
    <3>1. StoresWaited(w) = Subtiles
      BY <1>2, <1>3 DEF StoresWaited, s
    <3>2. Returned(w) \in Nat
      BY <3>1, <1>1, <1>2, <1>3 DEF Returned, U, s
    <3> QED BY <3>2, <1>1, <1>3, <1>4, <1>5
  <2> QED BY <2>1, <1>1, <1>4, <1>7
<1>10. Base(tile[w] + 2)' = b + 2 * Subtiles
  BY <1>1, <1>2 DEF Base
<1>11. sstate'[w] = D!StateAt(1, IF wpc[w] = "hand" THEN Base(tile[w] + 2) ELSE Base(tile[w]) + Stored(w))'
  BY <1>2, <1>8, <1>10, StoreSame
<1>12. Stored(w)' = 0
  BY <1>2 DEF Stored
<1>13. sub'[w] \in 0 .. Subtiles - 1
  BY <1>1, <1>2 DEF EpilogueCursor
<1>14. rstate'[w] = C!StateAt(0, rstate'[w].count) /\ rstate'[w].count \in Nat
  BY <1>6, <1>7
<1>15. kernel'.LoadNeeded => rstate'[w].count = Base(tile[w] + 2)'
  BY <1>9, <1>10
<1> QED BY <1>2, <1>11, <1>12, <1>13, <1>14, <1>15 DEF EpilogueCursor, EpilogueSection

(* The turn is passed on, and the cursors stand at the next tile. *)
LEMMA PassStep ==
  ASSUME OrderInv, EpilogueCursorInv, NEW w \in WarpGroups, EpiloguePass(w), kernel' = kernel
  PROVE  EpilogueCursor(w)'
<1>1. EpilogueCursor(w) /\ tile[w] \in Nat /\ Base(tile[w] + 2) \in Nat
  <2>1. \A x, y \in Nat : x + 2 * y \in Nat
    OBVIOUS
  <2> QED BY <2>1, EpilogueFacts, Parameters
<1>2. /\ wpc[w] = "hand" /\ wpc'[w] = "order" /\ tile'[w] = tile[w] + 2
      /\ UNCHANGED <<sub, wait, rstate, sstate, issued>>
  BY DEF EpiloguePass, OrderInv, Goto, store, NumMmaWarpGroups
<1>3. Stored(w) = 0 /\ Stored(w)' = 0
  BY <1>2 DEF Stored
<1>4. /\ sstate[w] = D!StateAt(1, Base(tile[w] + 2)) /\ issued[w] = 0
      /\ kernel.LoadNeeded => rstate[w].count = Base(tile[w] + 2)
      /\ rstate[w] = C!StateAt(0, rstate[w].count) /\ rstate[w].count \in Nat
      /\ sub[w] \in 0 .. Subtiles - 1
  BY <1>1, <1>2, <1>3 DEF EpilogueCursor
<1>5. Base(tile[w])' = Base(tile[w] + 2) /\ Base(tile[w])' + Stored(w)' = Base(tile[w] + 2)
  <2>1. Base(tile[w])' = Base(tile[w] + 2)
    BY <1>2 DEF Base
  <2> QED BY <2>1, <1>1, <1>3
<1>6. sstate'[w] = D!StateAt(1, IF wpc[w] = "hand" THEN Base(tile[w] + 2) ELSE Base(tile[w]) + Stored(w))'
  <2>1. wpc'[w] # "hand"
    BY <1>2
  <2> QED BY <2>1, <1>2, <1>4, <1>5, StoreSame
<1> QED BY <1>2, <1>3, <1>4, <1>5, <1>6 DEF EpilogueCursor, EpilogueSection

(* The cursors of a group stand where the invariant says after its step. *)
LEMMA EpilogueGroupStep ==
  ASSUME OrderInv, EpilogueCursorInv, NEW w \in WarpGroups, MathWarpGroup(w), kernel' = kernel
  PROVE  EpilogueCursor(w)'
<1>1. EpilogueCursor(w) /\ wpc \in [WarpGroups -> PCs]
  BY EpilogueFacts DEF OrderInv, PCs
<1>2. CASE MmaBegin(w) \/ WaitTile(w) \/ Multiply(w) \/ Release(w) \/ MmaPass(w) \/ MmaTail(w)
           \/ Leave(w)
  <2>1. wpc[w] \notin EpilogueSection /\ wpc'[w] \notin EpilogueSection
    BY <1>1, <1>2 DEF MmaBegin, WaitTile, Multiply, Release, MmaPass, MmaTail, Leave, Goto,
                      EpilogueSection
  <2>2. UNCHANGED <<tile, sub, wait, rstate, sstate, issued>>
    BY <1>2 DEF MmaBegin, WaitTile, Multiply, Release, MmaPass, MmaTail, Leave, store
  <2> QED BY <1>1, <2>1, <2>2, EpilogueOutside
<1>3. CASE WaitSource(w) \/ FetchNext(w)
  <2>1. UNCHANGED <<tile, sub, wait, rstate, sstate, issued>>
    BY <1>3, Zenon DEF WaitSource, FetchNext, store
  <2>2. \/ wpc[w] = "source" /\ wpc'[w] = "read"
        \/ wpc[w] = "stored" /\ wpc'[w] = "drain"
    <3>1. \/ wpc[w] = "source" /\ wpc' = [wpc EXCEPT ![w] = "read"]
          \/ wpc[w] = "stored" /\ wpc' = [wpc EXCEPT ![w] = "drain"]
      BY <1>3, Zenon DEF WaitSource, FetchNext, Goto
    <3> QED BY <3>1, <1>1
  <2> QED BY <2>1, <2>2, EpilogueGoes
<1>4. CASE EpilogueTurn(w)
  BY <1>4, EpilogueTurnStep
<1>5. CASE ReadSource(w)
  BY <1>5, ReadSourceStep
<1>6. CASE WriteAndStore(w)
  BY <1>6, WriteStep
<1>7. CASE AcquireStore(w)
  BY <1>7, AcquireStep
<1>8. CASE StoreTail(w)
  BY <1>8, StoreTailStep
<1>9. CASE EpiloguePass(w)
  BY <1>9, PassStep
<1> QED BY <1>2, <1>3, <1>4, <1>5, <1>6, <1>7, <1>8, <1>9 DEF MathWarpGroup

(* A group changes no cursor of the other one, and sets wait only to a     *)
(* state of the epilogue load pipeline.                                    *)
LEMMA EpilogueCursors ==
  ASSUME OrderInv, EpilogueCursorInv, NEW w \in WarpGroups, MathWarpGroup(w), kernel' = kernel
  PROVE  /\ OnlyAt(sub, sub', w) /\ OnlyAt(issued, issued', w) /\ OnlyAt(wait, wait', w)
         /\ OnlyAt(rstate, rstate', w) /\ OnlyAt(sstate, sstate', w)
         /\ wait'[w] \in C!Cursor
<1>1. /\ sub \in [WarpGroups -> Nat] /\ issued \in [WarpGroups -> Nat]
      /\ sstate \in [WarpGroups -> D!Cursor] /\ rstate \in [WarpGroups -> C!Cursor]
      /\ wait \in [WarpGroups -> C!Cursor]
  BY DEF EpilogueCursorInv
<1>2. \A f, g : g = f => OnlyAt(f, g, w)
  BY DEF OnlyAt
<1>3. CASE MmaBegin(w) \/ WaitTile(w) \/ Multiply(w) \/ Release(w) \/ MmaPass(w) \/ MmaTail(w)
           \/ WaitSource(w) \/ FetchNext(w) \/ EpiloguePass(w) \/ Leave(w)
  <2>1. UNCHANGED <<sub, wait, rstate, sstate, issued>>
    BY <1>3, Zenon DEF MmaBegin, WaitTile, Multiply, Release, MmaPass, MmaTail, WaitSource,
                       FetchNext, EpiloguePass, Leave, store
  <2> QED BY <1>1, <1>2, <2>1
<1>4. CASE EpilogueTurn(w)
  <2>1. /\ UNCHANGED <<rstate, sstate, issued>> /\ sub' = [sub EXCEPT ![w] = 0]
        /\ \E v : wait' = [wait EXCEPT ![w] = v]
    BY <1>4 DEF EpilogueTurn
  <2>2. wait'[w] \in C!Cursor
    <3>1. wait'[w] = C!StateAt(0, wait'[w].count) /\ wait'[w].count \in Nat
      BY <1>4, EpilogueTurnStep
    <3> QED BY <3>1, CCursor
  <2> QED BY <1>1, <1>2, <2>1, <2>2, OnlyAtExcept
<1>5. CASE ReadSource(w)
  <2>1. /\ UNCHANGED <<sub, sstate, issued>> /\ wait' = [wait EXCEPT ![w] = C!Inc(wait[w])]
        /\ rstate' = rstate \/ rstate' = [rstate EXCEPT ![w] = C!Inc(rstate[w])]
    BY <1>5 DEF ReadSource, ReleaseSource
  <2>2. wait'[w] \in C!Cursor
    <3>1. wait'[w] = C!StateAt(0, wait'[w].count) /\ wait'[w].count \in Nat
      BY <1>5, ReadSourceStep
    <3> QED BY <3>1, CCursor
  <2> QED BY <1>1, <1>2, <2>1, <2>2, OnlyAtExcept
<1>6. CASE WriteAndStore(w)
  <2>1. /\ UNCHANGED <<sub, wait, rstate>> /\ sstate' = [sstate EXCEPT ![w] = D!Inc(sstate[w])]
        /\ issued' = [issued EXCEPT ![w] = issued[w] + 1]
    BY <1>6 DEF WriteAndStore
  <2> QED BY <1>1, <1>2, <2>1, OnlyAtExcept
<1>7. CASE AcquireStore(w)
  <2>1. /\ UNCHANGED <<wait, sstate, issued>> /\ \E v : sub' = [sub EXCEPT ![w] = v]
        /\ rstate' = rstate \/ rstate' = [rstate EXCEPT ![w] = C!Inc(rstate[w])]
    BY <1>7 DEF AcquireStore, ReleaseSource
  <2> QED BY <1>1, <1>2, <2>1, OnlyAtExcept
<1>8. CASE StoreTail(w)
  <2>1. /\ UNCHANGED <<sub, wait>> /\ issued' = [issued EXCEPT ![w] = 0]
        /\ sstate' = [sstate EXCEPT ![w] = D!Advance(sstate[w], Subtiles)]
        /\ \E v : rstate' = [rstate EXCEPT ![w] = v]
    BY <1>8 DEF StoreTail, StoreTailDone
  <2> QED BY <1>1, <1>2, <2>1, OnlyAtExcept
<1> QED BY <1>3, <1>4, <1>5, <1>6, <1>7, <1>8 DEF MathWarpGroup

(* The epilogue load warp's cursor stays right when it does not move. *)
LEMMA SourceFrame ==
  ASSUME SourceCursor, kernel' = kernel, UNCHANGED <<epc, etile, estate>>
  PROVE  SourceCursor'
<1>1. NumTiles' = NumTiles /\ \A t : IsValid(t)' = IsValid(t) /\ Base(t)' = Base(t)
  BY DEF NumTiles, IsValid, Base
<1> QED BY <1>1 DEF SourceCursor

(* Each step of the epilogue load warp leaves its cursor where it belongs. *)
LEMMA EpilogueLoadStep ==
  ASSUME OrderInv, EpilogueCursorInv, EpilogueLoadWarp, kernel' = kernel
  PROVE  SourceCursor'
<1> DEFINE e == estate.count
           t == etile
<1>1. /\ SourceCursor /\ t \in 1 .. NumTiles + 1 /\ estate = C!StateAt(1, e) /\ e \in Nat
      /\ NumTiles \in Nat /\ StagesC \in Nat /\ StagesC > 0 /\ Subtiles \in Nat /\ Subtiles > 0
      /\ kernel.LoadNeeded \in BOOLEAN
  BY KernelType, Parameters DEF EpilogueCursorInv, SourceCursor, OrderInv
<1>2. NumTiles' = NumTiles /\ \A s : IsValid(s)' = IsValid(s) /\ Base(s)' = Base(s)
  BY DEF NumTiles, IsValid, Base
<1>3. /\ t \in Nat \ {0} /\ Base(t) \in Nat /\ Base(t + 1) = Base(t) + Subtiles /\ Base(t + 1) \in Nat
      /\ Base(1) = 0 /\ NumTiles + 1 \in Nat \ {0} /\ Base(NumTiles + 1) \in Nat
      /\ Base(NumTiles + 1) = NumTiles * Subtiles
      /\ IsValid(t) => t \in 1 .. NumTiles
      /\ ~IsValid(t) => t = NumTiles + 1
      /\ ~IsValid(t + 1) /\ IsValid(t) => t + 1 = NumTiles + 1
  <2>1. t \in Nat \ {0} /\ NumTiles + 1 \in Nat \ {0}
        /\ (IsValid(t) => t \in 1 .. NumTiles) /\ (~IsValid(t) => t = NumTiles + 1)
        /\ (~IsValid(t + 1) /\ IsValid(t) => t + 1 = NumTiles + 1)
    BY <1>1 DEF IsValid
  <2> QED BY <1>1, <2>1, Bases
<1>4. kernel.LoadNeeded
  BY <1>1 DEF EpilogueLoadWarp, EpilogueBegin, LoadSource, RewriteMapC, EpilogueLoadTail, SourceCursor
<1>5. CASE EpilogueBegin
  <2>1. epc = "order" /\ epc' = "load" /\ UNCHANGED <<etile, estate>>
    BY <1>5 DEF EpilogueBegin
  <2>2. t = 1 /\ e = 0
    BY <1>1, <2>1 DEF SourceCursor
  <2>3. IsValid(t) => Base(t) <= e /\ e < Base(t + 1)
    BY <2>2, <1>1, <1>3
  <2>4. ~IsValid(t) => Base(NumTiles + 1) <= e /\ e <= Base(NumTiles + 1) + StagesC
    BY <2>2, <1>1, <1>3
  <2> QED BY <2>1, <2>2, <2>3, <2>4, <1>1, <1>2, <1>4 DEF SourceCursor
<1>6. CASE LoadSource
  <2> DEFINE last == (e + 1) % Subtiles = 0
  <2>1. /\ epc = "load" /\ IsValid(t) /\ estate' = C!Inc(estate)
        /\ etile' = IF last /\ ~BatchChanges(t) THEN t + 1 ELSE t
        /\ epc' = IF last /\ BatchChanges(t) THEN "remap" ELSE "load"
    BY <1>6 DEF LoadSource
  <2>2. Base(t) <= e /\ e < Base(t + 1)
    BY <1>1, <2>1 DEF SourceCursor
  <2>3. estate' = C!StateAt(1, e + 1)
    BY <2>1, <1>1, CMoves
  <2>4. estate'.count = e + 1 /\ e + 1 \in Nat
    BY <2>3, <1>1, CFields
  <2>5. last <=> e + 1 = Base(t + 1)
    <3>1. t - 1 \in Nat /\ Base(t) = (t - 1) * Subtiles /\ e - Base(t) \in 0 .. Subtiles - 1
      BY <2>2, <1>1, <1>3 DEF Base
    <3>2. CASE e + 1 = Base(t + 1)
      <4>1. t \in Nat /\ e + 1 = t * Subtiles + 0 /\ 0 \in 0 .. Subtiles - 1
        <5>1. Base(t + 1) = t * Subtiles
          BY <1>3, Bases
        <5>2. t \in Nat /\ t * Subtiles \in Nat
          BY <5>1, <1>3
        <5> QED BY <3>2, <5>1, <5>2, <1>1
      <4>2. (t * Subtiles + 0) % Subtiles = 0
        BY <4>1, Parameters, TL!DivModUnique DEF TL!Index
      <4> QED BY <3>2, <4>1, <4>2
    <3>3. CASE e + 1 # Base(t + 1)
      <4> DEFINE d == e + 1 - Base(t)
      <4>1. d \in 0 .. Subtiles - 1 /\ d # 0 /\ e + 1 = (t - 1) * Subtiles + d
        BY <2>2, <3>1, <3>3, <1>1, <1>3
      <4> HIDE DEF d
      <4>2. ((t - 1) * Subtiles + d) % Subtiles = d
        BY <3>1, <4>1, Parameters, TL!DivModUnique DEF TL!Index
      <4> QED BY <3>3, <4>1, <4>2
    <3> QED BY <3>2, <3>3
  <2> HIDE DEF last
  <2>6. e + 1 <= Base(t + 1)
    BY <2>2, <1>1, <1>3
  <2>7. CASE ~last
    <3>1. etile' = t /\ epc' = "load" /\ e + 1 < Base(t + 1) /\ Base(t) <= e + 1
      BY <2>1, <2>2, <2>5, <2>6, <2>7, <1>1, <1>3
    <3> QED BY <3>1, <2>1, <2>3, <2>4, <1>1, <1>2, <1>4 DEF SourceCursor
  <2>8. CASE last /\ BatchChanges(t)
    <3>1. etile' = t /\ epc' = "remap" /\ e + 1 = Base(t + 1) /\ IsValid(t + 1)
      BY <2>1, <2>5, <2>8 DEF BatchChanges
    <3> QED BY <3>1, <2>1, <2>3, <2>4, <1>1, <1>2, <1>4 DEF SourceCursor
  <2>9. CASE last /\ ~BatchChanges(t)
    <3>1. etile' = t + 1 /\ epc' = "load" /\ e + 1 = Base(t + 1)
      BY <2>1, <2>5, <2>9
    <3>2. t + 1 \in 1 .. NumTiles + 1 /\ t + 1 \in Nat \ {0}
      BY <2>1, <1>1, <1>3
    <3>3. Base(t + 1 + 1) = Base(t + 1) + Subtiles
      BY <3>2, Bases
    <3>4. IsValid(t + 1) => Base(t + 1) <= e + 1 /\ e + 1 < Base(t + 1 + 1)
      BY <3>1, <3>3, <1>1, <1>3
    <3>5. ~IsValid(t + 1) => Base(NumTiles + 1) <= e + 1 /\ e + 1 <= Base(NumTiles + 1) + StagesC
      BY <3>1, <2>1, <1>1, <1>3
    <3> QED BY <3>1, <3>2, <3>4, <3>5, <2>3, <2>4, <1>1, <1>2, <1>4 DEF SourceCursor
  <2> QED BY <2>7, <2>8, <2>9
<1>7. CASE RewriteMapC
  <2>1. epc = "remap" /\ epc' = "load" /\ etile' = t + 1 /\ estate' = estate
    BY <1>7 DEF RewriteMapC
  <2>2. IsValid(t + 1) /\ e = Base(t + 1)
    BY <1>1, <2>1 DEF SourceCursor
  <2>3. t + 1 \in 1 .. NumTiles + 1 /\ t + 1 \in Nat \ {0}
    BY <2>2, <1>1 DEF IsValid
  <2>4. Base(t + 1 + 1) = Base(t + 1) + Subtiles
    BY <2>3, Bases
  <2>5. Base(t + 1) <= e /\ e < Base(t + 1 + 1)
    BY <2>2, <2>4, <1>1, <1>3
  <2> QED BY <2>1, <2>2, <2>3, <2>5, <1>1, <1>2, <1>4 DEF SourceCursor
<1>8. CASE EpilogueLoadTail
  <2>1. epc = "load" /\ ~IsValid(t) /\ etile' = t
        /\ IF e < NumTiles * Subtiles + StagesC THEN estate' = C!Inc(estate) /\ epc' = epc
           ELSE epc' = "exit" /\ estate' = estate
    BY <1>8 DEF EpilogueLoadTail
  <2>2. Base(NumTiles + 1) <= e /\ e <= Base(NumTiles + 1) + StagesC
    BY <1>1, <2>1 DEF SourceCursor
  <2>3. CASE e < NumTiles * Subtiles + StagesC
    <3>1. estate' = C!StateAt(1, e + 1) /\ epc' = "load"
      BY <2>1, <2>3, <1>1, CMoves
    <3>2. estate'.count = e + 1
      BY <3>1, CFields
    <3>3. Base(NumTiles + 1) <= e + 1 /\ e + 1 <= Base(NumTiles + 1) + StagesC /\ e + 1 \in Nat
      BY <2>2, <2>3, <1>1, <1>3
    <3> QED BY <2>1, <3>1, <3>2, <3>3, <1>1, <1>2, <1>4 DEF SourceCursor
  <2>4. CASE ~(e < NumTiles * Subtiles + StagesC)
    <3>1. epc' = "exit" /\ estate' = estate
      BY <2>1, <2>4
    <3> QED BY <2>1, <3>1, <1>1, <1>2, <1>4 DEF SourceCursor
  <2> QED BY <2>3, <2>4
<1> QED BY <1>5, <1>6, <1>7, <1>8 DEF EpilogueLoadWarp

(* Every step keeps the epilogue cursors. *)
LEMMA EpilogueCursorStep ==
  ASSUME OrderInv, EpilogueCursorInv, [Next]_vars
  PROVE  EpilogueCursorInv'
<1>1. kernel' = kernel
  BY NextKeeps
<1>2. CASE EpilogueLoadWarp \/ LoadWarp \/ Land \/ LandSource \/ (\E x \in storing : StoreReads(x))
           \/ UNCHANGED vars
  <2>1. UNCHANGED <<wpc, tile, sub, wait, rstate, sstate, issued>>
    BY <1>2, OthersKeepMath
  <2>2. SourceCursor'
    <3>1. CASE EpilogueLoadWarp
      BY <3>1, <1>1, EpilogueLoadStep
    <3>2. CASE ~EpilogueLoadWarp
      <4>1. UNCHANGED <<epc, etile, estate>>
        BY <1>2, <3>2 DEF LoadWarp, LoadBegin, Load, Loaded, RewriteMapAB, LoadAdvance, LoadTail,
                          Land, LandSource, StoreReads, vars, eloader
      <4> QED BY <4>1, <1>1, SourceFrame DEF EpilogueCursorInv
    <3> QED BY <3>1, <3>2
  <2>3. \A u \in WarpGroups : EpilogueCursor(u)'
    BY <1>1, <2>1, EpilogueFrame DEF EpilogueCursorInv
  <2>4. D!Cursor' = D!Cursor
    BY <1>1, StoreSame
  <2> QED BY <2>1, <2>2, <2>3, <2>4 DEF EpilogueCursorInv
<1>3. ASSUME NEW w \in WarpGroups, MathWarpGroup(w) PROVE EpilogueCursorInv'
  <2>1. EpilogueCursor(w)'
    BY <1>1, <1>3, EpilogueGroupStep
  <2>2. ASSUME NEW u \in WarpGroups, u # w PROVE EpilogueCursor(u)'
    <3>1. /\ wpc'[u] = wpc[u] /\ tile'[u] = tile[u] /\ sub'[u] = sub[u] /\ wait'[u] = wait[u]
          /\ rstate'[u] = rstate[u] /\ sstate'[u] = sstate[u] /\ issued'[u] = issued[u]
      BY <1>3, <2>2, MathKeepsOthers
    <3>2. EpilogueCursor(u)
      BY DEF EpilogueCursorInv
    <3> QED BY <1>1, <3>1, <3>2, EpilogueFrame
  <2>3. SourceCursor'
    <3>1. UNCHANGED <<epc, etile, estate>>
      BY <1>3, MathKeepsOthers
    <3> QED BY <1>1, <3>1, SourceFrame DEF EpilogueCursorInv
  <2>4. /\ OnlyAt(sub, sub', w) /\ OnlyAt(issued, issued', w) /\ OnlyAt(wait, wait', w)
        /\ OnlyAt(rstate, rstate', w) /\ OnlyAt(sstate, sstate', w) /\ wait'[w] \in C!Cursor
    BY <1>1, <1>3, EpilogueCursors
  <2>5. /\ sub \in [WarpGroups -> Nat] /\ issued \in [WarpGroups -> Nat]
        /\ sstate \in [WarpGroups -> D!Cursor] /\ rstate \in [WarpGroups -> C!Cursor]
        /\ wait \in [WarpGroups -> C!Cursor]
    BY DEF EpilogueCursorInv
  <2>6. sub'[w] \in Nat /\ issued'[w] \in Nat /\ rstate'[w] \in C!Cursor
    <3>1. /\ sub'[w] \in 0 .. Subtiles - 1 /\ issued'[w] = Stored(w)'
          /\ rstate'[w] = C!StateAt(0, rstate'[w].count) /\ rstate'[w].count \in Nat
      BY <2>1 DEF EpilogueCursor
    <3>2. sub'[w] \in Nat
      BY <3>1, Parameters
    <3>3. Stored(w)' \in Nat
      BY <3>2 DEF Stored
    <3> QED BY <3>1, <3>2, <3>3, CCursor
  <2>7. sstate'[w] \in D!Cursor
    <3>1. PICK n \in Nat : sstate'[w] = D!StateAt(1, n)
      <4>1. sstate'[w] = D!StateAt(1, IF wpc[w] = "hand" THEN Base(tile[w] + 2) ELSE Base(tile[w]) + Stored(w))'
        BY <2>1 DEF EpilogueCursor
      <4>2. tile'[w] \in Nat \ {0}
        <5>1. tile[w] \in Nat \ {0}
          BY GroupOrder
        <5>2. tile' = tile \/ tile' = [tile EXCEPT ![w] = tile[w] + 2]
          BY <1>3, Zenon DEF MathWarpGroup, MmaBegin, WaitTile, Multiply, Release, MmaPass, MmaTail,
                     EpilogueTurn, WaitSource, ReadSource, WriteAndStore, AcquireStore, FetchNext,
                     StoreTail, StoreTailDone, EpiloguePass, Leave, NumMmaWarpGroups
        <5>3. tile \in [WarpGroups -> Nat]
          BY DEF OrderInv
        <5> QED BY <5>1, <5>2, <5>3
      <4>3. Base(tile[w] + 2)' \in Nat /\ Base(tile[w])' \in Nat
        <5>1. Base(tile[w] + 2)' = Base(tile'[w] + 2) /\ Base(tile[w])' = Base(tile'[w])
          BY DEF Base
        <5> QED BY <5>1, <4>2, Bases
      <4>4. Stored(w)' \in Nat
        BY <2>6 DEF Stored
      <4>5. \A n : D!StateAt(1, n)' = D!StateAt(1, n)
        BY <1>1, StoreSame
      <4>6. Base(tile[w])' + Stored(w)' \in Nat
        BY <4>3, <4>4
      <4>7. CASE wpc'[w] = "hand"
        BY <4>1, <4>3, <4>5, <4>7
      <4>8. CASE wpc'[w] # "hand"
        BY <4>1, <4>6, <4>5, <4>8
      <4> QED BY <4>7, <4>8
    <3> QED BY <3>1, DCursor
  <2>8. D!Cursor' = D!Cursor
    BY <1>1, StoreSame
  <2>9. /\ sub' \in [WarpGroups -> Nat] /\ issued' \in [WarpGroups -> Nat]
        /\ sstate' \in [WarpGroups -> D!Cursor] /\ rstate' \in [WarpGroups -> C!Cursor]
        /\ wait' \in [WarpGroups -> C!Cursor]
    BY <2>4, <2>5, <2>6, <2>7, OnlyAtType
  <2> QED BY <2>1, <2>2, <2>3, <2>8, <2>9 DEF EpilogueCursorInv
<1> QED BY <1>2, <1>3 DEF Next, Terminated

-----------------------------------------------------------------------------
(* 7. The epilogue load pipeline.                                          *)

(* Slots of the window of n subtiles from m on *)
Passes(m, n, i) == \E d \in 0 .. n - 1 : (m + d) % StagesC = i

(* Which slots of the epilogue load pipeline a run of subtiles passes. *)
LEMMA CWindow ==
  /\ \A m \in Nat, d \in Nat : ((m % StagesC) + d) % StagesC = (m + d) % StagesC
  /\ \A m \in Nat, n \in Nat, i \in C!Index : n <= StagesC =>
       /\ Passes(m, n, i) => C!Visits(m + n, i) = C!Visits(m, i) + 1
       /\ ~Passes(m, n, i) => C!Visits(m + n, i) = C!Visits(m, i)
<1>1. C!Index = CL!Index /\ \A n, i : C!Visits(n, i) = CL!Visits(n, i)
  BY DEF C!Index, CL!Index, C!Visits, CL!Visits
<1>2. ASSUME NEW m \in Nat, NEW d \in Nat
      PROVE  ((m % StagesC) + d) % StagesC = (m + d) % StagesC
  BY Parameters, CL!IndexAt
<1>3. ASSUME NEW m \in Nat, NEW n \in Nat, NEW i \in CL!Index, n <= StagesC
      PROVE  /\ Passes(m, n, i) => CL!Visits(m + n, i) = CL!Visits(m, i) + 1
             /\ ~Passes(m, n, i) => CL!Visits(m + n, i) = CL!Visits(m, i)
  BY <1>3, Parameters, CL!VisitsWindow DEF Passes
<1> QED BY <1>1, <1>2, <1>3

(* The larger of two numbers. *)
LEMMA LargerFacts ==
  ASSUME NEW a \in Nat, NEW b \in Nat
  PROVE  /\ Larger(a, b) = Larger(b, a) /\ Larger(a, b) \in Nat
         /\ a <= Larger(a, b) /\ b <= Larger(a, b)
         /\ b <= a => Larger(a, b) = a
         /\ Larger(a, b) = a \/ Larger(a, b) = b
  BY DEF Larger

(* What a group knows of the subtiles of C. *)
LEMMA SourceFacts ==
  ASSUME OrderInv, EpilogueCursorInv, NEW w \in WarpGroups
  PROVE  /\ FreedBy(w) \in Nat /\ ReadBy(w) \in Nat /\ AwaitedBy(w) \in Nat
         /\ FreedBy(w) <= ReadBy(w) /\ ReadBy(w) <= AwaitedBy(w)
         /\ ~kernel.LoadNeeded => FreedBy(w) = 0 /\ ReadBy(w) = 0 /\ AwaitedBy(w) = 0
         /\ kernel.LoadNeeded /\ wpc[w] \in EpilogueSection =>
              Base(tile[w]) <= FreedBy(w) /\ AwaitedBy(w) <= Base(tile[w] + 1)
         /\ kernel.LoadNeeded /\ wpc[w] \notin EpilogueSection =>
              /\ FreedBy(w) = Earlier(tile[w]) /\ ReadBy(w) = Earlier(tile[w])
              /\ AwaitedBy(w) = Earlier(tile[w])
         /\ Earlier(tile[w]) \in Nat /\ Earlier(tile[w]) <= Base(tile[w])
         /\ Earlier(tile[w] + 1) = Base(tile[w]) /\ Earlier(tile[w] + 2) = Base(tile[w] + 1)
<1> DEFINE t == tile[w]
           s == sub[w]
           c == rstate[w].count
           U == UnacquiredStages
<1>1. /\ t \in Nat \ {0} /\ Base(t) \in Nat /\ Base(t + 1) = Base(t) + Subtiles /\ Base(t + 1) \in Nat
      /\ s \in Nat /\ s + 1 <= Subtiles /\ Subtile(w) = Base(t) + s /\ c \in Nat
      /\ Subtiles \in Nat /\ U \in Nat /\ EpilogueCursor(w) /\ wpc[w] \in PCs
      /\ kernel.LoadNeeded \in BOOLEAN
  <2>1. t \in Nat \ {0} /\ Base(t + 1) \in Nat
    BY EpilogueFacts, Bases
  <2> QED BY <2>1, EpilogueFacts, Parameters, GroupOrder, KernelType DEF OrderInv
<1>2. /\ Earlier(t) \in Nat /\ Earlier(t) <= Base(t)
      /\ Earlier(t + 1) = Base(t) /\ Earlier(t + 2) = Base(t + 1)
  <2>1. t + 1 # 1 /\ t + 2 # 1 /\ (t + 1) - 1 = t /\ (t + 2) - 1 = t + 1
    BY <1>1
  <2>2. t # 1 => t - 1 \in Nat \ {0} /\ t - 1 < t
    BY <1>1
  <2>3. t # 1 => Base(t - 1) \in Nat /\ Base(t - 1) + Subtiles <= Base(t)
    BY <1>1, <2>2, Bases
  <2>4. Earlier(t) \in Nat /\ Earlier(t) <= Base(t)
    <3>1. t = 1 => Earlier(t) = 0
      BY DEF Earlier
    <3>2. t # 1 => Earlier(t) = Base(t - 1)
      BY DEF Earlier
    <3> HIDE DEF t
    <3> QED BY <3>1, <3>2, <1>1, <2>3
  <2>5. Earlier(t + 1) = Base((t + 1) - 1) /\ Earlier(t + 2) = Base((t + 2) - 1)
    BY <2>1 DEF Earlier
  <2> QED BY <2>1, <2>4, <2>5
<1>3. CASE ~kernel.LoadNeeded
  <2>1. FreedBy(w) = 0 /\ ReadBy(w) = 0 /\ AwaitedBy(w) = 0
    BY <1>3 DEF FreedBy, ReadBy, AwaitedBy, SourcesBy
  <2> QED BY <2>1, <1>2, <1>3
<1>4. CASE kernel.LoadNeeded /\ wpc[w] \notin EpilogueSection
  <2>1. wpc[w] # "hand"
    BY <1>4 DEF EpilogueSection
  <2>2. FreedBy(w) = Earlier(t) /\ ReadBy(w) = Earlier(t) /\ AwaitedBy(w) = Earlier(t)
    BY <1>4, <2>1 DEF FreedBy, ReadBy, AwaitedBy, SourcesBy
  <2> QED BY <2>2, <1>2, <1>4
<1>5. CASE kernel.LoadNeeded /\ wpc[w] = "hand"
  <2>1. /\ FreedBy(w) = Base(t + 1) /\ ReadBy(w) = Base(t + 1) /\ AwaitedBy(w) = Base(t + 1)
    BY <1>5 DEF FreedBy, ReadBy, AwaitedBy, SourcesBy
  <2> QED BY <2>1, <1>1, <1>2, <1>5 DEF EpilogueSection
<1>6. CASE kernel.LoadNeeded /\ wpc[w] \in EpilogueSection /\ wpc[w] # "hand"
  <2>1. /\ FreedBy(w) = c
        /\ ReadBy(w) = Base(t) + s + IF wpc[w] \in {"source", "read"} THEN 0 ELSE 1
        /\ AwaitedBy(w) = Base(t) + s + IF wpc[w] = "source" THEN 0 ELSE 1
    BY <1>1, <1>6 DEF FreedBy, ReadBy, AwaitedBy, SourcesBy
  <2>2. c = Base(t) + Returned(w)
    BY <1>1, <1>6 DEF EpilogueCursor
  <2>3. Returned(w) \in Nat /\ Returned(w) <= s + IF wpc[w] \in {"source", "read"} THEN 0 ELSE 1
    <3>1. StoresWaited(w) = IF wpc[w] \in {"stored", "drain"} THEN s + 1 ELSE s
      BY DEF StoresWaited
    <3>2. wpc[w] \in {"stored", "drain"} => wpc[w] \notin {"source", "read"}
      OBVIOUS
    <3>3. CASE ReuseSmemC
      <4>1. Returned(w) = IF StoresWaited(w) < U THEN 0 ELSE StoresWaited(w) - U
        BY <3>3 DEF Returned
      <4> HIDE DEF U, s
      <4> QED BY <3>1, <3>2, <4>1, <1>1
    <3>4. CASE ~ReuseSmemC
      <4>1. Returned(w) = IF wpc[w] \in {"source", "read"} THEN s ELSE s + 1
        BY <3>4 DEF Returned
      <4> HIDE DEF U, s
      <4> QED BY <4>1, <1>1
    <3> QED BY <3>3, <3>4
  <2> HIDE DEF t, s, c, U
  <2>4. wpc[w] = "source" => wpc[w] \in {"source", "read"}
    OBVIOUS
  <2>5. /\ FreedBy(w) \in Nat /\ ReadBy(w) \in Nat /\ AwaitedBy(w) \in Nat
        /\ FreedBy(w) <= ReadBy(w) /\ ReadBy(w) <= AwaitedBy(w)
        /\ Base(t) <= FreedBy(w) /\ AwaitedBy(w) <= Base(t + 1)
    BY <1>1, <2>1, <2>2, <2>3, <2>4
  <2> QED BY <2>5, <1>2, <1>6 DEF t
<1> QED BY <1>1, <1>3, <1>4, <1>5, <1>6

(* In the epilogue of a group what it knows is what is known. *)
LEMMA SourceOwner ==
  ASSUME OrderInv, EpilogueCursorInv, NEW w \in WarpGroups
  PROVE  /\ Freed = Larger(FreedBy(w), FreedBy(1 - w)) /\ Consumed = Larger(ReadBy(w), ReadBy(1 - w))
         /\ Awaited = Larger(AwaitedBy(w), AwaitedBy(1 - w))
         /\ wpc[w] \in EpilogueSection \/ (wpc[w] = "turn" /\ MyTurn(w)) =>
              (kernel.LoadNeeded => /\ FreedBy(1 - w) = Base(tile[w])
                                    /\ ReadBy(1 - w) = Base(tile[w])
                                    /\ AwaitedBy(1 - w) = Base(tile[w]))
         /\ wpc[w] \in EpilogueSection =>
              Freed = FreedBy(w) /\ Consumed = ReadBy(w) /\ Awaited = AwaitedBy(w)
         /\ wpc[w] = "turn" /\ MyTurn(w) /\ kernel.LoadNeeded =>
              Freed = Base(tile[w]) /\ Consumed = Base(tile[w]) /\ Awaited = Base(tile[w])
         /\ Freed \in Nat /\ Consumed \in Nat /\ Awaited \in Nat
         /\ Freed <= Consumed /\ Consumed <= Awaited
<1> DEFINE v == 1 - w
<1>1. /\ v \in WarpGroups /\ FreedBy(w) \in Nat /\ ReadBy(w) \in Nat /\ AwaitedBy(w) \in Nat
      /\ FreedBy(v) \in Nat /\ ReadBy(v) \in Nat /\ AwaitedBy(v) \in Nat
      /\ FreedBy(w) <= ReadBy(w) /\ ReadBy(w) <= AwaitedBy(w)
      /\ FreedBy(v) <= ReadBy(v) /\ ReadBy(v) <= AwaitedBy(v)
      /\ tile[w] \in Nat /\ Base(tile[w]) \in Nat /\ kernel.LoadNeeded \in BOOLEAN
  <2>1. v \in WarpGroups
    BY Groups
  <2> QED BY <2>1, SourceFacts, EpilogueFacts, KernelType DEF OrderInv
<1>2. /\ Freed = Larger(FreedBy(w), FreedBy(v)) /\ Consumed = Larger(ReadBy(w), ReadBy(v))
      /\ Awaited = Larger(AwaitedBy(w), AwaitedBy(v))
  <2>1. CASE w = 0
    <3>1. v = 1
      BY <2>1
    <3> QED BY <2>1, <3>1 DEF Freed, Consumed, Awaited
  <2>2. CASE w = 1
    <3>1. v = 0
      BY <2>2
    <3> HIDE DEF v
    <3>2. /\ Freed = Larger(FreedBy(v), FreedBy(w)) /\ Consumed = Larger(ReadBy(v), ReadBy(w))
          /\ Awaited = Larger(AwaitedBy(v), AwaitedBy(w))
      BY <2>2, <3>1 DEF Freed, Consumed, Awaited
    <3> QED BY <3>2, <1>1, LargerFacts
  <2> QED BY <2>1, <2>2, Groups
<1>3. ASSUME kernel.LoadNeeded, wpc[w] \in EpilogueSection \/ (wpc[w] = "turn" /\ MyTurn(w))
      PROVE  FreedBy(v) = Base(tile[w]) /\ ReadBy(v) = Base(tile[w]) /\ AwaitedBy(v) = Base(tile[w])
  <2>1. wpc[v] \notin EpilogueSection /\ tile[v] = tile[w] + 1
    BY <1>3, EpilogueOwner
  <2>2. FreedBy(v) = Earlier(tile[v]) /\ ReadBy(v) = Earlier(tile[v]) /\ AwaitedBy(v) = Earlier(tile[v])
    BY <1>1, <1>3, <2>1, SourceFacts
  <2>3. Earlier(tile[w] + 1) = Base(tile[w])
    BY SourceFacts
  <2> QED BY <2>1, <2>2, <2>3
<1>4. ASSUME wpc[w] \in EpilogueSection
      PROVE  Freed = FreedBy(w) /\ Consumed = ReadBy(w) /\ Awaited = AwaitedBy(w)
  <2>1. FreedBy(v) <= FreedBy(w) /\ ReadBy(v) <= ReadBy(w) /\ AwaitedBy(v) <= AwaitedBy(w)
    <3>1. CASE kernel.LoadNeeded
      <4>1. Base(tile[w]) <= FreedBy(w)
        BY <3>1, <1>4, SourceFacts
      <4>2. FreedBy(v) = Base(tile[w]) /\ ReadBy(v) = Base(tile[w]) /\ AwaitedBy(v) = Base(tile[w])
        BY <1>3, <1>4, <3>1
      <4> HIDE DEF v
      <4> QED BY <4>1, <4>2, <1>1
    <3>2. CASE ~kernel.LoadNeeded
      <4>1. FreedBy(v) = 0 /\ ReadBy(v) = 0 /\ AwaitedBy(v) = 0
        BY <1>1, <3>2, SourceFacts
      <4> HIDE DEF v
      <4> QED BY <4>1, <1>1
    <3> QED BY <3>1, <3>2
  <2> HIDE DEF v
  <2> QED BY <2>1, <1>1, <1>2, LargerFacts
<1>5. ASSUME wpc[w] = "turn", MyTurn(w), kernel.LoadNeeded
      PROVE  Freed = Base(tile[w]) /\ Consumed = Base(tile[w]) /\ Awaited = Base(tile[w])
  <2>1. FreedBy(v) = Base(tile[w]) /\ ReadBy(v) = Base(tile[w]) /\ AwaitedBy(v) = Base(tile[w])
    BY <1>3, <1>5
  <2>2. FreedBy(w) <= Base(tile[w]) /\ ReadBy(w) <= Base(tile[w]) /\ AwaitedBy(w) <= Base(tile[w])
    <3>1. wpc[w] \notin EpilogueSection
      BY <1>5 DEF EpilogueSection
    <3>2. FreedBy(w) = Earlier(tile[w]) /\ ReadBy(w) = Earlier(tile[w]) /\ AwaitedBy(w) = Earlier(tile[w])
          /\ Earlier(tile[w]) <= Base(tile[w])
      BY <3>1, <1>5, SourceFacts
    <3> QED BY <3>2
  <2> HIDE DEF v
  <2> QED BY <2>1, <2>2, <1>1, <1>2, LargerFacts
<1>6. Freed \in Nat /\ Consumed \in Nat /\ Awaited \in Nat
      /\ Freed <= Consumed /\ Consumed <= Awaited
  <2> HIDE DEF v
  <2> QED BY <1>1, <1>2 DEF Larger
<1> QED BY <1>2, <1>3, <1>4, <1>5, <1>6

(* What a group did with its sources depends on its own state only. *)
LEMMA SourcesFrame ==
  ASSUME NEW u \in WarpGroups, kernel' = kernel, wpc'[u] = wpc[u], tile'[u] = tile[u],
         sub'[u] = sub[u], rstate'[u] = rstate[u]
  PROVE  FreedBy(u)' = FreedBy(u) /\ ReadBy(u)' = ReadBy(u) /\ AwaitedBy(u)' = AwaitedBy(u)
<1>1. Subtile(u)' = Subtile(u)
  BY DEF Subtile
<1> QED BY <1>1 DEF FreedBy, ReadBy, AwaitedBy, SourcesBy, Earlier, Base

(* The slots that a group gives back. *)
LEMMA ReleasedSlots ==
  ASSUME OrderInv, EpilogueCursorInv, NEW w \in WarpGroups, NEW n \in Nat, kernel.LoadNeeded,
         cempty' = SourceReleased(w, n)
  PROVE  /\ DOMAIN cempty' = C!Index
         /\ \A i \in C!Index : cempty'[i] = IF Passes(rstate[w].count, n, i) THEN Arrive(cempty[i])
                                            ELSE cempty[i]
<1> DEFINE c == rstate[w].count
<1>1. rstate[w] = C!StateAt(0, c) /\ c \in Nat
  BY EpilogueFacts
<1>2. rstate[w].index = c % StagesC
  BY <1>1, CFields
<1>3. \A d \in 0 .. n - 1 : (rstate[w].index + d) % StagesC = (c + d) % StagesC
  <2> HIDE DEF c
  <2>1. \A d \in Nat : ((c % StagesC) + d) % StagesC = (c + d) % StagesC
    BY <1>1, CWindow
  <2>2. \A d \in 0 .. n - 1 : d \in Nat
    OBVIOUS
  <2> QED BY <2>1, <2>2, <1>2
<1>4. \A i : (\E d \in 0 .. n - 1 : (rstate[w].index + d) % StagesC = i) <=> Passes(c, n, i)
  BY <1>3 DEF Passes
<1> QED BY <1>4 DEF SourceReleased

(* What a step of a group in its epilogue makes of the subtiles of C. *)
LEMMA GroupSources ==
  ASSUME OrderInv, EpilogueCursorInv, NEW w \in WarpGroups, MathWarpGroup(w), kernel' = kernel,
         kernel.LoadNeeded
  PROVE  \/ /\ FreedBy(w)' = FreedBy(w) /\ ReadBy(w)' = ReadBy(w) /\ AwaitedBy(w)' = AwaitedBy(w)
            /\ cempty' = cempty
         \/ /\ EpilogueTurn(w) /\ FreedBy(w)' = Base(tile[w]) /\ ReadBy(w)' = Base(tile[w])
            /\ AwaitedBy(w)' = Base(tile[w]) /\ cempty' = cempty
         \/ /\ WaitSource(w) /\ FreedBy(w)' = FreedBy(w) /\ ReadBy(w)' = ReadBy(w)
            /\ AwaitedBy(w)' = AwaitedBy(w) + 1 /\ cempty' = cempty
         \/ /\ ReadSource(w) /\ FreedBy(w)' = FreedBy(w) /\ ReadBy(w)' = ReadBy(w) + 1
            /\ AwaitedBy(w)' = AwaitedBy(w) /\ cempty' = cempty
         \/ /\ wpc[w] \in EpilogueSection \ {"hand"}
            /\ ReadBy(w)' = ReadBy(w) \/ (ReadSource(w) /\ ReadBy(w)' = ReadBy(w) + 1)
            /\ AwaitedBy(w)' = AwaitedBy(w)
            /\ \E n \in Nat : /\ n <= StagesC /\ FreedBy(w)' = FreedBy(w) + n
                              /\ cempty' = SourceReleased(w, n)
<1> DEFINE t == tile[w]
           b == Base(tile[w])
           s == sub[w]
           c == rstate[w].count
           U == UnacquiredStages
<1>1. /\ b \in Nat /\ s \in Nat /\ s + 1 <= Subtiles /\ Subtile(w) = b + s /\ Subtiles \in Nat
      /\ EpilogueCursor(w) /\ rstate[w] = C!StateAt(0, c) /\ c \in Nat /\ Base(t + 1) = b + Subtiles
      /\ t \in Nat /\ U \in Nat /\ U <= StagesC /\ StagesC \in Nat /\ StagesC > 0 /\ U < Subtiles
  BY EpilogueFacts, Parameters
<1>2. wpc \in [WarpGroups -> PCs] /\ tile \in [WarpGroups -> Nat] /\ sub \in [WarpGroups -> Nat]
      /\ rstate \in [WarpGroups -> C!Cursor]
  BY EpilogueFacts DEF OrderInv, PCs
<1>3. \A x : Base(x)' = Base(x) /\ Earlier(x)' = Earlier(x)
  BY DEF Base, Earlier
<1>4. wpc[w] \in EpilogueSection \ {"hand"} =>
        /\ FreedBy(w) = c
        /\ ReadBy(w) = Subtile(w) + IF wpc[w] \in {"source", "read"} THEN 0 ELSE 1
        /\ AwaitedBy(w) = Subtile(w) + IF wpc[w] = "source" THEN 0 ELSE 1
  BY DEF FreedBy, ReadBy, AwaitedBy, SourcesBy
<1>5. wpc'[w] \in EpilogueSection \ {"hand"} =>
        /\ FreedBy(w)' = rstate'[w].count
        /\ ReadBy(w)' = Subtile(w)' + IF wpc'[w] \in {"source", "read"} THEN 0 ELSE 1
        /\ AwaitedBy(w)' = Subtile(w)' + IF wpc'[w] = "source" THEN 0 ELSE 1
  BY DEF FreedBy, ReadBy, AwaitedBy, SourcesBy
<1>6. CASE MmaBegin(w) \/ WaitTile(w) \/ Multiply(w) \/ Release(w) \/ MmaPass(w) \/ MmaTail(w)
           \/ Leave(w)
  <2>1. wpc[w] \notin EpilogueSection /\ wpc'[w] \notin EpilogueSection
    BY <1>2, <1>6 DEF MmaBegin, WaitTile, Multiply, Release, MmaPass, MmaTail, Leave, Goto,
                      EpilogueSection
  <2>2. tile' = tile /\ cempty' = cempty
    BY <1>6 DEF MmaBegin, WaitTile, Multiply, Release, MmaPass, MmaTail, Leave, source
  <2>3. wpc[w] # "hand" /\ wpc'[w] # "hand"
    BY <2>1 DEF EpilogueSection
  <2> QED BY <2>1, <2>2, <2>3 DEF FreedBy, ReadBy, AwaitedBy, SourcesBy, Earlier, Base
<1>7. CASE EpilogueTurn(w)
  <2>1. /\ wpc[w] = "turn" /\ wpc'[w] = "source" /\ rstate' = rstate /\ sub'[w] = 0 /\ tile' = tile
        /\ cempty' = cempty
    BY <1>2, <1>7 DEF EpilogueTurn, Goto, source
  <2>2. c = b
    BY <2>1, <1>1 DEF EpilogueCursor, EpilogueSection
  <2>3. Subtile(w)' = b + 0
    BY <2>1 DEF Subtile, Base
  <2>4. wpc'[w] \in EpilogueSection \ {"hand"}
    BY <2>1 DEF EpilogueSection
  <2>5. FreedBy(w)' = c /\ ReadBy(w)' = b + 0 + 0 /\ AwaitedBy(w)' = b + 0 + 0
    BY <2>1, <2>3, <2>4, <1>5
  <2>6. b + 0 + 0 = b
    BY <1>1
  <2> QED BY <1>7, <2>1, <2>2, <2>5, <2>6
<1>8. CASE WaitSource(w)
  <2>1. /\ wpc[w] = "source" /\ wpc'[w] = "read" /\ tile' = tile /\ sub' = sub /\ rstate' = rstate
        /\ cempty' = cempty
    BY <1>2, <1>8 DEF WaitSource, Goto, source, store
  <2>2. Subtile(w)' = Subtile(w)
    BY <2>1 DEF Subtile
  <2>3. FreedBy(w) = c /\ ReadBy(w) = Subtile(w) + 0 /\ AwaitedBy(w) = Subtile(w) + 0
    BY <2>1, <1>4 DEF EpilogueSection
  <2>4. FreedBy(w)' = c /\ ReadBy(w)' = Subtile(w) + 0 /\ AwaitedBy(w)' = Subtile(w) + 1
    BY <2>1, <2>2, <1>5 DEF EpilogueSection
  <2>5. Subtile(w) + 0 + 1 = Subtile(w) + 1
    BY <1>1
  <2> QED BY <1>8, <2>1, <2>3, <2>4, <2>5
<1>9. CASE ReadSource(w)
  <2>1. /\ wpc[w] = "read" /\ wpc'[w] = "write" /\ tile' = tile /\ sub' = sub
        /\ IF ReuseSmemC THEN rstate' = rstate /\ cempty' = cempty
           ELSE rstate'[w] = C!Inc(rstate[w]) /\ cempty' = SourceReleased(w, 1)
    BY <1>2, <1>9 DEF ReadSource, ReleaseSource, Goto
  <2>2. Subtile(w)' = Subtile(w)
    BY <2>1 DEF Subtile
  <2>3. FreedBy(w) = c /\ ReadBy(w) = Subtile(w) + 0 /\ AwaitedBy(w) = Subtile(w) + 1
    BY <2>1, <1>4 DEF EpilogueSection
  <2>4. FreedBy(w)' = rstate'[w].count /\ ReadBy(w)' = Subtile(w) + 1 /\ AwaitedBy(w)' = Subtile(w) + 1
    BY <2>1, <2>2, <1>5 DEF EpilogueSection
  <2>5. ReadBy(w)' = ReadBy(w) + 1 /\ AwaitedBy(w)' = AwaitedBy(w)
    <3>1. Subtile(w) + 0 + 1 = Subtile(w) + 1
      BY <1>1
    <3> QED BY <2>3, <2>4, <3>1
  <2>6. CASE ReuseSmemC
    BY <1>9, <2>1, <2>3, <2>4, <2>5, <2>6
  <2>7. CASE ~ReuseSmemC
    <3>1. rstate'[w] = C!StateAt(0, c + 1)
      BY <2>1, <2>7, <1>1, CMoves
    <3>2. rstate'[w].count = c + 1
      BY <3>1, CFields
    <3>3. 1 \in Nat /\ 1 <= StagesC /\ wpc[w] \in EpilogueSection \ {"hand"}
      BY <2>1, <1>1 DEF EpilogueSection
    <3> QED BY <1>9, <2>1, <2>3, <2>4, <2>5, <2>7, <3>2, <3>3
  <2> QED BY <2>6, <2>7
<1>10. CASE WriteAndStore(w) \/ FetchNext(w)
  <2>1. /\ UNCHANGED <<tile, sub, rstate, cempty>>
        /\ \/ wpc[w] = "write" /\ wpc' = [wpc EXCEPT ![w] = "acquire"]
           \/ wpc[w] = "stored" /\ wpc' = [wpc EXCEPT ![w] = "drain"]
    BY <1>10, Zenon DEF WriteAndStore, FetchNext, Goto, source, store
  <2>2. wpc[w] \in {"write", "stored"} /\ wpc'[w] \in {"acquire", "drain"}
    BY <2>1, <1>2
  <2>3. Subtile(w)' = Subtile(w)
    BY <2>1 DEF Subtile
  <2>4. FreedBy(w) = c /\ ReadBy(w) = Subtile(w) + 1 /\ AwaitedBy(w) = Subtile(w) + 1
    BY <2>2, <1>4 DEF EpilogueSection
  <2>5. FreedBy(w)' = c /\ ReadBy(w)' = Subtile(w) + 1 /\ AwaitedBy(w)' = Subtile(w) + 1
    BY <2>1, <2>2, <2>3, <1>5 DEF EpilogueSection
  <2> QED BY <2>1, <2>4, <2>5
<1>11. CASE AcquireStore(w)
  <2>1. /\ wpc[w] = "acquire" /\ tile' = tile
        /\ wpc'[w] = (IF s + 1 = Subtiles THEN "stored" ELSE "source")
        /\ sub'[w] = (IF s + 1 = Subtiles THEN s ELSE s + 1)
        /\ IF ReuseSmemC /\ issued[w] > U
           THEN rstate'[w] = C!Inc(rstate[w]) /\ cempty' = SourceReleased(w, 1)
           ELSE rstate' = rstate /\ cempty' = cempty
    BY <1>2, <1>11 DEF AcquireStore, ReleaseSource, Goto
  <2>2. FreedBy(w) = c /\ ReadBy(w) = Subtile(w) + 1 /\ AwaitedBy(w) = Subtile(w) + 1
    BY <2>1, <1>4 DEF EpilogueSection
  <2>3. FreedBy(w)' = rstate'[w].count /\ ReadBy(w)' = Subtile(w) + 1 /\ AwaitedBy(w)' = Subtile(w) + 1
    <3>1. Subtile(w)' = b + sub'[w]
      BY <2>1 DEF Subtile, Base
    <3>2. CASE s + 1 = Subtiles
      <4>1. wpc'[w] = "stored" /\ Subtile(w)' = b + s
        BY <2>1, <3>1, <3>2
      <4> QED BY <4>1, <1>1, <1>5 DEF EpilogueSection
    <3>3. CASE s + 1 # Subtiles
      <4>1. wpc'[w] = "source" /\ Subtile(w)' = b + (s + 1)
        BY <2>1, <3>1, <3>3
      <4>2. FreedBy(w)' = rstate'[w].count /\ ReadBy(w)' = b + (s + 1) + 0 /\ AwaitedBy(w)' = b + (s + 1) + 0
        BY <4>1, <1>5 DEF EpilogueSection
      <4>3. b + (s + 1) + 0 = Subtile(w) + 1
        BY <1>1
      <4> QED BY <4>2, <4>3
    <3> QED BY <3>2, <3>3
  <2>4. wpc[w] \in EpilogueSection \ {"hand"}
    BY <2>1 DEF EpilogueSection
  <2>5. CASE ReuseSmemC /\ issued[w] > U
    <3>1. rstate'[w] = C!StateAt(0, c + 1)
      BY <2>1, <2>5, <1>1, CMoves
    <3>2. rstate'[w].count = c + 1
      BY <3>1, CFields
    <3>3. 1 \in Nat /\ 1 <= StagesC
      BY <1>1
    <3> QED BY <2>1, <2>2, <2>3, <2>4, <2>5, <3>2, <3>3
  <2>6. CASE ~(ReuseSmemC /\ issued[w] > U)
    BY <2>1, <2>2, <2>3, <2>6
  <2> QED BY <2>5, <2>6
<1>12. CASE StoreTail(w)
  <2> DEFINE n == IF ReuseSmemC THEN Min2(UnacquiredStages, Subtiles) ELSE 0
  <2>1. /\ wpc[w] = "drain" /\ wpc'[w] = "hand" /\ tile' = tile /\ cempty' = SourceReleased(w, n)
    BY <1>2, <1>12 DEF StoreTail, StoreTailDone, Goto
  <2>2. n = (IF ReuseSmemC THEN U ELSE 0) /\ n \in Nat /\ n <= StagesC
    BY <1>1 DEF Min2
  <2> HIDE DEF n
  <2>3. s + 1 = Subtiles /\ c = b + Returned(w)
    BY <2>1, <1>1 DEF EpilogueCursor, EpilogueSection
  <2>4. Returned(w) \in Nat /\ Returned(w) + n = Subtiles
    <3>1. StoresWaited(w) = Subtiles
      BY <2>1, <2>3 DEF StoresWaited
    <3>2. CASE ReuseSmemC
      <4>1. Returned(w) = Subtiles - U
        BY <3>1, <3>2, <1>1 DEF Returned
      <4> QED BY <4>1, <3>2, <1>1, <2>2
    <3>3. CASE ~ReuseSmemC
      <4>1. Returned(w) = Subtiles
        BY <2>1, <2>3, <3>3 DEF Returned
      <4> QED BY <4>1, <3>3, <1>1, <2>2
    <3> QED BY <3>2, <3>3
  <2>5. FreedBy(w) = c /\ ReadBy(w) = Subtile(w) + 1 /\ AwaitedBy(w) = Subtile(w) + 1
    BY <2>1, <1>4 DEF EpilogueSection
  <2>6. FreedBy(w)' = Base(t + 1) /\ ReadBy(w)' = Base(t + 1) /\ AwaitedBy(w)' = Base(t + 1)
    BY <2>1 DEF FreedBy, ReadBy, AwaitedBy, SourcesBy, Base
  <2>7. wpc[w] \in EpilogueSection \ {"hand"}
    BY <2>1 DEF EpilogueSection
  <2> HIDE DEF t, b, s, c, U
  <2>8. Base(t + 1) = c + n /\ Base(t + 1) = Subtile(w) + 1
    BY <1>1, <2>3, <2>4, <2>2
  <2> QED BY <2>1, <2>2, <2>5, <2>6, <2>7, <2>8
<1>13. CASE EpiloguePass(w)
  <2>1. wpc[w] = "hand" /\ wpc'[w] = "order" /\ tile'[w] = t + 2 /\ cempty' = cempty
    BY <1>2, <1>13 DEF EpiloguePass, Goto, NumMmaWarpGroups, source
  <2>2. FreedBy(w) = Base(t + 1) /\ ReadBy(w) = Base(t + 1) /\ AwaitedBy(w) = Base(t + 1)
    BY <2>1 DEF FreedBy, ReadBy, AwaitedBy, SourcesBy
  <2>3. Earlier(tile[w])' = Base(t + 1)
    <3>1. Earlier(t + 2) = Base(t + 1)
      BY SourceFacts
    <3>2. Earlier(tile[w])' = Earlier(tile'[w])
      BY DEF Earlier, Base
    <3> QED BY <2>1, <3>1, <3>2
  <2>4. FreedBy(w)' = Base(t + 1) /\ ReadBy(w)' = Base(t + 1) /\ AwaitedBy(w)' = Base(t + 1)
    <3>1. wpc'[w] # "hand" /\ wpc'[w] \notin EpilogueSection /\ kernel'.LoadNeeded
      BY <2>1 DEF EpilogueSection
    <3>2. \A n : SourcesBy(w, n)' = Earlier(tile[w])'
      BY <3>1 DEF SourcesBy
    <3> QED BY <2>3, <3>1 DEF FreedBy, ReadBy, AwaitedBy, SourcesBy
  <2> QED BY <2>1, <2>2, <2>4
<1> QED BY <1>6, <1>7, <1>8, <1>9, <1>10, <1>11, <1>12, <1>13 DEF MathWarpGroup

(* What the groups know after a step, in terms of the group that took it. *)
LEMMA SourceLargest ==
  ASSUME NEW w \in WarpGroups,
         FreedBy(w)' \in Nat, FreedBy(1 - w)' \in Nat, ReadBy(w)' \in Nat, ReadBy(1 - w)' \in Nat,
         AwaitedBy(w)' \in Nat, AwaitedBy(1 - w)' \in Nat
  PROVE  /\ Freed' = Larger(FreedBy(w)', FreedBy(1 - w)')
         /\ Consumed' = Larger(ReadBy(w)', ReadBy(1 - w)')
         /\ Awaited' = Larger(AwaitedBy(w)', AwaitedBy(1 - w)')
<1>1. /\ Freed' = Larger(FreedBy(0)', FreedBy(1)')
      /\ Consumed' = Larger(ReadBy(0)', ReadBy(1)')
      /\ Awaited' = Larger(AwaitedBy(0)', AwaitedBy(1)')
  BY DEF Freed, Consumed, Awaited, Larger
<1>2. CASE w = 0
  <2>1. 1 - w = 1
    BY <1>2
  <2> QED BY <1>1, <1>2, <2>1
<1>3. CASE w = 1
  <2>1. 1 - w = 0
    BY <1>3
  <2>2. /\ FreedBy(1)' \in Nat /\ FreedBy(0)' \in Nat /\ ReadBy(1)' \in Nat /\ ReadBy(0)' \in Nat
        /\ AwaitedBy(1)' \in Nat /\ AwaitedBy(0)' \in Nat
    BY <1>3, <2>1
  <2>3. /\ Larger(FreedBy(0)', FreedBy(1)') = Larger(FreedBy(1)', FreedBy(0)')
        /\ Larger(ReadBy(0)', ReadBy(1)') = Larger(ReadBy(1)', ReadBy(0)')
        /\ Larger(AwaitedBy(0)', AwaitedBy(1)') = Larger(AwaitedBy(1)', AwaitedBy(0)')
    BY <2>2, LargerFacts
  <2> QED BY <1>1, <1>3, <2>1, <2>3
<1> QED BY <1>2, <1>3, Groups

(* The same of all subtiles of C waited for, read and given back. *)
LEMMA MathSources ==
  ASSUME OrderInv, EpilogueCursorInv, NEW w \in WarpGroups, MathWarpGroup(w), kernel' = kernel,
         DOMAIN cempty = C!Index
  PROVE  /\ \E n \in Nat :
              /\ n <= StagesC /\ Freed' = Freed + n
              /\ DOMAIN cempty' = C!Index
              /\ \A i \in C!Index :
                   cempty'[i] = IF Passes(Freed, n, i) THEN Arrive(cempty[i]) ELSE cempty[i]
         /\ Consumed' = Consumed \/ (ReadSource(w) /\ Consumed' = Consumed + 1)
         /\ \/ Awaited' = Awaited
            \/ /\ Awaited' = Awaited + 1
               /\ PhaseDone(cfull[Awaited % StagesC], (0 + Awaited \div StagesC) % 2)
<1> DEFINE v == 1 - w
           Kept(n) == /\ DOMAIN cempty' = C!Index
                      /\ \A i \in C!Index :
                           cempty'[i] = IF Passes(Freed, n, i) THEN Arrive(cempty[i]) ELSE cempty[i]
<1>1. /\ v \in WarpGroups /\ v # w /\ Freed \in Nat /\ Consumed \in Nat /\ Awaited \in Nat
      /\ FreedBy(w) \in Nat /\ ReadBy(w) \in Nat /\ AwaitedBy(w) \in Nat
      /\ FreedBy(v) \in Nat /\ ReadBy(v) \in Nat /\ AwaitedBy(v) \in Nat
      /\ Freed = Larger(FreedBy(w), FreedBy(v)) /\ Consumed = Larger(ReadBy(w), ReadBy(v))
      /\ Awaited = Larger(AwaitedBy(w), AwaitedBy(v))
      /\ Base(tile[w]) \in Nat /\ kernel.LoadNeeded \in BOOLEAN
  <2>1. v \in WarpGroups /\ v # w
    BY Groups
  <2> QED BY <2>1, SourceFacts, SourceOwner, EpilogueFacts, KernelType DEF OrderInv
<1>2. FreedBy(v)' = FreedBy(v) /\ ReadBy(v)' = ReadBy(v) /\ AwaitedBy(v)' = AwaitedBy(v)
  <2>1. wpc'[v] = wpc[v] /\ tile'[v] = tile[v] /\ sub'[v] = sub[v] /\ rstate'[v] = rstate[v]
    BY <1>1, MathKeepsOthers
  <2> QED BY <1>1, <2>1, SourcesFrame
<1>3. ASSUME NEW f \in Nat, NEW r \in Nat, NEW a \in Nat,
             FreedBy(w)' = f, ReadBy(w)' = r, AwaitedBy(w)' = a
      PROVE  /\ Freed' = Larger(f, FreedBy(v)) /\ Consumed' = Larger(r, ReadBy(v))
             /\ Awaited' = Larger(a, AwaitedBy(v))
  BY <1>1, <1>2, <1>3, SourceLargest
<1>4. ASSUME Freed' = Freed, DOMAIN cempty' = C!Index, \A i \in C!Index : cempty'[i] = cempty[i]
      PROVE  \E n \in Nat : n <= StagesC /\ Freed' = Freed + n /\ Kept(n)
  <2>1. \A i \in C!Index : ~Passes(Freed, 0, i)
    BY DEF Passes
  <2>2. Kept(0)
    BY <2>1, <1>4
  <2>3. 0 <= StagesC /\ Freed + 0 = Freed
    BY <1>1, Parameters
  <2> HIDE DEF Kept
  <2> QED BY <2>2, <2>3, <1>4
<1>5. CASE ~kernel.LoadNeeded
  <2>1. /\ FreedBy(w) = 0 /\ ReadBy(w) = 0 /\ AwaitedBy(w) = 0
        /\ FreedBy(w)' = 0 /\ ReadBy(w)' = 0 /\ AwaitedBy(w)' = 0
    BY <1>5 DEF FreedBy, ReadBy, AwaitedBy, SourcesBy
  <2>2. Freed' = Freed /\ Consumed' = Consumed /\ Awaited' = Awaited
    BY <2>1, <1>1, <1>3
  <2>3. DOMAIN cempty' = C!Index /\ \A i \in C!Index : cempty'[i] = cempty[i]
    <3>1. \A n : SourceReleased(w, n) = [i \in C!Index |-> cempty[i]]
      BY <1>5 DEF SourceReleased
    <3>2. cempty' = cempty \/ \E n : cempty' = SourceReleased(w, n)
      <4>1. CASE ReadSource(w) \/ AcquireStore(w) \/ StoreTail(w)
        BY <4>1 DEF ReadSource, AcquireStore, StoreTail, StoreTailDone, ReleaseSource
      <4>2. CASE ~(ReadSource(w) \/ AcquireStore(w) \/ StoreTail(w))
        BY <4>2, Zenon DEF MathWarpGroup, MmaBegin, WaitTile, Multiply, Release, MmaPass, MmaTail,
                    EpilogueTurn, WaitSource, WriteAndStore, FetchNext, EpiloguePass, Leave, source
      <4> QED BY <4>1, <4>2
    <3> QED BY <3>1, <3>2
  <2> QED BY <2>2, <2>3, <1>4
<1>6. ASSUME kernel.LoadNeeded, FreedBy(w)' = FreedBy(w), ReadBy(w)' = ReadBy(w),
             AwaitedBy(w)' = AwaitedBy(w), cempty' = cempty
      PROVE  Freed' = Freed /\ Consumed' = Consumed /\ Awaited' = Awaited
  BY <1>1, <1>3, <1>6
<1>7. ASSUME kernel.LoadNeeded, EpilogueTurn(w), FreedBy(w)' = Base(tile[w]),
             ReadBy(w)' = Base(tile[w]), AwaitedBy(w)' = Base(tile[w])
      PROVE  Freed' = Freed /\ Consumed' = Consumed /\ Awaited' = Awaited
  <2>1. wpc[w] = "turn" /\ MyTurn(w)
    BY <1>7 DEF EpilogueTurn
  <2>2. Freed = Base(tile[w]) /\ Consumed = Base(tile[w]) /\ Awaited = Base(tile[w])
        /\ FreedBy(v) = Base(tile[w]) /\ ReadBy(v) = Base(tile[w]) /\ AwaitedBy(v) = Base(tile[w])
    BY <2>1, <1>7, SourceOwner
  <2>3. Larger(Base(tile[w]), Base(tile[w])) = Base(tile[w])
    BY DEF Larger
  <2> QED BY <2>2, <2>3, <1>1, <1>3, <1>7
<1>8. ASSUME kernel.LoadNeeded, wpc[w] \in EpilogueSection
      PROVE  /\ Freed = FreedBy(w) /\ Consumed = ReadBy(w) /\ Awaited = AwaitedBy(w)
             /\ FreedBy(v) <= FreedBy(w) /\ ReadBy(v) <= ReadBy(w) /\ AwaitedBy(v) <= AwaitedBy(w)
  <2>1. Freed = FreedBy(w) /\ Consumed = ReadBy(w) /\ Awaited = AwaitedBy(w)
    BY <1>8, SourceOwner
  <2>2. FreedBy(v) <= Freed /\ ReadBy(v) <= Consumed /\ AwaitedBy(v) <= Awaited
    BY <1>1, LargerFacts
  <2> QED BY <2>1, <2>2
<1>9. ASSUME kernel.LoadNeeded, WaitSource(w), FreedBy(w)' = FreedBy(w), ReadBy(w)' = ReadBy(w),
             AwaitedBy(w)' = AwaitedBy(w) + 1
      PROVE  /\ Freed' = Freed /\ Consumed' = Consumed /\ Awaited' = Awaited + 1
             /\ PhaseDone(cfull[Awaited % StagesC], (0 + Awaited \div StagesC) % 2)
  <2>1. wpc[w] = "source" /\ PhaseDone(cfull[wait[w].index], wait[w].phase)
    BY <1>9 DEF WaitSource
  <2>2. wpc[w] \in EpilogueSection
    BY <2>1 DEF EpilogueSection
  <2>3. AwaitedBy(w) = Subtile(w) /\ wait[w] = C!StateAt(0, Subtile(w))
    <3>1. AwaitedBy(w) = Subtile(w) + 0
      BY <1>9, <2>1, <2>2 DEF AwaitedBy, SourcesBy
    <3> QED BY <3>1, <2>1, EpilogueFacts DEF EpilogueCursor
  <2>4. wait[w].index = Awaited % StagesC /\ wait[w].phase = (0 + Awaited \div StagesC) % 2
    BY <2>2, <2>3, <1>8, <1>9, CFields
  <2>5. Freed' = Larger(FreedBy(w), FreedBy(v)) /\ Consumed' = Larger(ReadBy(w), ReadBy(v))
        /\ Awaited' = Larger(AwaitedBy(w) + 1, AwaitedBy(v))
    BY <1>1, <1>3, <1>9
  <2>6. Larger(AwaitedBy(w) + 1, AwaitedBy(v)) = AwaitedBy(w) + 1
    <3>1. AwaitedBy(v) <= AwaitedBy(w) + 1 /\ AwaitedBy(w) + 1 \in Nat
      BY <2>2, <1>1, <1>8, <1>9
    <3> QED BY <3>1, <1>1, LargerFacts
  <2> QED BY <2>1, <2>2, <2>4, <2>5, <2>6, <1>1, <1>8, <1>9
<1>10. ASSUME kernel.LoadNeeded, wpc[w] \in EpilogueSection, NEW n \in Nat, n <= StagesC,
              FreedBy(w)' = FreedBy(w) + n, AwaitedBy(w)' = AwaitedBy(w),
              ReadBy(w)' = ReadBy(w) \/ (ReadSource(w) /\ ReadBy(w)' = ReadBy(w) + 1)
       PROVE  /\ Freed' = Freed + n /\ Awaited' = Awaited
              /\ Consumed' = Consumed \/ (ReadSource(w) /\ Consumed' = Consumed + 1)
  <2>1. /\ Freed = FreedBy(w) /\ Consumed = ReadBy(w) /\ Awaited = AwaitedBy(w)
        /\ FreedBy(v) <= FreedBy(w) /\ ReadBy(v) <= ReadBy(w) /\ AwaitedBy(v) <= AwaitedBy(w)
    BY <1>8, <1>10
  <2>2. FreedBy(w)' \in Nat /\ ReadBy(w)' \in Nat /\ AwaitedBy(w)' \in Nat
    BY <1>1, <1>10
  <2>3. /\ Freed' = Larger(FreedBy(w)', FreedBy(v)) /\ Consumed' = Larger(ReadBy(w)', ReadBy(v))
        /\ Awaited' = Larger(AwaitedBy(w)', AwaitedBy(v))
    BY <2>2, <1>3
  <2>4. FreedBy(v) <= FreedBy(w)' /\ ReadBy(v) <= ReadBy(w)' /\ AwaitedBy(v) <= AwaitedBy(w)'
    <3>1. FreedBy(w) <= FreedBy(w)' /\ ReadBy(w) <= ReadBy(w)' /\ AwaitedBy(w) <= AwaitedBy(w)'
      BY <1>1, <1>10
    <3>2. \A x, y, z \in Nat : x <= y /\ y <= z => x <= z
      OBVIOUS
    <3>3. /\ FreedBy(w) \in Nat /\ ReadBy(w) \in Nat /\ AwaitedBy(w) \in Nat
          /\ FreedBy(v) \in Nat /\ ReadBy(v) \in Nat /\ AwaitedBy(v) \in Nat
      BY <1>1
    <3> HIDE DEF v
    <3> QED BY <2>1, <2>2, <3>1, <3>2, <3>3, Zenon
  <2>5. Freed' = FreedBy(w)' /\ Consumed' = ReadBy(w)' /\ Awaited' = AwaitedBy(w)'
    BY <2>2, <2>3, <2>4, <1>1, LargerFacts
  <2> QED BY <2>1, <2>5, <1>10
<1>11. ASSUME kernel.LoadNeeded, wpc[w] \in EpilogueSection \ {"hand"}, NEW n \in Nat,
              cempty' = SourceReleased(w, n)
       PROVE  Kept(n)
  <2>1. Freed = rstate[w].count
    <3>1. FreedBy(w) = rstate[w].count
      BY <1>11 DEF FreedBy, SourcesBy
    <3> QED BY <3>1, <1>8, <1>11
  <2> QED BY <2>1, <1>11, ReleasedSlots
<1> HIDE DEF Kept
<1>12. CASE kernel.LoadNeeded
  <2>1. CASE /\ FreedBy(w)' = FreedBy(w) /\ ReadBy(w)' = ReadBy(w) /\ AwaitedBy(w)' = AwaitedBy(w)
             /\ cempty' = cempty
    BY <2>1, <1>4, <1>6, <1>12 DEF Kept
  <2>2. CASE /\ EpilogueTurn(w) /\ FreedBy(w)' = Base(tile[w]) /\ ReadBy(w)' = Base(tile[w])
             /\ AwaitedBy(w)' = Base(tile[w]) /\ cempty' = cempty
    BY <2>2, <1>4, <1>7, <1>12 DEF Kept
  <2>3. CASE /\ WaitSource(w) /\ FreedBy(w)' = FreedBy(w) /\ ReadBy(w)' = ReadBy(w)
             /\ AwaitedBy(w)' = AwaitedBy(w) + 1 /\ cempty' = cempty
    BY <2>3, <1>4, <1>9, <1>12 DEF Kept
  <2>4. CASE /\ ReadSource(w) /\ FreedBy(w)' = FreedBy(w) /\ ReadBy(w)' = ReadBy(w) + 1
             /\ AwaitedBy(w)' = AwaitedBy(w) /\ cempty' = cempty
    <3>1. wpc[w] \in EpilogueSection
      BY <2>4 DEF ReadSource, EpilogueSection
    <3>2. 0 \in Nat /\ 0 <= StagesC /\ FreedBy(w)' = FreedBy(w) + 0 /\ Freed + 0 = Freed
      BY <2>4, <1>1, Parameters
    <3>3. Freed' = Freed /\ Awaited' = Awaited
          /\ (Consumed' = Consumed \/ (ReadSource(w) /\ Consumed' = Consumed + 1))
      BY <2>4, <3>1, <3>2, <1>10, <1>12
    <3> QED BY <2>4, <3>3, <1>4 DEF Kept
  <2>5. CASE /\ wpc[w] \in EpilogueSection \ {"hand"}
             /\ ReadBy(w)' = ReadBy(w) \/ (ReadSource(w) /\ ReadBy(w)' = ReadBy(w) + 1)
             /\ AwaitedBy(w)' = AwaitedBy(w)
             /\ \E n \in Nat : /\ n <= StagesC /\ FreedBy(w)' = FreedBy(w) + n
                               /\ cempty' = SourceReleased(w, n)
    <3>1. PICK n \in Nat : /\ n <= StagesC /\ FreedBy(w)' = FreedBy(w) + n
                           /\ cempty' = SourceReleased(w, n)
      BY <2>5
    <3>2. /\ Freed' = Freed + n /\ Awaited' = Awaited
          /\ Consumed' = Consumed \/ (ReadSource(w) /\ Consumed' = Consumed + 1)
      BY <2>5, <3>1, <1>10, <1>12
    <3>3. Kept(n)
      BY <2>5, <3>1, <1>11, <1>12
    <3> QED BY <3>1, <3>2, <3>3 DEF Kept
  <2> QED BY <2>1, <2>2, <2>3, <2>4, <2>5, <1>12, GroupSources
<1> QED BY <1>1, <1>5, <1>12

(* Where the cursor of the loads of C stands. *)
LEMMA SourceIssuedFacts ==
  ASSUME OrderInv, EpilogueCursorInv
  PROVE  /\ SourcesIssued \in Nat /\ estate.count \in Nat /\ SourcesIssued <= estate.count
         /\ Base(NumTiles + 1) \in Nat /\ NumTiles * Subtiles = Base(NumTiles + 1)
         /\ estate = C!StateAt(1, estate.count)
         /\ SourcesIssued = IF estate.count < Base(NumTiles + 1) THEN estate.count
                            ELSE Base(NumTiles + 1)
         /\ epc = "load" /\ IsValid(etile) => estate.count < Base(NumTiles + 1)
         /\ epc = "load" /\ ~IsValid(etile) => Base(NumTiles + 1) <= estate.count
<1> DEFINE e == estate.count
           b == Base(NumTiles + 1)
<1>1. /\ NumTiles \in Nat /\ b \in Nat /\ NumTiles * Subtiles = b
      /\ e \in Nat /\ estate = C!StateAt(1, e) /\ etile \in 1 .. NumTiles + 1 /\ SourceCursor
  <2>1. NumTiles \in Nat
    BY KernelType DEF OrderInv
  <2>2. b = NumTiles * Subtiles
    BY <2>1, Bases
  <2>3. b \in Nat
    <3>1. NumTiles + 1 \in Nat \ {0}
      BY <2>1
    <3> QED BY <3>1, Bases
  <2> QED BY <2>1, <2>2, <2>3 DEF EpilogueCursorInv, SourceCursor
<1>2. SourcesIssued = IF e < b THEN e ELSE b
  BY <1>1 DEF SourcesIssued, Min2
<1>3. ASSUME epc = "load", IsValid(etile) PROVE e < b
  <2>1. e < Base(etile + 1)
    BY <1>1, <1>3 DEF SourceCursor
  <2>2. etile \in Nat \ {0} /\ etile <= NumTiles
    BY <1>1, <1>3 DEF IsValid
  <2>3. Base(etile + 1) \in Nat /\ Base(etile + 1) <= b
    <3>1. CASE etile = NumTiles
      BY <3>1, <1>1
    <3>2. CASE etile < NumTiles
      <4>1. etile + 1 \in Nat \ {0} /\ NumTiles + 1 \in Nat \ {0} /\ etile + 1 < NumTiles + 1
        BY <1>1, <2>2, <3>2
      <4>2. Base(etile + 1) \in Nat /\ Base(etile + 1) + Subtiles <= b
        BY <4>1, Bases
      <4> QED BY <4>2, <1>1, Parameters
    <3> QED BY <3>1, <3>2, <1>1, <2>2
  <2> HIDE DEF e, b
  <2> QED BY <1>1, <2>1, <2>3
<1>4. ASSUME epc = "load", ~IsValid(etile) PROVE b <= e
  BY <1>1, <1>4 DEF SourceCursor
<1> HIDE DEF e, b
<1>5. SourcesIssued \in Nat /\ SourcesIssued <= e
  BY <1>1, <1>2
<1> QED BY <1>1, <1>2, <1>3, <1>4, <1>5 DEF e, b

(* The chain of the epilogue load pipeline. *)
LEMMA SourceMain ==
  ASSUME OrderInv, EpilogueCursorInv, SourceInv
  PROVE  /\ Freed \in Nat /\ Consumed \in Nat /\ Awaited \in Nat /\ clanded \in Nat
         /\ SourcesIssued \in Nat /\ estate.count \in Nat /\ StagesC \in Nat /\ StagesC > 0
         /\ Freed <= Consumed /\ Consumed <= Awaited /\ Awaited <= clanded
         /\ clanded <= SourcesIssued /\ SourcesIssued <= estate.count
         /\ estate.count <= Freed + StagesC
<1>1. Freed \in Nat /\ Consumed \in Nat /\ Awaited \in Nat /\ Freed <= Consumed /\ Consumed <= Awaited
  BY Groups, SourceOwner
<1>2. SourcesIssued \in Nat /\ estate.count \in Nat /\ SourcesIssued <= estate.count
  BY SourceIssuedFacts
<1>3. clanded \in Nat /\ Awaited <= clanded /\ clanded <= SourcesIssued
      /\ estate.count <= Freed + StagesC
  BY DEF SourceInv
<1> QED BY <1>1, <1>2, <1>3, Parameters

(* The barriers of a slot of C, by name *)
SourceFlying(i) == C!Visits(SourcesIssued, i) # C!Visits(clanded, i)

(* A full barrier is that of a slot in flight, or that of one at rest. *)
LEMMA SourceFullForm ==
  ASSUME NEW i
  PROVE  /\ SourceFlying(i) => (SourceFull(i) <=> cfull[i] = Flying(C!Visits(clanded, i)))
         /\ ~SourceFlying(i) => (SourceFull(i) <=> cfull[i] = Landed(C!Visits(clanded, i)))
         /\ SourceFlying(i)' => (SourceFull(i)' <=> cfull'[i] = Flying(C!Visits(clanded', i)))
         /\ ~SourceFlying(i)' => (SourceFull(i)' <=> cfull'[i] = Landed(C!Visits(clanded', i)))
<1>1. ASSUME SourceFlying(i) PROVE SourceFull(i) <=> cfull[i] = Flying(C!Visits(clanded, i))
  BY <1>1 DEF SourceFull, SourceFlying, Flying
<1>2. ASSUME ~SourceFlying(i) PROVE SourceFull(i) <=> cfull[i] = Landed(C!Visits(clanded, i))
  BY <1>2 DEF SourceFull, SourceFlying, Landed
<1>3. ASSUME SourceFlying(i)' PROVE SourceFull(i)' <=> cfull'[i] = Flying(C!Visits(clanded', i))
  BY <1>3 DEF SourceFull, SourceFlying, Flying
<1>4. ASSUME ~SourceFlying(i)' PROVE SourceFull(i)' <=> cfull'[i] = Landed(C!Visits(clanded', i))
  BY <1>4 DEF SourceFull, SourceFlying, Landed
<1> QED BY <1>1, <1>2, <1>3, <1>4

(* The full barriers stay right when no source is issued or lands. *)
LEMMA SourceFullKeeps ==
  ASSUME SourceInv, UNCHANGED <<cfull, clanded>>, SourcesIssued' = SourcesIssued
  PROVE  DOMAIN cfull' = C!Index /\ \A i \in C!Index : SourceFull(i)'
<1>1. DOMAIN cfull = C!Index /\ \A i \in C!Index : SourceFull(i)
  BY DEF SourceInv
<1>2. ASSUME NEW i \in C!Index PROVE SourceFull(i)'
  <2>1. SourceFlying(i)' <=> SourceFlying(i)
    BY DEF SourceFlying
  <2> QED BY <1>1, <2>1, SourceFullForm
<1> QED BY <1>1, <1>2

(* The empty barriers stay right when no slot is given back. *)
LEMMA SourceEmptyKeeps ==
  ASSUME SourceInv, cempty' = cempty, Freed' = Freed
  PROVE  DOMAIN cempty' = C!Index /\ \A i \in C!Index : SourceEmpty(i)'
BY DEF SourceInv, SourceEmpty

(* A group gives back the slots of n subtiles. *)
LEMMA SourceEmptyFree ==
  ASSUME OrderInv, EpilogueCursorInv, SourceInv, NEW n \in Nat, n <= StagesC, Freed' = Freed + n,
         DOMAIN cempty' = C!Index,
         \A i \in C!Index : cempty'[i] = IF Passes(Freed, n, i) THEN Arrive(cempty[i]) ELSE cempty[i]
  PROVE  \A i \in C!Index : SourceEmpty(i)'
<1>1. Freed \in Nat /\ (\A i \in C!Index : SourceEmpty(i))
  BY SourceMain DEF SourceInv
<1>2. ASSUME NEW i \in C!Index PROVE SourceEmpty(i)'
  <2>1. cempty[i] = Free(C!Visits(Freed, i)) /\ C!Visits(Freed, i) \in Nat
    BY <1>1, CSlots DEF SourceEmpty, Free
  <2>2. SourceEmpty(i)' <=> cempty'[i] = Free(C!Visits(Freed + n, i))
    BY DEF SourceEmpty, Free
  <2>3. CASE Passes(Freed, n, i)
    <3>1. C!Visits(Freed + n, i) = C!Visits(Freed, i) + 1
      BY <1>1, <2>3, CWindow
    <3>2. cempty'[i] = Arrive(cempty[i])
      BY <2>3
    <3>3. cempty'[i] = Free(C!Visits(Freed, i) + 1)
      BY <2>1, <3>2, BarrierSteps
    <3> QED BY <2>2, <3>1, <3>3
  <2>4. CASE ~Passes(Freed, n, i)
    <3>1. C!Visits(Freed + n, i) = C!Visits(Freed, i)
      BY <1>1, <2>4, CWindow
    <3>2. cempty'[i] = cempty[i]
      BY <2>4
    <3> QED BY <2>1, <2>2, <3>1, <3>2
  <2> QED BY <2>3, <2>4
<1> QED BY <1>2

(* The load warp finds its slot given back. *)
LEMMA SourceSlotIsFree ==
  ASSUME OrderInv, EpilogueCursorInv, SourceInv, PhaseDone(cempty[estate.index], estate.phase)
  PROVE  /\ estate.count < Freed + StagesC
         /\ C!Visits(Freed, estate.count % StagesC) = estate.count \div StagesC
<1> DEFINE e == estate.count
           i == e % StagesC
           q == e \div StagesC
<1>1. Freed \in Nat /\ e \in Nat /\ Freed <= e /\ e <= Freed + StagesC
  BY SourceMain
<1>2. estate = C!StateAt(1, e)
  BY SourceIssuedFacts
<1>3. PhaseDone(cempty[i], (1 + q) % 2)
  BY <1>2, CFields
<1>4. i \in C!Index /\ q \in Nat
  BY <1>1, CSlots
<1>5. /\ C!Visits(Freed, i) \in Nat
      /\ C!Visits(Freed, i) = q \/ C!Visits(Freed, i) + 1 = q
      /\ C!Visits(Freed, i) = q <=> e < Freed + StagesC
  BY <1>1, CTurns
<1> HIDE DEF i, q, e
<1>6. cempty[i] = Free(C!Visits(Freed, i))
  BY <1>4 DEF SourceInv, SourceEmpty, Free
<1>7. C!Visits(Freed, i) % 2 # (1 + q) % 2
  BY <1>3, <1>5, <1>6, BarrierSteps
<1>8. ~(C!Visits(Freed, i) + 1 = q)
  BY <1>7, <1>4, <1>5, Parity
<1> QED BY <1>5, <1>8 DEF e, i, q

(* A load is issued: its slot, whose loads have all landed, takes it. *)
LEMMA SourceFullLoad ==
  ASSUME OrderInv, EpilogueCursorInv, SourceInv, clanded' = clanded,
         SourcesIssued = estate.count, SourcesIssued' = SourcesIssued + 1,
         C!Visits(Freed, estate.count % StagesC) = estate.count \div StagesC,
         cfull' = [cfull EXCEPT ![estate.count % StagesC] = ArriveAndExpectTx(@, 1)]
  PROVE  DOMAIN cfull' = C!Index /\ \A i \in C!Index : SourceFull(i)'
<1>0. PICK s \in C!Index : s = estate.count % StagesC
  <2>1. estate.count \in Nat
    BY SourceMain
  <2> QED BY <2>1, CSlots
<1> DEFINE e == estate.count
<1>1. /\ DOMAIN cfull = C!Index /\ (\A i \in C!Index : SourceFull(i))
      /\ Freed \in Nat /\ clanded \in Nat /\ e \in Nat /\ Freed <= clanded /\ clanded <= e
  <2>1. /\ Freed \in Nat /\ Consumed \in Nat /\ Awaited \in Nat /\ clanded \in Nat /\ e \in Nat
        /\ Freed <= Consumed /\ Consumed <= Awaited /\ Awaited <= clanded
        /\ clanded <= SourcesIssued
    BY SourceMain
  <2> QED BY <2>1 DEF SourceInv
<1>2. s \in C!Index /\ C!Visits(e, s) = e \div StagesC /\ e \div StagesC \in Nat
  BY <1>0, <1>1, CSlots
<1>3. DOMAIN cfull' = C!Index /\ cfull'[s] = ArriveAndExpectTx(cfull[s], 1)
      /\ \A i \in C!Index : i # s => cfull'[i] = cfull[i]
  BY <1>0, <1>1, <1>2
<1>4. C!Visits(clanded, s) = e \div StagesC /\ C!Visits(clanded, s) \in Nat
  <2>1. C!Visits(Freed, s) <= C!Visits(clanded, s) /\ C!Visits(clanded, s) <= C!Visits(e, s)
        /\ C!Visits(clanded, s) \in Nat
    <3>1. /\ C!Visits(Freed, s) <= C!Visits(clanded, s)
          /\ C!Visits(clanded, s) <= C!Visits(e, s) /\ C!Visits(clanded, s) \in Nat
      BY <1>0, <1>1, CSlots
    <3> QED BY <3>1
  <2>2. C!Visits(Freed, s) = e \div StagesC
    BY <1>0
  <2> HIDE DEF e
  <2> QED BY <2>1, <2>2, <1>2
<1>5. SourceFull(s)'
  <2>1. ~SourceFlying(s)
    BY <1>2, <1>4 DEF SourceFlying
  <2>2. cfull[s] = Landed(C!Visits(clanded, s))
    BY <1>1, <1>2, <2>1, SourceFullForm
  <2>3. cfull'[s] = Flying(C!Visits(clanded', s))
    BY <1>3, <1>4, <2>2, BarrierSteps
  <2>4. SourceFlying(s)'
    <3>1. C!Visits(e + 1, s) = C!Visits(e, s) + 1
      BY <1>0, <1>1, <1>2, CSlots
    <3>2. C!Visits(SourcesIssued', s) # C!Visits(clanded', s)
      BY <3>1, <1>2, <1>4
    <3> QED BY <3>2 DEF SourceFlying
  <2> QED BY <2>3, <2>4, SourceFullForm
<1>6. ASSUME NEW i \in C!Index, i # s PROVE SourceFull(i)'
  <2>1. C!Visits(e + 1, i) = C!Visits(e, i)
    BY <1>0, <1>1, <1>6, CSlots
  <2>2. C!Visits(SourcesIssued', i) = C!Visits(SourcesIssued, i)
    BY <2>1
  <2>3. SourceFlying(i)' <=> SourceFlying(i)
    BY <2>2 DEF SourceFlying
  <2> QED BY <1>1, <1>3, <1>6, <2>3, SourceFullForm
<1> QED BY <1>3, <1>5, <1>6

(* A load ends: its slot is full. *)
LEMMA SourceFullLand ==
  ASSUME OrderInv, EpilogueCursorInv, SourceInv, clanded < SourcesIssued, clanded' = clanded + 1,
         SourcesIssued' = SourcesIssued,
         cfull' = [cfull EXCEPT ![clanded % StagesC] = CompleteTransaction(@, 1)]
  PROVE  DOMAIN cfull' = C!Index /\ \A i \in C!Index : SourceFull(i)'
<1>0. PICK s \in C!Index : s = clanded % StagesC
  <2>1. clanded \in Nat
    BY SourceMain
  <2> QED BY <2>1, CSlots
<1> DEFINE v == C!Visits(clanded, s)
<1>1. /\ DOMAIN cfull = C!Index /\ (\A i \in C!Index : SourceFull(i))
      /\ clanded \in Nat /\ SourcesIssued \in Nat /\ SourcesIssued <= clanded + StagesC
  <2>1. /\ Freed \in Nat /\ Consumed \in Nat /\ Awaited \in Nat /\ clanded \in Nat
        /\ SourcesIssued \in Nat /\ estate.count \in Nat /\ StagesC \in Nat
        /\ Freed <= Consumed /\ Consumed <= Awaited /\ Awaited <= clanded
        /\ SourcesIssued <= estate.count /\ estate.count <= Freed + StagesC
    BY SourceMain
  <2> QED BY <2>1 DEF SourceInv
<1>2. s \in C!Index /\ v \in Nat /\ v = clanded \div StagesC
  BY <1>0, <1>1, CSlots
<1>3. DOMAIN cfull' = C!Index /\ cfull'[s] = CompleteTransaction(cfull[s], 1)
      /\ \A i \in C!Index : i # s => cfull'[i] = cfull[i]
  BY <1>0, <1>1, <1>2
<1>4. C!Visits(SourcesIssued, s) = v + 1
  <2>1. C!Visits(SourcesIssued, s) = (clanded \div StagesC) + 1
    BY <1>0, <1>1, CTurns
  <2> QED BY <2>1, <1>2
<1>5. C!Visits(clanded', s) = v + 1
  BY <1>0, <1>1, <1>2, CSlots
<1> HIDE DEF v
<1>6. SourceFull(s)'
  <2>1. SourceFlying(s)
    BY <1>2, <1>4 DEF SourceFlying, v
  <2>2. cfull[s] = Flying(v)
    BY <1>1, <1>2, <2>1, SourceFullForm DEF v
  <2>3. cfull'[s] = Landed(v + 1)
    BY <1>2, <1>3, <2>2, BarrierSteps
  <2>4. ~SourceFlying(s)'
    BY <1>4, <1>5 DEF SourceFlying
  <2> QED BY <1>5, <2>3, <2>4, SourceFullForm
<1>7. ASSUME NEW i \in C!Index, i # s PROVE SourceFull(i)'
  <2>1. C!Visits(clanded', i) = C!Visits(clanded, i)
    BY <1>0, <1>1, <1>7, CSlots
  <2>2. SourceFlying(i)' <=> SourceFlying(i)
    BY <2>1 DEF SourceFlying
  <2> QED BY <1>1, <1>3, <1>7, <2>1, <2>2, SourceFullForm
<1> QED BY <1>3, <1>6, <1>7

(* The sources read do not change when no group moves. *)
LEMMA SourcesSame ==
  ASSUME kernel' = kernel, UNCHANGED <<wpc, tile, sub, rstate>>
  PROVE  Freed' = Freed /\ Consumed' = Consumed /\ Awaited' = Awaited
<1>1. /\ FreedBy(0)' = FreedBy(0) /\ ReadBy(0)' = ReadBy(0) /\ AwaitedBy(0)' = AwaitedBy(0)
      /\ FreedBy(1)' = FreedBy(1) /\ ReadBy(1)' = ReadBy(1) /\ AwaitedBy(1)' = AwaitedBy(1)
  BY Groups, SourcesFrame
<1> QED BY <1>1 DEF Freed, Consumed, Awaited, Larger

(* The cursor of the loads of C only moves with a load and in the tail. *)
LEMMA SourceLoadsSame ==
  ASSUME kernel' = kernel, estate'.count = estate.count
  PROVE  SourcesIssued' = SourcesIssued
  BY DEF SourcesIssued, NumTiles, Min2

(* The epilogue load pipeline starts empty. *)
LEMMA SourceInit == Init => SourceInv
<1> SUFFICES ASSUME Init PROVE SourceInv
  OBVIOUS
<1>1. OrderInv /\ EpilogueCursorInv
  BY OrderInit, EpilogueCursorInit
<1>2. ASSUME NEW w \in WarpGroups PROVE FreedBy(w) = 0 /\ ReadBy(w) = 0 /\ AwaitedBy(w) = 0
  <2>1. wpc[w] \in {"order", "exit"} /\ tile[w] = w + 1
    BY DEF Init
  <2>2. wpc[w] \notin EpilogueSection
    BY <2>1 DEF EpilogueSection
  <2>3. Earlier(tile[w]) = 0
    <3>1. tile[w] # 1 => tile[w] - 1 = 1
      BY <2>1, Groups
    <3> QED BY <3>1, Bases DEF Earlier
  <2>4. CASE kernel.LoadNeeded
    BY <1>1, <2>2, <2>3, <2>4, SourceFacts
  <2>5. CASE ~kernel.LoadNeeded
    BY <1>1, <2>5, SourceFacts
  <2> QED BY <2>4, <2>5
<1>3. Freed = 0 /\ Consumed = 0 /\ Awaited = 0
  BY <1>2, Groups DEF Freed, Consumed, Awaited, Larger
<1>4. clanded = 0 /\ estate.count = 0 /\ SourcesIssued = 0
  <2>1. clanded = 0 /\ estate = C!StateAt(1, 0)
    BY CCursor DEF Init
  <2>2. estate.count = 0
    BY <2>1, CFields
  <2>3. SourcesIssued \in Nat /\ SourcesIssued <= estate.count
    BY <1>1, SourceIssuedFacts
  <2> QED BY <2>1, <2>2, <2>3
<1>5. DOMAIN cfull = C!Index /\ DOMAIN cempty = C!Index
      /\ \A i \in C!Index : cfull[i] = Landed(0) /\ cempty[i] = Free(0)
  BY DEF Init, TxInit, BarrierInit, Landed, Free
<1>6. ASSUME NEW i \in C!Index PROVE SourceFull(i) /\ SourceEmpty(i)
  <2>1. C!Visits(0, i) = 0
    BY CSlots
  <2>2. ~SourceFlying(i)
    BY <1>4 DEF SourceFlying
  <2>3. SourceFull(i)
    BY <1>4, <1>5, <2>1, <2>2, SourceFullForm
  <2>4. SourceEmpty(i)
    <3>1. SourceEmpty(i) <=> cempty[i] = Free(C!Visits(0, i))
      BY <1>3 DEF SourceEmpty, Free
    <3> QED BY <3>1, <1>5, <2>1
  <2> QED BY <2>3, <2>4
<1>7. 0 <= 0 + StagesC
  BY Parameters
<1> QED BY <1>3, <1>4, <1>5, <1>6, <1>7 DEF SourceInv

(* Every step keeps the epilogue load pipeline. *)
LEMMA SourceStep ==
  ASSUME OrderInv, EpilogueCursorInv, SourceInv, [Next]_vars
  PROVE  SourceInv'
<1> DEFINE e == estate.count
<1>1. kernel' = kernel
  BY NextKeeps
<1>2. /\ Freed \in Nat /\ Consumed \in Nat /\ Awaited \in Nat /\ clanded \in Nat
      /\ SourcesIssued \in Nat /\ e \in Nat /\ StagesC \in Nat /\ StagesC > 0
      /\ Freed <= Consumed /\ Consumed <= Awaited /\ Awaited <= clanded
      /\ clanded <= SourcesIssued /\ SourcesIssued <= e /\ e <= Freed + StagesC
  BY SourceMain
<1>3. estate = C!StateAt(1, e)
  BY SourceIssuedFacts
<1>4. ASSUME UNCHANGED <<cfull, cempty, clanded, wpc, tile, sub, rstate>>, estate'.count = e
      PROVE  SourceInv'
  <2>1. Freed' = Freed /\ Awaited' = Awaited /\ SourcesIssued' = SourcesIssued
    BY <1>1, <1>4, SourcesSame, SourceLoadsSame
  <2>2. /\ DOMAIN cfull' = C!Index /\ \A i \in C!Index : SourceFull(i)'
        /\ DOMAIN cempty' = C!Index /\ \A i \in C!Index : SourceEmpty(i)'
    BY <1>4, <2>1, SourceFullKeeps, SourceEmptyKeeps
  <2> QED BY <1>2, <1>4, <2>1, <2>2 DEF SourceInv
<1>5. CASE LoadWarp \/ EpilogueBegin \/ RewriteMapC \/ Land
           \/ (\E x \in storing : StoreReads(x)) \/ UNCHANGED vars
  <2>1. UNCHANGED <<cfull, cempty, clanded, estate>>
    BY <1>5 DEF LoadWarp, LoadBegin, Load, Loaded, RewriteMapAB, LoadAdvance, LoadTail,
                EpilogueBegin, RewriteMapC, Land, StoreReads, vars, source, eloader
  <2>2. UNCHANGED <<wpc, tile, sub, rstate>>
    BY <1>5, OthersKeepMath DEF EpilogueLoadWarp
  <2> QED BY <1>4, <2>1, <2>2
<1>6. ASSUME UNCHANGED <<clanded, cempty, wpc, tile, sub, rstate>>,
             PhaseDone(cempty[estate.index], estate.phase), estate' = C!Inc(estate),
             \/ UNCHANGED cfull /\ SourcesIssued' = SourcesIssued
             \/ /\ SourcesIssued = e /\ SourcesIssued' = SourcesIssued + 1
                /\ cfull' = [cfull EXCEPT ![estate.index] = ArriveAndExpectTx(@, 1)]
      PROVE  SourceInv'
  <2>1. e < Freed + StagesC /\ C!Visits(Freed, e % StagesC) = e \div StagesC
    BY <1>6, SourceSlotIsFree
  <2>2. estate'.count = e + 1
    <3>1. C!Inc(estate) = C!StateAt(1, e + 1)
      BY <1>2, <1>3, CMoves
    <3> QED BY <1>6, <3>1, CFields
  <2>3. Freed' = Freed /\ Awaited' = Awaited
    BY <1>1, <1>6, SourcesSame
  <2>4. DOMAIN cfull' = C!Index /\ \A i \in C!Index : SourceFull(i)'
    <3>1. CASE UNCHANGED cfull /\ SourcesIssued' = SourcesIssued
      BY <3>1, <1>6, SourceFullKeeps
    <3>2. CASE /\ SourcesIssued = e /\ SourcesIssued' = SourcesIssued + 1
               /\ cfull' = [cfull EXCEPT ![estate.index] = ArriveAndExpectTx(@, 1)]
      <4>1. estate.index = e % StagesC
        BY <1>3, CFields
      <4>2. cfull' = [cfull EXCEPT ![e % StagesC] = ArriveAndExpectTx(@, 1)]
        BY <3>2, <4>1
      <4> QED BY <3>2, <4>2, <1>6, <2>1, SourceFullLoad
    <3> QED BY <3>1, <3>2, <1>6
  <2>5. DOMAIN cempty' = C!Index /\ \A i \in C!Index : SourceEmpty(i)'
    BY <1>6, <2>3, SourceEmptyKeeps
  <2>6. clanded' \in Nat /\ Awaited' <= clanded' /\ clanded' <= SourcesIssued'
        /\ estate'.count <= Freed' + StagesC
    BY <1>2, <1>6, <2>1, <2>2, <2>3
  <2> QED BY <2>4, <2>5, <2>6 DEF SourceInv
<1>7. CASE LoadSource
  <2>1. /\ epc = "load" /\ IsValid(etile) /\ PhaseDone(cempty[estate.index], estate.phase)
        /\ cfull' = [cfull EXCEPT ![estate.index] = ArriveAndExpectTx(@, 1)]
        /\ estate' = C!Inc(estate) /\ UNCHANGED <<clanded, cempty, wpc, tile, sub, rstate>>
    BY <1>7 DEF LoadSource, math, store
  <2>2. SourcesIssued = e /\ SourcesIssued' = SourcesIssued + 1
    <3>1. e < Base(NumTiles + 1) /\ Base(NumTiles + 1) \in Nat /\ NumTiles * Subtiles = Base(NumTiles + 1)
      BY <2>1, SourceIssuedFacts
    <3>2. SourcesIssued = e
      BY <3>1, SourceIssuedFacts
    <3>3. estate'.count = e + 1
      <4>1. C!Inc(estate) = C!StateAt(1, e + 1)
        BY <1>2, <1>3, CMoves
      <4> QED BY <2>1, <4>1, CFields
    <3>4. SourcesIssued' = IF e + 1 < Base(NumTiles + 1) THEN e + 1 ELSE Base(NumTiles + 1)
      BY <1>1, <3>1, <3>3 DEF SourcesIssued, Min2, NumTiles
    <3> QED BY <3>1, <3>2, <3>4, <1>2
  <2> QED BY <1>6, <2>1, <2>2
<1>8. CASE EpilogueLoadTail
  <2>1. epc = "load" /\ ~IsValid(etile) /\ UNCHANGED <<cfull, clanded, cempty, wpc, tile, sub, rstate>>
    BY <1>8 DEF EpilogueLoadTail, source, math, store
  <2>2. CASE estate.count < NumTiles * Subtiles + StagesC
    <3>1. PhaseDone(cempty[estate.index], estate.phase) /\ estate' = C!Inc(estate)
      BY <1>8, <2>2 DEF EpilogueLoadTail
    <3>2. SourcesIssued' = SourcesIssued
      <4>1. Base(NumTiles + 1) <= e /\ Base(NumTiles + 1) \in Nat /\ NumTiles * Subtiles = Base(NumTiles + 1)
        BY <2>1, SourceIssuedFacts
      <4>2. SourcesIssued = Base(NumTiles + 1)
        BY <4>1, SourceIssuedFacts
      <4>3. estate'.count = e + 1
        <5>1. C!Inc(estate) = C!StateAt(1, e + 1)
          BY <1>2, <1>3, CMoves
        <5> QED BY <3>1, <5>1, CFields
      <4>4. SourcesIssued' = IF e + 1 < Base(NumTiles + 1) THEN e + 1 ELSE Base(NumTiles + 1)
        BY <1>1, <4>1, <4>3 DEF SourcesIssued, Min2, NumTiles
      <4> QED BY <4>1, <4>2, <4>4, <1>2
    <3> QED BY <1>6, <2>1, <3>1, <3>2
  <2>3. CASE ~(estate.count < NumTiles * Subtiles + StagesC)
    <3>1. estate' = estate
      BY <1>8, <2>3 DEF EpilogueLoadTail
    <3> QED BY <1>4, <2>1, <3>1
  <2> QED BY <2>2, <2>3
<1>9. CASE LandSource
  <2>1. /\ clanded < SourcesIssued /\ clanded' = clanded + 1
        /\ cfull' = [cfull EXCEPT ![clanded % StagesC] = CompleteTransaction(@, 1)]
        /\ UNCHANGED <<cempty, wpc, tile, sub, rstate, estate>>
    BY <1>9 DEF LandSource, math, store, eloader
  <2>2. SourcesIssued' = SourcesIssued /\ Freed' = Freed /\ Awaited' = Awaited
    BY <1>1, <2>1, SourceLoadsSame, SourcesSame
  <2>3. DOMAIN cfull' = C!Index /\ \A i \in C!Index : SourceFull(i)'
    BY <2>1, <2>2, SourceFullLand
  <2>4. DOMAIN cempty' = C!Index /\ \A i \in C!Index : SourceEmpty(i)'
    BY <2>1, <2>2, SourceEmptyKeeps
  <2>5. clanded' \in Nat /\ Awaited' <= clanded' /\ clanded' <= SourcesIssued'
        /\ estate'.count <= Freed' + StagesC
    BY <1>2, <2>1, <2>2
  <2> QED BY <2>3, <2>4, <2>5 DEF SourceInv
<1>10. ASSUME NEW w \in WarpGroups, MathWarpGroup(w) PROVE SourceInv'
  <2>1. UNCHANGED <<cfull, clanded, estate>>
    BY <1>10, MathKeepsOthers
  <2>2. SourcesIssued' = SourcesIssued
    BY <1>1, <2>1, SourceLoadsSame
  <2>3. DOMAIN cfull' = C!Index /\ \A i \in C!Index : SourceFull(i)'
    BY <2>1, <2>2, SourceFullKeeps
  <2>4. DOMAIN cempty = C!Index
    BY DEF SourceInv
  <2>5. /\ \E n \in Nat :
              /\ n <= StagesC /\ Freed' = Freed + n /\ DOMAIN cempty' = C!Index
              /\ \A i \in C!Index :
                   cempty'[i] = IF Passes(Freed, n, i) THEN Arrive(cempty[i]) ELSE cempty[i]
        /\ \/ Awaited' = Awaited
           \/ /\ Awaited' = Awaited + 1
              /\ PhaseDone(cfull[Awaited % StagesC], (0 + Awaited \div StagesC) % 2)
    BY <1>1, <1>10, <2>4, MathSources
  <2>6. PICK n \in Nat :
              /\ n <= StagesC /\ Freed' = Freed + n /\ DOMAIN cempty' = C!Index
              /\ \A i \in C!Index :
                   cempty'[i] = IF Passes(Freed, n, i) THEN Arrive(cempty[i]) ELSE cempty[i]
    BY <2>5
  <2>7. DOMAIN cempty' = C!Index /\ \A i \in C!Index : SourceEmpty(i)'
    BY <2>6, SourceEmptyFree
  <2>8. Awaited' <= clanded
    <3>1. CASE Awaited' = Awaited
      BY <3>1, <1>2
    <3>2. CASE /\ Awaited' = Awaited + 1
               /\ PhaseDone(cfull[Awaited % StagesC], (0 + Awaited \div StagesC) % 2)
      <4> DEFINE s == Awaited % StagesC
                 q == Awaited \div StagesC
                 v == C!Visits(clanded, s)
      <4>1. s \in C!Index /\ q \in Nat /\ v \in Nat /\ (v = q \/ v = q + 1)
            /\ (v = q + 1 => Awaited < clanded)
        <5>1. clanded <= Awaited + StagesC
          BY <1>2
        <5>2. s \in C!Index
          BY <1>2, CSlots
        <5>3. clanded \in Nat /\ Awaited \in Nat /\ Awaited <= clanded
          BY <1>2
        <5>4. \A m \in Nat, k \in Nat : k <= m /\ m <= k + StagesC =>
                /\ C!Visits(m, k % StagesC) \in Nat /\ k \div StagesC \in Nat
                /\ \/ C!Visits(m, k % StagesC) = k \div StagesC
                   \/ C!Visits(m, k % StagesC) = (k \div StagesC) + 1
                /\ C!Visits(m, k % StagesC) = (k \div StagesC) + 1 => m > k
          BY CTurns
        <5>5. /\ q \in Nat /\ v \in Nat /\ (v = q \/ v = q + 1)
              /\ v = q + 1 => clanded > Awaited
          BY ONLY <5>1, <5>3, <5>4
        <5> HIDE DEF s, q, v
        <5> QED BY <5>2, <5>3, <5>5
      <4>2. cfull[s] = Flying(v) \/ cfull[s] = Landed(v)
        <5>1. SourceFull(s)
          BY <4>1 DEF SourceInv
        <5> QED BY <5>1, SourceFullForm
      <4>3. PhaseDone(cfull[s], (0 + q) % 2)
        BY <3>2
      <4> HIDE DEF s, q, v
      <4>4. v % 2 # (0 + q) % 2
        BY <4>1, <4>2, <4>3, BarrierSteps
      <4>5. v # q
        BY <4>1, <4>4
      <4> QED BY <4>1, <4>5, <3>2, <1>2
    <3> QED BY <3>1, <3>2, <2>5
  <2>9. clanded' \in Nat /\ Awaited' <= clanded' /\ clanded' <= SourcesIssued'
        /\ estate'.count <= Freed' + StagesC
    BY <1>2, <2>1, <2>2, <2>6, <2>8
  <2> QED BY <2>3, <2>7, <2>9 DEF SourceInv
<1> QED BY <1>5, <1>6, <1>7, <1>8, <1>9, <1>10 DEF Next, EpilogueLoadWarp, Terminated

-----------------------------------------------------------------------------
(* 8. Shared memory of the epilogue.                                       *)

Stage == EpilogueSection \ {"hand"}

(* The stores of a group that is in its epilogue. *)
LEMMA StoredFacts ==
  ASSUME OrderInv, EpilogueCursorInv, NEW w \in WarpGroups, wpc[w] \in Stage
  PROVE  /\ Stored(w) \in Nat /\ Base(tile[w]) \in Nat /\ Returned(w) \in Nat
         /\ Stored(w) = IF wpc[w] \in {"source", "read", "write"} THEN sub[w] ELSE sub[w] + 1
         /\ Base(tile[w]) + Stored(w) = IF wpc[w] \in {"source", "read", "write"} THEN Subtile(w)
                                        ELSE Subtile(w) + 1
         /\ Returned(w) <= IF wpc[w] \in {"source", "read"} THEN sub[w] ELSE sub[w] + 1
         /\ ReuseSmemC => Returned(w) <= sub[w] + IF wpc[w] \in {"stored", "drain"} THEN 1 ELSE 0
         /\ ReuseSmemC => Returned(w) + UnacquiredStages <= Stored(w) \/ Returned(w) = 0
         /\ ReuseSmemC /\ wpc[w] = "acquire" =>
              Returned(w) + UnacquiredStages < Stored(w) \/ Returned(w) = 0
<1> DEFINE s == sub[w]
           U == UnacquiredStages
           S == Stored(w)
           R == Returned(w)
<1>1. /\ Base(tile[w]) \in Nat /\ s \in Nat /\ Subtile(w) = Base(tile[w]) + s
      /\ U \in Nat
  BY EpilogueFacts, Parameters
<1>2. S = IF wpc[w] \in {"source", "read", "write"} THEN s ELSE s + 1
  BY DEF Stored, Stage, EpilogueSection
<1>3. StoresWaited(w) = IF wpc[w] \in {"stored", "drain"} THEN s + 1 ELSE s
  BY DEF StoresWaited
<1>4. ReuseSmemC => R = IF StoresWaited(w) < U THEN 0 ELSE StoresWaited(w) - U
  BY DEF Returned
<1>5. ~ReuseSmemC => R = IF wpc[w] \in {"source", "read"} THEN s ELSE s + 1
  BY DEF Returned
<1> HIDE DEF s, U, S, R
<1>6. CASE wpc[w] \in {"source", "read"}
  <2>1. S = s /\ StoresWaited(w) = s /\ wpc[w] \in {"source", "read", "write"}
        /\ wpc[w] \notin {"stored", "drain"} /\ wpc[w] # "acquire"
    BY <1>2, <1>3, <1>6
  <2>2. R \in Nat /\ R <= s /\ (ReuseSmemC => R + U <= s \/ R = 0)
    BY <1>1, <1>4, <1>5, <1>6, <2>1
  <2> QED BY <1>1, <1>6, <2>1, <2>2 DEF s, S, R, U
<1>7. CASE wpc[w] = "write"
  <2>1. S = s /\ StoresWaited(w) = s
    BY <1>2, <1>3, <1>7
  <2>2. R \in Nat /\ R <= s + 1 /\ (ReuseSmemC => R <= s /\ (R + U <= s \/ R = 0))
    BY <1>1, <1>4, <1>5, <1>7, <2>1
  <2>3. wpc[w] \notin {"stored", "drain"} /\ wpc[w] \notin {"source", "read"} /\ wpc[w] # "acquire"
    BY <1>7
  <2> QED BY <1>1, <1>7, <2>1, <2>2, <2>3 DEF s, S, R, U
<1>8. CASE wpc[w] = "acquire"
  <2>1. S = s + 1 /\ StoresWaited(w) = s
    BY <1>2, <1>3, <1>8
  <2>2. R \in Nat /\ R <= s + 1 /\ (ReuseSmemC => R <= s /\ (R + U < s + 1 \/ R = 0))
    BY <1>1, <1>4, <1>5, <1>8, <2>1
  <2>3. wpc[w] \notin {"stored", "drain"} /\ wpc[w] \notin {"source", "read"}
        /\ wpc[w] \notin {"source", "read", "write"}
    BY <1>8
  <2>4. R + U < s + 1 => R + U <= s + 1
    BY <1>1, <2>2
  <2> QED BY <1>1, <1>8, <2>1, <2>2, <2>3, <2>4 DEF s, S, R, U
<1>9. CASE wpc[w] \in {"stored", "drain"}
  <2>1. S = s + 1 /\ StoresWaited(w) = s + 1
    BY <1>2, <1>3, <1>9
  <2>2. R \in Nat /\ R <= s + 1 /\ (ReuseSmemC => R + U <= s + 1 \/ R = 0)
    BY <1>1, <1>4, <1>5, <1>9, <2>1
  <2>3. wpc[w] # "acquire" /\ wpc[w] \notin {"source", "read"}
        /\ wpc[w] \notin {"source", "read", "write"}
    BY <1>9
  <2> QED BY <1>1, <1>9, <2>1, <2>2, <2>3 DEF s, S, R, U
<1> QED BY <1>6, <1>7, <1>8, <1>9 DEF Stage, EpilogueSection

(* A store in flight has read its C, and with reuse its slot is not yet    *)
(* given back.                                                             *)
LEMMA StoreWindow ==
  ASSUME OrderInv, EpilogueCursorInv, NEW x, StoreInFlight(x)
  PROVE  /\ x[1] \in WarpGroups /\ x[2] \in Nat /\ wpc[x[1]] \in Stage
         /\ kernel.LoadNeeded => x[2] < Consumed
         /\ kernel.LoadNeeded /\ ReuseSmemC => Freed <= x[2]
<1> DEFINE w == x[1]
           n == x[2]
           U == UnacquiredStages
           S == Stored(w)
           R == Returned(w)
           b == Base(tile[w])
<1>1. /\ w \in WarpGroups /\ n \in Nat /\ wpc[w] \in Stage /\ b <= n /\ n < b + S
      /\ b + S <= n + IF wpc[w] = "acquire" THEN StagesD ELSE U
  BY DEF StoreInFlight, Stage
<1>2. /\ S \in Nat /\ b \in Nat /\ R \in Nat /\ U \in Nat /\ StagesD \in Nat /\ U = StagesD - 1
      /\ (b + S = IF wpc[w] \in {"source", "read", "write"} THEN Subtile(w) ELSE Subtile(w) + 1)
      /\ ReuseSmemC => R + U <= S \/ R = 0
      /\ ReuseSmemC /\ wpc[w] = "acquire" => R + U < S \/ R = 0
  BY <1>1, StoredFacts, Parameters
<1>3. ASSUME kernel.LoadNeeded PROVE n < Consumed
  <2>1. Consumed = Subtile(w) + IF wpc[w] \in {"source", "read"} THEN 0 ELSE 1
    BY <1>1, <1>3, SourceOwner DEF Stage, ReadBy, SourcesBy
  <2>2. Subtile(w) \in Nat
    BY <1>1, EpilogueFacts
  <2>3. b + S <= Consumed
    <3>1. wpc[w] \in {"source", "read"} => wpc[w] \in {"source", "read", "write"}
      OBVIOUS
    <3> HIDE DEF b, S, w
    <3> QED BY <1>2, <2>1, <2>2, <3>1
  <2>4. Consumed \in Nat
    BY <1>1, SourceOwner
  <2> HIDE DEF b, S, w, n
  <2> QED BY <1>1, <1>2, <2>3, <2>4
<1>4. ASSUME kernel.LoadNeeded, ReuseSmemC PROVE Freed <= n
  <2>1. Freed = b + R
    <3>1. Freed = rstate[w].count
      BY <1>1, <1>4, SourceOwner DEF Stage, FreedBy, SourcesBy
    <3>2. EpilogueCursor(w)
      BY <1>1, EpilogueFacts
    <3> QED BY <3>1, <3>2, <1>1, <1>4 DEF EpilogueCursor, Stage
  <2> HIDE DEF b, S, R, U, w, n
  <2>2. CASE wpc[w] = "acquire"
    BY <1>1, <1>2, <1>4, <2>1, <2>2
  <2>3. CASE wpc[w] # "acquire"
    BY <1>1, <1>2, <1>4, <2>1, <2>3
  <2> QED BY <2>2, <2>3
<1> QED BY <1>1, <1>3, <1>4

(* A store in flight stays so while its group goes on. *)
LEMMA FlightMoves ==
  ASSUME kernel' = kernel, NEW x, StoreInFlight(x), tile'[x[1]] = tile[x[1]],
         wpc'[x[1]] \in Stage, Stored(x[1]) \in Nat, Stored(x[1])' \in Nat,
         Base(tile[x[1]]) \in Nat, Stored(x[1]) <= Stored(x[1])',
         Base(tile[x[1]]) + Stored(x[1])' <=
           x[2] + IF wpc'[x[1]] = "acquire" THEN StagesD ELSE UnacquiredStages
  PROVE  StoreInFlight(x)'
<1> DEFINE w == x[1]
           n == x[2]
           b == Base(tile[w])
<1>1. /\ x = <<w, n, SlotD(n % StoreStages)>> /\ w \in WarpGroups /\ n \in Nat
      /\ b <= n /\ n < b + Stored(w)
  BY DEF StoreInFlight
<1>2. SlotD(n % StoreStages)' = SlotD(n % StoreStages) /\ UnacquiredStages' = UnacquiredStages
      /\ Base(tile[w])' = b
  <2>1. StoreStages' = StoreStages
    BY StoreSame
  <2>2. \A i : SlotD(i)' = SlotD(i)
    BY StoreSame
  <2> QED BY <2>1, <2>2 DEF Base, UnacquiredStages, SlotD, ReuseSmemC
<1>3. n < b + Stored(w)'
  <2> DEFINE S == Stored(w)
             T == Stored(w)'
  <2>1. S \in Nat /\ T \in Nat /\ S <= T /\ b \in Nat /\ n \in Nat /\ n < b + S
    BY <1>1
  <2> HIDE DEF S, T, b, n, w
  <2>2. n < b + T
    BY <2>1
  <2> QED BY <2>2 DEF T
<1> QED BY <1>1, <1>2, <1>3 DEF StoreInFlight, Stage

(* A store in flight stays within its window when its group does not move. *)
LEMMA FlightFrame ==
  ASSUME kernel' = kernel, NEW x, StoreInFlight(x), tile'[x[1]] = tile[x[1]],
         wpc'[x[1]] = wpc[x[1]], sub'[x[1]] = sub[x[1]]
  PROVE  StoreInFlight(x)'
<1>1. Stored(x[1])' = Stored(x[1])
  BY DEF Stored
<1>2. StoreStages' = StoreStages /\ \A i : SlotD(i)' = SlotD(i)
  BY StoreSame
<1>3. SlotD(x[2] % StoreStages)' = SlotD(x[2] % StoreStages)
  BY <1>2 DEF SlotD, ReuseSmemC
<1> QED BY <1>1, <1>3 DEF StoreInFlight, Base, UnacquiredStages

(* A step of a group that writes no D: its stores still read in the slots  *)
(* that they were given.                                                   *)
LEMMA FlightStep ==
  ASSUME OrderInv, EpilogueCursorInv, NEW w \in WarpGroups, MathWarpGroup(w), kernel' = kernel,
         ~WriteAndStore(w), NEW x \in storing, StoreInFlight(x)
  PROVE  StoreInFlight(x)'
<1> DEFINE n == x[2]
           b == Base(tile[w])
           s == sub[w]
           U == UnacquiredStages
<1>1. /\ x[1] \in WarpGroups /\ wpc[x[1]] \in Stage /\ n \in Nat
      /\ n < Base(tile[x[1]]) + Stored(x[1])
      /\ Base(tile[x[1]]) + Stored(x[1]) <= n + IF wpc[x[1]] = "acquire" THEN StagesD ELSE U
  BY DEF StoreInFlight, Stage
<1>2. CASE x[1] # w
  <2>1. wpc'[x[1]] = wpc[x[1]] /\ tile'[x[1]] = tile[x[1]] /\ sub'[x[1]] = sub[x[1]]
    BY <1>1, <1>2, MathKeepsOthers
  <2> QED BY <2>1, FlightFrame
<1>3. CASE x[1] = w
  <2>1. /\ wpc[w] \in Stage /\ n < b + Stored(w)
        /\ b + Stored(w) <= n + IF wpc[w] = "acquire" THEN StagesD ELSE U
    BY <1>1, <1>3
  <2>2. /\ Stored(w) \in Nat /\ b \in Nat /\ s \in Nat /\ U \in Nat /\ Subtile(w) = b + s
        /\ Stored(w) = IF wpc[w] \in {"source", "read", "write"} THEN s ELSE s + 1
    BY <2>1, StoredFacts, EpilogueFacts, Parameters
  <2>3. wpc \in [WarpGroups -> PCs] /\ sub \in [WarpGroups -> Nat]
    BY EpilogueFacts DEF OrderInv, PCs
  <2>4. ASSUME tile'[w] = tile[w], wpc'[w] \in Stage, Stored(w)' = Stored(w), wpc'[w] # "acquire",
               b + Stored(w) <= n + U
        PROVE  StoreInFlight(x)'
    <3>1. Stored(w)' \in Nat /\ Stored(w) <= Stored(w)'
          /\ b + Stored(w)' <= n + IF wpc'[w] = "acquire" THEN StagesD ELSE U
      BY <2>2, <2>4
    <3> HIDE DEF b, n, s, U
    <3> QED BY <1>3, <2>2, <2>4, <3>1, FlightMoves DEF b, n, U
  <2>5. CASE WaitSource(w) \/ ReadSource(w)
    <3>1. /\ wpc[w] \in {"source", "read"} /\ wpc'[w] \in {"read", "write"}
          /\ tile' = tile /\ sub' = sub
      BY <2>3, <2>5 DEF WaitSource, ReadSource, Goto, store
    <3>2. Stored(w) = s /\ Stored(w)' = s
      BY <3>1 DEF Stored
    <3>3. wpc[w] # "acquire" /\ wpc'[w] # "acquire" /\ wpc'[w] \in Stage
      BY <3>1 DEF Stage, EpilogueSection
    <3> QED BY <2>1, <2>4, <3>1, <3>2, <3>3
  <2>6. CASE FetchNext(w)
    <3>1. wpc[w] = "stored" /\ wpc'[w] = "drain" /\ tile' = tile /\ sub' = sub
      BY <2>3, <2>6 DEF FetchNext, Goto, store
    <3>2. Stored(w) = s + 1 /\ Stored(w)' = s + 1
      BY <3>1 DEF Stored
    <3>3. wpc[w] # "acquire" /\ wpc'[w] # "acquire" /\ wpc'[w] \in Stage
      BY <3>1 DEF Stage, EpilogueSection
    <3> QED BY <2>1, <2>4, <3>1, <3>2, <3>3
  <2>7. CASE AcquireStore(w)
    <3>1. /\ wpc[w] = "acquire" /\ tile' = tile /\ n + U > Subtile(w)
          /\ wpc'[w] \in {"stored", "source", "write"}
          /\ s + 1 = Subtiles => wpc'[w] = "stored" /\ sub'[w] = s
          /\ s + 1 # Subtiles => wpc'[w] \in {"source", "write"} /\ sub'[w] = s + 1
      BY <1>3, <2>3, <2>7 DEF AcquireStore, Goto, StoresRead
    <3>2. Stored(w) = s + 1
      BY <3>1 DEF Stored
    <3>3. Stored(w)' = s + 1
      <4>1. CASE s + 1 = Subtiles
        BY <3>1, <4>1 DEF Stored
      <4>2. CASE s + 1 # Subtiles
        BY <3>1, <4>2 DEF Stored
      <4> QED BY <4>1, <4>2
    <3>4. wpc'[w] # "acquire" /\ wpc'[w] \in Stage
      BY <3>1 DEF Stage, EpilogueSection
    <3>5. b + Stored(w) <= n + U
      <4> HIDE DEF b, n, s, U
      <4> QED BY <1>1, <2>2, <3>1, <3>2 DEF n
    <3> QED BY <2>4, <3>1, <3>2, <3>3, <3>4, <3>5
  <2>8. CASE StoreTail(w)
    <3>1. wpc[w] = "drain" /\ n + 0 > Subtile(w)
      BY <1>3, <2>8 DEF StoreTail, StoresRead
    <3>2. Stored(w) = s + 1
      BY <3>1 DEF Stored
    <3>3. FALSE
      <4> HIDE DEF b, n, s, U
      <4> QED BY <1>1, <2>1, <2>2, <3>1, <3>2 DEF n
    <3> QED BY <3>3
  <2>9. CASE \/ MmaBegin(w) \/ WaitTile(w) \/ Multiply(w) \/ Release(w) \/ MmaPass(w) \/ MmaTail(w)
             \/ EpilogueTurn(w) \/ EpiloguePass(w) \/ Leave(w)
    <3>1. wpc[w] \notin Stage
      BY <2>9 DEF MmaBegin, WaitTile, Multiply, Release, MmaPass, MmaTail, EpilogueTurn,
                  EpiloguePass, Leave, Stage, EpilogueSection
    <3> QED BY <2>1, <3>1
  <2> QED BY <2>5, <2>6, <2>7, <2>8, <2>9 DEF MathWarpGroup
<1> QED BY <1>2, <1>3

(* D is written to a slot from which no store reads. *)
LEMMA WriteFlight ==
  ASSUME OrderInv, EpilogueCursorInv, NEW w \in WarpGroups, WriteAndStore(w), kernel' = kernel
  PROVE  /\ sstate[w].index = Subtile(w) % StoreStages /\ Subtile(w) \in Nat
         /\ \A x : x = <<w, Subtile(w), SlotD(Subtile(w) % StoreStages)>> => StoreInFlight(x)'
         /\ \A x : StoreInFlight(x) =>
              /\ StoreInFlight(x)'
              /\ x[2] < Subtile(w) /\ Subtile(w) < x[2] + StoreStages
<1> DEFINE b == Base(tile[w])
           s == sub[w]
           U == UnacquiredStages
<1>1. /\ wpc[w] = "write" /\ wpc'[w] = "acquire" /\ tile' = tile /\ sub' = sub
  BY DEF WriteAndStore, Goto, OrderInv
<1>2. /\ Stored(w) = s /\ Stored(w)' = s + 1 /\ wpc[w] \in Stage /\ wpc'[w] \in Stage
  BY <1>1 DEF Stored, Stage, EpilogueSection
<1>3. /\ b \in Nat /\ s \in Nat /\ Subtile(w) = b + s /\ EpilogueCursor(w) /\ U \in Nat
      /\ StagesD \in Nat /\ U = StagesD - 1 /\ StoreStages \in Nat /\ StagesD <= StoreStages
      /\ 0 < StagesD
  BY EpilogueFacts, Parameters
<1>4. sstate[w].index = Subtile(w) % StoreStages
  <2>1. sstate[w] = D!StateAt(1, b + s)
    BY <1>1, <1>2, <1>3 DEF EpilogueCursor
  <2> QED BY <2>1, <1>3, DFields
<1>5. ASSUME NEW x, x = <<w, Subtile(w), SlotD(Subtile(w) % StoreStages)>>
      PROVE  StoreInFlight(x)'
  <2> DEFINE n == x[2]
  <2>1. x[1] = w /\ n = Subtile(w)
    BY <1>5
  <2>2. SlotD(n % StoreStages)' = SlotD(n % StoreStages)
    <3>1. StoreStages' = StoreStages /\ \A i : SlotD(i)' = SlotD(i)
      BY StoreSame
    <3> QED BY <3>1 DEF SlotD
  <2>3. n \in Nat /\ b <= n /\ n < b + (s + 1) /\ b + (s + 1) <= n + StagesD
    <3> HIDE DEF n
    <3> QED BY <1>3, <2>1
  <2>4. Base(tile[w])' = b
    BY <1>1 DEF Base
  <2> HIDE DEF n, b, s
  <2>5. /\ n \in Nat /\ wpc'[w] \in EpilogueSection \ {"hand"}
        /\ Base(tile'[w]) <= n /\ n < Base(tile'[w]) + Stored(w)'
        /\ Base(tile'[w]) + Stored(w)' <= n + IF wpc'[w] = "acquire" THEN StagesD ELSE UnacquiredStages
    BY <1>1, <1>2, <2>3, <2>4 DEF Stage, Base, s, b
  <2>6. x = <<w, n, SlotD(n % StoreStages)>>
    BY <1>5, <2>1
  <2> QED BY <2>1, <2>2, <2>5, <2>6 DEF StoreInFlight, Base, n
<1>6. ASSUME NEW x, StoreInFlight(x)
      PROVE  StoreInFlight(x)' /\ x[2] < Subtile(w) /\ Subtile(w) < x[2] + StoreStages
  <2>1. /\ x[1] \in WarpGroups /\ wpc[x[1]] \in Stage /\ x[2] \in Nat
        /\ x[2] < Base(tile[x[1]]) + Stored(x[1])
        /\ Base(tile[x[1]]) + Stored(x[1]) <= x[2] + IF wpc[x[1]] = "acquire" THEN StagesD ELSE U
    BY <1>6 DEF StoreInFlight, Stage
  <2>2. x[1] = w
    <3> SUFFICES ASSUME x[1] # w PROVE FALSE
      OBVIOUS
    <3>1. x[1] = 1 - w
      BY <2>1, Groups
    <3>2. wpc[1 - w] \notin EpilogueSection
      BY <1>2, EpilogueOwner DEF Stage
    <3> QED BY <2>1, <3>1, <3>2 DEF Stage
  <2>3. x[2] < b + s /\ b + s <= x[2] + U
    BY <1>1, <1>2, <2>1, <2>2
  <2>4. x[2] < Subtile(w) /\ Subtile(w) < x[2] + StoreStages
    <3> HIDE DEF b, s, U
    <3> QED BY <1>3, <2>1, <2>3
  <2>5. b + (s + 1) <= x[2] + StagesD /\ s <= s + 1 /\ s + 1 \in Nat
    <3> HIDE DEF b, s, U
    <3> QED BY <1>3, <2>1, <2>3
  <2>6. StoreInFlight(x)'
    BY <1>1, <1>2, <1>3, <1>6, <2>2, <2>5, FlightMoves
  <2> QED BY <2>4, <2>6
<1> QED BY <1>3, <1>4, <1>5, <1>6

(* The slots depend on the kernel only. *)
LEMMA SlotsSame ==
  ASSUME kernel' = kernel
  PROVE  /\ EpilogueSlots' = EpilogueSlots
         /\ \A n : SlotD(n % StoreStages)' = SlotD(n % StoreStages)
<1>1. StoreStages' = StoreStages /\ ReuseSmemC' = ReuseSmemC /\ \A i : SlotD(i)' = SlotD(i)
  BY StoreSame
<1>2. D!Index' = D!Index
  BY <1>1 DEF D!Index
<1>3. EpilogueSlots' = EpilogueSlots
  BY <1>1, <1>2 DEF EpilogueSlots, SlotC, SlotD
<1>4. \A n : SlotD(n % StoreStages)' = SlotD(n % StoreStages)
  BY <1>1 DEF SlotD
<1> QED BY <1>3, <1>4

(* Slots of C and D: no two are one, unless the slots are shared. *)
LEMMA SlotFacts ==
  ASSUME OrderInv
  PROVE  /\ \A i \in C!Index : SlotC(i) \in EpilogueSlots
         /\ \A n \in Nat : SlotC(n % StagesC) \in EpilogueSlots /\ SlotD(n % StoreStages) \in EpilogueSlots
         /\ \A i, j : SlotC(i) = SlotC(j) => i = j
         /\ \A i, j : SlotD(i) = SlotD(j) => i = j
         /\ ~ReuseSmemC => \A i, j : SlotC(i) # SlotD(j)
         /\ ReuseSmemC => StoreStages = StagesC /\ \A i : SlotD(i) = SlotC(i)
<1>1. \A n \in Nat : n % StagesC \in C!Index /\ n % StoreStages \in D!Index
  BY CSlots, DCursor
<1>2. \A i \in C!Index : SlotC(i) \in EpilogueSlots
  BY DEF EpilogueSlots
<1>3. \A i \in D!Index : SlotD(i) \in EpilogueSlots
  BY DEF EpilogueSlots
<1>4. \A i, j : SlotC(i) = SlotC(j) => i = j
  BY DEF SlotC
<1>5. \A i, j : SlotD(i) = SlotD(j) => i = j
  BY DEF SlotC, SlotD
<1>6. ~ReuseSmemC => \A i, j : SlotC(i) # SlotD(j)
  BY DEF SlotC, SlotD
<1>7. ReuseSmemC => StoreStages = StagesC /\ \A i : SlotD(i) = SlotC(i)
  BY Parameters DEF SlotD
<1> QED BY <1>1, <1>2, <1>3, <1>4, <1>5, <1>6, <1>7

(* Stores in flight whose slots lie less than a round apart. *)
LEMMA StoreSlotApart ==
  ASSUME NEW m \in Nat, NEW n \in Nat, m < n, n < m + StoreStages
  PROVE  m % StoreStages # n % StoreStages
  BY Parameters, DL!DistinctSlots

(* Nothing is in flight at the start. *)
LEMMA MemoryInit == Init => MemoryInv
<1> SUFFICES ASSUME Init PROVE MemoryInv
  OBVIOUS
<1>1. OrderInv /\ EpilogueCursorInv /\ SourceInv
  BY OrderInit, EpilogueCursorInit, SourceInit
<1>2. clanded = 0 /\ storing = {} /\ DOMAIN smem = EpilogueSlots
  BY DEF Init
<1>3. \A n \in Nat : ~(n < clanded)
  BY <1>2
<1> QED BY <1>2, <1>3 DEF MemoryInv

(* Every step keeps what is in shared memory. *)
LEMMA MemoryStep ==
  ASSUME OrderInv, EpilogueCursorInv, SourceInv, MemoryInv, [Next]_vars
  PROVE  MemoryInv'
<1> DEFINE e == estate.count
<1>1. kernel' = kernel
  BY NextKeeps
<1>2. /\ Freed \in Nat /\ Consumed \in Nat /\ Awaited \in Nat /\ clanded \in Nat
      /\ SourcesIssued \in Nat /\ e \in Nat /\ StagesC \in Nat /\ StagesC > 0
      /\ Freed <= Consumed /\ Consumed <= Awaited /\ Awaited <= clanded
      /\ clanded <= SourcesIssued /\ SourcesIssued <= e /\ e <= Freed + StagesC
  BY SourceMain
<1>3. /\ DOMAIN smem = EpilogueSlots
      /\ \A x \in storing : StoreInFlight(x) /\ smem[SlotD(x[2] % StoreStages)] = <<"D", x[2]>>
      /\ \A n \in Nat : Consumed <= n /\ n < clanded => smem[SlotC(n % StagesC)] = <<"C", n>>
  BY DEF MemoryInv
<1>4. EpilogueSlots' = EpilogueSlots /\ \A n : SlotD(n % StoreStages)' = SlotD(n % StoreStages)
  BY <1>1, SlotsSame
<1>5. ~kernel.LoadNeeded => epc = "exit" /\ e = 0
  BY DEF EpilogueCursorInv, SourceCursor
<1>6. ASSUME smem' = smem, clanded' = clanded, storing' \subseteq storing,
             \A x \in storing' : StoreInFlight(x)', Consumed' \in Nat, Consumed <= Consumed'
      PROVE  MemoryInv'
  <2>1. \A n \in Nat : Consumed' <= n => Consumed <= n
    BY <1>2, <1>6
  <2> QED BY <1>3, <1>4, <1>6, <2>1 DEF MemoryInv, SlotC
<1>7. ASSUME smem' = smem, clanded' = clanded, storing' \subseteq storing,
             UNCHANGED <<wpc, tile, sub, rstate>>
      PROVE  MemoryInv'
  <2>1. Consumed' = Consumed
    BY <1>1, <1>7, SourcesSame
  <2>2. \A x \in storing' : StoreInFlight(x)'
    BY <1>1, <1>3, <1>7, FlightFrame
  <2> QED BY <1>2, <1>6, <1>7, <2>1, <2>2
<1>8. CASE LoadWarp \/ EpilogueBegin \/ RewriteMapC \/ EpilogueLoadTail \/ Land
           \/ (\E x \in storing : StoreReads(x)) \/ UNCHANGED vars
  <2>1. smem' = smem /\ clanded' = clanded /\ storing' \subseteq storing
    BY <1>8 DEF LoadWarp, LoadBegin, Load, Loaded, RewriteMapAB, LoadAdvance, LoadTail,
                EpilogueBegin, RewriteMapC, EpilogueLoadTail, Land, StoreReads, vars, source
  <2>2. UNCHANGED <<wpc, tile, sub, rstate>>
    BY <1>8, OthersKeepMath DEF EpilogueLoadWarp
  <2> QED BY <1>7, <2>1, <2>2
(* The load warp, or a load that ends, writes at the count c. *)
<1>9. ASSUME NEW c \in Nat, NEW v, kernel.LoadNeeded, Consumed <= c, c < Freed + StagesC,
             smem' = [smem EXCEPT ![SlotC(c % StagesC)] = v], storing' = storing,
             UNCHANGED <<wpc, tile, sub, rstate>>
      PROVE  /\ Consumed' = Consumed /\ DOMAIN smem' = EpilogueSlots'
             /\ smem'[SlotC(c % StagesC)] = v
             /\ \A x \in storing' :
                  StoreInFlight(x)' /\ smem'[SlotD(x[2] % StoreStages)'] = <<"D", x[2]>>
             /\ \A n \in Nat : Consumed <= n /\ n < clanded /\ n < c =>
                  smem'[SlotC(n % StagesC)] = <<"C", n>>
  <2>1. Consumed' = Consumed
    BY <1>1, <1>9, SourcesSame
  <2>2. DOMAIN smem' = EpilogueSlots' /\ smem'[SlotC(c % StagesC)] = v
        /\ \A s \in EpilogueSlots : s # SlotC(c % StagesC) => smem'[s] = smem[s]
    <3>1. SlotC(c % StagesC) \in EpilogueSlots
      BY SlotFacts
    <3> QED BY <3>1, <1>3, <1>4, <1>9
  <2>3. ASSUME NEW m \in Nat, Freed <= m, m < c
        PROVE  SlotC(m % StagesC) # SlotC(c % StagesC)
    <3>1. c < m + StagesC
      BY <1>2, <1>9, <2>3
    <3>2. m % StagesC # c % StagesC
      BY <2>3, <3>1, CSlots
    <3> QED BY <3>2, SlotFacts
  <2>4. ASSUME NEW x \in storing
        PROVE  StoreInFlight(x)' /\ smem'[SlotD(x[2] % StoreStages)'] = <<"D", x[2]>>
    <3>1. StoreInFlight(x) /\ smem[SlotD(x[2] % StoreStages)] = <<"D", x[2]>>
      BY <1>3
    <3>2. StoreInFlight(x)'
      BY <1>1, <1>9, <3>1, FlightFrame
    <3>3. x[2] \in Nat /\ x[2] < Consumed /\ (ReuseSmemC => Freed <= x[2])
      BY <1>9, <3>1, StoreWindow
    <3>4. SlotD(x[2] % StoreStages) # SlotC(c % StagesC)
      <4>1. CASE ReuseSmemC
        <5>1. SlotD(x[2] % StoreStages) = SlotC(x[2] % StagesC)
          BY <4>1, SlotFacts
        <5>2. x[2] < c
          BY <1>2, <1>9, <3>3
        <5> QED BY <2>3, <3>3, <4>1, <5>1, <5>2
      <4>2. CASE ~ReuseSmemC
        BY <4>2, SlotFacts
      <4> QED BY <4>1, <4>2
    <3>5. SlotD(x[2] % StoreStages) \in EpilogueSlots
      BY <3>3, SlotFacts
    <3> QED BY <1>4, <2>2, <3>1, <3>2, <3>4, <3>5
  <2>5. ASSUME NEW n \in Nat, Consumed <= n, n < clanded, n < c
        PROVE  smem'[SlotC(n % StagesC)] = <<"C", n>>
    <3>1. SlotC(n % StagesC) # SlotC(c % StagesC)
      <4>1. Freed <= n
        BY <1>2, <2>5
      <4> QED BY <2>3, <2>5, <4>1
    <3>2. SlotC(n % StagesC) \in EpilogueSlots
      BY SlotFacts
    <3> QED BY <1>3, <2>2, <2>5, <3>1, <3>2
  <2> QED BY <1>9, <2>1, <2>2, <2>4, <2>5
<1>10. CASE LoadSource
  <2>1. /\ epc = "load" /\ PhaseDone(cempty[estate.index], estate.phase)
        /\ smem' = [smem EXCEPT ![SlotC(estate.index)] = <<"torn", e>>]
        /\ storing' = storing /\ clanded' = clanded /\ UNCHANGED <<wpc, tile, sub, rstate>>
    BY <1>10 DEF LoadSource, math, store
  <2>2. kernel.LoadNeeded
    BY <1>5, <2>1
  <2>3. e < Freed + StagesC
    BY <2>1, SourceSlotIsFree
  <2>4. estate.index = e % StagesC
    BY SourceIssuedFacts, CFields
  <2>5. smem' = [smem EXCEPT ![SlotC(e % StagesC)] = <<"torn", e>>]
    BY <2>1, <2>4
  <2>6. Consumed <= e /\ \A n \in Nat : n < clanded => n < e
    BY <1>2
  <2>7. /\ Consumed' = Consumed /\ DOMAIN smem' = EpilogueSlots'
        /\ \A x \in storing' :
             StoreInFlight(x)' /\ smem'[SlotD(x[2] % StoreStages)'] = <<"D", x[2]>>
        /\ \A n \in Nat : Consumed <= n /\ n < clanded /\ n < e =>
             smem'[SlotC(n % StagesC)] = <<"C", n>>
    <3> HIDE DEF e
    <3> QED BY <1>2, <1>9, <2>1, <2>2, <2>3, <2>5, <2>6
  <2> HIDE DEF e
  <2> QED BY <2>1, <2>6, <2>7 DEF MemoryInv, SlotC
<1>11. CASE LandSource
  <2>1. /\ clanded < SourcesIssued /\ clanded' = clanded + 1
        /\ smem' = [smem EXCEPT ![SlotC(clanded % StagesC)] = <<"C", clanded>>]
        /\ storing' = storing /\ UNCHANGED <<wpc, tile, sub, rstate>>
    BY <1>11 DEF LandSource, math, store
  <2>2. kernel.LoadNeeded
    BY <1>2, <1>5, <2>1
  <2>3. Consumed <= clanded /\ clanded < Freed + StagesC
    BY <1>2, <2>1
  <2>4. /\ Consumed' = Consumed /\ DOMAIN smem' = EpilogueSlots'
        /\ smem'[SlotC(clanded % StagesC)] = <<"C", clanded>>
        /\ \A x \in storing' :
             StoreInFlight(x)' /\ smem'[SlotD(x[2] % StoreStages)'] = <<"D", x[2]>>
        /\ \A n \in Nat : Consumed <= n /\ n < clanded /\ n < clanded =>
             smem'[SlotC(n % StagesC)] = <<"C", n>>
    BY <1>2, <1>9, <2>1, <2>2, <2>3
  <2>5. \A n \in Nat : n < clanded' => n < clanded \/ n = clanded
    BY <1>2, <2>1
  <2>6. \A n \in Nat : Consumed' <= n /\ n < clanded' => smem'[SlotC(n % StagesC)] = <<"C", n>>
    BY <2>4, <2>5
  <2> QED BY <2>4, <2>6 DEF MemoryInv, SlotC
<1>12. ASSUME NEW w \in WarpGroups, MathWarpGroup(w) PROVE MemoryInv'
  <2>1. clanded' = clanded
    BY <1>12, MathKeepsOthers
  <2>2. Consumed' \in Nat /\ Consumed <= Consumed' /\ (WriteAndStore(w) => Consumed' = Consumed)
    <3>1. Consumed' = Consumed \/ (ReadSource(w) /\ Consumed' = Consumed + 1)
      <4>1. DOMAIN cempty = C!Index
        BY DEF SourceInv
      <4> QED BY <4>1, <1>1, <1>12, MathSources
    <3>2. WriteAndStore(w) => ~ReadSource(w)
      BY DEF WriteAndStore, ReadSource
    <3> QED BY <3>1, <3>2, <1>2
  <2>3. CASE ~WriteAndStore(w)
    <3>1. smem' = smem /\ storing' = storing
      BY <1>12, <2>3, Zenon DEF MathWarpGroup, MmaBegin, WaitTile, Multiply, Release, MmaPass, MmaTail,
           EpilogueTurn, WaitSource, ReadSource, AcquireStore, FetchNext, StoreTail, StoreTailDone,
           EpiloguePass, Leave
    <3>2. \A x \in storing' : StoreInFlight(x)'
      BY <1>1, <1>3, <1>12, <2>3, <3>1, FlightStep
    <3>3. storing' \subseteq storing
      BY <3>1
    <3> QED BY <1>6, <2>1, <2>2, <3>1, <3>2, <3>3
  <2>4. CASE WriteAndStore(w)
    <3> DEFINE d == Subtile(w)
               s == SlotD(d % StoreStages)
    <3>1. /\ sstate[w].index = d % StoreStages /\ d \in Nat
          /\ \A x : x = <<w, d, s>> => StoreInFlight(x)'
          /\ \A x : StoreInFlight(x) =>
               StoreInFlight(x)' /\ x[2] < d /\ d < x[2] + StoreStages
      BY <1>1, <2>4, WriteFlight
    <3>2. /\ wpc[w] = "write" /\ smem' = [smem EXCEPT ![s] = <<"D", d>>]
          /\ storing' = storing \cup {<<w, d, s>>}
      BY <2>4, <3>1 DEF WriteAndStore
    <3>3. s \in EpilogueSlots
      BY <3>1, SlotFacts
    <3>4. /\ DOMAIN smem' = EpilogueSlots' /\ smem'[s] = <<"D", d>>
          /\ \A t \in EpilogueSlots : t # s => smem'[t] = smem[t]
      <4> HIDE DEF s, d
      <4> QED BY <1>3, <1>4, <3>2, <3>3
    <3>5. ASSUME NEW x \in storing
          PROVE  StoreInFlight(x)' /\ smem'[SlotD(x[2] % StoreStages)] = <<"D", x[2]>>
      <4>1. StoreInFlight(x) /\ smem[SlotD(x[2] % StoreStages)] = <<"D", x[2]>>
        BY <1>3
      <4>2. x[2] \in Nat
        BY <4>1 DEF StoreInFlight
      <4>3. StoreInFlight(x)' /\ x[2] < d /\ d < x[2] + StoreStages
        BY <3>1, <4>1
      <4>4. SlotD(x[2] % StoreStages) # s
        <5>1. x[2] % StoreStages # d % StoreStages
          <6> HIDE DEF d
          <6> QED BY <3>1, <4>2, <4>3, StoreSlotApart
        <5> QED BY <5>1, SlotFacts
      <4>5. SlotD(x[2] % StoreStages) \in EpilogueSlots
        BY <4>2, SlotFacts
      <4> QED BY <3>4, <4>1, <4>3, <4>4, <4>5
    <3>6. ASSUME NEW n \in Nat, Consumed <= n, n < clanded
          PROVE  smem'[SlotC(n % StagesC)] = <<"C", n>>
      <4>1. kernel.LoadNeeded
        BY <1>2, <1>5, <3>6
      <4>2. wpc[w] \in Stage /\ wpc[w] \in EpilogueSection
        BY <3>2 DEF Stage, EpilogueSection
      <4>3. Consumed = d + 1
        BY <4>1, <4>2, <3>2, SourceOwner DEF ReadBy, SourcesBy
      <4>4. ReuseSmemC => Freed <= d
        <5>1. Freed = rstate[w].count
          BY <3>2, <4>1, <4>2, SourceOwner DEF FreedBy, SourcesBy
        <5>2. rstate[w].count = Base(tile[w]) + Returned(w)
          BY <3>2, <4>1, <4>2, EpilogueFacts DEF EpilogueCursor
        <5>3. ReuseSmemC => Returned(w) <= sub[w]
          <6>1. ReuseSmemC => Returned(w) <= sub[w] + 0
            BY <3>2, <4>2, StoredFacts
          <6> QED BY <6>1, EpilogueFacts
        <5>4. d = Base(tile[w]) + sub[w] /\ Base(tile[w]) \in Nat /\ sub[w] \in Nat
              /\ Returned(w) \in Nat
          BY <4>2, EpilogueFacts, StoredFacts
        <5> HIDE DEF d
        <5> QED BY <5>1, <5>2, <5>3, <5>4
      <4>5. SlotC(n % StagesC) # s
        <5>1. CASE ReuseSmemC
          <6>1. s = SlotC(d % StagesC)
            BY <5>1, SlotFacts
          <6>2. d < n /\ n < d + StagesC
            <7> HIDE DEF d
            <7> QED BY <1>2, <3>1, <3>6, <4>3, <4>4, <5>1
          <6>3. d % StagesC # n % StagesC
            <7> HIDE DEF d
            <7> QED BY <3>1, <6>2, CSlots
          <6> QED BY <6>1, <6>3, SlotFacts
        <5>2. CASE ~ReuseSmemC
          BY <5>2, SlotFacts
        <5> QED BY <5>1, <5>2
      <4>6. SlotC(n % StagesC) \in EpilogueSlots
        BY SlotFacts
      <4> QED BY <1>3, <3>4, <3>6, <4>5, <4>6
    <3>7. \A x \in storing' :
            StoreInFlight(x)' /\ smem'[SlotD(x[2] % StoreStages)'] = <<"D", x[2]>>
      <4>1. ASSUME NEW x \in storing'
            PROVE  StoreInFlight(x)' /\ smem'[SlotD(x[2] % StoreStages)] = <<"D", x[2]>>
        <5>1. CASE x \in storing
          BY <3>5, <5>1
        <5>2. CASE x = <<w, d, s>>
          <6>1. x[2] = d
            BY <5>2
          <6> HIDE DEF d, s
          <6>2. StoreInFlight(x)'
            BY <3>1, <5>2
          <6> QED BY <3>4, <6>1, <6>2 DEF s
        <5> HIDE DEF d, s
        <5> QED BY <3>2, <4>1, <5>1, <5>2
      <4> QED BY <1>4, <4>1
    <3>8. \A n \in Nat : Consumed' <= n /\ n < clanded' => smem'[SlotC(n % StagesC)] = <<"C", n>>
      BY <2>1, <2>2, <2>4, <3>6
    <3> QED BY <3>4, <3>7, <3>8 DEF MemoryInv, SlotC
  <2> QED BY <2>3, <2>4
<1> QED BY <1>8, <1>10, <1>11, <1>12 DEF Next, EpilogueLoadWarp, Terminated

-----------------------------------------------------------------------------
(* 9. The tensor maps.                                                     *)

(* The work tile of a subtile *)
LEMMA SubtileTile ==
  ASSUME NEW t \in Nat \ {0}, NEW n \in Nat, Base(t) <= n, n < Base(t + 1)
  PROVE  (n \div Subtiles) + 1 = t
<1> DEFINE q == t - 1
           r == n - Base(t)
<1>1. q \in Nat /\ q + 1 = t /\ Base(t) = q * Subtiles /\ Base(t) \in Nat
      /\ Base(t + 1) = Base(t) + Subtiles /\ Subtiles \in Nat
  BY Bases, Parameters DEF Base
<1>2. r \in 0 .. Subtiles - 1 /\ n = q * Subtiles + r
  <2>1. r \in Nat /\ r < Subtiles /\ n = Base(t) + r
    <3> HIDE DEF q
    <3> QED BY <1>1
  <2> HIDE DEF q, r
  <2> QED BY <2>1, <1>1
<1>3. r \in TL!Index
  BY <1>2 DEF TL!Index
<1> HIDE DEF q, r
<1>4. n \div Subtiles = q
  BY <1>1, <1>2, <1>3, Parameters, TL!DivModUnique
<1> QED BY <1>1, <1>4

(* The batches of the tiles of a plain kernel do not differ. *)
LEMMA SameBatch ==
  ASSUME kernel \in Kernels, NEW s \in 1 .. NumTiles, NEW t \in 1 .. NumTiles, ~kernel.Array
  PROVE  kernel.batch[s] = kernel.batch[t]
  BY Tiles

(* The tensor maps start as those of the first work tile. *)
LEMMA MapsInit == Init => MapsInv
<1> SUFFICES ASSUME Init PROVE MapsInv
  OBVIOUS
<1>1. OrderInv /\ CursorInv /\ EpilogueCursorInv /\ MainloopInv /\ SourceInv
  BY OrderInit, CursorInit, EpilogueCursorInit, MainloopInit, SourceInit
<1>2. /\ landed = 0 /\ clanded = 0 /\ ptile = 1 /\ etile = 1
      /\ DOMAIN maps = {"AB", "C", "D"}
      /\ maps.AB = (IF NumTiles = 0 THEN 0 ELSE kernel.batch[1])
      /\ maps.C = (IF NumTiles = 0 THEN 0 ELSE kernel.batch[1])
  BY DEF Init
<1>3. IsValid(1) => NumTiles # 0
  <2>1. NumTiles \in Nat
    BY <1>1, KernelType DEF OrderInv
  <2> QED BY <2>1 DEF IsValid
<1>4. LoadsIssued = 0 /\ SourcesIssued = 0
  <2>1. pwrite = K!StateAt(1, 0) /\ estate = C!StateAt(1, 0)
    BY KCursor, CCursor DEF Init
  <2>2. pwrite.count = 0 /\ estate.count = 0
    BY <2>1, KFields, CFields
  <2>3. LoadsIssued \in Nat /\ LoadsIssued <= pwrite.count
        /\ SourcesIssued \in Nat /\ SourcesIssued <= estate.count
    BY <1>1, IssuedFacts, SourceIssuedFacts
  <2> QED BY <2>2, <2>3
<1>5. \A n \in Nat : ~(n < LoadsIssued) /\ ~(n < SourcesIssued)
  BY <1>4
<1> QED BY <1>2, <1>3, <1>5 DEF MapsInv

(* The conjuncts of the invariant that the epilogue load warp, and that    *)
(* the mainloop load warp, leaves alone.                                   *)
MainloopMap ==
  /\ ppc \in {"fetch", "load", "loaded", "advance"} /\ IsValid(ptile) => maps.AB = kernel.batch[ptile]
  /\ \A n \in Nat : landed <= n /\ n < LoadsIssued =>
       \E t \in 1 .. NumTiles : Start(t) <= n /\ n < Start(t + 1) /\ kernel.batch[t] = maps.AB
SourceMap ==
  /\ epc \in {"order", "load"} /\ IsValid(etile) => maps.C = kernel.batch[etile]
  /\ \A n \in Nat : clanded <= n /\ n < SourcesIssued => kernel.batch[(n \div Subtiles) + 1] = maps.C

(* The two halves of the layer, for A and B and for C. *)
LEMMA MapsParts ==
  /\ MapsInv <=> DOMAIN maps = {"AB", "C", "D"} /\ MainloopMap /\ SourceMap
  /\ MapsInv' <=> DOMAIN maps' = {"AB", "C", "D"} /\ MainloopMap' /\ SourceMap'
  BY DEF MapsInv, MainloopMap, SourceMap

(* A landing, or a move of the load warp to a tile with the same map. *)
LEMMA MainloopMapMoves ==
  ASSUME MainloopMap, kernel' = kernel, maps'.AB = maps.AB, landed \in Nat, landed' \in Nat,
         landed <= landed', LoadsIssued' = LoadsIssued,
         ppc' \in {"fetch", "load", "loaded", "advance"} /\ IsValid(ptile') =>
           maps.AB = kernel.batch[ptile']
  PROVE  MainloopMap'
<1>1. \A n \in Nat : landed' <= n => landed <= n
  OBVIOUS
<1>2. \A t : IsValid(t)' = IsValid(t) /\ NumTiles' = NumTiles
  BY DEF IsValid, NumTiles
<1> QED BY <1>1, <1>2 DEF MainloopMap, Start, IsValid

(* The same for the sources. *)
LEMMA SourceMapMoves ==
  ASSUME SourceMap, kernel' = kernel, maps'.C = maps.C, clanded \in Nat, clanded' \in Nat,
         clanded <= clanded', SourcesIssued' = SourcesIssued,
         epc' \in {"order", "load"} /\ IsValid(etile') => maps.C = kernel.batch[etile']
  PROVE  SourceMap'
<1>1. \A n \in Nat : clanded' <= n => clanded <= n
  OBVIOUS
<1>2. \A t : IsValid(t)' = IsValid(t)
  BY DEF IsValid, NumTiles
<1> QED BY <1>1, <1>2 DEF SourceMap, IsValid

(* When the load of the last slot has landed, all have. *)
LEMMA AllLanded ==
  ASSUME OrderInv, CursorInv, MainloopInv, RewriteMapAB
  PROVE  LoadsIssued = landed
<1> DEFINE a == pwrite.count
           i == (a - 1) % Stages
           q == (a - 1) \div Stages
<1>1. /\ landed \in Nat /\ a \in Nat /\ landed <= LoadsIssued /\ LoadsIssued <= a
      /\ a <= landed + Stages /\ LoadsIssued \in Nat
  <2>1. /\ Waited \in Nat /\ landed \in Nat /\ LoadsIssued \in Nat /\ a \in Nat
        /\ Waited <= landed /\ landed <= LoadsIssued /\ LoadsIssued <= a
        /\ a <= Waited + Stages /\ Stages \in Nat
    BY MainFacts
  <2> HIDE DEF a
  <2> QED BY <2>1
<1>2. ppc = "remap" /\ PhaseDone(full[Inverted(pstate).index], Inverted(pstate).phase)
  BY DEF RewriteMapAB
<1>3. pstate = K!StateAt(1, a - 1) /\ a > 0
  BY <1>2 DEF CursorInv, ProducerCursor
<1>4. q \in Nat /\ i \in K!Index
  <2>1. a - 1 \in Nat
    BY <1>1, <1>3
  <2> QED BY <2>1, KSlots
<1>5. Inverted(pstate).index = i /\ Inverted(pstate).phase = (0 + q) % 2
  <2>1. pstate.index = i /\ pstate.phase = (1 + q) % 2
    BY <1>3, KFields
  <2>2. DOMAIN pstate = {"index", "phase", "count"}
    BY <1>3 DEF K!StateAt
  <2>3. 1 - ((1 + q) % 2) = (0 + q) % 2
    <3> HIDE DEF q
    <3> QED BY <1>4
  <2>4. Inverted(pstate).index = pstate.index /\ Inverted(pstate).phase = 1 - pstate.phase
    BY <2>2 DEF Inverted, K!Flip
  <2> HIDE DEF i, q
  <2> QED BY <2>1, <2>3, <2>4
<1>6. PhaseDone(full[i], (0 + q) % 2)
  BY <1>2, <1>5
<1> DEFINE v == K!Visits(landed, i)
<1>7. v \in Nat /\ (v = q \/ v = q + 1) /\ (v = q + 1 => landed = a)
  <2>1. landed <= a
    BY <1>1
  <2> QED BY <2>1, <1>1, <1>3, KTurns
<1>8. full[i] = Flying(v) \/ full[i] = Landed(v)
  <2>1. FullBarrier(i)
    BY <1>4 DEF MainloopInv
  <2> QED BY <2>1, FullForm
<1> HIDE DEF i, q, v, a
<1>9. v % 2 # (0 + q) % 2
  BY <1>6, <1>7, <1>8, BarrierSteps
<1>10. v # q
  BY <1>7, <1>9
<1> QED BY <1>1, <1>7, <1>10

(* The tensor map of C is rewritten only when all sources have landed. *)
LEMMA AllSourcesLanded ==
  ASSUME OrderInv, EpilogueCursorInv, SourceInv, RewriteMapC
  PROVE  SourcesIssued = clanded
<1> DEFINE e == estate.count
           i == (e - 1) % StagesC
           q == (e - 1) \div StagesC
           last == C!StateAt(1, e - 1)
<1>1. /\ clanded \in Nat /\ e \in Nat /\ clanded <= SourcesIssued /\ SourcesIssued <= e
      /\ e <= clanded + StagesC /\ SourcesIssued \in Nat
  <2>1. /\ Freed \in Nat /\ Consumed \in Nat /\ Awaited \in Nat /\ clanded \in Nat
        /\ SourcesIssued \in Nat /\ e \in Nat /\ StagesC \in Nat
        /\ Freed <= Consumed /\ Consumed <= Awaited /\ Awaited <= clanded
        /\ clanded <= SourcesIssued /\ SourcesIssued <= e /\ e <= Freed + StagesC
    BY SourceMain
  <2> HIDE DEF e
  <2> QED BY <2>1
<1>2. epc = "remap" /\ PhaseDone(cfull[last.index], Inverted(last).phase)
  BY DEF RewriteMapC
<1>3. e > 0
  <2>1. e = Base(etile + 1) /\ etile \in Nat \ {0}
    BY <1>2 DEF EpilogueCursorInv, SourceCursor
  <2>2. Base(etile) \in Nat /\ Base(etile + 1) = Base(etile) + Subtiles
    BY <2>1, Bases
  <2> QED BY <2>1, <2>2, Parameters
<1>4. q \in Nat /\ i \in C!Index
  <2>1. e - 1 \in Nat
    BY <1>1, <1>3
  <2> QED BY <2>1, CSlots
<1>5. last.index = i /\ Inverted(last).phase = (0 + q) % 2
  <2>1. last.index = i /\ last.phase = (1 + q) % 2
    BY CFields
  <2>2. DOMAIN last = {"index", "phase", "count"}
    BY DEF C!StateAt
  <2>3. 1 - ((1 + q) % 2) = (0 + q) % 2
    <3> HIDE DEF q
    <3> QED BY <1>4
  <2>4. Inverted(last).phase = 1 - last.phase
    <3> HIDE DEF last
    <3> QED BY <2>2 DEF Inverted, K!Flip
  <2> HIDE DEF i, q, last
  <2> QED BY <2>1, <2>3, <2>4
<1>6. PhaseDone(cfull[i], (0 + q) % 2)
  <2> HIDE DEF last
  <2> QED BY <1>2, <1>5
<1> DEFINE v == C!Visits(clanded, i)
<1>7. v \in Nat /\ (v = q \/ v = q + 1) /\ (v = q + 1 => clanded = e)
  <2>1. clanded <= e
    BY <1>1
  <2> QED BY <2>1, <1>1, <1>3, CTurns
<1>8. cfull[i] = Flying(v) \/ cfull[i] = Landed(v)
  <2>1. SourceFull(i)
    BY <1>4 DEF SourceInv
  <2> QED BY <2>1, SourceFullForm
<1> HIDE DEF i, q, v, e
<1>9. v % 2 # (0 + q) % 2
  BY <1>6, <1>7, <1>8, BarrierSteps
<1>10. v # q
  BY <1>7, <1>9
<1> QED BY <1>1, <1>7, <1>10

(* Steps of the load warp and landings keep the map of A and B. *)
LEMMA MainloopMapStep ==
  ASSUME OrderInv, CursorInv, MainloopInv, MapsInv, kernel' = kernel, LoadWarp \/ Land
  PROVE  MainloopMap' /\ DOMAIN maps' = {"AB", "C", "D"} /\ maps'.C = maps.C
<1> DEFINE a == pwrite.count
<1>1. /\ DOMAIN maps = {"AB", "C", "D"} /\ MainloopMap
      /\ landed \in Nat /\ LoadsIssued \in Nat /\ a \in Nat /\ landed <= LoadsIssued
      /\ NumTiles \in Nat /\ ptile \in 1 .. NumTiles + 1 /\ pwrite = K!StateAt(1, a)
  BY MapsParts, MainFacts, KernelType DEF OrderInv, CursorInv, ProducerCursor
<1>2. ASSUME maps' = maps, UNCHANGED landed, LoadsIssued' = LoadsIssued,
             ppc' \in {"fetch", "load", "loaded", "advance"} /\ IsValid(ptile') =>
               maps.AB = kernel.batch[ptile']
      PROVE  MainloopMap' /\ DOMAIN maps' = {"AB", "C", "D"} /\ maps'.C = maps.C
  BY <1>1, <1>2, MainloopMapMoves
<1>3. CASE LoadBegin
  <2>1. /\ ppc = "fetch" /\ pwrite' = pstate /\ ptile' = ptile /\ maps' = maps /\ landed' = landed
    BY <1>3 DEF LoadBegin, mainloop
  <2>2. pwrite'.count = a
    BY <2>1 DEF CursorInv, ProducerCursor
  <2>3. LoadsIssued' = LoadsIssued
    BY <2>2, LoadsSame
  <2>4. IsValid(ptile) => maps.AB = kernel.batch[ptile]
    BY <1>1, <2>1 DEF MainloopMap
  <2> QED BY <1>2, <2>1, <2>3, <2>4
<1>4. CASE LoadAdvance
  <2>1. /\ ppc = "advance" /\ ptile' = ptile /\ maps' = maps /\ landed' = landed /\ pwrite' = pwrite
    BY <1>4 DEF LoadAdvance, mainloop
  <2>2. LoadsIssued' = LoadsIssued
    BY <2>1, LoadsSame
  <2>3. IsValid(ptile) => maps.AB = kernel.batch[ptile]
    BY <1>1, <2>1 DEF MainloopMap
  <2> QED BY <1>2, <2>1, <2>2, <2>3
<1>5. CASE Loaded
  <2>1. /\ ppc = "loaded" /\ ptile' = ptile + 1 /\ maps' = maps /\ landed' = landed
        /\ pwrite' = pwrite
        /\ ppc' = IF kernel.Array /\ IsValid(ptile + 1) /\ maps.AB # kernel.batch[ptile + 1]
                  THEN "remap" ELSE "advance"
    BY <1>5 DEF Loaded, mainloop
  <2>2. LoadsIssued' = LoadsIssued
    BY <2>1, LoadsSame
  <2>3. ASSUME ppc' # "remap", IsValid(ptile + 1) PROVE maps.AB = kernel.batch[ptile + 1]
    <3>1. ~kernel.Array \/ maps.AB = kernel.batch[ptile + 1]
      BY <2>1, <2>3
    <3>2. IsValid(ptile)
      BY <2>1 DEF CursorInv, ProducerCursor
    <3>3. maps.AB = kernel.batch[ptile]
      BY <1>1, <2>1, <3>2 DEF MainloopMap
    <3>4. ptile \in 1 .. NumTiles /\ ptile + 1 \in 1 .. NumTiles
      BY <1>1, <2>3 DEF IsValid
    <3>5. ~kernel.Array => kernel.batch[ptile] = kernel.batch[ptile + 1]
      BY <3>4, SameBatch DEF OrderInv
    <3> QED BY <3>1, <3>3, <3>5
  <2> QED BY <1>2, <2>1, <2>2, <2>3
<1>6. CASE Load
  <2>1. /\ ppc = "load" /\ ptile' = ptile /\ maps' = maps /\ landed' = landed
        /\ pwrite' = K!Inc(pwrite) /\ IsValid(ptile) /\ Start(ptile) <= a /\ a < Start(ptile + 1)
    <3>1. ppc = "load" /\ ptile' = ptile /\ maps' = maps /\ landed' = landed /\ pwrite' = K!Inc(pwrite)
      BY <1>6 DEF Load, mainloop
    <3> QED BY <3>1 DEF CursorInv, ProducerCursor
  <2>2. pwrite'.count = a + 1
    <3>1. K!Inc(pwrite) = K!StateAt(1, a + 1)
      BY <1>1, KMoves
    <3> QED BY <2>1, <3>1, KFields
  <2>3. LoadsIssued = a /\ LoadsIssued' = a + 1
    <3>1. a < Start(NumTiles + 1) /\ Start(NumTiles + 1) \in Nat
      BY <2>1, IssuedFacts
    <3>2. LoadsIssued = a
      BY <3>1, IssuedFacts
    <3>3. LoadsIssued' = IF a + 1 < Start(NumTiles + 1) THEN a + 1 ELSE Start(NumTiles + 1)
      BY <2>2 DEF LoadsIssued, Min2, Start, NumTiles
    <3> QED BY <3>1, <3>2, <3>3, <1>1
  <2>4. maps.AB = kernel.batch[ptile] /\ ptile \in 1 .. NumTiles
    BY <1>1, <2>1 DEF MainloopMap, IsValid
  <2>5. ASSUME NEW n \in Nat, landed <= n, n < LoadsIssued'
        PROVE  \E t \in 1 .. NumTiles : Start(t) <= n /\ n < Start(t + 1) /\ kernel.batch[t] = maps.AB
    <3>1. CASE n < a
      BY <1>1, <2>3, <2>5, <3>1 DEF MainloopMap
    <3>2. CASE n = a
      BY <2>1, <2>4, <3>2
    <3> HIDE DEF a
    <3> QED BY <1>1, <2>3, <2>5, <3>1, <3>2
  <2>6. NumTiles' = NumTiles /\ (\A t : Start(t)' = Start(t))
    BY DEF NumTiles, Start
  <2> QED BY <1>1, <2>1, <2>4, <2>5, <2>6 DEF MainloopMap
<1>7. CASE LoadTail
  <2>1. /\ ppc = "tail" /\ ppc' \in {"tail", "exit"} /\ maps' = maps /\ landed' = landed
        /\ pwrite' = pwrite \/ pwrite' = K!Inc(pwrite)
    BY <1>7 DEF LoadTail, mainloop
  <2>2. LoadsIssued' = LoadsIssued
    <3>1. CASE pwrite' = pwrite
      BY <3>1, LoadsSame
    <3>2. CASE pwrite' = K!Inc(pwrite)
      <4>1. Start(NumTiles + 1) <= a /\ Start(NumTiles + 1) \in Nat
        BY <2>1, IssuedFacts
      <4>2. LoadsIssued = Start(NumTiles + 1)
        BY <4>1, <1>1, IssuedFacts
      <4>3. pwrite'.count = a + 1
        <5>1. K!Inc(pwrite) = K!StateAt(1, a + 1)
          BY <1>1, KMoves
        <5> QED BY <3>2, <5>1, KFields
      <4>4. LoadsIssued' = IF a + 1 < Start(NumTiles + 1) THEN a + 1 ELSE Start(NumTiles + 1)
        BY <4>3 DEF LoadsIssued, Min2, Start, NumTiles
      <4> QED BY <4>1, <4>2, <4>4, <1>1
    <3> QED BY <2>1, <3>1, <3>2
  <2>3. ppc' \notin {"fetch", "load", "loaded", "advance"}
    BY <2>1
  <2> QED BY <1>2, <2>1, <2>2, <2>3
<1>8. CASE RewriteMapAB
  <2>1. LoadsIssued = landed
    BY <1>8, AllLanded
  <2>2. /\ maps' = [maps EXCEPT !.AB = kernel.batch[ptile]] /\ ptile' = ptile
        /\ landed' = landed /\ pwrite' = pwrite
    BY <1>8 DEF RewriteMapAB, mainloop
  <2>3. LoadsIssued' = LoadsIssued
    BY <2>2, LoadsSame
  <2>4. DOMAIN maps' = {"AB", "C", "D"} /\ maps'.AB = kernel.batch[ptile] /\ maps'.C = maps.C
    BY <1>1, <2>2
  <2>5. \A n \in Nat : ~(landed' <= n /\ n < LoadsIssued')
    BY <1>1, <2>1, <2>2, <2>3
  <2> QED BY <2>2, <2>4, <2>5 DEF MainloopMap
<1>9. CASE Land
  <2>1. landed' = landed + 1 /\ maps' = maps /\ UNCHANGED <<ppc, ptile, pwrite>>
    BY <1>9 DEF Land, loader
  <2>2. LoadsIssued' = LoadsIssued
    BY <2>1, LoadsSame
  <2>3. ppc \in {"fetch", "load", "loaded", "advance"} /\ IsValid(ptile) => maps.AB = kernel.batch[ptile]
    BY <1>1 DEF MainloopMap
  <2>4. landed' \in Nat /\ landed <= landed'
    BY <1>1, <2>1
  <2> QED BY <1>1, <2>1, <2>2, <2>3, <2>4, MainloopMapMoves
<1> QED BY <1>3, <1>4, <1>5, <1>6, <1>7, <1>8, <1>9 DEF LoadWarp

(* Steps of the epilogue load warp and landings keep the map of C. *)
LEMMA SourceMapStep ==
  ASSUME OrderInv, EpilogueCursorInv, SourceInv, MapsInv, kernel' = kernel,
         EpilogueLoadWarp \/ LandSource
  PROVE  SourceMap' /\ DOMAIN maps' = {"AB", "C", "D"} /\ maps'.AB = maps.AB
<1> DEFINE e == estate.count
<1>1. /\ DOMAIN maps = {"AB", "C", "D"} /\ SourceMap
      /\ clanded \in Nat /\ SourcesIssued \in Nat /\ e \in Nat /\ clanded <= SourcesIssued
      /\ NumTiles \in Nat /\ etile \in 1 .. NumTiles + 1 /\ estate = C!StateAt(1, e)
      /\ Base(NumTiles + 1) \in Nat /\ NumTiles * Subtiles = Base(NumTiles + 1)
  BY MapsParts, SourceMain, SourceIssuedFacts, KernelType DEF OrderInv, EpilogueCursorInv, SourceCursor
<1>2. ASSUME maps' = maps, UNCHANGED clanded, SourcesIssued' = SourcesIssued,
             epc' \in {"order", "load"} /\ IsValid(etile') => maps.C = kernel.batch[etile']
      PROVE  SourceMap' /\ DOMAIN maps' = {"AB", "C", "D"} /\ maps'.AB = maps.AB
  BY <1>1, <1>2, SourceMapMoves
<1>3. CASE EpilogueBegin
  <2>1. epc = "order" /\ UNCHANGED <<maps, clanded, etile, estate>>
    BY <1>3 DEF EpilogueBegin, source
  <2>2. SourcesIssued' = SourcesIssued
    BY <2>1, SourceLoadsSame
  <2>3. IsValid(etile) => maps.C = kernel.batch[etile]
    BY <1>1, <2>1 DEF SourceMap
  <2> QED BY <1>2, <2>1, <2>2, <2>3
<1>4. CASE LoadSource
  <2>1. /\ epc = "load" /\ IsValid(etile) /\ maps' = maps /\ clanded' = clanded
        /\ estate' = C!Inc(estate)
        /\ etile' = etile \/ (etile' = etile + 1 /\ ~BatchChanges(etile))
    BY <1>4 DEF LoadSource
  <2>2. estate'.count = e + 1
    <3>1. C!Inc(estate) = C!StateAt(1, e + 1)
      BY <1>1, CMoves
    <3> QED BY <2>1, <3>1, CFields
  <2>3. SourcesIssued = e /\ SourcesIssued' = e + 1
    <3>1. e < Base(NumTiles + 1)
      BY <2>1, SourceIssuedFacts
    <3>2. SourcesIssued = e
      BY <3>1, SourceIssuedFacts
    <3>3. SourcesIssued' = IF e + 1 < Base(NumTiles + 1) THEN e + 1 ELSE Base(NumTiles + 1)
      BY <1>1, <2>2 DEF SourcesIssued, Min2, NumTiles
    <3> QED BY <1>1, <3>1, <3>2, <3>3
  <2>4. maps.C = kernel.batch[etile]
    BY <1>1, <2>1 DEF SourceMap
  <2>5. (e \div Subtiles) + 1 = etile
    <3>1. Base(etile) <= e /\ e < Base(etile + 1)
      BY <2>1 DEF EpilogueCursorInv, SourceCursor
    <3>2. etile \in Nat \ {0}
      BY <1>1
    <3> QED BY <1>1, <3>1, <3>2, SubtileTile
  <2>6. ASSUME NEW n \in Nat, clanded <= n, n < SourcesIssued'
        PROVE  kernel.batch[(n \div Subtiles) + 1] = maps.C
    <3>1. CASE n < e
      BY <1>1, <2>3, <2>6, <3>1 DEF SourceMap
    <3>2. CASE n = e
      BY <2>4, <2>5, <3>2
    <3> HIDE DEF e
    <3> QED BY <1>1, <2>3, <2>6, <3>1, <3>2
  <2>7. ASSUME IsValid(etile') PROVE maps.C = kernel.batch[etile']
    <3>1. CASE etile' = etile
      BY <3>1, <2>4
    <3>2. CASE etile' = etile + 1 /\ ~BatchChanges(etile)
      <4>1. ~kernel.Array \/ kernel.batch[etile] = kernel.batch[etile + 1]
        BY <3>2, <2>7 DEF BatchChanges
      <4>2. etile \in 1 .. NumTiles /\ etile + 1 \in 1 .. NumTiles
        BY <1>1, <2>1, <2>7, <3>2 DEF IsValid
      <4>3. ~kernel.Array => kernel.batch[etile] = kernel.batch[etile + 1]
        BY <4>2, SameBatch DEF OrderInv
      <4> QED BY <2>4, <3>2, <4>1, <4>3
    <3> QED BY <2>1, <3>1, <3>2
  <2>8. IsValid(etile)' => IsValid(etile')
    BY DEF IsValid, NumTiles
  <2> QED BY <1>1, <2>1, <2>6, <2>7, <2>8 DEF SourceMap
<1>5. CASE RewriteMapC
  <2>1. SourcesIssued = clanded
    BY <1>5, AllSourcesLanded
  <2>2. /\ maps' = [maps EXCEPT !.C = kernel.batch[etile + 1]] /\ etile' = etile + 1
        /\ clanded' = clanded /\ estate' = estate
    BY <1>5 DEF RewriteMapC, source
  <2>3. SourcesIssued' = SourcesIssued
    BY <2>2, SourceLoadsSame
  <2>4. DOMAIN maps' = {"AB", "C", "D"} /\ maps'.C = kernel.batch[etile + 1] /\ maps'.AB = maps.AB
    BY <1>1, <2>2
  <2>5. \A n \in Nat : ~(clanded' <= n /\ n < SourcesIssued')
    BY <1>1, <2>1, <2>2, <2>3
  <2> QED BY <2>2, <2>4, <2>5 DEF SourceMap
<1>6. CASE EpilogueLoadTail
  <2>1. /\ epc = "load" /\ ~IsValid(etile) /\ UNCHANGED <<maps, clanded, etile>>
        /\ estate' = estate \/ estate' = C!Inc(estate)
    BY <1>6 DEF EpilogueLoadTail, source
  <2>2. SourcesIssued' = SourcesIssued
    <3>1. CASE estate' = estate
      BY <3>1, SourceLoadsSame
    <3>2. CASE estate' = C!Inc(estate)
      <4>1. Base(NumTiles + 1) <= e
        BY <2>1, SourceIssuedFacts
      <4>2. SourcesIssued = Base(NumTiles + 1)
        BY <1>1, <4>1, SourceIssuedFacts
      <4>3. estate'.count = e + 1
        <5>1. C!Inc(estate) = C!StateAt(1, e + 1)
          BY <1>1, CMoves
        <5> QED BY <3>2, <5>1, CFields
      <4>4. SourcesIssued' = IF e + 1 < Base(NumTiles + 1) THEN e + 1 ELSE Base(NumTiles + 1)
        BY <1>1, <4>3 DEF SourcesIssued, Min2, NumTiles
      <4> QED BY <1>1, <4>1, <4>2, <4>4
    <3> QED BY <2>1, <3>1, <3>2
  <2> QED BY <1>2, <2>1, <2>2
<1>7. CASE LandSource
  <2>1. clanded' = clanded + 1 /\ UNCHANGED <<maps, epc, etile, estate>>
    BY <1>7 DEF LandSource, eloader
  <2>2. SourcesIssued' = SourcesIssued
    BY <2>1, SourceLoadsSame
  <2>3. epc \in {"order", "load"} /\ IsValid(etile) => maps.C = kernel.batch[etile]
    BY <1>1 DEF SourceMap
  <2>4. clanded' \in Nat /\ clanded <= clanded'
    BY <1>1, <2>1
  <2> QED BY <1>1, <2>1, <2>2, <2>3, <2>4, SourceMapMoves
<1> QED BY <1>3, <1>4, <1>5, <1>6, <1>7 DEF EpilogueLoadWarp

(* Every step keeps the tensor maps. *)
LEMMA MapsStep ==
  ASSUME OrderInv, CursorInv, MainloopInv, EpilogueCursorInv, SourceInv, MapsInv, [Next]_vars
  PROVE  MapsInv'
<1>1. kernel' = kernel /\ DOMAIN maps = {"AB", "C", "D"} /\ MainloopMap /\ SourceMap
      /\ landed \in Nat /\ clanded \in Nat
  BY NextKeeps, MapsParts, MainFacts, SourceMain
<1>2. ASSUME UNCHANGED <<ppc, ptile, pwrite, landed>>, maps'.AB = maps.AB PROVE MainloopMap'
  <2>1. LoadsIssued' = LoadsIssued
    BY <1>1, <1>2, LoadsSame
  <2>2. ppc \in {"fetch", "load", "loaded", "advance"} /\ IsValid(ptile) => maps.AB = kernel.batch[ptile]
    BY <1>1 DEF MainloopMap
  <2>3. landed <= landed' /\ landed' \in Nat
    BY <1>1, <1>2
  <2> QED BY <1>1, <1>2, <2>1, <2>2, <2>3, MainloopMapMoves
<1>3. ASSUME UNCHANGED <<epc, etile, estate, clanded>>, maps'.C = maps.C PROVE SourceMap'
  <2>1. SourcesIssued' = SourcesIssued
    BY <1>1, <1>3, SourceLoadsSame
  <2>2. epc \in {"order", "load"} /\ IsValid(etile) => maps.C = kernel.batch[etile]
    BY <1>1 DEF SourceMap
  <2>3. clanded <= clanded' /\ clanded' \in Nat
    BY <1>1, <1>3
  <2> QED BY <1>1, <1>3, <2>1, <2>2, <2>3, SourceMapMoves
<1>4. CASE LoadWarp \/ Land
  <2>1. UNCHANGED <<epc, etile, estate, clanded>>
    BY <1>4 DEF LoadWarp, LoadBegin, Load, Loaded, RewriteMapAB, LoadAdvance, LoadTail, Land,
                source, eloader
  <2> QED BY <1>1, <1>3, <1>4, <2>1, MainloopMapStep, MapsParts
<1>5. CASE EpilogueLoadWarp \/ LandSource
  <2>1. UNCHANGED <<ppc, ptile, pwrite, landed>>
    BY <1>5 DEF EpilogueLoadWarp, EpilogueBegin, LoadSource, RewriteMapC, EpilogueLoadTail,
                LandSource, mainloop, loader
  <2> QED BY <1>1, <1>2, <1>5, <2>1, SourceMapStep, MapsParts
<1>6. CASE (\E x \in storing : StoreReads(x)) \/ UNCHANGED vars
  <2>1. UNCHANGED <<ppc, ptile, pwrite, landed, epc, etile, estate, clanded, maps>>
    BY <1>6 DEF StoreReads, vars, mainloop, source, loader, eloader
  <2> QED BY <1>1, <1>2, <1>3, <2>1, MapsParts
<1>7. ASSUME NEW w \in WarpGroups, MathWarpGroup(w) PROVE MapsInv'
  <2>1. UNCHANGED <<ppc, ptile, pwrite, landed, epc, etile, estate, clanded>>
    BY <1>7, MathKeepsOthers
  <2>2. DOMAIN maps' = {"AB", "C", "D"} /\ maps'.AB = maps.AB /\ maps'.C = maps.C
    <3>1. CASE FetchNext(w)
      <4>1. maps' = maps \/ \E b : maps' = [maps EXCEPT !.D[w + 1] = b]
        BY <3>1, Zenon DEF FetchNext
      <4>2. \A d : LET m == [maps EXCEPT !.D = d]
                   IN  DOMAIN m = {"AB", "C", "D"} /\ m.AB = maps.AB /\ m.C = maps.C
        BY <1>1
      <4>3. \A b : [maps EXCEPT !.D[w + 1] = b] = [maps EXCEPT !.D = [maps.D EXCEPT ![w + 1] = b]]
        BY Zenon
      <4> QED BY <1>1, <4>1, <4>2, <4>3
    <3>2. CASE ~FetchNext(w)
      <4>1. maps' = maps
        BY <1>7, <3>2, Zenon DEF MathWarpGroup, MmaBegin, WaitTile, Multiply, Release, MmaPass, MmaTail,
           EpilogueTurn, WaitSource, ReadSource, WriteAndStore, AcquireStore, StoreTail, StoreTailDone,
           EpiloguePass, Leave
      <4> QED BY <1>1, <4>1
    <3> QED BY <3>1, <3>2
  <2> QED BY <1>2, <1>3, <2>1, <2>2, MapsParts
<1> QED BY <1>4, <1>5, <1>6, <1>7 DEF Next, Terminated

-----------------------------------------------------------------------------
(***************************************************************************)
(* 10. The invariant, and what it implies.                                 *)
(***************************************************************************)

(* The invariant holds in every reachable state: of every kernel, for any  *)
(* stages, subtiles and work tiles.                                        *)
THEOREM Invariance == Spec => []IInv
<1>1. Init => IInv
  BY OrderInit, CursorInit, MainloopInit, EpilogueCursorInit, SourceInit, MemoryInit, MapsInit
  DEF IInv
<1>2. IInv /\ [Next]_vars => IInv'
  BY OrderStep, CursorStep, MainloopStep, EpilogueCursorStep, SourceStep, MemoryStep, MapsStep
  DEF IInv
<1> QED BY <1>1, <1>2, PTL DEF Spec

(* The barriers of all slots have their types. *)
LEMMA BarrierTypes ==
  ASSUME IInv
  PROVE  /\ \A i \in K!Index : full[i].tx \in {0, 1} /\ full[i].pending \in {0, 1}
                               /\ empty[i] \in Barrier
         /\ \A i \in C!Index : cfull[i].tx \in {0, 1} /\ cfull[i].pending \in {0, 1}
                               /\ cempty[i] \in Barrier
<1>1. OrderInv /\ CursorInv /\ MainloopInv /\ EpilogueCursorInv /\ SourceInv
  BY DEF IInv
<1>2. \A v \in Nat : Free(v) \in Barrier
  BY DEF Free, Barrier
<1>3. ASSUME NEW i \in K!Index
      PROVE  full[i].tx \in {0, 1} /\ full[i].pending \in {0, 1} /\ empty[i] \in Barrier
  <2>1. FullBarrier(i) /\ EmptyBarrier(i)
    BY <1>1 DEF MainloopInv
  <2>2. full[i].tx \in {0, 1} /\ full[i].pending \in {0, 1}
    <3>1. CASE FlyingAt(i)
      <4>1. full[i] = Flying(K!Visits(landed, i))
        BY <2>1, <3>1, FullForm
      <4> QED BY <4>1 DEF Flying
    <3>2. CASE ~FlyingAt(i)
      <4>1. full[i] = Landed(K!Visits(landed, i))
        BY <2>1, <3>2, FullForm
      <4> QED BY <4>1 DEF Landed
    <3> QED BY <3>1, <3>2
  <2>3. Waited \in Nat /\ K!Visits(Waited, i) \in Nat /\ \A n \in Nat : Held(n) => n < Waited
    BY <1>1, MainFacts, KSlots
  <2>4. CASE HeldAt(i)
    <3>1. PICK n \in Nat : Held(n) /\ n % Stages = i
      BY <2>4 DEF HeldAt
    <3>2. n + 1 \in Nat /\ n + 1 <= Waited
      BY <2>3, <3>1
    <3>3. K!Visits(n + 1, i) <= K!Visits(Waited, i) /\ K!Visits(n + 1, i) = K!Visits(n, i) + 1
          /\ K!Visits(n, i) \in Nat
      BY <2>3, <3>1, <3>2, KSlots
    <3>4. K!Visits(Waited, i) - 1 \in Nat
      BY <2>3, <3>3
    <3>5. empty[i] = Free(K!Visits(Waited, i) - 1)
      BY <2>1, <2>4 DEF EmptyBarrier, HeldAt, Free
    <3> QED BY <1>2, <2>2, <3>4, <3>5
  <2>5. CASE ~HeldAt(i)
    <3>1. empty[i] = Free(K!Visits(Waited, i) - 0)
      BY <2>1, <2>5 DEF EmptyBarrier, HeldAt, Free
    <3>2. K!Visits(Waited, i) - 0 \in Nat
      BY <2>3
    <3> QED BY <1>2, <2>2, <3>1, <3>2
  <2> QED BY <2>4, <2>5
<1>4. ASSUME NEW i \in C!Index
      PROVE  cfull[i].tx \in {0, 1} /\ cfull[i].pending \in {0, 1} /\ cempty[i] \in Barrier
  <2>1. SourceFull(i) /\ SourceEmpty(i)
    BY <1>1 DEF SourceInv
  <2>2. cfull[i].tx \in {0, 1} /\ cfull[i].pending \in {0, 1}
    <3>1. CASE SourceFlying(i)
      <4>1. cfull[i] = Flying(C!Visits(clanded, i))
        BY <2>1, <3>1, SourceFullForm
      <4> QED BY <4>1 DEF Flying
    <3>2. CASE ~SourceFlying(i)
      <4>1. cfull[i] = Landed(C!Visits(clanded, i))
        BY <2>1, <3>2, SourceFullForm
      <4> QED BY <4>1 DEF Landed
    <3> QED BY <3>1, <3>2
  <2>3. cempty[i] = Free(C!Visits(Freed, i)) /\ C!Visits(Freed, i) \in Nat
    BY <1>1, <2>1, SourceMain, CSlots DEF SourceEmpty, Free
  <2> QED BY <1>2, <2>2, <2>3
<1> QED BY <1>3, <1>4

(* The variables of a group have their types. *)
LEMMA GroupTypes ==
  ASSUME IInv, NEW w \in WarpGroups
  PROVE  /\ sub[w] \in 0 .. Subtiles - 1 /\ issued[w] \in 0 .. Subtiles
         /\ turn[w] \in MathOrder!Cursor
         /\ \A x \in storing : x[1] = w => x[2] \in 0 .. NumTiles * Subtiles
<1>1. OrderInv /\ EpilogueCursorInv /\ MemoryInv
  BY DEF IInv
<1>2. EpilogueCursor(w) /\ sub[w] \in Nat /\ sub[w] + 1 <= Subtiles /\ Subtiles \in Nat
      /\ sub[w] \in 0 .. Subtiles - 1
  BY <1>1, EpilogueFacts, Parameters DEF EpilogueCursor
<1>3. issued[w] \in 0 .. Subtiles
  <2>1. Stored(w) \in {sub[w], sub[w] + 1, 0}
    BY DEF Stored
  <2> QED BY <1>2, <2>1 DEF EpilogueCursor
<1>4. turn[w] \in MathOrder!Cursor
  <2>1. turn[w] = [index |-> Late(w), phase |-> (1 - w + Round(w)) % 2, count |-> Passed(w)]
    BY <1>1 DEF OrderInv
  <2>2. Late(w) \in {0, 1} /\ Round(w) \in Nat /\ Passed(w) = 2 * Round(w) + Late(w)
    BY <1>1, GroupOrder
  <2>3. Late(w) \in 0 .. 2 - 1 /\ Passed(w) \in Nat
    <3> DEFINE l == Late(w)
               o == Round(w)
    <3>1. l \in {0, 1} /\ o \in Nat
      BY <2>2
    <3> HIDE DEF l, o
    <3>2. l \in 0 .. 2 - 1 /\ 2 * o + l \in Nat
      BY <3>1
    <3> QED BY <2>2, <3>2 DEF l, o
  <2>4. (1 - w + Round(w)) % 2 \in {0, 1}
    <3>1. w \in {0, 1}
      BY Groups
    <3> QED BY <2>2, <3>1
  <2> QED BY <2>1, <2>3, <2>4 DEF MathOrder!Cursor, MathOrder!Index
<1>5. ASSUME NEW x \in storing, x[1] = w PROVE x[2] \in 0 .. NumTiles * Subtiles
  <2>1. /\ x[2] \in Nat /\ x[2] < Base(tile[w]) + Stored(w) /\ wpc[w] \in Stage
    BY <1>1, <1>5 DEF MemoryInv, StoreInFlight, Stage
  <2>2. Base(tile[w]) \in Nat /\ Stored(w) \in Nat /\ Stored(w) <= Subtiles
    <3>1. Stored(w) \in {sub[w], sub[w] + 1, 0}
      BY DEF Stored
    <3>2. Base(tile[w]) \in Nat
      BY <1>1, EpilogueFacts
    <3> QED BY <1>2, <3>1, <3>2
  <2>3. tile[w] \in 1 .. NumTiles /\ NumTiles \in Nat
    <3>1. wpc[w] \notin {"order", "exit"}
      BY <2>1 DEF Stage, EpilogueSection
    <3> QED BY <1>1, <3>1, GroupTiles
  <2>4. Base(tile[w]) + Subtiles <= NumTiles * Subtiles /\ NumTiles * Subtiles \in Nat
    <3>1. tile[w] \in Nat \ {0} /\ NumTiles + 1 \in Nat \ {0} /\ tile[w] < NumTiles + 1
      BY <2>3
    <3>2. Base(tile[w]) + Subtiles <= Base(NumTiles + 1) /\ Base(NumTiles + 1) \in Nat
      BY <3>1, Bases
    <3>3. Base(NumTiles + 1) = NumTiles * Subtiles
      BY <2>3, Bases
    <3> QED BY <3>2, <3>3
  <2> HIDE DEF Stage
  <2>5. \A n, b, s, S, m \in Nat : n < b + s /\ s <= S /\ b + S <= m => n <= m
    OBVIOUS
  <2>6. x[2] <= NumTiles * Subtiles
    BY <1>2, <2>1, <2>2, <2>4, <2>5
  <2> QED BY <2>1, <2>4, <2>6
<1> QED BY <1>2, <1>3, <1>4, <1>5

(* The variables of the kernel keep their types: the cursors stay in their *)
(* pipelines, and no barrier is arrived at or announced for too often.     *)
THEOREM TypeCorrect == Spec => []TypeOK
<1>1. IInv => TypeOK
  <2> SUFFICES ASSUME IInv PROVE TypeOK
    OBVIOUS
  <2>1. OrderInv /\ CursorInv /\ EpilogueCursorInv /\ MemoryInv
    BY DEF IInv
  <2>2. pstate \in K!Cursor /\ pwrite \in K!Cursor /\ estate \in C!Cursor
    <3>1. /\ pstate = K!StateAt(1, pstate.count) /\ pstate.count \in Nat
          /\ pwrite = K!StateAt(1, pwrite.count) /\ pwrite.count \in Nat
      BY <2>1 DEF CursorInv, ProducerCursor
    <3>2. estate = C!StateAt(1, estate.count) /\ estate.count \in Nat
      BY <2>1 DEF EpilogueCursorInv, SourceCursor
    <3>3. \A n \in Nat : K!StateAt(1, n) \in K!Cursor /\ C!StateAt(1, n) \in C!Cursor
      BY KCursor, CCursor
    <3> HIDE DEF IInv
    <3> QED BY <3>1, <3>2, <3>3, Zenon
  <2>3. storing \subseteq WarpGroups \X (0 .. NumTiles * Subtiles) \X EpilogueSlots
    <3> SUFFICES ASSUME NEW x \in storing
                 PROVE  x \in WarpGroups \X (0 .. NumTiles * Subtiles) \X EpilogueSlots
      OBVIOUS
    <3>1. x = <<x[1], x[2], SlotD(x[2] % StoreStages)>> /\ x[1] \in WarpGroups /\ x[2] \in Nat
      BY <2>1 DEF MemoryInv, StoreInFlight
    <3>2. x[2] \in 0 .. NumTiles * Subtiles
      BY <3>1, GroupTypes
    <3>3. SlotD(x[2] % StoreStages) \in EpilogueSlots
      BY <2>1, <3>1, SlotFacts
    <3>4. \E a \in WarpGroups, b \in 0 .. NumTiles * Subtiles, e \in EpilogueSlots : x = <<a, b, e>>
      BY ONLY <3>1, <3>2, <3>3
    <3>5. PICK a \in WarpGroups, b \in 0 .. NumTiles * Subtiles, e \in EpilogueSlots : x = <<a, b, e>>
      BY <3>4
    <3> QED BY ONLY <3>5
  <2>4. turn \in [WarpGroups -> MathOrder!Cursor]
    <3>1. DOMAIN turn = WarpGroups /\ turn = [w \in WarpGroups |-> turn[w]]
      BY <2>1 DEF OrderInv
    <3> QED BY <3>1, GroupTypes
  <2>5. sub \in [WarpGroups -> 0 .. Subtiles - 1] /\ issued \in [WarpGroups -> 0 .. Subtiles]
    <3>1. sub \in [WarpGroups -> Nat] /\ issued \in [WarpGroups -> Nat]
      BY <2>1 DEF EpilogueCursorInv
    <3>2. \A w \in WarpGroups : sub[w] \in 0 .. Subtiles - 1 /\ issued[w] \in 0 .. Subtiles
      BY GroupTypes
    <3> QED BY <3>1, <3>2
  <2>6. /\ DOMAIN smem = EpilogueSlots
        /\ mstate \in [WarpGroups -> K!Cursor] /\ read \in [WarpGroups -> K!Cursor]
        /\ wait \in [WarpGroups -> C!Cursor] /\ rstate \in [WarpGroups -> C!Cursor]
        /\ sstate \in [WarpGroups -> D!Cursor]
    BY <2>1 DEF MemoryInv, CursorInv, EpilogueCursorInv
  <2> QED BY <2>2, <2>3, <2>4, <2>5, <2>6, BarrierTypes DEF TypeOK
<1> QED BY <1>1, Invariance, PTL

(* The multiplies of a group in flight work on the k tiles that it holds. *)
LEMMA FlightIsHeld ==
  ASSUME OrderInv, CursorInv, NEW w \in WarpGroups, NEW n \in InFlight(w)
  PROVE  /\ wpc[w] \in MmaSection \cup {"tail"}
         /\ n \in Int /\ HeldFrom(w) <= n /\ n < WaitedBy(w)
<1> DEFINE r == read[w].count
           m == mstate[w].count
           b == Start(tile[w])
           e == Start(tile[w] + 1)
<1>1. ConsumerCursor(w) /\ r \in Nat /\ m \in Nat
  BY ConsumerFields
<1>2. wpc[w] \in {"wait", "mma", "release", "pass", "tail"}
  BY DEF InFlight
<1>3. wpc[w] \in MmaSection \cup {"tail"} /\ m = b
  BY <1>1, <1>2 DEF ConsumerCursor, MmaSection
<1>4. b \in Nat /\ e \in Nat /\ b < e
  BY <1>2, GroupTiles, Tiles DEF OrderInv
<1>5. \A k : Min2(k, r - m) = IF k < r - b THEN k ELSE r - b
  BY <1>3 DEF Min2
<1>6. CASE wpc[w] \in {"wait", "mma"}
  <2>1. b <= r /\ r < e
    BY <1>1, <1>6 DEF ConsumerCursor
  <2>2. n \in r - Min2(1, r - m) .. r - 1
    BY <1>6 DEF InFlight, Multiplied
  <2>3. HeldFrom(w) = IF r = b THEN r ELSE r - 1
    BY <1>6 DEF HeldFrom
  <2>4. WaitedBy(w) = r \/ WaitedBy(w) = r + 1
    BY <1>6 DEF WaitedBy
  <2>5. n \in Int /\ r - Min2(1, r - m) <= n /\ n <= r - 1
    <3>1. Min2(1, r - m) \in Nat
      <4> HIDE DEF r, m, b, e
      <4> QED BY <1>1, <1>4, <1>5, <2>1
    <3> HIDE DEF r, m, b, e
    <3> QED BY <1>1, <2>2, <3>1
  <2> HIDE DEF r, m, b, e
  <2>6. HeldFrom(w) <= n /\ n < WaitedBy(w)
    BY <1>1, <1>4, <1>5, <2>1, <2>3, <2>4, <2>5
  <2> QED BY <1>3, <2>5, <2>6
<1>7. CASE wpc[w] = "release"
  <2>1. b < r /\ r <= e
    BY <1>1, <1>7 DEF ConsumerCursor
  <2>2. n \in r - Min2(2, r - m) .. r - 1
    BY <1>7 DEF InFlight, Multiplied
  <2>3. HeldFrom(w) = IF r = b + 1 THEN r - 1 ELSE r - 2
    BY <1>7 DEF HeldFrom
  <2>4. WaitedBy(w) = r
    BY <1>7 DEF WaitedBy
  <2>5. n \in Int /\ r - Min2(2, r - m) <= n /\ n <= r - 1
    <3>1. Min2(2, r - m) \in Nat
      <4> HIDE DEF r, m, b, e
      <4> QED BY <1>1, <1>4, <1>5, <2>1
    <3> HIDE DEF r, m, b, e
    <3> QED BY <1>1, <2>2, <3>1
  <2> HIDE DEF r, m, b, e
  <2>6. HeldFrom(w) <= n /\ n < WaitedBy(w)
    BY <1>1, <1>4, <1>5, <2>1, <2>3, <2>4, <2>5
  <2> QED BY <1>3, <2>5, <2>6
<1>8. CASE wpc[w] \in {"pass", "tail"}
  <2>1. r = e
    BY <1>1, <1>8 DEF ConsumerCursor
  <2>2. n \in r - Min2(1, r - m) .. r - 1
    BY <1>8 DEF InFlight, Multiplied
  <2>3. HeldFrom(w) = r - 1
    BY <1>8 DEF HeldFrom
  <2>4. WaitedBy(w) = r
    BY <1>8 DEF WaitedBy
  <2>5. n \in Int /\ r - Min2(1, r - m) <= n /\ n <= r - 1
    <3>1. Min2(1, r - m) \in Nat
      <4> HIDE DEF r, m, b, e
      <4> QED BY <1>1, <1>4, <1>5, <2>1
    <3> HIDE DEF r, m, b, e
    <3> QED BY <1>1, <2>2, <3>1
  <2> HIDE DEF r, m, b, e
  <2>6. HeldFrom(w) <= n /\ n < WaitedBy(w)
    BY <1>1, <1>4, <1>5, <2>1, <2>3, <2>4, <2>5
  <2> QED BY <1>3, <2>5, <2>6
<1> QED BY <1>2, <1>6, <1>7, <1>8

(* The tensor cores of a group work on k tiles of its own work tile, which *)
(* have landed and are not loaded over (sm90_gemm_tma_warpspecialized_     *)
(* pingpong.hpp: both groups read one pipeline and skip the k tiles of     *)
(* each other), for every number of stages and every list of work tiles.   *)
THEOREM ReadsItsTile == Spec => []MmaReadsItsTile
<1>1. IInv => MmaReadsItsTile
  <2> SUFFICES ASSUME IInv, NEW w \in WarpGroups, NEW n \in InFlight(w)
               PROVE  /\ n \in Start(tile[w]) .. Start(tile[w] + 1) - 1
                      /\ n < landed /\ LoadsIssued <= n + Stages
    BY DEF MmaReadsItsTile, Start
  <2>1. OrderInv /\ CursorInv /\ MainloopInv
    BY DEF IInv
  <2>2. wpc[w] \in MmaSection \cup {"tail"} /\ n \in Int /\ HeldFrom(w) <= n /\ n < WaitedBy(w)
    BY <2>1, FlightIsHeld
  <2>3. /\ Start(tile[w]) \in Nat /\ Start(tile[w] + 1) \in Nat
        /\ Start(tile[w]) <= HeldFrom(w) /\ WaitedBy(w) <= Start(tile[w] + 1)
        /\ HeldFrom(w) \in Nat /\ WaitedBy(w) \in Nat
    BY <2>1, <2>2, GroupWaited
  <2>4. n \in Nat /\ n \in Start(tile[w]) .. Start(tile[w] + 1) - 1
    BY <2>2, <2>3
  <2>5. Held(n)
    BY <2>2, <2>4, Groups DEF Held, HeldBy
  <2>6. /\ n < Waited /\ pwrite.count <= n + Stages /\ Waited \in Nat /\ landed \in Nat
        /\ Waited <= landed /\ LoadsIssued <= pwrite.count /\ LoadsIssued \in Nat
        /\ pwrite.count \in Nat /\ Stages \in Nat
    BY <2>1, <2>4, <2>5, MainFacts
  <2> QED BY <2>4, <2>6
<1> QED BY <1>1, Invariance, PTL

(* The source that a group reads is the one of its subtile: neither that   *)
(* of the other group nor overwritten by a result (sm90_epilogue_tma_      *)
(* warpspecialized.hpp, with and without ReuseSmemC).                      *)
THEOREM SourceIsRead == Spec => []SourceIsIntact
<1>1. IInv => SourceIsIntact
  <2> SUFFICES ASSUME IInv, NEW w \in WarpGroups, wpc[w] = "read"
               PROVE  smem[SlotC(wait[w].index)] = <<"C", Subtile(w)>>
    BY DEF SourceIsIntact
  <2>1. OrderInv /\ EpilogueCursorInv /\ SourceInv /\ MemoryInv
    BY DEF IInv
  <2>2. kernel.LoadNeeded /\ wait[w] = C!StateAt(0, Subtile(w)) /\ Subtile(w) \in Nat
    BY <2>1, EpilogueFacts DEF EpilogueCursor
  <2>3. wpc[w] \in EpilogueSection
    BY DEF EpilogueSection
  <2>4. Consumed = Subtile(w) + 0 /\ Awaited = Subtile(w) + 1
    BY <2>1, <2>2, <2>3, SourceOwner DEF ReadBy, AwaitedBy, SourcesBy
  <2>5. Awaited <= clanded /\ clanded \in Nat
    BY <2>1 DEF SourceInv
  <2>6. Consumed <= Subtile(w) /\ Subtile(w) < clanded
    BY <2>2, <2>4, <2>5
  <2>7. wait[w].index = Subtile(w) % StagesC
    BY <2>2, CFields
  <2> QED BY <2>1, <2>2, <2>6, <2>7 DEF MemoryInv
<1> QED BY <1>1, Invariance, PTL

(* What a store copies to global memory is the result that was written for *)
(* it: its slot is not written again before the store has read it (store() *)
(* and store_tail() of sm90_epilogue_tma_warpspecialized.hpp, the turns of *)
(* the pingpong kernels).                                                  *)
THEOREM StoresCopyResults == Spec => []StoresAreIntact
<1>1. IInv => StoresAreIntact
  <2> SUFFICES ASSUME IInv, NEW x \in storing PROVE smem[x[3]] = <<"D", x[2]>>
    BY DEF StoresAreIntact
  <2>1. StoreInFlight(x) /\ smem[SlotD(x[2] % StoreStages)] = <<"D", x[2]>>
    BY DEF IInv, MemoryInv
  <2>2. x[3] = SlotD(x[2] % StoreStages)
    BY <2>1 DEF StoreInFlight
  <2> QED BY <2>1, <2>2
<1> QED BY <1>1, Invariance, PTL

(* A tensor map is rewritten only when no load that uses it is in flight   *)
(* (sm90_gemm_array_tma_warpspecialized_pingpong.hpp: "make sure TMA loads *)
(* have finished before doing descriptor updates").                        *)
THEOREM LoadsKeepTheirMaps == Spec => []LoadsUseTheirTensorMap
<1>1. IInv => LoadsUseTheirTensorMap
  <2> SUFFICES ASSUME IInv PROVE LoadsUseTheirTensorMap
    OBVIOUS
  <2>1. OrderInv /\ CursorInv /\ MainloopInv /\ EpilogueCursorInv /\ SourceInv /\ MapsInv
    BY DEF IInv
  <2>2. /\ landed \in Nat /\ LoadsIssued \in Nat /\ clanded \in Nat /\ SourcesIssued \in Nat
    BY <2>1, MainFacts, SourceMain
  <2>3. ASSUME NEW n \in landed .. LoadsIssued - 1
        PROVE  kernel.batch[TileOf(n)] = maps.AB
    <3>1. n \in Nat /\ landed <= n /\ n < LoadsIssued
      BY <2>2
    <3>2. PICK t \in 1 .. NumTiles : Start(t) <= n /\ n < Start(t + 1) /\ kernel.batch[t] = maps.AB
      BY <2>1, <3>1 DEF MapsInv
    <3>3. TileOf(n) \in 1 .. NumTiles /\ Start(TileOf(n)) <= n /\ n < Start(TileOf(n) + 1)
      BY <3>2 DEF TileOf, Start
    <3>4. NumTiles \in Nat /\ kernel \in Kernels
      BY <2>1, KernelType DEF OrderInv
    <3>5. ASSUME NEW s \in 1 .. NumTiles, NEW u \in 1 .. NumTiles, s < u,
                 Start(u) <= n, n < Start(s + 1)
          PROVE  FALSE
      <4>1. Start(s + 1) \in Nat /\ Start(u) \in Nat
        BY <3>4, <3>5, Tiles
      <4>2. Start(s + 1) <= Start(u)
        <5>1. CASE s + 1 = u
          BY <5>1, <4>1
        <5>2. CASE s + 1 < u
          <6>1. s + 1 \in 1 .. NumTiles + 1 /\ u \in 1 .. NumTiles + 1
            BY <3>4, <3>5
          <6>2. Start(s + 1) < Start(u)
            BY <3>4, <5>2, <6>1, Tiles
          <6> QED BY <4>1, <6>2
        <5> QED BY <3>5, <5>1, <5>2
      <4> QED BY <3>1, <3>5, <4>1, <4>2
    <3>6. TileOf(n) = t
      <4> DEFINE s == TileOf(n)
      <4>1. s \in 1 .. NumTiles /\ Start(s) <= n /\ n < Start(s + 1)
        BY <3>3
      <4> HIDE DEF s
      <4>2. ~(s < t) /\ ~(t < s)
        BY <3>2, <3>5, <4>1
      <4> QED BY <3>4, <4>1, <4>2 DEF s
    <3> QED BY <3>2, <3>6
  <2>4. ASSUME NEW n \in clanded .. SourcesIssued - 1
        PROVE  kernel.batch[n \div Subtiles + 1] = maps.C
    <3>1. n \in Nat /\ clanded <= n /\ n < SourcesIssued
      BY <2>2
    <3> QED BY <2>1, <3>1 DEF MapsInv
  <2> QED BY <2>3, <2>4 DEF LoadsUseTheirTensorMap
<1> QED BY <1>1, Invariance, PTL
=============================================================================
