--------------------------- MODULE PipelineLemmas ---------------------------
(***************************************************************************)
(* What the proofs about pipelines rest on, for every number of stages and *)
(* of arrivals: what operator++ and advance(n) compute, how often a slot   *)
(* is visited, and how barriers count.                                     *)
(***************************************************************************)
EXTENDS PipelineState, ClusterBarrier, TransactionBarrier, Integers, FiniteSets,
        FiniteSetTheorems, TLAPS

-----------------------------------------------------------------------------
(* 1. The cursor.                                                          *)

(* Quotient and remainder by Stages are unique. *)
LEMMA DivModUnique ==
  ASSUME NEW q \in Nat, NEW r \in Index
  PROVE  (q * Stages + r) \div Stages = q /\ (q * Stages + r) % Stages = r
  BY StagesAssumption, SMTT(30) DEF Index

(* Quotient and remainder by the number of stages. *)
LEMMA DivMod ==
  ASSUME NEW n \in Nat
  PROVE  /\ n \div Stages \in Nat
         /\ n % Stages \in Index
         /\ n = (n \div Stages) * Stages + (n % Stages)
  BY StagesAssumption, SMTT(30) DEF Index

(* One step either stays in the round or starts the next one. *)
LEMMA StepDivMod ==
  ASSUME NEW n \in Nat
  PROVE  /\ (n % Stages) + 1 = Stages =>
              (n + 1) % Stages = 0 /\ (n + 1) \div Stages = (n \div Stages) + 1
         /\ (n % Stages) + 1 # Stages =>
              /\ (n + 1) % Stages = (n % Stages) + 1
              /\ (n + 1) \div Stages = n \div Stages
<1> DEFINE q == n \div Stages
           r == n % Stages
<1>1. q \in Nat /\ r \in Index /\ n = q * Stages + r
  BY DivMod
<1>2. CASE r + 1 = Stages
  <2>1. n + 1 = (q + 1) * Stages + 0
    BY <1>1, <1>2, StagesAssumption DEF Index
  <2>2. 0 \in Index /\ q + 1 \in Nat
    BY <1>1, StagesAssumption DEF Index
  <2> QED BY <2>1, <2>2, <1>2, DivModUnique
<1>3. CASE r + 1 # Stages
  <2>1. n + 1 = q * Stages + (r + 1)
    BY <1>1, <1>3, StagesAssumption DEF Index
  <2>2. r + 1 \in Index
    BY <1>1, <1>3, StagesAssumption DEF Index
  <2> HIDE DEF q, r
  <2>3. (q * Stages + (r + 1)) \div Stages = q /\ (q * Stages + (r + 1)) % Stages = r + 1
    BY <1>1, <2>2, DivModUnique
  <2> QED BY <2>1, <2>3, <1>3 DEF q, r
<1> QED BY <1>2, <1>3

(* The closed form is a cursor. *)
LEMMA StateAtType ==
  ASSUME NEW p \in {0, 1}, NEW n \in Nat
  PROVE  StateAt(p, n) \in Cursor
<1>1. n \div Stages \in Nat /\ n % Stages \in Index
  BY DivMod
<1>2. (p + (n \div Stages)) % 2 \in {0, 1}
  BY <1>1
<1> QED BY <1>1, <1>2 DEF StateAt, Cursor

(* Producers and consumers start on the closed form. *)
LEMMA StartStates ==
  /\ ProducerStartState = StateAt(1, 0) /\ ProducerStartState \in Cursor
  /\ DefaultState = StateAt(0, 0) /\ DefaultState \in Cursor
<1>1. 0 = 0 * Stages + 0 /\ 0 \in Index
  BY StagesAssumption DEF Index
<1>2. 0 \div Stages = 0 /\ 0 % Stages = 0
  BY <1>1, DivModUnique
<1>3. (1 + 0) % 2 = 1 /\ (0 + 0) % 2 = 0
  OBVIOUS
<1>4. ProducerStartState = StateAt(1, 0) /\ DefaultState = StateAt(0, 0)
  BY <1>2, <1>3 DEF ProducerStartState, DefaultState, StateAt
<1> QED BY <1>4, StateAtType

(* The operations keep a cursor a cursor. *)
LEMMA CursorSteps ==
  ASSUME NEW s \in Cursor
  PROVE  /\ Inc(s) \in Cursor
         /\ \A n \in Nat : Advance(s, n) \in Cursor
<1>1. Inc(s) \in Cursor
  BY StagesAssumption DEF Cursor, Inc, Flip, Index
<1>2. ASSUME NEW n \in Nat PROVE Advance(s, n) \in Cursor
  <2>1. s.index + n \in Nat /\ s.count + n \in Nat
    BY StagesAssumption DEF Cursor, Index
  <2>2. (s.index + n) % Stages \in Index
    BY <2>1, DivMod
  <2> QED BY <2>1, <2>2 DEF Cursor, Advance, Flip
<1> QED BY <1>1, <1>2

(* operator++ of the n-th cursor is the (n+1)-th. *)
LEMMA IncStateAt ==
  ASSUME NEW p \in {0, 1}, NEW n \in Nat
  PROVE  Inc(StateAt(p, n)) = StateAt(p, n + 1)
<1> DEFINE q == n \div Stages
           r == n % Stages
<1>1. q \in Nat /\ r \in Index
  BY DivMod
<1>2. CASE r + 1 = Stages
  <2>1. (n + 1) % Stages = 0 /\ (n + 1) \div Stages = q + 1
    BY <1>2, StepDivMod
  <2> HIDE DEF q
  <2>2. (p + (q + 1)) % 2 = 1 - ((p + q) % 2)
    BY <1>1
  <2> USE DEF q
  <2> QED BY <2>1, <2>2, <1>2 DEF Inc, StateAt, Flip
<1>3. CASE r + 1 # Stages
  <2>1. (n + 1) % Stages = r + 1 /\ (n + 1) \div Stages = q
    BY <1>3, StepDivMod
  <2> QED BY <2>1, <1>3 DEF Inc, StateAt
<1> QED BY <1>2, <1>3

(* advance(k) of the n-th cursor is the (n+k)-th: jumping over k tiles     *)
(* lands where k increments would have.                                    *)
THEOREM AdvanceStateAt ==
  ASSUME NEW p \in {0, 1}, NEW n \in Nat, NEW k \in Nat
  PROVE  Advance(StateAt(p, n), k) = StateAt(p, n + k)
<1> DEFINE q == n \div Stages
           r == n % Stages
           t == (r + k) \div Stages
           u == (r + k) % Stages
<1>1. q \in Nat /\ r \in Index /\ n = q * Stages + r
  BY DivMod
<1>2. r + k \in Nat
  BY <1>1, StagesAssumption DEF Index
<1>3. t \in Nat /\ u \in Index /\ r + k = t * Stages + u
  BY <1>2, DivMod
<1>4. n + k = (q + t) * Stages + u /\ q + t \in Nat
  BY <1>1, <1>3, StagesAssumption DEF Index
<1>5. (n + k) \div Stages = q + t /\ (n + k) % Stages = u
  <2> HIDE DEF q, r, t, u
  <2> QED BY <1>3, <1>4, DivModUnique
<1>6. k < Stages => (r + k >= Stages <=> t = 1) /\ t \in {0, 1}
  <2> HIDE DEF q, r, t, u
  <2> QED BY <1>1, <1>3, StagesAssumption, SMTT(30) DEF Index
<1>7. /\ t % 2 = 1 => (p + (q + t)) % 2 = 1 - ((p + q) % 2)
      /\ t % 2 # 1 => (p + (q + t)) % 2 = (p + q) % 2
  <2> HIDE DEF q, r, t, u
  <2> QED BY <1>1, <1>3, SMTT(30)
<1>8. (Advance(StateAt(p, n), k)).phase = (p + (q + t)) % 2
  <2>1. CASE k < Stages
    BY <2>1, <1>6, <1>7 DEF Advance, StateAt, Flip
  <2>2. CASE ~(k < Stages)
    <3>1. k >= Stages
      BY <2>2, StagesAssumption
    <3> QED BY <2>2, <3>1, <1>7 DEF Advance, StateAt, Flip
  <2> QED BY <2>1, <2>2
<1> QED BY <1>5, <1>8 DEF Advance, StateAt

-----------------------------------------------------------------------------
(***************************************************************************)
(* Visits(n, s): the number of visits to slot s among the first n steps.   *)
(***************************************************************************)
LEMMA VisitsType ==
  ASSUME NEW n \in Nat, NEW s \in Index
  PROVE  Visits(n, s) \in Nat
<1>1. n + Stages - 1 - s \in Nat
  BY StagesAssumption DEF Index
<1> QED BY <1>1, DivMod DEF Visits

(* Visits in terms of the quotient and the remainder. *)
LEMMA VisitsDivMod ==
  ASSUME NEW n \in Nat, NEW s \in Index
  PROVE  Visits(n, s) = IF s < n % Stages THEN (n \div Stages) + 1 ELSE n \div Stages
<1> DEFINE q == n \div Stages
           r == n % Stages
<1>1. q \in Nat /\ r \in Index /\ n = q * Stages + r
  BY DivMod
<1> HIDE DEF q, r
<1>2. CASE s < r
  <2>1. n + Stages - 1 - s = (q + 1) * Stages + (r - 1 - s)
    BY <1>1, StagesAssumption DEF Index
  <2>2. r - 1 - s \in Index /\ q + 1 \in Nat
    BY <1>1, <1>2, StagesAssumption DEF Index
  <2>3. ((q + 1) * Stages + (r - 1 - s)) \div Stages = q + 1
    BY <2>2, DivModUnique
  <2> QED BY <2>1, <2>3, <1>2 DEF Visits, q, r
<1>3. CASE ~(s < r)
  <2>1. n + Stages - 1 - s = q * Stages + (Stages + r - 1 - s)
    BY <1>1, StagesAssumption DEF Index
  <2>2. Stages + r - 1 - s \in Index
    BY <1>1, <1>3, StagesAssumption DEF Index
  <2>3. (q * Stages + (Stages + r - 1 - s)) \div Stages = q
    BY <1>1, <2>2, DivModUnique
  <2> QED BY <2>1, <2>3, <1>3 DEF Visits, q, r
<1> QED BY <1>2, <1>3

(* No slot is visited before the first increment. *)
LEMMA VisitsZero ==
  ASSUME NEW s \in Index
  PROVE  Visits(0, s) = 0
<1>1. 0 = 0 * Stages + 0 /\ 0 \in Index
  BY StagesAssumption DEF Index
<1>2. 0 \div Stages = 0 /\ 0 % Stages = 0
  BY <1>1, DivModUnique
<1> QED BY <1>2, VisitsDivMod DEF Index

(* The cursor's own slot has been visited once per completed round. *)
LEMMA VisitsAtCursor ==
  ASSUME NEW n \in Nat
  PROVE  Visits(n, n % Stages) = n \div Stages
<1>1. n % Stages \in Index
  BY DivMod
<1>2. ~(n % Stages < n % Stages)
  BY <1>1 DEF Index
<1> QED BY <1>1, <1>2, VisitsDivMod

(* A step visits the cursor's slot and no other. *)
LEMMA VisitsStep ==
  ASSUME NEW n \in Nat, NEW s \in Index
  PROVE  Visits(n + 1, s) = IF s = n % Stages THEN Visits(n, s) + 1 ELSE Visits(n, s)
<1> DEFINE q == n \div Stages
           r == n % Stages
<1>1. q \in Nat /\ r \in Index
  BY DivMod
<1>2. Visits(n, s) = IF s < r THEN q + 1 ELSE q
  BY VisitsDivMod
<1>3. CASE r + 1 = Stages
  <2>1. (n + 1) % Stages = 0 /\ (n + 1) \div Stages = q + 1
    BY <1>3, StepDivMod
  <2>2. Visits(n + 1, s) = q + 1
    BY <2>1, VisitsDivMod DEF Index
  <2> HIDE DEF q, r
  <2> QED BY <1>1, <1>2, <1>3, <2>2 DEF Index, r
<1>4. CASE r + 1 # Stages
  <2>1. (n + 1) % Stages = r + 1 /\ (n + 1) \div Stages = q
    BY <1>4, StepDivMod
  <2>2. Visits(n + 1, s) = IF s < r + 1 THEN q + 1 ELSE q
    BY <2>1, VisitsDivMod
  <2> HIDE DEF q, r
  <2> QED BY <1>1, <1>2, <2>2 DEF Index, r
<1> QED BY <1>3, <1>4

(* Visits only grow. *)
LEMMA VisitsMonotone ==
  ASSUME NEW m \in Nat, NEW n \in Nat, m <= n, NEW s \in Index
  PROVE  Visits(m, s) <= Visits(n, s)
<1> DEFINE qm == m \div Stages
           rm == m % Stages
           qn == n \div Stages
           rn == n % Stages
<1>1. qm \in Nat /\ rm \in Index /\ m = qm * Stages + rm
  BY DivMod
<1>2. qn \in Nat /\ rn \in Index /\ n = qn * Stages + rn
  BY DivMod
<1>3. /\ Visits(m, s) = IF s < rm THEN qm + 1 ELSE qm
      /\ Visits(n, s) = IF s < rn THEN qn + 1 ELSE qn
  BY VisitsDivMod
<1> HIDE DEF qm, rm, qn, rn
<1>4. qm < qn \/ (qm = qn /\ rm <= rn)
  BY <1>1, <1>2, StagesAssumption, SMTT(30) DEF Index
<1> QED BY <1>1, <1>2, <1>3, <1>4 DEF Index

(* A round later the same slot comes again. *)
LEMMA RoundDivMod ==
  ASSUME NEW n \in Nat
  PROVE  (n + Stages) % Stages = n % Stages /\ (n + Stages) \div Stages = (n \div Stages) + 1
<1> DEFINE q == n \div Stages
           r == n % Stages
<1>1. q \in Nat /\ r \in Index /\ n = q * Stages + r
  BY DivMod
<1>2. n + Stages = (q + 1) * Stages + r
  BY <1>1, StagesAssumption
<1> HIDE DEF q, r
<1>3. (n + Stages) \div Stages = q + 1 /\ (n + Stages) % Stages = r
  BY <1>1, <1>2, DivModUnique
<1> QED BY <1>3 DEF q, r

(* A whole round visits every slot once. *)
LEMMA VisitsRound ==
  ASSUME NEW n \in Nat, NEW s \in Index
  PROVE  Visits(n + Stages, s) = Visits(n, s) + 1
<1> DEFINE q == n \div Stages
           r == n % Stages
<1>1. q \in Nat /\ r \in Index
  BY DivMod
<1>3. (n + Stages) \div Stages = q + 1 /\ (n + Stages) % Stages = r
  BY RoundDivMod
<1>4. Visits(n, s) = IF s < r THEN q + 1 ELSE q
  BY VisitsDivMod
<1>5. Visits(n + Stages, s) = IF s < r THEN (q + 1) + 1 ELSE q + 1
  <2>1. n + Stages \in Nat
    BY StagesAssumption
  <2> QED BY <2>1, <1>3, VisitsDivMod
<1> HIDE DEF q, r
<1> QED BY <1>1, <1>4, <1>5

(* Passing the cursor's slot: beyond n the slot of n has one visit more,   *)
(* and beyond n + Stages two more.                                         *)
LEMMA VisitsBeyond ==
  ASSUME NEW n \in Nat, NEW m \in Nat
  PROVE  /\ m > n => Visits(m, n % Stages) >= (n \div Stages) + 1
         /\ m > n + Stages => Visits(m, n % Stages) >= (n \div Stages) + 2
         /\ m <= n => Visits(m, n % Stages) <= n \div Stages
         /\ m <= n + Stages => Visits(m, n % Stages) <= (n \div Stages) + 1
<1> DEFINE s == n % Stages
<1>1. s \in Index /\ n \div Stages \in Nat
  BY DivMod
<1>2. Visits(n, s) = n \div Stages
  BY VisitsAtCursor
<1>3. Visits(n + 1, s) = (n \div Stages) + 1
  BY <1>1, <1>2, VisitsStep
<1>4. Visits(n + Stages, s) = (n \div Stages) + 1
  BY <1>1, <1>2, VisitsRound
<1>5. Visits(n + 1 + Stages, s) = (n \div Stages) + 2
  BY <1>1, <1>3, VisitsRound
<1>6. n + 1 \in Nat /\ n + Stages \in Nat /\ n + 1 + Stages \in Nat
  BY StagesAssumption
<1> HIDE DEF s
<1>7. m > n => Visits(n + 1, s) <= Visits(m, s)
  BY <1>1, <1>6, VisitsMonotone
<1>8. m > n + Stages => Visits(n + 1 + Stages, s) <= Visits(m, s)
  <2>1. m > n + Stages => n + 1 + Stages <= m
    BY StagesAssumption
  <2> QED BY <2>1, <1>1, <1>6, VisitsMonotone
<1>9. m <= n => Visits(m, s) <= Visits(n, s)
  BY <1>1, VisitsMonotone
<1>10. m <= n + Stages => Visits(m, s) <= Visits(n + Stages, s)
  BY <1>1, <1>6, VisitsMonotone
<1>11. Visits(m, s) \in Nat
  BY <1>1, VisitsType
<1> QED BY <1>1, <1>2, <1>3, <1>4, <1>5, <1>7, <1>8, <1>9, <1>10, <1>11 DEF s

(* A cursor that has visited every slot at least as often is not behind. *)
LEMMA VisitsOrder ==
  ASSUME NEW m \in Nat, NEW n \in Nat,
         \A s \in Index : Visits(m, s) >= Visits(n, s)
  PROVE  m >= n
<1> SUFFICES ASSUME m < n PROVE FALSE
  OBVIOUS
<1>1. m % Stages \in Index /\ m \div Stages \in Nat
  BY DivMod
<1>2. Visits(m, m % Stages) = m \div Stages
  BY VisitsAtCursor
<1>3. Visits(n, m % Stages) >= (m \div Stages) + 1
  BY VisitsBeyond
<1>4. Visits(n, m % Stages) \in Nat
  BY <1>1, VisitsType
<1> QED BY <1>1, <1>2, <1>3, <1>4

(* Within a window of Stages tiles every tile has a slot of its own. *)
LEMMA DistinctSlots ==
  ASSUME NEW m \in Nat, NEW n \in Nat, m < n, n < m + Stages
  PROVE  m % Stages # n % Stages
<1> SUFFICES ASSUME m % Stages = n % Stages PROVE FALSE
  OBVIOUS
<1> DEFINE qm == m \div Stages
           qn == n \div Stages
           r == m % Stages
<1>1. qm \in Nat /\ r \in Index /\ m = qm * Stages + r
  BY DivMod
<1>2. qn \in Nat /\ n = qn * Stages + r
  BY DivMod
<1> HIDE DEF qm, qn, r
<1>3. qn > qm
  BY <1>1, <1>2, StagesAssumption, SMTT(30) DEF Index
<1>4. qn * Stages >= (qm + 1) * Stages
  BY <1>1, <1>2, <1>3, StagesAssumption, SMTT(30)
<1> QED BY <1>1, <1>2, <1>4, StagesAssumption, SMTT(30) DEF Index

-----------------------------------------------------------------------------
(***************************************************************************)
(* What a parity test tells, by the cursor that is a step or a round away. *)
(***************************************************************************)

(* A producer at n, at most a round ahead of the m slots that are free,    *)
(* sees its slot free or one round behind.                                 *)
LEMMA AcquireTurn ==
  ASSUME NEW m \in Nat, NEW n \in Nat, m <= n, n <= m + Stages
  PROVE  /\ Visits(m, n % Stages) \in Nat /\ n \div Stages \in Nat
         /\ Visits(m, n % Stages) = n \div Stages \/ Visits(m, n % Stages) + 1 = n \div Stages
         /\ Visits(m, n % Stages) = n \div Stages <=> n < m + Stages
<1> DEFINE s == n % Stages
<1>0. m + Stages \in Nat
  BY StagesAssumption
<1>1. s \in Index /\ n \div Stages \in Nat /\ Visits(m, s) \in Nat /\ m + Stages \in Nat
  BY <1>0, DivMod, VisitsType
<1>2. Visits(n, s) = n \div Stages
  BY VisitsAtCursor
<1>3. Visits(m, s) <= Visits(n, s)
  BY <1>1, VisitsMonotone
<1>4. Visits(n, s) <= Visits(m + Stages, s) /\ Visits(m + Stages, s) = Visits(m, s) + 1
  BY <1>1, VisitsMonotone, VisitsRound
<1>5. n = m + Stages => Visits(n, s) = Visits(m, s) + 1
  BY <1>4
<1>6. n < m + Stages \/ n = m + Stages
  BY <1>1, StagesAssumption
<1>7. n < m + Stages => Visits(n, s) <= Visits(m, s)
  <2>1. n < m + Stages => n + 1 <= m + Stages /\ n + 1 \in Nat
    BY <1>1
  <2>2. Visits(n + 1, s) = Visits(n, s) + 1
    BY <1>1, VisitsStep
  <2>3. n < m + Stages => Visits(n + 1, s) <= Visits(m + Stages, s)
    BY <1>1, <2>1, VisitsMonotone
  <2> HIDE DEF s
  <2> QED BY <1>1, <1>2, <1>4, <2>2, <2>3
<1> HIDE DEF s
<1> QED BY <1>1, <1>2, <1>3, <1>4, <1>5, <1>6, <1>7 DEF s

(* A consumer at n, at most a round behind the m slots that are full, sees *)
(* its slot full or one round behind.                                      *)
LEMMA WaitTurn ==
  ASSUME NEW m \in Nat, NEW n \in Nat, n <= m, m <= n + Stages
  PROVE  /\ Visits(m, n % Stages) \in Nat /\ n \div Stages \in Nat
         /\ Visits(m, n % Stages) = n \div Stages \/ Visits(m, n % Stages) = (n \div Stages) + 1
         /\ m > n => Visits(m, n % Stages) = (n \div Stages) + 1
         /\ Visits(m, n % Stages) = (n \div Stages) + 1 => m > n
<1>1. n % Stages \in Index /\ n \div Stages \in Nat
  BY DivMod
<1>2. Visits(m, n % Stages) \in Nat
  BY <1>1, VisitsType
<1>3. /\ m > n => Visits(m, n % Stages) >= (n \div Stages) + 1
      /\ m <= n => Visits(m, n % Stages) <= n \div Stages
      /\ Visits(m, n % Stages) <= (n \div Stages) + 1
  BY VisitsBeyond
<1>4. Visits(n, n % Stages) = n \div Stages /\ Visits(n, n % Stages) <= Visits(m, n % Stages)
  BY <1>1, VisitsAtCursor, VisitsMonotone
<1> QED BY <1>1, <1>2, <1>3, <1>4

(* Of n slots filled in order at least all but the last Stages are full:   *)
(* the last of them is full when all are.                                  *)
LEMMA DrainTurn ==
  ASSUME NEW m \in Nat, NEW n \in Nat, m <= n, n <= m + Stages, n > 0
  PROVE  /\ Visits(m, (n - 1) % Stages) \in Nat /\ (n - 1) \div Stages \in Nat
         /\ Visits(m, (n - 1) % Stages) = (n - 1) \div Stages
            \/ Visits(m, (n - 1) % Stages) = ((n - 1) \div Stages) + 1
         /\ Visits(m, (n - 1) % Stages) = ((n - 1) \div Stages) + 1 => m = n
<1> DEFINE l == n - 1
           s == l % Stages
<1>1. l \in Nat /\ l + 1 = n
  OBVIOUS
<1> HIDE DEF l
<1>0. m + Stages \in Nat
  BY StagesAssumption
<1>2. s \in Index /\ l \div Stages \in Nat /\ m + Stages \in Nat
  BY <1>0, <1>1, DivMod
<1>3. Visits(m, s) \in Nat
  BY <1>2, VisitsType
<1>4. m <= l => Visits(m, s) <= l \div Stages
  BY <1>1, VisitsBeyond
<1>5. Visits(l, s) = l \div Stages /\ Visits(n, s) = (l \div Stages) + 1
  <2>1. Visits(l, s) = l \div Stages
    BY <1>1, VisitsAtCursor
  <2>2. Visits(l + 1, s) = Visits(l, s) + 1
    BY <1>1, <1>2, VisitsStep
  <2> QED BY <2>1, <2>2, <1>1
<1>6. Visits(n, s) <= Visits(m, s) + 1
  <2>1. Visits(n, s) <= Visits(m + Stages, s)
    BY <1>2, VisitsMonotone
  <2>2. Visits(m + Stages, s) = Visits(m, s) + 1
    BY <1>2, VisitsRound
  <2> QED BY <2>1, <2>2
<1>7. Visits(m, s) <= Visits(n, s)
  BY <1>2, VisitsMonotone
<1>8. m <= l \/ m = n
  BY <1>1
<1> HIDE DEF s
<1>9. /\ Visits(m, s) = l \div Stages \/ Visits(m, s) = (l \div Stages) + 1
      /\ Visits(m, s) = (l \div Stages) + 1 => m = n
  BY <1>2, <1>3, <1>4, <1>5, <1>6, <1>7, <1>8
<1> QED BY <1>2, <1>3, <1>9 DEF s, l

(* Adding a step to an index and reducing is adding it to the count. *)
LEMMA IndexAt ==
  ASSUME NEW n \in Nat, NEW d \in Nat
  PROVE  ((n % Stages) + d) % Stages = (n + d) % Stages
<1>1. Advance(StateAt(0, n), d) = StateAt(0, n + d)
  BY AdvanceStateAt
<1>2. Advance(StateAt(0, n), d).index = ((n % Stages) + d) % Stages
  BY DEF Advance, StateAt
<1>3. StateAt(0, n + d).index = (n + d) % Stages
  BY DEF StateAt
<1> QED BY <1>1, <1>2, <1>3

(* Within a round from n on every slot comes once. *)
LEMMA SlotComes ==
  ASSUME NEW n \in Nat, NEW s \in Index
  PROVE  \E d \in Index : (n + d) % Stages = s
<1> DEFINE q == n \div Stages
           r == n % Stages
<1>1. q \in Nat /\ r \in Index /\ n = q * Stages + r
  BY DivMod
<1> HIDE DEF q, r
<1>2. CASE r <= s
  <2>1. s - r \in Index /\ n + (s - r) = q * Stages + s
    BY <1>1, <1>2, StagesAssumption DEF Index
  <2> QED BY <1>1, <2>1, DivModUnique
<1>3. CASE s < r
  <2>1. s - r + Stages \in Index /\ n + (s - r + Stages) = (q + 1) * Stages + s /\ q + 1 \in Nat
    BY <1>1, <1>3, StagesAssumption DEF Index
  <2> QED BY <2>1, DivModUnique
<1> QED BY <1>1, <1>2, <1>3, StagesAssumption DEF Index

(* At most a round of steps visits the slots that it passes once. *)
LEMMA VisitsWindow ==
  ASSUME NEW n \in Nat, NEW k \in Nat, k <= Stages, NEW s \in Index
  PROVE  /\ (\E d \in 0 .. k - 1 : (n + d) % Stages = s) => Visits(n + k, s) = Visits(n, s) + 1
         /\ ~(\E d \in 0 .. k - 1 : (n + d) % Stages = s) => Visits(n + k, s) = Visits(n, s)
<1>1. n + k \in Nat /\ n <= n + k /\ n + k <= n + Stages /\ n + Stages \in Nat
  BY StagesAssumption
<1>2. /\ Visits(n, s) \in Nat /\ Visits(n + k, s) \in Nat
      /\ Visits(n, s) <= Visits(n + k, s) /\ Visits(n + k, s) <= Visits(n + Stages, s)
      /\ Visits(n + Stages, s) = Visits(n, s) + 1
  BY <1>1, VisitsType, VisitsMonotone, VisitsRound
<1>3. ASSUME NEW d \in 0 .. k - 1, (n + d) % Stages = s
      PROVE  Visits(n + k, s) = Visits(n, s) + 1
  <2>1. d \in Nat /\ n + d \in Nat /\ n + d + 1 \in Nat /\ n <= n + d /\ n + d + 1 <= n + k
    OBVIOUS
  <2>2. Visits(n + d + 1, s) = Visits(n + d, s) + 1
    BY <1>3, <2>1, VisitsStep
  <2>3. Visits(n, s) <= Visits(n + d, s) /\ Visits(n + d + 1, s) <= Visits(n + k, s)
        /\ Visits(n + d, s) \in Nat
    BY <1>1, <2>1, VisitsMonotone, VisitsType
  <2> QED BY <1>2, <2>2, <2>3
<1>4. ASSUME ~(\E d \in 0 .. k - 1 : (n + d) % Stages = s)
      PROVE  Visits(n + k, s) = Visits(n, s)
  <2>1. PICK d \in Index : (n + d) % Stages = s
    BY SlotComes
  <2>2. d \in Nat /\ n + d \in Nat /\ n + d + 1 \in Nat /\ d >= k /\ n + k <= n + d
        /\ n + d + 1 <= n + Stages
    BY <1>4, <2>1, StagesAssumption DEF Index
  <2>3. Visits(n + d + 1, s) = Visits(n + d, s) + 1
    BY <2>1, <2>2, VisitsStep
  <2>4. Visits(n + k, s) <= Visits(n + d, s) /\ Visits(n + d + 1, s) <= Visits(n + Stages, s)
        /\ Visits(n + d, s) \in Nat
    BY <1>1, <2>2, VisitsMonotone, VisitsType
  <2> QED BY <1>2, <2>3, <2>4
<1> QED BY <1>3, <1>4

-----------------------------------------------------------------------------
(* 2. The barriers.                                                        *)

(* One element less. *)
LEMMA CardRemove ==
  ASSUME NEW S, IsFiniteSet(S), NEW x \in S
  PROVE  /\ IsFiniteSet(S \ {x}) /\ Cardinality(S) \in Nat \ {0}
         /\ Cardinality(S \ {x}) = Cardinality(S) - 1
  BY FS_RemoveElement, FS_CardinalityType, FS_EmptySet

(* One element more. *)
LEMMA CardAdd ==
  ASSUME NEW S, IsFiniteSet(S), NEW x, x \notin S
  PROVE  Cardinality(S \cup {x}) = Cardinality(S) + 1
  BY FS_AddElement

(* Only the empty set has no element. *)
LEMMA CardZero ==
  ASSUME NEW S, IsFiniteSet(S), Cardinality(S) = 0
  PROVE  S = {}
  BY FS_EmptySet

(* An arrival leaves a barrier a barrier. *)
LEMMA ArriveType ==
  ASSUME NEW b \in Barrier, b.pending > 0
  PROVE  Arrive(b) \in Barrier
<1>1. b.count \in Nat /\ b.pending - 1 \in Nat /\ b.phase + 1 \in Nat
  BY DEF Barrier
<1>2. CASE b.pending = 1
  BY <1>1, <1>2 DEF Barrier, Arrive
<1>3. CASE b.pending # 1
  BY <1>1, <1>3 DEF Barrier, Arrive
<1> QED BY <1>2, <1>3

(* A barrier set up for as many arrivals as there are threads counts them. *)
LEMMA CountedInit ==
  ASSUME NEW T, IsFiniteSet(T), T # {}, NEW v, \A t \in T : v[t] = 0
  PROVE  CountedBy(BarrierInit(Cardinality(T)), T, v)
<1> DEFINE b == BarrierInit(Cardinality(T))
<1>1. Cardinality(T) \in Nat \ {0}
  BY FS_CardinalityType, FS_EmptySet
<1>2. b.count = Cardinality(T) /\ b.pending = Cardinality(T) /\ b.phase = 0 /\ b \in Barrier
  BY <1>1 DEF BarrierInit, Barrier
<1>3. {t \in T : v[t] = b.phase} = T
  BY <1>2
<1> HIDE DEF b
<1>4. CountedBy(b, T, v)
  BY <1>1, <1>2, <1>3 DEF CountedBy
<1> QED BY <1>4 DEF b

(* An arrival of a thread that the current phase waits for keeps the       *)
(* count, provided no other thread is a whole round ahead of the phase.    *)
LEMMA CountedArrival ==
  ASSUME NEW T, IsFiniteSet(T), NEW v \in [T -> Nat], NEW w \in [T -> Nat],
         NEW b, CountedBy(b, T, v), NEW t \in T, v[t] = b.phase, w[t] = v[t] + 1,
         \A u \in T : u # t => w[u] = v[u],
         \A u \in T : v[u] <= b.phase + 1
  PROVE  CountedBy(Arrive(b), T, w) /\ Arrive(b).phase >= b.phase
<1> DEFINE S == {u \in T : v[u] = b.phase}
           a == Arrive(b)
<1>1. /\ b \in Barrier /\ b.pending > 0 /\ b.count = Cardinality(T)
      /\ b.pending = Cardinality(S) /\ b.phase \in Nat
      /\ \A u \in T : b.phase <= v[u]
  BY DEF CountedBy, Barrier
<1>2. t \in S /\ IsFiniteSet(S) /\ S \subseteq T
  BY FS_Subset
<1>3. IsFiniteSet(S \ {t}) /\ Cardinality(S \ {t}) = Cardinality(S) - 1
      /\ Cardinality(S) \in Nat \ {0} /\ Cardinality(T) \in Nat \ {0}
  BY <1>2, CardRemove
<1>4. a \in Barrier
  BY <1>1, ArriveType
<1>5. CASE b.pending = 1
  <2>1. a.count = b.count /\ a.pending = b.count /\ a.phase = b.phase + 1
    BY <1>1, <1>5 DEF Arrive, Barrier
  <2>2. S \ {t} = {}
    <3> HIDE DEF S
    <3> QED BY <1>1, <1>3, <1>5, CardZero
  <2>3. \A u \in T : u # t => v[u] # b.phase
    BY <2>2
  <2>4. \A u \in T : w[u] = b.phase + 1
    <3> HIDE DEF a, S
    <3> QED BY <1>1, <2>3
  <2>5. {u \in T : w[u] = a.phase} = T
    BY <2>1, <2>4
  <2> HIDE DEF a, S
  <2>6. CountedBy(a, T, w) /\ a.phase >= b.phase
    <3>1. a.pending = Cardinality({u \in T : w[u] = a.phase}) /\ a.pending > 0
      <4>1. Cardinality({u \in T : w[u] = a.phase}) = Cardinality(T)
        BY <2>5
      <4> QED BY <1>1, <1>3, <2>1, <4>1
    <3>2. \A u \in T : a.phase <= w[u]
      BY <1>1, <2>1, <2>4
    <3>3. a.phase >= b.phase /\ a.count = Cardinality(T)
      BY <1>1, <2>1
    <3> QED BY <1>4, <3>1, <3>2, <3>3 DEF CountedBy
  <2> QED BY <2>6 DEF a
<1>6. CASE b.pending # 1
  <2>1. a.count = b.count /\ a.pending = b.pending - 1 /\ a.phase = b.phase
    BY <1>1, <1>6 DEF Arrive, Barrier
  <2>2. \A u \in T : w[u] = b.phase <=> v[u] = b.phase /\ u # t
    <3> HIDE DEF a, S
    <3> QED BY <1>1
  <2>3. {u \in T : w[u] = a.phase} = S \ {t}
    BY <2>1, <2>2
  <2>4. \A u \in T : a.phase <= w[u]
    <3> HIDE DEF a, S
    <3> QED BY <1>1, <2>1
  <2> HIDE DEF a, S
  <2>5. CountedBy(a, T, w) /\ a.phase >= b.phase
    <3>1. a.pending = Cardinality({u \in T : w[u] = a.phase}) /\ a.pending > 0
      BY <1>1, <1>3, <1>6, <2>1, <2>3
    <3>2. a.phase >= b.phase /\ a.count = Cardinality(T)
      BY <1>1, <2>1
    <3> QED BY <1>4, <2>4, <3>1, <3>2 DEF CountedBy
  <2> QED BY <2>5 DEF a
<1> QED BY <1>5, <1>6

(* An arrival with the bytes it announces, and bytes that complete. *)
LEMMA TxForms ==
  ASSUME NEW b \in [count : Nat, pending : Nat, tx : Int, phase : Nat], NEW u \in Nat
  PROVE  /\ ArriveAndExpectTx(b, u) =
              Settle([count |-> b.count, pending |-> b.pending - 1, tx |-> b.tx + u,
                      phase |-> b.phase])
         /\ CompleteTransaction(b, u) =
              Settle([count |-> b.count, pending |-> b.pending, tx |-> b.tx - u,
                      phase |-> b.phase])
<1>1. [b EXCEPT !.pending = b.pending - 1, !.tx = b.tx + u]
        = [count |-> b.count, pending |-> b.pending - 1, tx |-> b.tx + u, phase |-> b.phase]
  <2> DEFINE p == b.pending - 1
             t == b.tx + u
  <2>1. p \in Int /\ t \in Int
    OBVIOUS
  <2> HIDE DEF p, t
  <2>2. [b EXCEPT !.pending = p]
          = [count |-> b.count, pending |-> p, tx |-> b.tx, phase |-> b.phase]
    BY <2>1
  <2>3. [[count |-> b.count, pending |-> p, tx |-> b.tx, phase |-> b.phase] EXCEPT !.tx = t]
          = [count |-> b.count, pending |-> p, tx |-> t, phase |-> b.phase]
    BY <2>1
  <2> QED BY <2>2, <2>3 DEF p, t
<1>2. [b EXCEPT !.tx = b.tx - u]
        = [count |-> b.count, pending |-> b.pending, tx |-> b.tx - u, phase |-> b.phase]
  OBVIOUS
<1> QED BY <1>1, <1>2 DEF ArriveAndExpectTx, CompleteTransaction
=============================================================================
