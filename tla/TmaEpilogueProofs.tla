------------------------- MODULE TmaEpilogueProofs -------------------------
(***************************************************************************)
(* The invariant of TmaEpilogueInv is inductive, for every load warp,      *)
(* every set of math threads and every instance of the template, and       *)
(* implies the safety properties that the model's runs check.              *)
(***************************************************************************)
EXTENDS TmaEpilogueInv, FiniteSetTheorems, TLAPS

(* The facts about cursors, for both pipelines. *)
CL == INSTANCE PipelineLemmas WITH Stages <- StagesC
DL == INSTANCE PipelineLemmas WITH Stages <- StoreStages

(* Those about quotients and remainders, for the subtiles of a tile. *)
TL == INSTANCE PipelineLemmas WITH Stages <- Subtiles

(* Those about barriers do not depend on the stages. *)
BL == INSTANCE PipelineLemmas WITH Stages <- 1

(* An instance has the operators of the modules it extends for itself:     *)
(* they are the same as those of this module.                              *)
LEMMA SameSets ==
  \A S : Cardinality(S) = BL!Cardinality(S) /\ (IsFiniteSet(S) <=> BL!IsFiniteSet(S))
<1>1. \A S : Cardinality(S) = BL!Cardinality(S)
  BY DEF Cardinality, BL!Cardinality
<1>2. \A S : IsFiniteSet(S) <=> BL!IsFiniteSet(S)
  BY Zenon DEF IsFiniteSet, BL!IsFiniteSet
<1> QED BY <1>1, <1>2

LEMMA SameBarriers ==
  /\ \A n : BarrierInit(n) = BL!BarrierInit(n)
  /\ \A b : Arrive(b) = BL!Arrive(b)
  /\ \A b, T, v : CountedBy(b, T, v) <=> BL!CountedBy(b, T, v)
<1>1. \A n : BarrierInit(n) = BL!BarrierInit(n)
  BY DEF BarrierInit, BL!BarrierInit
<1>2. \A b : Arrive(b) = BL!Arrive(b)
  BY DEF Arrive, BL!Arrive
<1>3. \A b, T, v : CountedBy(b, T, v) <=> BL!CountedBy(b, T, v)
  BY SameSets, Zenon DEF CountedBy, BL!CountedBy, Barrier, BL!Barrier
<1> QED BY <1>1, <1>2, <1>3

(* One element less; only the empty set has no element. *)
LEMMA CardRemove ==
  ASSUME NEW S, IsFiniteSet(S), NEW x \in S
  PROVE  /\ IsFiniteSet(S \ {x}) /\ Cardinality(S) \in Nat \ {0}
         /\ Cardinality(S \ {x}) = Cardinality(S) - 1
  BY FS_RemoveElement, FS_CardinalityType, FS_EmptySet

LEMMA CardZero ==
  ASSUME NEW S, IsFiniteSet(S), Cardinality(S) = 0
  PROVE  S = {}
  BY FS_EmptySet

(* A barrier set up for as many arrivals as there are threads counts them, *)
(* and an arrival of a thread that the current phase waits for keeps count.*)
LEMMA CountedInit ==
  ASSUME NEW T, IsFiniteSet(T), T # {}, NEW v, \A t \in T : v[t] = 0
  PROVE  CountedBy(BarrierInit(Cardinality(T)), T, v)
<1>1. BL!IsFiniteSet(T) /\ Cardinality(T) = BL!Cardinality(T)
  BY SameSets
<1>2. BL!CountedBy(BL!BarrierInit(BL!Cardinality(T)), T, v)
  BY <1>1, BL!CountedInit
<1> QED BY <1>1, <1>2, SameBarriers, Zenon

LEMMA CountedArrival ==
  ASSUME NEW T, IsFiniteSet(T), NEW v \in [T -> Nat], NEW w \in [T -> Nat],
         NEW b, CountedBy(b, T, v), NEW t \in T, v[t] = b.phase, w[t] = v[t] + 1,
         \A u \in T : u # t => w[u] = v[u],
         \A u \in T : v[u] <= b.phase + 1
  PROVE  CountedBy(Arrive(b), T, w) /\ Arrive(b).phase >= b.phase
<1>1. BL!IsFiniteSet(T) /\ BL!CountedBy(b, T, v)
  BY SameSets, SameBarriers, Zenon
<1>2. BL!CountedBy(BL!Arrive(b), T, w) /\ BL!Arrive(b).phase >= b.phase
  BY <1>1, BL!CountedArrival
<1>3. Arrive(b) = BL!Arrive(b)
  BY SameBarriers, Zenon
<1> QED BY <1>2, <1>3, SameBarriers, Zenon

(* An arrival with the bytes it announces, and bytes that complete. *)
LEMMA TxForms ==
  ASSUME NEW b \in [count : Nat, pending : Nat, tx : Int, phase : Nat], NEW u \in Nat
  PROVE  /\ ArriveAndExpectTx(b, u) =
              Settle([count |-> b.count, pending |-> b.pending - 1, tx |-> b.tx + u,
                      phase |-> b.phase])
         /\ CompleteTransaction(b, u) =
              Settle([count |-> b.count, pending |-> b.pending, tx |-> b.tx - u,
                      phase |-> b.phase])
<1>1. \A c : Settle(c) = BL!Settle(c)
  BY DEF Settle, BL!Settle
<1>2. \A c, n : /\ ArriveAndExpectTx(c, n) = BL!ArriveAndExpectTx(c, n)
               /\ CompleteTransaction(c, n) = BL!CompleteTransaction(c, n)
  BY <1>1, Zenon DEF ArriveAndExpectTx, BL!ArriveAndExpectTx,
         CompleteTransaction, BL!CompleteTransaction
<1>3. /\ BL!ArriveAndExpectTx(b, u) =
           BL!Settle([count |-> b.count, pending |-> b.pending - 1, tx |-> b.tx + u,
                      phase |-> b.phase])
      /\ BL!CompleteTransaction(b, u) =
           BL!Settle([count |-> b.count, pending |-> b.pending, tx |-> b.tx - u,
                      phase |-> b.phase])
  BY BL!TxForms
<1> QED BY <1>1, <1>2, <1>3, Zenon

-----------------------------------------------------------------------------
(* 1. The instance of the template, and the arithmetic of its cursors.     *)

(* The parameters of an instance. *)
LEMMA PolicyType ==
  ASSUME policy \in Policies
  PROVE  /\ StagesC \in Nat \ {0} /\ StagesD \in Nat \ {0} /\ StoreStages \in Nat \ {0}
         /\ StagesD <= StoreStages /\ StagesD <= Subtiles
         /\ ReuseSmemC => StoreStages = StagesC
         /\ UnacquiredStages \in Nat /\ UnacquiredStages = StagesD - 1
         /\ ReuseSmemC \in BOOLEAN /\ DelayTmaStore \in BOOLEAN /\ LoadNeeded \in BOOLEAN
         /\ Subtiles \in Nat \ {0} /\ NumTiles \in Nat /\ NumSubtiles \in Nat
         /\ DPlace \in [Threads -> Threads]
         /\ \A t \in Threads : \E u \in Threads : DPlace[u] = t
<1>1. /\ policy.StagesC \in Nat \ {0} /\ policy.StagesD \in 1 .. policy.Subtiles
      /\ policy.ReuseSmemC => policy.StagesD <= policy.StagesC
      /\ policy.Subtiles \in Nat \ {0} /\ policy.NumTiles \in Nat
  BY EpilogueAssumption
<1>2. /\ policy.ReuseSmemC \in BOOLEAN /\ policy.DelayTmaStore \in BOOLEAN
      /\ policy.LoadNeeded \in BOOLEAN
      /\ policy.DPlace \in [Threads -> Threads]
      /\ \A t \in Threads : \E u \in Threads : policy.DPlace[u] = t
  BY EpilogueAssumption
<1>3. StagesC \in Nat \ {0} /\ StagesD \in Nat \ {0} /\ StagesD <= Subtiles
      /\ Subtiles \in Nat \ {0} /\ NumTiles \in Nat
  BY <1>1 DEF StagesC, StagesD, Subtiles, NumTiles
<1>4. StoreStages \in Nat \ {0} /\ StagesD <= StoreStages /\ (ReuseSmemC => StoreStages = StagesC)
  BY <1>1, <1>3 DEF StoreStages, ReuseSmemC, StagesC, StagesD
<1>5. UnacquiredStages \in Nat /\ UnacquiredStages = StagesD - 1
  BY <1>3 DEF UnacquiredStages
<1>6. NumSubtiles \in Nat
  BY <1>3 DEF NumSubtiles
<1> QED BY <1>2, <1>3, <1>4, <1>5, <1>6 DEF ReuseSmemC, DelayTmaStore, LoadNeeded, DPlace

(* The actors. *)
LEMMA Actors ==
  /\ IsFiniteSet(Lanes) /\ leader \in Lanes /\ Lanes # {}
  /\ IsFiniteSet(Threads) /\ issuer \in Threads /\ Threads # {}
  BY EpilogueAssumption

(* The load pipeline: how often a slot is visited. *)
LEMMA SlotVisits ==
  ASSUME policy \in Policies
  PROVE  /\ \A n \in Nat : /\ n % StagesC \in C!Index /\ n \div StagesC \in Nat
                           /\ C!Visits(n, n % StagesC) = n \div StagesC
         /\ \A i \in C!Index :
              /\ C!Visits(0, i) = 0
              /\ \A n \in Nat :
                   /\ C!Visits(n, i) \in Nat
                   /\ C!Visits(n + 1, i) = C!Visits(n, i) + IF i = n % StagesC THEN 1 ELSE 0
                   /\ C!Visits(n + StagesC, i) = C!Visits(n, i) + 1
              /\ \A m, n \in Nat : m <= n => C!Visits(m, i) <= C!Visits(n, i)
<1>1. CL!StagesAssumption
  BY PolicyType DEF CL!StagesAssumption
<1>2. C!Index = CL!Index /\ \A n, i : C!Visits(n, i) = CL!Visits(n, i)
  BY DEF C!Index, CL!Index, C!Visits, CL!Visits
<1>3. ASSUME NEW n \in Nat
      PROVE  /\ n % StagesC \in CL!Index /\ n \div StagesC \in Nat
             /\ CL!Visits(n, n % StagesC) = n \div StagesC
  BY <1>1, CL!DivMod, CL!VisitsAtCursor
<1>4. ASSUME NEW i \in CL!Index PROVE CL!Visits(0, i) = 0
  BY <1>1, CL!VisitsZero
<1>5. ASSUME NEW i \in CL!Index, NEW n \in Nat
      PROVE  /\ CL!Visits(n, i) \in Nat
             /\ CL!Visits(n + 1, i) = CL!Visits(n, i) + IF i = n % StagesC THEN 1 ELSE 0
             /\ CL!Visits(n + StagesC, i) = CL!Visits(n, i) + 1
  <2>1. CL!Visits(n, i) \in Nat
    BY <1>1, CL!VisitsType
  <2>2. CL!Visits(n + 1, i) = IF i = n % StagesC THEN CL!Visits(n, i) + 1 ELSE CL!Visits(n, i)
    BY <1>1, CL!VisitsStep
  <2>3. CL!Visits(n + StagesC, i) = CL!Visits(n, i) + 1
    BY <1>1, CL!VisitsRound
  <2> QED BY <2>1, <2>2, <2>3
<1>6. ASSUME NEW i \in CL!Index, NEW m \in Nat, NEW n \in Nat, m <= n
      PROVE  CL!Visits(m, i) <= CL!Visits(n, i)
  BY <1>1, <1>6, CL!VisitsMonotone
<1> QED BY <1>2, <1>3, <1>4, <1>5, <1>6

(* Before and beyond the visit of step n to its slot. *)
LEMMA SlotBeyond ==
  ASSUME policy \in Policies, NEW n \in Nat, NEW m \in Nat
  PROVE  /\ C!Visits(m, n % StagesC) >= (n \div StagesC) + 1 => m > n
         /\ C!Visits(m, n % StagesC) <= n \div StagesC => m <= n
         /\ m > n => C!Visits(m, n % StagesC) >= (n \div StagesC) + 1
         /\ m <= n => C!Visits(m, n % StagesC) <= n \div StagesC
         /\ m <= n + StagesC => C!Visits(m, n % StagesC) <= (n \div StagesC) + 1
<1>1. CL!StagesAssumption
  BY PolicyType DEF CL!StagesAssumption
<1>2. \A k, i : C!Visits(k, i) = CL!Visits(k, i)
  BY DEF C!Visits, CL!Visits
<1>3. /\ m > n => CL!Visits(m, n % StagesC) >= (n \div StagesC) + 1
      /\ m <= n => CL!Visits(m, n % StagesC) <= n \div StagesC
      /\ m <= n + StagesC => CL!Visits(m, n % StagesC) <= (n \div StagesC) + 1
  BY <1>1, CL!VisitsBeyond
<1>4. C!Visits(m, n % StagesC) \in Nat /\ n \div StagesC \in Nat
  BY SlotVisits
<1> QED BY <1>2, <1>3, <1>4

(* Two steps at one slot are a round apart, in the load pipeline ... *)
LEMMA SlotApart ==
  ASSUME policy \in Policies, NEW m \in Nat, NEW n \in Nat, m % StagesC = n % StagesC, m < n
  PROVE  m + StagesC <= n /\ (m \div StagesC) + 1 <= n \div StagesC
<1>1. CL!StagesAssumption
  BY PolicyType DEF CL!StagesAssumption
<1>2. ~(n < m + StagesC)
  BY <1>1, CL!DistinctSlots
<1>3. StagesC \in Nat
  BY PolicyType
<1>4. C!Visits(n, m % StagesC) >= (m \div StagesC) + 1
  BY SlotBeyond
<1>5. C!Visits(n, n % StagesC) = n \div StagesC
  BY SlotVisits
<1> QED BY <1>2, <1>3, <1>4, <1>5

(* ... and in the store pipeline. *)
LEMMA StoreSlotApart ==
  ASSUME policy \in Policies, NEW m \in Nat, NEW n \in Nat,
         m % StoreStages = n % StoreStages, m < n
  PROVE  m + StoreStages <= n
<1>1. DL!StagesAssumption
  BY PolicyType DEF DL!StagesAssumption
<1>2. ~(n < m + StoreStages)
  BY <1>1, DL!DistinctSlots
<1>3. StoreStages \in Nat
  BY PolicyType
<1> QED BY <1>2, <1>3

(* The cursors of the load pipeline, and of the store pipeline. *)
LEMMA Cursors ==
  ASSUME policy \in Policies
  PROVE  /\ C!ProducerStartState = C!StateAt(1, 0) /\ C!DefaultState = C!StateAt(0, 0)
         /\ D!ProducerStartState = D!StateAt(1, 0)
         /\ \A n \in Nat : /\ \A p \in {0, 1} : /\ C!StateAt(p, n) \in C!Cursor
                                                /\ C!Inc(C!StateAt(p, n)) = C!StateAt(p, n + 1)
                           /\ D!StateAt(1, n) \in D!Cursor
                           /\ D!Inc(D!StateAt(1, n)) = D!StateAt(1, n + 1)
                           /\ n % StoreStages \in D!Index
<1>1. CL!StagesAssumption /\ DL!StagesAssumption
  BY PolicyType DEF CL!StagesAssumption, DL!StagesAssumption
<1>2. C!ProducerStartState = CL!ProducerStartState /\ C!DefaultState = CL!DefaultState
      /\ D!ProducerStartState = DL!ProducerStartState
  BY DEF C!ProducerStartState, CL!ProducerStartState, C!DefaultState, CL!DefaultState,
         D!ProducerStartState, DL!ProducerStartState
<1>3. /\ C!Cursor = CL!Cursor /\ \A p, n : C!StateAt(p, n) = CL!StateAt(p, n)
      /\ \A s : C!Inc(s) = CL!Inc(s)
  BY DEF C!Cursor, CL!Cursor, C!Index, CL!Index, C!StateAt, CL!StateAt, C!Inc, CL!Inc, C!Flip, CL!Flip
<1>4. /\ D!Cursor = DL!Cursor /\ D!Index = DL!Index
      /\ \A p, n : D!StateAt(p, n) = DL!StateAt(p, n) /\ \A s : D!Inc(s) = DL!Inc(s)
  BY DEF D!Cursor, DL!Cursor, D!Index, DL!Index, D!StateAt, DL!StateAt, D!Inc, DL!Inc, D!Flip, DL!Flip
<1>5. CL!ProducerStartState = CL!StateAt(1, 0) /\ CL!DefaultState = CL!StateAt(0, 0)
      /\ DL!ProducerStartState = DL!StateAt(1, 0)
  BY <1>1, CL!StartStates, DL!StartStates
<1>6. ASSUME NEW n \in Nat, NEW p \in {0, 1}
      PROVE  CL!StateAt(p, n) \in CL!Cursor /\ CL!Inc(CL!StateAt(p, n)) = CL!StateAt(p, n + 1)
  BY <1>1, CL!StateAtType, CL!IncStateAt
<1>7. ASSUME NEW n \in Nat
      PROVE  /\ DL!StateAt(1, n) \in DL!Cursor /\ DL!Inc(DL!StateAt(1, n)) = DL!StateAt(1, n + 1)
             /\ n % StoreStages \in DL!Index
  BY <1>1, DL!StateAtType, DL!IncStateAt, DL!DivMod
<1> QED BY <1>2, <1>3, <1>4, <1>5, <1>6, <1>7

(* What a cursor shows. *)
LEMMA CursorFields ==
  ASSUME NEW p, NEW n
  PROVE  /\ C!StateAt(p, n).index = n % StagesC /\ C!StateAt(p, n).count = n
         /\ C!StateAt(p, n).phase = (p + (n \div StagesC)) % 2
         /\ D!StateAt(p, n).index = n % StoreStages /\ D!StateAt(p, n).count = n
         /\ D!StateAt(p, n).phase = (p + (n \div StoreStages)) % 2
  BY DEF C!StateAt, D!StateAt

(* The slots of C and of D. *)
LEMMA SlotNames ==
  ASSUME policy \in Policies
  PROVE  /\ \A i, j : SlotC(i) = SlotC(j) => i = j
         /\ \A i, j : SlotD(i) = SlotD(j) => i = j
         /\ \A i, j : SlotC(i) = SlotD(j) => ReuseSmemC /\ i = j
         /\ \A i \in C!Index : SlotC(i) \in Slots
         /\ \A j \in D!Index : SlotD(j) \in Slots
  BY DEF SlotC, SlotD, Slots

(* The last subtile of a tile is followed by the first of the next. *)
LEMMA TileBounds ==
  ASSUME policy \in Policies, NEW n \in Nat
  PROVE  /\ LastOfTile(n) => FirstOfTile(n + 1)
         /\ ~LastOfTile(n) => ~FirstOfTile(n + 1)
         /\ FirstOfTile(0) /\ FirstOfTile(NumSubtiles)
         /\ n < NumSubtiles /\ ~LastOfTile(n) => n + 1 < NumSubtiles
<1> DEFINE s == Subtiles
<1>1. s \in Nat \ {0} /\ NumTiles \in Nat /\ NumSubtiles \in Nat /\ NumSubtiles = s * NumTiles
  BY PolicyType DEF NumSubtiles
<1> HIDE DEF s
<1>2. n % s \in 0 .. s - 1 /\ (n % s = s - 1 <=> (n + 1) % s = 0)
  <2>1. TL!StagesAssumption
    BY <1>1 DEF TL!StagesAssumption, s
  <2>2. n % s \in 0 .. s - 1
    BY <2>1, TL!DivMod DEF TL!Index, s
  <2>3. /\ (n % s) + 1 = s => (n + 1) % s = 0
        /\ (n % s) + 1 # s => (n + 1) % s = (n % s) + 1
    BY <2>1, TL!StepDivMod DEF s
  <2> QED BY <1>1, <2>2, <2>3
<1>3. (s * NumTiles) % s = 0 /\ 0 % s = 0
  BY <1>1, SMTT(30)
<1>4. n < NumSubtiles /\ (n + 1) % s # 0 => n + 1 < NumSubtiles
  BY <1>1, <1>3
<1> QED BY <1>1, <1>2, <1>3, <1>4 DEF LastOfTile, FirstOfTile, s

-----------------------------------------------------------------------------
(* 2. What the invariant says of the counts.                               *)

(* The counts of a lane, and of the loads. *)
LEMMA LaneCounts ==
  ASSUME IInv, NEW l \in Lanes
  PROVE  /\ LaneCursor(l) /\ lpc[l] \in {"next", "copy", "expect", "commit", "exit"}
         /\ lstate[l] = C!StateAt(1, lstate[l].count) /\ lstate[l].count \in Nat
         /\ Acquired(l) \in Nat /\ Committed(l) \in Nat
         /\ lstate[l].count <= Acquired(l) /\ Committed(l) <= lstate[l].count
         /\ Committed(l) <= NumSubtiles
<1>1. LaneCursor(l) /\ lpc[l] \in {"next", "copy", "expect", "commit", "exit"}
      /\ lstate[l] \in C!Cursor /\ policy \in Policies
  BY DEF IInv, Shape
<1>2. lstate[l].count \in Nat
  BY <1>1 DEF C!Cursor
<1>3. NumSubtiles \in Nat
  BY <1>1, PolicyType
<1>4. lstate[l] = C!StateAt(1, lstate[l].count)
  BY <1>1 DEF LaneCursor
<1> QED BY <1>1, <1>2, <1>3, <1>4 DEF Acquired, Committed

LEMMA LoadCounts ==
  ASSUME IInv
  PROVE  /\ LoadsIssued \in Nat /\ Announced \in Nat
         /\ Committed(leader) <= Announced /\ Announced <= LoadsIssued
         /\ LoadsIssued <= Acquired(leader) /\ LoadsIssued <= NumSubtiles
         /\ lpc[leader] \notin {"expect", "commit"} => LoadsIssued = Committed(leader)
<1>1. LaneCursor(leader) /\ lpc[leader] \in {"next", "copy", "expect", "commit", "exit"}
      /\ lstate[leader].count \in Nat /\ Committed(leader) \in Nat
      /\ Committed(leader) <= lstate[leader].count /\ Committed(leader) <= NumSubtiles
  BY Actors, LaneCounts
<1>2. NumSubtiles \in Nat
  BY PolicyType DEF IInv, Shape
<1>3. lpc[leader] \in {"copy", "expect", "commit"} =>
        lstate[leader].count < NumSubtiles /\ Committed(leader) = lstate[leader].count
  BY <1>1, <1>2 DEF LaneCursor, Committed
<1> QED BY <1>1, <1>2, <1>3 DEF LoadsIssued, Announced, Acquired

(* The counts of a math thread. *)
LEMMA ThreadCounts ==
  ASSUME IInv, NEW t \in Threads
  PROVE  /\ SourceCursor(t) /\ StoreCursor(t) /\ FreeCursor(t)
         /\ tpc[t] \in {"begin", "wait", "read", "free", "write", "sync", "issue", "acquire",
                        "resync", "finish", "tail", "exit"}
         /\ sub[t] \in Nat /\ sub[t] <= NumSubtiles /\ written[t] \in BOOLEAN
         /\ Stored(t) \in Nat /\ Wrote(t) \in Nat /\ ReadCount(t) \in Nat /\ Waited(t) \in Nat
         /\ rstate[t].count \in Nat /\ Freed(t) \in Nat
         /\ left[t] \in Nat /\ issued[t] \in Nat
<1>1. SourceCursor(t) /\ StoreCursor(t) /\ FreeCursor(t)
  BY DEF IInv
<1>2. /\ tpc[t] \in {"begin", "wait", "read", "free", "write", "sync", "issue", "acquire",
                     "resync", "finish", "tail", "exit"}
      /\ sub[t] \in Nat /\ written[t] \in BOOLEAN /\ left[t] \in Nat /\ issued[t] \in Nat
      /\ rstate[t] \in C!Cursor /\ sstate[t] \in D!Cursor
  BY DEF IInv, Shape
<1>3. rstate[t].count \in Nat /\ sstate[t].count \in Nat
  BY <1>2 DEF C!Cursor, D!Cursor
<1>4. sub[t] <= NumSubtiles
  BY <1>1 DEF StoreCursor
<1> QED BY <1>1, <1>2, <1>3, <1>4 DEF Stored, Wrote, ReadCount, Waited, Freed

(* The delayed subtile is that before. *)
LEMMA NotFirst ==
  ASSUME policy \in Policies, NEW n \in Nat, ~FirstOfTile(n)
  PROVE  n - 1 \in Nat
<1>1. n # 0
  BY TileBounds
<1> QED BY <1>1

(* How far a thread is ahead with what. *)
LEMMA ThreadOrder ==
  ASSUME IInv, NEW t \in Threads
  PROVE  /\ Stored(t) <= Wrote(t) /\ Wrote(t) <= Stored(t) + 1
         /\ LoadNeeded => /\ Freed(t) <= ReadCount(t) /\ ReadCount(t) <= Waited(t)
                          /\ Wrote(t) <= Waited(t)
         /\ ReuseSmemC => Freed(t) <= Stored(t)
<1>1. /\ StoreCursor(t) /\ FreeCursor(t) /\ policy \in Policies
      /\ tpc[t] \in {"begin", "wait", "read", "free", "write", "sync", "issue", "acquire",
                     "resync", "finish", "tail", "exit"}
      /\ sub[t] \in Nat /\ written[t] \in BOOLEAN
      /\ Stored(t) \in Nat /\ rstate[t].count \in Nat /\ left[t] \in Nat
  BY ThreadCounts DEF IInv, Shape
<1>2. UnacquiredStages \in Nat /\ ReuseSmemC \in BOOLEAN /\ LoadNeeded \in BOOLEAN
      /\ DelayTmaStore \in BOOLEAN /\ NumSubtiles \in Nat
  BY <1>1, PolicyType
<1>3. ~FirstOfTile(sub[t]) => sub[t] - 1 \in Nat
  BY <1>1, NotFirst
<1>4. Stored(t) <= Wrote(t) /\ Wrote(t) <= Stored(t) + 1
  BY <1>1, <1>2, <1>3 DEF StoreCursor, Wrote, Subject
<1>5. LoadNeeded => ReadCount(t) <= Waited(t) /\ Wrote(t) <= Waited(t)
  BY <1>1, <1>2 DEF ReadCount, Waited, Wrote, StoreCursor
<1>6. ReuseSmemC => Freed(t) <= Stored(t)
  <2>1. CASE tpc[t] \in {"tail", "exit"}
    <3>1. Stored(t) = sub[t] /\ sub[t] = NumSubtiles /\ written[t] = FALSE
      BY <1>1, <2>1 DEF StoreCursor
    <3> QED BY <1>1, <1>2, <2>1, <3>1 DEF FreeCursor, Freed
  <2>2. CASE tpc[t] \notin {"tail", "exit"}
    BY <1>1, <1>2, <2>2 DEF FreeCursor, Freed
  <2> QED BY <2>1, <2>2
<1>7. LoadNeeded => Freed(t) <= ReadCount(t)
  <2>1. CASE tpc[t] \in {"tail", "exit"}
    <3>1. sub[t] = NumSubtiles
      BY <1>1, <2>1 DEF StoreCursor
    <3> QED BY <1>1, <1>2, <2>1, <3>1 DEF FreeCursor, Freed, ReadCount
  <2>2. CASE tpc[t] \notin {"tail", "exit"} /\ ~ReuseSmemC
    BY <1>1, <1>2, <2>2 DEF FreeCursor, Freed, ReadCount
  <2>3. CASE tpc[t] \notin {"tail", "exit"} /\ ReuseSmemC
    <3> DEFINE finished == IF tpc[t] \in {"acquire", "resync", "finish"} THEN Stored(t) - 1
                           ELSE Stored(t)
    <3>1. Freed(t) <= finished \/ Freed(t) = 0
      BY <1>1, <1>2, <2>3 DEF FreeCursor, Freed
    <3>2. finished <= ReadCount(t)
      BY <1>1, <1>2, <1>3, <2>3 DEF StoreCursor, ReadCount, Subject
    <3>3. ReadCount(t) \in Nat /\ finished \in Int /\ Freed(t) \in Nat
      BY <1>1, ThreadCounts
    <3> HIDE DEF finished
    <3> QED BY <3>1, <3>2, <3>3
  <2> QED BY <2>1, <2>2, <2>3
<1> QED BY <1>4, <1>5, <1>6, <1>7

(* The stores in flight: their slots have not been given back. *)
LEMMA StoresAhead ==
  ASSUME IInv, NEW x \in storing
  PROVE  /\ x = <<x[1], x[1], SlotD(x[1] % StoreStages)>> /\ x[1] \in Nat
         /\ x[1] < Stored(issuer) /\ Stored(issuer) <= x[1] + StagesD
         /\ tpc[issuer] # "acquire" => Stored(issuer) <= x[1] + UnacquiredStages
         /\ tpc[issuer] \notin {"tail", "exit"}
         /\ ReuseSmemC => Freed(issuer) <= x[1]
<1>1. /\ policy \in Policies /\ StoresInFlight /\ FreeCursor(issuer)
      /\ Stored(issuer) \in Nat /\ rstate[issuer].count \in Nat
  BY Actors, ThreadCounts DEF IInv, Shape
<1>2. UnacquiredStages \in Nat /\ UnacquiredStages = StagesD - 1 /\ StagesD \in Nat
      /\ ReuseSmemC \in BOOLEAN /\ LoadNeeded \in BOOLEAN
  BY <1>1, PolicyType
<1>3. /\ x = <<x[1], x[1], SlotD(x[1] % StoreStages)>> /\ x[1] \in Nat
      /\ x[1] < Stored(issuer)
      /\ Stored(issuer) <= x[1] + IF tpc[issuer] = "acquire" THEN StagesD ELSE UnacquiredStages
      /\ tpc[issuer] \notin {"tail", "exit"}
  BY <1>1 DEF StoresInFlight
<1>4. ReuseSmemC => Freed(issuer) <= x[1]
  BY <1>1, <1>2, <1>3 DEF FreeCursor, Freed
<1>5. Stored(issuer) <= x[1] + StagesD
      /\ (tpc[issuer] # "acquire" => Stored(issuer) <= x[1] + UnacquiredStages)
  <2>1. x[1] \in Nat
        /\ Stored(issuer) <= x[1] + IF tpc[issuer] = "acquire" THEN StagesD ELSE UnacquiredStages
    BY <1>3
  <2> QED BY <1>1, <1>2, <2>1
<1> QED BY <1>3, <1>4, <1>5

(* A load in flight is the last one of its slot. *)
LEMMA LoadAhead ==
  ASSUME IInv, NEW x \in loading
  PROVE  /\ x = <<x[1], x[1] % StagesC>> /\ x[1] \in Nat /\ x[1] < LoadsIssued
         /\ x[2] = x[1] % StagesC /\ x[2] \in C!Index /\ x[1] \div StagesC \in Nat
         /\ C!Visits(LoadsIssued, x[2]) = (x[1] \div StagesC) + 1
         /\ Landed(x[2]) = x[1] \div StagesC
<1>1. policy \in Policies /\ LoadsInFlight /\ LoadsIssued \in Nat
  BY LoadCounts DEF IInv, Shape
<1>2. /\ x = <<x[1], x[1] % StagesC>> /\ x[1] \in Nat
      /\ x[1] < LoadsIssued /\ LoadsIssued <= x[1] + StagesC
  BY <1>1 DEF LoadsInFlight
<1>3. x[2] = x[1] % StagesC
  BY <1>2
<1>4. x[2] \in C!Index /\ x[1] \div StagesC \in Nat /\ C!Visits(LoadsIssued, x[2]) \in Nat
  BY <1>1, <1>2, <1>3, SlotVisits
<1>5. /\ C!Visits(LoadsIssued, x[2]) >= (x[1] \div StagesC) + 1
      /\ C!Visits(LoadsIssued, x[2]) <= (x[1] \div StagesC) + 1
  BY <1>1, <1>2, <1>3, SlotBeyond
<1>6. C!Visits(LoadsIssued, x[2]) = (x[1] \div StagesC) + 1
  BY <1>4, <1>5
<1>7. Landed(x[2]) = x[1] \div StagesC
  BY <1>4, <1>6 DEF Landed
<1> QED BY <1>2, <1>3, <1>4, <1>6, <1>7

(* No slot has two loads in flight. *)
LEMMA OneLoad ==
  ASSUME IInv, NEW x \in loading, NEW y \in loading, x[2] = y[2]
  PROVE  x = y
<1>1. /\ policy \in Policies
      /\ x = <<x[1], x[1] % StagesC>> /\ x[1] \in Nat /\ Landed(x[2]) = x[1] \div StagesC
      /\ y = <<y[1], y[1] % StagesC>> /\ y[1] \in Nat /\ Landed(y[2]) = y[1] \div StagesC
      /\ x[2] = x[1] % StagesC /\ y[2] = y[1] % StagesC
      /\ x[1] \div StagesC \in Nat /\ y[1] \div StagesC \in Nat
  BY LoadAhead DEF IInv, Shape
<1>2. \A m, n \in Nat : m % StagesC = n % StagesC /\ m < n => (m \div StagesC) + 1 <= n \div StagesC
  BY <1>1, SlotApart
<1>3. /\ x[1] \in Nat /\ y[1] \in Nat /\ x[1] % StagesC = y[1] % StagesC
      /\ x[1] \div StagesC = y[1] \div StagesC /\ x[1] \div StagesC \in Nat
  BY <1>1
<1>4. x[1] = y[1]
  BY <1>2, <1>3
<1> QED BY <1>1, <1>4

(* Loads that landed are loads that were issued. *)
LEMMA LandedBounds ==
  ASSUME IInv, NEW i \in C!Index
  PROVE  Landed(i) \in Nat /\ Landed(i) <= C!Visits(LoadsIssued, i) /\ C!Visits(LoadsIssued, i) \in Nat
<1>1. policy \in Policies /\ C!Visits(LoadsIssued, i) \in Nat
  BY LoadCounts, SlotVisits DEF IInv, Shape
<1>2. ASSUME NEW x \in loading, x[2] = i
      PROVE  Landed(i) \in Nat /\ Landed(i) <= C!Visits(LoadsIssued, i)
  BY <1>1, <1>2, LoadAhead
<1>3. CASE ~ \E x \in loading : x[2] = i
  BY <1>1, <1>3 DEF Landed
<1> QED BY <1>1, <1>2, <1>3

(* The chain of the slot's counts. *)
LEMMA Chain ==
  ASSUME IInv, NEW i \in C!Index, NEW l \in Lanes, NEW t \in Threads
  PROVE  /\ FullBarrier(i) /\ EmptyBarrier(i)
         /\ empty[i].phase \in Nat /\ full[i].phase \in Nat
         /\ C!Visits(Freed(t), i) \in Nat /\ C!Visits(Waited(t), i) \in Nat
         /\ C!Visits(Committed(l), i) \in Nat /\ C!Visits(Acquired(l), i) \in Nat
         /\ empty[i].phase <= C!Visits(Freed(t), i)
         /\ C!Visits(Freed(t), i) <= C!Visits(Waited(t), i)
         /\ C!Visits(Waited(t), i) <= full[i].phase
         /\ full[i].phase <= C!Visits(Committed(l), i) /\ full[i].phase <= Landed(i)
         /\ C!Visits(Committed(l), i) <= C!Visits(Acquired(l), i)
         /\ C!Visits(LoadsIssued, i) <= C!Visits(Acquired(leader), i)
         /\ C!Visits(Acquired(l), i) <= empty[i].phase + 1
         /\ C!Visits(Acquired(leader), i) <= empty[i].phase + 1
         /\ Landed(i) <= empty[i].phase + 1
<1>1. /\ policy \in Policies /\ FullBarrier(i) /\ EmptyBarrier(i)
      /\ empty[i] \in Barrier /\ full[i] \in [count : Nat, pending : Nat, tx : Int, phase : Nat]
  BY DEF IInv, Shape
<1>2. empty[i].phase \in Nat /\ full[i].phase \in Nat
  BY <1>1 DEF Barrier
<1>3. Freed(t) \in Nat /\ Waited(t) \in Nat /\ Freed(t) <= Waited(t)
  <2>1. Freed(t) \in Nat /\ Waited(t) \in Nat /\ ReadCount(t) \in Nat
    BY ThreadCounts
  <2>2. LoadNeeded => Freed(t) <= ReadCount(t) /\ ReadCount(t) <= Waited(t)
    BY ThreadOrder
  <2>3. ~LoadNeeded => Freed(t) = 0
    BY DEF Freed
  <2> QED BY <2>1, <2>2, <2>3
<1>4. /\ Acquired(l) \in Nat /\ Committed(l) \in Nat /\ Committed(l) <= Acquired(l)
      /\ Acquired(leader) \in Nat /\ LoadsIssued \in Nat /\ LoadsIssued <= Acquired(leader)
  <2>1. Acquired(l) \in Nat /\ Committed(l) \in Nat /\ lstate[l].count \in Nat
        /\ lstate[l].count <= Acquired(l) /\ Committed(l) <= lstate[l].count
    BY LaneCounts
  <2> QED BY <2>1, Actors, LaneCounts, LoadCounts
<1>5. /\ C!Visits(Freed(t), i) \in Nat /\ C!Visits(Waited(t), i) \in Nat
      /\ C!Visits(Committed(l), i) \in Nat /\ C!Visits(Acquired(l), i) \in Nat
      /\ C!Visits(Acquired(leader), i) \in Nat
      /\ C!Visits(Freed(t), i) <= C!Visits(Waited(t), i)
      /\ C!Visits(Committed(l), i) <= C!Visits(Acquired(l), i)
      /\ C!Visits(LoadsIssued, i) <= C!Visits(Acquired(leader), i)
  BY <1>1, <1>3, <1>4, SlotVisits
<1>6. empty[i].phase <= C!Visits(Freed(t), i)
  BY <1>1 DEF EmptyBarrier, CountedBy
<1>7. /\ C!Visits(Waited(t), i) <= full[i].phase
      /\ full[i].phase <= C!Visits(Committed(l), i) /\ full[i].phase <= Landed(i)
  BY <1>1 DEF FullBarrier
<1>8. C!Visits(Acquired(l), i) <= empty[i].phase + 1
      /\ C!Visits(Acquired(leader), i) <= empty[i].phase + 1
  BY <1>1, Actors DEF EmptyBarrier
<1>9. Landed(i) <= empty[i].phase + 1
  <2>1. Landed(i) \in Nat /\ Landed(i) <= C!Visits(LoadsIssued, i) /\ C!Visits(LoadsIssued, i) \in Nat
    BY LandedBounds
  <2> QED BY <2>1, <1>2, <1>5, <1>8
<1> QED BY <1>1, <1>2, <1>5, <1>6, <1>7, <1>8, <1>9

-----------------------------------------------------------------------------
(* 3. The invariant implies the safety properties.                         *)

(* A thread that reads subtile n has waited for the phase in which n       *)
(* landed.                                                                 *)
LEMMA SourceIntact == IInv => (SameLayout => SourceIsIntact)
<1> SUFFICES ASSUME IInv, SameLayout, NEW t \in Threads, tpc[t] = "read"
             PROVE  smem[SlotC(wstate[t].index)][t] = <<"C", sub[t]>>
  BY DEF SourceIsIntact
<1> DEFINE n == sub[t]
           i == n % StagesC
           q == n \div StagesC
<1>1. policy \in Policies /\ SourcesAreThere
  BY DEF IInv, Shape
<1>2. n \in Nat /\ LoadNeeded /\ ReadCount(t) = n /\ Waited(t) = n + 1
      /\ wstate[t] = C!StateAt(0, n)
  BY ThreadCounts DEF SourceCursor, ReadCount, Waited
<1>3. wstate[t].index = i
  BY <1>2, CursorFields
<1> HIDE DEF n
<1>4. i \in C!Index /\ q \in Nat /\ C!Visits(n + 1, i) = q + 1
  BY <1>1, <1>2, SlotVisits
<1>5. /\ Landed(i) >= q + 1 /\ Landed(i) \in Nat
      /\ C!Visits(LoadsIssued, i) >= q + 1
  <2> HIDE DEF i, q
  <2>1. full[i].phase \in Nat /\ full[i].phase >= q + 1 /\ full[i].phase <= Landed(i)
    BY <1>2, <1>4, Actors, Chain
  <2> QED BY <1>4, <2>1, LandedBounds
<1>6. n < LoadsIssued
  BY <1>1, <1>2, <1>5, LoadCounts, SlotBeyond
<1>7. <<n, i>> \notin loading
  <2> SUFFICES ASSUME <<n, i>> \in loading PROVE FALSE
    OBVIOUS
  <2>1. Landed(i) = q
    <3>1. \A x \in loading : Landed(x[2]) = x[1] \div StagesC
      BY LoadAhead
    <3> QED BY <3>1
  <2> QED BY <1>4, <1>5, <2>1
<1>8. smem[SlotC(i)][t] = <<"C", n>>
  BY <1>1, <1>2, <1>6, <1>7 DEF SourcesAreThere
<1> QED BY <1>3, <1>8 DEF n

(* Every piece of a slot of D is the piece of some thread. *)
LEMMA StoresIntact == IInv => StoresAreIntact
<1> SUFFICES ASSUME IInv, NEW x \in storing, NEW t \in Threads
             PROVE  smem[x[3]][t] = <<"D", x[2]>>
  BY DEF StoresAreIntact
<1>1. policy \in Policies /\ ResultsAreThere
  BY DEF IInv, Shape
<1>2. PICK u \in Threads : DPlace[u] = t
  BY <1>1, PolicyType
<1>3. x = <<x[1], x[1], SlotD(x[1] % StoreStages)>> /\ x[1] \in Nat
  BY StoresAhead
<1>4. Live(u, x[1])
  BY DEF Live
<1>5. smem[SlotD(x[1] % StoreStages)][t] = <<"D", x[1]>>
  BY <1>1, <1>2, <1>3, <1>4 DEF ResultsAreThere
<1>6. x[2] = x[1] /\ x[3] = SlotD(x[1] % StoreStages)
  BY <1>3
<1> QED BY <1>5, <1>6

(* The stores in flight are among the issuer's last StagesD. *)
LEMMA StoresBounded == IInv => IsFiniteSet(storing) /\ StoresAreBounded
<1> SUFFICES ASSUME IInv PROVE IsFiniteSet(storing) /\ Cardinality(storing) <= StagesD
  BY DEF StoresAreBounded
<1> DEFINE last == Stored(issuer)
           f == [x \in storing |-> last - x[1]]
<1>1. StagesD \in Nat /\ last \in Nat
  BY Actors, ThreadCounts, PolicyType DEF IInv, Shape
<1>2. \A x \in storing : /\ x = <<x[1], x[1], SlotD(x[1] % StoreStages)>> /\ x[1] \in Nat
                         /\ x[1] < last /\ last <= x[1] + StagesD
  BY StoresAhead
<1> HIDE DEF last
<1>3. f \in [storing -> 1 .. StagesD]
  <2> SUFFICES ASSUME NEW x \in storing PROVE last - x[1] \in 1 .. StagesD
    OBVIOUS
  <2>1. x[1] \in Nat /\ x[1] < last /\ last <= x[1] + StagesD
    BY <1>2
  <2> QED BY <1>1, <2>1
<1>4. \A x, y \in storing : f[x] = f[y] => x = y
  <2> SUFFICES ASSUME NEW x \in storing, NEW y \in storing, last - x[1] = last - y[1] PROVE x = y
    OBVIOUS
  <2>1. x[1] \in Nat /\ y[1] \in Nat
    BY <1>2
  <2>2. x[1] = y[1]
    BY <1>1, <2>1
  <2>3. /\ x = <<x[1], x[1], SlotD(x[1] % StoreStages)>>
        /\ y = <<y[1], y[1], SlotD(y[1] % StoreStages)>>
    BY <1>2
  <2> QED BY <2>2, <2>3
<1>5. IsFiniteSet(1 .. StagesD) /\ Cardinality(1 .. StagesD) = StagesD
  <2>1. Cardinality(1 .. StagesD) = IF 1 > StagesD THEN 0 ELSE StagesD - 1 + 1
    BY <1>1, FS_Interval
  <2>2. StagesD = 0 \/ StagesD > 0
    BY <1>1
  <2> QED BY <1>1, <2>1, <2>2, FS_Interval
<1> HIDE DEF f
<1>6. f \in Injection(storing, 1 .. StagesD)
  BY <1>3, <1>4 DEF Injection, IsInjective
<1> QED BY <1>5, <1>6, FS_Injection

(* The elected lane has seen every slot freed once more, so every load has *)
(* landed; the issuer has waited for its stores.                           *)
LEMMA NothingOutlives == IInv => NothingOutlivesTheBlock
<1> SUFFICES ASSUME IInv, AllExited PROVE storing = {} /\ loading = {}
  BY DEF NothingOutlivesTheBlock
<1>1. storing = {}
  <2>1. tpc[issuer] = "exit" /\ StoresInFlight
    BY Actors DEF AllExited, IInv
  <2> QED BY <2>1 DEF StoresInFlight
<1>2. policy \in Policies /\ NumSubtiles \in Nat /\ StagesC \in Nat \ {0}
  BY PolicyType DEF IInv, Shape
<1>3. lpc[leader] = "exit" /\ LaneCursor(leader) /\ LoadsIssued = Committed(leader)
      /\ lstate[leader].count \in Nat
  BY Actors, LaneCounts, LoadCounts DEF AllExited
<1>4. ASSUME NEW x \in loading PROVE FALSE
  <2>1. /\ x[1] \in Nat /\ x[1] < LoadsIssued /\ x[2] \in C!Index
        /\ C!Visits(LoadsIssued, x[2]) = (x[1] \div StagesC) + 1
        /\ Landed(x[2]) = x[1] \div StagesC /\ x[1] \div StagesC \in Nat
    BY LoadAhead
  <2>2. LoadNeeded
    BY <1>2, <1>3, <2>1 DEF LaneCursor, Committed
  <2>3. lstate[leader].count = NumSubtiles + StagesC /\ LoadsIssued = NumSubtiles
        /\ Acquired(leader) = NumSubtiles + StagesC
    BY <1>2, <1>3, <2>2 DEF LaneCursor, Committed, Acquired
  <2>4. C!Visits(Acquired(leader), x[2]) = C!Visits(LoadsIssued, x[2]) + 1
    BY <1>2, <2>1, <2>3, SlotVisits
  <2>5. /\ C!Visits(Acquired(leader), x[2]) <= empty[x[2]].phase + 1
        /\ empty[x[2]].phase \in Nat /\ full[x[2]].phase \in Nat
        /\ empty[x[2]].phase <= full[x[2]].phase /\ full[x[2]].phase <= Landed(x[2])
    BY <2>1, Actors, Chain
  <2> QED BY <2>1, <2>4, <2>5
<1> QED BY <1>1, <1>4

(* The types. *)
LEMMA Types == IInv => TypeOK
<1> SUFFICES ASSUME IInv PROVE TypeOK
  OBVIOUS
<1>1. Shape /\ policy \in Policies
  BY DEF IInv, Shape
<1>2. loading \subseteq (Nat \X C!Index)
  <2> SUFFICES ASSUME NEW x \in loading PROVE x \in Nat \X C!Index
    OBVIOUS
  <2>1. x = <<x[1], x[1] % StagesC>> /\ x[1] \in Nat /\ x[2] \in C!Index /\ x[2] = x[1] % StagesC
    BY LoadAhead
  <2> QED BY <2>1
<1>3. storing \subseteq (Nat \X Nat \X Slots)
  <2> SUFFICES ASSUME NEW x \in storing PROVE x \in Nat \X Nat \X Slots
    OBVIOUS
  <2>1. x = <<x[1], x[1], SlotD(x[1] % StoreStages)>> /\ x[1] \in Nat
    BY StoresAhead
  <2>2. SlotD(x[1] % StoreStages) \in Slots
    BY <1>1, <2>1, Cursors, SlotNames
  <2> QED BY <2>1, <2>2
<1>4. ASSUME NEW t \in Threads
      PROVE  sub[t] \in 0 .. NumSubtiles /\ left[t] \in 0 .. UnacquiredStages
  <2>1. sub[t] \in Nat /\ sub[t] <= NumSubtiles /\ left[t] \in Nat /\ FreeCursor(t)
    BY ThreadCounts
  <2>2. left[t] <= UnacquiredStages
    BY <2>1 DEF FreeCursor
  <2> QED BY <1>1, <2>1, <2>2, PolicyType
<1>5. full \in [C!Index -> [count : Nat, pending : Nat, phase : Nat, tx : Int]]
  BY <1>1 DEF Shape
<1>6. sub \in [Threads -> 0 .. NumSubtiles] /\ left \in [Threads -> 0 .. UnacquiredStages]
  BY <1>1, <1>4 DEF Shape
<1> QED BY <1>1, <1>2, <1>3, <1>5, <1>6 DEF Shape, TypeOK

-----------------------------------------------------------------------------
(* 4. What a step leaves alone.                                            *)

(* The instance of the template never changes. *)
LEMMA PolicyFrame ==
  ASSUME policy' = policy
  PROVE  /\ StagesC' = StagesC /\ StagesD' = StagesD /\ StoreStages' = StoreStages
         /\ UnacquiredStages' = UnacquiredStages /\ ReuseSmemC' = ReuseSmemC
         /\ DelayTmaStore' = DelayTmaStore /\ LoadNeeded' = LoadNeeded
         /\ Subtiles' = Subtiles /\ NumTiles' = NumTiles /\ NumSubtiles' = NumSubtiles
         /\ DPlace' = DPlace /\ C!Index' = C!Index /\ D!Index' = D!Index
         /\ C!Cursor' = C!Cursor /\ D!Cursor' = D!Cursor /\ Slots' = Slots
         /\ \A n, i : (C!Visits(n, i))' = C!Visits(n, i)
         /\ \A p, n : (C!StateAt(p, n))' = C!StateAt(p, n)
         /\ \A p, n : (D!StateAt(p, n))' = D!StateAt(p, n)
         /\ \A i : (SlotC(i))' = SlotC(i) /\ (SlotD(i))' = SlotD(i)
         /\ \A n : (FirstOfTile(n))' = FirstOfTile(n) /\ (LastOfTile(n))' = LastOfTile(n)
         /\ SameLayout' = SameLayout
<1>1. /\ StagesC' = StagesC /\ StagesD' = StagesD /\ ReuseSmemC' = ReuseSmemC
      /\ DelayTmaStore' = DelayTmaStore /\ LoadNeeded' = LoadNeeded
      /\ Subtiles' = Subtiles /\ NumTiles' = NumTiles /\ DPlace' = DPlace
  BY DEF StagesC, StagesD, ReuseSmemC, DelayTmaStore, LoadNeeded, Subtiles, NumTiles, DPlace
<1>2. StoreStages' = StoreStages /\ UnacquiredStages' = UnacquiredStages
      /\ NumSubtiles' = NumSubtiles /\ SameLayout' = SameLayout
  BY <1>1 DEF StoreStages, UnacquiredStages, NumSubtiles, SameLayout
<1>3. C!Index' = C!Index /\ D!Index' = D!Index
  BY <1>1, <1>2 DEF C!Index, D!Index
<1>4. C!Cursor' = C!Cursor /\ D!Cursor' = D!Cursor
  BY <1>3 DEF C!Cursor, D!Cursor
<1>5. \A i : (SlotC(i))' = SlotC(i) /\ (SlotD(i))' = SlotD(i)
  BY <1>1 DEF SlotC, SlotD
<1>6. Slots' = Slots
  BY <1>3, <1>5 DEF Slots
<1>7. \A n, i : (C!Visits(n, i))' = C!Visits(n, i)
  BY <1>1 DEF C!Visits
<1>8. \A p, n : (C!StateAt(p, n))' = C!StateAt(p, n)
  BY <1>1 DEF C!StateAt
<1>9. \A p, n : (D!StateAt(p, n))' = D!StateAt(p, n)
  BY <1>2 DEF D!StateAt
<1>10. \A n : (FirstOfTile(n))' = FirstOfTile(n) /\ (LastOfTile(n))' = LastOfTile(n)
  BY <1>1 DEF FirstOfTile, LastOfTile
<1> QED BY <1>1, <1>2, <1>3, <1>4, <1>5, <1>6, <1>7, <1>8, <1>9, <1>10

(* A lane that takes no step. *)
LEMMA LaneFrame ==
  ASSUME policy' = policy, NEW l, lpc'[l] = lpc[l], lstate'[l] = lstate[l]
  PROVE  /\ (Acquired(l))' = Acquired(l) /\ (Committed(l))' = Committed(l)
         /\ LaneCursor(l) => (LaneCursor(l))'
<1>1. NumSubtiles' = NumSubtiles /\ LoadNeeded' = LoadNeeded /\ StagesC' = StagesC
      /\ \A p, n : (C!StateAt(p, n))' = C!StateAt(p, n)
  BY PolicyFrame
<1>2. (Acquired(l))' = Acquired(l) /\ (Committed(l))' = Committed(l)
  BY <1>1 DEF Acquired, Committed
<1>3. LaneCursor(l) => (LaneCursor(l))'
  BY <1>1 DEF LaneCursor
<1> QED BY <1>2, <1>3

(* The loads, when the elected lane takes no step. *)
LEMMA LoadFrame ==
  ASSUME policy' = policy, lpc'[leader] = lpc[leader], lstate'[leader] = lstate[leader]
  PROVE  /\ LoadsIssued' = LoadsIssued /\ Announced' = Announced
         /\ loading' = loading => (\A i : (Landed(i))' = Landed(i)) /\ (LoadsInFlight => LoadsInFlight')
<1>1. (Committed(leader))' = Committed(leader) /\ StagesC' = StagesC
      /\ \A n, i : (C!Visits(n, i))' = C!Visits(n, i)
  BY LaneFrame, PolicyFrame
<1>2. LoadsIssued' = LoadsIssued /\ Announced' = Announced
  BY <1>1 DEF LoadsIssued, Announced
<1>3. ASSUME loading' = loading PROVE \A i : (Landed(i))' = Landed(i)
  BY <1>1, <1>2, <1>3 DEF Landed
<1>4. ASSUME loading' = loading, LoadsInFlight PROVE LoadsInFlight'
  BY <1>1, <1>2, <1>4 DEF LoadsInFlight
<1> QED BY <1>2, <1>3, <1>4

(* A math thread that takes no step. *)
LEMMA ThreadFrame ==
  ASSUME policy' = policy, NEW t, tpc'[t] = tpc[t], sub'[t] = sub[t], written'[t] = written[t],
         wstate'[t] = wstate[t], rstate'[t] = rstate[t], sstate'[t] = sstate[t],
         issued'[t] = issued[t], left'[t] = left[t]
  PROVE  /\ (Waited(t))' = Waited(t) /\ (ReadCount(t))' = ReadCount(t) /\ (Freed(t))' = Freed(t)
         /\ (Wrote(t))' = Wrote(t) /\ (Stored(t))' = Stored(t) /\ (Passed(t))' = Passed(t)
         /\ SourceCursor(t) => (SourceCursor(t))'
         /\ StoreCursor(t) => (StoreCursor(t))'
         /\ FreeCursor(t) => (FreeCursor(t))'
<1>1. /\ NumSubtiles' = NumSubtiles /\ LoadNeeded' = LoadNeeded /\ ReuseSmemC' = ReuseSmemC
      /\ DelayTmaStore' = DelayTmaStore /\ UnacquiredStages' = UnacquiredStages
      /\ \A p, n : (C!StateAt(p, n))' = C!StateAt(p, n)
      /\ \A p, n : (D!StateAt(p, n))' = D!StateAt(p, n)
      /\ \A n : (FirstOfTile(n))' = FirstOfTile(n) /\ (LastOfTile(n))' = LastOfTile(n)
  BY PolicyFrame
<1>2. (Waited(t))' = Waited(t) /\ (ReadCount(t))' = ReadCount(t) /\ (Freed(t))' = Freed(t)
      /\ (Wrote(t))' = Wrote(t) /\ (Stored(t))' = Stored(t)
  BY <1>1 DEF Waited, ReadCount, Freed, Wrote, Stored
<1>3. (Passed(t))' = Passed(t)
  BY <1>2 DEF Passed
<1>4. (Subject(t))' = Subject(t)
  BY DEF Subject
<1>5. SourceCursor(t) => (SourceCursor(t))'
  BY <1>1, <1>2 DEF SourceCursor
<1>6. StoreCursor(t) => (StoreCursor(t))'
  BY <1>1, <1>2, <1>4 DEF StoreCursor
<1>7. FreeCursor(t) => (FreeCursor(t))'
  BY <1>1, <1>2 DEF FreeCursor
<1> QED BY <1>2, <1>3, <1>5, <1>6, <1>7

(* A full barrier that nobody arrives at. *)
LEMMA FullFrame ==
  ASSUME policy' = policy, NEW i, FullBarrier(i), full'[i] = full[i],
         \A l \in Lanes : C!Visits((Committed(l))', i) = C!Visits(Committed(l), i),
         C!Visits(Announced', i) - (Landed(i))' = C!Visits(Announced, i) - Landed(i),
         full[i].phase <= (Landed(i))',
         \A t \in Threads : C!Visits((Waited(t))', i) <= full[i].phase
  PROVE  (FullBarrier(i))'
<1>1. \A n, j : (C!Visits(n, j))' = C!Visits(n, j)
  BY PolicyFrame
<1>2. {l \in Lanes : C!Visits((Committed(l))', i) = full[i].phase}
        = {l \in Lanes : C!Visits(Committed(l), i) = full[i].phase}
  OBVIOUS
<1> QED BY <1>1, <1>2 DEF FullBarrier

(* An empty barrier that nobody arrives at. *)
LEMMA EmptyFrame ==
  ASSUME policy' = policy, NEW i, EmptyBarrier(i), empty'[i] = empty[i],
         \A t \in Threads : C!Visits((Freed(t))', i) = C!Visits(Freed(t), i),
         \A l \in Lanes : C!Visits((Acquired(l))', i) <= empty[i].phase + 1
  PROVE  (EmptyBarrier(i))'
<1>1. \A n, j : (C!Visits(n, j))' = C!Visits(n, j)
  BY PolicyFrame
<1>2. ([t \in Threads |-> C!Visits(Freed(t), i)])' = [t \in Threads |-> C!Visits(Freed(t), i)]
  BY <1>1
<1> QED BY <1>1, <1>2 DEF EmptyBarrier, CountedBy

(* Only the load warp or a copy steps. *)
LEMMA ThreadsStay ==
  ASSUME IInv, policy' = policy, UNCHANGED threads
  PROVE  /\ \A t \in Threads : (SourceCursor(t))' /\ (StoreCursor(t))' /\ (FreeCursor(t))'
         /\ \A t \in Threads : /\ (Waited(t))' = Waited(t) /\ (ReadCount(t))' = ReadCount(t)
                               /\ (Freed(t))' = Freed(t) /\ (Wrote(t))' = Wrote(t)
                               /\ (Stored(t))' = Stored(t)
         /\ InStep'
<1>1. ASSUME NEW t \in Threads
      PROVE  /\ (SourceCursor(t))' /\ (StoreCursor(t))' /\ (FreeCursor(t))'
             /\ (Waited(t))' = Waited(t) /\ (ReadCount(t))' = ReadCount(t)
             /\ (Freed(t))' = Freed(t) /\ (Wrote(t))' = Wrote(t)
             /\ (Stored(t))' = Stored(t) /\ (Passed(t))' = Passed(t)
  BY ThreadFrame DEF IInv, threads
<1>2. InStep'
  BY <1>1 DEF IInv, InStep
<1> QED BY <1>1, <1>2

(* Only a math thread or a store steps. *)
LEMMA LanesStay ==
  ASSUME IInv, policy' = policy, UNCHANGED <<lanes, loading>>
  PROVE  /\ \A l \in Lanes : (LaneCursor(l))'
         /\ \A l \in Lanes : (Acquired(l))' = Acquired(l) /\ (Committed(l))' = Committed(l)
         /\ LoadsIssued' = LoadsIssued /\ Announced' = Announced
         /\ \A i : (Landed(i))' = Landed(i)
         /\ LoadsInFlight'
<1>1. \A l \in Lanes : (LaneCursor(l))' /\ (Acquired(l))' = Acquired(l) /\ (Committed(l))' = Committed(l)
  BY LaneFrame DEF IInv, lanes
<1>2. /\ LoadsIssued' = LoadsIssued /\ Announced' = Announced
      /\ \A i : (Landed(i))' = Landed(i)
      /\ LoadsInFlight'
  BY LoadFrame DEF IInv, lanes
<1> QED BY <1>1, <1>2

(* The stores, when neither the issuer steps nor a store is done. *)
LEMMA StoresStay ==
  ASSUME StoresInFlight, policy' = policy, storing' = storing,
         (Stored(issuer))' = Stored(issuer), tpc'[issuer] = tpc[issuer]
  PROVE  StoresInFlight'
<1>1. StagesD' = StagesD /\ UnacquiredStages' = UnacquiredStages /\ StoreStages' = StoreStages
      /\ \A i : (SlotD(i))' = SlotD(i)
  BY PolicyFrame
<1> QED BY <1>1 DEF StoresInFlight

(* Pieces of C that nobody writes over. *)
LEMMA SourcesStay ==
  ASSUME IInv, policy' = policy, smem' = smem, loading' = loading, LoadsIssued' = LoadsIssued,
         \A t \in Threads : (ReadCount(t))' \in Nat /\ ReadCount(t) <= (ReadCount(t))'
  PROVE  SameLayout' => SourcesAreThere'
<1>1. StagesC' = StagesC /\ SameLayout' = SameLayout /\ \A i : (SlotC(i))' = SlotC(i)
  BY PolicyFrame
<1>2. \A t \in Threads : ReadCount(t) \in Nat
  BY ThreadCounts
<1>3. SameLayout => SourcesAreThere
  BY DEF IInv
<1>4. ASSUME SourcesAreThere, NEW t \in Threads, NEW n \in Nat, (ReadCount(t))' <= n,
             n < LoadsIssued, <<n, n % StagesC>> \notin loading
      PROVE  smem[SlotC(n % StagesC)][t] = <<"C", n>>
  <2>1. ReadCount(t) <= n
    BY <1>2, <1>4
  <2> QED BY <1>4, <2>1 DEF SourcesAreThere
<1> QED BY <1>1, <1>3, <1>4 DEF SourcesAreThere

(* Pieces of D that nobody writes over. *)
LEMMA ResultsStay ==
  ASSUME IInv, policy' = policy, smem' = smem,
         \A t \in Threads : \A n \in Nat : (Live(t, n))' => Live(t, n)
  PROVE  ResultsAreThere'
<1>1. StoreStages' = StoreStages /\ DPlace' = DPlace /\ \A i : (SlotD(i))' = SlotD(i)
  BY PolicyFrame
<1>2. ResultsAreThere
  BY DEF IInv
<1>3. \A t \in Threads : \A n \in Nat :
        (Live(t, n))' => smem[SlotD(n % StoreStages)][DPlace[t]] = <<"D", n>>
  BY <1>2 DEF ResultsAreThere
<1> QED BY <1>1, <1>3 DEF ResultsAreThere

(* The pieces that must be there, when stores end or nothing is written. *)
LEMMA LiveStays ==
  ASSUME storing' \subseteq storing, (Stored(issuer))' = Stored(issuer), NEW t,
         (Wrote(t))' = Wrote(t), NEW n
  PROVE  (Live(t, n))' => Live(t, n)
  BY DEF Live

-----------------------------------------------------------------------------
(* 5. Slots that are free for a load.                                      *)

(* A round further, the same slot. *)
LEMMA SlotRound ==
  ASSUME policy \in Policies, NEW n \in Nat
  PROVE  (n + StagesC) % StagesC = n % StagesC
<1> DEFINE m == n + StagesC
<1>1. m \in Nat /\ StagesC \in Nat \ {0}
  BY PolicyType
<1>2. C!Visits(n, n % StagesC) = n \div StagesC /\ n % StagesC \in C!Index /\ n \div StagesC \in Nat
  BY SlotVisits
<1>3. C!Visits(n + 1, n % StagesC) = (n \div StagesC) + 1
  BY <1>2, SlotVisits
<1>4. C!Visits(n + 1 + StagesC, n % StagesC) = (n \div StagesC) + 2
      /\ C!Visits(n + StagesC, n % StagesC) = (n \div StagesC) + 1
  <2>1. n + 1 \in Nat
    OBVIOUS
  <2> QED BY <1>2, <1>3, <2>1, SlotVisits
<1>5. C!Visits(m + 1, n % StagesC)
        = C!Visits(m, n % StagesC) + IF n % StagesC = m % StagesC THEN 1 ELSE 0
  <2> HIDE DEF m
  <2> QED BY <1>1, <1>2, SlotVisits
<1>6. m + 1 = n + 1 + StagesC
  BY <1>1
<1> QED BY <1>2, <1>4, <1>5, <1>6

(* A lane goes by the parity of an empty barrier only when the threads     *)
(* gave the slot back as often as it was loaded.                           *)
LEMMA LaneWaitExact ==
  ASSUME IInv, NEW l \in Lanes, lpc[l] = "next",
         PhaseDone(empty[lstate[l].index], lstate[l].phase)
  PROVE  LET n == lstate[l].count  i == n % StagesC
         IN  /\ n \in Nat /\ i \in C!Index /\ Acquired(l) = n
             /\ C!Visits(n, i) \in Nat /\ empty[i].phase \in Nat
             /\ C!Visits(n, i) <= empty[i].phase
<1> DEFINE n == lstate[l].count
           i == n % StagesC
           q == n \div StagesC
           e == empty[i].phase
<1>1. policy \in Policies /\ n \in Nat /\ Acquired(l) = n
      /\ lstate[l] = C!StateAt(1, n) /\ Committed(l) \in Nat /\ Committed(l) <= n
  BY LaneCounts DEF IInv, Shape, Acquired
<1>2. lstate[l].index = i /\ lstate[l].phase = (1 + q) % 2
  BY <1>1, CursorFields
<1>3. i \in C!Index /\ q \in Nat /\ C!Visits(n, i) = q
  BY <1>1, SlotVisits
<1>4. C!Visits(Committed(l), i) <= q
  <2>1. C!Visits(Committed(l), i) <= C!Visits(n, i)
    BY <1>1, <1>3, SlotVisits
  <2> QED BY <1>3, <2>1
<1>5. e \in Nat /\ e <= q /\ q <= e + 1
  <2> HIDE DEF n, i, q
  <2>1. /\ C!Visits(Acquired(l), i) <= e + 1 /\ e \in Nat /\ full[i].phase \in Nat
        /\ e <= full[i].phase /\ full[i].phase <= C!Visits(Committed(l), i)
        /\ C!Visits(Committed(l), i) \in Nat
    BY <1>3, Actors, Chain
  <2> QED BY <1>1, <1>3, <1>4, <2>1
<1>6. e % 2 # (1 + q) % 2
  BY <1>2 DEF PhaseDone
<1>7. e = q
  <2> HIDE DEF n, i, q, e
  <2>1. e = q \/ q = e + 1
    BY <1>3, <1>5
  <2>2. q = e + 1 => (1 + q) % 2 = e % 2
    BY <1>5
  <2> QED BY <1>6, <2>1, <2>2
<1> HIDE DEF q
<1> QED BY <1>1, <1>3, <1>5, <1>7

(* A lane that is loading: both barriers of its slot are in its round.     *)
LEMMA Inside ==
  ASSUME IInv, NEW l \in Lanes, lpc[l] \in {"copy", "expect", "commit"}
  PROVE  LET n == lstate[l].count  i == n % StagesC  q == n \div StagesC
         IN  /\ n \in Nat /\ i \in C!Index /\ q \in Nat /\ n < NumSubtiles
             /\ lstate[l].index = i /\ LoadNeeded
             /\ Acquired(l) = n + 1 /\ Committed(l) = n
             /\ C!Visits(n, i) = q /\ C!Visits(n + 1, i) = q + 1
             /\ empty[i].phase = q /\ full[i].phase = q
<1> DEFINE n == lstate[l].count
           i == n % StagesC
           q == n \div StagesC
<1>1. policy \in Policies /\ n \in Nat /\ lstate[l] = C!StateAt(1, n) /\ LaneCursor(l)
  BY LaneCounts DEF IInv, Shape
<1>2. n < NumSubtiles /\ LoadNeeded /\ Acquired(l) = n + 1 /\ Committed(l) = n
  <2>1. LoadNeeded \in BOOLEAN
    BY <1>1, PolicyType
  <2> QED BY <1>1, <2>1 DEF LaneCursor, Acquired, Committed
<1>3. lstate[l].index = i
  BY <1>1, CursorFields
<1>4. i \in C!Index /\ q \in Nat /\ C!Visits(n, i) = q /\ C!Visits(n + 1, i) = q + 1
  BY <1>1, SlotVisits
<1>5. empty[i].phase = q /\ full[i].phase = q
  <2> HIDE DEF n, i, q
  <2>1. /\ C!Visits(Acquired(l), i) <= empty[i].phase + 1
        /\ empty[i].phase \in Nat /\ full[i].phase \in Nat
        /\ empty[i].phase <= full[i].phase /\ full[i].phase <= C!Visits(Committed(l), i)
    BY <1>4, Actors, Chain
  <2> QED BY <1>2, <1>4, <2>1
<1> QED BY <1>1, <1>2, <1>3, <1>4, <1>5

(* In a slot that the threads gave back for subtile n there is no piece of *)
(* C of an earlier subtile that some thread has not read ...               *)
LEMMA NoSourceLeft ==
  ASSUME IInv, LoadNeeded, NEW n \in Nat, empty[n % StagesC].phase >= n \div StagesC,
         NEW t \in Threads, NEW m \in Nat, m % StagesC = n % StagesC, m < n
  PROVE  m < Freed(t) /\ m < ReadCount(t)
<1> DEFINE i == n % StagesC
           q == n \div StagesC
<1>1. policy \in Policies /\ i \in C!Index /\ q \in Nat
  BY SlotVisits DEF IInv, Shape
<1>2. Freed(t) \in Nat /\ ReadCount(t) \in Nat /\ Freed(t) <= ReadCount(t)
  BY ThreadCounts, ThreadOrder
<1>3. (m \div StagesC) + 1 <= q /\ m \div StagesC \in Nat
  BY <1>1, SlotApart, SlotVisits
<1>4. empty[i].phase \in Nat /\ C!Visits(Freed(t), i) \in Nat
      /\ empty[i].phase <= C!Visits(Freed(t), i)
  <2> HIDE DEF i
  <2> QED BY <1>1, Actors, Chain
<1>5. C!Visits(Freed(t), m % StagesC) >= (m \div StagesC) + 1
  <2> HIDE DEF q
  <2>1. empty[i].phase >= q
    BY DEF q
  <2> QED BY <1>1, <1>3, <1>4, <2>1
<1>6. m < Freed(t)
  BY <1>1, <1>2, <1>5, SlotBeyond
<1> QED BY <1>2, <1>6

(* ... and, before subtile n has landed, no piece of D that must stay.     *)
LEMMA NoResultLeft ==
  ASSUME IInv, LoadNeeded, ReuseSmemC, NEW n \in Nat,
         empty[n % StagesC].phase >= n \div StagesC, full[n % StagesC].phase <= n \div StagesC,
         NEW t \in Threads, NEW k \in Nat, Live(t, k)
  PROVE  k % StagesC # n % StagesC
<1> SUFFICES ASSUME k % StagesC = n % StagesC PROVE FALSE
  OBVIOUS
<1> DEFINE i == n % StagesC
           q == n \div StagesC
<1>1. policy \in Policies /\ i \in C!Index /\ q \in Nat
  BY SlotVisits DEF IInv, Shape
<1>2. ASSUME NEW u \in Threads
      PROVE  /\ Freed(u) \in Nat /\ Stored(u) \in Nat /\ Wrote(u) \in Nat /\ Waited(u) \in Nat
             /\ Freed(u) <= Stored(u) /\ Stored(u) <= Wrote(u) /\ Wrote(u) <= Waited(u)
  BY ThreadCounts, ThreadOrder
<1>3. Freed(issuer) <= k
  <2>1. CASE Stored(issuer) <= k
    BY <1>2, <2>1, Actors
  <2>2. CASE \E x \in storing : x[1] = k
    BY <2>2, StoresAhead
  <2> QED BY <2>1, <2>2 DEF Live
<1>4. ~(k < n)
  <2> SUFFICES ASSUME k < n PROVE FALSE
    OBVIOUS
  <2>1. k < Freed(issuer)
    BY Actors, NoSourceLeft
  <2> QED BY <1>2, <1>3, <2>1, Actors
<1>5. k \div StagesC >= q
  <2>1. k = n \/ n < k
    BY <1>4
  <2>2. n < k => (n \div StagesC) + 1 <= k \div StagesC
    BY <1>1, SlotApart
  <2>3. k \div StagesC \in Nat /\ (k = n => k \div StagesC = q)
    BY <1>1, SlotVisits
  <2> HIDE DEF i
  <2> QED BY <1>1, <2>1, <2>2, <2>3
<1>6. PICK u \in Threads : k < Waited(u)
  <2>1. CASE k < Wrote(t)
    BY <1>2, <2>1
  <2>2. CASE \E x \in storing : x[1] = k
    <3>1. k < Stored(issuer)
      BY <2>2, StoresAhead
    <3> QED BY <1>2, <3>1, Actors
  <2> QED BY <2>1, <2>2 DEF Live
<1>7. C!Visits(Waited(u), k % StagesC) >= (k \div StagesC) + 1
  BY <1>1, <1>2, <1>6, SlotBeyond
<1>8. C!Visits(Waited(u), i) <= full[i].phase /\ full[i].phase \in Nat
      /\ C!Visits(Waited(u), i) \in Nat
  <2> HIDE DEF i
  <2> QED BY <1>1, Actors, Chain
<1>9. k \div StagesC \in Nat /\ full[i].phase <= q
  BY <1>1, SlotVisits
<1> HIDE DEF q
<1> QED BY <1>1, <1>5, <1>7, <1>8, <1>9

-----------------------------------------------------------------------------
(* 6. The load warp and its copies preserve the invariant.                 *)

(* A lane moves, and nothing is loaded or announced. *)
LEMMA LaneMoves ==
  ASSUME IInv, policy' = policy,
         UNCHANGED <<full, empty, smem, loading, storing, threads>>, NEW l \in Lanes,
         \A k \in Lanes : k # l => lpc'[k] = lpc[k] /\ lstate'[k] = lstate[k],
         lpc' \in [Lanes -> {"next", "copy", "expect", "commit", "exit"}],
         lstate' \in [Lanes -> C!Cursor], (LaneCursor(l))', (Committed(l))' = Committed(l),
         LoadsIssued' = LoadsIssued, Announced' = Announced,
         \A i \in C!Index : C!Visits((Acquired(l))', i) <= empty[i].phase + 1
  PROVE  IInv'
<1>1. /\ \A t \in Threads : (SourceCursor(t))' /\ (StoreCursor(t))' /\ (FreeCursor(t))'
      /\ \A t \in Threads : /\ (Waited(t))' = Waited(t) /\ (ReadCount(t))' = ReadCount(t)
                            /\ (Freed(t))' = Freed(t) /\ (Wrote(t))' = Wrote(t)
                            /\ (Stored(t))' = Stored(t)
      /\ InStep'
  BY ThreadsStay
<1>2. C!Index' = C!Index /\ StagesC' = StagesC /\ \A n, i : (C!Visits(n, i))' = C!Visits(n, i)
  BY PolicyFrame
<1>3. Shape'
  BY PolicyFrame DEF IInv, Shape, threads
<1>4. \A k \in Lanes : (LaneCursor(k))' /\ (Committed(k))' = Committed(k)
        /\ (k # l => (Acquired(k))' = Acquired(k))
  <2>1. ASSUME NEW k \in Lanes, k # l
        PROVE  (LaneCursor(k))' /\ (Committed(k))' = Committed(k) /\ (Acquired(k))' = Acquired(k)
    BY <2>1, LaneFrame DEF IInv
  <2> QED BY <2>1
<1>5. \A i : (Landed(i))' = Landed(i)
  BY <1>2 DEF Landed
<1>6. ASSUME NEW i \in C!Index PROVE (FullBarrier(i))' /\ (EmptyBarrier(i))'
  <2>1. FullBarrier(i) /\ EmptyBarrier(i)
    BY DEF IInv
  <2>2. (FullBarrier(i))'
    <3>1. full[i].phase <= Landed(i) /\ \A t \in Threads : C!Visits(Waited(t), i) <= full[i].phase
      BY <2>1 DEF FullBarrier
    <3> QED BY <1>1, <1>4, <1>5, <2>1, <3>1, FullFrame
  <2>3. (EmptyBarrier(i))'
    <3>1. \A k \in Lanes : C!Visits((Acquired(k))', i) <= empty[i].phase + 1
      BY <1>4, <2>1 DEF EmptyBarrier
    <3> QED BY <1>1, <2>1, <3>1, EmptyFrame
  <2> QED BY <2>2, <2>3
<1>7. LoadsInFlight'
  BY <1>2 DEF IInv, LoadsInFlight
<1>8. StoresInFlight'
  BY <1>1, StoresStay, Actors DEF IInv, threads
<1>9. SameLayout' => SourcesAreThere'
  BY <1>1, SourcesStay, ThreadCounts
<1>10. ResultsAreThere'
  BY <1>1, Actors, ResultsStay, LiveStays
<1> QED BY <1>1, <1>2, <1>3, <1>4, <1>6, <1>7, <1>8, <1>9, <1>10 DEF IInv

(* producer_acquire *)
LEMMA AcquireSlotInv ==
  ASSUME IInv, NEW l \in Lanes, AcquireSlot(l)
  PROVE  IInv'
<1> DEFINE n == lstate[l].count
           i == n % StagesC
<1>1. /\ lpc[l] = "next" /\ n < NumSubtiles
      /\ PhaseDone(empty[lstate[l].index], lstate[l].phase)
      /\ lpc' = [lpc EXCEPT ![l] = IF l = leader THEN "copy" ELSE "commit"]
      /\ policy' = policy /\ lstate' = lstate
      /\ UNCHANGED <<full, empty, smem, loading, storing, threads>>
  BY DEF AcquireSlot
<1>2. /\ n \in Nat /\ i \in C!Index /\ Acquired(l) = n
      /\ C!Visits(n, i) \in Nat /\ empty[i].phase \in Nat /\ C!Visits(n, i) <= empty[i].phase
  BY <1>1, LaneWaitExact
<1>3. /\ policy \in Policies /\ lpc \in [Lanes -> {"next", "copy", "expect", "commit", "exit"}]
      /\ lstate \in [Lanes -> C!Cursor] /\ LaneCursor(l)
  BY DEF IInv, Shape
<1>4. lpc'[l] = (IF l = leader THEN "copy" ELSE "commit")
      /\ \A k \in Lanes : k # l => lpc'[k] = lpc[k] /\ lstate'[k] = lstate[k]
  BY <1>1, <1>3
<1>5. /\ NumSubtiles' = NumSubtiles /\ LoadNeeded' = LoadNeeded /\ StagesC' = StagesC
      /\ \A p, m : (C!StateAt(p, m))' = C!StateAt(p, m)
      /\ NumSubtiles \in Nat /\ StagesC \in Nat \ {0}
  BY <1>1, <1>3, PolicyFrame, PolicyType
<1>6. (LaneCursor(l))'
  <2>1. LoadNeeded
    BY <1>1, <1>3 DEF LaneCursor
  <2> QED BY <1>1, <1>2, <1>3, <1>4, <1>5, <2>1 DEF LaneCursor
<1>7. (Committed(l))' = Committed(l) /\ (Acquired(l))' = n + 1
  BY <1>1, <1>4, <1>5 DEF Committed, Acquired
<1>8. LoadsIssued' = LoadsIssued /\ Announced' = Announced
  <2>1. CASE l = leader
    BY <1>1, <1>4, <1>7, <2>1 DEF LoadsIssued, Announced
  <2>2. CASE l # leader
    BY <1>1, <1>4, <2>2, Actors, LoadFrame
  <2> QED BY <2>1, <2>2
<1>9. ASSUME NEW j \in C!Index PROVE C!Visits((Acquired(l))', j) <= empty[j].phase + 1
  <2>1. C!Visits(n + 1, j) = C!Visits(n, j) + IF j = i THEN 1 ELSE 0
    BY <1>2, <1>3, SlotVisits
  <2>2. C!Visits(n, j) \in Nat /\ empty[j].phase \in Nat /\ C!Visits(n, j) <= empty[j].phase + 1
    <3> HIDE DEF n
    <3> QED BY <1>2, Actors, Chain
  <2> HIDE DEF n, i
  <2> QED BY <1>2, <1>7, <2>1, <2>2
<1>10. lpc' \in [Lanes -> {"next", "copy", "expect", "commit", "exit"}] /\ lstate' \in [Lanes -> C!Cursor]
  BY <1>1, <1>3
<1> HIDE DEF n, i
<1> QED BY <1>1, <1>4, <1>6, <1>7, <1>8, <1>9, <1>10, LaneMoves

(* load_tail *)
LEMMA LoadTailInv ==
  ASSUME IInv, NEW l \in Lanes, LoadTail(l)
  PROVE  IInv'
<1> DEFINE n == lstate[l].count
           i == n % StagesC
<1>1. /\ lpc[l] = "next" /\ n >= NumSubtiles
      /\ policy' = policy
      /\ UNCHANGED <<full, empty, smem, loading, storing, threads>>
  BY DEF LoadTail
<1>2. /\ policy \in Policies /\ lpc \in [Lanes -> {"next", "copy", "expect", "commit", "exit"}]
      /\ lstate \in [Lanes -> C!Cursor] /\ LaneCursor(l) /\ lstate[l] = C!StateAt(1, n) /\ n \in Nat
  BY LaneCounts DEF IInv, Shape
<1>3. /\ NumSubtiles' = NumSubtiles /\ LoadNeeded' = LoadNeeded /\ StagesC' = StagesC
      /\ \A p, m : (C!StateAt(p, m))' = C!StateAt(p, m)
      /\ NumSubtiles \in Nat /\ StagesC \in Nat \ {0} /\ LoadNeeded \in BOOLEAN
  BY <1>1, <1>2, PolicyFrame, PolicyType
<1>4. n <= NumSubtiles + (IF l = leader THEN StagesC ELSE 0) /\ LoadNeeded
  BY <1>1, <1>2 DEF LaneCursor
<1>5. CASE l # leader \/ n = NumSubtiles + StagesC
  <2>1. lpc' = [lpc EXCEPT ![l] = "exit"] /\ lstate' = lstate
    BY <1>5 DEF LoadTail
  <2>2. lpc'[l] = "exit" /\ \A k \in Lanes : k # l => lpc'[k] = lpc[k] /\ lstate'[k] = lstate[k]
    BY <1>2, <2>1
  <2>3. (LaneCursor(l))'
    BY <1>1, <1>2, <1>3, <1>4, <1>5, <2>1, <2>2 DEF LaneCursor
  <2>4. (Committed(l))' = Committed(l) /\ (Acquired(l))' = Acquired(l)
    BY <1>1, <1>3, <2>1, <2>2 DEF Committed, Acquired
  <2>5. LoadsIssued' = LoadsIssued /\ Announced' = Announced
    <3>1. CASE l = leader
      BY <1>1, <2>2, <2>4, <3>1 DEF LoadsIssued, Announced
    <3>2. CASE l # leader
      BY <1>1, <2>2, <3>2, Actors, LoadFrame
    <3> QED BY <3>1, <3>2
  <2>6. \A j \in C!Index : C!Visits((Acquired(l))', j) <= empty[j].phase + 1
    BY <2>4, Actors, Chain
  <2>7. lpc' \in [Lanes -> {"next", "copy", "expect", "commit", "exit"}] /\ lstate' \in [Lanes -> C!Cursor]
    BY <1>2, <2>1
  <2> HIDE DEF n, i
  <2> QED BY <1>1, <2>2, <2>3, <2>4, <2>5, <2>6, <2>7, LaneMoves
<1>6. CASE ~(l # leader \/ n = NumSubtiles + StagesC)
  <2>1. /\ PhaseDone(empty[lstate[l].index], lstate[l].phase)
        /\ lstate' = [lstate EXCEPT ![l] = C!Inc(@)] /\ lpc' = lpc /\ l = leader
    BY <1>6 DEF LoadTail
  <2>2. /\ i \in C!Index /\ Acquired(l) = n
        /\ C!Visits(n, i) \in Nat /\ empty[i].phase \in Nat /\ C!Visits(n, i) <= empty[i].phase
    BY <1>1, <2>1, LaneWaitExact
  <2>3. lstate'[l] = C!StateAt(1, n + 1) /\ lstate'[l].count = n + 1 /\ C!StateAt(1, n + 1) \in C!Cursor
        /\ \A k \in Lanes : k # l => lpc'[k] = lpc[k] /\ lstate'[k] = lstate[k]
    <3>1. C!Inc(C!StateAt(1, n)) = C!StateAt(1, n + 1)
      BY <1>2, Cursors
    <3>2. lstate'[l] = C!StateAt(1, n + 1)
          /\ \A k \in Lanes : k # l => lpc'[k] = lpc[k] /\ lstate'[k] = lstate[k]
      BY <1>2, <2>1, <3>1
    <3>3. n + 1 \in Nat
      BY <1>2
    <3> HIDE DEF n
    <3> QED BY <1>2, <3>2, <3>3, Cursors, CursorFields
  <2> HIDE DEF n
  <2>4. (LaneCursor(l))'
    <3>1. n + 1 <= NumSubtiles + StagesC
      BY <1>2, <1>3, <1>4, <1>6
    <3> QED BY <1>1, <1>2, <1>3, <1>4, <2>1, <2>3, <3>1 DEF LaneCursor
  <2>5. (Committed(l))' = Committed(l) /\ (Acquired(l))' = n + 1
    BY <1>1, <1>2, <1>3, <2>1, <2>3 DEF Committed, Acquired, n
  <2>6. LoadsIssued' = LoadsIssued /\ Announced' = Announced
    BY <1>1, <2>1, <2>5 DEF LoadsIssued, Announced
  <2>7. ASSUME NEW j \in C!Index PROVE C!Visits((Acquired(l))', j) <= empty[j].phase + 1
    <3>1. C!Visits(n + 1, j) = C!Visits(n, j) + IF j = i THEN 1 ELSE 0
      BY <1>2, SlotVisits
    <3>2. C!Visits(n, j) \in Nat /\ empty[j].phase \in Nat /\ C!Visits(n, j) <= empty[j].phase + 1
      BY <2>2, Actors, Chain
    <3> HIDE DEF i
    <3> QED BY <2>2, <2>5, <3>1, <3>2
  <2>8. lpc' \in [Lanes -> {"next", "copy", "expect", "commit", "exit"}] /\ lstate' \in [Lanes -> C!Cursor]
    BY <1>2, <2>1, <2>3
  <2> QED BY <1>1, <2>3, <2>4, <2>5, <2>6, <2>7, <2>8, LaneMoves
<1> QED BY <1>5, <1>6

(* The slots of shared memory are written one at a time. *)
LEMMA SlotWrite ==
  ASSUME IInv, NEW i \in C!Index, NEW g, smem' = [smem EXCEPT ![SlotC(i)] = g]
  PROVE  /\ smem'[SlotC(i)] = g /\ DOMAIN smem' = Slots
         /\ \A s \in Slots : s # SlotC(i) => smem'[s] = smem[s]
<1>1. DOMAIN smem = Slots /\ SlotC(i) \in Slots
  BY SlotNames DEF IInv, Shape
<1>2. smem'[SlotC(i)] = g
  BY <1>1
<1>3. \A s \in Slots : s # SlotC(i) => smem'[s] = smem[s]
  BY <1>1
<1>4. DOMAIN smem' = Slots
  BY <1>1
<1> QED BY <1>2, <1>3, <1>4

(* A load writes over no piece of D that must stay. *)
LEMMA ResultsAvoidLoad ==
  ASSUME IInv, LoadNeeded, NEW n \in Nat,
         empty[n % StagesC].phase >= n \div StagesC, full[n % StagesC].phase <= n \div StagesC,
         policy' = policy, UNCHANGED threads, storing' = storing,
         NEW g, smem' = [smem EXCEPT ![SlotC(n % StagesC)] = g]
  PROVE  ResultsAreThere'
<1>1. policy \in Policies /\ n % StagesC \in C!Index
  BY SlotVisits DEF IInv, Shape
<1>2. StoreStages' = StoreStages /\ DPlace' = DPlace /\ \A i : (SlotD(i))' = SlotD(i)
  BY PolicyFrame
<1>3. ASSUME NEW t \in Threads, NEW k \in Nat, (Live(t, k))'
      PROVE  smem'[SlotD(k % StoreStages)][DPlace[t]] = <<"D", k>>
  <2>1. Live(t, k)
    BY <1>3, ThreadsStay, LiveStays, Actors
  <2>2. smem[SlotD(k % StoreStages)][DPlace[t]] = <<"D", k>>
    BY <2>1 DEF IInv, ResultsAreThere
  <2>3. SlotD(k % StoreStages) \in Slots
    BY <1>1, Cursors, SlotNames
  <2>4. SlotD(k % StoreStages) # SlotC(n % StagesC)
    <3> SUFFICES ASSUME SlotC(n % StagesC) = SlotD(k % StoreStages) PROVE FALSE
      OBVIOUS
    <3>1. ReuseSmemC /\ k % StoreStages = n % StagesC
      BY <1>1, SlotNames
    <3>2. k % StagesC = n % StagesC
      BY <1>1, <3>1, PolicyType
    <3> QED BY <2>1, <3>1, <3>2, NoResultLeft
  <2>5. smem'[SlotD(k % StoreStages)] = smem[SlotD(k % StoreStages)]
    BY <1>1, <2>3, <2>4, SlotWrite
  <2> QED BY <2>2, <2>5
<1> QED BY <1>2, <1>3 DEF ResultsAreThere

(* The pieces of C after a write to the slot of subtile n. *)
LEMMA SourcesAfterLoad ==
  ASSUME IInv, LoadNeeded, SourcesAreThere, LoadsIssued' \in Nat, NEW n \in Nat,
         empty[n % StagesC].phase >= n \div StagesC,
         policy' = policy, UNCHANGED threads,
         \A m \in Nat : m # n /\ m < LoadsIssued' /\ <<m, m % StagesC>> \notin loading'
                        => m < LoadsIssued /\ (<<m, m % StagesC>> \in loading => m % StagesC = n % StagesC),
         \A m \in Nat : m % StagesC = n % StagesC => m < n + StagesC \/ LoadsIssued' <= m,
         NEW g, smem' = [smem EXCEPT ![SlotC(n % StagesC)] = g],
         <<n, n % StagesC>> \in loading' \/ g = [t \in Threads |-> <<"C", n>>]
  PROVE  SourcesAreThere'
<1>1. policy \in Policies /\ n % StagesC \in C!Index
  BY SlotVisits DEF IInv, Shape
<1>2. StagesC' = StagesC /\ \A i : (SlotC(i))' = SlotC(i)
  BY PolicyFrame
<1>3. ASSUME NEW t \in Threads, NEW m \in Nat, ReadCount(t) <= m, m < LoadsIssued',
             <<m, m % StagesC>> \notin loading'
      PROVE  smem'[SlotC(m % StagesC)][t] = <<"C", m>>
  <2>1. CASE m = n
    <3>1. smem'[SlotC(n % StagesC)] = g
      BY <1>1, SlotWrite
    <3> QED BY <1>3, <2>1, <3>1
  <2>2. CASE m # n /\ m % StagesC = n % StagesC
    <3>1. ~(m < n)
      <4> SUFFICES ASSUME m < n PROVE FALSE
        OBVIOUS
      <4>1. m < ReadCount(t)
        BY <2>2, NoSourceLeft
      <4> QED BY <1>3, <4>1, ThreadCounts
    <3>2. n + StagesC <= m
      <4>1. n < m
        BY <2>2, <3>1
      <4> QED BY <1>1, <2>2, <4>1, SlotApart
    <3>3. StagesC \in Nat
      BY <1>1, PolicyType
    <3>4. LoadsIssued' <= m
      BY <2>2, <3>2, <3>3
    <3> QED BY <1>3, <3>4
  <2>3. CASE m # n /\ m % StagesC # n % StagesC
    <3>1. m < LoadsIssued /\ <<m, m % StagesC>> \notin loading
      BY <1>3, <2>3
    <3>2. smem[SlotC(m % StagesC)][t] = <<"C", m>>
      BY <1>3, <3>1 DEF SourcesAreThere
    <3>3. SlotC(m % StagesC) \in Slots /\ SlotC(m % StagesC) # SlotC(n % StagesC)
      BY <1>1, <2>3, SlotVisits, SlotNames
    <3>4. smem'[SlotC(m % StagesC)] = smem[SlotC(m % StagesC)]
      BY <1>1, <3>3, SlotWrite
    <3> QED BY <3>2, <3>4
  <2> QED BY <2>1, <2>2, <2>3
<1>4. \A t \in Threads : (ReadCount(t))' = ReadCount(t)
  BY ThreadsStay
<1> QED BY <1>2, <1>3, <1>4 DEF SourcesAreThere

(* The copy of C is issued. *)
LEMMA LoadSourceInv ==
  ASSUME IInv, NEW l \in Lanes, LoadSource(l)
  PROVE  IInv'
<1> DEFINE n == lstate[l].count
           i == n % StagesC
           q == n \div StagesC
           g == [t \in Threads |-> <<"torn", n>>]
<1>1. /\ lpc[l] = "copy" /\ loading' = loading \cup {<<n, lstate[l].index>>}
      /\ smem' = [smem EXCEPT ![SlotC(lstate[l].index)] = g]
      /\ lpc' = [lpc EXCEPT ![l] = "expect"]
      /\ policy' = policy /\ full' = full /\ empty' = empty /\ storing' = storing
      /\ lstate' = lstate /\ UNCHANGED threads
  BY DEF LoadSource
<1>2. /\ n \in Nat /\ i \in C!Index /\ q \in Nat /\ n < NumSubtiles
      /\ lstate[l].index = i /\ LoadNeeded
      /\ Acquired(l) = n + 1 /\ Committed(l) = n
      /\ C!Visits(n, i) = q /\ C!Visits(n + 1, i) = q + 1
      /\ empty[i].phase = q /\ full[i].phase = q
  BY <1>1, Inside
<1>3. /\ policy \in Policies /\ lpc \in [Lanes -> {"next", "copy", "expect", "commit", "exit"}]
      /\ LaneCursor(l) /\ l = leader
  BY <1>1 DEF IInv, Shape, LaneCursor
<1>4. smem' = [smem EXCEPT ![SlotC(i)] = g] /\ loading' = loading \cup {<<n, i>>}
  BY <1>1, <1>2
<1>5. lpc'[l] = "expect" /\ \A k \in Lanes : k # l => lpc'[k] = lpc[k]
  BY <1>1, <1>3
<1>6. /\ \A t \in Threads : (SourceCursor(t))' /\ (StoreCursor(t))' /\ (FreeCursor(t))'
      /\ \A t \in Threads : /\ (Waited(t))' = Waited(t) /\ (ReadCount(t))' = ReadCount(t)
                            /\ (Freed(t))' = Freed(t) /\ (Wrote(t))' = Wrote(t)
                            /\ (Stored(t))' = Stored(t)
      /\ InStep'
  BY <1>1, ThreadsStay
<1>7. /\ NumSubtiles' = NumSubtiles /\ LoadNeeded' = LoadNeeded /\ StagesC' = StagesC
      /\ C!Index' = C!Index /\ \A m, j : (C!Visits(m, j))' = C!Visits(m, j)
      /\ \A p, m : (C!StateAt(p, m))' = C!StateAt(p, m) /\ SameLayout' = SameLayout
      /\ NumSubtiles \in Nat /\ StagesC \in Nat \ {0}
  BY <1>1, <1>3, PolicyFrame, PolicyType
<1>8. (LaneCursor(l))' /\ (Committed(l))' = Committed(l) /\ (Acquired(l))' = Acquired(l)
  BY <1>1, <1>2, <1>3, <1>5, <1>7 DEF LaneCursor, Committed, Acquired
<1>9. \A k \in Lanes : (LaneCursor(k))' /\ (Committed(k))' = Committed(k) /\ (Acquired(k))' = Acquired(k)
  <2>1. ASSUME NEW k \in Lanes, k # l
        PROVE  (LaneCursor(k))' /\ (Committed(k))' = Committed(k) /\ (Acquired(k))' = Acquired(k)
    BY <1>1, <1>5, <2>1, LaneFrame DEF IInv
  <2> QED BY <1>8, <2>1
<1>10. LoadsIssued = n /\ LoadsIssued' = n + 1 /\ Announced' = Announced
  BY <1>1, <1>2, <1>3, <1>5, <1>8 DEF LoadsIssued, Announced
<1> HIDE DEF n, i, q
<1>11. \A x \in loading : x[2] # i
  <2> SUFFICES ASSUME NEW x \in loading, x[2] = i PROVE FALSE
    OBVIOUS
  <2>1. C!Visits(n, i) = (x[1] \div StagesC) + 1 /\ Landed(i) = x[1] \div StagesC
        /\ x[1] \div StagesC \in Nat
    BY <1>10, LoadAhead
  <2>2. full[i].phase <= Landed(i)
    BY <1>2, Actors, Chain
  <2> QED BY <1>2, <2>1, <2>2
<1>12. Landed(i) = q
  BY <1>2, <1>10, <1>11 DEF Landed
<1>13. \A j \in C!Index : (Landed(j))' = Landed(j)
  <2> TAKE j \in C!Index
  <2>1. CASE j = i
    <3>1. <<n, i>> \in loading' /\ <<n, i>>[2] = i
      BY <1>4
    <3>2. \E x \in loading' : x[2] = j
      BY <2>1, <3>1
    <3>3. (Landed(j))' = C!Visits(n + 1, j) - 1
      BY <1>7, <1>10, <3>2 DEF Landed
    <3>4. C!Visits(n + 1, j) = q + 1 /\ Landed(j) = q
      BY <1>2, <1>12, <2>1
    <3> QED BY <1>2, <3>3, <3>4
  <2>2. CASE j # i
    <3>1. (\E x \in loading' : x[2] = j) <=> (\E x \in loading : x[2] = j)
      BY <1>4, <2>2
    <3>2. C!Visits(n + 1, j) = C!Visits(n, j)
      <4>1. C!Visits(n + 1, j) = C!Visits(n, j) + IF j = n % StagesC THEN 1 ELSE 0
        BY <1>2, <1>3, SlotVisits
      <4>2. C!Visits(n, j) \in Nat
        BY <1>2, <1>3, SlotVisits
      <4> QED BY <2>2, <4>1, <4>2 DEF i
    <3> QED BY <1>7, <1>10, <3>1, <3>2 DEF Landed
  <2> QED BY <2>1, <2>2
<1>14. Shape'
  <2>1. DOMAIN smem' = Slots /\ \A s \in Slots : DOMAIN smem'[s] = Threads
    <3>1. \A s \in Slots : s # SlotC(i) => smem'[s] = smem[s]
      BY <1>2, <1>4, SlotWrite
    <3>2. smem'[SlotC(i)] = g /\ DOMAIN g = Threads /\ DOMAIN smem' = Slots
      BY <1>2, <1>4, SlotWrite
    <3>3. \A s \in Slots : DOMAIN smem[s] = Threads
      BY DEF IInv, Shape
    <3> QED BY <3>1, <3>2, <3>3
  <2>2. lpc' \in [Lanes -> {"next", "copy", "expect", "commit", "exit"}]
    BY <1>1, <1>3
  <2> QED BY <1>1, <2>1, <2>2, PolicyFrame DEF IInv, Shape, threads
<1>15. ASSUME NEW j \in C!Index PROVE (FullBarrier(j))' /\ (EmptyBarrier(j))'
  <2>1. FullBarrier(j) /\ EmptyBarrier(j)
    BY DEF IInv
  <2>2. (FullBarrier(j))'
    <3>1. full[j].phase <= Landed(j) /\ \A t \in Threads : C!Visits(Waited(t), j) <= full[j].phase
      BY <2>1 DEF FullBarrier
    <3> QED BY <1>1, <1>6, <1>9, <1>10, <1>13, <2>1, <3>1, FullFrame
  <2>3. (EmptyBarrier(j))'
    <3>1. \A k \in Lanes : C!Visits((Acquired(k))', j) <= empty[j].phase + 1
      BY <1>9, <2>1 DEF EmptyBarrier
    <3> QED BY <1>1, <1>6, <2>1, <3>1, EmptyFrame
  <2> QED BY <2>2, <2>3
<1>16. LoadsInFlight'
  <2> SUFFICES ASSUME NEW x \in loading'
               PROVE  /\ x = <<x[1], x[1] % StagesC>> /\ x[1] \in Nat
                      /\ x[1] < n + 1 /\ n + 1 <= x[1] + StagesC
    BY <1>7, <1>10 DEF LoadsInFlight
  <2>1. CASE x = <<n, i>>
    BY <1>2, <1>7, <2>1 DEF i
  <2>2. CASE x \in loading
    <3>1. x = <<x[1], x[1] % StagesC>> /\ x[1] \in Nat /\ x[1] < n /\ n <= x[1] + StagesC
      BY <1>10, <2>2 DEF IInv, LoadsInFlight
    <3>2. x[2] = x[1] % StagesC /\ x[2] # i
      BY <1>11, <2>2, <3>1
    <3>3. n # x[1] + StagesC
      BY <1>3, <3>1, <3>2, SlotRound DEF i
    <3>4. x[1] < n + 1 /\ n + 1 <= x[1] + StagesC
      <4>1. x[1] \in Nat /\ x[1] < n /\ n <= x[1] + StagesC
        BY <3>1
      <4> QED BY <1>2, <1>7, <3>3, <4>1
    <3> QED BY <3>1, <3>4
  <2> QED BY <1>4, <2>1, <2>2
<1>17. StoresInFlight'
  BY <1>1, <1>6, StoresStay, Actors DEF IInv, threads
<1>18. SameLayout' => SourcesAreThere'
  <2> SUFFICES ASSUME SameLayout PROVE SourcesAreThere'
    BY <1>7
  <2>1. SourcesAreThere
    BY DEF IInv
  <2>2. \A m \in Nat : m # n /\ m < LoadsIssued' /\ <<m, m % StagesC>> \notin loading'
                        => m < LoadsIssued /\ (<<m, m % StagesC>> \in loading => m % StagesC = n % StagesC)
    BY <1>2, <1>4, <1>10
  <2>3. \A m \in Nat : m % StagesC = n % StagesC => m < n + StagesC \/ LoadsIssued' <= m
    BY <1>2, <1>7, <1>10
  <2>4. <<n, n % StagesC>> \in loading'
    BY <1>4 DEF i
  <2>5. LoadsIssued' \in Nat /\ empty[n % StagesC].phase >= n \div StagesC
        /\ smem' = [smem EXCEPT ![SlotC(n % StagesC)] = g]
    BY <1>2, <1>4, <1>10 DEF i, q
  <2> HIDE DEF g
  <2> QED BY <1>1, <1>2, <2>1, <2>2, <2>3, <2>4, <2>5, SourcesAfterLoad
<1>19. ResultsAreThere'
  <2>1. /\ empty[n % StagesC].phase >= n \div StagesC /\ full[n % StagesC].phase <= n \div StagesC
        /\ smem' = [smem EXCEPT ![SlotC(n % StagesC)] = g]
    BY <1>2, <1>4 DEF i, q
  <2> HIDE DEF g
  <2> QED BY <1>1, <1>2, <2>1, ResultsAvoidLoad
<1> QED BY <1>6, <1>7, <1>9, <1>14, <1>15, <1>16, <1>17, <1>18, <1>19 DEF IInv

(* Settling leaves a barrier a barrier. *)
LEMMA SettleType ==
  ASSUME NEW c \in Nat, NEW p \in Nat, NEW x \in Int, NEW f \in Nat
  PROVE  Settle([count |-> c, pending |-> p, tx |-> x, phase |-> f])
           \in [count : Nat, pending : Nat, tx : Int, phase : Nat]
<1> DEFINE b == [count |-> c, pending |-> p, tx |-> x, phase |-> f]
<1>1. CASE p = 0 /\ x = 0
  <2>1. Settle(b) = [count |-> c, pending |-> c, tx |-> 0, phase |-> f + 1]
    BY <1>1 DEF Settle
  <2> HIDE DEF b
  <2> QED BY <2>1 DEF b
<1>2. CASE ~(p = 0 /\ x = 0)
  BY <1>2 DEF Settle
<1> QED BY <1>1, <1>2

(* A full barrier at which a lane arrives or the bytes of a load come in.  *)
LEMMA FullStep ==
  ASSUME policy \in Policies, policy' = policy, NEW i \in C!Index, NEW f \in Nat, NEW tx \in Int,
         \A l \in Lanes : /\ C!Visits((Committed(l))', i) \in Nat
                          /\ f <= C!Visits((Committed(l))', i)
                          /\ C!Visits((Committed(l))', i) <= f + 1,
         NEW p, p = Cardinality({l \in Lanes : C!Visits((Committed(l))', i) = f}),
         (Landed(i))' \in Nat, f <= (Landed(i))', C!Visits(Announced', i) \in Nat,
         C!Visits((Committed(leader))', i) <= C!Visits(Announced', i),
         tx = C!Visits(Announced', i) - (Landed(i))',
         \A t \in Threads : C!Visits((Waited(t))', i) \in Nat /\ C!Visits((Waited(t))', i) <= f,
         full'[i] = Settle([count |-> Cardinality(Lanes), pending |-> p, tx |-> tx, phase |-> f])
  PROVE  (FullBarrier(i))'
<1>1. \A n, j : (C!Visits(n, j))' = C!Visits(n, j)
  BY PolicyFrame
<1> DEFINE V(l) == C!Visits((Committed(l))', i)
           E == {l \in Lanes : V(l) = f}
<1>2. IsFiniteSet(E) /\ p = Cardinality(E) /\ p \in Nat
  <2>1. IsFiniteSet(E)
    BY Actors, FS_Subset
  <2>2. p = Cardinality(E)
    OBVIOUS
  <2> HIDE DEF E
  <2> QED BY <2>1, <2>2, FS_CardinalityType
<1>3. Cardinality(Lanes) \in Nat \ {0}
  BY Actors, FS_CardinalityType, FS_EmptySet
<1>4. CASE p = 0 /\ tx = 0
  <2>1. E = {}
    <3> HIDE DEF E
    <3> QED BY <1>2, <1>4, CardZero
  <2>2. \A l \in Lanes : V(l) = f + 1
    <3> TAKE l \in Lanes
    <3>1. V(l) # f
      BY <2>1
    <3>2. V(l) \in Nat /\ f <= V(l) /\ V(l) <= f + 1
      OBVIOUS
    <3> HIDE DEF V
    <3> QED BY <3>1, <3>2
  <2>3. full'[i] = [count |-> Cardinality(Lanes), pending |-> Cardinality(Lanes), tx |-> 0,
                    phase |-> f + 1]
    BY <1>4 DEF Settle
  <2>4. /\ full'[i].count = Cardinality(Lanes) /\ full'[i].pending = Cardinality(Lanes)
        /\ full'[i].tx = 0 /\ full'[i].phase = f + 1
    BY <2>3
  <2>5. {l \in Lanes : C!Visits((Committed(l))', i) = full'[i].phase} = Lanes
    BY <2>2, <2>4
  <2>6. (Landed(i))' = C!Visits(Announced', i)
    BY <1>4
  <2>7. f + 1 <= (Landed(i))'
    <3>1. V(leader) = f + 1
      BY <2>2, Actors
    <3>2. V(leader) <= C!Visits(Announced', i)
      OBVIOUS
    <3> HIDE DEF V
    <3> QED BY <2>6, <3>1, <3>2
  <2>8. \A l \in Lanes : full'[i].phase <= C!Visits((Committed(l))', i)
    BY <2>2, <2>4
  <2>9. \A t \in Threads : C!Visits((Waited(t))', i) <= full'[i].phase
    BY <2>4
  <2>10. full'[i].tx = C!Visits(Announced', i) - (Landed(i))' /\ full'[i].phase <= (Landed(i))'
    BY <2>4, <2>6, <2>7
  <2>11. ~(full'[i].pending = 0 /\ full'[i].tx = 0)
    BY <1>3, <2>4
  <2> HIDE DEF E, V
  <2> QED BY <1>1, <2>4, <2>5, <2>8, <2>9, <2>10, <2>11 DEF FullBarrier
<1>5. CASE ~(p = 0 /\ tx = 0)
  <2>1. full'[i] = [count |-> Cardinality(Lanes), pending |-> p, tx |-> tx, phase |-> f]
    BY <1>5 DEF Settle
  <2>2. /\ full'[i].count = Cardinality(Lanes) /\ full'[i].pending = p
        /\ full'[i].tx = tx /\ full'[i].phase = f
    BY <2>1
  <2>3. full'[i].pending = Cardinality({l \in Lanes : C!Visits((Committed(l))', i) = full'[i].phase})
    BY <2>2
  <2>4. ~(full'[i].pending = 0 /\ full'[i].tx = 0)
    BY <1>5, <2>2
  <2>5. full'[i].tx = C!Visits(Announced', i) - (Landed(i))' /\ full'[i].phase <= (Landed(i))'
    BY <2>2
  <2>6. \A l \in Lanes : full'[i].phase <= C!Visits((Committed(l))', i)
    BY <2>2
  <2>7. \A t \in Threads : C!Visits((Waited(t))', i) <= full'[i].phase
    BY <2>2
  <2> HIDE DEF E, V
  <2> QED BY <1>1, <2>2, <2>3, <2>4, <2>5, <2>6, <2>7 DEF FullBarrier
<1> QED BY <1>4, <1>5

(* What the invariant says of a full barrier. *)
LEMMA FullFields ==
  ASSUME IInv, NEW i \in C!Index
  PROVE  /\ full[i] \in [count : Nat, pending : Nat, tx : Int, phase : Nat]
         /\ full[i].count = Cardinality(Lanes)
         /\ full[i].pending = Cardinality({l \in Lanes : C!Visits(Committed(l), i) = full[i].phase})
         /\ full[i].tx = C!Visits(Announced, i) - Landed(i)
         /\ C!Visits(Announced, i) \in Nat
         /\ C!Visits(Committed(leader), i) <= C!Visits(Announced, i)
         /\ \A l \in Lanes : /\ C!Visits(Committed(l), i) \in Nat
                             /\ full[i].phase <= C!Visits(Committed(l), i)
                             /\ C!Visits(Committed(l), i) <= full[i].phase + 1
<1>1. full[i] \in [count : Nat, pending : Nat, tx : Int, phase : Nat] /\ policy \in Policies
  BY DEF IInv, Shape
<1>2. /\ full[i].count = Cardinality(Lanes)
      /\ full[i].pending = Cardinality({l \in Lanes : C!Visits(Committed(l), i) = full[i].phase})
      /\ full[i].tx = C!Visits(Announced, i) - Landed(i)
  BY DEF IInv, FullBarrier
<1>3. /\ C!Visits(Announced, i) \in Nat
      /\ C!Visits(Committed(leader), i) <= C!Visits(Announced, i)
  BY <1>1, Actors, LaneCounts, LoadCounts, SlotVisits
<1>4. ASSUME NEW l \in Lanes
      PROVE  /\ C!Visits(Committed(l), i) \in Nat
             /\ full[i].phase <= C!Visits(Committed(l), i)
             /\ C!Visits(Committed(l), i) <= full[i].phase + 1
  <2>1. /\ C!Visits(Committed(l), i) \in Nat /\ C!Visits(Acquired(l), i) \in Nat
        /\ full[i].phase \in Nat /\ empty[i].phase \in Nat /\ empty[i].phase <= full[i].phase
        /\ full[i].phase <= C!Visits(Committed(l), i)
        /\ C!Visits(Committed(l), i) <= C!Visits(Acquired(l), i)
        /\ C!Visits(Acquired(l), i) <= empty[i].phase + 1
    <3>1. PICK t \in Threads : TRUE
      BY Actors
    <3>2. /\ C!Visits(Committed(l), i) \in Nat /\ C!Visits(Acquired(l), i) \in Nat
          /\ full[i].phase \in Nat /\ empty[i].phase \in Nat
          /\ full[i].phase <= C!Visits(Committed(l), i)
          /\ C!Visits(Committed(l), i) <= C!Visits(Acquired(l), i)
          /\ C!Visits(Acquired(l), i) <= empty[i].phase + 1
      BY <3>1, Chain
    <3>3. empty[i].phase <= full[i].phase
      <4>1. /\ empty[i].phase <= C!Visits(Freed(t), i)
            /\ C!Visits(Freed(t), i) <= C!Visits(Waited(t), i)
            /\ C!Visits(Waited(t), i) <= full[i].phase
            /\ C!Visits(Freed(t), i) \in Nat /\ C!Visits(Waited(t), i) \in Nat
        BY <3>1, Actors, Chain
      <4> QED BY <3>2, <4>1
    <3> QED BY <3>2, <3>3
  <2> QED BY <2>1
<1> QED BY <1>1, <1>2, <1>3, <1>4

(* The steps of a lane that is loading and writes nothing to shared        *)
(* memory: what only depends on the threads and the stores.                *)
LEMMA LaneSteps ==
  ASSUME IInv, policy' = policy, UNCHANGED <<empty, smem, loading, storing, threads>>,
         NEW l \in Lanes, \A k \in Lanes : k # l => lpc'[k] = lpc[k] /\ lstate'[k] = lstate[k],
         lpc' \in [Lanes -> {"next", "copy", "expect", "commit", "exit"}],
         lstate' \in [Lanes -> C!Cursor],
         full' \in [C!Index -> [count : Nat, pending : Nat, tx : Int, phase : Nat]],
         (LaneCursor(l))', (Acquired(l))' = Acquired(l), LoadsIssued' = LoadsIssued,
         \A i \in C!Index : (FullBarrier(i))'
  PROVE  IInv'
<1>1. /\ \A t \in Threads : (SourceCursor(t))' /\ (StoreCursor(t))' /\ (FreeCursor(t))'
      /\ \A t \in Threads : /\ (Waited(t))' = Waited(t) /\ (ReadCount(t))' = ReadCount(t)
                            /\ (Freed(t))' = Freed(t) /\ (Wrote(t))' = Wrote(t)
                            /\ (Stored(t))' = Stored(t)
      /\ InStep'
  BY ThreadsStay
<1>2. C!Index' = C!Index /\ StagesC' = StagesC
  BY PolicyFrame
<1>3. Shape'
  BY PolicyFrame DEF IInv, Shape, threads
<1>4. \A k \in Lanes : (LaneCursor(k))' /\ (Acquired(k))' = Acquired(k)
  <2>1. ASSUME NEW k \in Lanes, k # l PROVE (LaneCursor(k))' /\ (Acquired(k))' = Acquired(k)
    BY <2>1, LaneFrame DEF IInv
  <2> QED BY <2>1
<1>5. ASSUME NEW i \in C!Index PROVE (EmptyBarrier(i))'
  <2>1. EmptyBarrier(i)
    BY DEF IInv
  <2>2. \A k \in Lanes : C!Visits((Acquired(k))', i) <= empty[i].phase + 1
    BY <1>4, <2>1 DEF EmptyBarrier
  <2> QED BY <1>1, <2>1, <2>2, EmptyFrame
<1>6. LoadsInFlight'
  BY <1>2 DEF IInv, LoadsInFlight
<1>7. StoresInFlight'
  BY <1>1, StoresStay, Actors DEF IInv, threads
<1>8. SameLayout' => SourcesAreThere'
  BY <1>1, SourcesStay, ThreadCounts
<1>9. ResultsAreThere'
  BY <1>1, Actors, ResultsStay, LiveStays
<1> QED BY <1>1, <1>2, <1>3, <1>4, <1>5, <1>6, <1>7, <1>8, <1>9 DEF IInv

(* The bytes are announced, by the lane that has still to arrive. *)
LEMMA ExpectTransactionInv ==
  ASSUME IInv, NEW l \in Lanes, ExpectTransaction(l)
  PROVE  IInv'
<1>1. /\ lpc[l] = "expect" /\ full' = [full EXCEPT ![lstate[l].index] = ExpectTx(@, 1)]
      /\ lpc' = [lpc EXCEPT ![l] = "commit"] /\ policy' = policy /\ lstate' = lstate
      /\ UNCHANGED <<empty, smem, loading, storing, threads>>
  BY DEF ExpectTransaction
<1>2. PICK n \in Nat : n = lstate[l].count
  BY LaneCounts
<1>3. PICK i \in C!Index : i = n % StagesC
  BY <1>2, SlotVisits DEF IInv, Shape
<1>4. /\ n < NumSubtiles /\ lstate[l].index = i /\ LoadNeeded
      /\ Acquired(l) = n + 1 /\ Committed(l) = n
      /\ C!Visits(n, i) = full[i].phase /\ C!Visits(n + 1, i) = full[i].phase + 1
      /\ full[i].phase \in Nat
  BY <1>1, <1>2, <1>3, Inside
<1>5. /\ policy \in Policies /\ lpc \in [Lanes -> {"next", "copy", "expect", "commit", "exit"}]
      /\ lstate \in [Lanes -> C!Cursor] /\ LaneCursor(l) /\ l = leader
      /\ full \in [C!Index -> [count : Nat, pending : Nat, tx : Int, phase : Nat]]
  BY <1>1 DEF IInv, Shape, LaneCursor
<1>6. lpc'[l] = "commit" /\ \A k \in Lanes : k # l => lpc'[k] = lpc[k] /\ lstate'[k] = lstate[k]
  BY <1>1, <1>5
<1>7. /\ NumSubtiles' = NumSubtiles /\ LoadNeeded' = LoadNeeded /\ StagesC' = StagesC
      /\ \A m, j : (C!Visits(m, j))' = C!Visits(m, j)
      /\ \A p, m : (C!StateAt(p, m))' = C!StateAt(p, m)
  BY <1>1, PolicyFrame
<1>8. (LaneCursor(l))' /\ (Committed(l))' = Committed(l) /\ (Acquired(l))' = Acquired(l)
  BY <1>1, <1>2, <1>4, <1>5, <1>6, <1>7 DEF LaneCursor, Committed, Acquired
<1>9. LoadsIssued' = LoadsIssued /\ Announced = n /\ Announced' = n + 1
  BY <1>1, <1>4, <1>5, <1>6, <1>8 DEF LoadsIssued, Announced
<1>10. \A k \in Lanes : (Committed(k))' = Committed(k)
  <2>1. ASSUME NEW k \in Lanes, k # l PROVE (Committed(k))' = Committed(k)
    BY <1>1, <1>6, <2>1, LaneFrame
  <2> QED BY <1>8, <2>1
<1>11. \A j : (Landed(j))' = Landed(j)
  BY <1>1, <1>7, <1>9 DEF Landed
<1>12. /\ full' \in [C!Index -> [count : Nat, pending : Nat, tx : Int, phase : Nat]]
       /\ full'[i].count = full[i].count /\ full'[i].pending = full[i].pending
       /\ full'[i].phase = full[i].phase /\ full'[i].tx = full[i].tx + 1
       /\ \A j \in C!Index : j # i => full'[j] = full[j]
  <2>1. full' = [full EXCEPT ![i] = [full[i] EXCEPT !.tx = full[i].tx + 1]]
    BY <1>1, <1>4 DEF ExpectTx
  <2> QED BY <1>5, <2>1
<1>13. ASSUME NEW j \in C!Index PROVE (FullBarrier(j))'
  <2>1. FullBarrier(j) /\ full[j].phase <= Landed(j)
        /\ \A t \in Threads : C!Visits(Waited(t), j) <= full[j].phase
    BY DEF IInv, FullBarrier
  <2>2. \A t \in Threads : (Waited(t))' = Waited(t)
    BY <1>1, ThreadsStay
  <2>3. CASE j # i
    <3>1. C!Visits(Announced', j) = C!Visits(Announced, j)
      <4>1. C!Visits(n + 1, j) = C!Visits(n, j) + IF j = n % StagesC THEN 1 ELSE 0
        BY <1>5, SlotVisits
      <4>2. C!Visits(n, j) \in Nat
        BY <1>5, SlotVisits
      <4> QED BY <1>3, <1>9, <2>3, <4>1, <4>2
    <3> QED BY <1>1, <1>10, <1>11, <1>12, <2>1, <2>2, <2>3, <3>1, FullFrame
  <2>4. CASE j = i
    <3>1. /\ full[i].count = Cardinality(Lanes) /\ full[i].pending \in Nat /\ full[i].tx \in Int
          /\ full[i].pending = Cardinality({k \in Lanes : C!Visits(Committed(k), i) = full[i].phase})
          /\ full[i].tx = C!Visits(Announced, i) - Landed(i)
          /\ \A k \in Lanes : full[i].phase <= C!Visits(Committed(k), i)
      BY FullFields
    <3>2. {k \in Lanes : C!Visits((Committed(k))', i) = full'[i].phase}
            = {k \in Lanes : C!Visits(Committed(k), i) = full[i].phase}
      BY <1>10, <1>12
    <3>3. full[i].pending > 0
      <4>1. leader \in {k \in Lanes : C!Visits(Committed(k), i) = full[i].phase}
        BY <1>4, <1>5, Actors
      <4> DEFINE E == {k \in Lanes : C!Visits(Committed(k), i) = full[i].phase}
      <4>2. IsFiniteSet(E)
        BY Actors, FS_Subset
      <4>3. full[i].pending = Cardinality(E) /\ leader \in E
        BY <3>1, <4>1
      <4> HIDE DEF E
      <4>4. Cardinality(E) # 0
        BY <4>2, <4>3, CardZero
      <4> QED BY <3>1, <4>3, <4>4
    <3>4. Landed(i) \in Nat
      BY LandedBounds
    <3>5. full'[i].tx = C!Visits(Announced', i) - Landed(i)
      BY <1>4, <1>9, <1>12, <3>1, <3>4
    <3>6. full'[i].count = Cardinality(Lanes) /\ full'[i].phase = full[i].phase
      BY <1>12, <3>1
    <3>9. full'[i].pending = Cardinality({k \in Lanes : C!Visits((Committed(k))', i) = full'[i].phase})
      BY <1>12, <3>1, <3>2
    <3>10. ~(full'[i].pending = 0 /\ full'[i].tx = 0)
      BY <1>12, <3>3
    <3>11. \A k \in Lanes : full'[i].phase <= C!Visits((Committed(k))', i)
      BY <1>10, <3>1, <3>6
    <3>12. full'[i].phase <= (Landed(i))'
      BY <1>11, <2>1, <2>4, <3>6
    <3>13. \A t \in Threads : C!Visits((Waited(t))', i) <= full'[i].phase
      BY <2>1, <2>2, <2>4, <3>6
    <3>7. full'[i].tx = C!Visits(Announced', i) - (Landed(i))'
      BY <1>11, <3>5
    <3>8. (FullBarrier(i))'
      <4>1. \A m, k : (C!Visits(m, k))' = C!Visits(m, k)
        BY <1>7
      <4> QED BY <3>6, <3>7, <3>9, <3>10, <3>11, <3>12, <3>13, <4>1 DEF FullBarrier
    <3> QED BY <2>4, <3>8
  <2> QED BY <2>3, <2>4
<1>14. lpc' \in [Lanes -> {"next", "copy", "expect", "commit", "exit"}] /\ lstate' \in [Lanes -> C!Cursor]
  BY <1>1, <1>5
<1> QED BY <1>1, <1>6, <1>8, <1>9, <1>12, <1>13, <1>14, LaneSteps

(* producer_commit *)
LEMMA CommitLoadInv ==
  ASSUME IInv, NEW l \in Lanes, CommitLoad(l)
  PROVE  IInv'
<1>1. /\ lpc[l] = "commit" /\ full' = [full EXCEPT ![lstate[l].index] = ArriveTx(@)]
      /\ lstate' = [lstate EXCEPT ![l] = C!Inc(@)]
      /\ lpc' = [lpc EXCEPT ![l] = "next"] /\ policy' = policy
      /\ UNCHANGED <<empty, smem, loading, storing, threads>>
  BY DEF CommitLoad
<1>2. PICK n \in Nat : n = lstate[l].count
  BY LaneCounts
<1>3. PICK i \in C!Index : i = n % StagesC
  BY <1>2, SlotVisits DEF IInv, Shape
<1>4. PICK f \in Nat : f = full[i].phase
  BY <1>3, Actors, Chain
<1>5. /\ n < NumSubtiles /\ lstate[l].index = i /\ LoadNeeded
      /\ Acquired(l) = n + 1 /\ Committed(l) = n
      /\ C!Visits(n, i) = f /\ C!Visits(n + 1, i) = f + 1
  BY <1>1, <1>2, <1>3, <1>4, Inside
<1>6. /\ policy \in Policies /\ lpc \in [Lanes -> {"next", "copy", "expect", "commit", "exit"}]
      /\ lstate \in [Lanes -> C!Cursor] /\ LaneCursor(l) /\ lstate[l] = C!StateAt(1, n)
      /\ full \in [C!Index -> [count : Nat, pending : Nat, tx : Int, phase : Nat]]
      /\ NumSubtiles \in Nat /\ StagesC \in Nat \ {0}
  BY <1>2, LaneCounts, PolicyType DEF IInv, Shape
<1>7. /\ lpc'[l] = "next" /\ lstate'[l] = C!StateAt(1, n + 1) /\ lstate'[l].count = n + 1
      /\ \A k \in Lanes : k # l => lpc'[k] = lpc[k] /\ lstate'[k] = lstate[k]
      /\ C!StateAt(1, n + 1) \in C!Cursor
  <2>1. C!Inc(C!StateAt(1, n)) = C!StateAt(1, n + 1) /\ C!StateAt(1, n + 1) \in C!Cursor
    BY <1>6, Cursors
  <2>2. C!StateAt(1, n + 1).count = n + 1
    BY CursorFields
  <2> QED BY <1>1, <1>6, <2>1, <2>2
<1>8. /\ NumSubtiles' = NumSubtiles /\ LoadNeeded' = LoadNeeded /\ StagesC' = StagesC
      /\ \A m, j : (C!Visits(m, j))' = C!Visits(m, j)
      /\ \A p, m : (C!StateAt(p, m))' = C!StateAt(p, m)
  BY <1>1, PolicyFrame
<1>9. (Committed(l))' = n + 1 /\ (Acquired(l))' = n + 1
  BY <1>2, <1>5, <1>6, <1>7, <1>8 DEF Committed, Acquired
<1>10. (LaneCursor(l))'
  <2>1. n + 1 <= NumSubtiles + IF l = leader THEN StagesC ELSE 0
    BY <1>5, <1>6
  <2> QED BY <1>5, <1>7, <1>8, <2>1 DEF LaneCursor
<1>11. LoadsIssued' = LoadsIssued /\ Announced' = Announced
  <2>1. CASE l = leader
    BY <1>1, <1>5, <1>7, <1>9, <2>1 DEF LoadsIssued, Announced
  <2>2. CASE l # leader
    BY <1>1, <1>7, <2>2, Actors, LoadFrame
  <2> QED BY <2>1, <2>2
<1>12. \A k \in Lanes : k # l => (Committed(k))' = Committed(k)
  BY <1>1, <1>7, LaneFrame
<1>13. \A j : (Landed(j))' = Landed(j)
  BY <1>1, <1>8, <1>11 DEF Landed
<1>14. \A t \in Threads : (Waited(t))' = Waited(t)
  BY <1>1, ThreadsStay
<1> DEFINE b == full[i]
           E == {k \in Lanes : C!Visits(Committed(k), i) = f}
           F == {k \in Lanes : C!Visits((Committed(k))', i) = f}
<1>15. /\ b \in [count : Nat, pending : Nat, tx : Int, phase : Nat]
       /\ b.count = Cardinality(Lanes) /\ b.pending = Cardinality(E) /\ b.phase = f
       /\ b.tx = C!Visits(Announced, i) - Landed(i) /\ C!Visits(Announced, i) \in Nat
       /\ C!Visits(Committed(leader), i) <= C!Visits(Announced, i)
       /\ \A k \in Lanes : /\ C!Visits(Committed(k), i) \in Nat
                           /\ f <= C!Visits(Committed(k), i)
                           /\ C!Visits(Committed(k), i) <= f + 1
  BY <1>4, FullFields
<1>16. full'[i] = Settle([count |-> Cardinality(Lanes), pending |-> b.pending - 1, tx |-> b.tx,
                          phase |-> f])
       /\ \A j \in C!Index : j # i => full'[j] = full[j]
  <2>1. full'[i] = ArriveTx(b) /\ \A j \in C!Index : j # i => full'[j] = full[j]
    BY <1>1, <1>5, <1>6
  <2> HIDE DEF b, E
  <2>2. ArriveTx(b) = Settle([count |-> b.count, pending |-> b.pending - 1, tx |-> b.tx + 0,
                              phase |-> b.phase])
    BY <1>15, TxForms DEF ArriveTx
  <2>3. b.tx + 0 = b.tx
    BY <1>15
  <2> QED BY <1>15, <2>1, <2>2, <2>3
<1>17. F = E \ {l} /\ l \in E
  <2>1. f + 1 # f
    OBVIOUS
  <2> QED BY <1>5, <1>9, <1>12, <2>1
<1>18. b.pending - 1 = Cardinality(F) /\ b.pending - 1 \in Nat
  <2>1. IsFiniteSet(E)
    BY Actors, FS_Subset
  <2> HIDE DEF E, F, b
  <2>2. Cardinality(E \ {l}) = Cardinality(E) - 1 /\ Cardinality(E) \in Nat \ {0}
    BY <1>17, <2>1, CardRemove
  <2> QED BY <1>15, <1>17, <2>2
<1>19. (FullBarrier(i))'
  <2>1. \A k \in Lanes : /\ C!Visits((Committed(k))', i) \in Nat
                         /\ f <= C!Visits((Committed(k))', i)
                         /\ C!Visits((Committed(k))', i) <= f + 1
    BY <1>5, <1>9, <1>12, <1>15
  <2>2. (Landed(i))' \in Nat /\ f <= (Landed(i))'
    BY <1>4, <1>13, LandedBounds, Actors, Chain
  <2>3. C!Visits((Committed(leader))', i) <= C!Visits(Announced', i) /\ C!Visits(Announced', i) \in Nat
    <3>1. CASE l # leader
      BY <1>11, <1>12, <1>15, <3>1, Actors
    <3>2. CASE l = leader
      BY <1>1, <1>5, <1>9, <1>11, <1>15, <3>2 DEF Announced
    <3> QED BY <3>1, <3>2
  <2>4. b.tx = C!Visits(Announced', i) - (Landed(i))' /\ b.tx \in Int
    BY <1>11, <1>13, <1>15
  <2>5. \A t \in Threads : C!Visits((Waited(t))', i) \in Nat /\ C!Visits((Waited(t))', i) <= f
    BY <1>4, <1>14, Actors, Chain
  <2>6. b.pending - 1 = Cardinality({k \in Lanes : C!Visits((Committed(k))', i) = f})
    BY <1>18
  <2> DEFINE p == b.pending - 1
             tx == b.tx
  <2>7. full'[i] = Settle([count |-> Cardinality(Lanes), pending |-> p, tx |-> tx, phase |-> f])
        /\ tx \in Int /\ tx = C!Visits(Announced', i) - (Landed(i))'
        /\ p = Cardinality({k \in Lanes : C!Visits((Committed(k))', i) = f})
    BY <1>16, <2>4, <2>6
  <2> HIDE DEF b, E, F, p, tx
  <2> QED BY <1>1, <1>6, <2>1, <2>2, <2>3, <2>5, <2>7, FullStep
<1>20. \A j \in C!Index : (FullBarrier(j))'
  <2>1. ASSUME NEW j \in C!Index, j # i PROVE (FullBarrier(j))'
    <3>1. FullBarrier(j) /\ full[j].phase <= Landed(j)
          /\ \A t \in Threads : C!Visits(Waited(t), j) <= full[j].phase
      BY DEF IInv, FullBarrier
    <3>2. C!Visits((Committed(l))', j) = C!Visits(Committed(l), j)
      <4>1. C!Visits(n + 1, j) = C!Visits(n, j) + IF j = n % StagesC THEN 1 ELSE 0
        BY <1>6, SlotVisits
      <4>2. C!Visits(n, j) \in Nat
        BY <1>6, SlotVisits
      <4> QED BY <1>3, <1>5, <1>9, <2>1, <4>1, <4>2
    <3>3. \A k \in Lanes : C!Visits((Committed(k))', j) = C!Visits(Committed(k), j)
      BY <1>12, <3>2
    <3>4. full'[j] = full[j]
      BY <1>16, <2>1
    <3> QED BY <1>1, <1>11, <1>13, <1>14, <3>1, <3>3, <3>4, FullFrame
  <2> QED BY <1>19, <2>1
<1>21. full' \in [C!Index -> [count : Nat, pending : Nat, tx : Int, phase : Nat]]
  <2>1. full'[i] \in [count : Nat, pending : Nat, tx : Int, phase : Nat]
    <3>1. Cardinality(Lanes) \in Nat
      BY Actors, FS_CardinalityType
    <3>2. b.tx \in Int
      BY <1>15
    <3> HIDE DEF b
    <3> QED BY <1>16, <1>18, <3>1, <3>2, SettleType
  <2>2. full' = [full EXCEPT ![i] = full'[i]]
    BY <1>1, <1>5, <1>6
  <2> QED BY <1>6, <2>1, <2>2
<1>22. lpc' \in [Lanes -> {"next", "copy", "expect", "commit", "exit"}] /\ lstate' \in [Lanes -> C!Cursor]
  BY <1>1, <1>6, <1>7
<1>23. (Acquired(l))' = Acquired(l)
  BY <1>5, <1>9
<1> QED BY <1>1, <1>7, <1>10, <1>11, <1>20, <1>21, <1>22, <1>23, LaneSteps

(* A load lands. *)
LEMMA LoadLandsInv ==
  ASSUME IInv, NEW x \in loading, LoadLands(x)
  PROVE  IInv'
<1>1. /\ loading' = loading \ {x}
      /\ smem' = [smem EXCEPT ![SlotC(x[2])] = [t \in Threads |-> <<"C", x[1]>>]]
      /\ full' = [full EXCEPT ![x[2]] = CompleteTransaction(@, 1)]
      /\ policy' = policy /\ UNCHANGED <<empty, storing, lanes, threads>>
  BY DEF LoadLands
<1>2. PICK n \in Nat : n = x[1]
  BY LoadAhead
<1>3. PICK i \in C!Index : i = x[2]
  BY LoadAhead
<1>4. PICK f \in Nat : f = full[i].phase
  BY <1>3, Actors, Chain
<1>5. PICK g : g = [t \in Threads |-> <<"C", n>>]
  OBVIOUS
<1>6. /\ i = n % StagesC /\ x = <<n, i>> /\ n < LoadsIssued
      /\ C!Visits(LoadsIssued, i) = (n \div StagesC) + 1
      /\ Landed(i) = n \div StagesC /\ n \div StagesC \in Nat
  <2>1. /\ x = <<x[1], x[1] % StagesC>> /\ x[2] = x[1] % StagesC /\ x[1] < LoadsIssued
        /\ C!Visits(LoadsIssued, x[2]) = (x[1] \div StagesC) + 1
        /\ Landed(x[2]) = x[1] \div StagesC /\ x[1] \div StagesC \in Nat
    BY LoadAhead
  <2> QED BY <1>2, <1>3, <2>1
<1>7. /\ policy \in Policies /\ StagesC \in Nat \ {0} /\ LoadsIssued \in Nat
      /\ full \in [C!Index -> [count : Nat, pending : Nat, tx : Int, phase : Nat]]
  BY LoadCounts, PolicyType DEF IInv, Shape
<1>8. LoadsIssued <= n + StagesC
  BY <1>2 DEF IInv, LoadsInFlight
<1>9. LoadNeeded
  <2> SUFFICES ASSUME ~LoadNeeded PROVE FALSE
    OBVIOUS
  <2>1. lpc[leader] = "exit" /\ lstate[leader].count = 0
    BY Actors, LaneCounts DEF LaneCursor
  <2>2. LoadsIssued <= 0
    BY <1>7, <2>1, PolicyType DEF LoadsIssued, Committed
  <2> QED BY <1>6, <1>7, <2>2
<1>10. empty[i].phase >= n \div StagesC /\ f <= n \div StagesC
  <2>1. /\ C!Visits(LoadsIssued, i) <= C!Visits(Acquired(leader), i)
        /\ C!Visits(Acquired(leader), i) <= empty[i].phase + 1
        /\ C!Visits(Acquired(leader), i) \in Nat /\ empty[i].phase \in Nat
        /\ full[i].phase <= Landed(i)
    BY Actors, Chain
  <2>2. /\ empty[i].phase \in Nat /\ n \div StagesC \in Nat
        /\ (n \div StagesC) + 1 <= empty[i].phase + 1
    BY <1>6, <2>1
  <2>3. empty[i].phase >= n \div StagesC
    BY <2>2
  <2> QED BY <1>4, <1>6, <2>1, <2>3
<1>11. smem' = [smem EXCEPT ![SlotC(i)] = g] /\ full' = [full EXCEPT ![i] = CompleteTransaction(@, 1)]
  BY <1>1, <1>2, <1>3, <1>5
<1>12. /\ \A t \in Threads : (SourceCursor(t))' /\ (StoreCursor(t))' /\ (FreeCursor(t))'
       /\ \A t \in Threads : /\ (Waited(t))' = Waited(t) /\ (ReadCount(t))' = ReadCount(t)
                             /\ (Freed(t))' = Freed(t) /\ (Wrote(t))' = Wrote(t)
                             /\ (Stored(t))' = Stored(t)
       /\ InStep'
  BY <1>1, ThreadsStay
<1>13. /\ StagesC' = StagesC /\ C!Index' = C!Index /\ SameLayout' = SameLayout
       /\ \A m, j : (C!Visits(m, j))' = C!Visits(m, j)
  BY <1>1, PolicyFrame
<1>14. /\ \A k \in Lanes : (LaneCursor(k))' /\ (Committed(k))' = Committed(k) /\ (Acquired(k))' = Acquired(k)
       /\ LoadsIssued' = LoadsIssued /\ Announced' = Announced
  BY <1>1, Actors, LaneFrame, LoadFrame DEF IInv, lanes
<1>15. (Landed(i))' = (n \div StagesC) + 1
  <2>1. ~ \E y \in loading' : y[2] = i
    BY <1>1, <1>3, OneLoad
  <2>2. (Landed(i))' = (C!Visits(LoadsIssued, i))'
    BY <2>1 DEF Landed
  <2>3. (C!Visits(LoadsIssued, i))' = C!Visits(LoadsIssued, i)
    BY <1>13, <1>14
  <2> QED BY <1>6, <2>2, <2>3
<1>16. \A j \in C!Index : j # i => (Landed(j))' = Landed(j)
  <2> SUFFICES ASSUME NEW j \in C!Index, j # i PROVE (Landed(j))' = Landed(j)
    OBVIOUS
  <2>1. (\E y \in loading' : y[2] = j) <=> (\E y \in loading : y[2] = j)
    BY <1>1, <1>3
  <2>2. (C!Visits(LoadsIssued, j))' = C!Visits(LoadsIssued, j)
    BY <1>13, <1>14
  <2> QED BY <2>1, <2>2 DEF Landed
<1>17. PICK p \in Nat : p = full[i].pending
  BY <1>7
<1>18. PICK tx \in Int : tx = full[i].tx - 1
  BY <1>7
<1>19. /\ full[i].count = Cardinality(Lanes)
       /\ p = Cardinality({l \in Lanes : C!Visits(Committed(l), i) = f})
       /\ full[i].tx = C!Visits(Announced, i) - Landed(i) /\ C!Visits(Announced, i) \in Nat
       /\ C!Visits(Committed(leader), i) <= C!Visits(Announced, i)
       /\ \A l \in Lanes : /\ C!Visits(Committed(l), i) \in Nat
                           /\ f <= C!Visits(Committed(l), i)
                           /\ C!Visits(Committed(l), i) <= f + 1
  BY <1>4, <1>17, FullFields
<1>20. full'[i] = Settle([count |-> Cardinality(Lanes), pending |-> p, tx |-> tx, phase |-> f])
       /\ \A j \in C!Index : j # i => full'[j] = full[j]
  <2>1. full'[i] = CompleteTransaction(full[i], 1) /\ \A j \in C!Index : j # i => full'[j] = full[j]
    BY <1>7, <1>11
  <2>2. CompleteTransaction(full[i], 1)
          = Settle([count |-> full[i].count, pending |-> full[i].pending, tx |-> full[i].tx - 1,
                    phase |-> full[i].phase])
    BY <1>7, TxForms
  <2> QED BY <1>4, <1>17, <1>18, <1>19, <2>1, <2>2
<1>21. (FullBarrier(i))'
  <2>1. (Landed(i))' \in Nat /\ f <= (Landed(i))'
    BY <1>6, <1>10, <1>15
  <2>2. tx = C!Visits(Announced', i) - (Landed(i))'
    BY <1>6, <1>14, <1>15, <1>18, <1>19
  <2>3. \A t \in Threads : C!Visits((Waited(t))', i) \in Nat /\ C!Visits((Waited(t))', i) <= f
    BY <1>4, <1>12, Actors, Chain
  <2>4. /\ \A l \in Lanes : /\ C!Visits((Committed(l))', i) \in Nat
                            /\ f <= C!Visits((Committed(l))', i)
                            /\ C!Visits((Committed(l))', i) <= f + 1
        /\ C!Visits(Announced', i) \in Nat
        /\ C!Visits((Committed(leader))', i) <= C!Visits(Announced', i)
    BY <1>14, <1>19, Actors
  <2>5. p = Cardinality({l \in Lanes : C!Visits((Committed(l))', i) = f})
    <3>1. {l \in Lanes : C!Visits((Committed(l))', i) = f} = {l \in Lanes : C!Visits(Committed(l), i) = f}
      BY <1>14
    <3> QED BY <1>19, <3>1
  <2> QED BY <1>1, <1>7, <1>20, <2>1, <2>2, <2>3, <2>4, <2>5, FullStep
<1>22. ASSUME NEW j \in C!Index PROVE (FullBarrier(j))' /\ (EmptyBarrier(j))'
  <2>1. FullBarrier(j) /\ EmptyBarrier(j)
    BY DEF IInv
  <2>2. ASSUME j # i PROVE (FullBarrier(j))'
    <3>1. full[j].phase <= Landed(j) /\ \A t \in Threads : C!Visits(Waited(t), j) <= full[j].phase
      BY <2>1 DEF FullBarrier
    <3>2. full'[j] = full[j] /\ (Landed(j))' = Landed(j)
      BY <1>16, <1>20, <2>2
    <3> QED BY <1>1, <1>12, <1>14, <2>1, <2>2, <3>1, <3>2, FullFrame
  <2>3. (FullBarrier(j))'
    BY <1>21, <2>2
  <2>4. (EmptyBarrier(j))'
    <3>1. \A k \in Lanes : C!Visits((Acquired(k))', j) <= empty[j].phase + 1
      BY <1>14, <2>1 DEF EmptyBarrier
    <3> QED BY <1>1, <1>12, <2>1, <3>1, EmptyFrame
  <2> QED BY <2>3, <2>4
<1>23. Shape'
  <2>1. DOMAIN smem' = Slots /\ \A s \in Slots : DOMAIN smem'[s] = Threads
    <3>1. \A s \in Slots : s # SlotC(i) => smem'[s] = smem[s]
      BY <1>11, SlotWrite
    <3>2. smem'[SlotC(i)] = g /\ DOMAIN g = Threads /\ DOMAIN smem' = Slots
      BY <1>5, <1>11, SlotWrite
    <3>3. \A s \in Slots : DOMAIN smem[s] = Threads
      BY DEF IInv, Shape
    <3> QED BY <3>1, <3>2, <3>3
  <2>2. full' \in [C!Index -> [count : Nat, pending : Nat, tx : Int, phase : Nat]]
    <3>1. full'[i] \in [count : Nat, pending : Nat, tx : Int, phase : Nat]
      BY <1>20, SettleType, Actors, FS_CardinalityType
    <3>2. full' = [full EXCEPT ![i] = full'[i]]
      BY <1>7, <1>11
    <3> QED BY <1>7, <3>1, <3>2
  <2> QED BY <1>1, <2>1, <2>2, PolicyFrame DEF IInv, Shape, threads, lanes
<1>24. LoadsInFlight'
  BY <1>1, <1>13, <1>14 DEF IInv, LoadsInFlight
<1>25. StoresInFlight'
  BY <1>1, <1>12, StoresStay, Actors DEF IInv, threads
<1>26. SameLayout' => SourcesAreThere'
  <2> SUFFICES ASSUME SameLayout PROVE SourcesAreThere'
    BY <1>13
  <2>1. SourcesAreThere
    BY DEF IInv
  <2>2. \A m \in Nat : m # n /\ m < LoadsIssued' /\ <<m, m % StagesC>> \notin loading'
                        => m < LoadsIssued /\ (<<m, m % StagesC>> \in loading => m % StagesC = n % StagesC)
    BY <1>1, <1>6, <1>14
  <2>3. \A m \in Nat : m % StagesC = n % StagesC => m < n + StagesC \/ LoadsIssued' <= m
    BY <1>7, <1>8, <1>14
  <2>4. LoadsIssued' \in Nat /\ empty[n % StagesC].phase >= n \div StagesC
        /\ smem' = [smem EXCEPT ![SlotC(n % StagesC)] = g]
    BY <1>6, <1>7, <1>10, <1>11, <1>14
  <2> QED BY <1>1, <1>5, <1>9, <2>1, <2>2, <2>3, <2>4, SourcesAfterLoad
<1>27. ResultsAreThere'
  <2>1. /\ empty[n % StagesC].phase >= n \div StagesC /\ full[n % StagesC].phase <= n \div StagesC
        /\ smem' = [smem EXCEPT ![SlotC(n % StagesC)] = g]
    BY <1>4, <1>6, <1>10, <1>11
  <2> QED BY <1>1, <1>9, <2>1, ResultsAvoidLoad
<1> QED BY <1>12, <1>13, <1>14, <1>22, <1>23, <1>24, <1>25, <1>26, <1>27 DEF IInv

-----------------------------------------------------------------------------
(* 7. The invariant holds when the block starts.                           *)
LEMMA InitInv == Init => IInv
<1> SUFFICES ASSUME Init PROVE IInv
  OBVIOUS
<1>1. /\ policy \in Policies
      /\ full = [i \in C!Index |-> TxInit(Cardinality(Lanes))]
      /\ empty = [i \in C!Index |-> BarrierInit(Cardinality(Threads))]
      /\ smem = [s \in Slots |-> [t \in Threads |-> <<"torn", 0>>]]
      /\ loading = {} /\ storing = {}
  BY DEF Init
<1>2. /\ NumSubtiles \in Nat /\ LoadNeeded \in BOOLEAN /\ StagesC \in Nat \ {0}
      /\ UnacquiredStages \in Nat /\ ReuseSmemC \in BOOLEAN
  BY <1>1, PolicyType
<1>3. Cardinality(Lanes) \in Nat \ {0} /\ Cardinality(Threads) \in Nat \ {0}
  BY Actors, FS_CardinalityType, FS_EmptySet
<1>4. /\ C!StateAt(1, 0) \in C!Cursor /\ C!StateAt(0, 0) \in C!Cursor /\ D!StateAt(1, 0) \in D!Cursor
      /\ C!StateAt(1, 0).count = 0 /\ C!StateAt(0, 0).count = 0 /\ D!StateAt(1, 0).count = 0
  <2>1. 0 \in Nat /\ 0 \in {0, 1} /\ 1 \in {0, 1}
    OBVIOUS
  <2> QED BY <1>1, <2>1, Cursors, CursorFields
<1>5. /\ lpc = [l \in Lanes |-> IF LoadNeeded THEN "next" ELSE "exit"]
      /\ lstate = [l \in Lanes |-> C!StateAt(1, 0)]
      /\ tpc = [t \in Threads |-> "begin"] /\ sub = [t \in Threads |-> 0]
      /\ written = [t \in Threads |-> FALSE]
      /\ wstate = [t \in Threads |-> C!StateAt(0, 0)]
      /\ rstate = [t \in Threads |-> C!StateAt(0, 0)]
      /\ sstate = [t \in Threads |-> D!StateAt(1, 0)]
      /\ issued = [t \in Threads |-> 0] /\ left = [t \in Threads |-> 0]
  BY <1>1, Cursors DEF Init
<1>6. Shape
  <2>1. full \in [C!Index -> [count : Nat, pending : Nat, tx : Int, phase : Nat]]
    BY <1>1, <1>3 DEF TxInit
  <2>2. empty \in [C!Index -> Barrier]
    BY <1>1, <1>3 DEF BarrierInit, Barrier
  <2>3. DOMAIN smem = Slots /\ \A s \in Slots : DOMAIN smem[s] = Threads
    BY <1>1
  <2>4. lpc \in [Lanes -> {"next", "copy", "expect", "commit", "exit"}] /\ lstate \in [Lanes -> C!Cursor]
    BY <1>4, <1>5
  <2>5. /\ tpc \in [Threads -> {"begin", "wait", "read", "free", "write", "sync", "issue",
                                "acquire", "resync", "finish", "tail", "exit"}]
        /\ sub \in [Threads -> Nat] /\ written \in [Threads -> BOOLEAN]
        /\ issued \in [Threads -> Nat] /\ left \in [Threads -> Nat]
    BY <1>5
  <2>6. wstate \in [Threads -> C!Cursor] /\ rstate \in [Threads -> C!Cursor]
        /\ sstate \in [Threads -> D!Cursor]
    BY <1>4, <1>5
  <2> QED BY <1>1, <2>1, <2>2, <2>3, <2>4, <2>5, <2>6 DEF Shape
<1>7. ASSUME NEW l \in Lanes
      PROVE  LaneCursor(l) /\ Committed(l) = 0 /\ Acquired(l) = 0
  <2>1. /\ lpc[l] = (IF LoadNeeded THEN "next" ELSE "exit")
        /\ lstate[l] = C!StateAt(1, 0) /\ lstate[l].count = 0
    BY <1>4, <1>5
  <2> QED BY <1>2, <2>1 DEF LaneCursor, Committed, Acquired
<1>8. LoadsIssued = 0 /\ Announced = 0
  <2>1. lpc[leader] = (IF LoadNeeded THEN "next" ELSE "exit") /\ Committed(leader) = 0
    BY <1>5, <1>7, Actors
  <2> QED BY <2>1 DEF LoadsIssued, Announced
<1>9. ASSUME NEW t \in Threads
      PROVE  /\ SourceCursor(t) /\ StoreCursor(t) /\ FreeCursor(t)
             /\ Waited(t) = 0 /\ Freed(t) = 0 /\ Wrote(t) = 0 /\ Stored(t) = 0 /\ Passed(t) = 0
  <2>1. /\ tpc[t] = "begin" /\ sub[t] = 0 /\ written[t] = FALSE /\ issued[t] = 0 /\ left[t] = 0
        /\ rstate[t] = C!StateAt(0, 0) /\ sstate[t] = D!StateAt(1, 0)
        /\ rstate[t].count = 0 /\ sstate[t].count = 0
    BY <1>4, <1>5
  <2>2. Waited(t) = 0 /\ Freed(t) = 0 /\ Wrote(t) = 0 /\ Stored(t) = 0 /\ Passed(t) = 0
    BY <2>1 DEF Waited, Freed, Wrote, Stored, Passed
  <2>3. SourceCursor(t)
    BY <2>1 DEF SourceCursor
  <2>4. StoreCursor(t)
    BY <1>1, <1>2, <2>1, <2>2, TileBounds DEF StoreCursor
  <2>5. FreeCursor(t)
    BY <1>2, <2>1, <2>2 DEF FreeCursor
  <2> QED BY <2>2, <2>3, <2>4, <2>5
<1>10. ASSUME NEW i \in C!Index PROVE FullBarrier(i) /\ EmptyBarrier(i)
  <2>1. C!Visits(0, i) = 0
    BY <1>1, SlotVisits
  <2>2. Landed(i) = 0
    BY <1>1, <1>8, <2>1 DEF Landed
  <2>3. /\ full[i].count = Cardinality(Lanes) /\ full[i].pending = Cardinality(Lanes)
        /\ full[i].tx = 0 /\ full[i].phase = 0
    BY <1>1 DEF TxInit
  <2>4. {l \in Lanes : C!Visits(Committed(l), i) = full[i].phase} = Lanes
    BY <1>7, <2>1, <2>3
  <2>5. \A l \in Lanes : full[i].phase <= C!Visits(Committed(l), i)
    BY <1>7, <2>1, <2>3
  <2>6. \A t \in Threads : C!Visits(Waited(t), i) <= full[i].phase
    BY <1>9, <2>1, <2>3
  <2>7. FullBarrier(i)
    BY <1>3, <1>8, <2>1, <2>2, <2>3, <2>4, <2>5, <2>6 DEF FullBarrier
  <2>8. empty[i] = BarrierInit(Cardinality(Threads))
    BY <1>1
  <2>9. CountedBy(empty[i], Threads, [t \in Threads |-> C!Visits(Freed(t), i)])
    <3>1. \A t \in Threads : [u \in Threads |-> C!Visits(Freed(u), i)][t] = 0
      BY <1>9, <2>1
    <3> QED BY <2>8, <3>1, Actors, CountedInit
  <2>10. empty[i].phase = 0
    BY <2>8 DEF BarrierInit
  <2>11. EmptyBarrier(i)
    BY <1>7, <2>1, <2>9, <2>10 DEF EmptyBarrier
  <2> QED BY <2>7, <2>11
<1>11. LoadsInFlight /\ StoresInFlight
  BY <1>1 DEF LoadsInFlight, StoresInFlight
<1>12. SourcesAreThere
  BY <1>8 DEF SourcesAreThere
<1>13. ResultsAreThere
  BY <1>1, <1>9, Actors DEF ResultsAreThere, Live
<1>14. InStep
  BY <1>9 DEF InStep
<1> QED BY <1>6, <1>7, <1>9, <1>10, <1>11, <1>12, <1>13, <1>14 DEF IInv

-----------------------------------------------------------------------------
(* 8. The math threads and the stores preserve the invariant.              *)

(* What the threads' variables hold. *)
ThreadShape ==
  /\ tpc \in [Threads -> {"begin", "wait", "read", "free", "write", "sync", "issue", "acquire",
                          "resync", "finish", "tail", "exit"}]
  /\ sub \in [Threads -> Nat] /\ written \in [Threads -> BOOLEAN]
  /\ wstate \in [Threads -> C!Cursor] /\ rstate \in [Threads -> C!Cursor]
  /\ sstate \in [Threads -> D!Cursor]
  /\ issued \in [Threads -> Nat] /\ left \in [Threads -> Nat]

(* Thread u takes no step. *)
Rests(u) ==
  /\ tpc'[u] = tpc[u] /\ sub'[u] = sub[u] /\ written'[u] = written[u]
  /\ wstate'[u] = wstate[u] /\ rstate'[u] = rstate[u] /\ sstate'[u] = sstate[u]
  /\ issued'[u] = issued[u] /\ left'[u] = left[u]

(* The load warp and the loads do not step. *)
LEMMA ThreadsStep ==
  ASSUME IInv, policy' = policy, UNCHANGED <<full, lanes, loading>>, ThreadShape',
         DOMAIN smem' = Slots, \A s \in Slots : DOMAIN smem'[s] = Threads,
         empty' \in [C!Index -> Barrier],
         \A u \in Threads : (SourceCursor(u))' /\ (StoreCursor(u))' /\ (FreeCursor(u))', InStep',
         \A u \in Threads : \A i \in C!Index : C!Visits((Waited(u))', i) <= full[i].phase,
         \A i \in C!Index : (EmptyBarrier(i))',
         StoresInFlight', SameLayout' => SourcesAreThere', ResultsAreThere'
  PROVE  IInv'
<1>1. /\ \A l \in Lanes : (LaneCursor(l))'
      /\ \A l \in Lanes : (Acquired(l))' = Acquired(l) /\ (Committed(l))' = Committed(l)
      /\ LoadsIssued' = LoadsIssued /\ Announced' = Announced
      /\ \A i : (Landed(i))' = Landed(i)
      /\ LoadsInFlight'
  BY LanesStay
<1>2. C!Index' = C!Index
  BY PolicyFrame
<1>3. Shape'
  BY PolicyFrame DEF IInv, Shape, ThreadShape, lanes
<1>4. ASSUME NEW i \in C!Index PROVE (FullBarrier(i))'
  <2>1. FullBarrier(i) /\ full[i].phase <= Landed(i)
    BY DEF IInv, FullBarrier
  <2> QED BY <1>1, <2>1, FullFrame
<1> QED BY <1>1, <1>2, <1>3, <1>4 DEF IInv

(* One thread steps, and writes nothing. *)
LEMMA ThreadMoves ==
  ASSUME IInv, policy' = policy, UNCHANGED <<full, smem, lanes, loading>>, ThreadShape',
         storing' = storing, NEW t \in Threads, \A u \in Threads : u # t => Rests(u),
         empty' \in [C!Index -> Barrier], \A i \in C!Index : (EmptyBarrier(i))',
         (SourceCursor(t))', (StoreCursor(t))', (FreeCursor(t))',
         (Passed(t))' = Passed(t), (Wrote(t))' = Wrote(t), (Stored(t))' = Stored(t),
         (ReadCount(t))' \in Nat, ReadCount(t) <= (ReadCount(t))',
         \A i \in C!Index : C!Visits((Waited(t))', i) <= full[i].phase,
         StoresInFlight'
  PROVE  IInv'
<1>1. ASSUME NEW u \in Threads, u # t
      PROVE  /\ (SourceCursor(u))' /\ (StoreCursor(u))' /\ (FreeCursor(u))'
             /\ (Waited(u))' = Waited(u) /\ (ReadCount(u))' = ReadCount(u)
             /\ (Wrote(u))' = Wrote(u) /\ (Stored(u))' = Stored(u) /\ (Passed(u))' = Passed(u)
  BY <1>1, ThreadFrame DEF IInv, Rests
<1>2. \A u \in Threads : (SourceCursor(u))' /\ (StoreCursor(u))' /\ (FreeCursor(u))'
  BY <1>1
<1>3. InStep'
  BY <1>1 DEF IInv, InStep
<1>4. \A u \in Threads : \A i \in C!Index : C!Visits((Waited(u))', i) <= full[i].phase
  BY <1>1, Actors, Chain
<1>5. SameLayout' => SourcesAreThere'
  <2>1. \A u \in Threads : (ReadCount(u))' \in Nat /\ ReadCount(u) <= (ReadCount(u))'
    BY <1>1, ThreadCounts
  <2> QED BY <2>1, LanesStay, SourcesStay
<1>6. ResultsAreThere'
  <2>1. \A u \in Threads : \A n \in Nat : (Live(u, n))' => Live(u, n)
    BY <1>1, LiveStays, Actors
  <2> QED BY <2>1, ResultsStay
<1>7. DOMAIN smem' = Slots /\ \A s \in Slots : DOMAIN smem'[s] = Threads
  BY DEF IInv, Shape
<1> QED BY <1>2, <1>3, <1>4, <1>5, <1>6, <1>7, ThreadsStep

(* No thread arrives at an empty barrier. *)
LEMMA NoRelease ==
  ASSUME IInv, policy' = policy, UNCHANGED <<lanes, loading>>, empty' = empty,
         \A u \in Threads : (Freed(u))' = Freed(u)
  PROVE  empty' \in [C!Index -> Barrier] /\ \A i \in C!Index : (EmptyBarrier(i))'
<1>1. empty' \in [C!Index -> Barrier]
  BY DEF IInv, Shape
<1>2. ASSUME NEW i \in C!Index PROVE (EmptyBarrier(i))'
  <2>1. EmptyBarrier(i)
    BY DEF IInv
  <2>2. \A l \in Lanes : C!Visits((Acquired(l))', i) <= empty[i].phase + 1
    BY <2>1, LanesStay DEF EmptyBarrier
  <2> QED BY <2>1, <2>2, EmptyFrame
<1> QED BY <1>1, <1>2

(* A thread gives back the slot of a subtile whose load it has waited for. *)
LEMMA ReleaseStep ==
  ASSUME IInv, policy' = policy, UNCHANGED <<lanes, loading>>, LoadNeeded, NEW t \in Threads,
         ReleaseSource(t), Freed(t) < Waited(t), \A u \in Threads : u # t => Rests(u)
  PROVE  /\ rstate' \in [Threads -> C!Cursor]
         /\ rstate'[t] = C!StateAt(0, rstate[t].count + 1) /\ rstate'[t].count = rstate[t].count + 1
         /\ (Freed(t))' = Freed(t) + 1
         /\ empty' \in [C!Index -> Barrier] /\ \A i \in C!Index : (EmptyBarrier(i))'
<1>1. PICK n \in Nat : n = rstate[t].count
  BY ThreadCounts
<1>2. PICK i \in C!Index : i = n % StagesC
  BY <1>1, SlotVisits DEF IInv, Shape
<1>3. policy \in Policies /\ rstate \in [Threads -> C!Cursor] /\ empty \in [C!Index -> Barrier]
  BY DEF IInv, Shape
<1>4. rstate[t] = C!StateAt(0, n) /\ rstate[t].index = i /\ Freed(t) = n
  <2>1. rstate[t] = C!StateAt(0, n)
    BY <1>1, ThreadCounts DEF FreeCursor
  <2> QED BY <1>1, <1>2, <2>1, CursorFields DEF Freed
<1>5. /\ rstate' \in [Threads -> C!Cursor] /\ rstate'[t] = C!StateAt(0, n + 1)
      /\ rstate'[t].count = n + 1
  <2>1. rstate' = [rstate EXCEPT ![t] = C!Inc(rstate[t])]
    BY DEF ReleaseSource
  <2>2. C!Inc(C!StateAt(0, n)) = C!StateAt(0, n + 1) /\ C!StateAt(0, n + 1) \in C!Cursor
        /\ C!StateAt(0, n + 1).count = n + 1
    BY <1>3, Cursors, CursorFields
  <2>3. rstate' = [rstate EXCEPT ![t] = C!StateAt(0, n + 1)]
    BY <1>4, <2>1, <2>2
  <2> QED BY <1>3, <2>2, <2>3
<1>6. (Freed(t))' = n + 1
  BY <1>5, PolicyFrame DEF Freed
<1>7. \A u \in Threads : u # t => (Freed(u))' = Freed(u)
  BY PolicyFrame DEF Freed, Rests
<1>8. empty' = [empty EXCEPT ![i] = Arrive(empty[i])]
  BY <1>4 DEF ReleaseSource
<1>9. \A j, m : (C!Visits(m, j))' = C!Visits(m, j)
  BY PolicyFrame
<1>10. /\ C!Visits(n, i) = empty[i].phase /\ C!Visits(n + 1, i) = C!Visits(n, i) + 1
       /\ \A u \in Threads : /\ C!Visits(Freed(u), i) \in Nat
                             /\ C!Visits(Freed(u), i) <= empty[i].phase + 1
       /\ C!Visits(n, i) \in Nat /\ empty[i].phase \in Nat
  <2>1. Waited(t) \in Nat /\ n < Waited(t)
    BY <1>4, ThreadCounts
  <2>2. C!Visits(n, i) \in Nat /\ C!Visits(n + 1, i) = C!Visits(n, i) + 1
    <3>1. C!Visits(n + 1, i) = C!Visits(n, i) + IF i = n % StagesC THEN 1 ELSE 0
      BY <1>3, SlotVisits
    <3> QED BY <1>2, <1>3, <3>1, SlotVisits
  <2>3. C!Visits(n + 1, i) <= C!Visits(Waited(t), i)
    <3>1. n + 1 \in Nat /\ n + 1 <= Waited(t)
      BY <2>1
    <3> QED BY <1>3, <2>1, <3>1, SlotVisits
  <2>4. ASSUME NEW u \in Threads
        PROVE  /\ empty[i].phase <= C!Visits(Freed(u), i) /\ C!Visits(Freed(u), i) \in Nat
               /\ C!Visits(Freed(u), i) <= C!Visits(Waited(u), i)
               /\ C!Visits(Waited(u), i) <= empty[i].phase + 1
               /\ C!Visits(Waited(u), i) \in Nat /\ empty[i].phase \in Nat
    <3>1. /\ empty[i].phase \in Nat /\ full[i].phase \in Nat
          /\ C!Visits(Freed(u), i) \in Nat /\ C!Visits(Waited(u), i) \in Nat
          /\ empty[i].phase <= C!Visits(Freed(u), i)
          /\ C!Visits(Freed(u), i) <= C!Visits(Waited(u), i)
          /\ C!Visits(Waited(u), i) <= full[i].phase
          /\ full[i].phase <= C!Visits(Committed(leader), i)
          /\ C!Visits(Committed(leader), i) \in Nat /\ C!Visits(Acquired(leader), i) \in Nat
          /\ C!Visits(Committed(leader), i) <= C!Visits(Acquired(leader), i)
          /\ C!Visits(Acquired(leader), i) <= empty[i].phase + 1
      BY Actors, Chain
    <3> QED BY <3>1
  <2>5. \A u \in Threads : /\ C!Visits(Freed(u), i) \in Nat
                           /\ C!Visits(Freed(u), i) <= empty[i].phase + 1
    <3> TAKE u \in Threads
    <3>1. /\ C!Visits(Freed(u), i) \in Nat /\ C!Visits(Waited(u), i) \in Nat /\ empty[i].phase \in Nat
          /\ C!Visits(Freed(u), i) <= C!Visits(Waited(u), i)
          /\ C!Visits(Waited(u), i) <= empty[i].phase + 1
      BY <2>4
    <3> QED BY <3>1
  <2>6. C!Visits(n, i) = empty[i].phase /\ empty[i].phase \in Nat
    <3>1. /\ empty[i].phase <= C!Visits(n, i) /\ C!Visits(Waited(t), i) <= empty[i].phase + 1
          /\ C!Visits(Waited(t), i) \in Nat /\ empty[i].phase \in Nat
      BY <1>4, <2>4
    <3> QED BY <2>2, <2>3, <3>1
  <2> QED BY <2>2, <2>5, <2>6
<1>11. empty'[i] = Arrive(empty[i]) /\ \A j \in C!Index : j # i => empty'[j] = empty[j]
  BY <1>3, <1>8
<1> DEFINE v == [u \in Threads |-> C!Visits(Freed(u), i)]
           w == [u \in Threads |-> C!Visits((Freed(u))', i)]
<1>12. CountedBy(Arrive(empty[i]), Threads, w) /\ Arrive(empty[i]).phase >= empty[i].phase
  <2>1. CountedBy(empty[i], Threads, v)
    BY DEF IInv, EmptyBarrier
  <2>2. v[t] = empty[i].phase /\ w[t] = v[t] + 1
    BY <1>4, <1>6, <1>10
  <2>3. \A u \in Threads : u # t => w[u] = v[u]
    BY <1>7
  <2>4. v \in [Threads -> Nat] /\ \A u \in Threads : v[u] <= empty[i].phase + 1
    BY <1>10
  <2>5. w \in [Threads -> Nat]
    <3>1. \A u \in Threads : w[u] \in Nat
      <4> TAKE u \in Threads
      <4>1. CASE u = t
        BY <2>2, <2>4, <4>1
      <4>2. CASE u # t
        BY <2>3, <2>4, <4>2
      <4> QED BY <4>1, <4>2
    <3> QED BY <3>1
  <2> HIDE DEF v, w
  <2> QED BY <2>1, <2>2, <2>3, <2>4, <2>5, Actors, CountedArrival
<1>13. Arrive(empty[i]) \in Barrier
  BY <1>12 DEF CountedBy
<1>14. empty' \in [C!Index -> Barrier]
  BY <1>3, <1>8, <1>13
<1>15. \A l \in Lanes : (Acquired(l))' = Acquired(l)
  BY LanesStay
<1>16. (EmptyBarrier(i))'
  <2>1. ([u \in Threads |-> C!Visits(Freed(u), i)])' = w
    BY <1>9
  <2>2. CountedBy(empty'[i], Threads, w)
    BY <1>11, <1>12
  <2>3. \A l \in Lanes : C!Visits((Acquired(l))', i) <= empty'[i].phase + 1
    <3> TAKE l \in Lanes
    <3>1. C!Visits(Acquired(l), i) <= empty[i].phase + 1 /\ C!Visits(Acquired(l), i) \in Nat
          /\ empty[i].phase \in Nat
      BY Actors, Chain
    <3>2. empty'[i].phase \in Nat /\ empty'[i].phase >= empty[i].phase
      BY <1>11, <1>12, <1>13 DEF Barrier
    <3> QED BY <1>15, <3>1, <3>2
  <2> HIDE DEF w
  <2> QED BY <1>9, <2>1, <2>2, <2>3 DEF EmptyBarrier, CountedBy
<1>17. ASSUME NEW j \in C!Index, j # i PROVE (EmptyBarrier(j))'
  <2>1. EmptyBarrier(j) /\ empty'[j] = empty[j]
    BY <1>11, <1>17 DEF IInv
  <2>2. C!Visits((Freed(t))', j) = C!Visits(Freed(t), j)
    <3>1. C!Visits(n + 1, j) = C!Visits(n, j) + IF j = n % StagesC THEN 1 ELSE 0
      BY <1>3, SlotVisits
    <3>2. C!Visits(n, j) \in Nat
      BY <1>3, SlotVisits
    <3> QED BY <1>2, <1>4, <1>6, <1>17, <3>1, <3>2
  <2>3. \A u \in Threads : C!Visits((Freed(u))', j) = C!Visits(Freed(u), j)
    BY <1>7, <2>2
  <2>4. \A l \in Lanes : C!Visits((Acquired(l))', j) <= empty[j].phase + 1
    BY <1>15, <2>1 DEF EmptyBarrier
  <2> QED BY <2>1, <2>3, <2>4, EmptyFrame
<1> QED BY <1>1, <1>4, <1>5, <1>6, <1>14, <1>16, <1>17

(* The issuer neither starts to wait for its stores nor leaves. *)
LEMMA StoresKeep ==
  ASSUME StoresInFlight, policy' = policy, storing' = storing,
         (Stored(issuer))' = Stored(issuer),
         tpc'[issuer] = "acquire" <=> tpc[issuer] = "acquire",
         tpc'[issuer] \in {"tail", "exit"} => tpc[issuer] \in {"tail", "exit"}
  PROVE  StoresInFlight'
<1>1. StagesD' = StagesD /\ UnacquiredStages' = UnacquiredStages /\ StoreStages' = StoreStages
      /\ \A i : (SlotD(i))' = SlotD(i)
  BY PolicyFrame
<1> QED BY <1>1 DEF StoresInFlight

(* The cursor of the stores with the other phase is that of the loads. *)
LEMMA FlippedCursor ==
  ASSUME policy \in Policies, ReuseSmemC, NEW n \in Nat
  PROVE  [D!StateAt(1, n) EXCEPT !.phase = C!Flip(@)] = C!StateAt(0, n)
<1>1. StoreStages = StagesC
  BY PolicyType
<1> DEFINE q == n \div StagesC
           r == n % StagesC
<1>2. q \in Nat
  BY SlotVisits
<1>3. D!StateAt(1, n) = [index |-> r, phase |-> (1 + q) % 2, count |-> n]
  BY <1>1 DEF D!StateAt
<1>4. C!StateAt(0, n) = [index |-> r, phase |-> (0 + q) % 2, count |-> n]
  BY DEF C!StateAt
<1> HIDE DEF q, r
<1>5. 1 - ((1 + q) % 2) = (0 + q) % 2
  BY <1>2
<1> QED BY <1>3, <1>4, <1>5 DEF C!Flip

(* store() is entered. *)
LEMMA BeginStoreInv ==
  ASSUME IInv, NEW t \in Threads, BeginStore(t)
  PROVE  IInv'
<1>1. /\ tpc[t] = "begin" /\ sub[t] < NumSubtiles
      /\ wstate' = [wstate EXCEPT ![t] =
           IF ReuseSmemC THEN [sstate[t] EXCEPT !.phase = C!Flip(@)] ELSE rstate[t]]
      /\ tpc' = [tpc EXCEPT ![t] = LoopBody(sub[t])]
      /\ UNCHANGED <<policy, full, empty, smem, loading, storing, lanes, sub, written, rstate,
                     sstate, issued, left>>
  BY DEF BeginStore, Goto
<1>2. /\ policy \in Policies /\ ThreadShape /\ StoresInFlight
      /\ LoadNeeded \in BOOLEAN /\ ReuseSmemC \in BOOLEAN /\ DelayTmaStore \in BOOLEAN
  BY PolicyType DEF IInv, Shape, ThreadShape
<1>3. /\ SourceCursor(t) /\ StoreCursor(t) /\ FreeCursor(t) /\ sub[t] \in Nat
      /\ rstate[t].count \in Nat
  BY ThreadCounts
<1>4. /\ FirstOfTile(sub[t]) /\ written[t] = FALSE /\ Stored(t) = sub[t]
      /\ sstate[t] = D!StateAt(1, sub[t]) /\ issued[t] = sub[t]
  BY <1>1, <1>2, <1>3 DEF StoreCursor, ThreadShape
<1>5. LoopBody(sub[t]) = IF LoadNeeded THEN "wait" ELSE "write"
  BY <1>4 DEF LoopBody, Combined
<1>6. /\ tpc'[t] = (IF LoadNeeded THEN "wait" ELSE "write")
      /\ wstate'[t] = (IF ReuseSmemC THEN C!StateAt(0, sub[t]) ELSE rstate[t])
      /\ \A u \in Threads : u # t => Rests(u)
  <2>1. ReuseSmemC => [sstate[t] EXCEPT !.phase = C!Flip(@)] = C!StateAt(0, sub[t])
    BY <1>2, <1>3, <1>4, FlippedCursor
  <2> QED BY <1>1, <1>2, <1>5, <2>1 DEF ThreadShape, Rests
<1>7. /\ NumSubtiles' = NumSubtiles /\ LoadNeeded' = LoadNeeded /\ ReuseSmemC' = ReuseSmemC
      /\ DelayTmaStore' = DelayTmaStore /\ UnacquiredStages' = UnacquiredStages
      /\ C!Cursor' = C!Cursor /\ D!Cursor' = D!Cursor
      /\ \A p, n : (C!StateAt(p, n))' = C!StateAt(p, n)
      /\ \A p, n : (D!StateAt(p, n))' = D!StateAt(p, n)
      /\ \A n : (FirstOfTile(n))' = FirstOfTile(n) /\ (LastOfTile(n))' = LastOfTile(n)
  BY <1>1, PolicyFrame
<1>8. ThreadShape'
  <2>1. wstate'[t] \in C!Cursor
    <3>1. C!StateAt(0, sub[t]) \in C!Cursor /\ rstate[t] \in C!Cursor
      BY <1>2, <1>3, Cursors DEF ThreadShape
    <3> QED BY <1>6, <3>1
  <2>2. wstate' = [wstate EXCEPT ![t] = wstate'[t]]
    BY <1>1, <1>2 DEF ThreadShape
  <2> QED BY <1>1, <1>2, <1>5, <1>7, <2>1, <2>2 DEF ThreadShape
<1>9. /\ (Stored(t))' = Stored(t) /\ (Wrote(t))' = Wrote(t) /\ (Freed(t))' = Freed(t)
      /\ (Passed(t))' = Passed(t)
      /\ (ReadCount(t))' = (IF LoadNeeded THEN sub[t] ELSE sub[t] + 1) /\ ReadCount(t) = sub[t]
      /\ (Waited(t))' = Waited(t)
  BY <1>1, <1>2, <1>6, <1>7 DEF Stored, Wrote, Freed, Passed, ReadCount, Waited
<1>10. LoadNeeded => wstate'[t] = C!StateAt(0, sub[t])
  BY <1>1, <1>3, <1>6 DEF FreeCursor
<1>11. (SourceCursor(t))'
  BY <1>6, <1>7, <1>9, <1>10 DEF SourceCursor
<1>12. (StoreCursor(t))'
  BY <1>1, <1>2, <1>3, <1>4, <1>6, <1>7, <1>9 DEF StoreCursor
<1>13. (FreeCursor(t))'
  BY <1>1, <1>2, <1>3, <1>6, <1>7, <1>9 DEF FreeCursor
<1>14. StoresInFlight'
  <2>1. (Stored(issuer))' = Stored(issuer)
    BY <1>1 DEF Stored
  <2>2. \/ /\ tpc'[issuer] = "acquire" <=> tpc[issuer] = "acquire"
           /\ tpc'[issuer] \notin {"tail", "exit"}
        \/ tpc'[issuer] = tpc[issuer]
    BY <1>1, <1>6, Actors DEF Rests
  <2> QED BY <1>1, <1>2, <2>1, <2>2, StoresKeep
<1>15. \A i \in C!Index : C!Visits((Waited(t))', i) <= full[i].phase
  BY <1>9, Actors, Chain
<1>16. empty' \in [C!Index -> Barrier] /\ \A i \in C!Index : (EmptyBarrier(i))'
  <2>1. \A u \in Threads : (Freed(u))' = Freed(u)
    BY <1>1, <1>7 DEF Freed
  <2> QED BY <1>1, <2>1, NoRelease
<1>17. (ReadCount(t))' \in Nat /\ ReadCount(t) <= (ReadCount(t))'
  BY <1>3, <1>9
<1> QED BY <1>1, <1>6, <1>8, <1>9, <1>11, <1>12, <1>13, <1>14, <1>15, <1>16, <1>17, ThreadMoves

(* consumer_wait: the parity is exact. *)
LEMMA WaitSourceInv ==
  ASSUME IInv, NEW t \in Threads, WaitSource(t)
  PROVE  IInv'
<1>1. /\ tpc[t] = "wait" /\ PhaseDone(full[wstate[t].index], wstate[t].phase)
      /\ tpc' = [tpc EXCEPT ![t] = "read"]
      /\ UNCHANGED <<policy, full, empty, smem, loading, storing, lanes, sub, written, wstate,
                     rstate, sstate, issued, left>>
  BY DEF WaitSource, Goto
<1>2. /\ policy \in Policies /\ ThreadShape /\ StoresInFlight
      /\ ReuseSmemC \in BOOLEAN /\ DelayTmaStore \in BOOLEAN
  BY PolicyType DEF IInv, Shape, ThreadShape
<1>3. SourceCursor(t) /\ StoreCursor(t) /\ FreeCursor(t)
  BY ThreadCounts
<1>4. PICK n \in Nat : n = sub[t]
  BY ThreadCounts
<1>5. PICK i \in C!Index : i = n % StagesC
  BY <1>2, SlotVisits
<1>6. PICK q \in Nat : q = n \div StagesC
  BY <1>2, SlotVisits
<1>7. LoadNeeded /\ wstate[t] = C!StateAt(0, n) /\ Waited(t) = n /\ ReadCount(t) = n
  BY <1>1, <1>3, <1>4 DEF SourceCursor, Waited, ReadCount
<1>8. full[i].phase % 2 # (0 + q) % 2
  BY <1>1, <1>5, <1>6, <1>7, CursorFields DEF PhaseDone
<1>9. C!Visits(n, i) = q /\ C!Visits(n + 1, i) = q + 1
  <2>1. C!Visits(n, i) = q
    BY <1>2, <1>5, <1>6, SlotVisits
  <2>2. C!Visits(n + 1, i) = C!Visits(n, i) + IF i = n % StagesC THEN 1 ELSE 0
    BY <1>2, SlotVisits
  <2> QED BY <1>5, <2>1, <2>2
<1>10. full[i].phase \in Nat /\ full[i].phase >= q + 1
  <2>1. /\ empty[i].phase \in Nat /\ full[i].phase \in Nat
        /\ C!Visits(Freed(t), i) \in Nat
        /\ empty[i].phase <= C!Visits(Freed(t), i)
        /\ C!Visits(Freed(t), i) <= C!Visits(Waited(t), i)
        /\ C!Visits(Waited(t), i) <= full[i].phase
        /\ full[i].phase <= C!Visits(Committed(leader), i)
        /\ C!Visits(Committed(leader), i) \in Nat /\ C!Visits(Acquired(leader), i) \in Nat
        /\ C!Visits(Committed(leader), i) <= C!Visits(Acquired(leader), i)
        /\ C!Visits(Acquired(leader), i) <= empty[i].phase + 1
    BY Actors, Chain
  <2>2. C!Visits(Waited(t), i) = q
    BY <1>7, <1>9
  <2>3. full[i].phase = q \/ full[i].phase = q + 1
    BY <2>1, <2>2
  <2> QED BY <1>8, <2>1, <2>3
<1>11. tpc'[t] = "read" /\ \A u \in Threads : u # t => Rests(u)
  BY <1>1, <1>2 DEF ThreadShape, Rests
<1>12. /\ NumSubtiles' = NumSubtiles /\ LoadNeeded' = LoadNeeded /\ ReuseSmemC' = ReuseSmemC
       /\ DelayTmaStore' = DelayTmaStore /\ UnacquiredStages' = UnacquiredStages
       /\ C!Cursor' = C!Cursor /\ D!Cursor' = D!Cursor
       /\ \A p, m : (C!StateAt(p, m))' = C!StateAt(p, m)
       /\ \A p, m : (D!StateAt(p, m))' = D!StateAt(p, m)
       /\ \A m : (FirstOfTile(m))' = FirstOfTile(m) /\ (LastOfTile(m))' = LastOfTile(m)
  BY <1>1, PolicyFrame
<1>13. ThreadShape'
  BY <1>1, <1>2, <1>12 DEF ThreadShape
<1>14. /\ (Stored(t))' = Stored(t) /\ (Wrote(t))' = Wrote(t) /\ (Freed(t))' = Freed(t)
       /\ (Passed(t))' = Passed(t) /\ (ReadCount(t))' = n /\ (Waited(t))' = n + 1
  BY <1>1, <1>4, <1>7, <1>11, <1>12 DEF Stored, Wrote, Freed, Passed, ReadCount, Waited
<1>15. (SourceCursor(t))'
  BY <1>1, <1>7, <1>11, <1>12, <1>14 DEF SourceCursor
<1>16. (StoreCursor(t))'
  BY <1>1, <1>3, <1>11, <1>12, <1>14 DEF StoreCursor
<1>17. (FreeCursor(t))'
  BY <1>1, <1>3, <1>11, <1>12, <1>14 DEF FreeCursor
<1>18. StoresInFlight'
  <2>1. (Stored(issuer))' = Stored(issuer)
    BY <1>1 DEF Stored
  <2>2. (tpc'[issuer] # "acquire" /\ tpc[issuer] # "acquire" /\ tpc'[issuer] \notin {"tail", "exit"})
        \/ tpc'[issuer] = tpc[issuer]
    BY <1>1, <1>11, Actors DEF Rests
  <2> QED BY <1>1, <1>2, <2>1, <2>2, StoresKeep
<1>19. ASSUME NEW j \in C!Index PROVE C!Visits((Waited(t))', j) <= full[j].phase
  <2>1. CASE j = i
    BY <1>9, <1>10, <1>14, <2>1
  <2>2. CASE j # i
    <3>1. C!Visits(n + 1, j) = C!Visits(n, j) + IF j = n % StagesC THEN 1 ELSE 0
      BY <1>2, SlotVisits
    <3>2. C!Visits(n, j) \in Nat
      BY <1>2, SlotVisits
    <3>3. C!Visits(Waited(t), j) <= full[j].phase
      BY Actors, Chain
    <3>4. C!Visits(n + 1, j) = C!Visits(n, j)
      BY <1>5, <2>2, <3>1, <3>2
    <3> QED BY <1>7, <1>14, <3>3, <3>4
  <2> QED BY <2>1, <2>2
<1>20. empty' \in [C!Index -> Barrier] /\ \A j \in C!Index : (EmptyBarrier(j))'
  <2>1. \A u \in Threads : (Freed(u))' = Freed(u)
    BY <1>1, <1>12 DEF Freed
  <2> QED BY <1>1, <2>1, NoRelease
<1>21. (ReadCount(t))' \in Nat /\ ReadCount(t) <= (ReadCount(t))'
  BY <1>7, <1>14
<1> QED BY <1>1, <1>11, <1>13, <1>14, <1>15, <1>16, <1>17, <1>18, <1>19, <1>20, <1>21, ThreadMoves

(* The thread has its piece of C. *)
LEMMA ReadSourceInv ==
  ASSUME IInv, NEW t \in Threads, ReadSource(t)
  PROVE  IInv'
<1>1. /\ tpc[t] = "read" /\ wstate' = [wstate EXCEPT ![t] = C!Inc(@)]
      /\ tpc' = [tpc EXCEPT ![t] = IF ReuseSmemC THEN Combined(sub[t]) ELSE "free"]
      /\ UNCHANGED <<policy, full, empty, smem, loading, storing, lanes, sub, written, rstate,
                     sstate, issued, left>>
  BY DEF ReadSource, Goto
<1>2. /\ policy \in Policies /\ ThreadShape /\ StoresInFlight
      /\ ReuseSmemC \in BOOLEAN /\ DelayTmaStore \in BOOLEAN
  BY PolicyType DEF IInv, Shape, ThreadShape
<1>3. SourceCursor(t) /\ StoreCursor(t) /\ FreeCursor(t)
  BY ThreadCounts
<1>4. PICK n \in Nat : n = sub[t]
  BY ThreadCounts
<1>5. /\ LoadNeeded /\ wstate[t] = C!StateAt(0, n) /\ Waited(t) = n + 1 /\ ReadCount(t) = n
      /\ written[t] = FALSE
  BY <1>1, <1>2, <1>3, <1>4 DEF SourceCursor, StoreCursor, Waited, ReadCount, ThreadShape
<1>6. /\ tpc'[t] = (IF ~ReuseSmemC THEN "free"
                    ELSE IF DelayTmaStore /\ ~FirstOfTile(n) THEN "sync" ELSE "write")
      /\ wstate'[t] = C!StateAt(0, n + 1) /\ C!StateAt(0, n + 1) \in C!Cursor
      /\ \A u \in Threads : u # t => Rests(u)
  <2>1. C!Inc(C!StateAt(0, n)) = C!StateAt(0, n + 1) /\ C!StateAt(0, n + 1) \in C!Cursor
    BY <1>2, Cursors
  <2>2. tpc'[t] = (IF ~ReuseSmemC THEN "free"
                   ELSE IF DelayTmaStore /\ ~FirstOfTile(n) THEN "sync" ELSE "write")
    BY <1>1, <1>2, <1>4 DEF ThreadShape, Combined
  <2>3. wstate'[t] = C!StateAt(0, n + 1)
    BY <1>1, <1>2, <1>5, <2>1 DEF ThreadShape
  <2>4. \A u \in Threads : u # t => Rests(u)
    BY <1>1, <1>2 DEF ThreadShape, Rests
  <2> QED BY <2>1, <2>2, <2>3, <2>4
<1>7. /\ NumSubtiles' = NumSubtiles /\ LoadNeeded' = LoadNeeded /\ ReuseSmemC' = ReuseSmemC
      /\ DelayTmaStore' = DelayTmaStore /\ UnacquiredStages' = UnacquiredStages
      /\ C!Cursor' = C!Cursor /\ D!Cursor' = D!Cursor
      /\ \A p, m : (C!StateAt(p, m))' = C!StateAt(p, m)
      /\ \A p, m : (D!StateAt(p, m))' = D!StateAt(p, m)
      /\ \A m : (FirstOfTile(m))' = FirstOfTile(m) /\ (LastOfTile(m))' = LastOfTile(m)
  BY <1>1, PolicyFrame
<1>8. ThreadShape'
  <2>1. wstate' \in [Threads -> C!Cursor]
    <3>1. wstate' = [wstate EXCEPT ![t] = C!StateAt(0, n + 1)]
      BY <1>1, <1>2, <1>6 DEF ThreadShape
    <3> QED BY <1>2, <1>6, <3>1 DEF ThreadShape
  <2>2. tpc' \in [Threads -> {"begin", "wait", "read", "free", "write", "sync", "issue",
                              "acquire", "resync", "finish", "tail", "exit"}]
    BY <1>1, <1>2 DEF ThreadShape, Combined
  <2> QED BY <1>1, <1>2, <1>7, <2>1, <2>2 DEF ThreadShape
<1>9. /\ (Stored(t))' = Stored(t) /\ (Wrote(t))' = Wrote(t) /\ (Freed(t))' = Freed(t)
      /\ (Passed(t))' = Passed(t) /\ (ReadCount(t))' = n + 1 /\ (Waited(t))' = Waited(t)
  BY <1>1, <1>4, <1>5, <1>6, <1>7 DEF Stored, Wrote, Freed, Passed, ReadCount, Waited
<1>10. (SourceCursor(t))'
  BY <1>2, <1>5, <1>6, <1>7, <1>9 DEF SourceCursor
<1>11. (StoreCursor(t))'
  <2>1. ~FirstOfTile(n) => n - 1 \in Nat
    BY <1>2, NotFirst
  <2> QED BY <1>1, <1>2, <1>3, <1>4, <1>5, <1>6, <1>7, <1>9, <2>1 DEF StoreCursor, Subject
<1>12. (FreeCursor(t))'
  BY <1>1, <1>2, <1>3, <1>4, <1>5, <1>6, <1>7, <1>9 DEF FreeCursor
<1>13. StoresInFlight'
  <2>1. (Stored(issuer))' = Stored(issuer)
    BY <1>1 DEF Stored
  <2>2. (tpc'[issuer] # "acquire" /\ tpc[issuer] # "acquire" /\ tpc'[issuer] \notin {"tail", "exit"})
        \/ tpc'[issuer] = tpc[issuer]
    BY <1>1, <1>6, Actors DEF Rests
  <2> QED BY <1>1, <1>2, <2>1, <2>2, StoresKeep
<1>14. \A i \in C!Index : C!Visits((Waited(t))', i) <= full[i].phase
  BY <1>9, Actors, Chain
<1>15. empty' \in [C!Index -> Barrier] /\ \A i \in C!Index : (EmptyBarrier(i))'
  <2>1. \A u \in Threads : (Freed(u))' = Freed(u)
    BY <1>1, <1>7 DEF Freed
  <2> QED BY <1>1, <2>1, NoRelease
<1>16. (ReadCount(t))' \in Nat /\ ReadCount(t) <= (ReadCount(t))'
  BY <1>5, <1>9
<1> QED BY <1>1, <1>6, <1>8, <1>9, <1>10, <1>11, <1>12, <1>13, <1>14, <1>15, <1>16, ThreadMoves

(* consumer_release without ReuseSmemC. *)
LEMMA FreeSourceInv ==
  ASSUME IInv, NEW t \in Threads, FreeSource(t)
  PROVE  IInv'
<1>1. /\ tpc[t] = "free" /\ ReleaseSource(t) /\ tpc' = [tpc EXCEPT ![t] = Combined(sub[t])]
      /\ rstate' = [rstate EXCEPT ![t] = C!Inc(@)]
      /\ policy' = policy
      /\ UNCHANGED <<full, smem, loading, storing, lanes, sub, written, wstate, sstate,
                     issued, left>>
  BY DEF FreeSource, Goto, ReleaseSource
<1>2. /\ policy \in Policies /\ ThreadShape /\ StoresInFlight
      /\ ReuseSmemC \in BOOLEAN /\ DelayTmaStore \in BOOLEAN
  BY PolicyType DEF IInv, Shape, ThreadShape
<1>3. SourceCursor(t) /\ StoreCursor(t) /\ FreeCursor(t)
  BY ThreadCounts
<1>4. PICK n \in Nat : n = sub[t]
  BY ThreadCounts
<1>5. /\ LoadNeeded /\ ~ReuseSmemC /\ wstate[t] = C!StateAt(0, n + 1)
      /\ Waited(t) = n + 1 /\ ReadCount(t) = n + 1 /\ rstate[t].count = n /\ Freed(t) = n
      /\ written[t] = FALSE
  BY <1>1, <1>2, <1>3, <1>4
     DEF SourceCursor, StoreCursor, FreeCursor, Waited, ReadCount, Freed, ThreadShape
<1>6. /\ tpc'[t] = (IF DelayTmaStore /\ ~FirstOfTile(n) THEN "sync" ELSE "write")
      /\ \A u \in Threads : u # t => Rests(u)
  BY <1>1, <1>2, <1>4 DEF ThreadShape, Combined, Rests
<1>7. /\ rstate' \in [Threads -> C!Cursor]
      /\ rstate'[t] = C!StateAt(0, n + 1) /\ rstate'[t].count = n + 1
      /\ (Freed(t))' = n + 1
      /\ empty' \in [C!Index -> Barrier] /\ \A i \in C!Index : (EmptyBarrier(i))'
  <2>1. Freed(t) < Waited(t)
    BY <1>5
  <2>2. UNCHANGED <<lanes, loading>>
    BY <1>1
  <2> QED BY <1>1, <1>5, <1>6, <2>1, <2>2, ReleaseStep
<1>8. /\ NumSubtiles' = NumSubtiles /\ LoadNeeded' = LoadNeeded /\ ReuseSmemC' = ReuseSmemC
      /\ DelayTmaStore' = DelayTmaStore /\ UnacquiredStages' = UnacquiredStages
      /\ C!Cursor' = C!Cursor /\ D!Cursor' = D!Cursor
      /\ \A p, m : (C!StateAt(p, m))' = C!StateAt(p, m)
      /\ \A p, m : (D!StateAt(p, m))' = D!StateAt(p, m)
      /\ \A m : (FirstOfTile(m))' = FirstOfTile(m) /\ (LastOfTile(m))' = LastOfTile(m)
  BY <1>1, PolicyFrame
<1>9. ThreadShape'
  <2>1. tpc' \in [Threads -> {"begin", "wait", "read", "free", "write", "sync", "issue",
                              "acquire", "resync", "finish", "tail", "exit"}]
    BY <1>1, <1>2 DEF ThreadShape, Combined
  <2> QED BY <1>1, <1>2, <1>7, <1>8, <2>1 DEF ThreadShape
<1>10. /\ (Stored(t))' = Stored(t) /\ (Wrote(t))' = Wrote(t)
       /\ (Passed(t))' = Passed(t) /\ (ReadCount(t))' = n + 1 /\ (Waited(t))' = Waited(t)
  BY <1>1, <1>4, <1>5, <1>6, <1>8 DEF Stored, Wrote, Passed, ReadCount, Waited
<1>11. (SourceCursor(t))'
  BY <1>1, <1>2, <1>5, <1>6, <1>8, <1>10 DEF SourceCursor
<1>12. (StoreCursor(t))'
  <2>1. ~FirstOfTile(n) => n - 1 \in Nat
    BY <1>2, NotFirst
  <2> QED BY <1>1, <1>2, <1>3, <1>4, <1>5, <1>6, <1>8, <1>10, <2>1 DEF StoreCursor, Subject
<1>13. (FreeCursor(t))'
  BY <1>1, <1>2, <1>3, <1>4, <1>5, <1>6, <1>7, <1>8 DEF FreeCursor
<1>14. StoresInFlight'
  <2>1. (Stored(issuer))' = Stored(issuer)
    BY <1>1 DEF Stored
  <2>2. (tpc'[issuer] # "acquire" /\ tpc[issuer] # "acquire" /\ tpc'[issuer] \notin {"tail", "exit"})
        \/ tpc'[issuer] = tpc[issuer]
    BY <1>1, <1>6, Actors DEF Rests
  <2> QED BY <1>1, <1>2, <2>1, <2>2, StoresKeep
<1>15. \A i \in C!Index : C!Visits((Waited(t))', i) <= full[i].phase
  BY <1>10, Actors, Chain
<1>16. (ReadCount(t))' \in Nat /\ ReadCount(t) <= (ReadCount(t))'
  BY <1>5, <1>10
<1> QED BY <1>1, <1>6, <1>7, <1>9, <1>10, <1>11, <1>12, <1>13, <1>14, <1>15, <1>16, ThreadMoves

(* A slot goes back in store_tail. *)
LEMMA TailReleaseInv ==
  ASSUME IInv, NEW t \in Threads, TailRelease(t)
  PROVE  IInv'
<1>1. /\ tpc[t] = "tail" /\ left[t] > 0 /\ ReleaseSource(t)
      /\ left' = [left EXCEPT ![t] = @ - 1]
      /\ rstate' = [rstate EXCEPT ![t] = C!Inc(@)]
      /\ policy' = policy
      /\ UNCHANGED <<full, smem, loading, storing, lanes, tpc, sub, written, wstate,
                     sstate, issued>>
  BY DEF TailRelease, ReleaseSource
<1>2. /\ policy \in Policies /\ ThreadShape /\ StoresInFlight
      /\ LoadNeeded \in BOOLEAN /\ UnacquiredStages \in Nat /\ NumSubtiles \in Nat
  BY PolicyType DEF IInv, Shape, ThreadShape
<1>3. SourceCursor(t) /\ StoreCursor(t) /\ FreeCursor(t)
  BY ThreadCounts
<1>4. PICK n \in Nat : n = rstate[t].count
  BY ThreadCounts
<1>5. /\ LoadNeeded /\ left[t] \in Nat /\ n + left[t] = NumSubtiles /\ left[t] <= UnacquiredStages
      /\ Waited(t) = NumSubtiles /\ ReadCount(t) = NumSubtiles /\ Freed(t) = n
  <2>1. LoadNeeded /\ left[t] \in Nat /\ n + left[t] = NumSubtiles /\ left[t] <= UnacquiredStages
        /\ Freed(t) = n
    BY <1>1, <1>2, <1>3, <1>4 DEF FreeCursor, Freed, ThreadShape
  <2>2. sub[t] = NumSubtiles
    BY <1>1, <1>3 DEF StoreCursor
  <2> QED BY <1>1, <2>1, <2>2 DEF Waited, ReadCount
<1>6. left'[t] = left[t] - 1 /\ left' \in [Threads -> Nat] /\ \A u \in Threads : u # t => Rests(u)
  <2>1. left' = [left EXCEPT ![t] = left[t] - 1] /\ left[t] - 1 \in Nat
    BY <1>1, <1>5
  <2>2. left'[t] = left[t] - 1 /\ left' \in [Threads -> Nat]
    BY <1>2, <2>1 DEF ThreadShape
  <2> QED BY <1>1, <1>2, <2>2 DEF ThreadShape, Rests
<1>7. /\ rstate' \in [Threads -> C!Cursor]
      /\ rstate'[t] = C!StateAt(0, n + 1) /\ rstate'[t].count = n + 1
      /\ (Freed(t))' = n + 1
      /\ empty' \in [C!Index -> Barrier] /\ \A i \in C!Index : (EmptyBarrier(i))'
  <2>1. Freed(t) < Waited(t)
    BY <1>1, <1>2, <1>5
  <2>2. UNCHANGED <<lanes, loading>>
    BY <1>1
  <2> QED BY <1>1, <1>4, <1>5, <1>6, <2>1, <2>2, ReleaseStep
<1>8. /\ NumSubtiles' = NumSubtiles /\ LoadNeeded' = LoadNeeded /\ ReuseSmemC' = ReuseSmemC
      /\ DelayTmaStore' = DelayTmaStore /\ UnacquiredStages' = UnacquiredStages
      /\ C!Cursor' = C!Cursor /\ D!Cursor' = D!Cursor
      /\ \A p, m : (C!StateAt(p, m))' = C!StateAt(p, m)
      /\ \A p, m : (D!StateAt(p, m))' = D!StateAt(p, m)
      /\ \A m : (FirstOfTile(m))' = FirstOfTile(m) /\ (LastOfTile(m))' = LastOfTile(m)
  BY <1>1, PolicyFrame
<1>9. ThreadShape'
  BY <1>1, <1>2, <1>6, <1>7, <1>8 DEF ThreadShape
<1>10. /\ (Stored(t))' = Stored(t) /\ (Wrote(t))' = Wrote(t)
       /\ (Passed(t))' = Passed(t) /\ (ReadCount(t))' = ReadCount(t) /\ (Waited(t))' = Waited(t)
  BY <1>1, <1>8 DEF Stored, Wrote, Passed, ReadCount, Waited
<1>11. (SourceCursor(t))'
  BY <1>1, <1>3, <1>8 DEF SourceCursor
<1>12. (StoreCursor(t))'
  BY <1>1, <1>3, <1>8, <1>10 DEF StoreCursor, Subject
<1>13. (FreeCursor(t))'
  <2>1. n + 1 + (left[t] - 1) = NumSubtiles /\ left[t] - 1 <= UnacquiredStages
    BY <1>2, <1>5
  <2> QED BY <1>1, <1>5, <1>6, <1>7, <1>8, <2>1 DEF FreeCursor
<1>14. StoresInFlight'
  <2>1. (Stored(issuer))' = Stored(issuer)
    BY <1>1 DEF Stored
  <2> QED BY <1>1, <1>2, <2>1, StoresKeep
<1>15. \A i \in C!Index : C!Visits((Waited(t))', i) <= full[i].phase
  BY <1>10, Actors, Chain
<1>16. (ReadCount(t))' \in Nat /\ ReadCount(t) <= (ReadCount(t))'
  BY <1>2, <1>5, <1>10
<1> QED BY <1>1, <1>6, <1>7, <1>9, <1>10, <1>11, <1>12, <1>13, <1>14, <1>15, <1>16, ThreadMoves

(* The issuer has waited until only the last stores may still be reading. *)
LEMMA AcquireStoreInv ==
  ASSUME IInv, NEW t \in Threads, AcquireStore(t)
  PROVE  IInv'
<1>1. /\ tpc[t] = "acquire" /\ StoresRead(t, UnacquiredStages)
      /\ tpc' = [tpc EXCEPT ![t] = "resync"]
      /\ UNCHANGED <<policy, full, empty, smem, loading, storing, lanes, sub, written, wstate,
                     rstate, sstate, issued, left>>
  BY DEF AcquireStore, Goto
<1>2. /\ policy \in Policies /\ ThreadShape /\ StoresInFlight
      /\ UnacquiredStages \in Nat
  BY PolicyType DEF IInv, Shape, ThreadShape
<1>3. SourceCursor(t) /\ StoreCursor(t) /\ FreeCursor(t)
  BY ThreadCounts
<1>4. tpc'[t] = "resync" /\ t = issuer /\ \A u \in Threads : u # t => Rests(u)
  BY <1>1, <1>2, <1>3 DEF ThreadShape, Rests, StoreCursor
<1>5. /\ NumSubtiles' = NumSubtiles /\ LoadNeeded' = LoadNeeded /\ ReuseSmemC' = ReuseSmemC
      /\ DelayTmaStore' = DelayTmaStore /\ UnacquiredStages' = UnacquiredStages
      /\ StoreStages' = StoreStages /\ \A i : (SlotD(i))' = SlotD(i)
      /\ C!Cursor' = C!Cursor /\ D!Cursor' = D!Cursor
      /\ \A p, m : (C!StateAt(p, m))' = C!StateAt(p, m)
      /\ \A p, m : (D!StateAt(p, m))' = D!StateAt(p, m)
      /\ \A m : (FirstOfTile(m))' = FirstOfTile(m) /\ (LastOfTile(m))' = LastOfTile(m)
  BY <1>1, PolicyFrame
<1>6. ThreadShape'
  BY <1>1, <1>2, <1>5 DEF ThreadShape
<1>7. /\ (Stored(t))' = Stored(t) /\ (Wrote(t))' = Wrote(t) /\ (Freed(t))' = Freed(t)
      /\ (Passed(t))' = Passed(t) /\ (ReadCount(t))' = ReadCount(t) /\ (Waited(t))' = Waited(t)
  BY <1>1, <1>4, <1>5 DEF Stored, Wrote, Freed, Passed, ReadCount, Waited
<1>8. (SourceCursor(t))'
  BY <1>1, <1>3, <1>4, <1>5, <1>7 DEF SourceCursor
<1>9. (StoreCursor(t))'
  BY <1>1, <1>3, <1>4, <1>5, <1>7 DEF StoreCursor, Subject
<1>10. (FreeCursor(t))'
  BY <1>1, <1>3, <1>4, <1>5, <1>7 DEF FreeCursor
<1>11. StoresInFlight'
  <2>1. \A x \in storing : Stored(issuer) <= x[1] + UnacquiredStages
    <3> TAKE x \in storing
    <3>1. x[1] + UnacquiredStages >= Stored(issuer)
      BY <1>1, <1>4 DEF StoresRead, Stored
    <3>2. x[1] \in Nat /\ Stored(issuer) \in Nat
      BY StoresAhead, ThreadCounts, Actors
    <3> QED BY <1>2, <3>1, <3>2
  <2>2. tpc'[issuer] = "resync" /\ (Stored(issuer))' = Stored(issuer)
    BY <1>4, <1>7
  <2> QED BY <1>1, <1>2, <1>5, <2>1, <2>2 DEF StoresInFlight
<1>12. \A i \in C!Index : C!Visits((Waited(t))', i) <= full[i].phase
  BY <1>7, Actors, Chain
<1>13. empty' \in [C!Index -> Barrier] /\ \A i \in C!Index : (EmptyBarrier(i))'
  <2>1. \A u \in Threads : (Freed(u))' = Freed(u)
    BY <1>1, <1>5 DEF Freed
  <2> QED BY <1>1, <2>1, NoRelease
<1>14. (ReadCount(t))' \in Nat /\ ReadCount(t) <= (ReadCount(t))'
  BY <1>7, ThreadCounts
<1> QED BY <1>1, <1>4, <1>6, <1>7, <1>8, <1>9, <1>10, <1>11, <1>12, <1>13, <1>14, ThreadMoves

(* store_tail: the slots of the last StagesD - 1 stores are to go back. *)
LEMMA StoreTailInv ==
  ASSUME IInv, NEW t \in Threads, StoreTail(t)
  PROVE  IInv'
<1>1. /\ tpc[t] = "begin" /\ sub[t] = NumSubtiles /\ (t = issuer => StoresRead(t, 0))
      /\ issued' = [issued EXCEPT ![t] = 0]
      /\ left' = [left EXCEPT ![t] =
           IF ~(ReuseSmemC /\ LoadNeeded) \/ NumTiles = 0 THEN 0
           ELSE IF UnacquiredStages < Subtiles THEN UnacquiredStages ELSE Subtiles]
      /\ tpc' = [tpc EXCEPT ![t] = "tail"]
      /\ UNCHANGED <<policy, full, empty, smem, loading, storing, lanes, sub, written, wstate,
                     rstate, sstate>>
  BY DEF StoreTail, Goto
<1>2. /\ policy \in Policies /\ ThreadShape /\ StoresInFlight
      /\ UnacquiredStages \in Nat /\ UnacquiredStages < Subtiles /\ Subtiles \in Nat
      /\ NumTiles \in Nat /\ NumSubtiles \in Nat
      /\ LoadNeeded \in BOOLEAN /\ ReuseSmemC \in BOOLEAN /\ DelayTmaStore \in BOOLEAN
  BY PolicyType DEF IInv, Shape, ThreadShape
<1>3. SourceCursor(t) /\ StoreCursor(t) /\ FreeCursor(t)
  BY ThreadCounts
<1>4. /\ tpc'[t] = "tail" /\ issued'[t] = 0 /\ \A u \in Threads : u # t => Rests(u)
      /\ left'[t] = IF ~(ReuseSmemC /\ LoadNeeded) \/ NumTiles = 0 THEN 0 ELSE UnacquiredStages
  BY <1>1, <1>2 DEF ThreadShape, Rests
<1>5. /\ written[t] = FALSE /\ FirstOfTile(sub[t]) /\ Stored(t) = NumSubtiles
  BY <1>1, <1>2, <1>3 DEF StoreCursor, ThreadShape
<1>6. /\ NumTiles = 0 => NumSubtiles = 0
      /\ NumTiles # 0 => NumSubtiles >= UnacquiredStages
  <2>1. NumSubtiles = Subtiles * NumTiles
    BY DEF NumSubtiles
  <2>2. NumTiles # 0 => Subtiles * NumTiles >= Subtiles
    BY <1>2
  <2> QED BY <1>2, <2>1, <2>2
<1>7. /\ NumSubtiles' = NumSubtiles /\ LoadNeeded' = LoadNeeded /\ ReuseSmemC' = ReuseSmemC
      /\ DelayTmaStore' = DelayTmaStore /\ UnacquiredStages' = UnacquiredStages
      /\ StoreStages' = StoreStages /\ \A i : (SlotD(i))' = SlotD(i)
      /\ C!Cursor' = C!Cursor /\ D!Cursor' = D!Cursor
      /\ \A p, m : (C!StateAt(p, m))' = C!StateAt(p, m)
      /\ \A p, m : (D!StateAt(p, m))' = D!StateAt(p, m)
      /\ \A m : (FirstOfTile(m))' = FirstOfTile(m) /\ (LastOfTile(m))' = LastOfTile(m)
  BY <1>1, PolicyFrame
<1>8. ThreadShape'
  BY <1>1, <1>2, <1>7 DEF ThreadShape
<1>9. /\ (Stored(t))' = Stored(t) /\ (Wrote(t))' = Wrote(t) /\ (Freed(t))' = Freed(t)
      /\ (Passed(t))' = Passed(t) /\ (ReadCount(t))' = ReadCount(t) /\ (Waited(t))' = Waited(t)
  BY <1>1, <1>4, <1>7 DEF Stored, Wrote, Freed, Passed, ReadCount, Waited
<1>10. (SourceCursor(t))'
  BY <1>1, <1>3, <1>4, <1>7, <1>9 DEF SourceCursor
<1>11. (StoreCursor(t))'
  BY <1>1, <1>2, <1>3, <1>4, <1>5, <1>7, <1>9 DEF StoreCursor
<1>12. (FreeCursor(t))'
  <2>1. rstate[t] = C!StateAt(0, rstate[t].count) /\ rstate'[t] = rstate[t]
    BY <1>1, <1>3 DEF FreeCursor
  <2>2. rstate[t].count = IF ReuseSmemC
                          THEN (IF NumSubtiles < UnacquiredStages THEN 0
                                ELSE NumSubtiles - UnacquiredStages)
                          ELSE IF ~LoadNeeded THEN 0 ELSE NumSubtiles
    BY <1>1, <1>3, <1>5 DEF FreeCursor
  <2>3. LoadNeeded => rstate[t].count + left'[t] = NumSubtiles
    <3>1. CASE ~ReuseSmemC
      BY <1>2, <1>4, <2>2, <3>1
    <3>2. CASE ReuseSmemC /\ NumTiles = 0
      BY <1>2, <1>4, <1>6, <2>2, <3>2
    <3>3. CASE ReuseSmemC /\ NumTiles # 0
      BY <1>2, <1>4, <1>6, <2>2, <3>3
    <3> QED BY <3>1, <3>2, <3>3
  <2>4. left'[t] <= UnacquiredStages /\ (~LoadNeeded => left'[t] = 0)
    BY <1>2, <1>4
  <2> QED BY <1>4, <1>7, <2>1, <2>3, <2>4 DEF FreeCursor
<1>13. StoresInFlight'
  <2>1. (Stored(issuer))' = Stored(issuer)
    BY <1>1 DEF Stored
  <2>2. CASE t # issuer
    <3>1. tpc'[issuer] = tpc[issuer]
      BY <1>4, <2>2, Actors DEF Rests
    <3> QED BY <1>1, <1>2, <2>1, <3>1, StoresKeep
  <2>3. CASE t = issuer
    <3>1. ASSUME NEW x \in storing PROVE FALSE
      <4>1. x[1] + 0 >= Stored(issuer)
        BY <1>1, <2>3 DEF StoresRead, Stored
      <4>2. x[1] \in Nat /\ Stored(issuer) \in Nat /\ x[1] < Stored(issuer)
        BY StoresAhead, ThreadCounts, Actors
      <4> QED BY <4>1, <4>2
    <3>2. storing' = {}
      BY <1>1, <3>1
    <3> QED BY <3>2 DEF StoresInFlight
  <2> QED BY <2>2, <2>3
<1>14. \A i \in C!Index : C!Visits((Waited(t))', i) <= full[i].phase
  BY <1>9, Actors, Chain
<1>15. empty' \in [C!Index -> Barrier] /\ \A i \in C!Index : (EmptyBarrier(i))'
  <2>1. \A u \in Threads : (Freed(u))' = Freed(u)
    BY <1>1, <1>7 DEF Freed
  <2> QED BY <1>1, <2>1, NoRelease
<1>16. (ReadCount(t))' \in Nat /\ ReadCount(t) <= (ReadCount(t))'
  BY <1>9, ThreadCounts
<1> QED BY <1>1, <1>4, <1>8, <1>9, <1>10, <1>11, <1>12, <1>13, <1>14, <1>15, <1>16, ThreadMoves

(* A thread leaves. *)
LEMMA ExitInv ==
  ASSUME IInv, NEW t \in Threads, Exit(t)
  PROVE  IInv'
<1>1. /\ tpc[t] = "tail" /\ left[t] = 0 /\ tpc' = [tpc EXCEPT ![t] = "exit"]
      /\ UNCHANGED <<policy, full, empty, smem, loading, storing, lanes, sub, written, wstate,
                     rstate, sstate, issued, left>>
  BY DEF Exit, Goto
<1>2. policy \in Policies /\ ThreadShape /\ StoresInFlight
  BY DEF IInv, Shape, ThreadShape
<1>3. SourceCursor(t) /\ StoreCursor(t) /\ FreeCursor(t)
  BY ThreadCounts
<1>4. tpc'[t] = "exit" /\ \A u \in Threads : u # t => Rests(u)
  BY <1>1, <1>2 DEF ThreadShape, Rests
<1>5. /\ NumSubtiles' = NumSubtiles /\ LoadNeeded' = LoadNeeded /\ ReuseSmemC' = ReuseSmemC
      /\ DelayTmaStore' = DelayTmaStore /\ UnacquiredStages' = UnacquiredStages
      /\ C!Cursor' = C!Cursor /\ D!Cursor' = D!Cursor
      /\ \A p, m : (C!StateAt(p, m))' = C!StateAt(p, m)
      /\ \A p, m : (D!StateAt(p, m))' = D!StateAt(p, m)
      /\ \A m : (FirstOfTile(m))' = FirstOfTile(m) /\ (LastOfTile(m))' = LastOfTile(m)
  BY <1>1, PolicyFrame
<1>6. ThreadShape'
  BY <1>1, <1>2, <1>5 DEF ThreadShape
<1>7. /\ (Stored(t))' = Stored(t) /\ (Wrote(t))' = Wrote(t) /\ (Freed(t))' = Freed(t)
      /\ (Passed(t))' = Passed(t) /\ (ReadCount(t))' = ReadCount(t) /\ (Waited(t))' = Waited(t)
  BY <1>1, <1>4, <1>5 DEF Stored, Wrote, Freed, Passed, ReadCount, Waited
<1>8. (SourceCursor(t))'
  BY <1>1, <1>3, <1>4, <1>5, <1>7 DEF SourceCursor
<1>9. (StoreCursor(t))'
  BY <1>1, <1>3, <1>4, <1>5, <1>7 DEF StoreCursor
<1>10. (FreeCursor(t))'
  BY <1>1, <1>3, <1>4, <1>5, <1>7 DEF FreeCursor
<1>11. StoresInFlight'
  <2>1. (Stored(issuer))' = Stored(issuer)
    BY <1>1 DEF Stored
  <2>2. (t = issuer => tpc'[issuer] = "exit" /\ tpc[issuer] = "tail")
        /\ (t # issuer => tpc'[issuer] = tpc[issuer])
    BY <1>1, <1>4, Actors DEF Rests
  <2> QED BY <1>1, <1>2, <2>1, <2>2, StoresKeep
<1>12. \A i \in C!Index : C!Visits((Waited(t))', i) <= full[i].phase
  BY <1>7, Actors, Chain
<1>13. empty' \in [C!Index -> Barrier] /\ \A i \in C!Index : (EmptyBarrier(i))'
  <2>1. \A u \in Threads : (Freed(u))' = Freed(u)
    BY <1>1, <1>5 DEF Freed
  <2> QED BY <1>1, <2>1, NoRelease
<1>14. (ReadCount(t))' \in Nat /\ ReadCount(t) <= (ReadCount(t))'
  BY <1>7, ThreadCounts
<1> QED BY <1>1, <1>4, <1>6, <1>7, <1>8, <1>9, <1>10, <1>11, <1>12, <1>13, <1>14, ThreadMoves

(* The end of tma_store_fn: perhaps a slot goes back, and on to the next   *)
(* subtile or, after a delayed store, to the write of this one.            *)
LEMMA FinishStoreInv ==
  ASSUME IInv, NEW t \in Threads, FinishStore(t)
  PROVE  IInv'
<1>1. /\ tpc[t] = "finish" /\ policy' = policy
      /\ UNCHANGED <<full, smem, loading, storing, lanes, wstate, sstate, issued, left>>
  BY DEF FinishStore
<1>2. /\ policy \in Policies /\ ThreadShape /\ StoresInFlight
      /\ LoadNeeded \in BOOLEAN /\ ReuseSmemC \in BOOLEAN /\ DelayTmaStore \in BOOLEAN
      /\ UnacquiredStages \in Nat /\ NumSubtiles \in Nat
  BY PolicyType DEF IInv, Shape, ThreadShape
<1>3. SourceCursor(t) /\ StoreCursor(t) /\ FreeCursor(t)
  BY ThreadCounts
<1>4. PICK n \in Nat : n = sub[t]
  BY ThreadCounts
<1>5. PICK s \in Nat : s = Stored(t)
  BY ThreadCounts
<1>6. PICK m \in Nat : m = rstate[t].count
  BY ThreadCounts
<1>7. /\ n < NumSubtiles /\ sstate[t] = D!StateAt(1, s) /\ issued[t] = s
      /\ s = (IF written[t] THEN n + 1 ELSE n) /\ written[t] \in BOOLEAN
      /\ written[t] => (DelayTmaStore => LastOfTile(n))
      /\ ~written[t] => DelayTmaStore /\ ~FirstOfTile(n)
  BY <1>1, <1>2, <1>3, <1>4, <1>5 DEF StoreCursor, Subject, ThreadShape
<1>8. s > 0
  <2>1. ~FirstOfTile(n) => n - 1 \in Nat
    BY <1>2, NotFirst
  <2> QED BY <1>7, <2>1
<1>9. /\ rstate[t] = C!StateAt(0, m) /\ left[t] <= UnacquiredStages
      /\ m = IF ReuseSmemC THEN (IF s - 1 < UnacquiredStages THEN 0 ELSE s - 1 - UnacquiredStages)
             ELSE IF ~LoadNeeded THEN 0 ELSE n + 1
      /\ ~LoadNeeded => left[t] = 0
  BY <1>1, <1>3, <1>4, <1>5, <1>6 DEF FreeCursor
<1>10. /\ LoadNeeded => Waited(t) = n + 1 /\ wstate[t] = C!StateAt(0, n + 1)
       /\ ReadCount(t) = n + 1 /\ Wrote(t) = s /\ (LoadNeeded => Freed(t) = m)
  BY <1>1, <1>2, <1>3, <1>4, <1>6, <1>7 DEF SourceCursor, Waited, ReadCount, Wrote, Freed
<1>11. /\ NumSubtiles' = NumSubtiles /\ LoadNeeded' = LoadNeeded /\ ReuseSmemC' = ReuseSmemC
       /\ DelayTmaStore' = DelayTmaStore /\ UnacquiredStages' = UnacquiredStages
       /\ C!Cursor' = C!Cursor /\ D!Cursor' = D!Cursor
       /\ \A p, k : (C!StateAt(p, k))' = C!StateAt(p, k)
       /\ \A p, k : (D!StateAt(p, k))' = D!StateAt(p, k)
       /\ \A k : (FirstOfTile(k))' = FirstOfTile(k) /\ (LastOfTile(k))' = LastOfTile(k)
  BY <1>1, PolicyFrame
(* where the thread goes *)
<1>12. /\ \A u \in Threads : u # t =>
              tpc'[u] = tpc[u] /\ sub'[u] = sub[u] /\ written'[u] = written[u]
       /\ tpc' \in [Threads -> {"begin", "wait", "read", "free", "write", "sync", "issue",
                                "acquire", "resync", "finish", "tail", "exit"}]
       /\ sub' \in [Threads -> Nat] /\ written' \in [Threads -> BOOLEAN]
       /\ written'[t] = FALSE /\ sub'[t] = s
       /\ tpc'[t] = IF ~written[t] THEN "write" ELSE IF LastOfTile(n) THEN "begin"
                    ELSE IF LoadNeeded THEN "wait" ELSE "write"
  <2>1. CASE written[t]
    <3>1. /\ sub' = [sub EXCEPT ![t] = n + 1] /\ written' = [written EXCEPT ![t] = FALSE]
          /\ tpc' = [tpc EXCEPT ![t] = IF LastOfTile(n) THEN "begin" ELSE LoopBody(n + 1)]
      BY <1>1, <1>4, <2>1 DEF FinishStore, NextSubtile, Goto
    <3>2. ~LastOfTile(n) => LoopBody(n + 1) = IF LoadNeeded THEN "wait" ELSE "write"
      BY <1>7, <2>1 DEF LoopBody, Combined
    <3>3. tpc' = [tpc EXCEPT ![t] = IF LastOfTile(n) THEN "begin"
                                    ELSE IF LoadNeeded THEN "wait" ELSE "write"]
      BY <3>1, <3>2
    <3> QED BY <1>2, <1>7, <2>1, <3>1, <3>3 DEF ThreadShape
  <2>2. CASE ~written[t]
    <3>1. sub' = sub /\ written' = written /\ tpc' = [tpc EXCEPT ![t] = "write"]
      BY <1>1, <2>2 DEF FinishStore, Goto
    <3> QED BY <1>2, <1>4, <1>7, <2>2, <3>1 DEF ThreadShape
  <2> QED BY <1>7, <2>1, <2>2
(* what it gives back *)
<1>12a. PICK k \in Nat : k = IF ReuseSmemC /\ s > UnacquiredStages THEN m + 1 ELSE m
  OBVIOUS
<1>13. /\ rstate' \in [Threads -> C!Cursor] /\ \A u \in Threads : u # t => rstate'[u] = rstate[u]
       /\ rstate'[t] = C!StateAt(0, k) /\ rstate'[t].count = k
       /\ empty' \in [C!Index -> Barrier] /\ \A i \in C!Index : (EmptyBarrier(i))'
  <2>1. CASE ~ReuseSmemC \/ s <= UnacquiredStages
    <3>1. rstate' = rstate /\ empty' = empty /\ k = m
      BY <1>2, <1>7, <1>12a, <2>1 DEF FinishStore
    <3>2. \A u \in Threads : (Freed(u))' = Freed(u)
      BY <1>11, <3>1 DEF Freed
    <3>3. empty' \in [C!Index -> Barrier] /\ \A i \in C!Index : (EmptyBarrier(i))'
      BY <1>1, <3>1, <3>2, NoRelease
    <3> QED BY <1>2, <1>6, <1>9, <3>1, <3>3 DEF ThreadShape
  <2>2. CASE ReuseSmemC /\ s > UnacquiredStages /\ LoadNeeded
    <3>1. ReleaseSource(t) /\ k = m + 1
      BY <1>2, <1>7, <1>12a, <2>2 DEF FinishStore
    <3>2. \A u \in Threads : u # t => rstate'[u] = rstate[u]
      BY <1>2, <3>1 DEF ReleaseSource, ThreadShape
    <3>3. \A u \in Threads : u # t => Rests(u)
      BY <1>1, <1>12, <3>2 DEF Rests
    <3>4. Freed(t) < Waited(t)
      BY <1>2, <1>7, <1>9, <1>10, <2>2
    <3>5. UNCHANGED <<lanes, loading>>
      BY <1>1
    <3> QED BY <1>1, <1>6, <2>2, <3>1, <3>2, <3>3, <3>4, <3>5, ReleaseStep
  <2>3. CASE ReuseSmemC /\ s > UnacquiredStages /\ ~LoadNeeded
    <3>1. rstate' = [rstate EXCEPT ![t] = C!Inc(@)] /\ empty' = empty /\ k = m + 1
      BY <1>2, <1>7, <1>12a, <2>3 DEF FinishStore
    <3>2. C!Inc(C!StateAt(0, m)) = C!StateAt(0, m + 1) /\ C!StateAt(0, m + 1) \in C!Cursor
          /\ C!StateAt(0, m + 1).count = m + 1
      BY <1>2, Cursors, CursorFields
    <3>3. rstate' = [rstate EXCEPT ![t] = C!StateAt(0, m + 1)]
      BY <1>9, <3>1, <3>2
    <3>4. \A u \in Threads : (Freed(u))' = Freed(u)
      BY <1>11, <2>3 DEF Freed
    <3>5. empty' \in [C!Index -> Barrier] /\ \A i \in C!Index : (EmptyBarrier(i))'
      BY <1>1, <3>1, <3>4, NoRelease
    <3>6. /\ rstate' \in [Threads -> C!Cursor] /\ rstate'[t] = C!StateAt(0, m + 1)
          /\ \A u \in Threads : u # t => rstate'[u] = rstate[u]
      BY <1>2, <3>2, <3>3 DEF ThreadShape
    <3>7. k = m + 1 /\ C!StateAt(0, k).count = k
      BY <3>1, CursorFields
    <3> QED BY <3>5, <3>6, <3>7
  <2> QED BY <1>2, <2>1, <2>2, <2>3
<1>14. /\ k \in Nat
       /\ k = IF ReuseSmemC THEN (IF s < UnacquiredStages THEN 0 ELSE s - UnacquiredStages)
              ELSE IF ~LoadNeeded THEN 0 ELSE n + 1
  BY <1>2, <1>8, <1>9, <1>12a
<1>15. \A u \in Threads : u # t => Rests(u)
  BY <1>1, <1>12, <1>13 DEF Rests
<1>16. ThreadShape'
  BY <1>1, <1>2, <1>11, <1>12, <1>13 DEF ThreadShape
<1>17. /\ (Stored(t))' = s /\ (Wrote(t))' = s /\ (Passed(t))' = 2 * s /\ Passed(t) = 2 * s
       /\ (LoadNeeded => (ReadCount(t))' = n + 1 /\ (Waited(t))' = n + 1)
       /\ (~LoadNeeded => (Waited(t))' = 0 /\ Waited(t) = 0)
       /\ (ReadCount(t))' \in Nat /\ n + 1 <= (ReadCount(t))'
  <2>1. (Stored(t))' = s /\ (Wrote(t))' = s
    BY <1>1, <1>5, <1>12 DEF Stored, Wrote
  <2>2. (Passed(t))' = 2 * s /\ Passed(t) = 2 * s
    BY <1>1, <1>5, <1>12, <2>1 DEF Passed
  <2>3. LoadNeeded => (ReadCount(t))' = n + 1 /\ (Waited(t))' = n + 1
    BY <1>7, <1>11, <1>12 DEF ReadCount, Waited
  <2>4. ~LoadNeeded => (Waited(t))' = 0 /\ Waited(t) = 0
    BY <1>11 DEF Waited
  <2>5. (ReadCount(t))' \in Nat /\ n + 1 <= (ReadCount(t))'
    BY <1>7, <1>12 DEF ReadCount
  <2> QED BY <2>1, <2>2, <2>3, <2>4, <2>5
<1>18. (SourceCursor(t))'
  BY <1>1, <1>2, <1>10, <1>11, <1>12, <1>17 DEF SourceCursor
<1>19. (StoreCursor(t))'
  <2>1. /\ LastOfTile(n) => FirstOfTile(n + 1)
        /\ n < NumSubtiles /\ ~LastOfTile(n) => n + 1 < NumSubtiles
    BY <1>2, TileBounds
  <2>2. s <= NumSubtiles /\ (tpc'[t] # "begin" => s < NumSubtiles)
        /\ (tpc'[t] = "begin" => FirstOfTile(s))
    BY <1>2, <1>7, <1>12, <2>1
  <2>3. tpc'[t] = "wait" => ~DelayTmaStore
    BY <1>7, <1>12
  <2>4. tpc'[t] \in {"begin", "wait", "write"}
    BY <1>12
  <2>5. sstate'[t] = D!StateAt(1, s) /\ issued'[t] = s
    BY <1>1, <1>7
  <2> QED BY <1>2, <1>11, <1>12, <1>17, <2>2, <2>3, <2>4, <2>5 DEF StoreCursor
<1>20. (FreeCursor(t))'
  <2>1. tpc'[t] \in {"begin", "wait", "write"} /\ left'[t] = left[t]
    BY <1>1, <1>12
  <2>2. LoadNeeded /\ tpc'[t] \in {"begin", "wait"} => s = n + 1
    BY <1>7, <1>12
  <2>3. LoadNeeded /\ tpc'[t] = "write" => s = n
    BY <1>7, <1>12
  <2> QED BY <1>2, <1>9, <1>11, <1>12, <1>13, <1>14, <1>17, <2>1, <2>2, <2>3 DEF FreeCursor
<1>21. StoresInFlight'
  <2>1. (Stored(issuer))' = Stored(issuer)
    BY <1>1 DEF Stored
  <2>2. (tpc'[issuer] # "acquire" /\ tpc[issuer] # "acquire" /\ tpc'[issuer] \notin {"tail", "exit"})
        \/ tpc'[issuer] = tpc[issuer]
    BY <1>1, <1>12, Actors
  <2> QED BY <1>1, <1>2, <2>1, <2>2, StoresKeep
<1>22. \A i \in C!Index : C!Visits((Waited(t))', i) <= full[i].phase
  <2>1. (Waited(t))' = Waited(t)
    BY <1>2, <1>10, <1>17
  <2> QED BY <2>1, Actors, Chain
<1> QED BY <1>1, <1>5, <1>10, <1>13, <1>15, <1>16, <1>17, <1>18, <1>19, <1>20, <1>21, <1>22, ThreadMoves

(* Between the named barriers all threads are at the same store. *)
LEMMA SameStore ==
  ASSUME IInv, NEW t \in Threads, NEW u \in Threads
  PROVE  /\ tpc[t] \notin {"issue", "acquire", "resync"} =>
              Stored(u) = Stored(t) /\ tpc[u] \notin {"issue", "acquire", "resync"}
         /\ tpc[t] = "issue" => Stored(t) < Wrote(u)
<1>1. /\ Stored(t) \in Nat /\ Stored(u) \in Nat /\ Wrote(u) \in Nat /\ Stored(u) <= Wrote(u)
      /\ Passed(t) = Passed(u) /\ StoreCursor(u) /\ sub[u] \in Nat /\ written[u] \in BOOLEAN
  BY ThreadCounts, ThreadOrder DEF IInv, InStep
<1>2. ASSUME tpc[t] \notin {"issue", "acquire", "resync"}
      PROVE  Stored(u) = Stored(t) /\ tpc[u] \notin {"issue", "acquire", "resync"}
  <2>1. Passed(t) = 2 * Stored(t)
    BY <1>2 DEF Passed
  <2>2. CASE tpc[u] = "issue"
    BY <1>1, <2>1, <2>2 DEF Passed
  <2>3. CASE tpc[u] \in {"acquire", "resync"}
    BY <1>1, <2>1, <2>3 DEF Passed
  <2>4. CASE tpc[u] \notin {"issue", "acquire", "resync"}
    BY <1>1, <2>1, <2>4 DEF Passed
  <2> QED BY <2>2, <2>3, <2>4
<1>3. ASSUME tpc[t] = "issue" PROVE Stored(t) < Wrote(u)
  <2>1. Passed(t) = 2 * Stored(t) + 1
    BY <1>3 DEF Passed
  <2>2. CASE tpc[u] = "issue"
    <3>1. Stored(u) = Stored(t)
      BY <1>1, <2>1, <2>2 DEF Passed
    <3>2. Stored(u) = IF written[u] THEN sub[u] ELSE sub[u] - 1
      BY <1>1, <2>2 DEF StoreCursor, Subject
    <3>3. Wrote(u) = IF written[u] THEN sub[u] + 1 ELSE sub[u]
      BY DEF Wrote
    <3> QED BY <1>1, <3>1, <3>2, <3>3
  <2>3. CASE tpc[u] \in {"acquire", "resync"}
    BY <1>1, <2>1, <2>3 DEF Passed
  <2>4. CASE tpc[u] \notin {"issue", "acquire", "resync"}
    BY <1>1, <2>1, <2>4 DEF Passed
  <2> QED BY <2>2, <2>3, <2>4
<1> QED BY <1>2, <1>3

(* A store is issued: every thread has written its piece of that subtile. *)
LEMMA IssueStoreInv ==
  ASSUME IInv, NEW t \in Threads, IssueStore(t)
  PROVE  IInv'
<1>1. /\ tpc[t] = "issue"
      /\ storing' = IF t = issuer
                    THEN storing \cup {<<sstate[t].count, Subject(t), SlotD(sstate[t].index)>>}
                    ELSE storing
      /\ sstate' = [sstate EXCEPT ![t] = D!Inc(@)]
      /\ issued' = [issued EXCEPT ![t] = @ + 1]
      /\ tpc' = [tpc EXCEPT ![t] = IF t = issuer THEN "acquire" ELSE "resync"]
      /\ UNCHANGED <<policy, full, empty, smem, loading, lanes, sub, written, wstate, rstate,
                     left>>
  BY DEF IssueStore, Goto
<1>2. /\ policy \in Policies /\ ThreadShape /\ StoresInFlight
      /\ UnacquiredStages \in Nat /\ UnacquiredStages = StagesD - 1 /\ StagesD \in Nat \ {0}
      /\ StoreStages \in Nat \ {0}
  BY PolicyType DEF IInv, Shape, ThreadShape
<1>3. SourceCursor(t) /\ StoreCursor(t) /\ FreeCursor(t)
  BY ThreadCounts
<1>4. PICK s \in Nat : s = Stored(t)
  BY ThreadCounts
<1>5. /\ sstate[t] = D!StateAt(1, s) /\ issued[t] = s /\ Subject(t) = s
      /\ sstate[t].count = s /\ sstate[t].index = s % StoreStages
  <2>1. sstate[t] = D!StateAt(1, s) /\ issued[t] = s /\ Subject(t) = s
    BY <1>1, <1>3, <1>4 DEF StoreCursor
  <2> QED BY <2>1, CursorFields
<1>6. /\ tpc'[t] = (IF t = issuer THEN "acquire" ELSE "resync")
      /\ sstate'[t] = D!StateAt(1, s + 1) /\ D!StateAt(1, s + 1) \in D!Cursor
      /\ sstate'[t].count = s + 1 /\ issued'[t] = s + 1
      /\ \A u \in Threads : u # t => Rests(u)
  <2>1. D!Inc(D!StateAt(1, s)) = D!StateAt(1, s + 1) /\ D!StateAt(1, s + 1) \in D!Cursor
        /\ D!StateAt(1, s + 1).count = s + 1
    <3>1. D!Inc(D!StateAt(1, s)) = D!StateAt(1, s + 1)
      BY <1>2, Cursors
    <3>2. s + 1 \in Nat
      OBVIOUS
    <3>3. D!StateAt(1, s + 1) \in D!Cursor
      BY <1>2, <3>2, Cursors
    <3>4. D!StateAt(1, s + 1).count = s + 1
      BY CursorFields
    <3> QED BY <3>1, <3>3, <3>4
  <2>2. sstate' = [sstate EXCEPT ![t] = D!StateAt(1, s + 1)]
    BY <1>1, <1>5, <2>1
  <2>3. sstate'[t] = D!StateAt(1, s + 1)
    BY <1>2, <2>2 DEF ThreadShape
  <2>4. tpc'[t] = (IF t = issuer THEN "acquire" ELSE "resync") /\ issued'[t] = s + 1
    BY <1>1, <1>2, <1>5 DEF ThreadShape
  <2>5. \A u \in Threads : u # t => Rests(u)
    BY <1>1, <1>2 DEF ThreadShape, Rests
  <2>6. sstate'[t].count = s + 1
    BY <2>1, <2>3
  <2> QED BY <2>1, <2>3, <2>4, <2>5, <2>6
<1>7. /\ NumSubtiles' = NumSubtiles /\ LoadNeeded' = LoadNeeded /\ ReuseSmemC' = ReuseSmemC
      /\ DelayTmaStore' = DelayTmaStore /\ UnacquiredStages' = UnacquiredStages
      /\ StagesD' = StagesD /\ StoreStages' = StoreStages /\ \A i : (SlotD(i))' = SlotD(i)
  BY <1>1, PolicyFrame
<1>8. /\ C!Cursor' = C!Cursor /\ D!Cursor' = D!Cursor
      /\ \A p, m : (C!StateAt(p, m))' = C!StateAt(p, m)
      /\ \A p, m : (D!StateAt(p, m))' = D!StateAt(p, m)
      /\ \A m : (FirstOfTile(m))' = FirstOfTile(m) /\ (LastOfTile(m))' = LastOfTile(m)
  BY <1>1, PolicyFrame
<1>9. ThreadShape'
  <2>1. sstate' \in [Threads -> D!Cursor]
    <3>1. sstate' = [sstate EXCEPT ![t] = sstate'[t]]
      BY <1>1, <1>2, <1>6 DEF ThreadShape
    <3> QED BY <1>2, <1>6, <3>1 DEF ThreadShape
  <2> QED BY <1>1, <1>2, <1>8, <2>1 DEF ThreadShape
<1>10. /\ (Stored(t))' = s + 1 /\ (Wrote(t))' = Wrote(t) /\ (Freed(t))' = Freed(t)
       /\ (Passed(t))' = Passed(t) /\ (ReadCount(t))' = ReadCount(t) /\ (Waited(t))' = Waited(t)
       /\ (Subject(t))' = s
  <2>1. (Stored(t))' = s + 1
    BY <1>6 DEF Stored
  <2>2. (Passed(t))' = Passed(t)
    BY <1>1, <1>4, <1>6, <2>1 DEF Passed
  <2> QED BY <1>1, <1>5, <1>6, <1>7, <2>1, <2>2 DEF Wrote, Freed, ReadCount, Waited, Subject
<1>11. (SourceCursor(t))'
  BY <1>1, <1>3, <1>6, <1>7, <1>8, <1>10 DEF SourceCursor
<1>12. (StoreCursor(t))'
  BY <1>1, <1>3, <1>6, <1>7, <1>8, <1>10 DEF StoreCursor
<1>13. (FreeCursor(t))'
  BY <1>1, <1>3, <1>4, <1>6, <1>7, <1>8, <1>10 DEF FreeCursor
<1>14. \A u \in Threads : u # t =>
         /\ (SourceCursor(u))' /\ (StoreCursor(u))' /\ (FreeCursor(u))'
         /\ (Waited(u))' = Waited(u) /\ (ReadCount(u))' = ReadCount(u) /\ (Freed(u))' = Freed(u)
         /\ (Wrote(u))' = Wrote(u) /\ (Stored(u))' = Stored(u) /\ (Passed(u))' = Passed(u)
  BY <1>1, <1>6, ThreadFrame DEF IInv, Rests
<1>15. InStep'
  BY <1>10, <1>14 DEF IInv, InStep
<1>16. StoresInFlight'
  <2>1. CASE t # issuer
    <3>1. (Stored(issuer))' = Stored(issuer) /\ tpc'[issuer] = tpc[issuer] /\ storing' = storing
      BY <1>1, <1>6, <1>14, <2>1, Actors DEF Rests
    <3> QED BY <1>1, <1>2, <3>1, StoresStay
  <2>2. CASE t = issuer
    <3>1. tpc'[issuer] = "acquire" /\ (Stored(issuer))' = s + 1
      BY <1>6, <1>10, <2>2
    <3>2. ASSUME NEW x \in storing'
          PROVE  /\ x = <<x[1], x[1], SlotD(x[1] % StoreStages)>> /\ x[1] \in Nat
                 /\ x[1] < s + 1 /\ s + 1 <= x[1] + StagesD
      <4>1. CASE x \in storing
        <5>1. x = <<x[1], x[1], SlotD(x[1] % StoreStages)>>
          BY <4>1, StoresAhead
        <5>2. x[1] \in Nat /\ x[1] < s /\ s <= x[1] + UnacquiredStages
          BY <1>1, <1>4, <2>2, <4>1, StoresAhead
        <5>3. x[1] < s + 1 /\ s + 1 <= x[1] + StagesD
          BY <1>2, <5>2
        <5> QED BY <5>1, <5>2, <5>3
      <4>2. CASE x \notin storing
        <5>1. x = <<s, s, SlotD(s % StoreStages)>>
          BY <1>1, <1>5, <2>2, <4>2
        <5>2. x[1] = s
          BY <5>1
        <5>3. s < s + 1 /\ s + 1 <= s + StagesD
          BY <1>2
        <5> QED BY <5>1, <5>2, <5>3
      <4> QED BY <4>1, <4>2
    <3> QED BY <1>7, <3>1, <3>2 DEF StoresInFlight
  <2> QED BY <2>1, <2>2
<1>17. \A u \in Threads : \A i \in C!Index : C!Visits((Waited(u))', i) <= full[i].phase
  BY <1>10, <1>14, Actors, Chain
<1>18. empty' \in [C!Index -> Barrier] /\ \A i \in C!Index : (EmptyBarrier(i))'
  <2>1. \A u \in Threads : (Freed(u))' = Freed(u)
    BY <1>10, <1>14
  <2> QED BY <1>1, <2>1, NoRelease
<1>19. SameLayout' => SourcesAreThere'
  <2>1. \A u \in Threads : (ReadCount(u))' \in Nat /\ ReadCount(u) <= (ReadCount(u))'
    BY <1>10, <1>14, ThreadCounts
  <2> QED BY <1>1, <2>1, LanesStay, SourcesStay
<1>20. ResultsAreThere'
  <2>1. ASSUME NEW u \in Threads, NEW n \in Nat, (Live(u, n))' PROVE Live(u, n)
    <3>1. (Wrote(u))' = Wrote(u)
      BY <1>10, <1>14
    <3>2. CASE t # issuer
      <4>1. (Stored(issuer))' = Stored(issuer) /\ storing' = storing
        BY <1>1, <1>14, <3>2, Actors
      <4> QED BY <2>1, <3>1, <4>1 DEF Live
    <3>3. CASE t = issuer
      <4>1. Stored(issuer) = s /\ (Stored(issuer))' = s + 1
        BY <1>4, <1>10, <3>3
      <4>2. CASE s + 1 <= n /\ n < Wrote(u)
        <5>1. s <= n
          BY <4>2
        <5> QED BY <4>1, <4>2, <5>1 DEF Live
      <4>3. CASE \E x \in storing : x[1] = n
        BY <4>3 DEF Live
      <4>4. CASE n = s
        <5>1. s < Wrote(u)
          BY <1>1, <1>4, SameStore
        <5> QED BY <4>1, <4>4, <5>1 DEF Live
      <4>5. (Live(u, n))' => \/ s + 1 <= n /\ n < Wrote(u)
                             \/ \E x \in storing' : x[1] = n
        BY <3>1, <4>1 DEF Live
      <4>6. \A x \in storing' : x \in storing \/ x[1] = s
        BY <1>1, <1>5
      <4> QED BY <2>1, <4>2, <4>3, <4>4, <4>5, <4>6
    <3> QED BY <3>2, <3>3
  <2> QED BY <1>1, <2>1, ResultsStay
<1>21. DOMAIN smem' = Slots /\ \A x \in Slots : DOMAIN smem'[x] = Threads
  BY <1>1 DEF IInv, Shape
<1>22. \A u \in Threads : (SourceCursor(u))' /\ (StoreCursor(u))' /\ (FreeCursor(u))'
  BY <1>11, <1>12, <1>13, <1>14
<1> QED BY <1>1, <1>9, <1>15, <1>16, <1>17, <1>18, <1>19, <1>20, <1>21, <1>22, ThreadsStep

(* A thread writes its piece of a slot of D. *)
LEMMA PieceWrite ==
  ASSUME IInv, NEW j \in D!Index, NEW p \in Threads, NEW v,
         smem' = [smem EXCEPT ![SlotD(j)][p] = v]
  PROVE  /\ DOMAIN smem' = Slots /\ \A x \in Slots : DOMAIN smem'[x] = Threads
         /\ smem'[SlotD(j)][p] = v
         /\ \A x \in Slots : \A u \in Threads : x # SlotD(j) \/ u # p => smem'[x][u] = smem[x][u]
<1>1. /\ DOMAIN smem = Slots /\ SlotD(j) \in Slots
      /\ \A x \in Slots : DOMAIN smem[x] = Threads
  BY SlotNames DEF IInv, Shape
<1>2. smem' = [smem EXCEPT ![SlotD(j)] = [smem[SlotD(j)] EXCEPT ![p] = v]]
  OBVIOUS
<1> DEFINE g == [smem[SlotD(j)] EXCEPT ![p] = v]
<1>3. DOMAIN g = Threads /\ g[p] = v /\ \A u \in Threads : u # p => g[u] = smem[SlotD(j)][u]
  BY <1>1
<1>4. smem'[SlotD(j)] = g /\ DOMAIN smem' = Slots /\ \A x \in Slots : x # SlotD(j) => smem'[x] = smem[x]
  <2> HIDE DEF g
  <2> QED BY <1>1, <1>2 DEF g
<1> HIDE DEF g
<1> QED BY <1>1, <1>3, <1>4

(* The subtile that a thread writes, between two stores: no other live     *)
(* subtile of D is in its slot ...                                         *)
LEMMA WriteAvoidsResults ==
  ASSUME IInv, NEW t \in Threads, tpc[t] = "write", Stored(t) = sub[t],
         NEW u \in Threads, NEW k \in Nat, Live(u, k) \/ k = sub[t],
         k % StoreStages = sub[t] % StoreStages
  PROVE  k = sub[t]
<1>1. PICK n \in Nat : n = sub[t]
  BY ThreadCounts
<1>2. policy \in Policies /\ StagesD \in Nat \ {0} /\ StoreStages \in Nat /\ StagesD <= StoreStages
      /\ UnacquiredStages = StagesD - 1
  BY PolicyType DEF IInv, Shape
<1>3. Stored(issuer) = n /\ Stored(u) = n /\ tpc[issuer] # "acquire"
  BY <1>1, Actors, SameStore
<1>4. Wrote(u) <= n + 1 /\ Wrote(u) \in Nat
  BY <1>3, ThreadOrder, ThreadCounts
<1>5. ASSUME n <= k, k < Wrote(u) PROVE k = n
  BY <1>4, <1>5
<1>6. ASSUME NEW x \in storing, x[1] = k PROVE FALSE
  <2>1. k < n /\ n <= k + UnacquiredStages
    BY <1>3, <1>6, StoresAhead
  <2>2. k + StoreStages <= n
    BY <1>1, <1>2, <2>1, StoreSlotApart
  <2> QED BY <1>2, <2>1, <2>2
<1> QED BY <1>1, <1>3, <1>5, <1>6 DEF Live

(* ... and, with the same layout, no piece of C that its thread has yet to *)
(* read.                                                                   *)
LEMMA WriteAvoidsSources ==
  ASSUME IInv, LoadNeeded, ReuseSmemC, NEW t \in Threads, Stored(t) = sub[t],
         NEW m \in Nat, m < LoadsIssued, m % StagesC = sub[t] % StagesC
  PROVE  m <= sub[t]
<1>1. PICK n \in Nat : n = sub[t]
  BY ThreadCounts
<1> SUFFICES ASSUME n < m PROVE FALSE
  BY <1>1
<1> DEFINE i == n % StagesC
           q == n \div StagesC
           r == m \div StagesC
<1>2. policy \in Policies /\ i \in C!Index /\ q \in Nat /\ r \in Nat
  BY SlotVisits DEF IInv, Shape
<1>3. q + 1 <= r /\ m % StagesC = i
  BY <1>1, <1>2, SlotApart
<1>4. C!Visits(LoadsIssued, i) >= r + 1 /\ C!Visits(LoadsIssued, i) \in Nat
  <2>1. C!Visits(LoadsIssued, m % StagesC) >= (m \div StagesC) + 1
    BY <1>2, LoadCounts, SlotBeyond
  <2> QED BY <1>2, <1>3, <2>1, LoadCounts, SlotVisits
<1>5. C!Visits(Freed(t), i) <= q
  <2>1. Freed(t) \in Nat /\ Freed(t) <= n
    BY <1>1, ThreadOrder, ThreadCounts
  <2> QED BY <1>2, <2>1, SlotBeyond
<1>6. /\ empty[i].phase \in Nat /\ C!Visits(Freed(t), i) \in Nat
      /\ empty[i].phase <= C!Visits(Freed(t), i)
      /\ C!Visits(LoadsIssued, i) <= C!Visits(Acquired(leader), i)
      /\ C!Visits(Acquired(leader), i) <= empty[i].phase + 1
      /\ C!Visits(Acquired(leader), i) \in Nat
  <2> HIDE DEF i
  <2> QED BY <1>2, Actors, Chain
<1> HIDE DEF i, q, r
<1> QED BY <1>2, <1>3, <1>4, <1>5, <1>6

(* A thread writes its piece of D.  Its store is next or, delayed, comes   *)
(* in the body of the next subtile.                                        *)
LEMMA WriteSubtileInv ==
  ASSUME IInv, NEW t \in Threads, WriteSubtile(t)
  PROVE  IInv'
<1>1. /\ tpc[t] = "write" /\ policy' = policy
      /\ smem' = [smem EXCEPT ![SlotD(sstate[t].index)][DPlace[t]] = <<"D", sub[t]>>]
      /\ UNCHANGED <<full, empty, loading, storing, lanes, wstate, rstate, sstate, issued, left>>
  BY DEF WriteSubtile
<1>2. /\ policy \in Policies /\ ThreadShape /\ StoresInFlight
      /\ LoadNeeded \in BOOLEAN /\ ReuseSmemC \in BOOLEAN /\ DelayTmaStore \in BOOLEAN
      /\ UnacquiredStages \in Nat /\ NumSubtiles \in Nat /\ DPlace \in [Threads -> Threads]
  BY PolicyType DEF IInv, Shape, ThreadShape
<1>3. SourceCursor(t) /\ StoreCursor(t) /\ FreeCursor(t)
  BY ThreadCounts
<1>4. PICK n \in Nat : n = sub[t]
  BY ThreadCounts
<1>5. PICK m \in Nat : m = rstate[t].count
  BY ThreadCounts
<1>6. PICK p \in Threads : p = DPlace[t]
  BY <1>2
<1>7. /\ n < NumSubtiles /\ Stored(t) = n /\ sstate[t] = D!StateAt(1, n) /\ issued[t] = n
      /\ written[t] = FALSE
  BY <1>1, <1>2, <1>3, <1>4 DEF StoreCursor, ThreadShape
<1>8. /\ rstate[t] = C!StateAt(0, m) /\ left[t] <= UnacquiredStages
      /\ m = IF ReuseSmemC THEN (IF n < UnacquiredStages THEN 0 ELSE n - UnacquiredStages)
             ELSE IF ~LoadNeeded THEN 0 ELSE n + 1
      /\ ~LoadNeeded => left[t] = 0
  BY <1>1, <1>3, <1>4, <1>5, <1>7 DEF FreeCursor
<1>9. /\ LoadNeeded => Waited(t) = n + 1 /\ wstate[t] = C!StateAt(0, n + 1)
      /\ ~LoadNeeded => Waited(t) = 0
      /\ ReadCount(t) = n + 1 /\ Wrote(t) = n /\ Passed(t) = 2 * n
  BY <1>1, <1>2, <1>3, <1>4, <1>7 DEF SourceCursor, Waited, ReadCount, Wrote, Passed
<1>10. /\ NumSubtiles' = NumSubtiles /\ LoadNeeded' = LoadNeeded /\ ReuseSmemC' = ReuseSmemC
       /\ DelayTmaStore' = DelayTmaStore /\ UnacquiredStages' = UnacquiredStages
       /\ C!Cursor' = C!Cursor /\ D!Cursor' = D!Cursor
       /\ \A a, k : (C!StateAt(a, k))' = C!StateAt(a, k)
       /\ \A a, k : (D!StateAt(a, k))' = D!StateAt(a, k)
       /\ \A k : (FirstOfTile(k))' = FirstOfTile(k) /\ (LastOfTile(k))' = LastOfTile(k)
  BY <1>1, PolicyFrame
(* where the thread goes *)
<1>11. PICK delayed \in BOOLEAN : delayed = (DelayTmaStore /\ ~LastOfTile(n))
  OBVIOUS
<1>12. delayed => ~FirstOfTile(n + 1) /\ n + 1 < NumSubtiles
  BY <1>2, <1>7, <1>11, TileBounds
<1>13. /\ \A u \in Threads : u # t =>
              tpc'[u] = tpc[u] /\ sub'[u] = sub[u] /\ written'[u] = written[u]
       /\ tpc' \in [Threads -> {"begin", "wait", "read", "free", "write", "sync", "issue",
                                "acquire", "resync", "finish", "tail", "exit"}]
       /\ sub' \in [Threads -> Nat] /\ written' \in [Threads -> BOOLEAN]
       /\ written'[t] = ~delayed /\ sub'[t] = IF delayed THEN n + 1 ELSE n
       /\ tpc'[t] = IF delayed /\ LoadNeeded THEN "wait" ELSE "sync"
  <2>1. CASE delayed
    <3>1. /\ sub' = [sub EXCEPT ![t] = n + 1] /\ written' = [written EXCEPT ![t] = FALSE]
          /\ tpc' = [tpc EXCEPT ![t] = LoopBody(n + 1)]
      BY <1>1, <1>4, <1>11, <2>1 DEF WriteSubtile, NextSubtile, Goto
    <3>2. LoopBody(n + 1) = IF LoadNeeded THEN "wait" ELSE "sync"
      BY <1>11, <1>12, <2>1 DEF LoopBody, Combined
    <3>3. tpc' = [tpc EXCEPT ![t] = IF LoadNeeded THEN "wait" ELSE "sync"]
      BY <3>1, <3>2
    <3>4. /\ \A u \in Threads : u # t =>
                tpc'[u] = tpc[u] /\ sub'[u] = sub[u] /\ written'[u] = written[u]
          /\ tpc' \in [Threads -> {"begin", "wait", "read", "free", "write", "sync", "issue",
                                   "acquire", "resync", "finish", "tail", "exit"}]
          /\ sub' \in [Threads -> Nat] /\ written' \in [Threads -> BOOLEAN]
          /\ sub'[t] = n + 1 /\ tpc'[t] = IF LoadNeeded THEN "wait" ELSE "sync"
      BY <1>2, <3>1, <3>3 DEF ThreadShape
    <3>5. written'[t] = FALSE
      BY <1>2, <3>1 DEF ThreadShape
    <3> QED BY <2>1, <3>4, <3>5
  <2>2. CASE ~delayed
    <3>1. sub' = sub /\ written' = [written EXCEPT ![t] = TRUE] /\ tpc' = [tpc EXCEPT ![t] = "sync"]
      BY <1>1, <1>4, <1>11, <2>2 DEF WriteSubtile, Goto
    <3> QED BY <1>2, <1>4, <2>2, <3>1 DEF ThreadShape
  <2> QED BY <2>1, <2>2
<1>14. \A u \in Threads : u # t => Rests(u)
  BY <1>1, <1>13 DEF Rests
<1>15. ThreadShape'
  BY <1>1, <1>2, <1>10, <1>13 DEF ThreadShape
<1>16. /\ (Stored(t))' = n /\ (Wrote(t))' = n + 1 /\ (Passed(t))' = 2 * n
       /\ (Freed(t))' = Freed(t) /\ (Waited(t))' = Waited(t)
       /\ (LoadNeeded => (ReadCount(t))' = n + 1)
       /\ (ReadCount(t))' \in Nat /\ n + 1 <= (ReadCount(t))'
       /\ tpc'[t] = "sync" => (Subject(t))' = n
  <2>1. (Stored(t))' = n
    BY <1>1, <1>7 DEF Stored
  <2>2. (Wrote(t))' = n + 1
    BY <1>13 DEF Wrote
  <2>3. (Passed(t))' = 2 * n
    BY <1>13, <2>1 DEF Passed
  <2>4. (Freed(t))' = Freed(t)
    BY <1>1, <1>10 DEF Freed
  <2>5. (Waited(t))' = Waited(t)
    BY <1>9, <1>10, <1>13 DEF Waited
  <2>6. /\ LoadNeeded => (ReadCount(t))' = n + 1
        /\ (ReadCount(t))' \in Nat /\ n + 1 <= (ReadCount(t))'
    BY <1>13 DEF ReadCount
  <2>7. tpc'[t] = "sync" => (Subject(t))' = n
    BY <1>13 DEF Subject
  <2> QED BY <2>1, <2>2, <2>3, <2>4, <2>5, <2>6, <2>7
<1>17. (SourceCursor(t))'
  BY <1>1, <1>2, <1>9, <1>10, <1>13, <1>16 DEF SourceCursor
<1>18. (StoreCursor(t))'
  <2>1. sstate'[t] = D!StateAt(1, n) /\ issued'[t] = n
    BY <1>1, <1>7
  <2> QED BY <1>2, <1>7, <1>10, <1>11, <1>12, <1>13, <1>16, <2>1 DEF StoreCursor
<1>19. (FreeCursor(t))'
  <2>1. rstate'[t] = C!StateAt(0, m) /\ rstate'[t].count = m /\ left'[t] = left[t]
    BY <1>1, <1>5, <1>8
  <2> QED BY <1>2, <1>8, <1>10, <1>13, <1>16, <2>1 DEF FreeCursor
<1>20. \A u \in Threads : u # t =>
         /\ (SourceCursor(u))' /\ (StoreCursor(u))' /\ (FreeCursor(u))'
         /\ (Waited(u))' = Waited(u) /\ (ReadCount(u))' = ReadCount(u) /\ (Freed(u))' = Freed(u)
         /\ (Wrote(u))' = Wrote(u) /\ (Stored(u))' = Stored(u) /\ (Passed(u))' = Passed(u)
  BY <1>1, <1>14, ThreadFrame DEF IInv, Rests
<1>21. InStep'
  BY <1>9, <1>16, <1>20 DEF IInv, InStep
<1>22. StoresInFlight'
  <2>1. (Stored(issuer))' = Stored(issuer)
    BY <1>1 DEF Stored
  <2>2. (tpc'[issuer] # "acquire" /\ tpc[issuer] # "acquire" /\ tpc'[issuer] \notin {"tail", "exit"})
        \/ tpc'[issuer] = tpc[issuer]
    BY <1>1, <1>13, Actors
  <2> QED BY <1>1, <1>2, <2>1, <2>2, StoresKeep
<1>23. \A u \in Threads : \A i \in C!Index : C!Visits((Waited(u))', i) <= full[i].phase
  BY <1>16, <1>20, Actors, Chain
<1>24. empty' \in [C!Index -> Barrier] /\ \A i \in C!Index : (EmptyBarrier(i))'
  <2>1. \A u \in Threads : (Freed(u))' = Freed(u)
    BY <1>16, <1>20
  <2> QED BY <1>1, <2>1, NoRelease
(* what it writes *)
<1>25. PICK j \in D!Index : j = n % StoreStages
  BY <1>2, Cursors
<1>26. /\ DOMAIN smem' = Slots /\ \A x \in Slots : DOMAIN smem'[x] = Threads
       /\ smem'[SlotD(j)][p] = <<"D", n>> /\ SlotD(j) \in Slots
       /\ \A x \in Slots : \A u \in Threads : x # SlotD(j) \/ u # p => smem'[x][u] = smem[x][u]
  <2>1. sstate[t].index = j
    BY <1>7, <1>25, CursorFields
  <2>2. smem' = [smem EXCEPT ![SlotD(j)][p] = <<"D", n>>]
    BY <1>1, <1>4, <1>6, <2>1
  <2>3. SlotD(j) \in Slots
    BY <1>2, SlotNames
  <2> QED BY <2>2, <2>3, PieceWrite
<1>27. SameLayout' => SourcesAreThere'
  <2>1. /\ LoadsIssued' = LoadsIssued /\ loading' = loading /\ StagesC' = StagesC
        /\ SameLayout' = SameLayout /\ \A i : (SlotC(i))' = SlotC(i)
    BY <1>1, LanesStay, PolicyFrame
  <2>2. ASSUME SameLayout, NEW u \in Threads, NEW k \in Nat, (ReadCount(u))' <= k,
               k < LoadsIssued, <<k, k % StagesC>> \notin loading
        PROVE  smem'[SlotC(k % StagesC)][u] = <<"C", k>>
    <3>1. ReadCount(u) <= k
      BY <1>9, <1>16, <1>20, <2>2
    <3>2. smem[SlotC(k % StagesC)][u] = <<"C", k>>
      BY <2>2, <3>1 DEF IInv, SourcesAreThere
    <3>3. SlotC(k % StagesC) \in Slots
      BY <1>2, SlotVisits, SlotNames
    <3>4. CASE SlotC(k % StagesC) # SlotD(j) \/ u # p
      BY <1>26, <3>2, <3>3, <3>4
    <3>5. ASSUME SlotC(k % StagesC) = SlotD(j), u = p PROVE FALSE
      <4>1. ReuseSmemC /\ k % StagesC = n % StagesC
        <5>1. ReuseSmemC /\ k % StagesC = j
          BY <1>2, <3>5, SlotNames
        <5> QED BY <1>2, <1>25, <5>1, PolicyType
      <4>2. u = t
        BY <1>6, <2>2, <3>5, <4>1 DEF SameLayout
      <4>3. n < k
        BY <1>16, <2>2, <4>2
      <4>4. LoadNeeded
        <5> SUFFICES ASSUME ~LoadNeeded PROVE FALSE
          OBVIOUS
        <5>1. LaneCursor(leader) /\ NumSubtiles \in Nat
          BY <1>2, Actors, LaneCounts
        <5>2. lpc[leader] = "exit" /\ lstate[leader].count = 0
          BY <5>1 DEF LaneCursor
        <5>3. LoadsIssued = 0
          BY <5>1, <5>2 DEF LoadsIssued, Committed
        <5> QED BY <2>2, <5>3
      <4>5. k <= n
        BY <1>4, <1>7, <2>2, <4>1, <4>4, WriteAvoidsSources
      <4> QED BY <4>3, <4>5
    <3> QED BY <3>4, <3>5
  <2> QED BY <2>1, <2>2 DEF SourcesAreThere
<1>28. ResultsAreThere'
  <2>1. StoreStages' = StoreStages /\ DPlace' = DPlace /\ \A i : (SlotD(i))' = SlotD(i)
    BY <1>1, PolicyFrame
  <2>2. ASSUME NEW u \in Threads, NEW k \in Nat, (Live(u, k))'
        PROVE  Live(u, k) \/ (u = t /\ k = n)
    <3>1. (Stored(issuer))' = Stored(issuer) /\ storing' = storing
      BY <1>1 DEF Stored
    <3>2. CASE u # t
      <4>1. (Wrote(u))' = Wrote(u)
        BY <1>20, <3>2
      <4> QED BY <2>2, <3>1, <4>1 DEF Live
    <3>3. CASE u = t
      <4>1. (Wrote(u))' = n + 1 /\ Wrote(u) = n
        BY <1>9, <1>16, <3>3
      <4>2. k < n + 1 => k < n \/ k = n
        OBVIOUS
      <4> QED BY <2>2, <3>1, <3>3, <4>1, <4>2 DEF Live
    <3> QED BY <3>2, <3>3
  <2>3. ASSUME NEW u \in Threads, NEW k \in Nat, (Live(u, k))'
        PROVE  smem'[SlotD(k % StoreStages)][DPlace[u]] = <<"D", k>>
    <3>1. DPlace[u] \in Threads /\ SlotD(k % StoreStages) \in Slots
      BY <1>2, Cursors, SlotNames
    <3>2. CASE u = t /\ k = n
      BY <1>6, <1>25, <1>26, <3>2
    <3>3. CASE Live(u, k) /\ k % StoreStages = n % StoreStages /\ DPlace[u] = p
      <4>1. k = n
        BY <1>1, <1>4, <1>7, <3>3, WriteAvoidsResults
      <4> QED BY <1>25, <1>26, <3>3, <4>1
    <3>4. CASE Live(u, k) /\ (k % StoreStages # n % StoreStages \/ DPlace[u] # p)
      <4>1. smem[SlotD(k % StoreStages)][DPlace[u]] = <<"D", k>>
        BY <3>4 DEF IInv, ResultsAreThere
      <4>2. SlotD(k % StoreStages) # SlotD(j) \/ DPlace[u] # p
        BY <1>2, <1>25, <3>4, SlotNames
      <4> QED BY <1>26, <3>1, <4>1, <4>2
    <3> QED BY <2>2, <2>3, <3>2, <3>3, <3>4
  <2> QED BY <2>1, <2>3 DEF ResultsAreThere
<1>29. \A u \in Threads : (SourceCursor(u))' /\ (StoreCursor(u))' /\ (FreeCursor(u))'
  BY <1>17, <1>18, <1>19, <1>20
<1>30. UNCHANGED <<full, lanes, loading>>
  BY <1>1
<1> QED BY <1>1, <1>15, <1>21, <1>22, <1>23, <1>24, <1>26, <1>27, <1>28, <1>29, <1>30, ThreadsStep

(* All threads pass the named barrier, before or after a store is issued.  *)
LEMMA SynchronizeInv ==
  ASSUME IInv, NEW here, NEW there, Synchronize(here, there),
         \/ here = "sync" /\ there = "issue"
         \/ here = "resync" /\ there = "finish"
  PROVE  IInv'
<1>1. /\ \A u \in Threads : tpc[u] = here /\ tpc'[u] = there
      /\ tpc' = [u \in Threads |-> there] /\ policy' = policy
      /\ UNCHANGED <<full, empty, smem, loading, storing, lanes, sub, written, wstate, rstate,
                     sstate, issued, left>>
  BY DEF Synchronize
<1>2. /\ policy \in Policies /\ ThreadShape /\ StoresInFlight
      /\ LoadNeeded \in BOOLEAN /\ ReuseSmemC \in BOOLEAN
  BY PolicyType DEF IInv, Shape, ThreadShape
<1>3. /\ NumSubtiles' = NumSubtiles /\ LoadNeeded' = LoadNeeded /\ ReuseSmemC' = ReuseSmemC
      /\ DelayTmaStore' = DelayTmaStore /\ UnacquiredStages' = UnacquiredStages
      /\ C!Cursor' = C!Cursor /\ D!Cursor' = D!Cursor
      /\ \A p, k : (C!StateAt(p, k))' = C!StateAt(p, k)
      /\ \A p, k : (D!StateAt(p, k))' = D!StateAt(p, k)
      /\ \A k : (FirstOfTile(k))' = FirstOfTile(k) /\ (LastOfTile(k))' = LastOfTile(k)
  BY <1>1, PolicyFrame
<1>4. ThreadShape'
  <2>1. tpc' \in [Threads -> {"begin", "wait", "read", "free", "write", "sync", "issue",
                              "acquire", "resync", "finish", "tail", "exit"}]
    BY <1>1
  <2> QED BY <1>1, <1>2, <1>3, <2>1 DEF ThreadShape
<1>5. ASSUME NEW u \in Threads
      PROVE  /\ (Waited(u))' = Waited(u) /\ (ReadCount(u))' = ReadCount(u)
             /\ (Freed(u))' = Freed(u) /\ (Wrote(u))' = Wrote(u) /\ (Stored(u))' = Stored(u)
             /\ (Passed(u))' = Passed(u) + 1 /\ (Subject(u))' = Subject(u)
             /\ Passed(u) \in Int
  <2>1. tpc[u] = here /\ tpc'[u] = there
    BY <1>1
  <2>2. /\ (Waited(u))' = Waited(u) /\ (ReadCount(u))' = ReadCount(u)
        /\ (Freed(u))' = Freed(u) /\ (Wrote(u))' = Wrote(u) /\ (Stored(u))' = Stored(u)
        /\ (Subject(u))' = Subject(u)
    BY <1>1, <1>3, <2>1 DEF Waited, ReadCount, Freed, Wrote, Stored, Subject
  <2>3. PICK s \in Nat : s = Stored(u)
    BY ThreadCounts
  <2>4. (Passed(u))' = Passed(u) + 1 /\ Passed(u) \in Int
    BY <2>1, <2>2, <2>3 DEF Passed
  <2> QED BY <2>2, <2>4
<1>6. ASSUME NEW u \in Threads
      PROVE  (SourceCursor(u))' /\ (StoreCursor(u))' /\ (FreeCursor(u))'
  <2>1. tpc[u] = here /\ tpc'[u] = there
    BY <1>1
  <2>2. SourceCursor(u) /\ StoreCursor(u) /\ FreeCursor(u)
    BY ThreadCounts
  <2>3. (SourceCursor(u))'
    BY <1>1, <1>3, <1>5, <2>1, <2>2 DEF SourceCursor
  <2>4. (StoreCursor(u))'
    BY <1>1, <1>3, <1>5, <2>1, <2>2 DEF StoreCursor
  <2>5. (FreeCursor(u))'
    BY <1>1, <1>3, <1>5, <2>1, <2>2 DEF FreeCursor
  <2> QED BY <2>3, <2>4, <2>5
<1>7. InStep'
  BY <1>5 DEF IInv, InStep
<1>8. StoresInFlight'
  <2>1. (Stored(issuer))' = Stored(issuer) /\ tpc[issuer] = here /\ tpc'[issuer] = there
    BY <1>1, <1>5, Actors
  <2> QED BY <1>1, <1>2, <2>1, StoresKeep
<1>9. \A u \in Threads : \A i \in C!Index : C!Visits((Waited(u))', i) <= full[i].phase
  BY <1>5, Actors, Chain
<1>10. empty' \in [C!Index -> Barrier] /\ \A i \in C!Index : (EmptyBarrier(i))'
  <2>1. \A u \in Threads : (Freed(u))' = Freed(u)
    BY <1>5
  <2> QED BY <1>1, <2>1, NoRelease
<1>11. SameLayout' => SourcesAreThere'
  <2>1. \A u \in Threads : (ReadCount(u))' \in Nat /\ ReadCount(u) <= (ReadCount(u))'
    BY <1>5, ThreadCounts
  <2> QED BY <1>1, <2>1, LanesStay, SourcesStay
<1>12. ResultsAreThere'
  <2>1. \A u \in Threads : \A k \in Nat : (Live(u, k))' => Live(u, k)
    BY <1>1, <1>5, Actors, LiveStays
  <2> QED BY <1>1, <2>1, ResultsStay
<1>13. DOMAIN smem' = Slots /\ \A x \in Slots : DOMAIN smem'[x] = Threads
  BY <1>1 DEF IInv, Shape
<1> QED BY <1>1, <1>4, <1>6, <1>7, <1>8, <1>9, <1>10, <1>11, <1>12, <1>13, ThreadsStep

(* The load warp and the threads rest; stores may end. *)
LEMMA Idle ==
  ASSUME IInv, storing' \subseteq storing,
         UNCHANGED <<policy, full, empty, smem, loading, lanes, threads>>
  PROVE  IInv'
<1>1. /\ policy' = policy /\ UNCHANGED threads /\ UNCHANGED <<full, lanes, loading>>
      /\ smem' = smem /\ empty' = empty /\ tpc' = tpc
      /\ policy \in Policies /\ ThreadShape /\ StoresInFlight
  BY DEF IInv, Shape, ThreadShape, threads
<1>2. /\ \A u \in Threads : (SourceCursor(u))' /\ (StoreCursor(u))' /\ (FreeCursor(u))'
      /\ \A u \in Threads : /\ (Waited(u))' = Waited(u) /\ (ReadCount(u))' = ReadCount(u)
                            /\ (Freed(u))' = Freed(u) /\ (Wrote(u))' = Wrote(u)
                            /\ (Stored(u))' = Stored(u)
      /\ InStep'
  BY <1>1, ThreadsStay
<1>3. ThreadShape'
  BY <1>1, PolicyFrame DEF ThreadShape, threads
<1>4. StoresInFlight'
  <2>1. (Stored(issuer))' = Stored(issuer)
    BY <1>2, Actors
  <2>2. StagesD' = StagesD /\ UnacquiredStages' = UnacquiredStages /\ StoreStages' = StoreStages
        /\ \A i : (SlotD(i))' = SlotD(i)
    BY <1>1, PolicyFrame
  <2> QED BY <1>1, <2>1, <2>2 DEF StoresInFlight
<1>5. \A u \in Threads : \A i \in C!Index : C!Visits((Waited(u))', i) <= full[i].phase
  BY <1>2, Actors, Chain
<1>6. empty' \in [C!Index -> Barrier] /\ \A i \in C!Index : (EmptyBarrier(i))'
  BY <1>1, <1>2, NoRelease
<1>7. SameLayout' => SourcesAreThere'
  <2>1. \A u \in Threads : (ReadCount(u))' \in Nat /\ ReadCount(u) <= (ReadCount(u))'
    BY <1>2, ThreadCounts
  <2> QED BY <1>1, <2>1, LanesStay, SourcesStay
<1>8. ResultsAreThere'
  <2>1. \A u \in Threads : \A k \in Nat : (Live(u, k))' => Live(u, k)
    BY <1>2, Actors, LiveStays
  <2> QED BY <1>1, <2>1, ResultsStay
<1>9. DOMAIN smem' = Slots /\ \A x \in Slots : DOMAIN smem'[x] = Threads
  BY <1>1 DEF IInv, Shape
<1> QED BY <1>1, <1>2, <1>3, <1>4, <1>5, <1>6, <1>7, <1>8, <1>9, ThreadsStep

-----------------------------------------------------------------------------
(* 9. The theorems.                                                        *)

(* Every step preserves the invariant. *)
LEMMA NextInv == IInv /\ [Next]_vars => IInv'
<1> SUFFICES ASSUME IInv, [Next]_vars PROVE IInv'
  OBVIOUS
<1>1. ASSUME NEW l \in Lanes, Lane(l) PROVE IInv'
  BY <1>1, AcquireSlotInv, LoadSourceInv, ExpectTransactionInv, CommitLoadInv, LoadTailInv DEF Lane
<1>2. ASSUME NEW t \in Threads, Thread(t) PROVE IInv'
  <2>1. CASE BeginStore(t) \/ WaitSource(t) \/ ReadSource(t) \/ FreeSource(t) \/ WriteSubtile(t)
    BY <2>1, BeginStoreInv, WaitSourceInv, ReadSourceInv, FreeSourceInv, WriteSubtileInv
  <2>2. CASE IssueStore(t) \/ AcquireStore(t) \/ FinishStore(t)
    BY <2>2, IssueStoreInv, AcquireStoreInv, FinishStoreInv
  <2>3. CASE StoreTail(t) \/ TailRelease(t) \/ Exit(t)
    BY <2>3, StoreTailInv, TailReleaseInv, ExitInv
  <2> QED BY <1>2, <2>1, <2>2, <2>3 DEF Thread
<1>3. CASE SyncAll
  BY <1>3, SynchronizeInv DEF SyncAll
<1>4. ASSUME NEW x \in loading, LoadLands(x) PROVE IInv'
  BY <1>4, LoadLandsInv
<1>5. ASSUME NEW x \in storing, StoreReads(x) PROVE IInv'
  <2>1. storing' \subseteq storing
        /\ UNCHANGED <<policy, full, empty, smem, loading, lanes, threads>>
    BY <1>5 DEF StoreReads
  <2> QED BY <2>1, Idle
<1>6. CASE UNCHANGED vars
  <2>1. storing' \subseteq storing
        /\ UNCHANGED <<policy, full, empty, smem, loading, lanes, threads>>
    BY <1>6 DEF vars
  <2> QED BY <2>1, Idle
<1>7. CASE Terminated
  BY <1>6, <1>7 DEF Terminated
<1> QED BY <1>1, <1>2, <1>3, <1>4, <1>5, <1>6, <1>7 DEF Next

(* Every step of the epilogue keeps the counts of every slot in a chain,   *)
(* the threads at the same store between the named barriers, and the       *)
(* pieces of C and of D in their places as long as they are needed.        *)
THEOREM Invariance == Spec => []IInv
<1>1. IInv /\ [Next]_vars => IInv'
  BY NextInv
<1> QED BY <1>1, InitInv, PTL DEF Spec

(* Every variable keeps its type, the counters their bounds. *)
THEOREM TypeCorrect == Spec => []TypeOK
BY Invariance, Types, PTL

(* Where C and D have the same layout in the slots that they share, a      *)
(* thread reads its piece of C of exactly the subtile that it combines:    *)
(* consumer_wait by a cursor that, with ReuseSmemC, is that of the stores  *)
(* with the other phase, is enough.  Without ReuseSmemC the layouts may    *)
(* differ; with it, TmaEpilogue_mixed is a counterexample.                 *)
THEOREM SourceIsRead == Spec => [](SameLayout => SourceIsIntact)
BY Invariance, SourceIntact, PTL

(* The store of a subtile copies out what all threads wrote: synchronize   *)
(* before it, producer_acquire after it and the delayed release of the     *)
(* slots keep threads and loads off the slot.                              *)
THEOREM StoresCopyResults == Spec => []StoresAreIntact
BY Invariance, StoresIntact, PTL

(* "at most StagesD committed TMA stores in flight" *)
THEOREM BoundedStores == Spec => []StoresAreBounded
<1>1. IInv => StoresAreBounded
  BY StoresBounded
<1> QED BY <1>1, Invariance, PTL

(* load_tail and store_tail: shared memory is quiet when the block leaves. *)
THEOREM QuietExit == Spec => []NothingOutlivesTheBlock
BY Invariance, NothingOutlives, PTL
=============================================================================
