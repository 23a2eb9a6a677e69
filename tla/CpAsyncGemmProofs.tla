-------------------------- MODULE CpAsyncGemmProofs --------------------------
(***************************************************************************)
(* For every number of stages, threads and k tiles, and every release lag  *)
(* of at least one multiply: IInv is an invariant of CpAsyncGemm, and with *)
(* it the safety properties the runs check.                                *)
(***************************************************************************)
EXTENDS CpAsyncGemmInv, PipelineLemmas

(* The work tiles cut the stream of k tiles into non-empty pieces. *)
LEMMA WorkFacts ==
  /\ Total \in Nat
  /\ \A w \in 1 .. NumWork + 1 : TileStart[w] \in Nat /\ TileStart[w] <= Total
  /\ \A w \in 1 .. NumWork :
       /\ w + 1 \in 1 .. NumWork + 1 /\ w \in 1 .. NumWork + 1
       /\ KTiles(w) \in Nat /\ KTiles(w) > 0
       /\ TileStart[w] + KTiles(w) = TileStart[w + 1]
<1>1. NumWork + 1 \in 1 .. NumWork + 1
  BY WorkAssumption
<1>2. \A w \in 1 .. NumWork + 1 : TileStart[w] \in Nat /\ TileStart[w] <= Total
  BY <1>1, WorkAssumption DEF Total
<1>3. \A w \in 1 .. NumWork : w \in 1 .. NumWork + 1 /\ w + 1 \in 1 .. NumWork + 1 /\ w < w + 1
  BY WorkAssumption
<1>4. \A w \in 1 .. NumWork : TileStart[w] < TileStart[w + 1]
  BY <1>3, WorkAssumption
<1> QED BY <1>1, <1>2, <1>3, <1>4 DEF KTiles, Total

(* The prologue of mma() is no longer than the lag nor the work tile. *)
LEMMA PrologueFacts ==
  ASSUME K_PIPE_MMAS > 0, NEW w \in 1 .. NumWork
  PROVE  /\ Prologue(w) \in Nat /\ Prologue(w) > 0
         /\ Prologue(w) <= K_PIPE_MMAS /\ Prologue(w) <= KTiles(w)
         /\ Prologue(w) < KTiles(w) => Prologue(w) = K_PIPE_MMAS
  BY WorkFacts, PipeAssumption, StagesAssumption DEF Prologue, Min2

(* The invariant holds in the initial state. *)
LEMMA InitIInv == Init => IInv
<1> SUFFICES ASSUME Init PROVE IInv
  OBVIOUS
<1> USE StagesAssumption, ThreadsAssumption, WorkAssumption, WorkFacts
<1>1. Cardinality(Producers) \in Nat \ {0} /\ Cardinality(Consumers) \in Nat \ {0}
  BY FS_CardinalityType, FS_EmptySet
<1>2. 0 \in Index /\ 1 \in 1 .. NumWork + 1 /\ TileStart[1] = 0
  BY DEF Index
<1>3. /\ ProducerStartState = StateAt(1, 0) /\ DefaultState = StateAt(0, 0)
      /\ ProducerStartState \in Cursor /\ DefaultState \in Cursor
  BY StartStates
<1>5. TypeOK
  BY <1>1, <1>2, <1>3 DEF Init, TypeOK, InitBarriers, BarrierInit, Barrier, Content
<1>6. ASSUME NEW p \in Producers PROVE ProducerCursors(p)
  BY <1>2, <1>3 DEF Init, ProducerCursors, Loading, Committed, Min2, ProducerStartState
<1>7. ASSUME NEW c \in Consumers PROVE ConsumerCursors(c)
  BY <1>2, <1>3 DEF Init, ConsumerCursors, Reading, Working, Released, DefaultState
<1>8. ASSUME NEW s \in Index PROVE FullBarrier(s) /\ EmptyBarrier(s)
  <2>1. Visits(0, s) = 0
    BY VisitsZero
  <2>2. /\ \A p \in Producers : Arrived(p) = 0 /\ landed[p] = 0 /\ Committed(p) = 0
                              /\ Granted(p) = 0
        /\ \A c \in Consumers : Seen(c) = 0 /\ Released(c) = 0
    BY DEF Init, Arrived, Committed, Granted, Seen, Released, Min2, DefaultState,
           ProducerStartState
  <2>3. /\ full[s] = BarrierInit(Cardinality(Producers))
        /\ empty[s] = BarrierInit(Cardinality(Consumers))
    BY DEF Init, InitBarriers
  <2>4. /\ full[s].phase = 0 /\ empty[s].phase = 0
        /\ full[s].count = Cardinality(Producers) /\ full[s].pending = Cardinality(Producers)
        /\ empty[s].count = Cardinality(Consumers) /\ empty[s].pending = Cardinality(Consumers)
    BY <2>3 DEF BarrierInit
  <2>5. OwnArrivals(s) = Producers /\ CopyArrivals(s) = {} /\ MissingReleases(s) = Consumers
    BY <2>1, <2>2, <2>4 DEF OwnArrivals, CopyArrivals, MissingReleases
  <2>6. Cardinality({}) = 0
    BY FS_EmptySet
  <2>7. FullBarrier(s)
    BY <1>1, <2>1, <2>2, <2>4, <2>5, <2>6 DEF FullBarrier
  <2>8. EmptyBarrier(s)
    BY <1>1, <2>1, <2>2, <2>4, <2>5 DEF EmptyBarrier
  <2> QED BY <2>7, <2>8
<1>9. SlotContents
  BY DEF Init, SlotContents
<1>10. Accumulated
  BY DEF Init, Accumulated, Working, Reading
<1> QED BY <1>5, <1>6, <1>7, <1>8, <1>9, <1>10 DEF IInv

-----------------------------------------------------------------------------
(***************************************************************************)
(* Types.                                                                  *)
(***************************************************************************)
LEMMA TypePreserved ==
  ASSUME K_PIPE_MMAS > 0, IInv, [Next]_vars
  PROVE  TypeOK'
<1> USE StagesAssumption, WorkFacts
<1>1. TypeOK
  BY DEF IInv
<1>2. \A s \in Index : full[s].pending > 0 /\ empty[s].pending > 0
  BY DEF IInv, FullBarrier, EmptyBarrier
<1>3. \A s \in Index : /\ full[s] \in Barrier /\ Arrive(full[s]) \in Barrier
                       /\ empty[s] \in Barrier /\ Arrive(empty[s]) \in Barrier
  BY <1>1, <1>2, ArriveType DEF TypeOK
<1>4. \A p \in Producers : pwrite[p].index \in Index /\ pwrite[p].count \in Nat
  BY <1>1 DEF TypeOK, Cursor
<1>5. \A c \in Consumers : crelease[c].index \in Index /\ cread[c].count \in Nat
  BY <1>1 DEF TypeOK, Cursor
<1>6. ASSUME NEW p \in Producers, Producer(p) PROVE TypeOK'
  <2>0. ProducerCursors(p)
    BY DEF IInv
  <2>1. CASE LoadBegin(p)
    <3>1. KTiles(pwork[p]) \in Nat
      BY <1>1, <2>1 DEF TypeOK, LoadBegin
    <3> QED BY <1>1, <2>1, <3>1 DEF TypeOK, LoadBegin, cvars
  <2>2. CASE LoadTailBegin(p)
    BY <1>1, <2>2 DEF TypeOK, LoadTailBegin, cvars
  <2>3. CASE Acquire(p)
    BY <1>1, <2>3 DEF TypeOK, Acquire, cvars
  <2>4. CASE IssueCopies(p)
    BY <1>1, <1>4, <2>4 DEF TypeOK, IssueCopies, cvars, Content
  <2>5. CASE CommitOp(p)
    <3>1. CpAsyncArrive(full[pwrite[p].index]) \in Barrier
      BY <1>3, <1>4 DEF CpAsyncArrive, Barrier
    <3> QED BY <1>1, <1>4, <2>5, <3>1 DEF TypeOK, CommitOp, ProducerCommitOp, cvars
  <2>6. CASE Commit(p)
    <3>1. pleft[p] > 0 /\ pwork[p] \in 1 .. NumWork
      BY <1>1, <2>0, <2>6 DEF TypeOK, Commit, ProducerCursors, Loading
    <3>2. Inc(pwrite[p]) \in Cursor /\ Advance(pstate[p], KTiles(pwork[p])) \in Cursor
      BY <1>1, <3>1, CursorSteps DEF TypeOK
    <3>3. full' \in [Index -> Barrier]
      BY <1>1, <1>3, <1>4, <2>6 DEF TypeOK, Commit, ProducerCommit
    <3>4. /\ pwork' \in [Producers -> 1 .. NumWork + 1]
          /\ pstate' \in [Producers -> Cursor]
      BY <1>1, <2>6, <3>1, <3>2 DEF TypeOK, Commit
    <3>5. /\ pwrite' \in [Producers -> Cursor] /\ pleft' \in [Producers -> Nat]
      BY <1>1, <2>6, <3>1, <3>2 DEF TypeOK, Commit
    <3>6. ppc' \in [Producers -> {"fetch", "acquire", "copy", "commit_op", "commit",
                                  "tail", "exit"}]
      BY <1>1, <2>6 DEF TypeOK, Commit
    <3> QED BY <1>1, <2>6, <3>3, <3>4, <3>5, <3>6 DEF TypeOK, Commit, cvars
  <2>7. CASE LoadTail(p)
    <3>1. pleft[p] > 0
      BY <2>0, <2>7 DEF LoadTail, ProducerCursors
    <3>2. Inc(pwrite[p]) \in Cursor
      BY <1>1, CursorSteps DEF TypeOK
    <3> QED BY <1>1, <2>7, <3>1, <3>2 DEF TypeOK, LoadTail, cvars
  <2> QED BY <1>6, <2>1, <2>2, <2>3, <2>4, <2>5, <2>6, <2>7 DEF Producer
<1>7. ASSUME NEW p \in Producers, CopiesLand(p) PROVE TypeOK'
  <2>1. SlotOf(landed[p]) \in Index
    BY <1>1, DivMod DEF TypeOK, SlotOf
  <2>2. full' \in [Index -> Barrier]
    BY <1>1, <1>3, <1>7, <2>1 DEF TypeOK, CopiesLand
  <2>3. smem' \in [Index -> [Producers -> Content]] /\ landed' \in [Producers -> Nat]
    BY <1>1, <1>7, <2>1 DEF TypeOK, CopiesLand, Content
  <2> QED BY <1>1, <1>7, <2>2, <2>3 DEF TypeOK, CopiesLand, pvars, cvars
<1>8. ASSUME NEW c \in Consumers, Consumer(c) PROVE TypeOK'
  <2>0. ConsumerCursors(c)
    BY DEF IInv
  <2>1. CASE MmaBegin(c)
    <3>1. /\ Prologue(cwork[c]) \in Nat
          /\ KTiles(cwork[c]) - Prologue(cwork[c]) \in Nat
      BY <1>1, <2>1, PrologueFacts DEF TypeOK, MmaBegin
    <3> QED BY <1>1, <2>1, <3>1 DEF TypeOK, MmaBegin, pvars
  <2>2. CASE MmaExit(c)
    BY <1>1, <2>2 DEF TypeOK, MmaExit, pvars
  <2>3. CASE TryWait(c)
    BY <1>1, <2>3 DEF TypeOK, TryWait, ConsumerTryWait, PhaseDone, pvars
  <2>4. CASE Wait(c)
    BY <1>1, <2>4 DEF TypeOK, Wait, pvars
  <2>5. CASE IssueMma(c)
    <3>1. Inc(cread[c]) \in Cursor
      BY <1>1, CursorSteps DEF TypeOK
    <3> QED BY <1>1, <2>5, <3>1 DEF TypeOK, IssueMma, pvars
  <2>6. CASE GmmaWait(c)
    BY <1>1, <2>6 DEF TypeOK, GmmaWait, pvars
  <2>7. CASE Release(c)
    <3>1. cleft[c] > 0
      BY <2>0, <2>7 DEF Release, ConsumerCursors
    <3>2. Inc(crelease[c]) \in Cursor
      BY <1>1, CursorSteps DEF TypeOK
    <3>3. empty' \in [Index -> Barrier]
      BY <1>1, <1>3, <1>5, <2>7 DEF TypeOK, Release, ConsumerRelease
    <3> QED BY <1>1, <2>7, <3>1, <3>2, <3>3 DEF TypeOK, Release, pvars
  <2>8. CASE MmaTail(c)
    <3>1. cwork[c] \in 1 .. NumWork
      BY <1>1, <2>0, <2>8 DEF TypeOK, MmaTail, ConsumerCursors, Working
    <3>2. /\ Prologue(cwork[c]) \in Nat
          /\ KTiles(cwork[c]) - Prologue(cwork[c]) \in Nat
      BY <3>1, PrologueFacts
    <3>3. Advance(cstate[c], KTiles(cwork[c]) - Prologue(cwork[c])) \in Cursor
      BY <1>1, <3>2, CursorSteps DEF TypeOK
    <3> QED BY <1>1, <2>8, <3>2, <3>3 DEF TypeOK, MmaTail, pvars
  <2>9. CASE TailRelease(c)
    <3>1. cprologue[c] > 0
      BY <2>0, <2>9 DEF TailRelease, ConsumerCursors
    <3>2. Inc(crelease[c]) \in Cursor
      BY <1>1, CursorSteps DEF TypeOK
    <3>3. empty' \in [Index -> Barrier]
      BY <1>1, <1>3, <1>5, <2>9 DEF TypeOK, TailRelease, ConsumerRelease
    <3> QED BY <1>1, <2>9, <3>1, <3>2, <3>3 DEF TypeOK, TailRelease, pvars
  <2>10. CASE Epilogue(c)
    <3>1. cwork[c] \in 1 .. NumWork
      BY <1>1, <2>0, <2>10 DEF TypeOK, Epilogue, ConsumerCursors, Working
    <3>2. Advance(cstate[c], KTiles(cwork[c])) \in Cursor
      BY <1>1, <3>1, CursorSteps DEF TypeOK
    <3> QED BY <1>1, <2>10, <3>1, <3>2 DEF TypeOK, Epilogue, pvars
  <2> QED BY <1>8, <2>1, <2>2, <2>3, <2>4, <2>5, <2>6, <2>7, <2>8, <2>9, <2>10
          DEF Consumer
<1>9. ASSUME NEW c \in Consumers, MmaRetires(c) PROVE TypeOK'
  <2>0. ConsumerCursors(c)
    BY DEF IInv
  <2>1. cread[c].count - mmas[c] \in Nat
    BY <1>1, <1>5, <2>0 DEF TypeOK, ConsumerCursors, Released, Cursor
  <2>2. SlotOf(cread[c].count - mmas[c]) \in Index
    BY <2>1, DivMod DEF SlotOf
  <2>3. {smem[SlotOf(cread[c].count - mmas[c])][p] : p \in Producers} \in SUBSET Content
    BY <1>1, <2>2 DEF TypeOK
  <2>4. accum' \in [Consumers -> SUBSET Content] /\ mmas' \in [Consumers -> Nat]
    BY <1>1, <1>9, <2>3 DEF TypeOK, MmaRetires
  <2> QED BY <1>1, <1>9, <2>4 DEF TypeOK, MmaRetires, pvars, cvars
<1>10. CASE UNCHANGED vars
  BY <1>1, <1>10 DEF TypeOK, vars, pvars, cvars
<1> QED BY <1>6, <1>7, <1>8, <1>9, <1>10 DEF Next, Terminated

-----------------------------------------------------------------------------
(***************************************************************************)
(* Frames: what a step leaves alone.                                       *)
(***************************************************************************)
SameProducer(q) ==
  /\ ppc'[q] = ppc[q] /\ pwork'[q] = pwork[q] /\ pstate'[q] = pstate[q]
  /\ pwrite'[q] = pwrite[q] /\ pleft'[q] = pleft[q]

SameConsumer(d) ==
  /\ cpc'[d] = cpc[d] /\ cwork'[d] = cwork[d] /\ cstate'[d] = cstate[d]
  /\ cread'[d] = cread[d] /\ crelease'[d] = crelease[d]
  /\ cprologue'[d] = cprologue[d] /\ cleft'[d] = cleft[d] /\ ctoken'[d] = ctoken[d]

(* A producer changes nothing of another thread. *)
LEMMA ProducerFrame ==
  ASSUME TypeOK, NEW p \in Producers, Producer(p)
  PROVE  /\ \A q \in Producers : q # p => SameProducer(q)
         /\ UNCHANGED <<empty, landed, cvars, mmas, accum>>
<1> USE DEF TypeOK, SameProducer, cvars
<1>1. CASE LoadBegin(p) BY <1>1 DEF LoadBegin
<1>2. CASE LoadTailBegin(p) BY <1>2 DEF LoadTailBegin
<1>3. CASE Acquire(p) BY <1>3 DEF Acquire
<1>4. CASE IssueCopies(p) BY <1>4 DEF IssueCopies
<1>5. CASE CommitOp(p) BY <1>5 DEF CommitOp
<1>6. CASE Commit(p)
  <2>1. /\ \A q \in Producers : q # p => ppc'[q] = ppc[q] /\ pwork'[q] = pwork[q]
                                         /\ pstate'[q] = pstate[q]
    BY <1>6 DEF Commit
  <2>2. /\ \A q \in Producers : q # p => pwrite'[q] = pwrite[q] /\ pleft'[q] = pleft[q]
        /\ UNCHANGED <<empty, landed, cvars, mmas, accum>>
    BY <1>6 DEF Commit
  <2> QED BY <2>1, <2>2
<1>7. CASE LoadTail(p) BY <1>7 DEF LoadTail
<1> QED BY <1>1, <1>2, <1>3, <1>4, <1>5, <1>6, <1>7 DEF Producer

(* A consumer changes nothing of another thread. *)
LEMMA ConsumerFrame ==
  ASSUME TypeOK, NEW c \in Consumers, Consumer(c)
  PROVE  /\ \A d \in Consumers : d # c =>
              SameConsumer(d) /\ mmas'[d] = mmas[d] /\ accum'[d] = accum[d]
         /\ UNCHANGED <<full, smem, pvars, landed>>
<1> USE DEF TypeOK, SameConsumer, pvars
<1>1. CASE MmaBegin(c) BY <1>1 DEF MmaBegin
<1>2. CASE MmaExit(c) BY <1>2 DEF MmaExit
<1>3. CASE TryWait(c) BY <1>3 DEF TryWait
<1>4. CASE Wait(c) BY <1>4 DEF Wait
<1>5. CASE IssueMma(c) BY <1>5 DEF IssueMma
<1>6. CASE GmmaWait(c) BY <1>6 DEF GmmaWait
<1>7. CASE Release(c) BY <1>7 DEF Release
<1>8. CASE MmaTail(c) BY <1>8 DEF MmaTail
<1>9. CASE TailRelease(c) BY <1>9 DEF TailRelease
<1>10. CASE Epilogue(c) BY <1>10 DEF Epilogue
<1> QED BY <1>1, <1>2, <1>3, <1>4, <1>5, <1>6, <1>7, <1>8, <1>9, <1>10 DEF Consumer

-----------------------------------------------------------------------------
(***************************************************************************)
(* Cursors.                                                                *)
(***************************************************************************)
LEMMA ProducerCursorsPreserved ==
  ASSUME IInv, [Next]_vars, NEW q \in Producers
  PROVE  ProducerCursors(q)'
<1> USE StagesAssumption
<1>1. TypeOK /\ ProducerCursors(q)
  BY DEF IInv
<1>2. /\ pwrite[q].count \in Nat /\ pleft[q] \in Nat /\ landed[q] \in Nat
      /\ pwork[q] \in 1 .. NumWork + 1
  BY <1>1 DEF TypeOK, Cursor
<1>3. Total = TileStart[NumWork + 1] /\ Total \in Nat
  BY WorkFacts DEF Total
<1>4. ASSUME SameProducer(q), UNCHANGED landed PROVE ProducerCursors(q)'
  BY <1>1, <1>4 DEF SameProducer, ProducerCursors, Committed
<1>5. ASSUME Producer(q) PROVE ProducerCursors(q)'
  <2>0. landed' = landed
    BY <1>1, <1>5, ProducerFrame
  <2>1. CASE LoadBegin(q)
    <3>1. pwork[q] \in 1 .. NumWork
      BY <1>2, <2>1 DEF LoadBegin
    <3>2. /\ TileStart[pwork[q]] \in Nat /\ KTiles(pwork[q]) \in Nat \ {0}
          /\ TileStart[pwork[q]] + KTiles(pwork[q]) = TileStart[pwork[q] + 1]
      BY <3>1, WorkFacts
    <3>3. /\ ppc'[q] = "acquire" /\ pwork'[q] = pwork[q] /\ pstate'[q] = pstate[q]
          /\ pwrite'[q] = pstate[q] /\ pleft'[q] = KTiles(pwork[q])
      BY <1>1, <2>1 DEF TypeOK, LoadBegin
    <3>4. pstate[q].count = TileStart[pwork[q]] /\ pwrite[q].count = pstate[q].count
      BY <1>1, <2>1 DEF ProducerCursors, LoadBegin, StateAt
    <3> QED BY <1>1, <1>3, <2>0, <2>1, <3>1, <3>2, <3>3, <3>4
            DEF ProducerCursors, Loading, Committed, LoadBegin
  <2>2. CASE LoadTailBegin(q)
    <3>1. pwork[q] = NumWork + 1
      BY <1>2, <2>2, WorkAssumption DEF LoadTailBegin
    <3>2. /\ ppc'[q] = "tail" /\ pwork'[q] = pwork[q] /\ pstate'[q] = pstate[q]
          /\ pwrite'[q] = pstate[q] /\ pleft'[q] = Stages
      BY <1>1, <2>2 DEF TypeOK, LoadTailBegin
    <3>3. pstate[q].count = Total /\ pwrite[q].count = Total
      BY <1>1, <1>3, <2>2, <3>1 DEF ProducerCursors, LoadTailBegin, StateAt
    <3> QED BY <1>1, <1>3, <2>0, <2>2, <3>1, <3>2, <3>3
            DEF ProducerCursors, Loading, Committed, LoadTailBegin
  <2>3. CASE Acquire(q)
    <3>1. ppc[q] = "acquire" /\ ppc'[q] = "copy" /\ UNCHANGED <<pwork, pstate, pwrite, pleft>>
      BY <1>1, <2>3 DEF TypeOK, Acquire
    <3> QED BY <1>1, <2>0, <3>1 DEF ProducerCursors, Loading, Committed
  <2>4. CASE IssueCopies(q)
    <3>1. ppc[q] = "copy" /\ ppc'[q] = "commit_op" /\ UNCHANGED <<pwork, pstate, pwrite, pleft>>
      BY <1>1, <2>4 DEF TypeOK, IssueCopies
    <3> QED BY <1>1, <2>0, <3>1 DEF ProducerCursors, Loading, Committed
  <2>5. CASE CommitOp(q)
    <3>1. ppc[q] = "commit_op" /\ ppc'[q] = "commit" /\ UNCHANGED <<pwork, pstate, pwrite, pleft>>
      BY <1>1, <2>5 DEF TypeOK, CommitOp
    <3> QED BY <1>1, <1>2, <1>3, <2>0, <3>1 DEF ProducerCursors, Loading, Committed, Min2
  <2>6. CASE Commit(q)
    <3>1. /\ pwork[q] \in 1 .. NumWork /\ pleft[q] > 0
          /\ pwrite[q].count + pleft[q] = TileStart[pwork[q] + 1]
      BY <1>1, <1>2, <2>6 DEF ProducerCursors, Commit, Loading
    <3>2. /\ TileStart[pwork[q]] \in Nat /\ KTiles(pwork[q]) \in Nat
          /\ TileStart[pwork[q]] + KTiles(pwork[q]) = TileStart[pwork[q] + 1]
          /\ TileStart[pwork[q] + 1] \in Nat /\ TileStart[pwork[q] + 1] <= Total
      BY <3>1, WorkFacts
    <3>3. pwrite'[q] = Inc(pwrite[q]) /\ pleft'[q] = pleft[q] - 1
      BY <1>1, <2>6 DEF TypeOK, Commit
    <3>4. pwrite'[q] = StateAt(1, pwrite[q].count + 1)
      BY <1>1, <1>2, <3>3, IncStateAt DEF ProducerCursors
    <3>5. pwrite'[q].count = pwrite[q].count + 1
      BY <3>4 DEF StateAt
    <3>6. landed'[q] <= pwrite'[q].count /\ pwrite'[q].count <= Total
      BY <1>1, <1>2, <1>3, <2>0, <2>6, <3>1, <3>2, <3>5
         DEF ProducerCursors, Committed, Commit
    <3>7. CASE pleft[q] > 1
      <4>1. ppc'[q] = "acquire" /\ pwork'[q] = pwork[q] /\ pstate'[q] = pstate[q]
        BY <1>1, <2>6, <3>7 DEF TypeOK, Commit
      <4> QED BY <1>1, <1>2, <1>3, <3>1, <3>2, <3>3, <3>4, <3>5, <3>6, <3>7, <4>1
              DEF ProducerCursors, Loading, Committed, Min2
    <3>8. CASE pleft[q] <= 1
      <4>1. /\ ppc'[q] = "fetch" /\ pwork'[q] = pwork[q] + 1
            /\ pstate'[q] = Advance(pstate[q], KTiles(pwork[q]))
        BY <1>1, <1>2, <2>6, <3>8 DEF TypeOK, Commit
      <4>2. pstate'[q] = StateAt(1, TileStart[pwork[q] + 1])
        BY <1>1, <3>2, <4>1, AdvanceStateAt DEF ProducerCursors
      <4> QED BY <1>1, <1>2, <1>3, <3>1, <3>2, <3>3, <3>4, <3>5, <3>6, <3>8, <4>1, <4>2
              DEF ProducerCursors, Loading, Committed, Min2
    <3> QED BY <1>2, <3>7, <3>8
  <2>7. CASE LoadTail(q)
    <3>1. /\ pwork[q] = NumWork + 1 /\ pleft[q] > 0 /\ pwrite[q].count >= Total
          /\ pwrite[q].count + pleft[q] = Total + Stages
          /\ landed[q] <= Total
      BY <1>1, <1>2, <1>3, <2>7 DEF ProducerCursors, LoadTail, Committed, Min2
    <3>2. /\ pwrite'[q] = Inc(pwrite[q]) /\ pleft'[q] = pleft[q] - 1
          /\ pwork'[q] = pwork[q] /\ pstate'[q] = pstate[q]
          /\ ppc'[q] = IF pleft[q] > 1 THEN "tail" ELSE "exit"
      BY <1>1, <2>7 DEF TypeOK, LoadTail
    <3>3. pwrite'[q] = StateAt(1, pwrite[q].count + 1)
      BY <1>1, <1>2, <3>2, IncStateAt DEF ProducerCursors
    <3>4. pwrite'[q].count = pwrite[q].count + 1
      BY <3>3 DEF StateAt
    <3> QED BY <1>1, <1>2, <1>3, <2>0, <3>1, <3>2, <3>3, <3>4
            DEF ProducerCursors, Loading, Committed, Min2
  <2> QED BY <1>5, <2>1, <2>2, <2>3, <2>4, <2>5, <2>6, <2>7 DEF Producer
<1>6. ASSUME NEW p \in Producers, CopiesLand(p) PROVE ProducerCursors(q)'
  <2>1. /\ UNCHANGED pvars
        /\ landed'[q] = landed[q] \/ (landed'[q] = landed[q] + 1 /\ landed[q] < Committed(q))
    BY <1>1, <1>6 DEF TypeOK, CopiesLand
  <2>2. Committed(q)' = Committed(q) /\ Committed(q) \in Nat
    BY <1>2, <1>3, <2>1 DEF Committed, pvars, Min2
  <2>3. landed'[q] <= Committed(q)'
    BY <1>1, <1>2, <2>1, <2>2 DEF ProducerCursors
  <2> QED BY <1>1, <2>1, <2>3 DEF ProducerCursors, pvars
<1>7. ASSUME NEW p \in Producers, Producer(p) PROVE ProducerCursors(q)'
  BY <1>1, <1>4, <1>5, <1>7, ProducerFrame
<1>8. ASSUME NEW c \in Consumers, Consumer(c) \/ MmaRetires(c) PROVE ProducerCursors(q)'
  <2>1. UNCHANGED <<pvars, landed>>
    BY <1>1, <1>8, ConsumerFrame DEF MmaRetires
  <2> QED BY <1>4, <2>1 DEF SameProducer, pvars
<1>9. CASE UNCHANGED vars
  BY <1>4, <1>9 DEF SameProducer, vars, pvars
<1> QED BY <1>6, <1>7, <1>8, <1>9 DEF Next, Terminated

(* No step disturbs the place of a consumer in its work tile. *)
LEMMA ConsumerCursorsPreserved ==
  ASSUME K_PIPE_MMAS > 0, IInv, [Next]_vars, NEW d \in Consumers
  PROVE  ConsumerCursors(d)'
<1> USE StagesAssumption
<1>1. TypeOK /\ ConsumerCursors(d)
  BY DEF IInv
<1> DEFINE w == cwork[d]
           start == TileStart[w]
           end == TileStart[w + 1]
           read == cread[d].count
           rel == crelease[d].count
           pro == Prologue(w)
<1>2. /\ read \in Nat /\ rel \in Nat /\ mmas[d] \in Nat
      /\ cprologue[d] \in Nat /\ cleft[d] \in Nat
      /\ w \in 1 .. NumWork + 1 /\ start \in Nat
  BY <1>1, WorkFacts DEF TypeOK, Cursor
<1>3. /\ cstate[d] = StateAt(0, start) /\ cread[d] = StateAt(0, read)
      /\ crelease[d] = StateAt(0, rel)
      /\ mmas[d] + rel <= read /\ start <= rel
  BY <1>1 DEF ConsumerCursors, Released
<1>4. w <= NumWork => /\ end \in Nat /\ KTiles(w) \in Nat /\ start + KTiles(w) = end
                      /\ KTiles(w) > 0
                      /\ pro \in Nat /\ pro > 0 /\ pro <= K_PIPE_MMAS /\ pro <= KTiles(w)
                      /\ pro < KTiles(w) => pro = K_PIPE_MMAS
  <2>1. SUFFICES ASSUME w \in 1 .. NumWork
                 PROVE  /\ end \in Nat /\ KTiles(w) \in Nat /\ start + KTiles(w) = end
                        /\ KTiles(w) > 0
                        /\ pro \in Nat /\ pro > 0 /\ pro <= K_PIPE_MMAS /\ pro <= KTiles(w)
                        /\ pro < KTiles(w) => pro = K_PIPE_MMAS
    BY <1>2, WorkAssumption
  <2>2. w + 1 \in 1 .. NumWork + 1
    BY <2>1, WorkFacts
  <2> QED BY <2>1, <2>2, WorkFacts, PrologueFacts
<1>5. ASSUME SameConsumer(d), mmas'[d] = mmas[d] PROVE ConsumerCursors(d)'
  BY <1>1, <1>5 DEF SameConsumer, ConsumerCursors, Released
<1>6. ASSUME Consumer(d) PROVE ConsumerCursors(d)'
  <2>1. CASE MmaBegin(d)
    <3>1. /\ cpc[d] = "fetch" /\ w <= NumWork /\ cpc'[d] = "try" /\ cwork'[d] = w
          /\ cread'[d] = cstate[d] /\ crelease'[d] = cstate[d] /\ cstate'[d] = cstate[d]
          /\ cprologue'[d] = (IF pro = 0 THEN 1 ELSE pro) /\ cleft'[d] = KTiles(w) - pro
          /\ mmas'[d] = mmas[d]
      BY <1>1, <2>1 DEF TypeOK, MmaBegin
    <3>2. cprologue'[d] = pro
      BY <1>4, <3>1
    <3>3. read = start /\ rel = start
      BY <1>1, <3>1 DEF ConsumerCursors, Released
    <3>4. mmas[d] = 0
      BY <1>2, <1>3, <3>3
    <3>5. cstate[d].count = start
      BY <1>3 DEF StateAt
    <3> HIDE DEF w, start, end, read, rel, pro
    <3> QED BY <1>2, <1>3, <1>4, <3>1, <3>2, <3>4, <3>5
            DEF ConsumerCursors, Released, Reading, Working, start, end, read, rel, pro, w
  <2>2. CASE MmaExit(d)
    <3>1. /\ cpc[d] = "fetch" /\ w > NumWork /\ cpc'[d] = "exit" /\ cwork'[d] = w
          /\ UNCHANGED <<cstate, cread, crelease, mmas>>
      BY <1>1, <2>2 DEF TypeOK, MmaExit
    <3>2. w = NumWork + 1
      BY <1>2, <3>1, WorkAssumption
    <3> QED BY <1>1, <3>1, <3>2 DEF ConsumerCursors, Released, Reading, Working
  <2>3. CASE TryWait(d)
    <3>1. /\ cpc[d] = "try" /\ cpc'[d] = "wait"
          /\ UNCHANGED <<cwork, cstate, cread, crelease, cprologue, cleft, mmas>>
      BY <1>1, <2>3 DEF TypeOK, TryWait
    <3> QED BY <1>1, <3>1 DEF ConsumerCursors, Released, Reading, Working
  <2>4. CASE Wait(d)
    <3>1. /\ cpc[d] = "wait" /\ cpc'[d] = "mma"
          /\ UNCHANGED <<cwork, cstate, cread, crelease, cprologue, cleft, mmas>>
      BY <1>1, <2>4 DEF TypeOK, Wait
    <3> QED BY <1>1, <3>1 DEF ConsumerCursors, Released, Reading, Working
  <2>5. CASE IssueMma(d)
    <3>1. /\ cpc[d] = "mma" /\ mmas'[d] = mmas[d] + 1 /\ cread'[d] = Inc(cread[d])
          /\ cwork'[d] = w /\ cstate'[d] = cstate[d] /\ crelease'[d] = crelease[d]
          /\ cleft'[d] = cleft[d]
      BY <1>1, <2>5 DEF TypeOK, IssueMma
    <3>2. \/ /\ cprologue[d] > 0 /\ cprologue'[d] = cprologue[d] - 1
             /\ cpc'[d] = IF cprologue[d] > 1 \/ cleft[d] > 0 THEN "try" ELSE "tail"
          \/ cprologue[d] = 0 /\ cprologue'[d] = 0 /\ cpc'[d] = "gmma_wait"
      BY <1>1, <2>5 DEF TypeOK, IssueMma
    <3>3. cread'[d] = StateAt(0, read + 1)
      BY <1>2, <1>3, <3>1, IncStateAt
    <3>4. cread'[d].count = read + 1
      BY <3>3 DEF StateAt
    <3>5. /\ w <= NumWork /\ (cprologue[d] > 0 \/ cleft[d] > 0)
          /\ read + cprologue[d] + cleft[d] = end
          /\ rel + pro + cleft[d] = end
      BY <1>1, <3>1 DEF ConsumerCursors, Released, Reading, Working
    <3> HIDE DEF w, start, end, read, rel, pro
    <3>6. CASE cprologue[d] > 0
      <4>1. /\ cprologue'[d] = cprologue[d] - 1
            /\ cpc'[d] = IF cprologue[d] > 1 \/ cleft[d] > 0 THEN "try" ELSE "tail"
        BY <3>2, <3>6
      <4> QED BY <1>2, <1>3, <1>4, <3>1, <3>3, <3>4, <3>5, <3>6, <4>1
              DEF ConsumerCursors, Released, Reading, Working, start, end, read, rel, pro, w
    <3>7. CASE ~(cprologue[d] > 0)
      <4>1. cprologue[d] = 0 /\ cprologue'[d] = 0 /\ cpc'[d] = "gmma_wait"
        BY <1>2, <3>2, <3>7
      <4> QED BY <1>2, <1>3, <1>4, <3>1, <3>3, <3>4, <3>5, <4>1
              DEF ConsumerCursors, Released, Reading, Working, start, end, read, rel, pro, w
    <3> QED BY <3>6, <3>7
  <2>6. CASE GmmaWait(d)
    <3>1. /\ cpc[d] = "gmma_wait" /\ cpc'[d] = "release" /\ mmas[d] <= K_PIPE_MMAS
          /\ UNCHANGED <<cwork, cstate, cread, crelease, cprologue, cleft, mmas>>
      BY <1>1, <2>6 DEF TypeOK, GmmaWait
    <3> QED BY <1>1, <3>1 DEF ConsumerCursors, Released, Reading, Working
  <2>7. CASE Release(d)
    <3>1. /\ cpc[d] = "release" /\ crelease'[d] = Inc(crelease[d])
          /\ cleft'[d] = cleft[d] - 1
          /\ cpc'[d] = IF cleft[d] > 1 THEN "try" ELSE "tail"
          /\ UNCHANGED <<cwork, cstate, cread, cprologue, mmas>>
      BY <1>1, <2>7 DEF TypeOK, Release
    <3>2. crelease'[d] = StateAt(0, rel + 1)
      BY <1>2, <1>3, <3>1, IncStateAt
    <3>3. crelease'[d].count = rel + 1
      BY <3>2 DEF StateAt
    <3>4. /\ w <= NumWork /\ cprologue[d] = 0 /\ cleft[d] > 0 /\ mmas[d] <= K_PIPE_MMAS
          /\ read + cleft[d] = end + 1 /\ rel + pro + cleft[d] = end
      BY <1>1, <3>1 DEF ConsumerCursors, Released, Reading, Working
    <3>5. mmas[d] + (rel + 1) <= read
      <4> HIDE DEF w, start, end, read, rel, pro
      <4>1. pro = K_PIPE_MMAS
        BY <1>2, <1>3, <1>4, <3>4, PipeAssumption
      <4> QED BY <1>2, <1>4, <3>4, <4>1
    <3> HIDE DEF w, start, end, read, rel, pro
    <3> QED BY <1>2, <1>3, <1>4, <3>1, <3>2, <3>3, <3>4, <3>5
            DEF ConsumerCursors, Released, Reading, Working, start, end, read, rel, pro, w
  <2>8. CASE MmaTail(d)
    <3>1. cpc[d] = "tail" /\ mmas[d] = 0 /\ UNCHANGED <<cwork, cstate, cread, mmas>>
      BY <1>1, <2>8 DEF TypeOK, MmaTail
    <3>2. w <= NumWork /\ read = end /\ rel + pro = end
      BY <1>1, <3>1 DEF ConsumerCursors, Released, Working
    <3>3. /\ crelease'[d] = Advance(cstate[d], KTiles(w) - pro)
          /\ cprologue'[d] = pro /\ cpc'[d] = IF pro > 0 THEN "tail_release" ELSE "epilogue"
      BY <1>1, <2>8 DEF TypeOK, MmaTail
    <3>4. KTiles(w) - pro \in Nat /\ start + (KTiles(w) - pro) = rel
      <4> HIDE DEF w, start, end, read, rel, pro
      <4> QED BY <1>2, <1>4, <3>2
    <3>5. crelease'[d] = StateAt(0, rel)
      <4> HIDE DEF w, start, end, read, rel, pro
      <4>1. Advance(StateAt(0, start), KTiles(w) - pro) = StateAt(0, start + (KTiles(w) - pro))
        BY <1>2, <3>4, AdvanceStateAt
      <4> QED BY <1>3, <3>3, <3>4, <4>1
    <3>6. crelease'[d].count = rel
      BY <3>5 DEF StateAt
    <3> HIDE DEF w, start, end, read, rel, pro
    <3> QED BY <1>2, <1>3, <1>4, <3>1, <3>2, <3>3, <3>5, <3>6
            DEF ConsumerCursors, Released, Reading, Working, start, end, read, rel, pro, w
  <2>9. CASE TailRelease(d)
    <3>1. /\ cpc[d] = "tail_release" /\ crelease'[d] = Inc(crelease[d])
          /\ cprologue'[d] = cprologue[d] - 1
          /\ cpc'[d] = IF cprologue[d] > 1 THEN "tail_release" ELSE "epilogue"
          /\ UNCHANGED <<cwork, cstate, cread, mmas>>
      BY <1>1, <2>9 DEF TypeOK, TailRelease
    <3>2. crelease'[d] = StateAt(0, rel + 1)
      BY <1>2, <1>3, <3>1, IncStateAt
    <3>3. crelease'[d].count = rel + 1
      BY <3>2 DEF StateAt
    <3>4. /\ w <= NumWork /\ mmas[d] = 0 /\ cprologue[d] > 0
          /\ read = end /\ rel + cprologue[d] = end
      BY <1>1, <3>1 DEF ConsumerCursors, Released, Working
    <3> HIDE DEF w, start, end, read, rel, pro
    <3> QED BY <1>2, <1>3, <1>4, <3>1, <3>2, <3>3, <3>4
            DEF ConsumerCursors, Released, Reading, Working, start, end, read, rel, pro, w
  <2>10. CASE Epilogue(d)
    <3>1. /\ cpc[d] = "epilogue" /\ cstate'[d] = Advance(cstate[d], KTiles(w))
          /\ cwork'[d] = w + 1 /\ cpc'[d] = "fetch"
          /\ UNCHANGED <<cread, crelease, mmas>>
      BY <1>1, <2>10 DEF TypeOK, Epilogue
    <3>2. w <= NumWork /\ mmas[d] = 0 /\ read = end /\ rel = end
      BY <1>1, <3>1 DEF ConsumerCursors, Released, Working
    <3>3. cstate'[d] = StateAt(0, end)
      <4> HIDE DEF w, start, end, read, rel, pro
      <4>1. Advance(StateAt(0, start), KTiles(w)) = StateAt(0, start + KTiles(w))
        BY <1>2, <1>4, <3>2, AdvanceStateAt
      <4> QED BY <1>3, <1>4, <3>1, <3>2, <4>1
    <3> HIDE DEF start, read, rel, pro
    <3> QED BY <1>2, <1>3, <1>4, <3>1, <3>2, <3>3
            DEF ConsumerCursors, Released, Reading, Working, start, read, rel
  <2> QED BY <1>6, <2>1, <2>2, <2>3, <2>4, <2>5, <2>6, <2>7, <2>8, <2>9, <2>10
          DEF Consumer
<1>7. ASSUME NEW c \in Consumers, MmaRetires(c) PROVE ConsumerCursors(d)'
  <2>1. /\ UNCHANGED cvars /\ mmas'[d] \in Nat /\ mmas'[d] <= mmas[d]
        /\ mmas[d] = 0 => mmas'[d] = 0
    BY <1>1, <1>2, <1>7 DEF TypeOK, MmaRetires
  <2>2. mmas'[d] + rel <= read
    BY <1>2, <1>3, <2>1
  <2>3. mmas[d] <= K_PIPE_MMAS => mmas'[d] <= K_PIPE_MMAS
    BY <1>2, <2>1, PipeAssumption
  <2> QED BY <1>1, <2>1, <2>2, <2>3 DEF ConsumerCursors, Released, cvars
<1>8. ASSUME NEW c \in Consumers, Consumer(c) PROVE ConsumerCursors(d)'
  BY <1>1, <1>5, <1>6, <1>8, ConsumerFrame
<1>9. ASSUME NEW p \in Producers, Producer(p) \/ CopiesLand(p) PROVE ConsumerCursors(d)'
  <2>1. UNCHANGED <<cvars, mmas>>
    BY <1>1, <1>9, ProducerFrame DEF CopiesLand
  <2> QED BY <1>5, <2>1 DEF SameConsumer, cvars
<1>10. CASE UNCHANGED vars
  BY <1>5, <1>10 DEF SameConsumer, vars, cvars
<1> QED BY <1>7, <1>8, <1>9, <1>10 DEF Next, Terminated

-----------------------------------------------------------------------------
(***************************************************************************)
(* The counts of a thread, and how a step moves them.                      *)
(***************************************************************************)
LEMMA ProducerCounts ==
  ASSUME IInv, NEW p \in Producers
  PROVE  /\ Arrived(p) \in Nat /\ Committed(p) \in Nat /\ Begun(p) \in Nat
         /\ Granted(p) \in Nat /\ landed[p] \in Nat
         /\ landed[p] <= Committed(p) /\ Committed(p) <= Begun(p)
         /\ Begun(p) <= Granted(p) /\ Arrived(p) <= Committed(p)
<1>1. TypeOK /\ ProducerCursors(p)
  BY DEF IInv
<1>2. pwrite[p].count \in Nat /\ landed[p] \in Nat /\ Total \in Nat
  BY <1>1, WorkFacts DEF TypeOK, Cursor
<1> QED BY <1>1, <1>2 DEF ProducerCursors, Arrived, Committed, Begun, Granted, Min2

(* A consumer releases no more than it reads, and reads what it has seen. *)
LEMMA ConsumerCounts ==
  ASSUME IInv, NEW c \in Consumers
  PROVE  /\ Seen(c) \in Nat /\ Released(c) \in Nat /\ cread[c].count \in Nat
         /\ mmas[c] \in Nat
         /\ Released(c) <= cread[c].count /\ cread[c].count <= Seen(c)
         /\ mmas[c] + Released(c) <= cread[c].count
<1>1. TypeOK /\ ConsumerCursors(c)
  BY DEF IInv
<1>2. cread[c].count \in Nat /\ crelease[c].count \in Nat /\ mmas[c] \in Nat
  BY <1>1 DEF TypeOK, Cursor
<1> QED BY <1>1, <1>2 DEF ConsumerCursors, Seen, Released

(* All the counts of a slot lie within one round. *)
LEMMA Chain ==
  ASSUME IInv, NEW s \in Index, NEW p \in Producers, NEW c \in Consumers
  PROVE  /\ full[s].phase \in Nat /\ empty[s].phase \in Nat
         /\ Visits(Arrived(p), s) \in Nat /\ Visits(Committed(p), s) \in Nat
         /\ Visits(Granted(p), s) \in Nat /\ Visits(landed[p], s) \in Nat
         /\ Visits(Seen(c), s) \in Nat /\ Visits(Released(c), s) \in Nat
         /\ empty[s].phase <= Visits(Released(c), s)
         /\ Visits(Released(c), s) <= Visits(cread[c].count, s)
         /\ Visits(cread[c].count, s) <= Visits(Seen(c), s)
         /\ Visits(Seen(c), s) <= full[s].phase
         /\ full[s].phase <= Visits(landed[p], s)
         /\ Visits(landed[p], s) <= Visits(Committed(p), s)
         /\ Visits(Committed(p), s) <= Visits(Granted(p), s)
         /\ Visits(Granted(p), s) <= empty[s].phase + 1
         /\ full[s].phase <= Visits(Arrived(p), s)
         /\ Visits(Arrived(p), s) <= Visits(Committed(p), s)
<1>1. TypeOK /\ FullBarrier(s) /\ EmptyBarrier(s)
  BY DEF IInv
<1>2. full[s].phase \in Nat /\ empty[s].phase \in Nat
  BY <1>1 DEF TypeOK, Barrier
<1>3. /\ Arrived(p) \in Nat /\ Committed(p) \in Nat /\ Granted(p) \in Nat /\ landed[p] \in Nat
      /\ landed[p] <= Committed(p) /\ Committed(p) <= Granted(p) /\ Arrived(p) <= Committed(p)
  BY ProducerCounts
<1>4. /\ Seen(c) \in Nat /\ Released(c) \in Nat /\ cread[c].count \in Nat
      /\ Released(c) <= cread[c].count /\ cread[c].count <= Seen(c)
  BY ConsumerCounts
<1>5. /\ Visits(Arrived(p), s) \in Nat /\ Visits(Committed(p), s) \in Nat
      /\ Visits(Granted(p), s) \in Nat /\ Visits(landed[p], s) \in Nat
      /\ Visits(Seen(c), s) \in Nat /\ Visits(Released(c), s) \in Nat
  BY <1>3, <1>4, VisitsType
<1>6. /\ Visits(landed[p], s) <= Visits(Committed(p), s)
      /\ Visits(Committed(p), s) <= Visits(Granted(p), s)
      /\ Visits(Arrived(p), s) <= Visits(Committed(p), s)
  BY <1>3, VisitsMonotone
<1>7. /\ Visits(Released(c), s) <= Visits(cread[c].count, s)
      /\ Visits(cread[c].count, s) <= Visits(Seen(c), s)
  BY <1>4, VisitsMonotone
<1> QED BY <1>1, <1>2, <1>5, <1>6, <1>7 DEF FullBarrier, EmptyBarrier

SameCounts(q) ==
  /\ Arrived(q)' = Arrived(q) /\ Committed(q)' = Committed(q)
  /\ Begun(q)' = Begun(q) /\ Granted(q)' = Granted(q)

(* Each producer step moves one count of its thread by one tile. *)
LEMMA ProducerMoves ==
  ASSUME IInv, NEW p \in Producers, Producer(p)
  PROVE  LET n == pwrite[p].count IN
         /\ LoadBegin(p) \/ LoadTailBegin(p) => SameCounts(p)
         /\ Acquire(p) =>
              /\ Arrived(p)' = Arrived(p) /\ Committed(p)' = Committed(p)
              /\ Begun(p)' = Begun(p) /\ Granted(p) = n /\ Granted(p)' = n + 1
         /\ IssueCopies(p) =>
              /\ Arrived(p)' = Arrived(p) /\ Committed(p)' = Committed(p)
              /\ Begun(p) = n /\ Begun(p)' = n + 1 /\ Granted(p) = n + 1
              /\ Granted(p)' = n + 1
         /\ CommitOp(p) =>
              /\ Arrived(p)' = Arrived(p) /\ Committed(p) = n /\ Committed(p)' = n + 1
              /\ Begun(p)' = Begun(p) /\ Granted(p) = n + 1 /\ Granted(p)' = n + 1
         /\ Commit(p) =>
              /\ Arrived(p) = n /\ Arrived(p)' = n + 1
              /\ Committed(p) = n + 1 /\ Committed(p)' = n + 1
              /\ Begun(p)' = Begun(p) /\ Granted(p) = n + 1 /\ Granted(p)' = n + 1
         /\ LoadTail(p) =>
              /\ Arrived(p)' = Arrived(p) /\ Committed(p)' = Committed(p)
              /\ Begun(p)' = Begun(p) /\ Granted(p) = n /\ Granted(p)' = n + 1
<1> DEFINE n == pwrite[p].count
<1>1. TypeOK /\ ProducerCursors(p)
  BY DEF IInv
<1>2. n \in Nat /\ Total \in Nat /\ pwork[p] \in 1 .. NumWork + 1 /\ pleft[p] \in Nat
  BY <1>1, WorkFacts DEF TypeOK, Cursor
<1>3. ppc[p] \in Loading => n < Total
  <2>1. SUFFICES ASSUME ppc[p] \in Loading PROVE n < Total
    OBVIOUS
  <2>2. pwork[p] \in 1 .. NumWork /\ pleft[p] > 0 /\ n + pleft[p] = TileStart[pwork[p] + 1]
    BY <1>1, <1>2, <2>1 DEF ProducerCursors
  <2>3. TileStart[pwork[p] + 1] \in Nat /\ TileStart[pwork[p] + 1] <= Total
    BY <2>2, WorkFacts
  <2> HIDE DEF n
  <2> QED BY <1>2, <2>2, <2>3
<1>4. LoadBegin(p) \/ LoadTailBegin(p) => SameCounts(p)
  <2>1. SUFFICES ASSUME LoadBegin(p) \/ LoadTailBegin(p) PROVE SameCounts(p)
    OBVIOUS
  <2>2. ppc[p] = "fetch" /\ ppc'[p] \in {"acquire", "tail"} /\ pwrite'[p] = pstate[p]
    BY <1>1, <2>1 DEF TypeOK, LoadBegin, LoadTailBegin
  <2>3. pwrite'[p].count = n
    BY <1>1, <2>2 DEF ProducerCursors, StateAt
  <2> QED BY <2>2, <2>3 DEF SameCounts, Arrived, Committed, Begun, Granted
<1>5. Acquire(p) => /\ Arrived(p)' = Arrived(p) /\ Committed(p)' = Committed(p)
                    /\ Begun(p)' = Begun(p) /\ Granted(p) = n /\ Granted(p)' = n + 1
  <2>1. SUFFICES ASSUME Acquire(p)
                 PROVE  /\ Arrived(p)' = Arrived(p) /\ Committed(p)' = Committed(p)
                        /\ Begun(p)' = Begun(p) /\ Granted(p) = n /\ Granted(p)' = n + 1
    OBVIOUS
  <2>2. ppc[p] = "acquire" /\ ppc'[p] = "copy" /\ pwrite' = pwrite
    BY <1>1, <2>1 DEF TypeOK, Acquire
  <2> QED BY <2>2 DEF Arrived, Committed, Begun, Granted
<1>6. IssueCopies(p) => /\ Arrived(p)' = Arrived(p) /\ Committed(p)' = Committed(p)
                        /\ Begun(p) = n /\ Begun(p)' = n + 1 /\ Granted(p) = n + 1
                        /\ Granted(p)' = n + 1
  <2>1. SUFFICES ASSUME IssueCopies(p)
                 PROVE  /\ Arrived(p)' = Arrived(p) /\ Committed(p)' = Committed(p)
                        /\ Begun(p) = n /\ Begun(p)' = n + 1 /\ Granted(p) = n + 1
                        /\ Granted(p)' = n + 1
    OBVIOUS
  <2>2. ppc[p] = "copy" /\ ppc'[p] = "commit_op" /\ pwrite' = pwrite
    BY <1>1, <2>1 DEF TypeOK, IssueCopies
  <2> QED BY <1>2, <1>3, <2>2 DEF Arrived, Committed, Begun, Granted, Min2, Loading
<1>7. CommitOp(p) => /\ Arrived(p)' = Arrived(p) /\ Committed(p) = n /\ Committed(p)' = n + 1
                     /\ Begun(p)' = Begun(p) /\ Granted(p) = n + 1 /\ Granted(p)' = n + 1
  <2>1. SUFFICES ASSUME CommitOp(p)
                 PROVE  /\ Arrived(p)' = Arrived(p) /\ Committed(p) = n
                        /\ Committed(p)' = n + 1
                        /\ Begun(p)' = Begun(p) /\ Granted(p) = n + 1
                        /\ Granted(p)' = n + 1
    OBVIOUS
  <2>2. ppc[p] = "commit_op" /\ ppc'[p] = "commit" /\ pwrite' = pwrite
    BY <1>1, <2>1 DEF TypeOK, CommitOp
  <2> QED BY <1>2, <1>3, <2>2 DEF Arrived, Committed, Begun, Granted, Min2, Loading
<1>8. Commit(p) => /\ Arrived(p) = n /\ Arrived(p)' = n + 1
                   /\ Committed(p) = n + 1 /\ Committed(p)' = n + 1
                   /\ Begun(p)' = Begun(p) /\ Granted(p) = n + 1 /\ Granted(p)' = n + 1
  <2>1. SUFFICES ASSUME Commit(p)
                 PROVE  /\ Arrived(p) = n /\ Arrived(p)' = n + 1
                        /\ Committed(p) = n + 1 /\ Committed(p)' = n + 1
                        /\ Begun(p)' = Begun(p) /\ Granted(p) = n + 1
                        /\ Granted(p)' = n + 1
    OBVIOUS
  <2>2. ppc[p] = "commit" /\ ppc'[p] \in {"acquire", "fetch"} /\ pwrite'[p] = Inc(pwrite[p])
    BY <1>1, <2>1 DEF TypeOK, Commit
  <2>3. pwrite'[p].count = n + 1
    BY <2>2 DEF Inc
  <2>4. n < Total
    BY <1>3, <2>2 DEF Loading
  <2> HIDE DEF n
  <2> QED BY <1>2, <2>2, <2>3, <2>4 DEF Arrived, Committed, Begun, Granted, Min2, n
<1>9. LoadTail(p) => /\ Arrived(p)' = Arrived(p) /\ Committed(p)' = Committed(p)
                     /\ Begun(p)' = Begun(p) /\ Granted(p) = n /\ Granted(p)' = n + 1
  <2>1. SUFFICES ASSUME LoadTail(p)
                 PROVE  /\ Arrived(p)' = Arrived(p) /\ Committed(p)' = Committed(p)
                        /\ Begun(p)' = Begun(p) /\ Granted(p) = n /\ Granted(p)' = n + 1
    OBVIOUS
  <2>2. ppc[p] = "tail" /\ ppc'[p] \in {"tail", "exit"} /\ pwrite'[p] = Inc(pwrite[p])
    BY <1>1, <2>1 DEF TypeOK, LoadTail
  <2>3. pwrite'[p].count = n + 1
    BY <2>2 DEF Inc
  <2>4. n >= Total
    BY <1>1, <2>2 DEF ProducerCursors
  <2> HIDE DEF n
  <2> QED BY <1>2, <2>2, <2>3, <2>4 DEF Arrived, Committed, Begun, Granted, Min2, n
<1> QED BY <1>4, <1>5, <1>6, <1>7, <1>8, <1>9

(* A consumer step moves what its thread has seen only where the full      *)
(* barrier lets it, and what it has released only in a release.            *)
LEMMA ConsumerMoves ==
  ASSUME K_PIPE_MMAS > 0, IInv, [Next]_vars, NEW c \in Consumers, Consumer(c)
  PROVE  LET m == cread[c].count IN
         /\ \/ Seen(c)' = Seen(c)
            \/ /\ Seen(c) = m /\ Seen(c)' = m + 1
               /\ PhaseDone(full[cread[c].index], cread[c].phase)
         /\ Release(c) \/ TailRelease(c) =>
              Released(c)' = Released(c) + 1 /\ Released(c) < m /\ Seen(c)' = Seen(c)
         /\ ~(Release(c) \/ TailRelease(c)) => Released(c)' = Released(c)
<1> DEFINE m == cread[c].count
<1> USE StagesAssumption
<1>1. TypeOK /\ ConsumerCursors(c) /\ ConsumerCursors(c)'
  BY ConsumerCursorsPreserved DEF IInv
<1>2. m \in Nat /\ crelease[c].count \in Nat /\ cwork[c] \in 1 .. NumWork + 1
  BY <1>1 DEF TypeOK, Cursor
<1>3. CASE MmaBegin(c)
  <2>1. /\ cpc[c] = "fetch" /\ cpc'[c] = "try" /\ cread'[c] = cstate[c]
        /\ crelease'[c] = cstate[c]
    BY <1>1, <1>3 DEF TypeOK, MmaBegin
  <2>2. cstate[c].count = m /\ cstate[c].count = Released(c)
    BY <1>1, <2>1 DEF ConsumerCursors, StateAt
  <2> QED BY <1>3, <2>1, <2>2 DEF Seen, Released, MmaBegin, Release, TailRelease
<1>4. CASE MmaExit(c)
  BY <1>1, <1>4 DEF TypeOK, MmaExit, Seen, Released, Release, TailRelease
<1>5. CASE TryWait(c)
  <2>1. /\ cpc[c] = "try" /\ cpc'[c] = "wait" /\ cread' = cread /\ crelease' = crelease
        /\ ctoken'[c] = PhaseDone(full[cread[c].index], cread[c].phase)
    BY <1>1, <1>5 DEF TypeOK, TryWait, ConsumerTryWait
  <2> QED BY <2>1 DEF Seen, Released, Release, TailRelease
<1>6. CASE Wait(c)
  <2>1. /\ cpc[c] = "wait" /\ cpc'[c] = "mma" /\ cread' = cread /\ crelease' = crelease
        /\ ctoken[c] \/ PhaseDone(full[cread[c].index], cread[c].phase)
    BY <1>1, <1>6 DEF TypeOK, Wait, ConsumerWaited
  <2> QED BY <2>1 DEF Seen, Released, Release, TailRelease
<1>7. CASE IssueMma(c)
  <2>1. /\ cpc[c] = "mma" /\ cpc'[c] \in {"try", "tail", "gmma_wait"}
        /\ cread'[c] = Inc(cread[c]) /\ crelease' = crelease
    BY <1>1, <1>7 DEF TypeOK, IssueMma
  <2>2. cread'[c].count = m + 1
    BY <2>1 DEF Inc
  <2> QED BY <2>1, <2>2 DEF Seen, Released, Release, TailRelease
<1>8. CASE GmmaWait(c)
  <2>1. cpc[c] = "gmma_wait" /\ cpc'[c] = "release" /\ cread' = cread /\ crelease' = crelease
    BY <1>1, <1>8 DEF TypeOK, GmmaWait
  <2> QED BY <2>1 DEF Seen, Released, Release, TailRelease
<1>9. CASE Release(c)
  <2>1. /\ cpc[c] = "release" /\ cpc'[c] \in {"try", "tail"} /\ cread' = cread
        /\ crelease'[c] = Inc(crelease[c])
    BY <1>1, <1>9 DEF TypeOK, Release
  <2>2. Released(c)' = Released(c) + 1
    BY <2>1 DEF Inc, Released
  <2>3. Released(c) < m
    <3>1. Released(c)' <= cread'[c].count
      <4>1. /\ mmas'[c] + Released(c)' <= cread'[c].count
        BY <1>1 DEF ConsumerCursors
      <4>2. mmas'[c] \in Nat /\ Released(c)' \in Nat
        BY <1>1, <1>2, <1>9, <2>2 DEF TypeOK, Released, Release
      <4> QED BY <1>2, <2>1, <4>1, <4>2
    <3> QED BY <1>2, <2>1, <2>2, <3>1 DEF Released
  <2> QED BY <2>1, <2>2, <2>3, <1>9 DEF Seen
<1>10. CASE MmaTail(c)
  <2>1. cpc[c] = "tail" /\ cpc'[c] \in {"tail_release", "epilogue"} /\ cread' = cread
    BY <1>1, <1>10 DEF TypeOK, MmaTail
  <2>2. /\ cwork[c] \in 1 .. NumWork
        /\ Released(c) + Prologue(cwork[c]) = TileStart[cwork[c] + 1]
    BY <1>1, <1>2, <2>1 DEF ConsumerCursors, Working
  <2>3. /\ Prologue(cwork[c]) \in Nat /\ Prologue(cwork[c]) > 0
        /\ TileStart[cwork[c] + 1] \in Nat
        /\ cprologue'[c] = Prologue(cwork[c]) /\ cpc'[c] = "tail_release" /\ cwork' = cwork
    BY <1>1, <1>10, <2>2, PrologueFacts, WorkFacts DEF TypeOK, MmaTail
  <2>4. Released(c)' + cprologue'[c] = TileStart[cwork[c] + 1]
    BY <1>1, <2>3 DEF ConsumerCursors
  <2>5. Released(c)' \in Nat
    BY <1>1, TypePreserved DEF TypeOK, Cursor, Released
  <2>6. Released(c)' = Released(c)
    BY <1>2, <2>2, <2>3, <2>4, <2>5 DEF Released
  <2> QED BY <2>1, <2>6 DEF Seen, Release, TailRelease
<1>11. CASE TailRelease(c)
  <2>1. /\ cpc[c] = "tail_release" /\ cpc'[c] \in {"tail_release", "epilogue"}
        /\ cread' = cread /\ crelease'[c] = Inc(crelease[c])
    BY <1>1, <1>11 DEF TypeOK, TailRelease
  <2>2. Released(c)' = Released(c) + 1
    BY <2>1 DEF Inc, Released
  <2>3. Released(c) < m
    <3>1. m = TileStart[cwork[c] + 1] /\ cprologue[c] > 0 /\ cprologue[c] \in Nat
          /\ Released(c) + cprologue[c] = TileStart[cwork[c] + 1]
      BY <1>1, <2>1 DEF ConsumerCursors, TypeOK
    <3> QED BY <1>2, <3>1 DEF Released
  <2> QED BY <2>1, <2>2, <2>3, <1>11 DEF Seen
<1>12. CASE Epilogue(c)
  <2>1. cpc[c] = "epilogue" /\ cpc'[c] = "fetch" /\ cread' = cread /\ crelease' = crelease
    BY <1>1, <1>12 DEF TypeOK, Epilogue
  <2> QED BY <2>1 DEF Seen, Released, Release, TailRelease
<1> QED BY <1>3, <1>4, <1>5, <1>6, <1>7, <1>8, <1>9, <1>10, <1>11, <1>12 DEF Consumer

(* Where a producer's parity test succeeds, the slot is in the producer's  *)
(* own round: every earlier tile in it has been released.                  *)
LEMMA ProducerPass ==
  ASSUME IInv, NEW p \in Producers, ppc[p] \in {"acquire", "tail"},
         ProducerAcquired(empty, pwrite[p])
  PROVE  LET n == pwrite[p].count IN
         n \in Nat /\ empty[n % Stages].phase = n \div Stages
<1> DEFINE n == pwrite[p].count
           s == n % Stages
           q == n \div Stages
           e == empty[s].phase
<1>1. TypeOK /\ ProducerCursors(p)
  BY DEF IInv
<1>2. n \in Nat /\ pwrite[p] = StateAt(1, n)
  BY <1>1 DEF TypeOK, Cursor, ProducerCursors
<1>3. s \in Index /\ q \in Nat /\ Visits(n, s) = q
  BY <1>2, DivMod, VisitsAtCursor
<1>4. pwrite[p].index = s /\ pwrite[p].phase = (1 + q) % 2
  BY <1>2 DEF StateAt
<1>5. e % 2 # (1 + q) % 2
  BY <1>4 DEF ProducerAcquired, PhaseDone
<1>6. PICK c \in Consumers : TRUE
  BY ThreadsAssumption
<1>7. Granted(p) = n /\ Arrived(p) <= n /\ Arrived(p) \in Nat
  BY <1>2, WorkFacts DEF Granted, Arrived, Min2
<1>8. Visits(Arrived(p), s) <= q /\ Visits(Arrived(p), s) \in Nat
  BY <1>2, <1>3, <1>7, VisitsMonotone, VisitsType
<1>9. /\ e \in Nat /\ q <= e + 1
      /\ e <= Visits(Released(c), s)
      /\ Visits(Released(c), s) <= Visits(cread[c].count, s)
      /\ Visits(cread[c].count, s) <= Visits(Seen(c), s)
      /\ Visits(Seen(c), s) <= full[s].phase
      /\ full[s].phase <= Visits(Arrived(p), s)
      /\ Visits(Released(c), s) \in Nat /\ Visits(cread[c].count, s) \in Nat
      /\ Visits(Seen(c), s) \in Nat /\ full[s].phase \in Nat
  BY <1>3, <1>7, Chain, ConsumerCounts, VisitsType
<1> HIDE DEF n, s, q, e
<1>10. e <= q
  BY <1>3, <1>8, <1>9
<1>11. e = q
  BY <1>3, <1>5, <1>9, <1>10
<1> QED BY <1>2, <1>11 DEF n, s, q, e

(* Where a consumer's parity test succeeds, the slot's full barrier has    *)
(* completed the round of the tile the consumer is about to read.          *)
LEMMA ConsumerPass ==
  ASSUME IInv, NEW c \in Consumers, PhaseDone(full[cread[c].index], cread[c].phase)
  PROVE  LET m == cread[c].count IN
         m \in Nat /\ full[m % Stages].phase = (m \div Stages) + 1
<1> DEFINE m == cread[c].count
           s == m % Stages
           q == m \div Stages
           f == full[s].phase
<1>1. TypeOK /\ ConsumerCursors(c)
  BY DEF IInv
<1>2. m \in Nat /\ cread[c] = StateAt(0, m)
  BY <1>1 DEF TypeOK, Cursor, ConsumerCursors
<1>3. s \in Index /\ q \in Nat /\ Visits(m, s) = q
  BY <1>2, DivMod, VisitsAtCursor
<1>4. cread[c].index = s /\ cread[c].phase = (0 + q) % 2
  BY <1>2 DEF StateAt
<1>5. f % 2 # (0 + q) % 2
  BY <1>4 DEF PhaseDone
<1>6. PICK p \in Producers : TRUE
  BY ThreadsAssumption
<1>7. /\ f \in Nat /\ empty[s].phase \in Nat
      /\ Visits(Released(c), s) <= q /\ empty[s].phase <= Visits(Released(c), s)
      /\ q <= Visits(Seen(c), s) /\ Visits(Seen(c), s) <= f
      /\ f <= Visits(Arrived(p), s)
      /\ Visits(Arrived(p), s) <= Visits(Committed(p), s)
      /\ Visits(Committed(p), s) <= Visits(Granted(p), s)
      /\ Visits(Granted(p), s) <= empty[s].phase + 1
      /\ Visits(Released(c), s) \in Nat /\ Visits(Seen(c), s) \in Nat
      /\ Visits(Arrived(p), s) \in Nat /\ Visits(Committed(p), s) \in Nat
      /\ Visits(Granted(p), s) \in Nat
  BY <1>3, Chain
<1> HIDE DEF m, s, q, f
<1>8. q <= f /\ f <= q + 1
  BY <1>3, <1>7
<1>9. f = q + 1
  BY <1>3, <1>5, <1>7, <1>8
<1> QED BY <1>2, <1>9 DEF m, s, q, f

-----------------------------------------------------------------------------
(***************************************************************************)
(* Barriers.                                                               *)
(***************************************************************************)
LEMMA ThreadSets ==
  ASSUME NEW s \in Index
  PROVE  /\ IsFiniteSet(OwnArrivals(s)) /\ IsFiniteSet(CopyArrivals(s))
         /\ IsFiniteSet(MissingReleases(s))
         /\ Cardinality(Producers) \in Nat \ {0} /\ Cardinality(Consumers) \in Nat \ {0}
<1>1. /\ OwnArrivals(s) \subseteq Producers /\ CopyArrivals(s) \subseteq Producers
      /\ MissingReleases(s) \subseteq Consumers
  BY DEF OwnArrivals, CopyArrivals, MissingReleases
<1> QED BY <1>1, ThreadsAssumption, FS_Subset, FS_CardinalityType, FS_EmptySet

(* No step disturbs what an empty barrier counts. *)
LEMMA EmptyBarrierPreserved ==
  ASSUME K_PIPE_MMAS > 0, IInv, [Next]_vars, NEW s \in Index
  PROVE  EmptyBarrier(s)'
<1> USE StagesAssumption
<1>1. TypeOK /\ EmptyBarrier(s)
  BY DEF IInv
<1>2. empty[s].phase \in Nat
  BY <1>1 DEF TypeOK, Barrier
<1>3. ASSUME empty'[s] = empty[s],
             \A c \in Consumers : Released(c)' = Released(c),
             \A p \in Producers : Visits(Granted(p)', s) <= empty[s].phase + 1
      PROVE  EmptyBarrier(s)'
  <2>1. MissingReleases(s)' = MissingReleases(s)
    BY <1>3 DEF MissingReleases
  <2> QED BY <1>1, <1>3, <2>1 DEF EmptyBarrier
<1>4. ASSUME NEW p \in Producers, Producer(p) PROVE EmptyBarrier(s)'
  <2>1. /\ UNCHANGED <<empty, cvars>>
        /\ \A q \in Producers : q # p => SameProducer(q)
    BY <1>1, <1>4, ProducerFrame
  <2>2. \A q \in Producers : q # p => Granted(q)' = Granted(q)
    BY <2>1 DEF SameProducer, Granted
  <2>3. \A c \in Consumers : Released(c)' = Released(c)
    BY <2>1 DEF cvars, Released
  <2>4. Visits(Granted(p)', s) <= empty[s].phase + 1
    <3> DEFINE n == pwrite[p].count
    <3>1. CASE Acquire(p) \/ LoadTail(p)
      <4>1. /\ ppc[p] \in {"acquire", "tail"} /\ ProducerAcquired(empty, pwrite[p])
            /\ Granted(p) = n /\ Granted(p)' = n + 1
        BY <1>4, <3>1, ProducerMoves DEF Acquire, LoadTail
      <4>2. n \in Nat /\ empty[n % Stages].phase = n \div Stages
        BY <4>1, ProducerPass
      <4>3. Visits(n + 1, s) = IF s = n % Stages THEN Visits(n, s) + 1 ELSE Visits(n, s)
        BY <4>2, VisitsStep
      <4>4. Visits(n, n % Stages) = n \div Stages
        BY <4>2, VisitsAtCursor
      <4>5. Visits(n, s) <= empty[s].phase + 1
        BY <1>1, <4>1 DEF EmptyBarrier
      <4> HIDE DEF n
      <4>6. CASE s = n % Stages
        BY <1>2, <4>1, <4>2, <4>3, <4>4, <4>6
      <4>7. CASE s # n % Stages
        BY <4>1, <4>3, <4>5, <4>7
      <4> QED BY <4>6, <4>7
    <3>2. CASE ~(Acquire(p) \/ LoadTail(p))
      <4>1. Granted(p)' = Granted(p)
        BY <1>4, <3>2, ProducerMoves DEF Producer, SameCounts
      <4> QED BY <1>1, <4>1 DEF EmptyBarrier
    <3> QED BY <3>1, <3>2
  <2>5. \A q \in Producers : Visits(Granted(q)', s) <= empty[s].phase + 1
    BY <1>1, <2>2, <2>4 DEF EmptyBarrier
  <2> QED BY <1>3, <2>1, <2>3, <2>5
<1>5. ASSUME UNCHANGED <<empty, pvars, cvars>> PROVE EmptyBarrier(s)'
  <2>1. /\ \A q \in Producers : Granted(q)' = Granted(q)
        /\ \A c \in Consumers : Released(c)' = Released(c)
    BY <1>5 DEF pvars, cvars, Granted, Released
  <2> QED BY <1>1, <1>3, <1>5, <2>1 DEF EmptyBarrier
<1>6. ASSUME NEW c \in Consumers, Consumer(c) PROVE EmptyBarrier(s)'
  <2>1. /\ UNCHANGED pvars
        /\ \A d \in Consumers : d # c => SameConsumer(d)
    BY <1>1, <1>6, ConsumerFrame
  <2>2. \A q \in Producers : Granted(q)' = Granted(q)
    BY <2>1 DEF pvars, Granted
  <2>3. \A d \in Consumers : d # c => Released(d)' = Released(d)
    BY <2>1 DEF SameConsumer, Released
  <2>4. CASE ~(Release(c) \/ TailRelease(c))
    <3>1. Released(c)' = Released(c)
      BY <1>6, <2>4, ConsumerMoves
    <3>2. empty' = empty
      BY <1>6, <2>4 DEF Consumer, MmaBegin, MmaExit, TryWait, Wait, IssueMma, GmmaWait,
                        MmaTail, Epilogue
    <3> QED BY <1>1, <1>3, <2>2, <2>3, <3>1, <3>2 DEF EmptyBarrier
  <2>5. CASE Release(c) \/ TailRelease(c)
    <3> DEFINE r == Released(c)
               i == r % Stages
               e == empty[s].phase
    <3>1. /\ r \in Nat /\ cread[c].count \in Nat /\ Released(c)' = r + 1
          /\ r < cread[c].count
      BY <1>6, <2>5, ConsumerMoves, ConsumerCounts
    <3>2. crelease[c].index = i
      <4>1. crelease[c] = StateAt(0, r)
        BY DEF IInv, ConsumerCursors
      <4> QED BY <4>1 DEF StateAt
    <3>3. empty' = [empty EXCEPT ![i] = Arrive(@)]
      BY <2>5, <3>2 DEF Release, TailRelease, ConsumerRelease
    <3>4. Visits(r + 1, s) = IF s = i THEN Visits(r, s) + 1 ELSE Visits(r, s)
      BY <3>1, VisitsStep
    <3>5. CASE s # i
      <4>1. empty'[s] = empty[s]
        BY <1>1, <3>3, <3>5 DEF TypeOK
      <4>2. Visits(Released(c)', s) = Visits(Released(c), s)
        BY <3>1, <3>4, <3>5
      <4>3. MissingReleases(s)' = MissingReleases(s)
        BY <2>3, <4>1, <4>2 DEF MissingReleases
      <4> QED BY <1>1, <2>2, <2>3, <4>1, <4>2, <4>3 DEF EmptyBarrier
    <3>6. CASE s = i
      <4>1. empty'[s] = Arrive(empty[s])
        BY <1>1, <3>3, <3>6 DEF TypeOK
      <4>2. Visits(r, s) = r \div Stages /\ r \div Stages \in Nat
        BY <3>1, <3>6, VisitsAtCursor, DivMod
      <4>3. \A d \in Consumers : /\ Visits(Released(d), s) \in Nat
                                 /\ e <= Visits(Released(d), s)
                                 /\ Visits(Released(d), s) <= e + 1
        <5>1. PICK p \in Producers : TRUE
          BY ThreadsAssumption
        <5> HIDE DEF r, i
        <5>2. SUFFICES ASSUME NEW d \in Consumers
                       PROVE  /\ Visits(Released(d), s) \in Nat
                              /\ e <= Visits(Released(d), s)
                              /\ Visits(Released(d), s) <= e + 1
          OBVIOUS
        <5>3. Visits(cread[d].count, s) \in Nat
          BY ConsumerCounts, VisitsType
        <5> QED BY <5>3, Chain
      <4>4. Visits(cread[c].count, s) >= (r \div Stages) + 1 /\ Visits(cread[c].count, s) \in Nat
        BY <3>1, <3>6, VisitsBeyond, VisitsType
      <4>5. Visits(cread[c].count, s) <= e + 1
        <5>1. PICK p \in Producers : TRUE
          BY ThreadsAssumption
        <5> HIDE DEF r, i
        <5> QED BY <4>4, Chain
      <4>6. Visits(r, s) = e
        <5> HIDE DEF i, e
        <5> QED BY <1>2, <4>2, <4>3, <4>4, <4>5 DEF e
      <4>7. c \in MissingReleases(s)
        BY <4>6 DEF MissingReleases
      <4>8. Visits(Released(c)', s) = e + 1
        BY <3>1, <3>4, <3>6, <4>6
      <4>9. /\ IsFiniteSet(MissingReleases(s) \ {c})
            /\ Cardinality(MissingReleases(s)) \in Nat \ {0}
            /\ Cardinality(MissingReleases(s) \ {c}) = Cardinality(MissingReleases(s)) - 1
            /\ Cardinality(Consumers) \in Nat \ {0}
        BY <4>7, ThreadSets, CardRemove
      <4>10. /\ empty[s].pending = Cardinality(MissingReleases(s))
             /\ empty[s].count = Cardinality(Consumers)
        BY <1>1 DEF EmptyBarrier
      <4>11. \A q \in Producers : /\ Visits(Granted(q)', s) \in Nat
                                  /\ Visits(Granted(q)', s) <= e + 1
        BY <1>1, <2>2, ProducerCounts, VisitsType DEF EmptyBarrier
      <4>12. CASE empty[s].pending = 1
        <5>1. empty'[s].phase = e + 1 /\ empty'[s].pending = empty[s].count
              /\ empty'[s].count = empty[s].count
          BY <1>1, <4>1, <4>12 DEF Arrive, TypeOK, Barrier
        <5>2. MissingReleases(s) \ {c} = {}
          BY <4>9, <4>10, <4>12, CardZero
        <5>3. \A d \in Consumers : d # c => Visits(Released(d), s) = e + 1
          <6>1. \A d \in Consumers : d # c => Visits(Released(d), s) # e
            BY <5>2 DEF MissingReleases
          <6> HIDE DEF r, i, e
          <6> QED BY <1>2, <4>3, <6>1 DEF e
        <5>4. \A d \in Consumers : Visits(Released(d)', s) = e + 1
          BY <2>3, <4>8, <5>3
        <5>5. MissingReleases(s)' = Consumers
          BY <5>1, <5>4 DEF MissingReleases
        <5>6. \A d \in Consumers : empty'[s].phase <= Visits(Released(d)', s)
          BY <1>2, <5>1, <5>4
        <5>7. \A q \in Producers : Visits(Granted(q)', s) <= empty'[s].phase + 1
          <6> HIDE DEF r, i, e
          <6> QED BY <1>2, <4>11, <5>1 DEF e
        <5> QED BY <4>9, <4>10, <5>1, <5>5, <5>6, <5>7 DEF EmptyBarrier
      <4>13. CASE empty[s].pending # 1
        <5>1. empty'[s].phase = e /\ empty'[s].pending = empty[s].pending - 1
              /\ empty'[s].count = empty[s].count
          BY <1>1, <4>1, <4>13 DEF Arrive, TypeOK, Barrier
        <5>2. MissingReleases(s)' = MissingReleases(s) \ {c}
          <6>1. e + 1 # e
            BY <1>2
          <6>2. \A d \in Consumers : Visits(Released(d)', s) = e <=>
                                       Visits(Released(d), s) = e /\ d # c
            BY <2>3, <4>8, <6>1
          <6> HIDE DEF r, i, e
          <6> QED BY <5>1, <6>2 DEF MissingReleases, e
        <5>3. \A d \in Consumers : empty'[s].phase <= Visits(Released(d)', s)
          <6> HIDE DEF r, i, e
          <6> QED BY <1>2, <2>3, <4>3, <4>8, <5>1 DEF e
        <5>4. empty'[s].pending > 0
          BY <4>9, <4>10, <4>13, <5>1
        <5> QED BY <4>9, <4>10, <4>11, <5>1, <5>2, <5>3, <5>4 DEF EmptyBarrier
      <4> QED BY <4>12, <4>13
    <3> QED BY <3>5, <3>6
  <2> QED BY <2>4, <2>5
<1>7. ASSUME NEW p \in Producers, CopiesLand(p) PROVE EmptyBarrier(s)'
  BY <1>5, <1>7 DEF CopiesLand
<1>8. ASSUME NEW c \in Consumers, MmaRetires(c) PROVE EmptyBarrier(s)'
  BY <1>5, <1>8 DEF MmaRetires
<1>9. CASE UNCHANGED vars
  BY <1>5, <1>9 DEF vars
<1> QED BY <1>4, <1>6, <1>7, <1>8, <1>9 DEF Next, Terminated

(* The last arrival on a full barrier starts the next round: every thread  *)
(* has arrived for the old one and all of its copies have landed.          *)
LEMMA FullBarrierRound ==
  ASSUME IInv, NEW s \in Index,
         full'[s].count = full[s].count,
         full'[s].phase = full[s].phase + 1,
         full'[s].pending = full[s].count,
         \A q \in Producers :
           /\ Visits(Arrived(q)', s) = full[s].phase + 1
           /\ Visits(landed'[q], s) \in Nat /\ Visits(Committed(q)', s) \in Nat
           /\ Visits(landed'[q], s) >= Visits(Committed(q)', s)
           /\ Visits(landed'[q], s) >= full[s].phase + 1,
         \A c \in Consumers : Seen(c)' = Seen(c)
  PROVE  FullBarrier(s)'
<1>1. TypeOK /\ FullBarrier(s)
  BY DEF IInv
<1>2. full[s].phase \in Nat
  BY <1>1 DEF TypeOK, Barrier
<1>3. OwnArrivals(s)' = Producers
  BY DEF OwnArrivals
<1>4. CopyArrivals(s)' = {}
  BY DEF CopyArrivals
<1>5. Cardinality({}) = 0 /\ Cardinality(Producers) \in Nat \ {0}
  BY FS_EmptySet, ThreadSets
<1>6. \A c \in Consumers : Visits(Seen(c)', s) <= full'[s].phase
  <2>1. \A c \in Consumers : Visits(Seen(c), s) <= full[s].phase /\ Visits(Seen(c), s) \in Nat
    BY <1>1, ConsumerCounts, VisitsType DEF FullBarrier
  <2> QED BY <1>2, <2>1
<1>7. full'[s].pending = Cardinality(OwnArrivals(s)') + Cardinality(CopyArrivals(s)')
  BY <1>1, <1>3, <1>4, <1>5 DEF FullBarrier
<1>8. \A q \in Producers : /\ full'[s].phase <= Visits(landed'[q], s)
                           /\ full'[s].phase <= Visits(Arrived(q)', s)
  BY <1>2
<1> QED BY <1>1, <1>5, <1>6, <1>7, <1>8 DEF FullBarrier

(* No step disturbs what a full barrier counts. *)
LEMMA FullBarrierPreserved ==
  ASSUME K_PIPE_MMAS > 0, IInv, [Next]_vars, NEW s \in Index
  PROVE  FullBarrier(s)'
<1> USE StagesAssumption
<1> DEFINE f == full[s].phase
<1>1. TypeOK /\ FullBarrier(s)
  BY DEF IInv
<1>2. f \in Nat
  BY <1>1 DEF TypeOK, Barrier
<1>3. \A q \in Producers :
        /\ Visits(Arrived(q), s) \in Nat /\ Visits(Committed(q), s) \in Nat
        /\ Visits(landed[q], s) \in Nat
        /\ f <= Visits(Arrived(q), s) /\ Visits(Arrived(q), s) <= Visits(Committed(q), s)
        /\ Visits(Committed(q), s) <= f + 1
        /\ f <= Visits(landed[q], s) /\ Visits(landed[q], s) <= Visits(Committed(q), s)
  <2>1. PICK c \in Consumers : TRUE
    BY ThreadsAssumption
  <2>2. SUFFICES ASSUME NEW q \in Producers
                 PROVE
        /\ Visits(Arrived(q), s) \in Nat /\ Visits(Committed(q), s) \in Nat
        /\ Visits(landed[q], s) \in Nat
        /\ f <= Visits(Arrived(q), s) /\ Visits(Arrived(q), s) <= Visits(Committed(q), s)
        /\ Visits(Committed(q), s) <= f + 1
        /\ f <= Visits(landed[q], s) /\ Visits(landed[q], s) <= Visits(Committed(q), s)
    OBVIOUS
  <2>3. Visits(cread[c].count, s) \in Nat
    BY ConsumerCounts, VisitsType
  <2> QED BY <2>3, Chain
<1>4. /\ full[s].count = Cardinality(Producers) /\ Cardinality(Producers) \in Nat \ {0}
      /\ full[s].pending = Cardinality(OwnArrivals(s)) + Cardinality(CopyArrivals(s))
      /\ IsFiniteSet(OwnArrivals(s)) /\ IsFiniteSet(CopyArrivals(s))
      /\ Cardinality(OwnArrivals(s)) \in Nat /\ Cardinality(CopyArrivals(s)) \in Nat
      /\ \A c \in Consumers : Visits(Seen(c), s) <= f
  BY <1>1, ThreadSets, FS_CardinalityType DEF FullBarrier
<1>5. ASSUME full'[s] = full[s], UNCHANGED landed,
             \A q \in Producers : /\ Arrived(q)' = Arrived(q)
                                  /\ Visits(Committed(q)', s) = Visits(Committed(q), s),
             \A c \in Consumers : Visits(Seen(c)', s) <= f
      PROVE  FullBarrier(s)'
  <2>1. OwnArrivals(s)' = OwnArrivals(s) /\ CopyArrivals(s)' = CopyArrivals(s)
    BY <1>5 DEF OwnArrivals, CopyArrivals
  <2> QED BY <1>1, <1>5, <2>1 DEF FullBarrier
<1>6. ASSUME NEW p \in Producers, Producer(p) PROVE FullBarrier(s)'
  <2> DEFINE n == pwrite[p].count
             i == n % Stages
  <2>1. /\ UNCHANGED <<cvars, landed>> /\ \A q \in Producers : q # p => SameProducer(q)
    BY <1>1, <1>6, ProducerFrame
  <2>2. \A q \in Producers : q # p => Arrived(q)' = Arrived(q) /\ Committed(q)' = Committed(q)
    BY <2>1 DEF SameProducer, Arrived, Committed
  <2>3. \A c \in Consumers : Seen(c)' = Seen(c)
    BY <2>1 DEF cvars, Seen
  <2>4. n \in Nat /\ pwrite[p].index = i /\ i \in Index
    <3>1. n \in Nat /\ pwrite[p] = StateAt(1, n)
      BY <1>1 DEF TypeOK, Cursor, IInv, ProducerCursors
    <3> QED BY <3>1, DivMod DEF StateAt
  <2>5. /\ Visits(n + 1, s) = IF s = i THEN Visits(n, s) + 1 ELSE Visits(n, s)
        /\ Visits(n, s) \in Nat
    BY <2>4, VisitsStep, VisitsType
  <2>6. CASE CommitOp(p)
    <3>1. Arrived(p)' = Arrived(p) /\ Committed(p) = n /\ Committed(p)' = n + 1
          /\ Granted(p) = n + 1
      BY <1>6, <2>6, ProducerMoves
    <3>2. full' = [full EXCEPT ![i] = CpAsyncArrive(@)]
      BY <2>4, <2>6 DEF CommitOp, ProducerCommitOp
    <3>3. CASE s # i
      <4>1. full'[s] = full[s]
        BY <1>1, <3>2, <3>3 DEF TypeOK
      <4>2. \A q \in Producers : /\ Arrived(q)' = Arrived(q)
                                 /\ Visits(Committed(q)', s) = Visits(Committed(q), s)
        <5> HIDE DEF n, i
        <5> QED BY <2>2, <2>5, <3>1, <3>3
      <4> QED BY <1>4, <1>5, <2>1, <2>3, <4>1, <4>2
    <3>4. CASE s = i
      <4>1. /\ full'[s].phase = f /\ full'[s].count = full[s].count
            /\ full'[s].pending = full[s].pending + 1
        BY <1>1, <3>2, <3>4 DEF TypeOK, CpAsyncArrive, Barrier
      <4>2. Visits(landed[p], s) = Visits(n, s) /\ Visits(n, s) = f
        <5>1. PICK c \in Consumers : TRUE
          BY ThreadsAssumption
        <5>2. Visits(n + 1, s) <= empty[s].phase + 1 /\ empty[s].phase <= f
              /\ empty[s].phase \in Nat
          <6>1. Visits(cread[c].count, s) \in Nat
            BY ConsumerCounts, VisitsType
          <6> HIDE DEF n, i
          <6> QED BY <3>1, <6>1, Chain
        <5>3. f <= Visits(landed[p], s) /\ Visits(landed[p], s) <= Visits(n, s)
              /\ Visits(landed[p], s) \in Nat
          BY <1>3, <3>1
        <5> HIDE DEF n, i, f
        <5> QED BY <1>2, <2>5, <3>4, <5>2, <5>3
      <4>3. p \notin CopyArrivals(s)
        <5>1. ~(Visits(landed[p], s) < Visits(Committed(p), s))
          BY <1>2, <3>1, <4>2
        <5> QED BY <5>1 DEF CopyArrivals
      <4>4. CopyArrivals(s)' = CopyArrivals(s) \cup {p}
        <5>1. Visits(landed'[p], s) < Visits(Committed(p)', s)
          BY <1>2, <2>1, <2>5, <3>1, <3>4, <4>2
        <5> HIDE DEF n, i
        <5> QED BY <2>1, <2>2, <5>1 DEF CopyArrivals
      <4>5. OwnArrivals(s)' = OwnArrivals(s)
        BY <2>2, <3>1, <4>1 DEF OwnArrivals
      <4>6. Cardinality(CopyArrivals(s)') = Cardinality(CopyArrivals(s)) + 1
        BY <1>4, <4>3, <4>4, CardAdd
      <4>7. full'[s].pending = Cardinality(OwnArrivals(s)') + Cardinality(CopyArrivals(s)')
            /\ full'[s].pending > 0
        BY <1>4, <4>1, <4>5, <4>6
      <4>8. \A q \in Producers : Arrived(q)' = Arrived(q)
        BY <2>2, <3>1
      <4> QED BY <1>1, <2>1, <2>3, <4>1, <4>7, <4>8 DEF FullBarrier
    <3> QED BY <3>3, <3>4
  <2>7. CASE Commit(p)
    <3>1. Arrived(p) = n /\ Arrived(p)' = n + 1 /\ Committed(p) = n + 1
          /\ Committed(p)' = n + 1
      BY <1>6, <2>7, ProducerMoves
    <3>2. full' = [full EXCEPT ![i] = Arrive(@)]
      BY <2>4, <2>7 DEF Commit, ProducerCommit
    <3>3. \A q \in Producers : Committed(q)' = Committed(q)
      BY <2>2, <3>1
    <3>4. CASE s # i
      <4>1. full'[s] = full[s]
        BY <1>1, <3>2, <3>4 DEF TypeOK
      <4>2. \A q \in Producers : Visits(Arrived(q)', s) = Visits(Arrived(q), s)
        <5> HIDE DEF n, i
        <5> QED BY <2>2, <2>5, <3>1, <3>4
      <4>3. OwnArrivals(s)' = OwnArrivals(s) /\ CopyArrivals(s)' = CopyArrivals(s)
        BY <2>1, <3>3, <4>1, <4>2 DEF OwnArrivals, CopyArrivals
      <4> QED BY <1>1, <2>1, <2>3, <4>1, <4>2, <4>3 DEF FullBarrier
    <3>5. CASE s = i
      <4>1. full'[s] = Arrive(full[s])
        BY <1>1, <3>2, <3>5 DEF TypeOK
      <4>2. Visits(n, s) = f /\ Visits(n + 1, s) = f + 1
        <5>1. f <= Visits(n, s) /\ Visits(n + 1, s) <= f + 1
          BY <1>3, <3>1
        <5> HIDE DEF n, i, f
        <5> QED BY <1>2, <2>5, <3>5, <5>1
      <4>3. p \in OwnArrivals(s)
        BY <3>1, <4>2 DEF OwnArrivals
      <4>4. /\ Cardinality(OwnArrivals(s)) \in Nat \ {0}
            /\ IsFiniteSet(OwnArrivals(s) \ {p})
            /\ Cardinality(OwnArrivals(s) \ {p}) = Cardinality(OwnArrivals(s)) - 1
        BY <1>4, <4>3, CardRemove
      <4>5. CASE full[s].pending = 1
        <5>1. /\ full'[s].count = full[s].count /\ full'[s].phase = f + 1
              /\ full'[s].pending = full[s].count
          BY <1>1, <4>1, <4>5 DEF Arrive, TypeOK, Barrier
        <5>2. OwnArrivals(s) \ {p} = {} /\ CopyArrivals(s) = {}
          BY <1>4, <4>4, <4>5, CardZero
        <5>3. \A q \in Producers : Visits(Arrived(q)', s) = f + 1
          <6>1. \A q \in Producers : q # p => Visits(Arrived(q), s) # f
            BY <5>2 DEF OwnArrivals
          <6>2. \A q \in Producers : q # p => Visits(Arrived(q), s) = f + 1
            <7> HIDE DEF n, i, f
            <7> QED BY <1>2, <1>3, <6>1 DEF f
          <6> QED BY <2>2, <3>1, <4>2, <6>2
        <5>4. \A q \in Producers : Visits(landed[q], s) >= Visits(Committed(q), s)
          <6>1. \A q \in Producers : ~(Visits(landed[q], s) < Visits(Committed(q), s))
            BY <5>2 DEF CopyArrivals
          <6> QED BY <1>3, <6>1
        <5>5. \A q \in Producers : /\ Visits(landed'[q], s) \in Nat
                                   /\ Visits(Committed(q)', s) \in Nat
                                   /\ Visits(landed'[q], s) >= Visits(Committed(q)', s)
          BY <1>3, <2>1, <3>3, <5>4
        <5>6. \A q \in Producers : Visits(landed'[q], s) >= f + 1
          <6>1. \A q \in Producers : Visits(Committed(q), s) >= f + 1
            <7>1. \A q \in Producers : q # p => Arrived(q)' = Arrived(q)
              BY <2>2
            <7>2. Visits(Committed(p), s) = f + 1
              BY <3>1, <4>2
            <7> HIDE DEF n, i, f
            <7> QED BY <1>2, <1>3, <5>3, <7>1, <7>2 DEF f
          <6> HIDE DEF n, i, f
          <6> QED BY <1>2, <1>3, <2>1, <5>4, <6>1 DEF f
        <5> QED BY <2>3, <5>1, <5>3, <5>5, <5>6, FullBarrierRound
      <4>6. CASE full[s].pending # 1
        <5>1. /\ full'[s].count = full[s].count /\ full'[s].phase = f
              /\ full'[s].pending = full[s].pending - 1
          BY <1>1, <4>1, <4>6 DEF Arrive, TypeOK, Barrier
        <5>2. OwnArrivals(s)' = OwnArrivals(s) \ {p}
          <6>1. f + 1 # f
            BY <1>2
          <6>2. \A q \in Producers : Visits(Arrived(q)', s) = f <=>
                                       Visits(Arrived(q), s) = f /\ q # p
            BY <2>2, <3>1, <4>2, <6>1
          <6> HIDE DEF n, i, f
          <6> QED BY <5>1, <6>2 DEF OwnArrivals, f
        <5>3. CopyArrivals(s)' = CopyArrivals(s)
          BY <2>1, <3>3 DEF CopyArrivals
        <5>4. full'[s].pending = Cardinality(OwnArrivals(s)') + Cardinality(CopyArrivals(s)')
              /\ full'[s].pending > 0
          BY <1>4, <4>4, <4>6, <5>1, <5>2, <5>3
        <5>5. \A q \in Producers : full'[s].phase <= Visits(Arrived(q)', s)
          <6> HIDE DEF n, i, f
          <6> QED BY <1>2, <1>3, <2>2, <3>1, <4>2, <5>1 DEF f
        <5> QED BY <1>1, <2>1, <2>3, <5>1, <5>4, <5>5 DEF FullBarrier
      <4> QED BY <4>5, <4>6
    <3> QED BY <3>4, <3>5
  <2>8. CASE ~(CommitOp(p) \/ Commit(p))
    <3>1. Arrived(p)' = Arrived(p) /\ Committed(p)' = Committed(p)
      BY <1>6, <2>8, ProducerMoves DEF Producer, SameCounts
    <3>2. full' = full
      BY <1>6, <2>8 DEF Producer, LoadBegin, LoadTailBegin, Acquire, IssueCopies, LoadTail
    <3> QED BY <1>4, <1>5, <2>1, <2>2, <2>3, <3>1, <3>2
  <2> QED BY <2>6, <2>7, <2>8
<1>7. ASSUME NEW p \in Producers, CopiesLand(p) PROVE FullBarrier(s)'
  <2> DEFINE l == landed[p]
             i == l % Stages
  <2>1. /\ l \in Nat /\ l < Committed(p) /\ UNCHANGED <<pvars, cvars>>
        /\ full' = [full EXCEPT ![i] = Arrive(@)]
        /\ landed' = [landed EXCEPT ![p] = l + 1]
    BY <1>1, <1>7 DEF TypeOK, CopiesLand, SlotOf
  <2>2. /\ \A q \in Producers : Arrived(q)' = Arrived(q) /\ Committed(q)' = Committed(q)
        /\ \A c \in Consumers : Seen(c)' = Seen(c)
    BY <2>1 DEF pvars, cvars, Arrived, Committed, Seen
  <2>3. landed'[p] = l + 1 /\ \A q \in Producers : q # p => landed'[q] = landed[q]
    BY <1>1, <2>1 DEF TypeOK
  <2>4. /\ Visits(l + 1, s) = IF s = i THEN Visits(l, s) + 1 ELSE Visits(l, s)
        /\ Visits(l, s) \in Nat
    BY <2>1, VisitsStep, VisitsType
  <2>5. CASE s # i
    <3>1. full'[s] = full[s]
      BY <1>1, <2>1, <2>5 DEF TypeOK
    <3>2. \A q \in Producers : Visits(landed'[q], s) = Visits(landed[q], s)
      <4> HIDE DEF i
      <4> QED BY <2>3, <2>4, <2>5
    <3>3. OwnArrivals(s)' = OwnArrivals(s) /\ CopyArrivals(s)' = CopyArrivals(s)
      BY <2>2, <3>1, <3>2 DEF OwnArrivals, CopyArrivals
    <3> QED BY <1>1, <2>2, <3>1, <3>2, <3>3 DEF FullBarrier
  <2>6. CASE s = i
    <3>1. full'[s] = Arrive(full[s])
      BY <1>1, <2>1, <2>6 DEF TypeOK
    <3>2. Visits(l, s) < Visits(Committed(p), s)
      <4>1. Committed(p) \in Nat
        BY ProducerCounts
      <4>2. Visits(l, s) = l \div Stages /\ l \div Stages \in Nat
        BY <2>1, <2>6, VisitsAtCursor, DivMod
      <4>3. Visits(Committed(p), s) >= (l \div Stages) + 1
        BY <2>1, <2>6, <4>1, VisitsBeyond
      <4> HIDE DEF l, i
      <4> QED BY <1>3, <4>2, <4>3
    <3>3. Visits(l, s) = f /\ Visits(Committed(p), s) = f + 1 /\ Visits(landed'[p], s) = f + 1
      <4>1. Visits(l, s) = f /\ Visits(Committed(p), s) = f + 1
        <5>1. f <= Visits(l, s) /\ Visits(Committed(p), s) <= f + 1
              /\ Visits(Committed(p), s) \in Nat
          BY <1>3
        <5> HIDE DEF l, i, f
        <5> QED BY <1>2, <2>4, <3>2, <5>1
      <4> QED BY <2>3, <2>4, <2>6, <4>1
    <3>4. p \in CopyArrivals(s)
      BY <3>2 DEF CopyArrivals
    <3>5. /\ Cardinality(CopyArrivals(s)) \in Nat \ {0}
          /\ IsFiniteSet(CopyArrivals(s) \ {p})
          /\ Cardinality(CopyArrivals(s) \ {p}) = Cardinality(CopyArrivals(s)) - 1
      BY <1>4, <3>4, CardRemove
    <3>6. CASE full[s].pending = 1
      <4>1. /\ full'[s].count = full[s].count /\ full'[s].phase = f + 1
            /\ full'[s].pending = full[s].count
        BY <1>1, <3>1, <3>6 DEF Arrive, TypeOK, Barrier
      <4>2. OwnArrivals(s) = {} /\ CopyArrivals(s) \ {p} = {}
        BY <1>4, <3>5, <3>6, CardZero
      <4>3. \A q \in Producers : Visits(Arrived(q)', s) = f + 1
        <5>1. \A q \in Producers : Visits(Arrived(q), s) # f
          BY <4>2 DEF OwnArrivals
        <5>2. \A q \in Producers : Visits(Arrived(q), s) = f + 1
          <6> HIDE DEF l, i, f
          <6> QED BY <1>2, <1>3, <5>1 DEF f
        <5> QED BY <2>2, <5>2
      <4>4. \A q \in Producers : q # p => Visits(landed[q], s) >= Visits(Committed(q), s)
        <5>1. \A q \in Producers : q # p => ~(Visits(landed[q], s) < Visits(Committed(q), s))
          BY <4>2 DEF CopyArrivals
        <5> QED BY <1>3, <5>1
      <4>5. \A q \in Producers : Visits(Committed(q), s) = f + 1
        <5>1. \A q \in Producers : Visits(Arrived(q), s) = f + 1
          BY <2>2, <4>3
        <5> HIDE DEF l, i, f
        <5> QED BY <1>2, <1>3, <5>1 DEF f
      <4>6. \A q \in Producers : /\ Visits(landed'[q], s) \in Nat
                                 /\ Visits(Committed(q)', s) \in Nat
                                 /\ Visits(landed'[q], s) >= Visits(Committed(q)', s)
                                 /\ Visits(landed'[q], s) >= f + 1
        <5>1. \A q \in Producers : q # p =>
                   Visits(landed'[q], s) \in Nat /\ Visits(landed'[q], s) >= f + 1
          <6> HIDE DEF l, i, f
          <6> QED BY <1>3, <2>3, <4>4, <4>5 DEF f
        <5>2. Visits(landed'[p], s) \in Nat /\ Visits(landed'[p], s) >= f + 1
          BY <1>2, <3>3
        <5>3. \A q \in Producers : Visits(Committed(q)', s) = f + 1
          BY <2>2, <4>5
        <5> HIDE DEF l, i, f
        <5> QED BY <1>2, <5>1, <5>2, <5>3 DEF f
      <4> QED BY <2>2, <4>1, <4>3, <4>6, FullBarrierRound
    <3>7. CASE full[s].pending # 1
      <4>1. /\ full'[s].count = full[s].count /\ full'[s].phase = f
            /\ full'[s].pending = full[s].pending - 1
        BY <1>1, <3>1, <3>7 DEF Arrive, TypeOK, Barrier
      <4>2. OwnArrivals(s)' = OwnArrivals(s)
        BY <2>2, <4>1 DEF OwnArrivals
      <4>3. CopyArrivals(s)' = CopyArrivals(s) \ {p}
        <5>1. ~(Visits(landed'[p], s) < Visits(Committed(p)', s))
          BY <1>2, <2>2, <3>3
        <5> HIDE DEF l, i, f
        <5> QED BY <2>2, <2>3, <5>1 DEF CopyArrivals
      <4>4. full'[s].pending = Cardinality(OwnArrivals(s)') + Cardinality(CopyArrivals(s)')
            /\ full'[s].pending > 0
        BY <1>4, <3>5, <3>7, <4>1, <4>2, <4>3
      <4>5. \A q \in Producers : full'[s].phase <= Visits(landed'[q], s)
        <5> HIDE DEF l, i, f
        <5> QED BY <1>2, <1>3, <2>3, <3>3, <4>1 DEF f
      <4> QED BY <1>1, <2>2, <4>1, <4>4, <4>5 DEF FullBarrier
    <3> QED BY <3>6, <3>7
  <2> QED BY <2>5, <2>6
<1>8. ASSUME NEW c \in Consumers, Consumer(c) PROVE FullBarrier(s)'
  <2> DEFINE m == cread[c].count
  <2>1. /\ UNCHANGED <<full, pvars, landed>>
        /\ \A d \in Consumers : d # c => SameConsumer(d)
    BY <1>1, <1>8, ConsumerFrame
  <2>2. \A q \in Producers : Arrived(q)' = Arrived(q) /\ Committed(q)' = Committed(q)
    BY <2>1 DEF pvars, Arrived, Committed
  <2>3. \A d \in Consumers : d # c => Seen(d)' = Seen(d)
    BY <2>1 DEF SameConsumer, Seen
  <2>4. Visits(Seen(c)', s) <= f
    <3>1. CASE Seen(c)' = Seen(c)
      BY <1>4, <3>1
    <3>2. CASE /\ Seen(c) = m /\ Seen(c)' = m + 1
               /\ PhaseDone(full[cread[c].index], cread[c].phase)
      <4>1. m \in Nat /\ full[m % Stages].phase = (m \div Stages) + 1
        BY <3>2, ConsumerPass
      <4>2. Visits(m + 1, s) = IF s = m % Stages THEN Visits(m, s) + 1 ELSE Visits(m, s)
        BY <4>1, VisitsStep
      <4>3. Visits(m, m % Stages) = m \div Stages /\ m \div Stages \in Nat
        BY <4>1, VisitsAtCursor, DivMod
      <4>4. Visits(m, s) <= f
        BY <1>4, <3>2
      <4> HIDE DEF m
      <4>5. CASE s = m % Stages
        BY <1>2, <3>2, <4>1, <4>2, <4>3, <4>5
      <4>6. CASE s # m % Stages
        BY <3>2, <4>2, <4>4, <4>6
      <4> QED BY <4>5, <4>6
    <3> QED BY <1>8, <3>1, <3>2, ConsumerMoves
  <2>5. \A d \in Consumers : Visits(Seen(d)', s) <= f
    BY <1>4, <2>3, <2>4
  <2> QED BY <1>5, <2>1, <2>2, <2>5
<1>9. ASSUME UNCHANGED <<full, pvars, cvars, landed>> PROVE FullBarrier(s)'
  <2>1. /\ \A q \in Producers : Arrived(q)' = Arrived(q) /\ Committed(q)' = Committed(q)
        /\ \A c \in Consumers : Seen(c)' = Seen(c)
    BY <1>9 DEF pvars, cvars, Arrived, Committed, Seen
  <2> QED BY <1>4, <1>5, <1>9, <2>1
<1>10. ASSUME NEW c \in Consumers, MmaRetires(c) PROVE FullBarrier(s)'
  BY <1>9, <1>10 DEF MmaRetires
<1>11. CASE UNCHANGED vars
  BY <1>9, <1>11 DEF vars
<1> QED BY <1>6, <1>7, <1>8, <1>10, <1>11 DEF Next, Terminated

-----------------------------------------------------------------------------
(***************************************************************************)
(* What the counts say of the data in the slots, and the safety properties *)
(* of CpAsyncGemm as theorems of its specification.                        *)
(***************************************************************************)

(* A tile that a consumer has not released, or that has not landed, is not *)
(* overtaken by the producer that reuses its slot.                         *)
LEMMA Window ==
  ASSUME IInv, NEW p \in Producers, NEW c \in Consumers, NEW n \in Nat,
         Released(c) <= n \/ landed[p] <= n
  PROVE  Granted(p) <= n + Stages
<1> DEFINE s == n % Stages
           q == n \div Stages
<1>1. s \in Index /\ q \in Nat
  BY DivMod
<1>2. Granted(p) \in Nat /\ landed[p] \in Nat /\ Released(c) \in Nat
  BY ProducerCounts, ConsumerCounts
<1>3. SUFFICES ASSUME Granted(p) > n + Stages PROVE FALSE
  BY <1>2, StagesAssumption
<1>4. Visits(Granted(p), s) >= q + 2
  BY <1>2, <1>3, VisitsBeyond
<1>5. Visits(Released(c), s) <= q \/ Visits(landed[p], s) <= q
  BY <1>2, VisitsBeyond
<1>6. /\ Visits(Released(c), s) \in Nat /\ Visits(landed[p], s) \in Nat
      /\ Visits(Granted(p), s) \in Nat /\ empty[s].phase \in Nat
      /\ empty[s].phase <= Visits(Released(c), s)
      /\ empty[s].phase <= Visits(landed[p], s)
      /\ Visits(Granted(p), s) <= empty[s].phase + 1
  <2>1. Visits(cread[c].count, s) \in Nat
    BY <1>1, ConsumerCounts, VisitsType
  <2> HIDE DEF s
  <2> QED BY <1>1, <2>1, Chain
<1> HIDE DEF s, q
<1> QED BY <1>1, <1>4, <1>5, <1>6

(* A tile a consumer has seen has landed. *)
LEMMA SeenLanded ==
  ASSUME IInv, NEW p \in Producers, NEW c \in Consumers, NEW n \in Nat, n < Seen(c)
  PROVE  n < landed[p]
<1> DEFINE s == n % Stages
           q == n \div Stages
<1>1. s \in Index /\ q \in Nat
  BY DivMod
<1>2. landed[p] \in Nat /\ Seen(c) \in Nat
  BY ProducerCounts, ConsumerCounts
<1>3. SUFFICES ASSUME landed[p] <= n PROVE FALSE
  BY <1>2
<1>4. Visits(Seen(c), s) >= q + 1
  BY <1>2, VisitsBeyond
<1>5. Visits(landed[p], s) <= q
  BY <1>2, <1>3, VisitsBeyond
<1>6. /\ Visits(Seen(c), s) \in Nat /\ Visits(landed[p], s) \in Nat
      /\ full[s].phase \in Nat
      /\ Visits(Seen(c), s) <= full[s].phase
      /\ full[s].phase <= Visits(landed[p], s)
  <2> HIDE DEF s
  <2> QED BY <1>1, Chain
<1> HIDE DEF s, q
<1> QED BY <1>1, <1>4, <1>5, <1>6

(* The invariant implies that multiplies in flight read whole tiles. *)
LEMMA WholeTiles == IInv => MmaReadsWholeTiles
<1> SUFFICES ASSUME IInv, NEW c \in Consumers,
                    NEW n \in cread[c].count - mmas[c] .. cread[c].count - 1,
                    NEW p \in Producers
             PROVE  smem[SlotOf(n)][p] = n
  BY DEF MmaReadsWholeTiles
<1>1. /\ cread[c].count \in Nat /\ mmas[c] \in Nat /\ Released(c) \in Nat
      /\ Seen(c) \in Nat /\ cread[c].count <= Seen(c)
      /\ mmas[c] + Released(c) <= cread[c].count
  BY ConsumerCounts
<1>2. n \in Nat /\ Released(c) <= n /\ n < Seen(c)
  BY <1>1
<1>3. n < landed[p] /\ landed[p] \in Nat
  BY <1>2, SeenLanded, ProducerCounts
<1>4. Begun(p) <= n + Stages
  BY <1>2, Window, ProducerCounts, StagesAssumption
<1> QED BY <1>2, <1>3, <1>4 DEF IInv, SlotContents

(* A slot holds what the landings say, after any step. *)
LEMMA SlotContentsPreserved ==
  ASSUME IInv, [Next]_vars
  PROVE  SlotContents'
<1> USE StagesAssumption
<1>1. TypeOK /\ SlotContents
  BY DEF IInv
<1>2. SUFFICES ASSUME NEW p \in Producers, NEW n \in 0 .. landed'[p] - 1,
                      Begun(p)' <= n + Stages
               PROVE  smem'[SlotOf(n)][p] = n
  BY DEF SlotContents, SlotOf
<1>3. /\ landed[p] \in Nat /\ Begun(p) \in Nat /\ landed[p] <= Begun(p)
      /\ Committed(p) <= Begun(p) /\ Committed(p) \in Nat
  BY ProducerCounts
<1>4. ASSUME landed'[p] = landed[p], Begun(p)' = Begun(p),
             \A s \in Index : smem'[s][p] = smem[s][p]
      PROVE  smem'[SlotOf(n)][p] = n
  <2>1. n \in Nat /\ n < landed[p]
    BY <1>3, <1>4
  <2>2. SlotOf(n) \in Index
    BY <2>1, DivMod DEF SlotOf
  <2> QED BY <1>1, <1>2, <1>4, <2>1, <2>2 DEF SlotContents
<1>5. ASSUME NEW q \in Producers, Producer(q) PROVE smem'[SlotOf(n)][p] = n
  <2>1. landed' = landed /\ (q # p => SameProducer(p))
    BY <1>1, <1>5, ProducerFrame
  <2>2. CASE IssueCopies(q)
    <3> DEFINE i == pwrite[q].count
    <3>1. i \in Nat /\ pwrite[q].index = SlotOf(i)
      BY <1>1 DEF TypeOK, Cursor, IInv, ProducerCursors, StateAt, SlotOf
    <3>2. SlotOf(i) \in Index
      BY <3>1, DivMod DEF SlotOf
    <3>3. smem' = [smem EXCEPT ![SlotOf(i)][q] = Torn]
      BY <2>2, <3>1 DEF IssueCopies
    <3>4. CASE q # p
      <4>1. \A s \in Index : smem'[s][p] = smem[s][p]
        <5> HIDE DEF i
        <5> QED BY <1>1, <3>2, <3>3, <3>4 DEF TypeOK
      <4>2. Begun(p)' = Begun(p)
        BY <2>1, <3>4 DEF SameProducer, Begun, Arrived
      <4> QED BY <1>4, <2>1, <4>1, <4>2
    <3>5. CASE q = p
      <4>1. Begun(p) = i /\ Begun(p)' = i + 1
        BY <1>5, <2>2, <3>5, ProducerMoves
      <4>2. n \in Nat /\ n < landed[p] /\ n < i /\ i < n + Stages
        BY <1>2, <1>3, <2>1, <3>1, <4>1
      <4>3. SlotOf(n) # SlotOf(i) /\ SlotOf(n) \in Index
        <5> HIDE DEF i
        <5> QED BY <3>1, <4>2, DistinctSlots, DivMod DEF SlotOf
      <4>4. smem'[SlotOf(n)][p] = smem[SlotOf(n)][p]
        <5> HIDE DEF i
        <5> QED BY <1>1, <3>2, <3>3, <4>3 DEF TypeOK
      <4>5. Begun(p) <= n + Stages
        <5> HIDE DEF i
        <5> QED BY <3>1, <4>1, <4>2
      <4> QED BY <1>1, <1>3, <4>2, <4>4, <4>5 DEF SlotContents
    <3> QED BY <3>4, <3>5
  <2>3. CASE ~IssueCopies(q)
    <3>1. smem' = smem
      BY <1>5, <2>3 DEF Producer, LoadBegin, LoadTailBegin, Acquire, CommitOp, Commit,
                        LoadTail
    <3>2. Begun(p)' = Begun(p)
      <4>1. CASE q # p
        BY <2>1, <4>1 DEF SameProducer, Begun, Arrived
      <4>2. CASE q = p
        BY <1>5, <2>3, <4>2, ProducerMoves DEF Producer, SameCounts
      <4> QED BY <4>1, <4>2
    <3> QED BY <1>4, <2>1, <3>1, <3>2
  <2> QED BY <2>2, <2>3
<1>6. ASSUME NEW q \in Producers, CopiesLand(q) PROVE smem'[SlotOf(n)][p] = n
  <2> DEFINE l == landed[q]
  <2>1. /\ l \in Nat /\ l < Committed(q) /\ UNCHANGED pvars
        /\ smem' = [smem EXCEPT ![SlotOf(l)][q] = l]
        /\ landed' = [landed EXCEPT ![q] = l + 1]
    BY <1>1, <1>6 DEF TypeOK, CopiesLand
  <2>2. Begun(p)' = Begun(p)
    BY <2>1 DEF pvars, Begun, Arrived
  <2>3. SlotOf(l) \in Index
    BY <2>1, DivMod DEF SlotOf
  <2>4. CASE q # p
    <3>1. landed'[p] = landed[p] /\ \A s \in Index : smem'[s][p] = smem[s][p]
      <4> HIDE DEF l
      <4> QED BY <1>1, <2>1, <2>3, <2>4 DEF TypeOK
    <3> QED BY <1>4, <2>2, <3>1
  <2>5. CASE q = p
    <3>1. n \in Nat /\ n <= l
      BY <1>1, <2>1, <2>5 DEF TypeOK
    <3>2. CASE n = l
      <4> HIDE DEF l
      <4> QED BY <1>1, <2>1, <2>3, <2>5, <3>2 DEF TypeOK
    <3>3. CASE n < l
      <4>1. l < n + Stages /\ Begun(p) <= n + Stages
        BY <1>2, <1>3, <2>1, <2>2, <2>5, <3>1
      <4>2. SlotOf(n) # SlotOf(l) /\ SlotOf(n) \in Index
        <5> HIDE DEF l
        <5> QED BY <2>1, <3>1, <3>3, <4>1, DistinctSlots, DivMod DEF SlotOf
      <4>3. smem'[SlotOf(n)][p] = smem[SlotOf(n)][p]
        <5> HIDE DEF l
        <5> QED BY <1>1, <2>1, <2>3, <4>2 DEF TypeOK
      <4> QED BY <1>1, <1>3, <2>5, <3>1, <3>3, <4>1, <4>3 DEF SlotContents
    <3> QED BY <2>1, <3>1, <3>2, <3>3
  <2> QED BY <2>4, <2>5
<1>7. ASSUME UNCHANGED <<smem, pvars, landed>> PROVE smem'[SlotOf(n)][p] = n
  BY <1>4, <1>7 DEF pvars, Begun, Arrived
<1>8. ASSUME NEW c \in Consumers, Consumer(c) PROVE smem'[SlotOf(n)][p] = n
  BY <1>1, <1>7, <1>8, ConsumerFrame
<1>9. ASSUME NEW c \in Consumers, MmaRetires(c) PROVE smem'[SlotOf(n)][p] = n
  BY <1>7, <1>9 DEF MmaRetires
<1>10. CASE UNCHANGED vars
  BY <1>7, <1>10 DEF vars
<1> QED BY <1>5, <1>6, <1>8, <1>9, <1>10 DEF Next, Terminated

(* An accumulator holds the k tiles of its work tile, after any step. *)
LEMMA AccumulatedPreserved ==
  ASSUME K_PIPE_MMAS > 0, IInv, [Next]_vars
  PROVE  Accumulated'
<1> USE StagesAssumption
<1>1. TypeOK /\ Accumulated
  BY DEF IInv
<1>2. SUFFICES ASSUME NEW c \in Consumers, cpc'[c] \in Working
               PROVE  accum'[c] = TileStart[cwork'[c]] .. cread'[c].count - mmas'[c] - 1
  BY DEF Accumulated
<1> DEFINE n == cread[c].count - mmas[c]
<1>3. /\ ConsumerCursors(c) /\ cread[c].count \in Nat /\ mmas[c] \in Nat
      /\ Released(c) \in Nat /\ mmas[c] + Released(c) <= cread[c].count
      /\ cwork[c] \in 1 .. NumWork + 1
  BY <1>1, ConsumerCounts DEF IInv, TypeOK
<1>4. ASSUME cpc[c] \in Working, accum'[c] = accum[c], cwork'[c] = cwork[c],
             cread'[c].count - mmas'[c] = n
      PROVE  accum'[c] = TileStart[cwork'[c]] .. cread'[c].count - mmas'[c] - 1
  BY <1>1, <1>4 DEF Accumulated
<1>5. ASSUME Consumer(c)
      PROVE  accum'[c] = TileStart[cwork'[c]] .. cread'[c].count - mmas'[c] - 1
  <2>1. CASE MmaBegin(c)
    <3>1. /\ accum'[c] = {} /\ cwork'[c] = cwork[c] /\ mmas'[c] = mmas[c]
          /\ cread'[c] = cstate[c] /\ cpc[c] = "fetch"
      BY <1>1, <2>1 DEF TypeOK, MmaBegin
    <3>2. cread'[c].count = TileStart[cwork[c]] /\ mmas[c] = 0
      BY <1>3, <3>1 DEF ConsumerCursors, StateAt
    <3>3. TileStart[cwork[c]] \in Nat
      BY <1>3, WorkFacts
    <3> QED BY <3>1, <3>2, <3>3
  <2>2. CASE IssueMma(c)
    <3>1. /\ accum'[c] = accum[c] /\ cwork'[c] = cwork[c] /\ mmas'[c] = mmas[c] + 1
          /\ cread'[c] = Inc(cread[c]) /\ cpc[c] = "mma"
      BY <1>1, <2>2 DEF TypeOK, IssueMma
    <3>2. cread'[c].count = cread[c].count + 1
      BY <3>1 DEF Inc
    <3> QED BY <1>3, <1>4, <3>1, <3>2 DEF Working, Reading
  <2>3. CASE MmaExit(c) \/ Epilogue(c)
    <3>1. cpc'[c] \in {"exit", "fetch"}
      BY <1>1, <2>3 DEF TypeOK, MmaExit, Epilogue
    <3> QED BY <1>2, <3>1 DEF Working, Reading
  <2>4. CASE \/ TryWait(c) \/ Wait(c) \/ GmmaWait(c) \/ Release(c) \/ MmaTail(c)
             \/ TailRelease(c)
    <3>1. UNCHANGED <<accum, cwork, cread, mmas>>
      BY <2>4 DEF TryWait, Wait, GmmaWait, Release, MmaTail, TailRelease
    <3>2. cpc[c] \in Working
      BY <2>4 DEF TryWait, Wait, GmmaWait, Release, MmaTail, TailRelease, Working, Reading
    <3> QED BY <1>4, <3>1, <3>2
  <2> QED BY <1>5, <2>1, <2>2, <2>3, <2>4 DEF Consumer
<1>6. ASSUME MmaRetires(c)
      PROVE  accum'[c] = TileStart[cwork'[c]] .. cread'[c].count - mmas'[c] - 1
  <2>1. /\ mmas[c] > 0 /\ mmas'[c] = mmas[c] - 1 /\ UNCHANGED cvars
        /\ accum'[c] = accum[c] \cup {smem[SlotOf(n)][p] : p \in Producers}
    BY <1>1, <1>6 DEF TypeOK, MmaRetires
  <2>2. cpc[c] \in Working /\ cwork[c] <= NumWork
    BY <1>2, <1>3, <2>1 DEF cvars, ConsumerCursors
  <2>3. {smem[SlotOf(n)][p] : p \in Producers} = {n}
    <3>1. \A p \in Producers : smem[SlotOf(n)][p] = n
      BY <1>3, <2>1, WholeTiles DEF MmaReadsWholeTiles
    <3>2. PICK p \in Producers : TRUE
      BY ThreadsAssumption
    <3> HIDE DEF n
    <3> QED BY <3>1, <3>2
  <2>4. TileStart[cwork[c]] <= n /\ TileStart[cwork[c]] \in Nat /\ n \in Nat
    BY <1>3, WorkFacts DEF ConsumerCursors
  <2>5. accum[c] = TileStart[cwork[c]] .. n - 1
    BY <1>1, <2>2 DEF Accumulated
  <2>6. cread'[c].count - mmas'[c] - 1 = n /\ cwork'[c] = cwork[c]
    BY <1>3, <2>1 DEF cvars
  <2>7. (TileStart[cwork[c]] .. n - 1) \cup {n} = TileStart[cwork[c]] .. n
    <3> HIDE DEF n
    <3> QED BY <2>4
  <2> HIDE DEF n
  <2> QED BY <2>1, <2>3, <2>5, <2>6, <2>7
<1>7. ASSUME SameConsumer(c), mmas'[c] = mmas[c], accum'[c] = accum[c]
      PROVE  accum'[c] = TileStart[cwork'[c]] .. cread'[c].count - mmas'[c] - 1
  BY <1>2, <1>4, <1>7 DEF SameConsumer
<1>8. ASSUME NEW d \in Consumers, Consumer(d)
      PROVE  accum'[c] = TileStart[cwork'[c]] .. cread'[c].count - mmas'[c] - 1
  BY <1>1, <1>5, <1>7, <1>8, ConsumerFrame
<1>9. ASSUME NEW d \in Consumers, MmaRetires(d)
      PROVE  accum'[c] = TileStart[cwork'[c]] .. cread'[c].count - mmas'[c] - 1
  <2>1. CASE d = c
    BY <1>6, <1>9, <2>1
  <2>2. CASE d # c
    <3>1. UNCHANGED cvars /\ mmas'[c] = mmas[c] /\ accum'[c] = accum[c]
      BY <1>1, <1>9, <2>2 DEF TypeOK, MmaRetires
    <3> QED BY <1>7, <3>1 DEF cvars, SameConsumer
  <2> QED BY <2>1, <2>2
<1>10. ASSUME NEW p \in Producers, Producer(p) \/ CopiesLand(p)
       PROVE  accum'[c] = TileStart[cwork'[c]] .. cread'[c].count - mmas'[c] - 1
  <2>1. UNCHANGED <<cvars, mmas, accum>>
    BY <1>1, <1>10, ProducerFrame DEF CopiesLand
  <2> QED BY <1>7, <2>1 DEF cvars, SameConsumer
<1>11. CASE UNCHANGED vars
  BY <1>7, <1>11 DEF vars, cvars, SameConsumer
<1> QED BY <1>8, <1>9, <1>10, <1>11 DEF Next, Terminated

-----------------------------------------------------------------------------
(***************************************************************************)
(* The theorems.  K_PIPE_MMAS > 0 is what the collective instantiates      *)
(* (K_PIPE_MMAS = 1); for 0 EpilogueHasItsTiles is violated.               *)
(***************************************************************************)

(* IInv is an inductive invariant. *)
THEOREM Invariance ==
  ASSUME K_PIPE_MMAS > 0
  PROVE  Spec => []IInv
<1>1. Init => IInv
  BY InitIInv
<1>2. IInv /\ [Next]_vars => IInv'
  <2> SUFFICES ASSUME IInv, [Next]_vars PROVE IInv'
    OBVIOUS
  <2>1. TypeOK'
    BY TypePreserved
  <2>2. \A p \in Producers : ProducerCursors(p)'
    BY ProducerCursorsPreserved
  <2>3. \A c \in Consumers : ConsumerCursors(c)'
    BY ConsumerCursorsPreserved
  <2>4. \A s \in Index : FullBarrier(s)' /\ EmptyBarrier(s)'
    BY FullBarrierPreserved, EmptyBarrierPreserved
  <2>5. SlotContents' /\ Accumulated'
    BY SlotContentsPreserved, AccumulatedPreserved
  <2> QED BY <2>1, <2>2, <2>3, <2>4, <2>5 DEF IInv
<1> QED BY <1>1, <1>2, PTL DEF Spec

(* Type correctness: no step takes a cursor, barrier or counter out of its *)
(* range; in particular no barrier's pending count falls below zero.       *)
THEOREM TypeCorrectness ==
  ASSUME K_PIPE_MMAS > 0
  PROVE  Spec => []TypeOK
<1>1. IInv => TypeOK
  BY DEF IInv
<1> QED BY <1>1, Invariance, PTL

(* No multiply reads a share of a slot that is still being copied or was   *)
(* overwritten for a later tile (load and mma of the mainloop).            *)
THEOREM ReadsAreWhole ==
  ASSUME K_PIPE_MMAS > 0
  PROVE  Spec => []MmaReadsWholeTiles
<1> QED BY WholeTiles, Invariance, PTL

(* The parity waits of producer_acquire, consumer_try_wait and             *)
(* consumer_wait return only when the round they mean has completed.       *)
THEOREM ExactWaits ==
  ASSUME K_PIPE_MMAS > 0
  PROVE  Spec => []WaitsAreExact
<1>1. IInv => WaitsAreExact
  <2> SUFFICES ASSUME IInv PROVE WaitsAreExact
    OBVIOUS
  <2>1. ASSUME NEW p \in Producers, ppc[p] = "acquire",
               ProducerAcquired(empty, pwrite[p]), NEW c \in Consumers
        PROVE  crelease[c].count + Stages > pwrite[p].count
    <3> DEFINE n == pwrite[p].count
               s == n % Stages
               q == n \div Stages
               r == Released(c)
    <3>1. n \in Nat /\ empty[s].phase = q
      BY <2>1, ProducerPass
    <3>2. s \in Index /\ q \in Nat
      BY <3>1, DivMod
    <3>3. r \in Nat /\ Visits(r, s) \in Nat
      BY <3>2, ConsumerCounts, VisitsType
    <3>4. q <= Visits(r, s)
      BY <3>1, <3>2 DEF IInv, EmptyBarrier
    <3>5. SUFFICES ASSUME r + Stages <= n PROVE FALSE
      BY <3>1, <3>3, StagesAssumption DEF Released
    <3>6. Visits(r + Stages, s) = Visits(r, s) + 1
      BY <3>2, <3>3, VisitsRound
    <3>7. r + Stages \in Nat
      BY <3>3, StagesAssumption
    <3>8. Visits(r + Stages, s) <= q
      BY <3>1, <3>5, <3>7, VisitsBeyond
    <3> HIDE DEF n, s, q, r
    <3> QED BY <3>2, <3>3, <3>4, <3>6, <3>8
  <2>2. ASSUME NEW c \in Consumers, cpc[c] = "wait",
               ConsumerWaited(full, cread[c], ctoken[c]), NEW p \in Producers
        PROVE  landed[p] > cread[c].count
    <3> DEFINE m == cread[c].count
    <3>1. m \in Nat /\ landed[p] \in Nat
      BY ConsumerCounts, ProducerCounts
    <3>2. CASE ctoken[c]
      BY <2>2, <3>1, <3>2, SeenLanded DEF Seen
    <3>3. CASE ~ctoken[c]
      <4> DEFINE s == m % Stages
                 q == m \div Stages
      <4>1. full[s].phase = q + 1
        BY <2>2, <3>3, ConsumerPass DEF ConsumerWaited
      <4>2. s \in Index /\ q \in Nat
        BY <3>1, DivMod
      <4>3. q + 1 <= Visits(landed[p], s) /\ Visits(landed[p], s) \in Nat
        BY <3>1, <4>1, <4>2, VisitsType DEF IInv, FullBarrier
      <4>4. landed[p] <= m => Visits(landed[p], s) <= q
        BY <3>1, VisitsBeyond
      <4> HIDE DEF m, s, q
      <4> QED BY <3>1, <4>2, <4>3, <4>4 DEF m
    <3> QED BY <3>2, <3>3
  <2> QED BY <2>1, <2>2 DEF WaitsAreExact
<1> QED BY <1>1, Invariance, PTL

(* When a thread stores its accumulators they hold every k tile of its     *)
(* work tile once read whole, and nothing else.                            *)
THEOREM EpilogueIsComplete ==
  ASSUME K_PIPE_MMAS > 0
  PROVE  Spec => []EpilogueHasItsTiles
<1>1. IInv => EpilogueHasItsTiles
  <2> SUFFICES ASSUME IInv, NEW c \in Consumers, cpc[c] = "epilogue"
               PROVE  accum[c] = TileStart[cwork[c]] .. TileStart[cwork[c] + 1] - 1
    BY DEF EpilogueHasItsTiles
  <2>1. mmas[c] = 0 /\ cread[c].count = TileStart[cwork[c] + 1] /\ cread[c].count \in Nat
    BY ConsumerCounts DEF IInv, ConsumerCursors
  <2>2. accum[c] = TileStart[cwork[c]] .. cread[c].count - mmas[c] - 1
    BY DEF IInv, Accumulated, Working
  <2> QED BY <2>1, <2>2
<1> QED BY <1>1, Invariance, PTL

(* load_tail lets no producer thread exit while a consumer has a release   *)
(* to make.                                                                *)
THEOREM TailIsSafe ==
  ASSUME K_PIPE_MMAS > 0
  PROVE  Spec => []TailHoldsProducers
<1>1. IInv => TailHoldsProducers
  <2> SUFFICES ASSUME IInv, NEW p \in Producers, ppc[p] = "exit", NEW c \in Consumers
               PROVE  /\ crelease[c].count = Total
                      /\ cpc[c] \notin {"release", "tail_release"}
    BY DEF TailHoldsProducers
  <2> DEFINE r == Released(c)
  <2>1. TypeOK /\ ProducerCursors(p) /\ ConsumerCursors(c)
    BY DEF IInv
  <2>2. Granted(p) = Total + Stages /\ Total \in Nat
    BY <2>1, WorkFacts DEF ProducerCursors, Granted
  <2>3. r \in Nat /\ cread[c].count \in Nat /\ r <= cread[c].count
    BY ConsumerCounts
  <2>4. ASSUME NEW s \in Index PROVE Visits(r, s) >= Visits(Total, s)
    <3>1. Visits(Total + Stages, s) = Visits(Total, s) + 1
      BY <2>2, VisitsRound
    <3>2. /\ empty[s].phase \in Nat /\ empty[s].phase <= Visits(r, s)
          /\ Visits(Granted(p), s) <= empty[s].phase + 1
      BY <2>1 DEF IInv, EmptyBarrier, TypeOK, Barrier
    <3>3. Visits(r, s) \in Nat /\ Visits(Total, s) \in Nat
      BY <2>2, <2>3, VisitsType
    <3> HIDE DEF r
    <3> QED BY <2>2, <3>1, <3>2, <3>3
  <2>5. r >= Total
    <3> HIDE DEF r
    <3> QED BY <2>2, <2>3, <2>4, VisitsOrder
  <2>6. cwork[c] \in 1 .. NumWork + 1
    BY <2>1 DEF TypeOK
  <2>7. cwork[c] <= NumWork =>
          TileStart[cwork[c] + 1] \in Nat /\ TileStart[cwork[c] + 1] <= Total
    BY <2>6, WorkFacts
  <2>8. TileStart[cwork[c]] \in Nat /\ TileStart[cwork[c]] <= Total
    BY <2>6, WorkFacts
  <2>9. cprologue[c] \in Nat /\ cleft[c] \in Nat
    BY <2>1 DEF TypeOK
  <2>10. cwork[c] <= NumWork => Prologue(cwork[c]) \in Nat /\ Prologue(cwork[c]) > 0
    BY <2>6, PrologueFacts
  <2>11. CASE cpc[c] \in {"fetch", "exit"}
    BY <2>1, <2>2, <2>3, <2>5, <2>8, <2>11 DEF ConsumerCursors, Released
  <2>12. CASE cpc[c] \in Reading \cup {"gmma_wait", "release", "tail"}
    <3>1. /\ cwork[c] <= NumWork
          /\ r + Prologue(cwork[c]) <= TileStart[cwork[c] + 1]
      BY <2>1, <2>3, <2>7, <2>9, <2>10, <2>12 DEF ConsumerCursors, Working, Reading
    <3> HIDE DEF r
    <3> QED BY <2>2, <2>3, <2>5, <2>7, <2>10, <3>1
  <2>13. CASE cpc[c] = "tail_release"
    <3>1. cwork[c] <= NumWork /\ r < TileStart[cwork[c] + 1]
      BY <2>1, <2>3, <2>9, <2>13 DEF ConsumerCursors, Working
    <3> HIDE DEF r
    <3> QED BY <2>2, <2>3, <2>5, <2>7, <3>1
  <2>14. CASE cpc[c] = "epilogue"
    <3>1. cwork[c] <= NumWork /\ r = TileStart[cwork[c] + 1]
      BY <2>1, <2>14 DEF ConsumerCursors, Working
    <3> QED BY <2>2, <2>3, <2>5, <2>7, <2>14, <3>1 DEF Released
  <2> QED BY <2>1, <2>11, <2>12, <2>13, <2>14 DEF TypeOK, Reading
<1> QED BY <1>1, Invariance, PTL

(* The pipeline implements the bounded buffer: a landing is a Fill of the  *)
(* buffer, a consumer_release a HandBack, and every other step, the jump   *)
(* of mma_tail's cursor included, leaves the buffer as it is.              *)
THEOREM Refinement ==
  ASSUME K_PIPE_MMAS > 0
  PROVE  Spec => ImplementsFifo
<1> DEFINE released == [c \in Consumers |-> crelease[c].count]
<1>1. Init => Fifo!Init
  BY DEF Init, Fifo!Init, DefaultState
<1>2. IInv /\ [Next]_vars => [Fifo!Next]_<<landed, released>>
  <2> SUFFICES ASSUME IInv, [Next]_vars
               PROVE  Fifo!Next \/ (landed' = landed /\ released' = released)
    OBVIOUS
  <2>0. TypeOK
    BY DEF IInv
  <2>1. ASSUME NEW p \in Producers, Producer(p)
        PROVE  landed' = landed /\ released' = released
    BY <2>0, <2>1, ProducerFrame DEF cvars
  <2>2. ASSUME NEW p \in Producers, CopiesLand(p) PROVE Fifo!Fill(p)
    <3>1. /\ landed[p] < Committed(p) /\ landed' = [landed EXCEPT ![p] = @ + 1]
          /\ crelease' = crelease
      BY <2>2 DEF CopiesLand, cvars
    <3>2. /\ landed[p] \in Nat /\ Committed(p) \in Nat /\ Granted(p) \in Nat
          /\ Committed(p) <= Granted(p)
      BY ProducerCounts
    <3>3. Committed(p) <= Total
      <4>1. /\ ProducerCursors(p) /\ pwork[p] \in 1 .. NumWork + 1
            /\ pwrite[p].count \in Nat /\ pleft[p] \in Nat
        BY <2>0 DEF IInv, TypeOK, Cursor
      <4>2. CASE ppc[p] = "commit"
        <5>1. /\ pwork[p] \in 1 .. NumWork /\ pleft[p] > 0
              /\ pwrite[p].count + pleft[p] = TileStart[pwork[p] + 1]
          BY <4>1, <4>2 DEF ProducerCursors, Loading
        <5>2. TileStart[pwork[p] + 1] \in Nat /\ TileStart[pwork[p] + 1] <= Total
          BY <5>1, WorkFacts
        <5> QED BY <4>1, <4>2, <5>1, <5>2, WorkFacts DEF Committed
      <4>3. CASE ppc[p] # "commit"
        BY <4>1, <4>3, WorkFacts DEF Committed, Min2
      <4> QED BY <4>2, <4>3
    <3>4. ASSUME NEW c \in Consumers PROVE landed[p] < Released(c) + Stages
      <4>1. Released(c) \in Nat
        BY ConsumerCounts
      <4>2. Granted(p) <= Released(c) + Stages
        BY <4>1, Window
      <4> QED BY <3>1, <3>2, <4>1, <4>2, StagesAssumption
    <3>5. landed[p] < Total
      BY <3>1, <3>2, <3>3, WorkFacts
    <3> QED BY <3>1, <3>4, <3>5 DEF Fifo!Fill, Released
  <2>3. ASSUME NEW c \in Consumers, Consumer(c)
        PROVE  Fifo!HandBack(c) \/ (landed' = landed /\ released' = released)
    <3>1. landed' = landed /\ \A d \in Consumers : d # c => SameConsumer(d)
      BY <2>0, <2>3, ConsumerFrame
    <3>2. \A d \in Consumers : d # c => Released(d)' = Released(d)
      BY <3>1 DEF SameConsumer, Released
    <3>3. CASE Release(c) \/ TailRelease(c)
      <4>1. Released(c)' = Released(c) + 1 /\ Released(c) < cread[c].count
        BY <2>3, <3>3, ConsumerMoves
      <4>2. Released(c) \in Nat /\ Seen(c) \in Nat /\ cread[c].count \in Nat
            /\ cread[c].count <= Seen(c)
        BY ConsumerCounts
      <4>3. \A p \in Producers : Released(c) < landed[p]
        BY <4>1, <4>2, SeenLanded
      <4>4. released' = [released EXCEPT ![c] = @ + 1]
        BY <3>2, <4>1 DEF Released
      <4> QED BY <3>1, <4>3, <4>4 DEF Fifo!HandBack, Released
    <3>4. CASE ~(Release(c) \/ TailRelease(c))
      <4>1. Released(c)' = Released(c)
        BY <2>3, <3>4, ConsumerMoves
      <4>2. released' = released
        BY <3>2, <4>1 DEF Released
      <4> QED BY <3>1, <4>2
    <3> QED BY <3>3, <3>4
  <2>4. ASSUME NEW c \in Consumers, MmaRetires(c)
        PROVE  landed' = landed /\ released' = released
    BY <2>4 DEF MmaRetires, cvars
  <2>5. CASE UNCHANGED vars
    BY <2>5 DEF vars, cvars
  <2> QED BY <2>1, <2>2, <2>3, <2>4, <2>5 DEF Next, Terminated, Fifo!Next
<1> QED BY <1>1, <1>2, Invariance, PTL DEF Spec, ImplementsFifo, Fifo!Spec
=============================================================================
