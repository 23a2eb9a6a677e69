----------------------------- MODULE TmaEpilogue -----------------------------
(***************************************************************************)
(* The TMA epilogue of one thread block (include/cutlass/epilogue/         *)
(* collective/sm90_epilogue_tma_warpspecialized.hpp) as the cooperative    *)
(* kernel drives it: the lanes of the load warp bring the subtiles of the  *)
(* source C into shared memory over a PipelineTransactionAsync, the math   *)
(* threads combine each with their accumulators, write the subtile of D to *)
(* shared memory, and one of them issues the asynchronous store that       *)
(* copies it out, tracked by a PipelineTmaStore.  With ReuseSmemC the      *)
(* subtile of D overwrites that of C, so a slot goes back to the load warp *)
(* only when its store has read it.  Subtiles are numbered through all     *)
(* work tiles of the block.                                                *)
(***************************************************************************)
EXTENDS Naturals, FiniteSets, ClusterBarrier, TransactionBarrier

CONSTANTS
  Lanes, leader,       (* the load warp, and its elected lane *)
  Threads, issuer,     (* the math threads, and the one that issues stores *)
  Policies             (* the instances of the template to look at *)

(* The static assertions on the stages, and what the builder picks:        *)
(* StagesD is at most the number of subtiles.                              *)
ASSUME EpilogueAssumption ==
  /\ IsFiniteSet(Lanes) /\ leader \in Lanes
  /\ IsFiniteSet(Threads) /\ issuer \in Threads
  /\ \A p \in Policies :
       /\ p.StagesC \in Nat \ {0} /\ p.StagesD \in 1 .. p.Subtiles
       /\ p.ReuseSmemC \in BOOLEAN /\ p.DelayTmaStore \in BOOLEAN
       /\ p.LoadNeeded \in BOOLEAN
       /\ p.ReuseSmemC => p.StagesD <= p.StagesC
       /\ p.Subtiles \in Nat \ {0} /\ p.NumTiles \in Nat
       /\ p.DPlace \in [Threads -> Threads]
       /\ \A t \in Threads : \E u \in Threads : p.DPlace[u] = t

VARIABLES
  policy,        (* the template's instance: it never changes *)
  full, empty,   (* the barriers of the load pipeline *)
  smem,          (* smem[slot][place]: <<"C", n>>, <<"D", n>> or <<"torn", n>> *)
  loading,       (* loads of C in flight: <<subtile, index>> *)
  storing,       (* committed stores still reading: <<batch, subtile, slot>> *)
  lpc, lstate,   (* a lane and its load_pipe_producer_state *)
  tpc,           (* a math thread's control point *)
  sub,           (* the subtile of its loop *)
  written,       (* its piece of D of that subtile is in shared memory *)
  wstate,        (* load_wait_state *)
  rstate,        (* load_pipe_consumer_state *)
  sstate,        (* store_pipe_producer_state *)
  issued,        (* issued_stores *)
  left           (* releases to go in store_tail *)

lanes == <<lpc, lstate>>
threads == <<tpc, sub, written, wstate, rstate, sstate, issued, left>>
vars == <<policy, full, empty, smem, loading, storing, lanes, threads>>

StagesC == policy.StagesC
StagesD == policy.StagesD
ReuseSmemC == policy.ReuseSmemC
DelayTmaStore == policy.DelayTmaStore
LoadNeeded == policy.LoadNeeded    (* is_producer_load_needed *)
Subtiles == policy.Subtiles        (* epilogue subtiles of a work tile *)
NumTiles == policy.NumTiles        (* work tiles whose epilogue the block computes *)
(* The piece of a slot of D that a thread writes; its piece of C is named  *)
(* by the thread itself.                                                   *)
DPlace == policy.DPlace

StoreStages == IF ReuseSmemC THEN StagesC ELSE StagesD

(* LoadPipelineState and StorePipelineState *)
C == INSTANCE PipelineState WITH Stages <- StagesC
D == INSTANCE PipelineState WITH Stages <- StoreStages

(* Faulty forms, for mutations: one store too many, no store at all. *)
UnacquiredAll == StagesD
UnacquiredNone == 0

(* StorePipeline::UnacquiredStages *)
UnacquiredStages == StagesD - 1

NumSubtiles == Subtiles * NumTiles

(* The shared memory of C and of D: one array of slots or two *)
SlotC(i) == <<"C", i>>
SlotD(i) == IF ReuseSmemC THEN SlotC(i) ELSE <<"D", i>>
Slots == {SlotC(i) : i \in C!Index} \cup {SlotD(i) : i \in D!Index}

Init ==
  /\ policy \in Policies
  /\ full = [i \in C!Index |-> TxInit(Cardinality(Lanes))]
  /\ empty = [i \in C!Index |-> BarrierInit(Cardinality(Threads))]
  /\ smem = [s \in Slots |-> [t \in Threads |-> <<"torn", 0>>]]
  /\ loading = {} /\ storing = {}
  /\ lpc = [l \in Lanes |-> IF LoadNeeded THEN "next" ELSE "exit"]
  /\ lstate = [l \in Lanes |-> C!ProducerStartState]
  /\ tpc = [t \in Threads |-> "begin"]
  /\ sub = [t \in Threads |-> 0]
  /\ written = [t \in Threads |-> FALSE]
  /\ wstate = [t \in Threads |-> C!DefaultState]
  /\ rstate = [t \in Threads |-> C!DefaultState]
  /\ sstate = [t \in Threads |-> D!ProducerStartState]
  /\ issued = [t \in Threads |-> 0]
  /\ left = [t \in Threads |-> 0]

-----------------------------------------------------------------------------
(***************************************************************************)
(* The load warp: load() for every work tile, then load_tail().            *)
(***************************************************************************)

(* producer_acquire *)
AcquireSlot(l) ==
  /\ lpc[l] = "next" /\ lstate[l].count < NumSubtiles
  /\ PhaseDone(empty[lstate[l].index], lstate[l].phase)
  /\ lpc' = [lpc EXCEPT ![l] = IF l = leader THEN "copy" ELSE "commit"]
  /\ UNCHANGED <<policy, full, empty, smem, loading, storing, lstate, threads>>

(* The elected lane issues the copy of C ... *)
LoadSource(l) ==
  LET i == lstate[l].index  n == lstate[l].count IN
  /\ lpc[l] = "copy"
  /\ loading' = loading \cup {<<n, i>>}
  /\ smem' = [smem EXCEPT ![SlotC(i)] = [t \in Threads |-> <<"torn", n>>]]
  /\ lpc' = [lpc EXCEPT ![l] = "expect"]
  /\ UNCHANGED <<policy, full, empty, storing, lstate, threads>>

(* ... and only then announces its bytes. *)
ExpectTransaction(l) ==
  /\ lpc[l] = "expect"
  /\ full' = [full EXCEPT ![lstate[l].index] = ExpectTx(@, 1)]
  /\ lpc' = [lpc EXCEPT ![l] = "commit"]
  /\ UNCHANGED <<policy, empty, smem, loading, storing, lstate, threads>>

(* producer_commit by every lane *)
CommitLoad(l) ==
  /\ lpc[l] = "commit"
  /\ full' = [full EXCEPT ![lstate[l].index] = ArriveTx(@)]
  /\ lstate' = [lstate EXCEPT ![l] = C!Inc(@)]
  /\ lpc' = [lpc EXCEPT ![l] = "next"]
  /\ UNCHANGED <<policy, empty, smem, loading, storing, threads>>

(* A faulty form, for a mutation: the loop does not count. *)
LoadTailAgain(l) ==
  /\ lpc[l] = "next" /\ lstate[l].count >= NumSubtiles
  /\ PhaseDone(empty[lstate[l].index], lstate[l].phase)
  /\ UNCHANGED vars

(* load_tail: the elected lane acquires every slot once more, the others  *)
(* leave at once.                                                          *)
LoadTail(l) ==
  /\ lpc[l] = "next" /\ lstate[l].count >= NumSubtiles
  /\ IF l # leader \/ lstate[l].count = NumSubtiles + StagesC
     THEN /\ lpc' = [lpc EXCEPT ![l] = "exit"]
          /\ UNCHANGED lstate
     ELSE /\ PhaseDone(empty[lstate[l].index], lstate[l].phase)
          /\ lstate' = [lstate EXCEPT ![l] = C!Inc(@)]
          /\ UNCHANGED lpc
  /\ UNCHANGED <<policy, full, empty, smem, loading, storing, threads>>

(* A load ends; loads end in any order. *)
LoadLands(x) ==
  /\ loading' = loading \ {x}
  /\ smem' = [smem EXCEPT ![SlotC(x[2])] = [t \in Threads |-> <<"C", x[1]>>]]
  /\ full' = [full EXCEPT ![x[2]] = CompleteTransaction(@, 1)]
  /\ UNCHANGED <<policy, empty, storing, lanes, threads>>

-----------------------------------------------------------------------------
(***************************************************************************)
(* The math threads: store() for every work tile, then store_tail().       *)
(***************************************************************************)

FirstOfTile(n) == n % Subtiles = 0
LastOfTile(n) == n % Subtiles = Subtiles - 1

Goto(t, pc) == tpc' = [tpc EXCEPT ![t] = pc]

(* The math of subtile n is done: the delayed store of the subtile before, *)
(* if there is one, then the write of this one.                            *)
Combined(n) == IF DelayTmaStore /\ ~FirstOfTile(n) THEN "sync" ELSE "write"

(* The loop body of subtile n begins. *)
LoopBody(n) == IF LoadNeeded THEN "wait" ELSE Combined(n)

(* A faulty form, for a mutation: the phase is that of the producer. *)
BeginStoreUnflipped(t) ==
  /\ tpc[t] = "begin" /\ sub[t] < NumSubtiles
  /\ wstate' = [wstate EXCEPT ![t] = IF ReuseSmemC THEN sstate[t] ELSE rstate[t]]
  /\ Goto(t, LoopBody(sub[t]))
  /\ UNCHANGED <<policy, full, empty, smem, loading, storing, lanes, sub, written, rstate,
                 sstate, issued, left>>

(* store() is entered.  With ReuseSmemC the cursor that waits for loads is *)
(* that of the stores with the other phase.                                *)
BeginStore(t) ==
  /\ tpc[t] = "begin" /\ sub[t] < NumSubtiles
  /\ wstate' = [wstate EXCEPT ![t] =
       IF ReuseSmemC THEN [sstate[t] EXCEPT !.phase = C!Flip(@)] ELSE rstate[t]]
  /\ Goto(t, LoopBody(sub[t]))
  /\ UNCHANGED <<policy, full, empty, smem, loading, storing, lanes, sub, written, rstate,
                 sstate, issued, left>>

(* consumer_wait(load_wait_state) *)
WaitSource(t) ==
  /\ tpc[t] = "wait"
  /\ PhaseDone(full[wstate[t].index], wstate[t].phase)
  /\ Goto(t, "read")
  /\ UNCHANGED <<policy, full, empty, smem, loading, storing, lanes, sub, written, wstate,
                 rstate, sstate, issued, left>>

(* The thread copies its piece of C to registers ... *)
ReadSource(t) ==
  /\ tpc[t] = "read"
  /\ wstate' = [wstate EXCEPT ![t] = C!Inc(@)]
  /\ Goto(t, IF ReuseSmemC THEN Combined(sub[t]) ELSE "free")
  /\ UNCHANGED <<policy, full, empty, smem, loading, storing, lanes, sub, written, rstate,
                 sstate, issued, left>>

(* consumer_release(load_pipe_consumer_state) *)
ReleaseSource(t) ==
  /\ empty' = [empty EXCEPT ![rstate[t].index] = Arrive(@)]
  /\ rstate' = [rstate EXCEPT ![t] = C!Inc(@)]

(* ... and without ReuseSmemC the slot is free for the next load. *)
FreeSource(t) ==
  /\ tpc[t] = "free"
  /\ ReleaseSource(t)
  /\ Goto(t, Combined(sub[t]))
  /\ UNCHANGED <<policy, full, smem, loading, storing, lanes, sub, written, wstate, sstate,
                 issued, left>>

(* On to the subtile after sub: in the same work tile, or out of store(). *)
NextSubtile(t) ==
  /\ sub' = [sub EXCEPT ![t] = @ + 1]
  /\ written' = [written EXCEPT ![t] = FALSE]
  /\ Goto(t, IF LastOfTile(sub[t]) THEN "begin" ELSE LoopBody(sub[t] + 1))

(* The thread writes its piece of D to shared memory.  The store of the    *)
(* subtile is issued now or, delayed, in the next loop body; after the     *)
(* last subtile there is none.                                             *)
WriteSubtile(t) ==
  /\ tpc[t] = "write"
  /\ smem' = [smem EXCEPT ![SlotD(sstate[t].index)][DPlace[t]] = <<"D", sub[t]>>]
  /\ IF DelayTmaStore /\ ~LastOfTile(sub[t])
     THEN NextSubtile(t)
     ELSE /\ written' = [written EXCEPT ![t] = TRUE]
          /\ Goto(t, "sync")
          /\ UNCHANGED sub
  /\ UNCHANGED <<policy, full, empty, loading, storing, lanes, wstate, rstate, sstate,
                 issued, left>>

-----------------------------------------------------------------------------
(* tma_store_fn, for this subtile or for the one before *)
Subject(t) == IF written[t] THEN sub[t] ELSE sub[t] - 1

(* synchronize(): a named barrier of all math threads *)
Synchronize(here, there) ==
  /\ \A t \in Threads : tpc[t] = here
  /\ tpc' = [t \in Threads |-> there]
  /\ UNCHANGED <<policy, full, empty, smem, loading, storing, lanes, sub, written, wstate,
                 rstate, sstate, issued, left>>

(* The issuer copies the slot out and commits the batch. *)
IssueStore(t) ==
  /\ tpc[t] = "issue"
  /\ storing' = IF t = issuer
                THEN storing \cup {<<sstate[t].count, Subject(t), SlotD(sstate[t].index)>>}
                ELSE storing
  /\ sstate' = [sstate EXCEPT ![t] = D!Inc(@)]
  /\ issued' = [issued EXCEPT ![t] = @ + 1]
  /\ Goto(t, IF t = issuer THEN "acquire" ELSE "resync")
  /\ UNCHANGED <<policy, full, empty, smem, loading, lanes, sub, written, wstate, rstate,
                 left>>

(* A faulty form, for a mutation: one store more may be pending. *)
StoresReadLess(t, n) == \A x \in storing : x[1] + n + 1 >= sstate[t].count

(* tma_store_wait<n>: of the batches committed by t, only the n last may   *)
(* still be reading.                                                       *)
StoresRead(t, n) == \A x \in storing : x[1] + n >= sstate[t].count

(* producer_acquire(store_pipe_producer_state) of the store pipeline *)
AcquireStore(t) ==
  /\ tpc[t] = "acquire"
  /\ StoresRead(t, UnacquiredStages)
  /\ Goto(t, "resync")
  /\ UNCHANGED <<policy, full, empty, smem, loading, storing, lanes, sub, written, wstate,
                 rstate, sstate, issued, left>>

(* The end of tma_store_fn: with ReuseSmemC the oldest slot whose store is *)
(* known to be finished goes back to the load warp.                        *)
FinishStore(t) ==
  /\ tpc[t] = "finish"
  /\ IF ~ReuseSmemC \/ issued[t] <= UnacquiredStages
     THEN UNCHANGED <<empty, rstate>>
     ELSE IF LoadNeeded THEN ReleaseSource(t)
     ELSE /\ rstate' = [rstate EXCEPT ![t] = C!Inc(@)]
          /\ UNCHANGED empty
  /\ IF written[t] THEN NextSubtile(t) ELSE Goto(t, "write") /\ UNCHANGED <<sub, written>>
  /\ UNCHANGED <<policy, full, smem, loading, storing, lanes, wstate, sstate, issued, left>>

(* A store has read its slot.  Stores end in any order. *)
StoreReads(x) ==
  /\ storing' = storing \ {x}
  /\ UNCHANGED <<policy, full, empty, smem, loading, lanes, threads>>

(* A faulty form, for a mutation: the stores are not waited for. *)
StoreTailEarly(t) ==
  /\ tpc[t] = "begin" /\ sub[t] = NumSubtiles
  /\ issued' = [issued EXCEPT ![t] = 0]
  /\ left' = [left EXCEPT ![t] = IF ReuseSmemC /\ LoadNeeded THEN UnacquiredStages ELSE 0]
  /\ Goto(t, "tail")
  /\ UNCHANGED <<policy, full, empty, smem, loading, storing, lanes, sub, written, wstate,
                 rstate, sstate>>

(* store_tail: the issuer waits for its stores (the others have none) and  *)
(* the counter starts again; a block without work skips it.                *)
StoreTail(t) ==
  /\ tpc[t] = "begin" /\ sub[t] = NumSubtiles
  /\ t = issuer => StoresRead(t, 0)
  /\ issued' = [issued EXCEPT ![t] = 0]
  /\ left' = [left EXCEPT ![t] =
       IF ~(ReuseSmemC /\ LoadNeeded) \/ NumTiles = 0 THEN 0
       ELSE IF UnacquiredStages < Subtiles THEN UnacquiredStages ELSE Subtiles]
  /\ Goto(t, "tail")
  /\ UNCHANGED <<policy, full, empty, smem, loading, storing, lanes, sub, written, wstate,
                 rstate, sstate>>

(* Then the slots of the last stores go back to the load warp. *)
TailRelease(t) ==
  /\ tpc[t] = "tail" /\ left[t] > 0
  /\ ReleaseSource(t)
  /\ left' = [left EXCEPT ![t] = @ - 1]
  /\ UNCHANGED <<policy, full, smem, loading, storing, lanes, tpc, sub, written, wstate,
                 sstate, issued>>

Exit(t) ==
  /\ tpc[t] = "tail" /\ left[t] = 0
  /\ Goto(t, "exit")
  /\ UNCHANGED <<policy, full, empty, smem, loading, storing, lanes, sub, written, wstate,
                 rstate, sstate, issued, left>>

-----------------------------------------------------------------------------
Lane(l) ==
  \/ AcquireSlot(l) \/ LoadSource(l) \/ ExpectTransaction(l) \/ CommitLoad(l)
  \/ LoadTail(l)

Thread(t) ==
  \/ BeginStore(t) \/ WaitSource(t) \/ ReadSource(t) \/ FreeSource(t)
  \/ WriteSubtile(t) \/ IssueStore(t) \/ AcquireStore(t) \/ FinishStore(t)
  \/ StoreTail(t) \/ TailRelease(t) \/ Exit(t)

SyncAll == Synchronize("sync", "issue") \/ Synchronize("resync", "finish")

AllExited ==
  (\A l \in Lanes : lpc[l] = "exit") /\ (\A t \in Threads : tpc[t] = "exit")

(* The block retires. *)
Terminated == AllExited /\ UNCHANGED vars

Next ==
  \/ \E l \in Lanes : Lane(l)
  \/ \E t \in Threads : Thread(t)
  \/ SyncAll
  \/ \E x \in loading : LoadLands(x)
  \/ \E x \in storing : StoreReads(x)
  \/ Terminated

Spec == Init /\ [][Next]_vars

(* Resident threads are scheduled, bulk copies that were issued end. *)
FairSpec ==
  /\ Spec
  /\ \A l \in Lanes : WF_vars(Lane(l))
  /\ \A t \in Threads : WF_vars(Thread(t))
  /\ WF_vars(SyncAll)
  /\ WF_vars(\E x \in loading : LoadLands(x))
  /\ WF_vars(\E x \in storing : StoreReads(x))

-----------------------------------------------------------------------------
TypeOK ==
  /\ full \in [C!Index -> [count : Nat, pending : Nat, phase : Nat, tx : Int]]
  /\ empty \in [C!Index -> Barrier]
  /\ \A s \in Slots : DOMAIN smem[s] = Threads
  /\ loading \subseteq (Nat \X C!Index) /\ storing \subseteq (Nat \X Nat \X Slots)
  /\ lstate \in [Lanes -> C!Cursor]
  /\ wstate \in [Threads -> C!Cursor] /\ rstate \in [Threads -> C!Cursor]
  /\ sstate \in [Threads -> D!Cursor]
  /\ sub \in [Threads -> 0 .. NumSubtiles] /\ written \in [Threads -> BOOLEAN]
  /\ issued \in [Threads -> Nat] /\ left \in [Threads -> 0 .. UnacquiredStages]

(* A thread that reads its piece of C for a subtile finds exactly that     *)
(* subtile there: loaded, not one of a later round, and with ReuseSmemC    *)
(* not yet overwritten by a thread that is ahead with D.                   *)
SourceIsIntact ==
  \A t \in Threads :
    tpc[t] = "read" => smem[SlotC(wstate[t].index)][t] = <<"C", sub[t]>>

(* As long as the store of a subtile reads its slot, every thread's piece  *)
(* of D of that subtile is in it: written before the store was issued, and *)
(* overwritten neither by a math thread that is ahead nor by a load.       *)
StoresAreIntact ==
  \A x \in storing : \A t \in Threads : smem[x[3]][t] = <<"D", x[2]>>

(* "at most StagesD committed TMA stores in flight" *)
StoresAreBounded == Cardinality(storing) <= StagesD

(* The block does not retire while a store still reads its shared memory   *)
(* or a load still writes it.                                              *)
NothingOutlivesTheBlock == AllExited => storing = {} /\ loading = {}

(* "This TMA epilogue configuration will deadlock": the configurations     *)
(* that a static assertion excludes.                                       *)
WillDeadlock == DelayTmaStore /\ ReuseSmemC /\ StagesC <= StagesD

(* The load warp and the math threads end. *)
Termination == ~WillDeadlock => <>AllExited

(* No schedule completes an excluded configuration once a tile has more    *)
(* subtiles than there are slots.                                          *)
AssertedDeadlock == WillDeadlock /\ LoadNeeded /\ Subtiles > StagesC => []~AllExited
=============================================================================
