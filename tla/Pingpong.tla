------------------------------ MODULE Pingpong ------------------------------
(***************************************************************************)
(* One thread block of the pingpong kernels (include/cutlass/gemm/kernel/  *)
(* sm90_gemm_tma_warpspecialized_pingpong.hpp and its version for arrays   *)
(* and groups of problems, sm90_gemm_array_tma_warpspecialized_pingpong).  *)
(* Two math warp groups compute the work tiles of the block in turn: while *)
(* one multiplies, the other is in its epilogue.  Both read the mainloop   *)
(* pipeline that one load warp fills, each skipping the k tiles of the     *)
(* other; both take their turns from an ordered sequence of two stages,    *)
(* multiplying and epilogue; both write their results to the same shared   *)
(* memory.  A second load warp brings the source C.                        *)
(* The threads of a warp, and of a warp group, are one actor here, so each *)
(* barrier counts actors; TmaEpilogue and OrderedSequence look inside.     *)
(* The bulk loads of a warp land in the order in which it issued them.     *)
(***************************************************************************)
EXTENDS Naturals, FiniteSets, ClusterBarrier, TransactionBarrier

CONSTANTS
  Kernels,            (* the kernels and the work of the block to look at *)
  Stages,             (* of the mainloop pipeline *)
  StagesC, StagesD,
  Subtiles            (* epilogue subtiles of a work tile *)

(* start[t] is the number of k tiles before work tile t, batch[t] is the   *)
(* batch or group that tile t belongs to.  All tiles of the plain kernel   *)
(* have the same number of k tiles, and there is one tensor map for all.   *)
ASSUME PingpongAssumption ==
  /\ Stages \in Nat \ {0, 1} /\ StagesC \in Nat \ {0}
  /\ Subtiles \in Nat /\ StagesD \in 1 .. Subtiles /\ StagesD <= StagesC
  /\ \A k \in Kernels :
       /\ {k.Array, k.ReuseSmemC, k.LoadNeeded} \subseteq BOOLEAN
       /\ k.tiles \in Nat
       /\ k.start \in [1 .. k.tiles + 1 -> Nat] /\ k.start[1] = 0
       /\ \A s, t \in 1 .. k.tiles + 1 : s < t => k.start[s] < k.start[t]
       /\ k.batch \in [1 .. k.tiles -> Nat]
       /\ ~k.Array => \A t \in 1 .. k.tiles :
            k.start[t + 1] = t * k.start[2] /\ k.batch[t] = 0

NumMmaWarpGroups == 2
K_PIPE_MMAS == 1
WarpGroups == 0 .. NumMmaWarpGroups - 1    (* Consumer0 and Consumer1 *)

VARIABLES
  kernel,               (* the kernel and its work: it never changes *)
  full, empty,          (* the barriers of the mainloop pipeline *)
  landed,               (* mainloop loads that have ended *)
  cfull, cempty,        (* the barriers of the epilogue load pipeline *)
  clanded,              (* loads of C that have ended *)
  smem,                 (* smem[slot] of the epilogue: <<"C", n>>, <<"D", n>>, <<"torn", n>> *)
  storing,              (* stores that still read: <<warp group, subtile, slot>> *)
  mathorder, loadorder, (* the barriers of the two ordered sequences *)
  maps,                 (* the batch each tensor map is made for: A and B, C, D of a group *)
  ppc, ptile,           (* the mainloop load warp and its work tile *)
  pstate,               (* mainloop_pipe_producer_state *)
  pwrite,               (* smem_pipe_write of load() *)
  epc, etile,           (* the epilogue load warp and its work tile *)
  estate,               (* epi_load_pipe_producer_state *)
  wpc, tile,            (* a math warp group and its work tile *)
  turn,                 (* its stage_ in the math order *)
  mstate,               (* mainloop_pipe_consumer_state *)
  read,                 (* smem_pipe_read of mma() *)
  sub, wait,            (* the subtile of store() and load_wait_state *)
  rstate,               (* epi_load_pipe_consumer_state *)
  sstate,               (* epi_store_pipe_producer_state *)
  issued                (* issued_stores *)

mainloop == <<full, empty, landed>>
source == <<cfull, cempty, clanded>>
loader == <<ppc, ptile, pstate, pwrite>>
eloader == <<epc, etile, estate>>
math == <<wpc, tile, turn, mstate, read>>
store == <<sub, wait, rstate, sstate, issued>>
vars == <<kernel, mainloop, source, smem, storing, mathorder, loadorder, maps,
          loader, eloader, math, store>>

ReuseSmemC == kernel.ReuseSmemC
NumTiles == kernel.tiles
KTileCount(t) == kernel.start[t + 1] - kernel.start[t]
IsValid(t) == t <= NumTiles       (* work_tile_info.is_valid() *)

StoreStages == IF ReuseSmemC THEN StagesC ELSE StagesD

K == INSTANCE PipelineState
C == INSTANCE PipelineState WITH Stages <- StagesC
D == INSTANCE PipelineState WITH Stages <- StoreStages
MathOrder == INSTANCE OrderedSequenceBarrier WITH Stages <- 2, Length <- NumMmaWarpGroups
LoadOrder == INSTANCE OrderedSequenceBarrier WITH Stages <- 1, Length <- 2

(* StorePipeline::UnacquiredStages *)
UnacquiredStages == StagesD - 1

SlotC(i) == <<"C", i>>
SlotD(i) == IF ReuseSmemC THEN SlotC(i) ELSE <<"D", i>>
EpilogueSlots == {SlotC(i) : i \in C!Index} \cup {SlotD(i) : i \in D!Index}

(* A faulty form, for a mutation: both math warp groups start at the first *)
(* k tile.                                                                 *)
StartTogether(state, n) == state

(* "Advance 2nd Math WG pipeline states to the end of 1st Math WG"         *)
Skip(state, n) == K!Advance(state, n)

(* The block has work; the array kernel leaves at once without, and its    *)
(* second math warp group does so without a tile of its own.               *)
LeavesAtOnce(t) == kernel.Array /\ ~IsValid(t)

Init ==
  /\ kernel \in Kernels
  /\ full = [i \in K!Index |-> TxInit(1)]
  /\ empty = [i \in K!Index |-> BarrierInit(1)]
  /\ landed = 0
  /\ cfull = [i \in C!Index |-> TxInit(1)]
  /\ cempty = [i \in C!Index |-> BarrierInit(1)]
  /\ clanded = 0
  /\ smem = [s \in EpilogueSlots |-> <<"torn", 0>>]
  /\ storing = {}
  /\ mathorder = MathOrder!OrderInit(1)
  /\ loadorder = LoadOrder!OrderInit(1)
  /\ LET first == IF NumTiles = 0 THEN 0 ELSE kernel.batch[1]
         second == IF NumTiles < 2 THEN 0 ELSE kernel.batch[2]
     IN  maps = [AB |-> first, C |-> first, D |-> <<first, second>>]
  /\ ppc = IF LeavesAtOnce(1) THEN "exit" ELSE "fetch"
  /\ ptile = 1
  /\ pstate = K!ProducerStartState /\ pwrite = K!ProducerStartState
  /\ epc = IF LeavesAtOnce(1) \/ ~kernel.LoadNeeded THEN "exit" ELSE "order"
  /\ etile = 1
  /\ estate = C!ProducerStartState
  /\ tile = [w \in WarpGroups |-> w + 1]
  /\ wpc = [w \in WarpGroups |-> IF LeavesAtOnce(w + 1) THEN "exit" ELSE "order"]
  /\ turn = [w \in WarpGroups |-> MathOrder!OrderStart(w)]
  /\ mstate = [w \in WarpGroups |->
       IF w = 0 \/ NumTiles = 0 THEN K!DefaultState
       ELSE Skip(K!DefaultState, KTileCount(1))]
  /\ read = [w \in WarpGroups |-> K!DefaultState]
  /\ sub = [w \in WarpGroups |-> 0]
  /\ wait = [w \in WarpGroups |-> C!DefaultState]
  /\ rstate = [w \in WarpGroups |-> C!Advance(C!DefaultState, w * Subtiles)]
  /\ sstate = [w \in WarpGroups |-> D!Advance(D!ProducerStartState, w * Subtiles)]
  /\ issued = [w \in WarpGroups |-> 0]

-----------------------------------------------------------------------------
(***************************************************************************)
(* The mainloop load warp.                                                 *)
(***************************************************************************)

(* load() is entered for a valid tile, load_tail() after the last one. *)
LoadBegin ==
  /\ ppc = "fetch"
  /\ pwrite' = pstate
  /\ ppc' = IF IsValid(ptile) THEN "load" ELSE "tail"
  /\ UNCHANGED <<kernel, mainloop, source, smem, storing, mathorder, loadorder, maps,
                 ptile, pstate, eloader, math, store>>

(* producer_acquire, the copies of a k tile, and the cursor of load() *)
Load ==
  LET last == pwrite.count + 1 = kernel.start[ptile + 1] IN
  /\ ppc = "load"
  /\ PhaseDone(empty[pwrite.index], pwrite.phase)
  /\ full' = [full EXCEPT ![pwrite.index] = ArriveAndExpectTx(@, 1)]
  /\ pwrite' = K!Inc(pwrite)
  /\ ppc' = IF last THEN "loaded" ELSE "load"
  /\ UNCHANGED <<kernel, empty, landed, source, smem, storing, mathorder, loadorder,
                 maps, ptile, pstate, eloader, math, store>>

(* After load() the kernel's cursor moves to the last slot loaded, and the *)
(* first time the epilogue load warp is let go.                            *)
Loaded ==
  /\ ppc = "loaded"
  /\ pstate' = K!Advance(pstate, KTileCount(ptile) - 1)
  /\ loadorder' = IF ptile = 1
                  THEN LoadOrder!OrderArrive(loadorder, LoadOrder!OrderStart(0), 0)
                  ELSE loadorder
  /\ ptile' = ptile + 1
  /\ ppc' = IF kernel.Array /\ IsValid(ptile + 1) /\ maps.AB # kernel.batch[ptile + 1]
            THEN "remap" ELSE "advance"
  /\ UNCHANGED <<kernel, mainloop, source, smem, storing, mathorder, maps, pwrite,
                 eloader, math, store>>

(* A faulty form, for a mutation: the cursor keeps its phase. *)
InvertedNot(state) == state

(* mainloop_pipe_tma_consumer_state: "it must start in the inverted phase" *)
Inverted(state) == [state EXCEPT !.phase = K!Flip(@)]

(* The next tile is of another batch: when the last load has ended the     *)
(* tensor maps of A and B are rewritten.                                   *)
RewriteMapAB ==
  LET last == Inverted(pstate) IN
  /\ ppc = "remap"
  /\ PhaseDone(full[last.index], last.phase)
  /\ maps' = [maps EXCEPT !.AB = kernel.batch[ptile]]
  /\ ppc' = "advance"
  /\ UNCHANGED <<kernel, mainloop, source, smem, storing, mathorder, loadorder, ptile,
                 pstate, pwrite, eloader, math, store>>

(* The plain kernel advances by k_tile_count in one go. *)
LoadAdvance ==
  /\ ppc = "advance"
  /\ pstate' = K!Advance(pstate, 1)
  /\ ppc' = "fetch"
  /\ UNCHANGED <<kernel, mainloop, source, smem, storing, mathorder, loadorder, maps,
                 ptile, pwrite, eloader, math, store>>

(* load_tail *)
LoadTail ==
  /\ ppc = "tail"
  /\ IF pwrite.count < pstate.count + Stages
     THEN /\ PhaseDone(empty[pwrite.index], pwrite.phase)
          /\ pwrite' = K!Inc(pwrite)
          /\ UNCHANGED ppc
     ELSE ppc' = "exit" /\ UNCHANGED pwrite
  /\ UNCHANGED <<kernel, mainloop, source, smem, storing, mathorder, loadorder, maps,
                 ptile, pstate, eloader, math, store>>

(* Mainloop loads, and loads of C, issued so far: the tails only acquire *)
Min2(a, b) == IF a < b THEN a ELSE b
LoadsIssued == Min2(pwrite.count, kernel.start[NumTiles + 1])
SourcesIssued == Min2(estate.count, NumTiles * Subtiles)

(* The oldest mainloop load ends. *)
Land ==
  /\ landed < LoadsIssued
  /\ landed' = landed + 1
  /\ full' = [full EXCEPT ![landed % Stages] = CompleteTransaction(@, 1)]
  /\ UNCHANGED <<kernel, empty, source, smem, storing, mathorder, loadorder, maps,
                 loader, eloader, math, store>>

-----------------------------------------------------------------------------
(***************************************************************************)
(* The epilogue load warp.                                                 *)
(***************************************************************************)

(* load_order_barrier.wait() *)
EpilogueBegin ==
  /\ epc = "order"
  /\ LoadOrder!OrderWaited(loadorder, LoadOrder!OrderStart(1), 1)
  /\ epc' = "load"
  /\ UNCHANGED <<kernel, mainloop, source, smem, storing, mathorder, loadorder, maps,
                 loader, etile, estate, math, store>>

(* The next work tile is of another batch.  After the last tile the code   *)
(* may wait for the loads too; nothing follows from it.                    *)
BatchChanges(t) == kernel.Array /\ IsValid(t + 1) /\ kernel.batch[t] # kernel.batch[t + 1]

(* One subtile of C: acquire its slot, copy, announce, commit. *)
LoadSource ==
  LET n == estate.count  last == (n + 1) % Subtiles = 0 IN
  /\ epc = "load" /\ IsValid(etile)
  /\ PhaseDone(cempty[estate.index], estate.phase)
  /\ cfull' = [cfull EXCEPT ![estate.index] = ArriveAndExpectTx(@, 1)]
  /\ smem' = [smem EXCEPT ![SlotC(estate.index)] = <<"torn", n>>]
  /\ estate' = C!Inc(estate)
  /\ etile' = IF last /\ ~BatchChanges(etile) THEN etile + 1 ELSE etile
  /\ epc' = IF last /\ BatchChanges(etile) THEN "remap" ELSE "load"
  /\ UNCHANGED <<kernel, mainloop, cempty, clanded, storing, mathorder, loadorder, maps,
                 loader, math, store>>

(* wait_until_load_finishes, then the tensor map of C is rewritten. *)
RewriteMapC ==
  LET last == C!StateAt(1, estate.count - 1)    (* last_load_producer_state *)
  IN  /\ epc = "remap"
      /\ PhaseDone(cfull[last.index], Inverted(last).phase)
      /\ maps' = [maps EXCEPT !.C = kernel.batch[etile + 1]]
      /\ etile' = etile + 1
      /\ epc' = "load"
      /\ UNCHANGED <<kernel, mainloop, source, smem, storing, mathorder, loadorder,
                     loader, estate, math, store>>

(* load_tail *)
EpilogueLoadTail ==
  /\ epc = "load" /\ ~IsValid(etile)
  /\ IF estate.count < NumTiles * Subtiles + StagesC
     THEN /\ PhaseDone(cempty[estate.index], estate.phase)
          /\ estate' = C!Inc(estate)
          /\ UNCHANGED epc
     ELSE epc' = "exit" /\ UNCHANGED estate
  /\ UNCHANGED <<kernel, mainloop, source, smem, storing, mathorder, loadorder, maps,
                 loader, etile, math, store>>

(* The oldest load of C ends. *)
LandSource ==
  LET i == clanded % StagesC IN
  /\ clanded < SourcesIssued
  /\ clanded' = clanded + 1
  /\ smem' = [smem EXCEPT ![SlotC(i)] = <<"C", clanded>>]
  /\ cfull' = [cfull EXCEPT ![i] = CompleteTransaction(@, 1)]
  /\ UNCHANGED <<kernel, mainloop, cempty, storing, mathorder, loadorder, maps,
                 loader, eloader, math, store>>

-----------------------------------------------------------------------------
(***************************************************************************)
(* A math warp group.                                                      *)
(***************************************************************************)

Goto(w, pc) == wpc' = [wpc EXCEPT ![w] = pc]

(* A faulty form, for a mutation: the groups take no turns. *)
AlwaysMyTurn(w) == TRUE

(* math_wg_order_barrier.wait() and arrive() *)
MyTurn(w) == MathOrder!OrderWaited(mathorder, turn[w], w)
PassTurn(w) ==
  /\ mathorder' = MathOrder!OrderArrive(mathorder, turn[w], w)
  /\ turn' = [turn EXCEPT ![w] = MathOrder!Inc(@)]

(* In its turn the group enters mma() ... *)
MmaBegin(w) ==
  /\ wpc[w] = "order" /\ IsValid(tile[w])
  /\ MyTurn(w)
  /\ read' = [read EXCEPT ![w] = mstate[w]]
  /\ Goto(w, "wait")
  /\ UNCHANGED <<kernel, mainloop, source, smem, storing, mathorder, loadorder, maps,
                 loader, eloader, tile, turn, mstate, store>>

(* ... waits for a k tile ... *)
WaitTile(w) ==
  /\ wpc[w] = "wait"
  /\ PhaseDone(full[read[w].index], read[w].phase)
  /\ Goto(w, "mma")
  /\ UNCHANGED <<kernel, mainloop, source, smem, storing, mathorder, loadorder, maps,
                 loader, eloader, tile, turn, mstate, read, store>>

(* k tiles of the work tile that mma() has multiplied so far *)
Multiplied(w) == read[w].count - mstate[w].count

(* ... multiplies, which goes on while the group proceeds ... *)
Multiply(w) ==
  /\ wpc[w] = "mma"
  /\ read' = [read EXCEPT ![w] = K!Inc(@)]
  /\ Goto(w, "release")
  /\ UNCHANGED <<kernel, mainloop, source, smem, storing, mathorder, loadorder, maps,
                 loader, eloader, tile, turn, mstate, store>>

(* ... and when the multiply before it has retired releases its slot.      *)
Release(w) ==
  LET released == K!Advance(mstate[w], Multiplied(w) - K_PIPE_MMAS - 1) IN
  /\ wpc[w] = "release"
  /\ empty' = IF Multiplied(w) <= K_PIPE_MMAS THEN empty
              ELSE [empty EXCEPT ![released.index] = Arrive(@)]
  /\ Goto(w, IF Multiplied(w) < KTileCount(tile[w]) THEN "wait" ELSE "pass")
  /\ UNCHANGED <<kernel, full, landed, source, smem, storing, mathorder, loadorder, maps,
                 loader, eloader, tile, turn, mstate, read, store>>

(* "Cue for next Math WG's MMA to start" *)
MmaPass(w) ==
  /\ wpc[w] = "pass"
  /\ PassTurn(w)
  /\ Goto(w, "tail")
  /\ UNCHANGED <<kernel, mainloop, source, smem, storing, loadorder, maps, loader,
                 eloader, tile, mstate, read, store>>

(* mma_tail releases the last slot.  The plain kernel then skips the next  *)
(* tile of the other group at once, the array kernel when it knows it.     *)
MmaTail(w) ==
  LET count == KTileCount(tile[w])
      last == K!Advance(mstate[w], count - K_PIPE_MMAS)
  IN  /\ wpc[w] = "tail"
      /\ empty' = [empty EXCEPT ![last.index] = Arrive(@)]
      /\ mstate' = [mstate EXCEPT ![w] =
           Skip(@, IF kernel.Array THEN count ELSE count * NumMmaWarpGroups)]
      /\ Goto(w, "turn")
      /\ UNCHANGED <<kernel, full, landed, source, smem, storing, mathorder, loadorder,
                     maps, loader, eloader, tile, turn, read, store>>

(* The epilogue begins in its turn: store(). *)
EpilogueTurn(w) ==
  /\ wpc[w] = "turn"
  /\ MyTurn(w)
  /\ sub' = [sub EXCEPT ![w] = 0]
  /\ wait' = [wait EXCEPT ![w] =
       IF ReuseSmemC THEN [sstate[w] EXCEPT !.phase = C!Flip(@)] ELSE rstate[w]]
  /\ Goto(w, IF kernel.LoadNeeded THEN "source" ELSE "write")
  /\ UNCHANGED <<kernel, mainloop, source, smem, storing, mathorder, loadorder, maps,
                 loader, eloader, tile, turn, mstate, read, rstate, sstate, issued>>

(* consumer_wait(load_wait_state) *)
WaitSource(w) ==
  /\ wpc[w] = "source"
  /\ PhaseDone(cfull[wait[w].index], wait[w].phase)
  /\ Goto(w, "read")
  /\ UNCHANGED <<kernel, mainloop, source, smem, storing, mathorder, loadorder, maps,
                 loader, eloader, tile, turn, mstate, read, store>>

(* consumer_release of the n slots from rstate on; nobody waits for them   *)
(* when nothing is loaded.                                                 *)
SourceReleased(w, n) ==
  [i \in C!Index |->
     IF kernel.LoadNeeded /\ \E d \in 0 .. n - 1 : (rstate[w].index + d) % StagesC = i
     THEN Arrive(cempty[i]) ELSE cempty[i]]

ReleaseSource(w) ==
  /\ cempty' = SourceReleased(w, 1)
  /\ rstate' = [rstate EXCEPT ![w] = C!Inc(@)]

(* C is in registers: without reuse its slot is free. *)
ReadSource(w) ==
  /\ wpc[w] = "read"
  /\ wait' = [wait EXCEPT ![w] = C!Inc(@)]
  /\ IF ReuseSmemC THEN UNCHANGED <<cempty, rstate>> ELSE ReleaseSource(w)
  /\ Goto(w, "write")
  /\ UNCHANGED <<kernel, mainloop, cfull, clanded, smem, storing, mathorder, loadorder,
                 maps, loader, eloader, tile, turn, mstate, read, sub, sstate, issued>>

(* The subtile of store() in the count of all subtiles of the block *)
Subtile(w) == (tile[w] - 1) * Subtiles + sub[w]

(* D is written to shared memory and its store issued. *)
WriteAndStore(w) ==
  LET slot == SlotD(sstate[w].index) IN
  /\ wpc[w] = "write"
  /\ smem' = [smem EXCEPT ![slot] = <<"D", Subtile(w)>>]
  /\ storing' = storing \cup {<<w, Subtile(w), slot>>}
  /\ sstate' = [sstate EXCEPT ![w] = D!Inc(@)]
  /\ issued' = [issued EXCEPT ![w] = @ + 1]
  /\ Goto(w, "acquire")
  /\ UNCHANGED <<kernel, mainloop, source, mathorder, loadorder, maps, loader, eloader,
                 tile, turn, mstate, read, sub, wait, rstate>>

(* tma_store_wait<n>: of the stores of the group at most the last n still read. *)
StoresRead(w, n) == \A x \in storing : x[1] = w => x[2] + n > Subtile(w)

(* producer_acquire of the store pipeline, and with reuse the slot of the  *)
(* oldest store goes back to the load warp.                                *)
AcquireStore(w) ==
  LET last == sub[w] + 1 = Subtiles IN
  /\ wpc[w] = "acquire"
  /\ StoresRead(w, UnacquiredStages)
  /\ IF ReuseSmemC /\ issued[w] > UnacquiredStages
     THEN ReleaseSource(w) ELSE UNCHANGED <<cempty, rstate>>
  /\ sub' = [sub EXCEPT ![w] = IF last THEN @ ELSE @ + 1]
  /\ Goto(w, IF last THEN "stored" ELSE IF kernel.LoadNeeded THEN "source" ELSE "write")
  /\ UNCHANGED <<kernel, mainloop, cfull, clanded, smem, storing, mathorder, loadorder,
                 maps, loader, eloader, tile, turn, mstate, read, wait, sstate, issued>>

(* A store has read its slot.  Stores end in any order. *)
StoreReads(x) ==
  /\ storing' = storing \ {x}
  /\ UNCHANGED <<kernel, mainloop, source, smem, mathorder, loadorder, maps, loader,
                 eloader, math, store>>

(* The array kernel now looks for the next tile of the group: it skips the *)
(* k tiles of the one between, and rewrites the group's tensor map of D if *)
(* the batch changes.                                                      *)
FetchNext(w) ==
  LET next == tile[w] + NumMmaWarpGroups IN
  /\ wpc[w] = "stored"
  /\ IF kernel.Array /\ IsValid(tile[w] + 1)
     THEN mstate' = [mstate EXCEPT ![w] = Skip(@, KTileCount(tile[w] + 1))]
     ELSE UNCHANGED mstate
  /\ IF kernel.Array /\ IsValid(next) /\ kernel.batch[next] # kernel.batch[tile[w]]
     THEN maps' = [maps EXCEPT !.D[w + 1] = kernel.batch[next]]
     ELSE UNCHANGED maps
  /\ Goto(w, "drain")
  /\ UNCHANGED <<kernel, mainloop, source, smem, storing, mathorder, loadorder, loader,
                 eloader, tile, turn, read, store>>

(* store_tail after the stores are done: the counter starts again, with    *)
(* reuse the last slots go back to the load warp, and the cursors skip the *)
(* subtiles of the other group.                                            *)
StoreTailDone(w) ==
  LET n == IF ReuseSmemC THEN Min2(UnacquiredStages, Subtiles) ELSE 0 IN
  /\ cempty' = SourceReleased(w, n)
  /\ rstate' = [rstate EXCEPT ![w] = C!Advance(C!Advance(@, n), Subtiles)]
  /\ sstate' = [sstate EXCEPT ![w] = D!Advance(@, Subtiles)]
  /\ issued' = [issued EXCEPT ![w] = 0]
  /\ Goto(w, "hand")
  /\ UNCHANGED <<kernel, mainloop, cfull, clanded, smem, storing, mathorder, loadorder,
                 maps, loader, eloader, tile, turn, mstate, read, sub, wait>>

(* A faulty form, for a mutation: the stores are not waited for. *)
StoreTailEarly(w) == wpc[w] = "drain" /\ StoreTailDone(w)

(* "we need to wait for all TMA stores to complete before issuing consumer *)
(* order barrier arrives"                                                  *)
StoreTail(w) == wpc[w] = "drain" /\ StoresRead(w, 0) /\ StoreTailDone(w)

(* "Cue for next Math WG's Epilogue to start", and on to the next tile.    *)
EpiloguePass(w) ==
  /\ wpc[w] = "hand"
  /\ PassTurn(w)
  /\ tile' = [tile EXCEPT ![w] = @ + NumMmaWarpGroups]
  /\ Goto(w, "order")
  /\ UNCHANGED <<kernel, mainloop, source, smem, storing, loadorder, maps, loader,
                 eloader, mstate, read, store>>

(* No tile is left for the group. *)
Leave(w) ==
  /\ wpc[w] = "order" /\ ~IsValid(tile[w])
  /\ Goto(w, "exit")
  /\ UNCHANGED <<kernel, mainloop, source, smem, storing, mathorder, loadorder, maps,
                 loader, eloader, tile, turn, mstate, read, store>>

-----------------------------------------------------------------------------
LoadWarp == LoadBegin \/ Load \/ Loaded \/ RewriteMapAB \/ LoadAdvance \/ LoadTail

EpilogueLoadWarp == EpilogueBegin \/ LoadSource \/ RewriteMapC \/ EpilogueLoadTail

MathWarpGroup(w) ==
  \/ MmaBegin(w) \/ WaitTile(w) \/ Multiply(w) \/ Release(w) \/ MmaPass(w) \/ MmaTail(w)
  \/ EpilogueTurn(w) \/ WaitSource(w) \/ ReadSource(w) \/ WriteAndStore(w)
  \/ AcquireStore(w) \/ FetchNext(w) \/ StoreTail(w) \/ EpiloguePass(w) \/ Leave(w)

AllExited == ppc = "exit" /\ epc = "exit" /\ \A w \in WarpGroups : wpc[w] = "exit"

(* The block ends. *)
Terminated == AllExited /\ UNCHANGED vars

Next ==
  \/ LoadWarp \/ EpilogueLoadWarp
  \/ \E w \in WarpGroups : MathWarpGroup(w)
  \/ Land \/ LandSource \/ \E x \in storing : StoreReads(x)
  \/ Terminated

Spec == Init /\ [][Next]_vars

(* The hardware runs whatever can run: as long as a warp or a copy can     *)
(* take a step, some step is taken.  Every kernel is finite.               *)
FairSpec == Spec /\ WF_vars(Next)

-----------------------------------------------------------------------------
TypeOK ==
  /\ \A i \in K!Index : full[i].tx \in {0, 1} /\ full[i].pending \in {0, 1} /\ empty[i] \in Barrier
  /\ \A i \in C!Index : cfull[i].tx \in {0, 1} /\ cfull[i].pending \in {0, 1} /\ cempty[i] \in Barrier
  /\ DOMAIN smem = EpilogueSlots
  /\ storing \subseteq WarpGroups \X (0 .. NumTiles * Subtiles) \X EpilogueSlots
  /\ pstate \in K!Cursor /\ pwrite \in K!Cursor /\ estate \in C!Cursor
  /\ turn \in [WarpGroups -> MathOrder!Cursor]
  /\ mstate \in [WarpGroups -> K!Cursor] /\ read \in [WarpGroups -> K!Cursor]
  /\ wait \in [WarpGroups -> C!Cursor] /\ rstate \in [WarpGroups -> C!Cursor]
  /\ sstate \in [WarpGroups -> D!Cursor]
  /\ sub \in [WarpGroups -> 0 .. Subtiles - 1] /\ issued \in [WarpGroups -> 0 .. Subtiles]

(* Multiplies of a group in flight: the last one, and the one before it    *)
(* until its slot is released; none after mma_tail.                        *)
InFlight(w) ==
  CASE wpc[w] = "release" -> read[w].count - Min2(2, Multiplied(w)) .. read[w].count - 1
    [] wpc[w] \in {"wait", "mma", "pass", "tail"} ->
         read[w].count - Min2(1, Multiplied(w)) .. read[w].count - 1
    [] OTHER -> {}

(* A multiply of a group works on a k tile of the work tile that the group *)
(* computes, that k tile has landed, and its slot is not loaded again: the *)
(* turns keep a parity test of one group from being met by the k tiles of  *)
(* the other, and the skips agree with the loads.                          *)
MmaReadsItsTile ==
  \A w \in WarpGroups : \A n \in InFlight(w) :
    /\ n \in kernel.start[tile[w]] .. kernel.start[tile[w] + 1] - 1
    /\ n < landed /\ LoadsIssued <= n + Stages

(* A group that reads C for a subtile of its work tile finds that subtile, *)
(* not one for the other group and not one that D has overwritten.         *)
SourceIsIntact ==
  \A w \in WarpGroups :
    wpc[w] = "read" => smem[SlotC(wait[w].index)] = <<"C", Subtile(w)>>

(* As long as a store reads its slot the subtile of D stays in it, whether *)
(* the next write comes from the same group, the other one or a load.      *)
StoresAreIntact == \A x \in storing : smem[x[3]] = <<"D", x[2]>>

(* The work tile of a k tile, and of a subtile *)
TileOf(n) == CHOOSE t \in 1 .. NumTiles : kernel.start[t] <= n /\ n < kernel.start[t + 1]

(* "make sure TMA loads have finished before doing descriptor updates":    *)
(* every load in flight belongs to the batch that its tensor map is for.   *)
LoadsUseTheirTensorMap ==
  /\ \A n \in landed .. LoadsIssued - 1 : kernel.batch[TileOf(n)] = maps.AB
  /\ \A n \in clanded .. SourcesIssued - 1 : kernel.batch[n \div Subtiles + 1] = maps.C

(* The same for stores: "Wait until all TMA descriptor previously issued   *)
(* are safe to be modified" before a tensor map is rewritten.              *)
StoresUseTheirTensorMap ==
  \A x \in storing : kernel.batch[x[2] \div Subtiles + 1] = maps.D[x[1] + 1]

(* Every warp of a block that has work ends. *)
Termination == NumTiles > 0 \/ kernel.Array => <>AllExited

(* "It is possible to have work tiles start off invalid, so we have to     *)
(* check that first.": a block without work ends as well.                  *)
IdleBlocksEnd == NumTiles = 0 => <>AllExited
=============================================================================
