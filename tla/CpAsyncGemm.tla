---------------------------- MODULE CpAsyncGemm ----------------------------
(***************************************************************************)
(* One CTA of the warp specialised cooperative GEMM whose load warps copy  *)
(* with cp.async (gemm/kernel/sm90_gemm_warpspecialized_cooperative.hpp)   *)
(* around its mainloop (gemm/collective/                                   *)
(* sm90_mma_multistage_gmma_ss_warpspecialized.hpp).                       *)
(*                                                                         *)
(* Producer threads stream the k tiles of the CTA's work tiles through     *)
(* Stages slots of shared memory, each thread copying its share of every   *)
(* tile; MMA threads issue asynchronous matrix multiplies that read the    *)
(* slots and release each slot K_PIPE_MMAS multiplies late.  The two sides *)
(* meet only at the PipelineAsync barriers.  Three things run behind the   *)
(* threads' backs: copies land, multiplies retire, and the arrival a       *)
(* thread tied to its copies is delivered when they have landed.           *)
(***************************************************************************)
EXTENDS PipelineAsync, FiniteSets

CONSTANTS
  Producers,    (* the threads of the load warp group *)
  Consumers,    (* the threads of the MMA warp groups *)
  NumWork,      (* work tiles that the tile scheduler hands to this CTA *)
  TileStart,    (* k tiles of earlier work tiles, for work 1 .. NumWork+1 *)
  K_PIPE_MMAS,  (* multiplies in flight when a slot is released *)
  Torn          (* what a slot holds while a copy into it is outstanding *)

ASSUME ThreadsAssumption ==
  /\ IsFiniteSet(Producers) /\ Producers # {}
  /\ IsFiniteSet(Consumers) /\ Consumers # {}

(* assert(k_tile_count >= 1): every work tile has at least one k tile *)
ASSUME WorkAssumption ==
  /\ NumWork \in Nat
  /\ TileStart \in [1 .. NumWork + 1 -> Nat]
  /\ TileStart[1] = 0
  /\ \A v, w \in 1 .. NumWork + 1 : v < w => TileStart[v] < TileStart[w]

(* static_assert((0 <= K_PIPE_MMAS) && (K_PIPE_MMAS < K_PIPE_MAX)) *)
ASSUME PipeAssumption == K_PIPE_MMAS \in 0 .. Stages - 1

ASSUME TornAssumption == Torn \notin Nat

VARIABLES
  full, empty,  (* the pipeline's barriers, per slot *)
  smem,         (* smem[s][p]: the k tile whose share p is in slot s *)
  ppc, pwork,   (* a producer's control point and work tile *)
  pstate,       (* mainloop_pipe_producer_state of the kernel *)
  pwrite,       (* smem_pipe_write, the copy of it inside load *)
  pleft,        (* k_tile_count inside load *)
  landed,       (* copy groups of the thread that have completed *)
  cpc, cwork,   (* a consumer's control point and work tile *)
  cstate,       (* mainloop_pipe_consumer_state of the kernel *)
  cread, crelease,  (* smem_pipe_read and smem_pipe_release inside mma *)
  cprologue,    (* prologue multiplies, then tail releases, to go *)
  cleft,        (* k_tile_count inside mma *)
  ctoken,       (* barrier_token: TRUE for WaitDone *)
  mmas,         (* multiplies issued and not yet retired *)
  accum         (* the slot contents accumulated for this work tile *)

pvars == <<ppc, pwork, pstate, pwrite, pleft>>
cvars == <<cpc, cwork, cstate, cread, crelease, cprologue, cleft, ctoken>>
vars == <<full, empty, smem, pvars, landed, cvars, mmas, accum>>

KTiles(w) == TileStart[w + 1] - TileStart[w]
Total == TileStart[NumWork + 1]

(* The slot of the n-th k tile of the stream. *)
SlotOf(n) == n % Stages

Min2(a, b) == IF a <= b THEN a ELSE b

(* prologue_mma_count *)
Prologue(w) == Min2(K_PIPE_MMAS, KTiles(w))

Init ==
  /\ full = InitBarriers(Cardinality(Producers))
  /\ empty = InitBarriers(Cardinality(Consumers))
  /\ smem = [s \in Index |-> [p \in Producers |-> Torn]]
  /\ ppc = [p \in Producers |-> "fetch"]
  /\ pwork = [p \in Producers |-> 1]
  /\ pstate = [p \in Producers |-> ProducerStartState]
  /\ pwrite = [p \in Producers |-> ProducerStartState]
  /\ pleft = [p \in Producers |-> 0]
  /\ landed = [p \in Producers |-> 0]
  /\ cpc = [c \in Consumers |-> "fetch"]
  /\ cwork = [c \in Consumers |-> 1]
  /\ cstate = [c \in Consumers |-> DefaultState]
  /\ cread = [c \in Consumers |-> DefaultState]
  /\ crelease = [c \in Consumers |-> DefaultState]
  /\ cprologue = [c \in Consumers |-> 0]
  /\ cleft = [c \in Consumers |-> 0]
  /\ ctoken = [c \in Consumers |-> FALSE]
  /\ mmas = [c \in Consumers |-> 0]
  /\ accum = [c \in Consumers |-> {}]

-----------------------------------------------------------------------------
(***************************************************************************)
(* The producer threads.                                                   *)
(***************************************************************************)

(* A valid work tile: enter load with a copy of the pipeline state. *)
LoadBegin(p) ==
  /\ ppc[p] = "fetch" /\ pwork[p] <= NumWork
  /\ ppc' = [ppc EXCEPT ![p] = "acquire"]
  /\ pwrite' = [pwrite EXCEPT ![p] = pstate[p]]
  /\ pleft' = [pleft EXCEPT ![p] = KTiles(pwork[p])]
  /\ UNCHANGED <<full, empty, smem, pwork, pstate, landed, cvars, mmas, accum>>

(* A faulty form, for a mutation: one slot is left out. *)
LoadTailBeginShort(p) ==
  /\ ppc[p] = "fetch" /\ pwork[p] > NumWork
  /\ ppc' = [ppc EXCEPT ![p] = "tail"]
  /\ pwrite' = [pwrite EXCEPT ![p] = pstate[p]]
  /\ pleft' = [pleft EXCEPT ![p] = Stages - 1]
  /\ UNCHANGED <<full, empty, smem, pwork, pstate, landed, cvars, mmas, accum>>

(* No work left: enter load_tail. *)
LoadTailBegin(p) ==
  /\ ppc[p] = "fetch" /\ pwork[p] > NumWork
  /\ ppc' = [ppc EXCEPT ![p] = "tail"]
  /\ pwrite' = [pwrite EXCEPT ![p] = pstate[p]]
  /\ pleft' = [pleft EXCEPT ![p] = Stages]
  /\ UNCHANGED <<full, empty, smem, pwork, pstate, landed, cvars, mmas, accum>>

(* pipeline.producer_acquire(smem_pipe_write) *)
Acquire(p) ==
  /\ ppc[p] = "acquire"
  /\ ProducerAcquired(empty, pwrite[p])
  /\ ppc' = [ppc EXCEPT ![p] = "copy"]
  /\ UNCHANGED <<full, empty, smem, pwork, pstate, pwrite, pleft, landed, cvars,
                 mmas, accum>>

(* The copies are issued; from here until they complete the thread's share *)
(* of the slot may hold anything.                                          *)
IssueCopies(p) ==
  /\ ppc[p] = "copy"
  /\ smem' = [smem EXCEPT ![pwrite[p].index][p] = Torn]
  /\ ppc' = [ppc EXCEPT ![p] = "commit_op"]
  /\ UNCHANGED <<full, empty, pwork, pstate, pwrite, pleft, landed, cvars, mmas,
                 accum>>

(* producer_commit, first half: tie an arrival to the thread's copies *)
CommitOp(p) ==
  /\ ppc[p] = "commit_op"
  /\ full' = ProducerCommitOp(full, pwrite[p])
  /\ ppc' = [ppc EXCEPT ![p] = "commit"]
  /\ UNCHANGED <<empty, smem, pwork, pstate, pwrite, pleft, landed, cvars, mmas,
                 accum>>

(* producer_commit, second half: the thread's own arrival.  The cursor     *)
(* moves on; after the last k tile load returns and the kernel advances    *)
(* its own state past the whole work tile.                                 *)
Commit(p) ==
  /\ ppc[p] = "commit"
  /\ full' = ProducerCommit(full, pwrite[p])
  /\ pwrite' = [pwrite EXCEPT ![p] = Inc(@)]
  /\ pleft' = [pleft EXCEPT ![p] = @ - 1]
  /\ \/ /\ pleft[p] > 1
        /\ ppc' = [ppc EXCEPT ![p] = "acquire"]
        /\ UNCHANGED <<pwork, pstate>>
     \/ /\ pleft[p] <= 1
        /\ ppc' = [ppc EXCEPT ![p] = "fetch"]
        /\ pwork' = [pwork EXCEPT ![p] = @ + 1]
        /\ pstate' = [pstate EXCEPT ![p] = Advance(@, KTiles(pwork[p]))]
  /\ UNCHANGED <<empty, smem, landed, cvars, mmas, accum>>

(* producer_tail acquires every slot once more and commits none. *)
LoadTail(p) ==
  /\ ppc[p] = "tail"
  /\ ProducerAcquired(empty, pwrite[p])
  /\ pwrite' = [pwrite EXCEPT ![p] = Inc(@)]
  /\ pleft' = [pleft EXCEPT ![p] = @ - 1]
  /\ ppc' = [ppc EXCEPT ![p] = IF pleft[p] > 1 THEN "tail" ELSE "exit"]
  /\ UNCHANGED <<full, empty, smem, pwork, pstate, landed, cvars, mmas, accum>>

(* Copy groups whose completion is tied to an arrival. *)
Committed(p) ==
  IF ppc[p] = "commit" THEN pwrite[p].count + 1 ELSE Min2(pwrite[p].count, Total)

(* The oldest outstanding copy group of p completes: its data are in the   *)
(* slot and the arrival tied to it is delivered.  A thread's groups        *)
(* complete in the order in which it issued them.                          *)
CopiesLand(p) ==
  LET n == landed[p]
  IN  /\ n < Committed(p)
      /\ smem' = [smem EXCEPT ![SlotOf(n)][p] = n]
      /\ full' = [full EXCEPT ![SlotOf(n)] = Arrive(@)]
      /\ landed' = [landed EXCEPT ![p] = n + 1]
      /\ UNCHANGED <<empty, pvars, cvars, mmas, accum>>

-----------------------------------------------------------------------------
(***************************************************************************)
(* The MMA threads.                                                        *)
(***************************************************************************)

(* A valid work tile: enter mma.  The first multiply is issued before any  *)
(* count is looked at, so the prologue issues at least one; it also zeroes *)
(* the accumulators.                                                       *)
MmaBegin(c) ==
  /\ cpc[c] = "fetch" /\ cwork[c] <= NumWork
  /\ cpc' = [cpc EXCEPT ![c] = "try"]
  /\ cread' = [cread EXCEPT ![c] = cstate[c]]
  /\ crelease' = [crelease EXCEPT ![c] = cstate[c]]
  /\ LET pro == Prologue(cwork[c])
     IN  /\ cprologue' = [cprologue EXCEPT ![c] = IF pro = 0 THEN 1 ELSE pro]
         /\ cleft' = [cleft EXCEPT ![c] = KTiles(cwork[c]) - pro]
  /\ accum' = [accum EXCEPT ![c] = {}]
  /\ UNCHANGED <<full, empty, smem, pvars, landed, cwork, cstate, ctoken, mmas>>

(* A faulty form, for a mutation: the thread keeps fetching. *)
MmaExitNever(c) ==
  /\ cpc[c] = "fetch" /\ cwork[c] > NumWork
  /\ UNCHANGED vars

(* No work left: the thread leaves its loop. *)
MmaExit(c) ==
  /\ cpc[c] = "fetch" /\ cwork[c] > NumWork
  /\ cpc' = [cpc EXCEPT ![c] = "exit"]
  /\ UNCHANGED <<full, empty, smem, pvars, landed, cwork, cstate, cread, crelease,
                 cprologue, cleft, ctoken, mmas, accum>>

(* barrier_token = pipeline.consumer_try_wait(smem_pipe_read) *)
TryWait(c) ==
  /\ cpc[c] = "try"
  /\ ctoken' = [ctoken EXCEPT ![c] = ConsumerTryWait(full, cread[c])]
  /\ cpc' = [cpc EXCEPT ![c] = "wait"]
  /\ UNCHANGED <<full, empty, smem, pvars, landed, cwork, cstate, cread, crelease,
                 cprologue, cleft, mmas, accum>>

(* pipeline.consumer_wait(smem_pipe_read, barrier_token) *)
Wait(c) ==
  /\ cpc[c] = "wait"
  /\ ConsumerWaited(full, cread[c], ctoken[c])
  /\ cpc' = [cpc EXCEPT ![c] = "mma"]
  /\ UNCHANGED <<full, empty, smem, pvars, landed, cwork, cstate, cread, crelease,
                 cprologue, cleft, ctoken, mmas, accum>>

(* A multiply on the slot is issued and the read cursor moves on.  In the  *)
(* prologue nothing is released; afterwards every multiply is followed by  *)
(* a release.                                                              *)
IssueMma(c) ==
  /\ cpc[c] = "mma"
  /\ mmas' = [mmas EXCEPT ![c] = @ + 1]
  /\ cread' = [cread EXCEPT ![c] = Inc(@)]
  /\ \/ /\ cprologue[c] > 0
        /\ cprologue' = [cprologue EXCEPT ![c] = @ - 1]
        /\ cpc' = [cpc EXCEPT ![c] =
                     IF cprologue[c] > 1 \/ cleft[c] > 0 THEN "try" ELSE "tail"]
     \/ /\ cprologue[c] = 0
        /\ cpc' = [cpc EXCEPT ![c] = "gmma_wait"]
        /\ UNCHANGED cprologue
  /\ UNCHANGED <<full, empty, smem, pvars, landed, cwork, cstate, crelease, cleft,
                 ctoken, accum>>

(* A faulty form, for a mutation: one multiply too many stays in flight. *)
GmmaWaitOneMore(c) ==
  /\ cpc[c] = "gmma_wait"
  /\ mmas[c] <= K_PIPE_MMAS + 1
  /\ cpc' = [cpc EXCEPT ![c] = "release"]
  /\ UNCHANGED <<full, empty, smem, pvars, landed, cwork, cstate, cread, crelease,
                 cprologue, cleft, ctoken, mmas, accum>>

(* warpgroup_wait<K_PIPE_MMAS>() *)
GmmaWait(c) ==
  /\ cpc[c] = "gmma_wait"
  /\ mmas[c] <= K_PIPE_MMAS
  /\ cpc' = [cpc EXCEPT ![c] = "release"]
  /\ UNCHANGED <<full, empty, smem, pvars, landed, cwork, cstate, cread, crelease,
                 cprologue, cleft, ctoken, mmas, accum>>

(* pipeline.consumer_release(smem_pipe_release), in the loop of mma *)
Release(c) ==
  /\ cpc[c] = "release"
  /\ empty' = ConsumerRelease(empty, crelease[c])
  /\ crelease' = [crelease EXCEPT ![c] = Inc(@)]
  /\ cleft' = [cleft EXCEPT ![c] = @ - 1]
  /\ cpc' = [cpc EXCEPT ![c] = IF cleft[c] > 1 THEN "try" ELSE "tail"]
  /\ UNCHANGED <<full, smem, pvars, landed, cwork, cstate, cread, cprologue, ctoken,
                 mmas, accum>>

(* A faulty form, for a mutation: the multiplies are not waited for. *)
MmaTailEarly(c) ==
  /\ cpc[c] = "tail"
  /\ LET pro == Prologue(cwork[c])
     IN  /\ crelease' = [crelease EXCEPT ![c] =
                           Advance(cstate[c], KTiles(cwork[c]) - pro)]
         /\ cprologue' = [cprologue EXCEPT ![c] = pro]
         /\ cpc' = [cpc EXCEPT ![c] = IF pro > 0 THEN "tail_release" ELSE "epilogue"]
  /\ UNCHANGED <<full, empty, smem, pvars, landed, cwork, cstate, cread, cleft,
                 ctoken, mmas, accum>>

(* A faulty form, for a mutation: the prologue is not subtracted. *)
MmaTailPastEnd(c) ==
  /\ cpc[c] = "tail"
  /\ mmas[c] = 0
  /\ crelease' = [crelease EXCEPT ![c] = Advance(cstate[c], KTiles(cwork[c]))]
  /\ cprologue' = [cprologue EXCEPT ![c] = Prologue(cwork[c])]
  /\ cpc' = [cpc EXCEPT ![c] = "tail_release"]
  /\ UNCHANGED <<full, empty, smem, pvars, landed, cwork, cstate, cread, cleft,
                 ctoken, mmas, accum>>

(* mma_tail: jump its own copy of the kernel's state over the releases mma *)
(* has made, then wait for all multiplies.                                 *)
MmaTail(c) ==
  /\ cpc[c] = "tail"
  /\ mmas[c] = 0
  /\ LET pro == Prologue(cwork[c])
     IN  /\ crelease' = [crelease EXCEPT ![c] =
                           Advance(cstate[c], KTiles(cwork[c]) - pro)]
         /\ cprologue' = [cprologue EXCEPT ![c] = pro]
         /\ cpc' = [cpc EXCEPT ![c] = IF pro > 0 THEN "tail_release" ELSE "epilogue"]
  /\ UNCHANGED <<full, empty, smem, pvars, landed, cwork, cstate, cread, cleft,
                 ctoken, mmas, accum>>

(* ... and release the slots of the last multiplies. *)
TailRelease(c) ==
  /\ cpc[c] = "tail_release"
  /\ empty' = ConsumerRelease(empty, crelease[c])
  /\ crelease' = [crelease EXCEPT ![c] = Inc(@)]
  /\ cprologue' = [cprologue EXCEPT ![c] = @ - 1]
  /\ cpc' = [cpc EXCEPT ![c] = IF cprologue[c] > 1 THEN "tail_release" ELSE "epilogue"]
  /\ UNCHANGED <<full, smem, pvars, landed, cwork, cstate, cread, cleft, ctoken, mmas,
                 accum>>

(* The kernel advances its state past the work tile, stores the            *)
(* accumulators and fetches the next work tile.                            *)
Epilogue(c) ==
  /\ cpc[c] = "epilogue"
  /\ cstate' = [cstate EXCEPT ![c] = Advance(@, KTiles(cwork[c]))]
  /\ cwork' = [cwork EXCEPT ![c] = @ + 1]
  /\ cpc' = [cpc EXCEPT ![c] = "fetch"]
  /\ UNCHANGED <<full, empty, smem, pvars, landed, cread, crelease, cprologue, cleft,
                 ctoken, mmas, accum>>

(* The oldest multiply in flight retires, having read its slot. *)
MmaRetires(c) ==
  /\ mmas[c] > 0
  /\ LET s == SlotOf(cread[c].count - mmas[c])
     IN  accum' = [accum EXCEPT ![c] = @ \cup {smem[s][p] : p \in Producers}]
  /\ mmas' = [mmas EXCEPT ![c] = @ - 1]
  /\ UNCHANGED <<full, empty, smem, pvars, landed, cvars>>

-----------------------------------------------------------------------------
Producer(p) ==
  \/ LoadBegin(p) \/ LoadTailBegin(p) \/ Acquire(p) \/ IssueCopies(p)
  \/ CommitOp(p) \/ Commit(p) \/ LoadTail(p)

Consumer(c) ==
  \/ MmaBegin(c) \/ MmaExit(c) \/ TryWait(c) \/ Wait(c) \/ IssueMma(c)
  \/ GmmaWait(c) \/ Release(c) \/ MmaTail(c) \/ TailRelease(c) \/ Epilogue(c)

AllExited ==
  /\ \A p \in Producers : ppc[p] = "exit"
  /\ \A c \in Consumers : cpc[c] = "exit"

(* The CTA has retired. *)
Terminated == AllExited /\ UNCHANGED vars

Next ==
  \/ \E p \in Producers : Producer(p) \/ CopiesLand(p)
  \/ \E c \in Consumers : Consumer(c) \/ MmaRetires(c)
  \/ Terminated

Spec == Init /\ [][Next]_vars

(* Every resident thread is scheduled, copies complete, multiplies retire. *)
Fairness ==
  /\ \A p \in Producers : WF_vars(Producer(p)) /\ WF_vars(CopiesLand(p))
  /\ \A c \in Consumers : WF_vars(Consumer(c)) /\ WF_vars(MmaRetires(c))

FairSpec == Spec /\ Fairness

-----------------------------------------------------------------------------
Content == Nat \cup {Torn}

TypeOK ==
  /\ full \in [Index -> Barrier] /\ empty \in [Index -> Barrier]
  /\ smem \in [Index -> [Producers -> Content]]
  /\ ppc \in [Producers -> {"fetch", "acquire", "copy", "commit_op", "commit",
                            "tail", "exit"}]
  /\ pwork \in [Producers -> 1 .. NumWork + 1]
  /\ pstate \in [Producers -> Cursor] /\ pwrite \in [Producers -> Cursor]
  /\ pleft \in [Producers -> Nat] /\ landed \in [Producers -> Nat]
  /\ cpc \in [Consumers -> {"fetch", "try", "wait", "mma", "gmma_wait", "release",
                            "tail", "tail_release", "epilogue", "exit"}]
  /\ cwork \in [Consumers -> 1 .. NumWork + 1]
  /\ cstate \in [Consumers -> Cursor] /\ cread \in [Consumers -> Cursor]
  /\ crelease \in [Consumers -> Cursor]
  /\ cprologue \in [Consumers -> Nat] /\ cleft \in [Consumers -> Nat]
  /\ ctoken \in [Consumers -> BOOLEAN]
  /\ mmas \in [Consumers -> Nat]
  /\ accum \in [Consumers -> SUBSET Content]

(* A multiply in flight reads only whole tiles: as long as it has not      *)
(* retired, every thread's share of its slot is that of the k tile the     *)
(* multiply was issued for - neither still being copied nor overwritten    *)
(* by a producer that ran ahead (mma releases a slot K_PIPE_MMAS           *)
(* multiplies late for this purpose).                                      *)
MmaReadsWholeTiles ==
  \A c \in Consumers : \A n \in cread[c].count - mmas[c] .. cread[c].count - 1 :
    \A p \in Producers : smem[SlotOf(n)][p] = n

(* A thread's parity test is never fooled by a barrier that is a whole     *)
(* round ahead or behind: where a producer may pass, every consumer has    *)
(* released the tile before it in that slot, and where a consumer may      *)
(* pass, by its test or by a token it took earlier, every share landed.    *)
WaitsAreExact ==
  /\ \A p \in Producers :
       ppc[p] = "acquire" /\ ProducerAcquired(empty, pwrite[p]) =>
         \A c \in Consumers : crelease[c].count + Stages > pwrite[p].count
  /\ \A c \in Consumers :
       cpc[c] = "wait" /\ ConsumerWaited(full, cread[c], ctoken[c]) =>
         \A p \in Producers : landed[p] > cread[c].count

(* The accumulators stored in the epilogue hold exactly the k tiles of     *)
(* this work tile, each whole.                                             *)
EpilogueHasItsTiles ==
  \A c \in Consumers : cpc[c] = "epilogue" =>
    accum[c] = TileStart[cwork[c]] .. TileStart[cwork[c] + 1] - 1

(* load_tail holds a producer back until no consumer will touch the        *)
(* CTA's barriers again.                                                   *)
TailHoldsProducers ==
  \A p \in Producers : ppc[p] = "exit" =>
    \A c \in Consumers : crelease[c].count = Total /\ cpc[c] \notin {"release", "tail_release"}

(* No thread is left waiting on a barrier. *)
Termination == <>AllExited

(* The pipeline is a bounded buffer of tiles: each landing of a thread's   *)
(* copies fills its share of a tile, each consumer_release hands a tile    *)
(* back.  No barrier round is lost, gained or mistaken for another.        *)
Fifo == INSTANCE TileFifo WITH released <- [c \in Consumers |-> crelease[c].count]

ImplementsFifo == Fifo!Spec

(* ... and keeps moving: under the fairness above what can be filled or    *)
(* handed back eventually is.                                              *)
ImplementsFairFifo == Fifo!FairSpec
=============================================================================
