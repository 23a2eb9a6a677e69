------------------------- MODULE TmaClusterGemmInv -------------------------
(***************************************************************************)
(* The inductive invariant of TmaClusterGemm.  For slot s it relates the   *)
(* barriers of all blocks of a row or column: with c a thread of block d   *)
(* that signals block b, and x a share that b copies to d,                 *)
(*     empty[b].phase <= releases of c <= waits of c <= full[d].phase      *)
(*         <= landings of x in d <= copies of b <= grants of b             *)
(*         <= empty[b].phase + 1                                           *)
(* so that no block is more than one round ahead of a block it shares      *)
(* tiles with, although no barrier is shared by two blocks.                *)
(***************************************************************************)
EXTENDS TmaClusterGemm

(* The threads that tell block d that its copies may come. *)
SignalersTo(d) == {c \in Signalers : Dst(c) = d}

(* Slots the producer of b has been let into, those of the tail included;  *)
(* tiles for which it armed its own barrier; tiles that it copied.         *)
Granted(b) == IF ppc[b] = "copy" THEN pwrite[b].count + 1 ELSE pwrite[b].count
Armed(b) == IF Granted(b) < KTiles THEN Granted(b) ELSE KTiles
Copied(b) == IF pwrite[b].count < KTiles THEN pwrite[b].count ELSE KTiles

(* Tiles that c knows to be there, and tiles it has released. *)
Seen(c) == IF cpc[c] = "mma" THEN cread[c].count + 1 ELSE cread[c].count
Released(c) == crelease[c].count

(* Where a producer stands. *)
ProducerCursor(b) ==
  /\ pwrite[b] = StateAt(1, pwrite[b].count)
  /\ ppc[b] \in {"acquire", "copy"} => pwrite[b].count < KTiles
  /\ ppc[b] = "tail" => KTiles <= pwrite[b].count /\ pwrite[b].count < KTiles + Stages
  /\ ppc[b] = "done" => pwrite[b].count = KTiles + Stages

(* Where a consumer stands: its releases are one tile behind its multiplies *)
(* and two while the slot before last is about to be released.             *)
ConsumerCursor(c) ==
  LET read == cread[c].count IN
  /\ cread[c] = StateAt(0, read)
  /\ crelease[c] = StateAt(0, Released(c))
  /\ cpc[c] \in {"wait", "mma"} =>
       read < KTiles /\ Released(c) = IF read = 0 THEN 0 ELSE read - 1
  /\ cpc[c] = "release" => read <= KTiles /\ read = Released(c) + 2
  /\ cpc[c] = "tail" => read = KTiles /\ read = Released(c) + 1
  /\ cpc[c] = "done" => read = KTiles /\ read = Released(c)

(* Shares of the current round of slot s that are already there. *)
Early(d, s) == {x \in Shares(d) : landed[d][s][x] = full[d][s].phase + 1}

(* The current phase of the full barrier waits for the block's own arrival *)
(* and for the shares that have not landed; the bytes of a share that      *)
(* lands before the arrival are owed.                                      *)
FullBarrier(d, s) ==
  LET b == full[d][s]
      armed == Visits(Armed(d), s)
  IN  /\ b.count = 1
      /\ armed \in {b.phase, b.phase + 1}
      /\ b.pending = IF armed = b.phase THEN 1 ELSE 0
      /\ b.tx = (IF armed = b.phase THEN 0 ELSE TransactionUnits) - Cardinality(Early(d, s))
      /\ ~(b.pending = 0 /\ b.tx = 0)
      /\ \A x \in Shares(d) :
           /\ landed[d][s][x] \in {b.phase, b.phase + 1}
           /\ landed[d][s][x] <= Visits(Copied(x[2]), s)
      /\ \A c \in Signalers : Block(c) = d => Visits(Seen(c), s) <= b.phase

(* How often each thread has released slot s to block d. *)
Releases(d, s) == [c \in SignalersTo(d) |-> Visits(Released(c), s)]

(* The current phase of the empty barrier waits for exactly the threads    *)
(* that have not released the slot since, and the producer is at most one  *)
(* round ahead.                                                            *)
EmptyBarrier(d, s) ==
  /\ CountedBy(empty[d][s], SignalersTo(d), Releases(d, s))
  /\ Visits(Granted(d), s) <= empty[d][s].phase + 1

(* The variables are functions on the blocks, slots and threads. *)
Shape ==
  /\ cluster \in Clusters
  /\ DOMAIN cpc = ClusterSignalers
  /\ full \in [Blocks -> [Index -> [count : Nat, pending : Nat, tx : Int, phase : Nat]]]
  /\ empty \in [Blocks -> [Index -> Barrier]]
  /\ DOMAIN landed = Blocks
  /\ \A d \in Blocks : landed[d] \in [Index -> [Shares(d) -> Nat]]
  /\ ppc \in [Blocks -> {"acquire", "copy", "tail", "done"}]
  /\ pwrite \in [Blocks -> Cursor]
  /\ cpc \in [Signalers -> {"wait", "mma", "release", "tail", "done"}]
  /\ cread \in [Signalers -> Cursor] /\ crelease \in [Signalers -> Cursor]

IInv ==
  /\ Shape
  /\ \A b \in Blocks : ProducerCursor(b)
  /\ \A c \in Signalers : ConsumerCursor(c)
  /\ \A d \in Blocks, s \in Index : FullBarrier(d, s)
  /\ \A d \in Blocks, s \in Index : EmptyBarrier(d, s)
=============================================================================
