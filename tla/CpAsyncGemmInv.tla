--------------------------- MODULE CpAsyncGemmInv ---------------------------
(***************************************************************************)
(* The inductive invariant of CpAsyncGemm.  It relates each slot's         *)
(* barriers to how often every thread has visited the slot: along          *)
(*     empty.phase <= releases <= waits <= full.phase                      *)
(*                 <= landings <= acquisitions <= empty.phase + 1          *)
(* all the counts of a slot are within one round of each other, which is   *)
(* what makes one parity bit enough to tell the rounds apart.              *)
(***************************************************************************)
EXTENDS CpAsyncGemm

(* Tiles p has arrived for on the full barriers. *)
Arrived(p) == Min2(pwrite[p].count, Total)

(* Tiles whose copies p has issued. *)
Begun(p) ==
  IF ppc[p] \in {"commit_op", "commit"} THEN pwrite[p].count + 1 ELSE Arrived(p)

(* Slots p has been let into, those of the tail included. *)
Granted(p) ==
  IF ppc[p] \in {"copy", "commit_op", "commit"}
  THEN pwrite[p].count + 1 ELSE pwrite[p].count

(* Tiles c knows to be there. *)
Seen(c) ==
  IF cpc[c] = "mma" \/ (cpc[c] = "wait" /\ ctoken[c])
  THEN cread[c].count + 1 ELSE cread[c].count

Released(c) == crelease[c].count

Loading == {"acquire", "copy", "commit_op", "commit"}
Reading == {"try", "wait", "mma"}
Working == Reading \cup {"gmma_wait", "release", "tail", "tail_release", "epilogue"}

(* Where a producer's cursors stand. *)
ProducerCursors(p) ==
  /\ pstate[p] = StateAt(1, TileStart[pwork[p]])
  /\ pwrite[p] = StateAt(1, pwrite[p].count)
  /\ ppc[p] = "fetch" => pwrite[p].count = TileStart[pwork[p]]
  /\ ppc[p] \in Loading =>
       /\ pwork[p] <= NumWork /\ pleft[p] > 0
       /\ pwrite[p].count + pleft[p] = TileStart[pwork[p] + 1]
  /\ ppc[p] = "tail" =>
       /\ pwork[p] = NumWork + 1 /\ pleft[p] > 0
       /\ pwrite[p].count >= Total
       /\ pwrite[p].count + pleft[p] = Total + Stages
  /\ ppc[p] = "exit" => pwrite[p].count = Total + Stages
  /\ landed[p] <= Committed(p)

(* Where a consumer's cursors stand, and what it has in flight. *)
ConsumerCursors(c) ==
  LET start == TileStart[cwork[c]]
      end   == TileStart[cwork[c] + 1]
      read  == cread[c].count
  IN  /\ cstate[c] = StateAt(0, start)
      /\ cread[c] = StateAt(0, read)
      /\ crelease[c] = StateAt(0, Released(c))
      /\ mmas[c] + Released(c) <= read
      /\ start <= Released(c)
      /\ cpc[c] = "fetch" => read = start /\ Released(c) = start
      /\ cpc[c] = "exit" =>
           cwork[c] = NumWork + 1 /\ read = start /\ Released(c) = start
      /\ cpc[c] \in Working => cwork[c] <= NumWork
      /\ cpc[c] \in Reading =>
           /\ cprologue[c] > 0 \/ cleft[c] > 0
           /\ read + cprologue[c] + cleft[c] = end
           /\ Released(c) + Prologue(cwork[c]) + cleft[c] = end
      /\ cpc[c] \in {"gmma_wait", "release"} =>
           /\ cprologue[c] = 0 /\ cleft[c] > 0
           /\ read + cleft[c] = end + 1
           /\ Released(c) + Prologue(cwork[c]) + cleft[c] = end
      /\ cpc[c] = "release" => mmas[c] <= K_PIPE_MMAS
      /\ cpc[c] = "tail" => read = end /\ Released(c) + Prologue(cwork[c]) = end
      /\ cpc[c] = "tail_release" =>
           /\ mmas[c] = 0 /\ cprologue[c] > 0
           /\ read = end /\ Released(c) + cprologue[c] = end
      /\ cpc[c] = "epilogue" => mmas[c] = 0 /\ read = end /\ Released(c) = end

(* Arrivals the current phase of slot s still waits for: the producers'    *)
(* own, and those tied to copies that have not landed.                     *)
OwnArrivals(s) == {p \in Producers : Visits(Arrived(p), s) = full[s].phase}
CopyArrivals(s) == {p \in Producers : Visits(landed[p], s) < Visits(Committed(p), s)}

FullBarrier(s) ==
  /\ full[s].count = Cardinality(Producers)
  /\ full[s].pending = Cardinality(OwnArrivals(s)) + Cardinality(CopyArrivals(s))
  /\ full[s].pending > 0
  /\ \A p \in Producers : full[s].phase <= Visits(landed[p], s)
  /\ \A p \in Producers : full[s].phase <= Visits(Arrived(p), s)
  /\ \A c \in Consumers : Visits(Seen(c), s) <= full[s].phase

MissingReleases(s) == {c \in Consumers : Visits(Released(c), s) = empty[s].phase}

EmptyBarrier(s) ==
  /\ empty[s].count = Cardinality(Consumers)
  /\ empty[s].pending = Cardinality(MissingReleases(s))
  /\ empty[s].pending > 0
  /\ \A c \in Consumers : empty[s].phase <= Visits(Released(c), s)
  /\ \A p \in Producers : Visits(Granted(p), s) <= empty[s].phase + 1

(* The shares of the tiles that landed and were not yet overwritten. *)
SlotContents ==
  \A p \in Producers : \A n \in 0 .. landed[p] - 1 :
    Begun(p) <= n + Stages => smem[SlotOf(n)][p] = n

(* What has been accumulated for the current work tile. *)
Accumulated ==
  \A c \in Consumers : cpc[c] \in Working =>
    accum[c] = TileStart[cwork[c]] .. cread[c].count - mmas[c] - 1

IInv ==
  /\ TypeOK
  /\ \A p \in Producers : ProducerCursors(p)
  /\ \A c \in Consumers : ConsumerCursors(c)
  /\ \A s \in Index : FullBarrier(s) /\ EmptyBarrier(s)
  /\ SlotContents
  /\ Accumulated
=============================================================================
