--------------------------- MODULE TmaEpilogueInv ---------------------------
(***************************************************************************)
(* The inductive invariant of TmaEpilogue.  For slot i of the load         *)
(* pipeline, lane l and math thread t,                                     *)
(*     empty.phase <= slots freed by t <= waits of t <= full.phase         *)
(*         <= commits of l, loads landed <= slots acquired by l            *)
(*         <= empty.phase + 1                                              *)
(* and with it, where the pieces of C and D are: a piece of C from the     *)
(* load until its thread has read it, a piece of D from the write until    *)
(* its store has read it.                                                  *)
(***************************************************************************)
EXTENDS TmaEpilogue

(* The slots a lane was let into, those of load_tail included, and those   *)
(* it arrived at.                                                          *)
Acquired(l) == IF lpc[l] \in {"copy", "expect", "commit"} THEN lstate[l].count + 1
               ELSE lstate[l].count
Committed(l) == IF lstate[l].count < NumSubtiles THEN lstate[l].count ELSE NumSubtiles

(* Loads that the elected lane issued, and that it announced. *)
LoadsIssued == IF lpc[leader] \in {"expect", "commit"} THEN Committed(leader) + 1
               ELSE Committed(leader)
Announced == IF lpc[leader] = "commit" THEN Committed(leader) + 1 ELSE Committed(leader)

(* Loads that landed in a slot: at most the last one has not. *)
Landed(i) == IF \E x \in loading : x[2] = i THEN C!Visits(LoadsIssued, i) - 1
             ELSE C!Visits(LoadsIssued, i)

(* Subtiles of C that a thread knows to be there, that it has read, and    *)
(* whose slots it has given back.                                          *)
Waited(t) == IF ~LoadNeeded THEN 0
             ELSE IF tpc[t] \in {"begin", "wait", "tail", "exit"} THEN sub[t]
             ELSE sub[t] + 1
ReadCount(t) == IF tpc[t] \in {"begin", "wait", "read", "tail", "exit"} THEN sub[t]
                ELSE sub[t] + 1
Freed(t) == IF LoadNeeded THEN rstate[t].count ELSE 0

(* Subtiles of D that a thread wrote, and whose stores it counted. *)
Wrote(t) == IF written[t] THEN sub[t] + 1 ELSE sub[t]
Stored(t) == sstate[t].count

(* Where a lane stands. *)
LaneCursor(l) ==
  LET n == lstate[l].count IN
  /\ lstate[l] = C!StateAt(1, n)
  /\ ~LoadNeeded => lpc[l] = "exit" /\ n = 0
  /\ lpc[l] \in {"copy", "expect"} => l = leader
  /\ lpc[l] \in {"copy", "expect", "commit"} => n < NumSubtiles
  /\ n <= NumSubtiles + IF l = leader THEN StagesC ELSE 0
  /\ lpc[l] = "exit" /\ LoadNeeded => n = NumSubtiles + IF l = leader THEN StagesC ELSE 0

(* The loads and waits of a thread. *)
SourceCursor(t) ==
  /\ tpc[t] \in {"wait", "read", "free"} => LoadNeeded
  /\ LoadNeeded /\ tpc[t] \notin {"begin", "tail", "exit"} => wstate[t] = C!StateAt(0, ReadCount(t))
  /\ tpc[t] = "free" => ~ReuseSmemC

(* The stores of a thread: delayed ones are those of the subtile before. *)
StoreCursor(t) ==
  /\ sstate[t] = D!StateAt(1, Stored(t))
  /\ sub[t] <= NumSubtiles
  /\ tpc[t] \notin {"begin", "tail", "exit"} => sub[t] < NumSubtiles
  /\ tpc[t] \in {"tail", "exit"} => sub[t] = NumSubtiles
  /\ tpc[t] = "begin" => FirstOfTile(sub[t])
  /\ written[t] => /\ tpc[t] \in {"sync", "issue", "acquire", "resync", "finish"}
                   /\ DelayTmaStore => LastOfTile(sub[t])
  /\ tpc[t] \in {"sync", "issue", "acquire", "resync", "finish"} /\ ~written[t] =>
       DelayTmaStore /\ ~FirstOfTile(sub[t])
  /\ Stored(t) = IF tpc[t] \in {"sync", "issue"} THEN Subject(t)
                 ELSE IF tpc[t] \in {"acquire", "resync", "finish"} THEN Subject(t) + 1
                 ELSE IF DelayTmaStore /\ tpc[t] \in {"wait", "read", "free"} /\ ~FirstOfTile(sub[t])
                 THEN sub[t] - 1
                 ELSE sub[t]
  /\ issued[t] = IF tpc[t] \in {"tail", "exit"} THEN 0 ELSE Stored(t)
  /\ tpc[t] = "acquire" => t = issuer

(* The slots a thread gave back: with ReuseSmemC those of the stores that  *)
(* are known to be finished.                                               *)
FreeCursor(t) ==
  LET finished == IF tpc[t] \in {"acquire", "resync", "finish"} THEN Stored(t) - 1 ELSE Stored(t)
      freed == rstate[t].count
  IN  /\ rstate[t] = C!StateAt(0, freed)
      /\ tpc[t] \notin {"tail", "exit"} =>
           freed = IF ReuseSmemC
                   THEN (IF finished < UnacquiredStages THEN 0 ELSE finished - UnacquiredStages)
                   ELSE IF ~LoadNeeded THEN 0
                   ELSE IF tpc[t] \in {"begin", "wait", "read", "free"} THEN sub[t] ELSE sub[t] + 1
      /\ left[t] <= UnacquiredStages
      /\ tpc[t] \in {"tail", "exit"} /\ LoadNeeded => freed + left[t] = NumSubtiles
      /\ tpc[t] = "exit" \/ ~LoadNeeded => left[t] = 0

(* The named barrier lets the threads through together, twice per store. *)
Passed(t) == IF tpc[t] = "issue" THEN 2 * Stored(t) + 1
             ELSE IF tpc[t] \in {"acquire", "resync"} THEN 2 * Stored(t) - 1
             ELSE 2 * Stored(t)
InStep == \A t, u \in Threads : Passed(t) = Passed(u)

(* The current phase of the full barrier waits for the lanes that have not *)
(* committed the slot since, and for the bytes announced and not landed.   *)
FullBarrier(i) ==
  LET b == full[i] IN
  /\ b.count = Cardinality(Lanes)
  /\ b.pending = Cardinality({l \in Lanes : C!Visits(Committed(l), i) = b.phase})
  /\ b.tx = C!Visits(Announced, i) - Landed(i)
  /\ ~(b.pending = 0 /\ b.tx = 0)
  /\ \A l \in Lanes : b.phase <= C!Visits(Committed(l), i)
  /\ b.phase <= Landed(i)
  /\ \A t \in Threads : C!Visits(Waited(t), i) <= b.phase

(* The current phase of the empty barrier waits for the threads that have  *)
(* not given the slot back, and no lane is more than a round ahead.        *)
EmptyBarrier(i) ==
  /\ CountedBy(empty[i], Threads, [t \in Threads |-> C!Visits(Freed(t), i)])
  /\ \A l \in Lanes : C!Visits(Acquired(l), i) <= empty[i].phase + 1

(* The loads in flight are the last ones of their slots. *)
LoadsInFlight ==
  \A x \in loading : /\ x = <<x[1], x[1] % StagesC>> /\ x[1] \in Nat
                     /\ x[1] < LoadsIssued /\ LoadsIssued <= x[1] + StagesC

(* The stores in flight are the issuer's last ones, one less after it has  *)
(* waited; none when it leaves.                                            *)
StoresInFlight ==
  /\ \A x \in storing :
       /\ x = <<x[1], x[1], SlotD(x[1] % StoreStages)>> /\ x[1] \in Nat
       /\ x[1] < Stored(issuer)
       /\ Stored(issuer) <= x[1] + IF tpc[issuer] = "acquire" THEN StagesD ELSE UnacquiredStages
  /\ tpc[issuer] \in {"tail", "exit"} => storing = {}

(* C and D have the same layout wherever they share the slots. *)
SameLayout == ReuseSmemC => \A t \in Threads : DPlace[t] = t

(* A thread's piece of C is in its slot from when it has landed until the  *)
(* thread has read it.                                                     *)
SourcesAreThere ==
  \A t \in Threads : \A n \in Nat :
    ReadCount(t) <= n /\ n < LoadsIssued /\ <<n, n % StagesC>> \notin loading
    => smem[SlotC(n % StagesC)][t] = <<"C", n>>

(* Subtiles of D that must be in shared memory, as far as thread t wrote   *)
(* them: not yet stored, or being stored.                                  *)
Live(t, n) == \/ Stored(issuer) <= n /\ n < Wrote(t)
              \/ \E x \in storing : x[1] = n
ResultsAreThere ==
  \A t \in Threads : \A n \in Nat :
    Live(t, n) => smem[SlotD(n % StoreStages)][DPlace[t]] = <<"D", n>>

Shape ==
  /\ policy \in Policies
  /\ full \in [C!Index -> [count : Nat, pending : Nat, tx : Int, phase : Nat]]
  /\ empty \in [C!Index -> Barrier]
  /\ DOMAIN smem = Slots /\ \A s \in Slots : DOMAIN smem[s] = Threads
  /\ lpc \in [Lanes -> {"next", "copy", "expect", "commit", "exit"}]
  /\ lstate \in [Lanes -> C!Cursor]
  /\ tpc \in [Threads -> {"begin", "wait", "read", "free", "write", "sync", "issue", "acquire",
                          "resync", "finish", "tail", "exit"}]
  /\ sub \in [Threads -> Nat] /\ written \in [Threads -> BOOLEAN]
  /\ wstate \in [Threads -> C!Cursor] /\ rstate \in [Threads -> C!Cursor]
  /\ sstate \in [Threads -> D!Cursor]
  /\ issued \in [Threads -> Nat] /\ left \in [Threads -> Nat]

IInv ==
  /\ Shape
  /\ \A l \in Lanes : LaneCursor(l)
  /\ \A t \in Threads : SourceCursor(t) /\ StoreCursor(t) /\ FreeCursor(t)
  /\ InStep
  /\ \A i \in C!Index : FullBarrier(i) /\ EmptyBarrier(i)
  /\ LoadsInFlight /\ StoresInFlight
  /\ SameLayout => SourcesAreThere
  /\ ResultsAreThere
=============================================================================
