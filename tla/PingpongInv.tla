---------------------------- MODULE PingpongInv ----------------------------
(***************************************************************************)
(* The inductive invariant of Pingpong, in layers: the order in which the  *)
(* groups take their turns; where each warp's cursors stand; the mainloop  *)
(* pipeline; the epilogue load pipeline; what is in shared memory; and     *)
(* what the tensor maps are for.  Each layer is inductive given those      *)
(* before it.                                                              *)
(***************************************************************************)
EXTENDS Pingpong

(* A group is in its turn to multiply, or in its turn for the epilogue. *)
MmaSection == {"wait", "mma", "release", "pass"}
EpilogueSection == {"source", "read", "write", "acquire", "stored", "drain", "hand"}

-----------------------------------------------------------------------------
(***************************************************************************)
(* 1. The turns.  Group w computes the tiles w + 1, w + 3, ...             *)
(***************************************************************************)

(* The group has passed the turn to multiply its tile. *)
Late(w) == IF wpc[w] \in {"tail", "turn"} \cup EpilogueSection THEN 1 ELSE 0
Round(w) == (tile[w] - w - 1) \div 2

(* Turns that the group has passed on, and the one that it is in. *)
Passed(w) == 2 * Round(w) + Late(w)
InTurn(w) == IF wpc[w] \in MmaSection \cup EpilogueSection THEN 1 ELSE 0

OrderInv ==
  /\ kernel \in Kernels
  /\ wpc \in [WarpGroups -> {"order", "tail", "turn", "exit"} \cup MmaSection \cup EpilogueSection]
  /\ tile \in [WarpGroups -> Nat]
  /\ \A w \in WarpGroups :
       /\ tile[w] = 2 * Round(w) + w + 1 /\ Round(w) \in Nat
       /\ wpc[w] \notin {"order", "exit"} => IsValid(tile[w])
       /\ wpc[w] = "exit" => ~IsValid(tile[w])
       /\ tile[w] <= NumTiles + 2
  /\ turn = [w \in WarpGroups |->
       [index |-> Late(w), phase |-> (1 - w + Round(w)) % 2, count |-> Passed(w)]]
  /\ mathorder = [s \in {0, 1} |-> [g \in WarpGroups |->
       [count |-> 1, pending |-> 1,
        phase |-> Round(1 - g) + IF s = 0 THEN Late(1 - g) ELSE 0]]]
  /\ Passed(1) + InTurn(1) <= Passed(0)
  /\ Passed(0) + InTurn(0) <= Passed(1) + 2

-----------------------------------------------------------------------------
(***************************************************************************)
(* 2. The cursors of the mainloop.                                         *)
(***************************************************************************)
Start(t) == kernel.start[t]

ConsumerCursor(w) ==
  LET m == mstate[w].count  r == read[w].count  t == tile[w] IN
  /\ mstate[w] = K!StateAt(0, m) /\ m \in Nat
  /\ read[w] = K!StateAt(0, r) /\ r \in Nat
  /\ wpc[w] = "order" /\ IsValid(t) => m = Start(t)
  /\ wpc[w] \in MmaSection \cup {"tail"} => m = Start(t)
  /\ wpc[w] \in {"turn", "source", "read", "write", "acquire", "stored"} =>
       IF kernel.Array THEN m = Start(t + 1) ELSE IsValid(t + 2) => m = Start(t + 2)
  /\ wpc[w] \in {"drain", "hand"} => (IsValid(t + 2) => m = Start(t + 2))
  /\ wpc[w] \in {"wait", "mma"} => Start(t) <= r /\ r < Start(t + 1)
  /\ wpc[w] = "release" => Start(t) < r /\ r <= Start(t + 1)
  /\ wpc[w] \in {"pass", "tail"} => r = Start(t + 1)

ProducerCursor ==
  LET p == pstate.count  a == pwrite.count IN
  /\ ppc \in {"fetch", "load", "loaded", "remap", "advance", "tail", "exit"}
  /\ ptile \in 1 .. NumTiles + 1
  /\ pstate = K!StateAt(1, p) /\ p \in Nat
  /\ pwrite = K!StateAt(1, a) /\ a \in Nat
  /\ ppc = "fetch" => p = Start(ptile) /\ a = Start(ptile)
  /\ ppc = "load" => IsValid(ptile) /\ p = Start(ptile) /\ p <= a /\ a < Start(ptile + 1)
  /\ ppc = "loaded" => IsValid(ptile) /\ p = Start(ptile) /\ a = Start(ptile + 1)
  /\ ppc \in {"remap", "advance"} => a = Start(ptile) /\ p = a - 1 /\ a > 0
  /\ ppc = "remap" => IsValid(ptile)
  /\ ppc \in {"tail", "exit"} =>
       ptile = NumTiles + 1 /\ p = Start(ptile) /\ p <= a /\ a <= p + Stages

CursorInv ==
  /\ ProducerCursor
  /\ mstate \in [WarpGroups -> K!Cursor] /\ read \in [WarpGroups -> K!Cursor]
  /\ \A w \in WarpGroups : ConsumerCursor(w)

-----------------------------------------------------------------------------
(***************************************************************************)
(* 3. The mainloop pipeline.  k tiles before Waited have been waited for,  *)
(* by the groups in their turns; of those the groups hold some.            *)
(***************************************************************************)
Larger(a, b) == IF a < b THEN b ELSE a

(* The k tiles up to which a group waited, as far as it knows. *)
WaitedBy(w) ==
  CASE wpc[w] \in {"wait", "release", "pass", "tail"} -> read[w].count
    [] wpc[w] = "mma" -> read[w].count + 1
    [] wpc[w] \in {"order", "exit"} -> IF tile[w] = 1 THEN 0 ELSE Start(tile[w] - 1)
    [] OTHER -> Start(tile[w] + 1)
Waited == Larger(WaitedBy(0), WaitedBy(1))

(* The first of the k tiles that a group waited for and has not released *)
HeldFrom(w) ==
  LET r == read[w].count  b == Start(tile[w]) IN
  CASE wpc[w] \in {"wait", "mma"} -> IF r = b THEN r ELSE r - 1
    [] wpc[w] = "release" -> IF r = b + 1 THEN r - 1 ELSE r - 2
    [] wpc[w] \in {"pass", "tail"} -> r - 1
    [] OTHER -> WaitedBy(w)
HeldBy(w, n) == HeldFrom(w) <= n /\ n < WaitedBy(w)
Held(n) == HeldBy(0, n) \/ HeldBy(1, n)

FullBarrier(i) ==
  LET flying == K!Visits(LoadsIssued, i) # K!Visits(landed, i) IN
  full[i] = [count |-> 1, pending |-> IF flying THEN 0 ELSE 1, tx |-> IF flying THEN 1 ELSE 0,
             phase |-> K!Visits(landed, i)]
EmptyBarrier(i) ==
  LET held == \E n \in Nat : Held(n) /\ n % Stages = i IN
  empty[i] = [count |-> 1, pending |-> 1,
              phase |-> K!Visits(Waited, i) - IF held THEN 1 ELSE 0]

MainloopInv ==
  /\ DOMAIN full = K!Index /\ \A i \in K!Index : FullBarrier(i)
  /\ DOMAIN empty = K!Index /\ \A i \in K!Index : EmptyBarrier(i)
  /\ landed \in Nat
  /\ Waited <= landed /\ landed <= LoadsIssued /\ pwrite.count <= Waited + Stages
  /\ \A n \in Nat : Held(n) => pwrite.count <= n + Stages

-----------------------------------------------------------------------------
(***************************************************************************)
(* 4. The cursors of the epilogue.                                         *)
(***************************************************************************)

(* Subtiles before tile t *)
Base(t) == (t - 1) * Subtiles

(* Stores of its tile that a group issued, and that it then waited on. *)
Stored(w) == CASE wpc[w] \in {"source", "read", "write"} -> sub[w]
               [] wpc[w] \in {"acquire", "stored", "drain"} -> sub[w] + 1
               [] OTHER -> 0
StoresWaited(w) == IF wpc[w] \in {"stored", "drain"} THEN sub[w] + 1 ELSE sub[w]

(* Slots of its tile that the group gave back: with reuse those of the     *)
(* stores it knows to be finished.                                         *)
Returned(w) ==
  IF ReuseSmemC
  THEN IF StoresWaited(w) < UnacquiredStages THEN 0 ELSE StoresWaited(w) - UnacquiredStages
  ELSE IF wpc[w] \in {"source", "read"} THEN sub[w] ELSE sub[w] + 1

EpilogueCursor(w) ==
  LET c == rstate[w].count  t == tile[w] IN
  /\ sub[w] \in 0 .. Subtiles - 1
  /\ wpc[w] \in {"stored", "drain"} => sub[w] + 1 = Subtiles
  /\ wpc[w] \in {"source", "read"} => kernel.LoadNeeded
  /\ issued[w] = Stored(w)
  /\ sstate[w] = D!StateAt(1, IF wpc[w] = "hand" THEN Base(t + 2) ELSE Base(t) + Stored(w))
  /\ rstate[w] = C!StateAt(0, c) /\ c \in Nat
  /\ kernel.LoadNeeded =>
       c = IF wpc[w] = "hand" THEN Base(t + 2)
           ELSE IF wpc[w] \in EpilogueSection THEN Base(t) + Returned(w)
           ELSE Base(t)
  /\ wpc[w] \in {"source", "read"} => wait[w] = C!StateAt(0, Subtile(w))
  /\ wpc[w] \in {"write", "acquire"} /\ kernel.LoadNeeded => wait[w] = C!StateAt(0, Subtile(w) + 1)

SourceCursor ==
  LET e == estate.count IN
  /\ epc \in {"order", "load", "remap", "exit"}
  /\ etile \in 1 .. NumTiles + 1
  /\ estate = C!StateAt(1, e) /\ e \in Nat
  /\ ~kernel.LoadNeeded => epc = "exit" /\ e = 0
  /\ epc = "order" => etile = 1 /\ e = 0
  /\ epc = "load" /\ IsValid(etile) => Base(etile) <= e /\ e < Base(etile + 1)
  /\ epc = "remap" => IsValid(etile + 1) /\ e = Base(etile + 1)
  /\ epc = "load" /\ ~IsValid(etile) => Base(NumTiles + 1) <= e /\ e <= Base(NumTiles + 1) + StagesC

EpilogueCursorInv ==
  /\ SourceCursor
  /\ sub \in [WarpGroups -> Nat] /\ issued \in [WarpGroups -> Nat]
  /\ sstate \in [WarpGroups -> D!Cursor]
  /\ rstate \in [WarpGroups -> C!Cursor] /\ wait \in [WarpGroups -> C!Cursor]
  /\ \A w \in WarpGroups : EpilogueCursor(w)

-----------------------------------------------------------------------------
(***************************************************************************)
(* 5. The epilogue load pipeline.  Subtiles of C whose slots are given     *)
(* back, that are read, that are waited for: of them a group knows those   *)
(* of the tiles up to its own.                                             *)
(***************************************************************************)
Earlier(t) == IF t = 1 THEN 0 ELSE Base(t - 1)

SourcesBy(w, n) ==
  IF ~kernel.LoadNeeded THEN 0
  ELSE IF wpc[w] = "hand" THEN Base(tile[w] + 1)
  ELSE IF wpc[w] \in EpilogueSection THEN n
  ELSE Earlier(tile[w])

FreedBy(w) == SourcesBy(w, rstate[w].count)
ReadBy(w) == SourcesBy(w, Subtile(w) + IF wpc[w] \in {"source", "read"} THEN 0 ELSE 1)
AwaitedBy(w) == SourcesBy(w, Subtile(w) + IF wpc[w] = "source" THEN 0 ELSE 1)

Freed == Larger(FreedBy(0), FreedBy(1))
Consumed == Larger(ReadBy(0), ReadBy(1))
Awaited == Larger(AwaitedBy(0), AwaitedBy(1))

SourceFull(i) ==
  LET flying == C!Visits(SourcesIssued, i) # C!Visits(clanded, i) IN
  cfull[i] = [count |-> 1, pending |-> IF flying THEN 0 ELSE 1, tx |-> IF flying THEN 1 ELSE 0,
              phase |-> C!Visits(clanded, i)]
SourceEmpty(i) == cempty[i] = [count |-> 1, pending |-> 1, phase |-> C!Visits(Freed, i)]

SourceInv ==
  /\ DOMAIN cfull = C!Index /\ \A i \in C!Index : SourceFull(i)
  /\ DOMAIN cempty = C!Index /\ \A i \in C!Index : SourceEmpty(i)
  /\ clanded \in Nat
  /\ Awaited <= clanded /\ clanded <= SourcesIssued /\ estate.count <= Freed + StagesC

-----------------------------------------------------------------------------
(***************************************************************************)
(* 6. Shared memory of the epilogue.                                       *)
(***************************************************************************)

(* A store that still reads is one of the last of a group in its turn. *)
StoreInFlight(x) ==
  LET w == x[1]  n == x[2] IN
  /\ x = <<w, n, SlotD(n % StoreStages)>> /\ w \in WarpGroups /\ n \in Nat
  /\ wpc[w] \in EpilogueSection \ {"hand"}
  /\ Base(tile[w]) <= n /\ n < Base(tile[w]) + Stored(w)
  /\ Base(tile[w]) + Stored(w) <= n + IF wpc[w] = "acquire" THEN StagesD ELSE UnacquiredStages

MemoryInv ==
  /\ DOMAIN smem = EpilogueSlots
  /\ \A x \in storing : StoreInFlight(x) /\ smem[SlotD(x[2] % StoreStages)] = <<"D", x[2]>>
  /\ \A n \in Nat : Consumed <= n /\ n < clanded => smem[SlotC(n % StagesC)] = <<"C", n>>

-----------------------------------------------------------------------------
(***************************************************************************)
(* 7. The tensor maps.                                                     *)
(***************************************************************************)
MapsInv ==
  /\ DOMAIN maps = {"AB", "C", "D"}
  /\ ppc \in {"fetch", "load", "loaded", "advance"} /\ IsValid(ptile) => maps.AB = kernel.batch[ptile]
  /\ epc \in {"order", "load"} /\ IsValid(etile) => maps.C = kernel.batch[etile]
  /\ \A n \in Nat : landed <= n /\ n < LoadsIssued =>
       \E t \in 1 .. NumTiles : Start(t) <= n /\ n < Start(t + 1) /\ kernel.batch[t] = maps.AB
  /\ \A n \in Nat : clanded <= n /\ n < SourcesIssued => kernel.batch[(n \div Subtiles) + 1] = maps.C

IInv == OrderInv /\ CursorInv /\ MainloopInv /\ EpilogueCursorInv /\ SourceInv /\ MemoryInv /\ MapsInv
=============================================================================
