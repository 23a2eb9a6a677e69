---------------------------- MODULE SplitKProofs ----------------------------
(***************************************************************************)
(* Serial split-K, for every grid, every number of slices, of resident     *)
(* blocks and of launches: types, and that the sums are whole.             *)
(***************************************************************************)
EXTENDS SplitK, TLAPS

(* The block has the turn on its tile. *)
HasTurn(b) == pc[b] \in {"load", "store", "release"}

(* No slice of the tile is missing. *)
Ended(t) == \A b \in Working : TileOf(b) = t => pc[b] = "exit"

(* A block without a tile never gets to a semaphore. *)
IdleBlocks == \A b \in Blocks : b \notin Working => pc[b] \in {"pending", "start", "exit"}

(* The semaphore of a tile is the number of the block whose turn it is:    *)
(* what a block has fetched, or goes by, is still true.                    *)
TurnIsTrue ==
  \A b \in Working :
    HasTurn(b) \/ (pc[b] = "wait" /\ state[b] = b.z) => Lock(b) = b.z

(* The blocks of the slices below it have ended, and only those, until all *)
(* have.                                                                   *)
EndedInOrder ==
  /\ \A b \in Working : b.z < Lock(b) => pc[b] = "exit"
  /\ \A b \in Working : pc[b] = "exit" => b.z < Lock(b) \/ Ended(TileOf(b))
  /\ \A t \in Tiles : Ended(t) => lock[BlockIdx(t)] = 0

(* A tile holds the slices that are done, and a source those below.        *)
SumsSoFar ==
  /\ \A b \in Working : pc[b] = "store" => source[b] = Sum(grid, b.z)
  /\ \A b \in Working : pc[b] = "release" => D[TileOf(b)] = Sum(grid, b.z + 1)
  /\ \A t \in Tiles :
       /\ lock[BlockIdx(t)] > 0
       /\ \A b \in Working : TileOf(b) = t => pc[b] # "release"
       => D[t] = Sum(grid, lock[BlockIdx(t)])
  /\ \A t \in Tiles : grid > 0 /\ Ended(t) => D[t] = Sum(grid, Slices)

(* The inductive invariant. *)
IInv == TypeOK /\ IdleBlocks /\ TurnIsTrue /\ EndedInOrder /\ SumsSoFar

-----------------------------------------------------------------------------
(* The swizzle is one of four widths. *)
LEMMA TileWidths == TileWidth \in {1, 2, 4, 8}
  BY SplitKAssumption DEF TileWidth

(* The fields of a block are numbers of the grid. *)
LEMMA BlockType ==
  \A b \in Blocks : b.x \in Nat /\ b.y \in Nat /\ b.z \in 0 .. Slices - 1 /\ b.z \in Nat
  BY TileWidths, SplitKAssumption DEF Blocks

(* Quotient and remainder, for these widths.                               *)
LEMMA Division ==
  ASSUME NEW w \in {1, 2, 4, 8}, NEW n \in Nat
  PROVE  n = (n \div w) * w + (n % w) /\ n % w \in 0 .. w - 1 /\ n \div w \in Nat
<1>1. CASE w = 1  BY <1>1
<1>2. CASE w = 2  BY <1>2
<1>3. CASE w = 4  BY <1>3
<1>4. CASE w = 8  BY <1>4
<1>5. QED  BY <1>1, <1>2, <1>3, <1>4

(* Quotient and remainder are unique, for these widths. *)
LEMMA DivisionUnique ==
  ASSUME NEW w \in {1, 2, 4, 8}, NEW i \in Nat, NEW j \in Nat,
         NEW r \in 0 .. w - 1, NEW s \in 0 .. w - 1, i * w + r = j * w + s
  PROVE  i = j /\ r = s
<1>1. CASE w = 1  BY <1>1
<1>2. CASE w = 2  BY <1>2
<1>3. CASE w = 4  BY <1>3
<1>4. CASE w = 8  BY <1>4
<1>5. QED  BY <1>1, <1>2, <1>3, <1>4

(* No two blocks compute the same slice of the same tile                   *)
(* (get_tile_offset).                                                      *)
LEMMA SwizzleInjective ==
  ASSUME NEW a \in Blocks, NEW b \in Blocks, TileOf(a) = TileOf(b), a.z = b.z
  PROVE  a = b
<1> DEFINE w == TileWidth
<1> HIDE DEF w
<1>1. a.x \div w = b.x \div w /\ a.y * w + (a.x % w) = b.y * w + (b.x % w)
  BY DEF TileOf, w
<1>2. w \in {1, 2, 4, 8} /\ a.x \in Nat /\ a.y \in Nat /\ b.x \in Nat /\ b.y \in Nat
  BY TileWidths, BlockType DEF w
<1>3. a.x % w \in 0 .. w - 1 /\ b.x % w \in 0 .. w - 1
      /\ a.x = (a.x \div w) * w + (a.x % w) /\ b.x = (b.x \div w) * w + (b.x % w)
  BY <1>2, Division
<1>4. a.y = b.y /\ a.x % w = b.x % w
  <2> DEFINE r == a.x % w
             s == b.x % w
             i == a.y
             j == b.y
  <2>1. r \in 0 .. w - 1 /\ s \in 0 .. w - 1 /\ i * w + r = j * w + s /\ i \in Nat /\ j \in Nat
    BY <1>1, <1>2, <1>3
  <2> HIDE DEF r, s, i, j
  <2>2. i = j /\ r = s
    BY <1>2, <2>1, DivisionUnique
  <2>3. QED  BY <2>2 DEF r, s, i, j
<1>5. a.x = b.x
  BY <1>1, <1>3, <1>4
<1>6. QED  BY <1>4, <1>5 DEF Blocks

(* Every slice of every tile has a block (get_grid_shape and               *)
(* get_tile_offset).                                                       *)
LEMMA SwizzleCovers ==
  ASSUME NEW t \in Tiles, NEW z \in 0 .. Slices - 1
  PROVE  \E b \in Working : TileOf(b) = t /\ b.z = z
<1> DEFINE w == TileWidth
           b == [x |-> t.m * w + (t.n % w), y |-> t.n \div w, z |-> z]
<1>1. t.m \in 0 .. M - 1 /\ t.n \in 0 .. N - 1 /\ t = [m |-> t.m, n |-> t.n]
  BY DEF Tiles
<1> DEFINE r == t.n % w
           k == t.n \div w
           rows == (N + w - 1) \div w
<1>w. w \in {1, 2, 4, 8} /\ M \in Nat /\ N \in Nat  BY TileWidths, SplitKAssumption
<1>2. /\ b.x \in 0 .. M * w - 1 /\ b.y \in 0 .. rows - 1
      /\ b.x \div w = t.m /\ b.y * w + (b.x % w) = t.n
  <2> HIDE DEF w
  <2>1. k \in Nat /\ r \in 0 .. w - 1 /\ t.n = k * w + r
    BY <1>w, <1>1, Division
  <2>2. N + w - 1 \in Nat  BY <1>w
  <2>3. rows \in Nat /\ N + w - 1 = rows * w + ((N + w - 1) % w)
        /\ (N + w - 1) % w \in 0 .. w - 1
    BY <1>w, <2>2, Division
  <2> HIDE DEF r, k, rows
  <2>4. t.m * w + r \in Nat  BY <1>w, <1>1, <2>1
  <2>5. (t.m * w + r) \div w = t.m /\ (t.m * w + r) % w = r
    <3> DEFINE x == t.m * w + r
    <3>1. x \div w \in Nat /\ x % w \in 0 .. w - 1 /\ x = (x \div w) * w + (x % w)
      BY <1>w, <2>4, Division
    <3> HIDE DEF x
    <3>2. x = t.m * w + r /\ t.m \in Nat  BY <1>1 DEF x
    <3> DEFINE i == x \div w
               s == x % w
    <3>3. i \in Nat /\ s \in 0 .. w - 1 /\ i * w + s = t.m * w + r  BY <3>1, <3>2
    <3> HIDE DEF i, s
    <3>4. i = t.m /\ s = r  BY <1>w, <2>1, <3>2, <3>3, DivisionUnique
    <3>5. QED  BY <3>4 DEF i, s, x
  <2>6. t.m * w + r <= M * w - 1 /\ k <= rows - 1
    <3>1. CASE w = 1  BY <1>w, <1>1, <2>1, <2>3, <3>1
    <3>2. CASE w = 2  BY <1>w, <1>1, <2>1, <2>3, <3>2
    <3>3. CASE w = 4  BY <1>w, <1>1, <2>1, <2>3, <3>3
    <3>4. CASE w = 8  BY <1>w, <1>1, <2>1, <2>3, <3>4
    <3>5. QED  BY <1>w, <3>1, <3>2, <3>3, <3>4
  <2>7. b.x = t.m * w + r /\ b.y = k  BY DEF r, k
  <2>8. b.x \in 0 .. M * w - 1
    <3>1. M * w \in Nat  BY <1>w
    <3>2. QED  BY <2>4, <2>6, <2>7, <3>1
  <2>9. b.y \in 0 .. rows - 1  BY <2>1, <2>3, <2>6, <2>7
  <2>10. b.x \div w = t.m /\ b.y * w + (b.x % w) = t.n  BY <2>1, <2>5, <2>7
  <2>11. QED  BY <2>8, <2>9, <2>10
<1>3. b \in Blocks  BY <1>2 DEF Blocks
<1>4. TileOf(b) = t  BY <1>1, <1>2 DEF TileOf
<1>5. QED  BY <1>3, <1>4 DEF Working

(* Every tile has a semaphore of its own (block_idx).                      *)
LEMMA BlockIdxInjective ==
  ASSUME NEW s \in Tiles, NEW t \in Tiles
  PROVE  /\ BlockIdx(t) \in 0 .. M * N - 1
         /\ BlockIdx(s) = BlockIdx(t) => s = t
<1>1. /\ s.m \in 0 .. M - 1 /\ s.n \in 0 .. N - 1 /\ t.m \in 0 .. M - 1 /\ t.n \in 0 .. N - 1
      /\ M \in Nat /\ N \in Nat
  BY SplitKAssumption DEF Tiles
<1>2. \A i, j \in Nat : i < j => i * M + M <= j * M
  <2> SUFFICES ASSUME NEW i \in Nat, NEW j \in Nat, i < j PROVE i * M + M <= j * M
    OBVIOUS
  <2>1. (j - i - 1) * M >= 0  BY <1>1
  <2>2. (j - i - 1) * M = j * M - i * M - M  BY <1>1
  <2>3. QED  BY <1>1, <2>1, <2>2
<1>3. t.n * M + M <= N * M  BY <1>1, <1>2
<1>4. BlockIdx(t) \in 0 .. M * N - 1  BY <1>1, <1>3 DEF BlockIdx
<1>5. ASSUME BlockIdx(s) = BlockIdx(t) PROVE s.n = t.n
  <2>1. ~(s.n < t.n)  BY <1>1, <1>2, <1>5 DEF BlockIdx
  <2>2. ~(t.n < s.n)  BY <1>1, <1>2, <1>5 DEF BlockIdx
  <2>3. QED  BY <1>1, <2>1, <2>2
<1>6. ASSUME BlockIdx(s) = BlockIdx(t) PROVE s = t
  <2>1. s.n = t.n  BY <1>5, <1>6
  <2>2. s.m = t.m  BY <1>1, <1>6, <2>1 DEF BlockIdx
  <2>3. QED  BY <2>1, <2>2 DEF Tiles
<1>7. QED  BY <1>4, <1>6

(* One more slice. *)
LEMMA SumAppend ==
  ASSUME NEW g, NEW k \in Nat
  PROVE  /\ Sum(g, 0) = <<>>
         /\ Append(Sum(g, k), <<g, k>>) = Sum(g, k + 1)
  BY DEF Sum

-----------------------------------------------------------------------------
(* The semaphore of a working block is one of the array, and holds the     *)
(* number of a slice.                                                      *)
LEMMA LockType ==
  ASSUME TypeOK, NEW b \in Working
  PROVE  TileOf(b) \in Tiles /\ BlockIdx(TileOf(b)) \in 0 .. M * N - 1
         /\ Lock(b) \in 0 .. Slices - 1
  BY BlockIdxInjective DEF TypeOK, Working, Lock

(* The turn on a tile belongs to one block. *)
LEMMA SameTurnSameBlock ==
  ASSUME NEW a \in Working, NEW b \in Working, TileOf(a) = TileOf(b), a.z = b.z
  PROVE  a = b
  BY SwizzleInjective DEF Working

(* Before the first grid every block has ended and every semaphore is 0.   *)
LEMMA Initially == Init => IInv
<1> SUFFICES ASSUME Init PROVE IInv
  OBVIOUS
<1>1. TypeOK
  BY SplitKAssumption DEF Init, TypeOK
<1>2. \A t \in Tiles : lock[BlockIdx(t)] = 0
  BY BlockIdxInjective DEF Init
<1>3. \A b \in Working : b \in Blocks /\ Lock(b) = 0 /\ pc[b] = "exit" /\ b.z \in Nat
  <2>1. \A b \in Working : b \in Blocks /\ TileOf(b) \in Tiles
    BY DEF Working
  <2>2. \A b \in Working : Lock(b) = 0
    BY <1>2, <2>1 DEF Lock
  <2>3. QED  BY <2>1, <2>2, BlockType DEF Init
<1>4. IdleBlocks
  BY DEF Init, IdleBlocks
<1>5. TurnIsTrue
  BY <1>3 DEF TurnIsTrue, HasTurn
<1>6. EndedInOrder
  BY <1>2, <1>3 DEF EndedInOrder, Ended
<1>7. SumsSoFar
  <2>1. grid = 0  BY DEF Init
  <2>2. QED  BY <1>2, <1>3, <2>1 DEF SumsSoFar
<1>8. QED
  BY <1>1, <1>4, <1>5, <1>6, <1>7 DEF IInv

(* A grid starts: no semaphore has to be cleared. *)
LEMMA RunStep == IInv /\ Run => IInv'
<1> SUFFICES ASSUME IInv, Run PROVE IInv'
  OBVIOUS
<1> USE DEF IInv
<1>1. grid' = grid + 1 /\ lock' = lock /\ D' = D /\ source' = source
      /\ pc' = [b \in Blocks |-> "pending"] /\ state' = [b \in Blocks |-> -1]
      /\ grid < MaxGrids /\ (\A b \in Blocks : pc[b] = "exit")
  BY DEF Run
<1>2. \A t \in Tiles : lock[BlockIdx(t)] = 0
  BY <1>1 DEF EndedInOrder, Ended, Working
<1>3. \A b \in Working : b \in Blocks /\ Lock(b)' = 0 /\ pc'[b] = "pending" /\ b.z \in Nat
  BY <1>1, <1>2, BlockType DEF Working, Lock
<1>4. \A t \in Tiles : ~Ended(t)'
  <2> SUFFICES ASSUME NEW t \in Tiles PROVE ~Ended(t)'
    OBVIOUS
  <2>1. 0 \in 0 .. Slices - 1
    BY SplitKAssumption
  <2>2. PICK b \in Working : TileOf(b) = t
    BY <2>1, SwizzleCovers
  <2>3. QED  BY <1>3, <2>2 DEF Ended
<1>5. TypeOK'
  BY <1>1, SplitKAssumption DEF TypeOK
<1>6. IdleBlocks'
  BY <1>1 DEF IdleBlocks
<1>7. TurnIsTrue'
  BY <1>3 DEF TurnIsTrue, HasTurn
<1>8. EndedInOrder'
  BY <1>3, <1>4 DEF EndedInOrder
<1>9. SumsSoFar'
  BY <1>1, <1>2, <1>3, <1>4 DEF SumsSoFar
<1>10. QED
  BY <1>5, <1>6, <1>7, <1>8, <1>9

-----------------------------------------------------------------------------
(* A step of a block that ends no block, and leaves the memory alone.      *)
Inner(b, here, there) ==
  /\ b \in Blocks /\ pc[b] = here /\ pc' = [pc EXCEPT ![b] = there]
  /\ here # "exit" /\ there # "exit"
  /\ UNCHANGED <<grid, lock, D>>

(* What such a step cannot disturb. *)
LEMMA InnerStep ==
  ASSUME IInv, NEW b \in Blocks, NEW here, NEW there, Inner(b, here, there),
         here # "release", there # "release"
  PROVE  /\ EndedInOrder'
         /\ \A c \in Working : pc'[c] = "release" => D'[TileOf(c)] = Sum(grid', c.z + 1)
         /\ \A t \in Tiles :
              /\ lock'[BlockIdx(t)] > 0
              /\ \A c \in Working : TileOf(c) = t => pc'[c] # "release"
              => D'[t] = Sum(grid', lock'[BlockIdx(t)])
         /\ \A t \in Tiles : grid' > 0 /\ Ended(t)' => D'[t] = Sum(grid', Slices)
<1> USE DEF IInv
<1>1. /\ pc[b] = here /\ pc' = [pc EXCEPT ![b] = there] /\ here # "exit" /\ there # "exit"
      /\ grid' = grid /\ lock' = lock /\ D' = D
  BY DEF Inner
<1>2. Working \subseteq Blocks /\ pc = [c \in Blocks |-> pc[c]]
  BY DEF Working, TypeOK
<1>3. \A c \in Working : /\ pc'[c] = "exit" <=> pc[c] = "exit"
                         /\ pc'[c] = "release" <=> pc[c] = "release"
                         /\ Lock(c)' = Lock(c)
  BY <1>1, <1>2 DEF Lock
<1>4. \A t \in Tiles : Ended(t)' <=> Ended(t)
  BY <1>3 DEF Ended
<1>5. \A c \in Working : TileOf(c) \in Tiles
  BY DEF Working
<1>6. EndedInOrder'
  BY <1>1, <1>3, <1>4, <1>5 DEF EndedInOrder
<1>7. QED
  BY <1>1, <1>3, <1>4, <1>6 DEF SumsSoFar

(* Getting a place on the device disturbs no semaphore. *)
LEMMA DispatchStep ==
  ASSUME IInv, NEW b \in Blocks, Dispatch(b)
  PROVE  IInv'
<1> USE DEF IInv
<1>1. /\ pc[b] = "pending" /\ pc' = [pc EXCEPT ![b] = "start"] /\ grid' = grid /\ lock' = lock
      /\ D' = D /\ state' = state /\ source' = source
      /\ Inner(b, "pending", "start")
  BY DEF Dispatch, Inner
<1>2. TypeOK'
  BY <1>1 DEF TypeOK
<1>3. IdleBlocks'
  BY <1>1 DEF IdleBlocks, TypeOK
<1>4. TurnIsTrue'
  BY <1>1 DEF TurnIsTrue, HasTurn, Lock, Working, TypeOK
<1>5. \A c \in Working : pc'[c] = "store" => source'[c] = Sum(grid', c.z)
  BY <1>1 DEF SumsSoFar, Working, TypeOK
<1>6. QED
  BY <1>1, <1>2, <1>3, <1>4, <1>5, InnerStep DEF SumsSoFar

(* A block without a tile leaves without having waited. *)
LEMMA StartStep ==
  ASSUME IInv, NEW b \in Blocks, Start(b)
  PROVE  IInv'
<1> USE DEF IInv
<1>1. /\ pc[b] = "start" /\ pc' = [pc EXCEPT ![b] = IF b \in Working THEN "fetch" ELSE "exit"]
      /\ grid' = grid /\ lock' = lock /\ D' = D /\ state' = state /\ source' = source
  BY DEF Start
<1>2. TypeOK'
  BY <1>1 DEF TypeOK
<1>3. IdleBlocks'
  BY <1>1 DEF IdleBlocks, TypeOK
<1>4. TurnIsTrue'
  BY <1>1 DEF TurnIsTrue, HasTurn, Lock, Working, TypeOK
<1>5. CASE b \in Working
  <2>1. Inner(b, "start", "fetch")
    BY <1>1, <1>5 DEF Inner
  <2>2. \A c \in Working : pc'[c] = "store" => source'[c] = Sum(grid', c.z)
    BY <1>1, <1>5 DEF SumsSoFar, Working, TypeOK
  <2>3. QED
    BY <1>2, <1>3, <1>4, <2>1, <2>2, InnerStep DEF SumsSoFar
<1>6. CASE b \notin Working
  <2>1. Working \subseteq Blocks /\ pc = [c \in Blocks |-> pc[c]]
    BY DEF Working, TypeOK
  <2>2. \A c \in Working : pc'[c] = pc[c] /\ Lock(c)' = Lock(c)
    BY <1>1, <1>6, <2>1 DEF Lock
  <2>3. \A t \in Tiles : Ended(t)' <=> Ended(t)
    BY <2>2 DEF Ended
  <2>4. EndedInOrder'
    BY <1>1, <2>2, <2>3 DEF EndedInOrder, Working
  <2>5. SumsSoFar'
    BY <1>1, <2>2, <2>3 DEF SumsSoFar
  <2>6. QED
    BY <1>2, <1>3, <1>4, <2>4, <2>5
<1>7. QED
  BY <1>5, <1>6

(* What is fetched is true now. *)
LEMMA FetchStep ==
  ASSUME IInv, NEW b \in Blocks, Fetch(b)
  PROVE  IInv'
<1> USE DEF IInv
<1>1. /\ pc[b] = "fetch" /\ pc' = [pc EXCEPT ![b] = "wait"]
      /\ state' = [state EXCEPT ![b] = Lock(b)]
      /\ grid' = grid /\ lock' = lock /\ D' = D /\ source' = source
      /\ Inner(b, "fetch", "wait")
  BY DEF Fetch, Inner
<1>2. b \in Working
  BY <1>1 DEF IdleBlocks
<1>3. Lock(b) \in -1 .. Slices - 1
  BY <1>2, LockType, SplitKAssumption
<1>4. TypeOK'
  BY <1>1, <1>3 DEF TypeOK
<1>5. IdleBlocks'
  BY <1>1, <1>2 DEF IdleBlocks, TypeOK
<1>6. TurnIsTrue'
  BY <1>1 DEF TurnIsTrue, HasTurn, Lock, Working, TypeOK
<1>7. \A c \in Working : pc'[c] = "store" => source'[c] = Sum(grid', c.z)
  BY <1>1 DEF SumsSoFar, Working, TypeOK
<1>8. QED
  BY <1>1, <1>4, <1>5, <1>6, <1>7, InnerStep DEF SumsSoFar

(* The block goes on only with what is still true. *)
LEMMA WaitStep ==
  ASSUME IInv, NEW b \in Blocks, Wait(b)
  PROVE  IInv'
<1> USE DEF IInv
<1>1. /\ pc[b] = "wait"
      /\ grid' = grid /\ lock' = lock /\ D' = D /\ source' = source
  BY DEF Wait
<1>2. b \in Working
  BY <1>1 DEF IdleBlocks
<1>3. CASE state[b] = b.z
  <2>1. pc' = [pc EXCEPT ![b] = "load"] /\ state' = state /\ Inner(b, "wait", "load")
    BY <1>1, <1>3 DEF Wait, Inner
  <2>2. TypeOK'
    BY <1>1, <2>1 DEF TypeOK
  <2>3. IdleBlocks'
    BY <1>2, <2>1 DEF IdleBlocks, TypeOK
  <2>4. Lock(b) = b.z
    BY <1>1, <1>2, <1>3 DEF TurnIsTrue
  <2>5. TurnIsTrue'
    BY <1>1, <2>1, <2>4 DEF TurnIsTrue, HasTurn, Lock, Working, TypeOK
  <2>6. \A c \in Working : pc'[c] = "store" => source'[c] = Sum(grid', c.z)
    BY <1>1, <2>1 DEF SumsSoFar, Working, TypeOK
  <2>7. QED
    BY <2>1, <2>2, <2>3, <2>5, <2>6, InnerStep DEF SumsSoFar
<1>4. CASE state[b] # b.z
  <2>1. pc' = pc /\ state' = [state EXCEPT ![b] = Lock(b)]
    BY <1>4 DEF Wait
  <2>2. Lock(b) \in -1 .. Slices - 1
    BY <1>2, LockType, SplitKAssumption
  <2>3. TypeOK'
    BY <1>1, <2>1, <2>2 DEF TypeOK
  <2>4. IdleBlocks'
    BY <2>1 DEF IdleBlocks
  <2>5. TurnIsTrue'
    BY <1>1, <2>1 DEF TurnIsTrue, HasTurn, Lock, Working, TypeOK
  <2>6. EndedInOrder'
    BY <1>1, <2>1 DEF EndedInOrder, Ended, Lock
  <2>7. SumsSoFar'
    BY <1>1, <2>1 DEF SumsSoFar, Ended
  <2>8. QED
    BY <2>3, <2>4, <2>5, <2>6, <2>7
<1>5. QED
  BY <1>3, <1>4

(* Nobody else has the turn on a tile, or may take it. *)
LEMMA OneTurn ==
  ASSUME IInv, NEW b \in Working, HasTurn(b), NEW c \in Working, TileOf(c) = TileOf(b),
         HasTurn(c) \/ (pc[c] = "wait" /\ state[c] = c.z)
  PROVE  c = b
<1>1. Lock(b) = b.z /\ Lock(c) = c.z
  BY DEF IInv, TurnIsTrue
<1>2. Lock(b) = Lock(c)
  BY DEF Lock
<1>3. QED
  BY <1>1, <1>2, SameTurnSameBlock

(* The sources of the epilogue are the slices below. *)
LEMMA LoadStep ==
  ASSUME IInv, NEW b \in Blocks, Load(b)
  PROVE  IInv'
<1> USE DEF IInv
<1>1. /\ pc[b] = "load" /\ pc' = [pc EXCEPT ![b] = "store"]
      /\ source' = [source EXCEPT ![b] = IF b.z = 0 THEN <<>> ELSE D[TileOf(b)]]
      /\ grid' = grid /\ lock' = lock /\ D' = D /\ state' = state
      /\ Inner(b, "load", "store")
  BY DEF Load, Inner
<1>2. b \in Working
  BY <1>1 DEF IdleBlocks
<1>3. Lock(b) = b.z /\ b.z \in Nat /\ TileOf(b) \in Tiles
  BY <1>1, <1>2, BlockType DEF TurnIsTrue, HasTurn, Working
<1>4. TypeOK'
  BY <1>1 DEF TypeOK
<1>5. IdleBlocks'
  BY <1>1, <1>2 DEF IdleBlocks, TypeOK
<1>6. TurnIsTrue'
  BY <1>1, <1>3 DEF TurnIsTrue, HasTurn, Lock, Working, TypeOK
<1>7. source'[b] = Sum(grid, b.z)
  <2>1. CASE b.z = 0
    BY <1>1, <2>1, SumAppend DEF TypeOK
  <2>2. CASE b.z # 0
    <3>1. \A c \in Working : TileOf(c) = TileOf(b) => pc[c] # "release"
      BY <1>1, <1>2, OneTurn DEF HasTurn
    <3>2. D[TileOf(b)] = Sum(grid, b.z)
      BY <1>3, <2>2, <3>1 DEF SumsSoFar, Lock
    <3>3. QED
      BY <1>1, <2>2, <3>2 DEF TypeOK
  <2>3. QED
    BY <2>1, <2>2
<1>8. \A c \in Working : pc'[c] = "store" => source'[c] = Sum(grid', c.z)
  BY <1>1, <1>7 DEF SumsSoFar, Working, TypeOK
<1>9. QED
  BY <1>1, <1>4, <1>5, <1>6, <1>8, InnerStep DEF SumsSoFar

(* The tile has one slice more. *)
LEMMA StoreStep ==
  ASSUME IInv, NEW b \in Blocks, Store(b)
  PROVE  IInv'
<1> USE DEF IInv
<1>1. /\ pc[b] = "store" /\ pc' = [pc EXCEPT ![b] = "release"]
      /\ D' = [D EXCEPT ![TileOf(b)] = Append(source[b], <<grid, b.z>>)]
      /\ grid' = grid /\ lock' = lock /\ source' = source /\ state' = state
  BY DEF Store
<1>2. b \in Working
  BY <1>1 DEF IdleBlocks
<1>3. b.z \in Nat /\ TileOf(b) \in Tiles
  BY <1>2, BlockType DEF Working
<1>4. TypeOK'
  BY <1>1 DEF TypeOK
<1>5. IdleBlocks'
  BY <1>1, <1>2 DEF IdleBlocks, TypeOK
<1>6. TurnIsTrue'
  BY <1>1 DEF TurnIsTrue, HasTurn, Lock, Working, TypeOK
<1>7. /\ D'[TileOf(b)] = Sum(grid, b.z + 1)
      /\ \A t \in Tiles : t # TileOf(b) => D'[t] = D[t]
  <2>1. source[b] = Sum(grid, b.z)
    BY <1>1, <1>2 DEF SumsSoFar
  <2>2. Append(source[b], <<grid, b.z>>) = Sum(grid, b.z + 1)
    BY <1>3, <2>1, SumAppend
  <2>3. DOMAIN D = Tiles
    BY DEF TypeOK
  <2>4. QED
    BY <1>1, <1>3, <2>2, <2>3
<1>8. Working \subseteq Blocks /\ pc = [c \in Blocks |-> pc[c]]
  BY DEF Working, TypeOK
<1>9. pc'[b] = "release" /\ \A c \in Working : c # b => pc'[c] = pc[c]
  BY <1>1, <1>2, <1>8
<1>10. \A t \in Tiles : Ended(t)' <=> Ended(t)
  BY <1>1, <1>2, <1>9 DEF Ended
<1>11. EndedInOrder'
  <2>1. \A c \in Working : Lock(c)' = Lock(c) /\ TileOf(c) \in Tiles /\ (pc'[c] = "exit" <=> pc[c] = "exit")
    BY <1>1, <1>9 DEF Lock, Working
  <2>2. QED
    BY <1>1, <1>10, <2>1 DEF EndedInOrder
<1>12. SumsSoFar'
  <2>1. \A c \in Working : pc'[c] = "store" => source'[c] = Sum(grid', c.z)
    BY <1>1, <1>9 DEF SumsSoFar
  <2>2. \A c \in Working : c # b /\ pc[c] = "release" => TileOf(c) # TileOf(b)
    BY <1>1, <1>2, OneTurn DEF HasTurn
  <2>3. \A c \in Working : pc'[c] = "release" => D'[TileOf(c)] = Sum(grid', c.z + 1)
    BY <1>1, <1>7, <1>9, <2>2 DEF SumsSoFar, Working
  <2>4. ASSUME NEW t \in Tiles, lock[BlockIdx(t)] > 0,
               \A c \in Working : TileOf(c) = t => pc'[c] # "release"
        PROVE  D'[t] = Sum(grid, lock[BlockIdx(t)])
    <3>1. t # TileOf(b)
      BY <1>2, <1>9, <2>4
    <3>2. \A c \in Working : TileOf(c) = t => pc[c] # "release"
      BY <1>9, <2>4, <3>1
    <3>3. QED
      BY <1>7, <2>4, <3>1, <3>2 DEF SumsSoFar
  <2>5. ASSUME NEW t \in Tiles, grid > 0, Ended(t)'
        PROVE  D'[t] = Sum(grid, Slices)
    <3>1. t # TileOf(b)
      BY <1>2, <1>9, <2>5 DEF Ended
    <3>2. QED
      BY <1>7, <1>10, <2>5, <3>1 DEF SumsSoFar
  <2>6. QED
    BY <1>1, <2>1, <2>3, <2>4, <2>5 DEF SumsSoFar
<1>13. QED
  BY <1>4, <1>5, <1>6, <1>11, <1>12

(* The turn goes to the next block, or, after the last, to the next grid.  *)
LEMMA ReleaseStep ==
  ASSUME IInv, NEW b \in Blocks, Release(b)
  PROVE  IInv'
<1> USE DEF IInv
<1> DEFINE t == TileOf(b)
           last == b.z = Slices - 1
           turn == IF last THEN 0 ELSE b.z + 1
<1>1. /\ pc[b] = "release" /\ pc' = [pc EXCEPT ![b] = "exit"]
      /\ lock' = [lock EXCEPT ![BlockIdx(t)] = turn]
      /\ grid' = grid /\ D' = D /\ source' = source /\ state' = state
  BY DEF Release
<1>2. b \in Working
  BY <1>1 DEF IdleBlocks
<1>3. b.z \in 0 .. Slices - 1 /\ b.z \in Nat /\ t \in Tiles /\ Lock(b) = b.z
      /\ BlockIdx(t) \in 0 .. M * N - 1 /\ Slices \in Nat
  BY <1>1, <1>2, BlockType, LockType, SplitKAssumption DEF TurnIsTrue, HasTurn
<1>4. Working \subseteq Blocks /\ pc = [c \in Blocks |-> pc[c]]
  BY DEF Working, TypeOK
<1>5. pc'[b] = "exit" /\ \A c \in Working : c # b => pc'[c] = pc[c]
  BY <1>1, <1>2, <1>4
<1>6. /\ lock'[BlockIdx(t)] = turn
      /\ \A s \in Tiles : s # t => lock'[BlockIdx(s)] = lock[BlockIdx(s)]
  <2>1. DOMAIN lock = 0 .. M * N - 1
    BY DEF TypeOK
  <2>2. \A s \in Tiles : BlockIdx(s) \in 0 .. M * N - 1 /\ (s # t => BlockIdx(s) # BlockIdx(t))
    BY <1>3, BlockIdxInjective
  <2> HIDE DEF turn, t
  <2>3. QED
    BY <1>1, <1>3, <2>1, <2>2
<1>7. /\ \A c \in Working : TileOf(c) = t => Lock(c)' = turn /\ Lock(c) = b.z
      /\ \A c \in Working : TileOf(c) # t => Lock(c)' = Lock(c)
  BY <1>3, <1>6 DEF Lock, Working
<1>8. \A c \in Working : TileOf(c) = t /\ c.z = b.z => c = b
  BY <1>2, SameTurnSameBlock
<1>9. \A c \in Working : c.z \in 0 .. Slices - 1 /\ c.z \in Nat /\ TileOf(c) \in Tiles
  BY BlockType DEF Working
<1>10. TypeOK'
  <2>1. turn \in 0 .. Slices - 1
    BY <1>3
  <2> HIDE DEF turn
  <2>2. QED
    BY <1>1, <1>3, <2>1 DEF TypeOK
<1>11. IdleBlocks'
  BY <1>1, <1>2 DEF IdleBlocks, TypeOK
<1>12. TurnIsTrue'
  <2> SUFFICES ASSUME NEW c \in Working, (HasTurn(c) \/ (pc[c] = "wait" /\ state[c] = c.z))'
               PROVE  Lock(c)' = c.z
    BY DEF TurnIsTrue
  <2>1. c # b /\ (HasTurn(c) \/ (pc[c] = "wait" /\ state[c] = c.z))
    BY <1>1, <1>5 DEF HasTurn
  <2>2. TileOf(c) # t
    BY <1>1, <1>2, <2>1, OneTurn DEF HasTurn
  <2>3. QED
    BY <1>7, <2>1, <2>2 DEF TurnIsTrue
<1>13. \A s \in Tiles : s # t => (Ended(s)' <=> Ended(s))
  BY <1>5 DEF Ended
<1>14. ~Ended(t)
  BY <1>1, <1>2 DEF Ended
<1>15. ASSUME last PROVE Ended(t)'
  <2> SUFFICES ASSUME NEW c \in Working, TileOf(c) = t PROVE pc'[c] = "exit"
    BY DEF Ended
  <2>1. CASE c.z = b.z  BY <1>5, <1>8, <2>1
  <2>2. CASE c.z # b.z
    <3>1. c.z < Lock(c)  BY <1>3, <1>7, <1>9, <1>15, <2>2
    <3>2. QED  BY <1>5, <3>1 DEF EndedInOrder
  <2>3. QED  BY <2>1, <2>2
<1>16. ASSUME ~last PROVE ~Ended(t)'
  <2>1. b.z + 1 \in 0 .. Slices - 1
    BY <1>3, <1>16
  <2>2. PICK c \in Working : TileOf(c) = t /\ c.z = b.z + 1
    BY <1>3, <2>1, SwizzleCovers
  <2>3. c # b /\ ~(c.z < Lock(c))
    BY <1>3, <1>7, <2>2
  <2>4. pc[c] # "exit"
    BY <1>14, <2>2, <2>3 DEF EndedInOrder
  <2>5. QED
    BY <1>5, <2>2, <2>3, <2>4 DEF Ended
<1>17. EndedInOrder'
  <2>1. \A c \in Working : c.z < Lock(c)' => pc'[c] = "exit"
    <3> SUFFICES ASSUME NEW c \in Working, c.z < Lock(c)' PROVE pc'[c] = "exit"
      OBVIOUS
    <3>1. CASE TileOf(c) # t
      BY <1>5, <1>7, <3>1 DEF EndedInOrder
    <3>2. CASE TileOf(c) = t
      <4>1. ~last /\ c.z < b.z + 1  BY <1>7, <1>9, <3>2
      <4>2. CASE c.z = b.z  BY <1>5, <1>8, <3>2, <4>2
      <4>3. CASE c.z # b.z
        <5>1. c.z < Lock(c)  BY <1>3, <1>7, <1>9, <3>2, <4>1, <4>3
        <5>2. QED  BY <1>5, <5>1 DEF EndedInOrder
      <4>4. QED  BY <4>2, <4>3
    <3>3. QED  BY <3>1, <3>2
  <2>2. \A c \in Working : pc'[c] = "exit" => c.z < Lock(c)' \/ Ended(TileOf(c))'
    <3> SUFFICES ASSUME NEW c \in Working, pc'[c] = "exit"
                 PROVE  c.z < Lock(c)' \/ Ended(TileOf(c))'
      OBVIOUS
    <3>1. CASE TileOf(c) # t
      BY <1>5, <1>7, <1>9, <1>13, <3>1 DEF EndedInOrder
    <3>2. CASE TileOf(c) = t /\ last
      BY <1>15, <3>2
    <3>3. CASE TileOf(c) = t /\ ~last
      <4>1. c = b \/ c.z < Lock(c)
        BY <1>5, <1>14, <3>3 DEF EndedInOrder
      <4>2. QED
        BY <1>3, <1>7, <1>9, <3>3, <4>1
    <3>4. QED  BY <3>1, <3>2, <3>3
  <2>3. \A s \in Tiles : Ended(s)' => lock'[BlockIdx(s)] = 0
    BY <1>6, <1>13, <1>16 DEF EndedInOrder
  <2>4. QED
    BY <2>1, <2>2, <2>3 DEF EndedInOrder
<1>18. SumsSoFar'
  <2>1. \A c \in Working : pc'[c] = "store" => source'[c] = Sum(grid', c.z)
    BY <1>1, <1>5 DEF SumsSoFar
  <2>2. \A c \in Working : pc'[c] = "release" => D'[TileOf(c)] = Sum(grid', c.z + 1)
    BY <1>1, <1>5 DEF SumsSoFar
  <2>3. D[t] = Sum(grid, b.z + 1)
    BY <1>1, <1>2 DEF SumsSoFar
  <2>4. ASSUME NEW s \in Tiles, lock'[BlockIdx(s)] > 0,
               \A c \in Working : TileOf(c) = s => pc'[c] # "release"
        PROVE  D[s] = Sum(grid, lock'[BlockIdx(s)])
    <3>1. CASE s = t
      BY <1>6, <2>3, <2>4, <3>1
    <3>2. CASE s # t
      <4>1. \A c \in Working : TileOf(c) = s => pc[c] # "release"
        BY <1>5, <2>4, <3>2
      <4>2. QED
        BY <1>6, <2>4, <3>2, <4>1 DEF SumsSoFar
    <3>3. QED  BY <3>1, <3>2
  <2>5. ASSUME NEW s \in Tiles, grid > 0, Ended(s)'
        PROVE  D[s] = Sum(grid, Slices)
    <3>1. CASE s = t
      <4>1. b.z + 1 = Slices  BY <1>3, <1>16, <2>5, <3>1
      <4>2. QED  BY <2>3, <3>1, <4>1
    <3>2. CASE s # t
      BY <1>13, <2>5, <3>2 DEF SumsSoFar
    <3>3. QED  BY <3>1, <3>2
  <2>6. QED
    BY <1>1, <2>1, <2>2, <2>4, <2>5 DEF SumsSoFar
<1>19. QED
  BY <1>10, <1>11, <1>12, <1>17, <1>18

-----------------------------------------------------------------------------
(* The invariant is inductive. *)
THEOREM Invariance == Spec => []IInv
<1>1. Init => IInv
  BY Initially
<1>2. IInv /\ [Next]_vars => IInv'
  <2> SUFFICES ASSUME IInv, [Next]_vars PROVE IInv'
    OBVIOUS
  <2>1. CASE Run  BY <2>1, RunStep
  <2>2. ASSUME NEW b \in Blocks, Dispatch(b) \/ Block(b) PROVE IInv'
    BY <2>2, DispatchStep, StartStep, FetchStep, WaitStep, LoadStep, StoreStep, ReleaseStep
    DEF Block
  <2>3. CASE UNCHANGED vars
    BY <2>3 DEF vars, IInv, TypeOK, IdleBlocks, TurnIsTrue, HasTurn, EndedInOrder, Ended,
                SumsSoFar, Lock
  <2>4. QED
    BY <2>1, <2>2, <2>3 DEF Next, Terminated
<1>3. QED
  BY <1>1, <1>2, PTL DEF Spec

(* Every variable keeps its type: above all, a semaphore is always the     *)
(* number of a slice, however often the kernel is launched.                *)
THEOREM TypeCorrect == Spec => []TypeOK
<1>1. IInv => TypeOK  BY DEF IInv
<1>2. QED  BY <1>1, Invariance, PTL

(* When a grid has ended, every output tile is the sum of all slices, each *)
(* added once and in order, whatever the swizzle, the number of resident   *)
(* blocks and the number of grids before it.                               *)
THEOREM SumsCorrect == Spec => []SumsInOrder
<1>1. IInv => SumsInOrder
  BY DEF IInv, SumsSoFar, SumsInOrder, Ended, Working
<1>2. QED  BY <1>1, Invariance, PTL

(* No two blocks are at the epilogue of one tile at a time. *)
Exclusive ==
  \A b, c \in Working : HasTurn(b) /\ HasTurn(c) /\ TileOf(b) = TileOf(c) => b = c

(* Blocks read, write and release a tile strictly one after another.       *)
THEOREM EpiloguesAreExclusive == Spec => []Exclusive
<1>1. IInv => Exclusive
  BY OneTurn DEF Exclusive
<1>2. QED  BY <1>1, Invariance, PTL

=============================================================================
