----------------------------- MODULE MCPingpong -----------------------------
(* Instances of Pingpong for TLC. *)
EXTENDS Pingpong, Sequences

Plain(tiles, k, reuse, load) ==
  [Array |-> FALSE, ReuseSmemC |-> reuse, LoadNeeded |-> load, tiles |-> tiles,
   start |-> [t \in 1 .. tiles + 1 |-> (t - 1) * k], batch |-> [t \in 1 .. tiles |-> 0]]

Grouped(start, batch, reuse) ==
  [Array |-> TRUE, ReuseSmemC |-> reuse, LoadNeeded |-> TRUE, tiles |-> Len(batch),
   start |-> start, batch |-> batch]

(* Odd and even numbers of work tiles, shorter and longer than the buffer; *)
(* groups with different numbers of k tiles.                               *)
SomeKernels ==
  {Plain(1, 1, TRUE, TRUE), Plain(2, 4, TRUE, TRUE), Plain(3, 1, FALSE, TRUE),
   Plain(3, 2, TRUE, TRUE), Plain(3, 4, FALSE, FALSE),
   Grouped(<<0>>, <<>>, TRUE), Grouped(<<0, 3>>, <<1>>, FALSE),
   Grouped(<<0, 1, 4, 5, 7>>, <<1, 2, 2, 3>>, TRUE),
   Grouped(<<0, 3, 4, 8>>, <<0, 0, 1>>, FALSE)}

OneIdle == {Plain(0, 2, TRUE, TRUE)}
OneGrouped == {Grouped(<<0, 1, 2, 3>>, <<1, 1, 2>>, FALSE)}
=============================================================================
