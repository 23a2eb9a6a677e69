------------------------------ MODULE TileFifo ------------------------------
(***************************************************************************)
(* What a software pipeline promises, without barriers, phases or cursors: *)
(* a bounded buffer of tiles between a group of producers that each fill   *)
(* their share of every tile and a group of consumers that each hand every *)
(* tile back.  A share is filled only into a slot that every consumer has  *)
(* handed back, a tile is handed back only after every share was there.    *)
(***************************************************************************)
EXTENDS Naturals

CONSTANTS Producers, Consumers,
          Stages,   (* tiles the buffer holds *)
          Total     (* tiles that pass through it *)

VARIABLES landed,   (* landed[p]: tiles whose share p has been filled *)
          released  (* released[c]: tiles consumer c has handed back *)

Init ==
  /\ landed = [p \in Producers |-> 0]
  /\ released = [c \in Consumers |-> 0]

Fill(p) ==
  /\ landed[p] < Total
  /\ \A c \in Consumers : landed[p] < released[c] + Stages
  /\ landed' = [landed EXCEPT ![p] = @ + 1]
  /\ UNCHANGED released

HandBack(c) ==
  /\ \A p \in Producers : released[c] < landed[p]
  /\ released' = [released EXCEPT ![c] = @ + 1]
  /\ UNCHANGED landed

Next ==
  \/ \E p \in Producers : Fill(p)
  \/ \E c \in Consumers : HandBack(c)

Spec == Init /\ [][Next]_<<landed, released>>

FairSpec ==
  /\ Spec
  /\ \A p \in Producers : WF_<<landed, released>>(Fill(p))
  /\ \A c \in Consumers : WF_<<landed, released>>(HandBack(c))
=============================================================================
