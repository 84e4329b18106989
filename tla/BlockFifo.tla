----------------------------- MODULE BlockFifo -----------------------------
(***************************************************************************)
(* What the pipeline promises: a bounded first-in first-out queue between  *)
(* the network thread, which puts in the blocks it marks filled, and the   *)
(* output thread, which takes them out one by one.                         *)
(***************************************************************************)
EXTENDS Naturals, Sequences

CONSTANTS
  Stamps,     \* what identifies a block
  Capacity    \* how many blocks may be on their way at a time

VARIABLES
  queue,      \* the blocks on their way
  taken       \* the last block taken out: its header and the hits it holds

vars == <<queue, taken>>

Init ==
  /\ queue = <<>>
  /\ taken \notin [header : Stamps, hits : Stamps]

Put(s) ==
  /\ Len(queue) < Capacity
  /\ queue' = Append(queue, s)
  /\ UNCHANGED taken

Get ==
  /\ queue # <<>>
  /\ taken' = [header |-> Head(queue), hits |-> Head(queue)]
  /\ queue' = Tail(queue)

Next == Get \/ \E s \in Stamps : Put(s)

Spec == Init /\ [][Next]_vars
=============================================================================
