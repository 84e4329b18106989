----------------------------- MODULE InputRing -----------------------------
(***************************************************************************)
(* What the network thread promises the rest of the pipeline about the     *)
(* input ring: it holds the current block and the one after it, writes     *)
(* only into blocks it holds, hands blocks on in ring order, and takes     *)
(* back only blocks that were freed.  Nothing is said of packets: module   *)
(* PktSock implements this specification, and module Pipeline is built on  *)
(* it.                                                                     *)
(***************************************************************************)
EXTENDS Integers

CONSTANT N      \* N_INPUT_BLOCKS

VARIABLES
  sem,    \* the ring's semaphores: 0 free, 1 filled
  data,   \* what each block contains
  cur,    \* the current block of the network thread (binfo.block_i)
  pc      \* where the network thread is

vars == <<sem, data, cur, pc>>

Blocks == 0 .. N-1
After(b) == (b + 1) % N

\* A step may change the contents of the blocks in B and of no other.
WritesOnly(B) ==
  /\ DOMAIN data' = Blocks
  /\ \A b \in Blocks \ B : data'[b] = data[b]

Init ==
  /\ sem = [b \in Blocks |-> 0]
  /\ cur = 0
  /\ pc = "acquire0"
  /\ DOMAIN data = Blocks

AcquireFirst ==
  /\ pc = "acquire0"
  /\ sem[0] = 0
  /\ pc' = "acquire1"
  /\ UNCHANGED <<sem, data, cur>>

AcquireSecond ==
  /\ pc = "acquire1"
  /\ sem[1] = 0
  /\ pc' = "recv"
  /\ WritesOnly({0, 1})
  /\ UNCHANGED <<sem, cur>>

\* Packets are copied into the two blocks held, or both are recycled.
Write ==
  /\ pc = "recv"
  /\ WritesOnly({cur, After(cur)})
  /\ UNCHANGED <<sem, cur, pc>>

\* The current block goes to the next thread; the one after it becomes current.
Fill ==
  /\ pc = "recv"
  /\ sem[cur] = 0
  /\ sem' = [sem EXCEPT ![cur] = 1]
  /\ cur' = After(cur)
  /\ pc' = "acquire"
  /\ UNCHANGED data

\* The block after the current one has become free.
AcquireNext ==
  /\ pc = "acquire"
  /\ sem[After(cur)] = 0
  /\ pc' = "recv"
  /\ WritesOnly({cur, After(cur)})
  /\ UNCHANGED <<sem, cur>>

\* The next thread frees a block it was given.
Free(b) ==
  /\ sem[b] = 1
  /\ sem' = [sem EXCEPT ![b] = 0]
  /\ UNCHANGED <<data, cur, pc>>

Next ==
  \/ AcquireFirst
  \/ AcquireSecond
  \/ Write
  \/ Fill
  \/ AcquireNext
  \/ \E b \in Blocks : Free(b)

Spec == Init /\ [][Next]_vars
=============================================================================
