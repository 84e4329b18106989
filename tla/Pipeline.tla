------------------------------ MODULE Pipeline ------------------------------
(***************************************************************************)
(* The three threads of an instance and the two rings between them: the    *)
(* network thread (s6_pktsock_thread.cpp, as module InputRing describes    *)
(* it), the GPU thread (s6_gpu_thread.cpp) and the output thread           *)
(* (s6_output_thread.cpp).  Each thread keeps its own index into a ring    *)
(* and the two sides of a ring share nothing but the blocks' semaphores.   *)
(*                                                                         *)
(* A block is identified by its stamp, its number among the blocks the     *)
(* network thread begins, modulo StampMod: it stands for the header (mcnt, *)
(* times, missed_pkts, sid) and for the samples.  Each thread goes round   *)
(* while run_threads() holds; Stop ends that, and hashpipe then cancels    *)
(* the threads that wait.                                                  *)
(***************************************************************************)
EXTENDS Integers, Sequences, SequencesExt

CONSTANTS
  N_INPUT_BLOCKS,
  N_OUTPUT_BLOCKS,
  StampMod            \* bound: stamps wrap around

ASSUME InputAssumption  == N_INPUT_BLOCKS \in Nat /\ N_INPUT_BLOCKS >= 3
ASSUME OutputAssumption == N_OUTPUT_BLOCKS \in Nat \ {0}
ASSUME StampAssumption  == StampMod \in Nat /\ StampMod > N_INPUT_BLOCKS + N_OUTPUT_BLOCKS

VARIABLES
  run_threads,      \* hashpipe's flag, FALSE once the program is to end
  sem_in, in_block, \* the input ring: semaphores, and stamps of what blocks hold
  net_i, net_pc,    \* the network thread: binfo.block_i, where it is
  sem_out, out_block, \* the output ring: semaphores, headers and hits
  gpu_in, gpu_out, gpu_pc,  \* the GPU thread: curblock_in, curblock_out
  ADCRMS,           \* the status key: stamp of the block it was computed from
  block_idx, out_pc, \* the output thread
  rms,              \* faststatus.ADCRMS of the output thread
  recorded          \* the last block it recorded

net == <<sem_in, in_block, net_i, net_pc>>
out == <<block_idx, out_pc, rms, recorded>>
vars == <<run_threads, net, sem_out, out_block, gpu_in, gpu_out, gpu_pc, ADCRMS, out>>

InBlocks == 0 .. N_INPUT_BLOCKS-1
OutBlocks == 0 .. N_OUTPUT_BLOCKS-1
Stamps == 0 .. StampMod-1
None == -1
EmptyBlock == [header |-> None, hits |-> None]    \* a block after its memset to 0

\* The steps of the network thread, and its half of the input ring.
Net == INSTANCE InputRing WITH
         N <- N_INPUT_BLOCKS, sem <- sem_in, data <- in_block,
         cur <- net_i, pc <- net_pc

Init ==
  /\ run_threads = TRUE
  /\ in_block = [b \in InBlocks |-> None]
  /\ Net!Init
  /\ sem_out = [b \in OutBlocks |-> 0]
  /\ out_block = [b \in OutBlocks |-> EmptyBlock]
  /\ gpu_in = 0 /\ gpu_out = 0 /\ gpu_pc = "top"
  /\ ADCRMS = None
  /\ block_idx = 0 /\ out_pc = "top"
  /\ rms = None
  /\ recorded = EmptyBlock

Stop ==
  /\ run_threads
  /\ run_threads' = FALSE
  /\ UNCHANGED <<net, sem_out, out_block, gpu_in, gpu_out, gpu_pc, ADCRMS, out>>

-----------------------------------------------------------------------------
(* The network thread.  A block gets its stamp when it is initialized; the *)
(* packets copied into it afterwards do not change which block it is.      *)

NetAcquire ==
  /\ \/ Net!AcquireFirst /\ UNCHANGED in_block
     \/ in_block' = [in_block EXCEPT ![0] = 0, ![1] = 1] /\ Net!AcquireSecond
  /\ UNCHANGED <<run_threads, sem_out, out_block, gpu_in, gpu_out, gpu_pc, ADCRMS, out>>

NetFill ==
  /\ run_threads
  /\ Net!Fill
  /\ UNCHANGED <<run_threads, sem_out, out_block, gpu_in, gpu_out, gpu_pc, ADCRMS, out>>

NetAcquireNext ==
  /\ in_block' = [in_block EXCEPT ![Net!After(net_i)] = (in_block[net_i] + 1) % StampMod]
  /\ Net!AcquireNext
  /\ UNCHANGED <<run_threads, sem_out, out_block, gpu_in, gpu_out, gpu_pc, ADCRMS, out>>

-----------------------------------------------------------------------------
(* The GPU thread.                                                         *)

\* curblock_in and curblock_out go round their rings.
NextIn_WrongRing(b) == (b + 1) % N_OUTPUT_BLOCKS      \* mutant
NextIn(b) == (b + 1) % N_INPUT_BLOCKS

NextOut(b) == (b + 1) % N_OUTPUT_BLOCKS

\* The loop's condition, then hashpipe_databuf_wait_filled until it succeeds.
GpuLoop ==
  /\ gpu_pc = "top"
  /\ gpu_pc' = IF run_threads THEN "wait_filled" ELSE "done"
  /\ UNCHANGED <<run_threads, net, sem_out, out_block, gpu_in, gpu_out, ADCRMS, out>>

GpuTakeInput ==
  /\ gpu_pc = "wait_filled"
  /\ sem_in[gpu_in] = 1
  /\ gpu_pc' = "wait_free"
  /\ UNCHANGED <<run_threads, net, sem_out, out_block, gpu_in, gpu_out, ADCRMS, out>>

\* Mutant: the output block is taken whether it is free or not.
GpuTakeOutput_NoWait ==
  /\ gpu_pc = "wait_free"
  /\ gpu_pc' = "header"
  /\ UNCHANGED <<run_threads, net, sem_out, out_block, gpu_in, gpu_out, ADCRMS, out>>

\* last_mcount is never assigned: every block waits for a free output block.
GpuTakeOutput ==
  /\ gpu_pc = "wait_free"
  /\ sem_out[gpu_out] = 0
  /\ gpu_pc' = "header"
  /\ UNCHANGED <<run_threads, net, sem_out, out_block, gpu_in, gpu_out, ADCRMS, out>>

GpuCopyHeader ==
  /\ gpu_pc = "header"
  /\ out_block' = [out_block EXCEPT ![gpu_out].header = in_block[gpu_in]]
  /\ gpu_pc' = "spectroscopy"
  /\ UNCHANGED <<run_threads, net, sem_out, gpu_in, gpu_out, ADCRMS, out>>

\* The RMS, the hits, then the status.
GpuSpectroscopy ==
  /\ gpu_pc = "spectroscopy"
  /\ out_block' = [out_block EXCEPT ![gpu_out].hits = in_block[gpu_in]]
  /\ ADCRMS' = in_block[gpu_in]
  /\ gpu_pc' = "set_filled"
  /\ UNCHANGED <<run_threads, net, sem_out, gpu_in, gpu_out, out>>

GpuSetFilled ==
  /\ gpu_pc = "set_filled"
  /\ sem_out' = [sem_out EXCEPT ![gpu_out] = 1]
  /\ gpu_out' = NextOut(gpu_out)
  /\ gpu_pc' = "set_free"
  /\ UNCHANGED <<run_threads, net, out_block, gpu_in, ADCRMS, out>>

GpuSetFree ==
  /\ gpu_pc = "set_free"
  /\ Net!Free(gpu_in)
  /\ gpu_in' = NextIn(gpu_in)
  /\ gpu_pc' = "top"
  /\ UNCHANGED <<run_threads, sem_out, out_block, gpu_out, ADCRMS, out>>

-----------------------------------------------------------------------------
(* The output thread.                                                      *)

OutLoop ==
  /\ out_pc = "top"
  /\ out_pc' = IF run_threads THEN "wait_filled" ELSE "done"
  /\ UNCHANGED <<run_threads, net, sem_out, out_block, gpu_in, gpu_out, gpu_pc,
                 ADCRMS, block_idx, rms, recorded>>

\* It has a block, and reads ADCRMS from the status (without the lock).
OutTake ==
  /\ out_pc = "wait_filled"
  /\ sem_out[block_idx] = 1
  /\ rms' = ADCRMS
  /\ out_pc' = "write"
  /\ UNCHANGED <<run_threads, net, sem_out, out_block, gpu_in, gpu_out, gpu_pc,
                 ADCRMS, block_idx, recorded>>

\* write_etfits_fast (module Etfits has the files).
OutWrite ==
  /\ out_pc = "write"
  /\ recorded' = out_block[block_idx]
  /\ out_pc' = "set_free"
  /\ UNCHANGED <<run_threads, net, sem_out, out_block, gpu_in, gpu_out, gpu_pc,
                 ADCRMS, block_idx, rms>>

\* Mutant: the block is not freed.
OutSetFree_NotFreed ==
  /\ out_pc = "set_free"
  /\ out_block' = [out_block EXCEPT ![block_idx] = EmptyBlock]
  /\ block_idx' = (block_idx + 1) % N_OUTPUT_BLOCKS
  /\ out_pc' = "top"
  /\ UNCHANGED <<run_threads, net, sem_out, gpu_in, gpu_out, gpu_pc, ADCRMS, rms, recorded>>

OutSetFree ==
  /\ out_pc = "set_free"
  /\ out_block' = [out_block EXCEPT ![block_idx] = EmptyBlock]
  /\ sem_out' = [sem_out EXCEPT ![block_idx] = 0]
  /\ block_idx' = (block_idx + 1) % N_OUTPUT_BLOCKS
  /\ out_pc' = "top"
  /\ UNCHANGED <<run_threads, net, gpu_in, gpu_out, gpu_pc, ADCRMS, rms, recorded>>

-----------------------------------------------------------------------------
\* hashpipe cancels a thread that still waits after the end was ordered.
Cancel ==
  /\ ~run_threads
  /\ \/ gpu_pc \in {"wait_filled", "wait_free"} /\ gpu_pc' = "done" /\ UNCHANGED out_pc
     \/ out_pc = "wait_filled" /\ out_pc' = "done" /\ UNCHANGED gpu_pc
  /\ UNCHANGED <<run_threads, net, sem_out, out_block, gpu_in, gpu_out, ADCRMS,
                 block_idx, rms, recorded>>

NetStep == NetAcquire \/ NetFill \/ NetAcquireNext
GpuStep == GpuLoop \/ GpuTakeInput \/ GpuTakeOutput \/ GpuCopyHeader
             \/ GpuSpectroscopy \/ GpuSetFilled \/ GpuSetFree
OutStep == OutLoop \/ OutTake \/ OutWrite \/ OutSetFree

Next == NetStep \/ GpuStep \/ OutStep \/ Stop \/ Cancel

Spec == Init /\ [][Next]_vars

\* Each thread is scheduled again and again.  Nothing makes packets arrive, so
\* the network thread need not fill blocks, and nothing orders the end.
Fairness == WF_vars(GpuStep) /\ WF_vars(OutStep) /\ WF_vars(NetAcquire \/ NetAcquireNext)

FairSpec == Spec /\ Fairness

-----------------------------------------------------------------------------
(* Properties.                                                             *)

\* The variables keep to their types.
TypeOK ==
  /\ run_threads \in BOOLEAN
  /\ sem_in \in [InBlocks -> {0, 1}] /\ sem_out \in [OutBlocks -> {0, 1}]
  /\ in_block \in [InBlocks -> Stamps \cup {None}]
  /\ out_block \in [OutBlocks -> [header : Stamps \cup {None}, hits : Stamps \cup {None}]]
  /\ net_i \in InBlocks /\ gpu_in \in InBlocks
  /\ gpu_out \in OutBlocks /\ block_idx \in OutBlocks
  /\ net_pc \in {"acquire0", "acquire1", "recv", "acquire"}
  /\ gpu_pc \in {"top", "wait_filled", "wait_free", "header", "spectroscopy",
                 "set_filled", "set_free", "done"}
  /\ out_pc \in {"top", "wait_filled", "write", "set_free", "done"}
  /\ ADCRMS \in Stamps \cup {None} /\ rms \in Stamps \cup {None}
  /\ recorded \in [header : Stamps \cup {None}, hits : Stamps \cup {None}]

\* How many blocks of a ring are filled from `first' on.
FilledFrom(sem, first, n) ==
  CHOOSE m \in 0 .. n : /\ \A k \in 0 .. m-1 : sem[(first + k) % n] = 1
                        /\ m < n => sem[(first + m) % n] # 1

\* What these blocks contain, but for the first `skip' of them.
Contents(sem, content, first, skip, n) ==
  [k \in 1 .. FilledFrom(sem, first, n) - skip |->
     content[(first + skip + (k - 1)) % n]]

\* The blocks on their way: those in the output ring that are not recorded
\* yet, then those in the input ring that are not in the output ring yet.
OnTheirWay ==
  Contents(sem_out, [b \in OutBlocks |-> out_block[b].header], block_idx,
           IF out_pc = "set_free" THEN 1 ELSE 0, N_OUTPUT_BLOCKS)
    \o Contents(sem_in, in_block, gpu_in,
                IF gpu_pc = "set_free" THEN 1 ELSE 0, N_INPUT_BLOCKS)

\* Each block marked filled by the network thread is recorded once, whole and
\* in order, for all that three threads index two rings independently and a
\* block is marked filled before its predecessor is freed; and no more blocks
\* are ever on their way than the rings hold less the one the network thread
\* always keeps.
Fifo == INSTANCE BlockFifo WITH
          Capacity <- N_INPUT_BLOCKS - 1 + N_OUTPUT_BLOCKS,
          queue <- OnTheirWay, taken <- recorded
ImplementsFifo == Fifo!Spec

\* The ADCRMS recorded with a block may be a later block's, since the GPU
\* thread overwrites the status key while the block waits, but it is never an
\* earlier block's and at most N_OUTPUT_BLOCKS - 1 blocks too new.
RmsIsRecent ==
  out_pc = "write" =>
    (rms - out_block[block_idx].header) % StampMod \in 0 .. N_OUTPUT_BLOCKS - 1

\* The rings never make the threads wait for each other all round: while the
\* network thread waits for the GPU thread to free a block, one of the threads
\* downstream can go on, though the GPU thread itself waits for two rings.
NetWaits == net_pc = "acquire" /\ sem_in[Net!After(net_i)] = 1
GpuWaits ==
  \/ gpu_pc = "wait_filled" /\ sem_in[gpu_in] = 0
  \/ gpu_pc = "wait_free" /\ sem_out[gpu_out] = 1
OutWaits == out_pc = "wait_filled" /\ sem_out[block_idx] = 0

NoCircularWait ==
  run_threads /\ NetWaits =>
    /\ gpu_pc # "done" /\ out_pc # "done"
    /\ ~(GpuWaits /\ OutWaits)

\* A block marked filled is recorded in the end, unless the program is ended.
FilledIsRecorded ==
  \A s \in Stamps :
    s \in Range(OnTheirWay) ~> (recorded.header = s \/ ~run_threads)
=============================================================================
