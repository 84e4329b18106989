------------------------------ MODULE PktSock ------------------------------
(***************************************************************************)
(* The network thread of the pipeline (src/src/s6_pktsock_thread.cpp): it  *)
(* receives packets that carry a master counter (mcnt), copies each one    *)
(* into the block of the input ring its mcnt belongs to, and marks a block *)
(* filled once a packet of the second half of the following block shows    *)
(* up.  It always holds two blocks of the ring, the current one (block_i)  *)
(* and the one after it; every other block is free, or belongs to the GPU  *)
(* thread until that thread frees it again.                                *)
(*                                                                         *)
(* The network is the most general one: any mcnt may arrive at any time,   *)
(* which covers loss, duplication, reordering, a restart of the sender and *)
(* the rollover of the 56-bit counter.  The downstream thread is the most  *)
(* general one too: any filled block may become free (module Pipeline      *)
(* models the thread itself).                                              *)
(***************************************************************************)
EXTENDS Integers

CONSTANTS
  N,            \* N_INPUT_BLOCKS, blocks of the input ring
  Nm,           \* mcnts per block: N_TIME_SAMPLES / N_SPECTRA_PER_PACKET
  NBors,        \* N_BORS, the beams or spectra of a block
  McntMod,      \* the header's mcnt field holds 0 .. McntMod-1 (2^56 in the code)
  WordMod,      \* missed_pkts[] is a uint64_t: it counts modulo this
  SidVerdicts,  \* whether a packet's sid is below N_SOURCE_NODES: {TRUE} or BOOLEAN
  MaxCount      \* bound: packets counted in one block

ASSUME RingAssumption     == N \in Nat /\ N >= 3
ASSUME BlockAssumption    == Nm \in Nat /\ Nm >= 2
ASSUME BorsAssumption     == NBors \in Nat \ {0}
ASSUME CounterAssumption  == McntMod \in Nat \ {0}
ASSUME WordAssumption     == WordMod \in Nat /\ WordMod > Nm
ASSUME SidAssumption      == SidVerdicts \subseteq BOOLEAN /\ SidVerdicts # {}
ASSUME BoundAssumption    == MaxCount \in Nat

VARIABLES
  sem,                   \* the ring's semaphores: 0 free, 1 filled
  block,                 \* block[b]: its header's mcnt and missed_pkts[0], and
                         \*   slots, the offsets that hold a packet of this mcnt range
  mcnt_start,            \* binfo.mcnt_start
  block_i,               \* binfo.block_i
  out_of_seq_cnt,        \* binfo.out_of_seq_cnt, values past the limit merged
  block_packet_counter,  \* binfo.block_packet_counter[]
  last_filled,           \* the static of set_block_filled
  NETMCNT,               \* the status key, NoMcnt until it is first written
  pc,                    \* where the thread is
  pkt                    \* the packet in hand while it waits for a free block

vars == <<sem, block, mcnt_start, block_i, out_of_seq_cnt,
          block_packet_counter, last_filled, NETMCNT, pc, pkt>>

binfo == <<mcnt_start, block_i, out_of_seq_cnt, block_packet_counter>>

Blocks == 0 .. N-1
Mcnts == 0 .. McntMod-1
NoMcnt == -1
Packets == [mcnt : Mcnts, sid_ok : SidVerdicts]
NoPacket == [mcnt |-> NoMcnt, sid_ok |-> FALSE]
InputBlock == [mcnt : Nat, missed : 0 .. WordMod-1, slots : SUBSET (0 .. Nm-1)]

MAX_OUT_OF_SEQ == 2 * NBors
LATE_PKT_MCNT_THRESHOLD == 2 * Nm * N

-----------------------------------------------------------------------------
(* Helpers of the source file.                                             *)

block_for_mcnt(mcnt) == (mcnt \div Nm) % N

NextBlock(b) == (b + 1) % N

\* Mutant: the missed-packet counter keeps its value.
initialize_block_KeepsMissed(blk, mcnt) ==
  [blk EXCEPT ![block_for_mcnt(mcnt)].mcnt = mcnt - (mcnt % Nm),
              ![block_for_mcnt(mcnt)].slots = {}]

\* Mutant: the header's mcnt is the packet's, not the first of the block.
initialize_block_Unrounded(blk, mcnt) ==
  [blk EXCEPT ![block_for_mcnt(mcnt)] = [mcnt |-> mcnt, missed |-> Nm, slots |-> {}]]

\* Recycle the block that mcnt belongs to.
initialize_block(blk, mcnt) ==
  [blk EXCEPT ![block_for_mcnt(mcnt)] =
     [mcnt |-> mcnt - (mcnt % Nm), missed |-> Nm, slots |-> {}]]

\* Mutant: the missed-packet counter is not an unsigned word.
copy_packet_Signed(blk, p) ==
  IF p.sid_ok
    THEN [blk EXCEPT ![block_for_mcnt(p.mcnt)].missed = @ - 1,
                     ![block_for_mcnt(p.mcnt)].slots = @ \cup {p.mcnt % Nm}]
    ELSE blk

\* Decrement the missed-packet counter and copy the payload; a packet with a
\* bad sid is turned away by calc_block_indexes before either.
copy_packet(blk, p) ==
  IF p.sid_ok
    THEN [blk EXCEPT ![block_for_mcnt(p.mcnt)].missed = (@ - 1) % WordMod,
                     ![block_for_mcnt(p.mcnt)].slots = @ \cup {p.mcnt % Nm}]
    ELSE blk

\* The packet's distance from the current mcnt (pkt_mcnt_dist).
Dist(p) == p.mcnt - mcnt_start

\* Mutants: a window of three blocks; blocks filled too early; no limit to
\* what counts as late.
IsExpected_Wide(p) == 0 <= Dist(p) /\ Dist(p) < 3 * Nm
CompletesBlock_HalfBlock(p) == Dist(p) >= Nm \div 2
IsLate_NoLimit(p) == Dist(p) < 0

IsExpected(p) == 0 <= Dist(p) /\ Dist(p) < 2 * Nm
CompletesBlock(p) == Dist(p) >= 3 * (Nm \div 2)
IsLate(p) == Dist(p) < 0 /\ Dist(p) > -LATE_PKT_MCNT_THRESHOLD

\* Mutants: the packet's own mcnt, whatever block of the ring is current; one
\* block short when the ring wraps.
ResetStart_Unaligned(p) == p.mcnt - (p.mcnt % Nm)
ResetStart_ShortWrap(p) ==
  LET pkt_block_i == block_for_mcnt(p.mcnt)
      ahead == IF block_i >= pkt_block_i
                 THEN block_i - pkt_block_i
                 ELSE block_i + N - 1 - pkt_block_i
      pkt_mcnt == p.mcnt + Nm * ahead
  IN  pkt_mcnt - (pkt_mcnt % Nm)

\* Where a reset restarts: the first block at or after the packet's that is
\* the ring's current block.
ResetStart(p) ==
  LET pkt_block_i == block_for_mcnt(p.mcnt)
      ahead == IF block_i >= pkt_block_i
                 THEN block_i - pkt_block_i
                 ELSE block_i + N - pkt_block_i
      pkt_mcnt == p.mcnt + Nm * ahead
  IN  pkt_mcnt - (pkt_mcnt % Nm)

\* process_packet's return value and what run() makes of it: NETMCNT is set to
\* the filled block's mcnt, unless the packet's sid is bad (-1 is returned).
ReportedMcnt_New == IF pkt.sid_ok THEN mcnt_start ELSE NETMCNT    \* mutant
ReportedMcnt == IF pkt.sid_ok THEN mcnt_start - Nm ELSE NETMCNT

-----------------------------------------------------------------------------
Init ==
  /\ sem = [b \in Blocks |-> 0]
  /\ block = [b \in Blocks |-> [mcnt |-> 0, missed |-> 0, slots |-> {}]]
  /\ mcnt_start = 0
  /\ block_i = 0
  /\ out_of_seq_cnt = 0
  /\ block_packet_counter = [b \in Blocks |-> 0]
  /\ last_filled = -1
  /\ NETMCNT = NoMcnt
  /\ pc = "acquire0"
  /\ pkt = NoPacket

\* run(): acquire the first block of the ring.
AcquireFirst ==
  /\ pc = "acquire0"
  /\ sem[0] = 0
  /\ pc' = "acquire1"
  /\ UNCHANGED <<sem, block, binfo, last_filled, NETMCNT, pkt>>

\* run(): acquire the second block, then initialize both.
AcquireSecond ==
  /\ pc = "acquire1"
  /\ sem[1] = 0
  /\ block' = initialize_block(initialize_block(block, 0), Nm)
  /\ pc' = "recv"
  /\ UNCHANGED <<sem, binfo, last_filled, NETMCNT, pkt>>

\* The tail of the expected-packet branch: it counts the packet before it
\* looks at the sid.  blk and cnt are the blocks and counters so far.
TakePacket(p, blk, cnt) ==
  /\ out_of_seq_cnt' = 0
  /\ block_packet_counter' = [cnt EXCEPT ![block_for_mcnt(p.mcnt)] = @ + 1]
  /\ block' = copy_packet(blk, p)

\* The bound: a block's counter has room for the packet.
InBound(p) == block_packet_counter[block_for_mcnt(p.mcnt)] < MaxCount

\* A packet for the current block or the first half of the next one.
ExpectedPacket(p) ==
  /\ pc = "recv"
  /\ IsExpected(p)
  /\ ~CompletesBlock(p)
  /\ InBound(p)
  /\ TakePacket(p, block, block_packet_counter)
  /\ UNCHANGED <<sem, mcnt_start, block_i, last_filled, NETMCNT, pc, pkt>>

\* Hand the current block to the next thread; the static last_filled follows
\* the order in which blocks should be filled.
set_block_filled ==
  /\ last_filled' = (last_filled + 1) % N
  /\ sem' = [sem EXCEPT ![block_for_mcnt(mcnt_start)] = 1]

\* A packet for the second half of the next block: hand the current block to
\* the next thread and advance, then wait for the block after the new current
\* one with the packet still in hand.
FillBlock(p) ==
  /\ pc = "recv"
  /\ IsExpected(p)
  /\ CompletesBlock(p)
  /\ InBound(p)
  /\ set_block_filled
  /\ mcnt_start' = mcnt_start + Nm
  /\ block_i' = NextBlock(block_i)
  /\ pc' = "acquire"
  /\ pkt' = p
  /\ UNCHANGED <<block, out_of_seq_cnt, block_packet_counter, NETMCNT>>

\* The block after the current one is free: initialize it, take the packet in
\* hand and report the filled block's mcnt, unless the packet's sid is bad.
AcquireNext ==
  LET new_block_i == NextBlock(block_i)
  IN  /\ pc = "acquire"
      /\ sem[new_block_i] = 0
      /\ TakePacket(pkt,
                    initialize_block(block, pkt.mcnt + Nm),
                    [block_packet_counter EXCEPT ![new_block_i] = 0])
      /\ NETMCNT' = ReportedMcnt
      /\ pc' = "recv"
      /\ pkt' = NoPacket
      /\ UNCHANGED <<sem, mcnt_start, block_i, last_filled>>

\* A packet that is late, but not by two whole rings, is ignored.
LatePacket(p) ==
  /\ pc = "recv"
  /\ IsLate(p)
  /\ UNCHANGED vars

\* An out-of-sequence packet that is only counted.
OutOfSeqPacket(p) ==
  /\ pc = "recv"
  /\ ~IsExpected(p) /\ ~IsLate(p)
  /\ out_of_seq_cnt < MAX_OUT_OF_SEQ
  /\ out_of_seq_cnt' = out_of_seq_cnt + 1
  /\ UNCHANGED <<sem, block, mcnt_start, block_i, block_packet_counter,
                 last_filled, NETMCNT, pc, pkt>>

\* One out-of-sequence packet too many: restart from its mcnt, recycling the
\* two blocks already held.  The counter keeps its value, past the limit.
ResetMcnt(p) ==
  LET start == ResetStart(p)
      cur == block_for_mcnt(start)
  IN  /\ pc = "recv"
      /\ ~IsExpected(p) /\ ~IsLate(p)
      /\ out_of_seq_cnt >= MAX_OUT_OF_SEQ
      /\ out_of_seq_cnt' = MAX_OUT_OF_SEQ + 1
      /\ mcnt_start' = start
      /\ block_i' = cur
      /\ block' = initialize_block(initialize_block(block, start), start + Nm)
      /\ block_packet_counter' =
           [block_packet_counter EXCEPT ![cur] = 0, ![NextBlock(cur)] = 0]
      /\ UNCHANGED <<sem, last_filled, NETMCNT, pc, pkt>>

ProcessPacket(p) ==
  \/ ExpectedPacket(p)
  \/ FillBlock(p)
  \/ LatePacket(p)
  \/ OutOfSeqPacket(p)
  \/ ResetMcnt(p)

\* The thread downstream frees a block it was given.
FreeBlock(b) ==
  /\ sem[b] = 1
  /\ sem' = [sem EXCEPT ![b] = 0]
  /\ UNCHANGED <<block, binfo, last_filled, NETMCNT, pc, pkt>>

Next ==
  \/ AcquireFirst
  \/ AcquireSecond
  \/ AcquireNext
  \/ \E p \in Packets : ProcessPacket(p)
  \/ \E b \in Blocks : FreeBlock(b)

Spec == Init /\ [][Next]_vars

-----------------------------------------------------------------------------
(* Properties.                                                             *)

\* The variables keep to their types: ring indices stay in the ring, counters
\* in their bounds, and the header's missed_pkts in its machine word.
TypeOK ==
  /\ sem \in [Blocks -> {0, 1}]
  /\ block \in [Blocks -> InputBlock]
  /\ mcnt_start \in Nat
  /\ block_i \in Blocks
  /\ out_of_seq_cnt \in 0 .. MAX_OUT_OF_SEQ + 1
  /\ block_packet_counter \in [Blocks -> 0 .. MaxCount]
  /\ last_filled \in Blocks \cup {-1}
  /\ NETMCNT \in Nat \cup {NoMcnt}
  /\ pc \in {"acquire0", "acquire1", "recv", "acquire"}
  /\ pkt \in Packets \cup {NoPacket}

\* While it takes packets the thread holds the current block and the one after
\* it, and while it waits for the latter it still holds the former: the two
\* blocks process_packet copies into are never ones the GPU thread was given,
\* whatever order packets come in and however many resets there were.
HoldsTwoBlocks ==
  /\ pc \in {"recv", "acquire"} => sem[block_i] = 0
  /\ pc = "recv" => sem[NextBlock(block_i)] = 0

\* Blocks are marked filled in ring order, resets included: the check that
\* set_block_filled makes with last_filled ("being marked filled, but
\* expected block") and the one it makes with binfo->block_i never warn.
FillsInRingOrder ==
  /\ block_i = (last_filled + 1) % N
  /\ block_i = block_for_mcnt(mcnt_start)

\* The headers of the two blocks held say what they will be filled with: the
\* block numbered block_i starts at mcnt_start and the next Nm mcnts later, so
\* every packet taken lands in a block whose header covers its mcnt.
HeadersCoverWindow ==
  pc = "recv" =>
    /\ block[block_i].mcnt = mcnt_start
    /\ block[NextBlock(block_i)].mcnt = mcnt_start + Nm

\* The number of packets counted in a held block (from which MISSEDPK and
\* MISSEDBM are computed) is never less than the number its header counts as
\* arrived, although the two are reset and updated at different places: the
\* status may only understate what a block misses.
CountersAgree ==
  pc = "recv" =>
    \A b \in {block_i, NextBlock(block_i)} :
      \E taken \in 0 .. block_packet_counter[b] :
        block[b].missed = (Nm - taken) % WordMod

\* A block that was marked filled is not written, in header or data, until
\* the thread downstream has freed it.
FilledBlocksAreStable ==
  [][\A b \in Blocks : sem[b] = 1 => block'[b] = block[b]]_vars

\* The input ring as the rest of the pipeline sees it.
Ring == INSTANCE InputRing WITH data <- block, cur <- block_i

\* Whatever packets arrive, the network thread keeps the promise of module
\* InputRing: it writes only into the two blocks it holds, it marks filled
\* exactly the current one, which it holds and which was free, and
\* a reset of the mcnt does not move it in the ring.
ImplementsInputRing == Ring!Spec

\* Doc of process_packet: its return value, stored as NETMCNT, is the marked
\* block's first mcnt whenever a packet causes a block to be marked as filled.
NetmcntIsLastFilled ==
  pc = "recv" /\ last_filled # -1 => NETMCNT = block[last_filled].mcnt
=============================================================================
