------------------------------ MODULE NetBeams ------------------------------
(***************************************************************************)
(* The network thread of the multi-beam receiver                           *)
(* (src/src/s6_net_thread.cpp): every beam has a digitizer of its own that *)
(* numbers its packets, the packets of all beams go into the same block,   *)
(* and missed packets are counted per beam.  One window (mcnt_start) is    *)
(* shared by all of them, so what matters here, and does not arise in      *)
(* module PktSock, is what the faults of one beam do to the others.        *)
(*                                                                         *)
(* The digitizers and the network are external: beams keep step with each  *)
(* other to within MaxSkew packets, any of them may be restarted, which    *)
(* takes its mcnt back to 0, or fall silent, and the network loses packets *)
(* and delivers strays.                                                    *)
(***************************************************************************)
EXTENDS Integers, FiniteSets, FiniteSetsExt

CONSTANTS
  N,            \* N_INPUT_BLOCKS
  Nm,           \* mcnts per block (N_FINE_CHAN)
  N_BEAMS,
  McntMod,      \* the mcnt field holds 0 .. McntMod-1 (2^48 in the code)
  WordMod,      \* missed_pkts[] counts modulo this (2^64)
  StartMcnts,   \* where the beams may be when the thread starts
  StraySids,    \* the sids of packets that come from nowhere, no beam's among them
  MaxSkew,      \* bound: packets a beam may be ahead of another
  MaxFaults     \* bound: packets lost, restarts of a beam and stray packets

ASSUME RingAssumption  == N \in Nat /\ N >= 3 /\ Nm \in Nat /\ Nm >= 2
ASSUME BeamAssumption  == N_BEAMS \in Nat \ {0}
ASSUME WordAssumption  == WordMod \in Nat /\ WordMod > Nm
ASSUME CounterAssumption == McntMod \in Nat \ {0} /\ StartMcnts \subseteq 0 .. McntMod-1
ASSUME StrayAssumption == \A s \in StraySids : s \notin 0 .. N_BEAMS-1
ASSUME FaultAssumption == MaxSkew \in Nat \ {0} /\ MaxFaults \in Nat

VARIABLES
  sem,                   \* the ring's semaphores: 0 free, 1 filled
  block,                 \* block[b]: header mcnt, missed_pkts per beam, and
                         \*   slots, the offsets that hold a packet, per beam
  mcnt_start, block_i, out_of_seq_cnt, block_packet_counter,    \* binfo
  last_filled,           \* the static of set_block_filled
  MISSPER,               \* MISSPER0.., as counts: what each beam missed in the
                         \*   block filled last
  block_missed,          \* the block's own count, which MISSPKTL sums up
  NETHOLD,               \* the status key: NoKey, 0 or 1
  pc,                    \* where the thread is
  pkt,                   \* the packet in hand while it waits for a free block
  tx,                    \* tx[s]: the mcnt of beam s's next packet
  lead,                  \* packets beam s is ahead of the slowest beam
  live,                  \* the beams that send
  insync,                \* history: the beam's packet received last was expected
  losses, restarts, strays

binfo == <<mcnt_start, block_i, out_of_seq_cnt, block_packet_counter>>
missed == <<MISSPER, block_missed>>
status == <<missed, NETHOLD>>
net == <<tx, lead, live, insync, losses, restarts, strays>>
thread == <<block, binfo, last_filled, missed, pc, pkt>>
vars == <<sem, thread, NETHOLD, net>>

Blocks == 0 .. N-1
Beams == 0 .. N_BEAMS-1
Offsets == 0 .. Nm-1
NoKey == -1
Strays == [mcnt : 0 .. McntMod-1, sid : StraySids]
Packets == [mcnt : 0 .. McntMod-1, sid : Beams \cup StraySids]
NoPacket == [mcnt |-> -1, sid |-> 0]

MAX_OUT_OF_SEQ == 2 * N_BEAMS
LATE_PKT_MCNT_THRESHOLD == 2 * Nm * N

\* After a rollover enough packets are too far back to count as merely late,
\* even if some of them are lost or strays end a run of out-of-sequence ones
\* (2^48 is far beyond that).
ASSUME RolloverAssumption ==
  McntMod >= LATE_PKT_MCNT_THRESHOLD + 2 * Nm + 2 * MaxSkew
               + (MaxFaults + 1) * (MAX_OUT_OF_SEQ + 1)

block_for_mcnt(m) == (m \div Nm) % N
NextBlock(b) == (b + 1) % N

InputBlock == [mcnt   : Nat,
               missed : [Beams -> 0 .. WordMod-1],
               slots  : [Beams -> SUBSET Offsets]]

EmptyBlock(m) ==
  [mcnt   |-> m - (m % Nm),
   missed |-> [s \in Beams |-> Nm],
   slots  |-> [s \in Beams |-> {}]]

\* Mutant: the missed-packet counters keep their values.
initialize_block_KeepsMissed(blk, m) ==
  [blk EXCEPT ![block_for_mcnt(m)] =
     [EmptyBlock(m) EXCEPT !.missed = blk[block_for_mcnt(m)].missed]]

initialize_block(blk, m) == [blk EXCEPT ![block_for_mcnt(m)] = EmptyBlock(m)]

\* calc_block_indexes turns away a packet whose sid is no beam; the rest is
\* counted for its beam and copied to its place.
SidOk(p) == p.sid \in Beams

copy_packet(blk, p) ==
  IF SidOk(p)
    THEN [blk EXCEPT
            ![block_for_mcnt(p.mcnt)].missed[p.sid] = (@ - 1) % WordMod,
            ![block_for_mcnt(p.mcnt)].slots[p.sid] = @ \cup {p.mcnt % Nm}]
    ELSE blk

Dist(p) == p.mcnt - mcnt_start
IsExpected(p) == 0 <= Dist(p) /\ Dist(p) < 2 * Nm
CompletesBlock(p) == Dist(p) >= 3 * (Nm \div 2)

\* Mutant: there is no limit to what counts as late.
IsLate_NoLimit(p) == Dist(p) < 0
IsLate(p) == Dist(p) < 0 /\ Dist(p) > -LATE_PKT_MCNT_THRESHOLD

TooManyOutOfSeq == out_of_seq_cnt >= MAX_OUT_OF_SEQ

\* Mutant: the packet's own mcnt, whatever block of the ring is current.
ResetStart_Unaligned(p) == p.mcnt - (p.mcnt % Nm)

\* Where a reset restarts: the first block at or after the packet's that is
\* the ring's current block.
ResetStart(p) ==
  LET first == p.mcnt - (p.mcnt % Nm)
  IN  first + Nm * ((block_i - block_for_mcnt(p.mcnt)) % N)

-----------------------------------------------------------------------------
Init ==
  /\ sem = [b \in Blocks |-> 0]
  /\ block = [b \in Blocks |-> [EmptyBlock(0) EXCEPT !.missed = [s \in Beams |-> 0]]]
  /\ mcnt_start = 0
  /\ block_i = 0
  /\ out_of_seq_cnt = 0
  /\ block_packet_counter = [b \in Blocks |-> 0]
  /\ last_filled = -1
  /\ MISSPER = [s \in Beams |-> 0]
  /\ block_missed = 0
  /\ NETHOLD = NoKey
  /\ pc = "start"
  /\ pkt = NoPacket
  /\ \E m \in StartMcnts : tx = [s \in Beams |-> m]
  /\ lead = [s \in Beams |-> 0]
  /\ live = Beams
  /\ insync = [s \in Beams |-> FALSE]
  /\ losses = 0
  /\ restarts = 0
  /\ strays = 0

\* run(): "force ourself into the hold off state".
EnterHold ==
  /\ pc = "start"
  /\ NETHOLD' = 1
  /\ pc' = "hold"
  /\ UNCHANGED <<sem, block, binfo, last_filled, missed, pkt, net>>

\* The start script releases the hold once the thread has set it.
ReleaseHold ==
  /\ NETHOLD = 1
  /\ NETHOLD' = 0
  /\ UNCHANGED <<sem, thread, net>>

\* The poll finds the hold released, deletes the key and clears the per-beam
\* counters in the status.
LeaveHold ==
  /\ pc = "hold"
  /\ NETHOLD = 0
  /\ NETHOLD' = NoKey
  /\ MISSPER' = [s \in Beams |-> 0]
  /\ pc' = "acquire0"
  /\ UNCHANGED <<sem, block, binfo, last_filled, block_missed, pkt, net>>

AcquireFirst ==
  /\ pc = "acquire0"
  /\ sem[0] = 0
  /\ pc' = "acquire1"
  /\ UNCHANGED <<sem, block, binfo, last_filled, status, pkt, net>>

\* The second block; both are initialized, and the benchmark overwrites the
\* data of every block of the ring, held or not.
s6_memcpy_benchmark(blk) ==
  [b \in Blocks |-> [blk[b] EXCEPT !.slots = [s \in Beams |-> {}]]]

AcquireSecond ==
  /\ pc = "acquire1"
  /\ sem[1] = 0
  /\ block' = s6_memcpy_benchmark(initialize_block(initialize_block(block, 0), Nm))
  /\ pc' = "recv"
  /\ UNCHANGED <<sem, binfo, last_filled, status, pkt, net>>

\* Mutant: a recycled block keeps its packet count.
FreshCounter_Kept(cnt, b) == cnt
FreshCounter(cnt, b) == [cnt EXCEPT ![b] = 0]

\* Mutant: an expected packet does not end the run of out-of-sequence ones.
TakePacket_KeepsCount(p, blk, cnt) ==
  /\ out_of_seq_cnt' = out_of_seq_cnt
  /\ block_packet_counter' = [cnt EXCEPT ![block_for_mcnt(p.mcnt)] = @ + 1]
  /\ block' = copy_packet(blk, p)

\* The tail of the expected-packet branch; blk and cnt are the blocks and the
\* counters so far.
TakePacket(p, blk, cnt) ==
  /\ out_of_seq_cnt' = 0
  /\ block_packet_counter' = [cnt EXCEPT ![block_for_mcnt(p.mcnt)] = @ + 1]
  /\ block' = copy_packet(blk, p)

ExpectedPacket(p) ==
  /\ IsExpected(p)
  /\ ~CompletesBlock(p)
  /\ TakePacket(p, block, block_packet_counter)
  /\ UNCHANGED <<sem, mcnt_start, block_i, last_filled, missed, pc, pkt>>

total_missed_pkts == block[block_i].missed

\* A packet for the second half of the next block completes the current one:
\* what its header says each beam missed goes to the status.
FillBlock(p) ==
  /\ IsExpected(p)
  /\ CompletesBlock(p)
  /\ MISSPER' = total_missed_pkts
  /\ block_missed' = (Nm * N_BEAMS - block_packet_counter[block_i]) % WordMod
  /\ last_filled' = (last_filled + 1) % N
  /\ sem' = [sem EXCEPT ![block_for_mcnt(mcnt_start)] = 1]
  /\ mcnt_start' = mcnt_start + Nm
  /\ block_i' = NextBlock(block_i)
  /\ pc' = "acquire"
  /\ pkt' = p
  /\ UNCHANGED <<block, out_of_seq_cnt, block_packet_counter>>

\* The block after the new current one is free: take the packet in hand.
AcquireNext ==
  LET new_block_i == NextBlock(block_i)
  IN  /\ pc = "acquire"
      /\ sem[new_block_i] = 0
      /\ TakePacket(pkt,
                    initialize_block(block, pkt.mcnt + Nm),
                    FreshCounter(block_packet_counter, new_block_i))
      /\ pc' = "recv"
      /\ pkt' = NoPacket
      /\ UNCHANGED <<sem, mcnt_start, block_i, last_filled, missed, NETHOLD, net>>

LatePacket(p) ==
  /\ IsLate(p)
  /\ UNCHANGED <<sem, thread>>

OutOfSeqPacket(p) ==
  /\ ~IsExpected(p) /\ ~IsLate(p)
  /\ ~TooManyOutOfSeq
  /\ out_of_seq_cnt' = out_of_seq_cnt + 1
  /\ UNCHANGED <<sem, block, mcnt_start, block_i, block_packet_counter,
                 last_filled, missed, pc, pkt>>

\* One too many: restart from the packet's mcnt with the two blocks held.  The
\* count stays past its limit (merged here) until a packet is expected again.
ResetMcnt(p) ==
  LET start == ResetStart(p)
      cur == block_for_mcnt(start)
  IN  /\ ~IsExpected(p) /\ ~IsLate(p)
      /\ TooManyOutOfSeq
      /\ out_of_seq_cnt' = MAX_OUT_OF_SEQ + 1
      /\ mcnt_start' = start
      /\ block_i' = cur
      /\ block' = initialize_block(initialize_block(block, start), start + Nm)
      /\ block_packet_counter' =
           [block_packet_counter EXCEPT ![cur] = 0, ![NextBlock(cur)] = 0]
      /\ UNCHANGED <<sem, last_filled, missed, pc, pkt>>

process_packet(p) ==
  /\ pc = "recv"
  /\ \/ ExpectedPacket(p)
     \/ FillBlock(p)
     \/ LatePacket(p)
     \/ OutOfSeqPacket(p)
     \/ ResetMcnt(p)
  /\ UNCHANGED NETHOLD

-----------------------------------------------------------------------------
(* The beams and the network.                                              *)

\* Beam s sends its next packet; the slowest of the live beams has lead 0.
Turn(s) ==
  LET l == [lead EXCEPT ![s] = @ + 1]
      slowest == Min({l[o] : o \in live})
  IN  /\ s \in live
      /\ l[s] - slowest <= MaxSkew
      /\ lead' = [o \in Beams |-> IF o \in live THEN l[o] - slowest ELSE 0]
      /\ tx' = [tx EXCEPT ![s] = (@ + 1) % McntMod]
      /\ UNCHANGED <<live, restarts, strays>>

Receive(s) ==
  /\ process_packet([mcnt |-> tx[s], sid |-> s])
  /\ Turn(s)
  /\ insync' = [insync EXCEPT ![s] = IsExpected([mcnt |-> tx[s], sid |-> s])]
  /\ UNCHANGED losses

MayFail == losses + restarts + strays < MaxFaults

Lose(s) ==
  /\ MayFail
  /\ losses' = losses + 1
  /\ Turn(s)
  /\ UNCHANGED <<sem, thread, NETHOLD, insync>>

ReceiveStray(p) ==
  /\ MayFail
  /\ strays' = strays + 1
  /\ process_packet(p)
  /\ UNCHANGED <<tx, lead, live, insync, losses, restarts>>

Restart(s) ==
  /\ s \in live
  /\ MayFail
  /\ restarts' = restarts + 1
  /\ tx' = [tx EXCEPT ![s] = 0]
  /\ UNCHANGED <<sem, thread, NETHOLD, lead, live, insync, losses, strays>>

\* All but one of the beams may fall silent.
FallSilent(s) ==
  /\ s \in live
  /\ live # {s}
  /\ live' = live \ {s}
  /\ lead' = [lead EXCEPT ![s] = 0]
  /\ UNCHANGED <<sem, thread, NETHOLD, tx, insync, losses, restarts, strays>>

\* The thread downstream.
FreeBlock(b) ==
  /\ sem[b] = 1
  /\ sem' = [sem EXCEPT ![b] = 0]
  /\ UNCHANGED <<thread, NETHOLD, net>>

Next ==
  \/ EnterHold
  \/ ReleaseHold
  \/ LeaveHold
  \/ AcquireFirst
  \/ AcquireSecond
  \/ AcquireNext
  \/ \E s \in Beams : Receive(s) \/ Lose(s) \/ Restart(s) \/ FallSilent(s)
  \/ \E p \in Strays : ReceiveStray(p)
  \/ \E b \in Blocks : FreeBlock(b)

Spec == Init /\ [][Next]_vars

\* The thread runs, the script releases the hold, the beams that live send,
\* and the thread downstream frees what it was given.
Fairness ==
  /\ WF_vars(EnterHold \/ LeaveHold \/ AcquireFirst \/ AcquireSecond \/ AcquireNext)
  /\ WF_vars(ReleaseHold)
  /\ WF_vars(\E s \in Beams : Receive(s))
  /\ \A b \in Blocks : WF_vars(FreeBlock(b))

FairSpec == Spec /\ Fairness

-----------------------------------------------------------------------------
(* Properties.                                                             *)

\* The variables keep to their types.
ThreadTypeOK ==
  /\ sem \in [Blocks -> {0, 1}]
  /\ block \in [Blocks -> InputBlock]
  /\ mcnt_start \in Nat
  /\ block_i \in Blocks
  /\ out_of_seq_cnt \in 0 .. MAX_OUT_OF_SEQ + 1
  /\ block_packet_counter \in [Blocks -> Nat]
  /\ last_filled \in Blocks \cup {-1}
  /\ MISSPER \in [Beams -> 0 .. WordMod-1]
  /\ block_missed \in 0 .. WordMod-1
  /\ NETHOLD \in {NoKey, 0, 1}
  /\ pc \in {"start", "hold", "acquire0", "acquire1", "recv", "acquire"}
  /\ pkt \in Packets \cup {NoPacket}

NetTypeOK ==
  /\ tx \in [Beams -> 0 .. McntMod-1]
  /\ lead \in [Beams -> 0 .. MaxSkew]
  /\ live \in SUBSET Beams
  /\ insync \in [Beams -> BOOLEAN]
  /\ {losses, restarts, strays} \subseteq 0 .. MaxFaults

TypeOK == ThreadTypeOK /\ NetTypeOK

SumOver(f) == MapThenSumSet(LAMBDA s : f[s], DOMAIN f)

Gaps(b) == [s \in Beams |-> Nm - Cardinality(block[b].slots[s])]

\* The losses reported are, beam by beam, the gaps in the data: in the header
\* of a block held or handed on, and in the status for the block filled last,
\* whichever beam lost packets, fell silent or was reset to the others'
\* window (a restarted beam sends the same mcnts again, and may hide gaps).
MissedIsGapsPerBeam ==
  pc = "recv" /\ restarts = 0 =>
    /\ \A b \in Blocks :
         sem[b] = 1 \/ b \in {block_i, NextBlock(block_i)} =>
           block[b].missed = Gaps(b)
    /\ last_filled # -1 /\ sem[last_filled] = 1 => MISSPER = Gaps(last_filled)

\* The two counts of what a block missed agree, though one is kept per beam in
\* its header and the other per block in binfo, and they are reset at
\* different places (a packet without a beam is counted by the second only).
TotalsAgree ==
  strays = 0 => (SumOver(MISSPER) - block_missed) % WordMod = 0

\* "This allows for 2 out of sequence packets from each beam (in a row)": the
\* window is never reset while the last packet of a live beam was in it,
\* whatever the others send after a restart or a rollover.
ResetNeedsEveryBeam ==
  [][mcnt_start' \notin {mcnt_start, mcnt_start + Nm} =>
       \A s \in live : ~insync'[s]]_vars

\* The input ring as the rest of the pipeline sees it.
Ring == INSTANCE InputRing WITH data <- block, cur <- block_i,
                                pc <- IF pc \in {"start", "hold"} THEN "acquire0" ELSE pc

\* This network thread, too, keeps the promise of module InputRing.
ImplementsInputRing == Ring!Spec

\* The counters of the beams that live agree, but for what one is ahead of
\* another: none was restarted, or all the others fell silent.
InStep ==
  \A s, o \in live : ((tx[s] - lead[s]) - (tx[o] - lead[o])) % McntMod = 0

\* Losses, strays, rollovers, restarts and silence of beams stop the
\* acquisition only for a while, as long as the beams that send are in step.
\* (Two beams whose counters are far apart may take the window from each other
\* packet by packet, so that no block is ever completed.)
BlocksKeepComing == <>[]InStep => \A b \in Blocks : []<>(sem[b] = 1)
=============================================================================
