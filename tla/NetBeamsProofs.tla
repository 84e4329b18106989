--------------------------- MODULE NetBeamsProofs ---------------------------
(***************************************************************************)
(* What module NetBeams' thread keeps true for every ring and block size,  *)
(* every number of beams and all the bounds of its network: it writes only *)
(* blocks that it holds and hands them on in ring order, the losses it     *)
(* reports are beam by beam the gaps in the data, its two counts of them   *)
(* agree, and a beam that is in step is not reset by the others.           *)
(***************************************************************************)
EXTENDS NetBeams, Arithmetic, FiniteSetTheorems, WellFoundedInduction

\* The thread has its first two blocks.
Running == pc \in {"recv", "acquire"}

\* Before that nothing has happened to the ring.
Idle ==
  /\ mcnt_start = 0
  /\ last_filled = -1
  /\ block_missed = 0
  /\ out_of_seq_cnt = 0
  /\ \A b \in Blocks : /\ sem[b] = 0
                       /\ block_packet_counter[b] = 0
                       /\ block[b].slots = [s \in Beams |-> {}]

\* The ring positions and the current mcnt hang together, the blocks the
\* thread holds are marked free, and the packet in hand belongs to the
\* current one.
WindowInv ==
  /\ mcnt_start % Nm = 0
  /\ block_i = block_for_mcnt(mcnt_start)
  /\ block_i = (last_filled + 1) % N
  /\ ~Running => Idle
  /\ Running => sem[block_i] = 0
  /\ pc = "recv" => sem[NextBlock(block_i)] = 0
  /\ pc = "acquire" => /\ pkt \in Packets
                       /\ pkt.mcnt \in mcnt_start .. mcnt_start + Nm - 1

\* Some beam lives, and the faults keep to their bound.
NetInv ==
  /\ live # {}
  /\ losses + restarts + strays <= MaxFaults

IInv == TypeOK /\ WindowInv /\ NetInv

-----------------------------------------------------------------------------
(* The helpers.                                                            *)

\* The constants the arithmetic is about.
LEMMA Sizes ==
  /\ N \in Nat \ {0} /\ N >= 3
  /\ Nm \in Nat \ {0} /\ Nm >= 2
  /\ WordMod \in Nat \ {0} /\ WordMod > Nm
  /\ McntMod \in Nat \ {0}
  /\ MaxSkew \in Nat \ {0} /\ MaxFaults \in Nat
  /\ N_BEAMS \in Nat \ {0}
  /\ MAX_OUT_OF_SEQ \in Nat
  BY RingAssumption, BeamAssumption, WordAssumption, CounterAssumption, FaultAssumption
     DEF MAX_OUT_OF_SEQ

LEMMA NextBlockType ==
  ASSUME NEW b \in Blocks
  PROVE  /\ NextBlock(b) \in Blocks /\ NextBlock(b) # b
         /\ NextBlock(b) = IF b = N - 1 THEN 0 ELSE b + 1
  <1>1. \A i \in 0 .. N-1 : (i + 1) % N = IF i = N - 1 THEN 0 ELSE i + 1
    BY RingNext, Sizes
  <1>2. NextBlock(b) = IF b = N - 1 THEN 0 ELSE b + 1
    BY <1>1 DEF NextBlock, Blocks
  <1> QED
    BY <1>2, Sizes DEF Blocks

\* block_for_mcnt gives a block of the ring, Nm mcnts later the one after it,
\* and the same block for all mcnts of a block.
LEMMA BlockForMcnt ==
  ASSUME NEW m \in Nat
  PROVE  /\ block_for_mcnt(m) \in Blocks
         /\ block_for_mcnt(m + Nm) = NextBlock(block_for_mcnt(m))
         /\ block_for_mcnt(m - (m % Nm)) = block_for_mcnt(m)
  <1>1. \A n, k \in Nat \ {0} :
          /\ (m \div n) % k \in 0 .. k-1
          /\ ((m - (m % n)) \div n) % k = (m \div n) % k
          /\ ((m + n) \div n) % k = (((m \div n) % k) + 1) % k
    BY RingPosition
  <1> QED
    BY <1>1, Sizes DEF block_for_mcnt, NextBlock, Blocks

LEMMA SameBlock ==
  ASSUME NEW s \in Nat, s % Nm = 0, NEW m \in s .. s + Nm - 1
  PROVE  /\ block_for_mcnt(m) = block_for_mcnt(s)
         /\ m % Nm = m - s
         /\ m % Nm \in Offsets
  <1>1. m \div Nm = s \div Nm /\ m - (m % Nm) = s
    BY RoundsDown, Sizes
  <1>2. m \in Int /\ m % Nm \in 0 .. Nm-1
    BY DivMod, Sizes
  <1> QED
    BY <1>1, <1>2 DEF block_for_mcnt, Offsets

LEMMA AtZero == 0 % Nm = 0 /\ block_for_mcnt(0) = 0 /\ 0 % N = 0 /\ 0 \in Blocks
  <1>1. ((Nm * 0) + 0) \div Nm = 0 /\ ((Nm * 0) + 0) % Nm = 0
    BY DivModUnique, Sizes, 0 \in 0 .. Nm-1, 0 \in Int
  <1>2. ((N * 0) + 0) % N = 0
    BY DivModUnique, Sizes, 0 \in 0 .. N-1, 0 \in Int
  <1>3. (Nm * 0) + 0 = 0 /\ (N * 0) + 0 = 0 /\ 0 \in 0 .. N-1
    BY Sizes
  <1> QED
    BY <1>1, <1>2, <1>3 DEF block_for_mcnt, Blocks

LEMMA EmptyBlockType ==
  ASSUME NEW m \in Nat
  PROVE  EmptyBlock(m) \in InputBlock
  <1>1. m - (m % Nm) \in Nat
    BY RoundDown, Sizes
  <1>2. Nm \in 0 .. WordMod-1
    BY Sizes
  <1> QED
    BY <1>1, <1>2 DEF EmptyBlock, InputBlock

\* initialize_block empties the block of its mcnt, and touches no other.
LEMMA InitializeBlock ==
  ASSUME NEW blk \in [Blocks -> InputBlock], NEW m \in Nat
  PROVE  /\ initialize_block(blk, m) \in [Blocks -> InputBlock]
         /\ initialize_block(blk, m)[block_for_mcnt(m)] = EmptyBlock(m)
         /\ \A b \in Blocks : b # block_for_mcnt(m) => initialize_block(blk, m)[b] = blk[b]
  BY BlockForMcnt, EmptyBlockType DEF initialize_block

\* Blocks of a beam's packet p after it was copied: its offset is taken.
LEMMA CopyPacket ==
  ASSUME NEW blk \in [Blocks -> InputBlock], NEW p \in Packets
  PROVE  /\ copy_packet(blk, p) \in [Blocks -> InputBlock]
         /\ p.sid \notin Beams => copy_packet(blk, p) = blk
         /\ \A b \in Blocks : b # block_for_mcnt(p.mcnt) => copy_packet(blk, p)[b] = blk[b]
         /\ p.sid \in Beams =>
              LET old == blk[block_for_mcnt(p.mcnt)]
                  new == copy_packet(blk, p)[block_for_mcnt(p.mcnt)]
              IN  /\ new.missed = [old.missed EXCEPT ![p.sid] = (@ - 1) % WordMod]
                  /\ new.slots = [old.slots EXCEPT ![p.sid] = @ \cup {p.mcnt % Nm}]
  <1> DEFINE pb == block_for_mcnt(p.mcnt)
             x == blk[pb]
             y == [x EXCEPT !.missed = [x.missed EXCEPT ![p.sid] = (@ - 1) % WordMod],
                            !.slots = [x.slots EXCEPT ![p.sid] = @ \cup {p.mcnt % Nm}]]
  <1>1. p.mcnt \in Nat
    BY Sizes DEF Packets
  <1>2. pb \in Blocks
    BY <1>1, BlockForMcnt
  <1>3. x \in InputBlock
    BY <1>2
  <1>4. CASE p.sid \in Beams
    <2>1. p.mcnt % Nm \in Offsets
      <3>1. \A i \in Int : i % Nm \in 0 .. Nm-1
        BY DivMod, Sizes
      <3> QED
        BY <1>1, <3>1 DEF Offsets
    <2>2. (x.missed[p.sid] - 1) % WordMod \in 0 .. WordMod-1
      <3>1. \A i \in Int : i % WordMod \in 0 .. WordMod-1
        BY DivMod, Sizes
      <3>2. x.missed[p.sid] \in Int
        BY <1>3, <1>4 DEF InputBlock
      <3> QED
        BY <3>1, <3>2
    <2>3. [x.missed EXCEPT ![p.sid] = (@ - 1) % WordMod] \in [Beams -> 0 .. WordMod-1]
      BY <1>3, <2>2 DEF InputBlock
    <2>4. [x.slots EXCEPT ![p.sid] = @ \cup {p.mcnt % Nm}] \in [Beams -> SUBSET Offsets]
      BY <1>3, <1>4, <2>1 DEF InputBlock
    <2>5. /\ y \in InputBlock
          /\ y.missed = [x.missed EXCEPT ![p.sid] = (@ - 1) % WordMod]
          /\ y.slots = [x.slots EXCEPT ![p.sid] = @ \cup {p.mcnt % Nm}]
      BY <1>3, <2>3, <2>4 DEF InputBlock
    <2>6. copy_packet(blk, p) = [blk EXCEPT ![pb] = y]
      BY <1>2, <1>3, <1>4 DEF copy_packet, SidOk, InputBlock
    <2> HIDE DEF pb, y
    <2>7. /\ copy_packet(blk, p) \in [Blocks -> InputBlock]
          /\ copy_packet(blk, p)[pb] = y
          /\ \A b \in Blocks : b # pb => copy_packet(blk, p)[b] = blk[b]
      BY <1>2, <2>5, <2>6
    <2> QED
      BY <1>4, <2>5, <2>7 DEF pb
  <1>5. CASE p.sid \notin Beams
    BY <1>5 DEF copy_packet, SidOk
  <1> QED
    BY <1>4, <1>5

\* A reset restarts at a block boundary whose block is the current one.
LEMMA ResetKeepsBlock ==
  ASSUME ThreadTypeOK, NEW p \in Packets
  PROVE  /\ ResetStart(p) \in Nat
         /\ ResetStart(p) % Nm = 0
         /\ block_for_mcnt(ResetStart(p)) = block_i
  <1> DEFINE first == p.mcnt - (p.mcnt % Nm)
             pb == block_for_mcnt(p.mcnt)
             ahead == (block_i - pb) % N
             q == first \div Nm
  <1>1. p.mcnt \in Nat
    BY Sizes DEF Packets
  <1>2. first \in Nat /\ first % Nm = 0
    BY <1>1, RoundDown, Sizes
  <1>3. pb \in 0 .. N-1 /\ pb = q % N /\ q \in Int
    <2>1. q = p.mcnt \div Nm /\ p.mcnt \div Nm \in Nat
      BY <1>1, RoundDown, Sizes
    <2> QED
      BY <1>1, <2>1, BlockForMcnt DEF Blocks, block_for_mcnt
  <1>4. block_i \in 0 .. N-1
    BY DEF ThreadTypeOK, Blocks
  <1> HIDE DEF first, pb, q
  <1>5. ahead \in 0 .. N-1 /\ (q + ahead) % N = block_i
    <2>1. ahead = IF block_i >= pb THEN block_i - pb ELSE block_i + N - pb
      <3>1. CASE block_i >= pb
        <4>1. block_i - pb \in 0 .. N-1 /\ block_i - pb = (N * 0) + (block_i - pb)
          BY <1>3, <1>4, <3>1, Sizes
        <4> QED
          BY <3>1, <4>1, DivModUnique, Sizes, 0 \in Int
      <3>2. CASE block_i < pb
        <4>1. block_i + N - pb \in 0 .. N-1 /\ block_i - pb = (N * (-1)) + (block_i + N - pb)
          BY <1>3, <1>4, <3>2, Sizes
        <4>2. ((N * (-1)) + (block_i + N - pb)) % N = block_i + N - pb
          BY <4>1, DivModUnique, Sizes, -1 \in Int
        <4> QED
          BY <1>3, <1>4, <3>2, <4>1, <4>2, Sizes
      <3> QED
        BY <1>3, <1>4, <3>1, <3>2
    <2> HIDE DEF ahead
    <2>2. /\ block_i >= pb => (q + (block_i - pb)) % N = block_i
          /\ block_i < pb => (q + (block_i + N - pb)) % N = block_i
      BY <1>3, <1>4, RingDistance, Sizes
    <2> QED
      BY <1>3, <1>4, <2>1, <2>2, Sizes
  <1>6. ResetStart(p) = first + (Nm * ahead)
    BY DEF ResetStart, first, pb
  <1> HIDE DEF ahead
  <1>7. first + (Nm * ahead) \in Nat
    BY <1>2, <1>5, Sizes
  <1>8. /\ (first + (Nm * ahead)) \div Nm = q + ahead
        /\ (first + (Nm * ahead)) % Nm = 0
    BY <1>2, <1>5, DivModShift, Sizes, first \in Int, ahead \in Int DEF q
  <1> QED
    BY <1>5, <1>6, <1>7, <1>8 DEF block_for_mcnt

\* mcnt_start moves on to the next block of the ring.
LEMMA StartAdvances ==
  ASSUME ThreadTypeOK, WindowInv
  PROVE  /\ (mcnt_start + Nm) % Nm = 0
         /\ block_for_mcnt(mcnt_start + Nm) = NextBlock(block_i)
         /\ mcnt_start \in Nat /\ mcnt_start + Nm \in Nat
  <1>1. mcnt_start \in Nat /\ mcnt_start % Nm = 0 /\ block_i = block_for_mcnt(mcnt_start)
    BY DEF ThreadTypeOK, WindowInv
  <1>2. (mcnt_start + Nm) % Nm = mcnt_start % Nm
    BY <1>1, RingPosition, Sizes
  <1> QED
    BY <1>1, <1>2, BlockForMcnt, Sizes

\* Where a packet that is expected belongs.
LEMMA ExpectedOffset ==
  ASSUME ThreadTypeOK, WindowInv, NEW p \in Packets, IsExpected(p)
  PROVE  /\ p.mcnt \in Nat /\ mcnt_start \in Nat
         /\ p.mcnt >= mcnt_start /\ p.mcnt < mcnt_start + 2 * Nm
         /\ p.mcnt < mcnt_start + Nm =>
              /\ block_for_mcnt(p.mcnt) = block_i
              /\ p.mcnt % Nm = p.mcnt - mcnt_start
         /\ ~(p.mcnt < mcnt_start + Nm) =>
              /\ block_for_mcnt(p.mcnt) = NextBlock(block_i)
              /\ p.mcnt % Nm = p.mcnt - (mcnt_start + Nm)
         /\ CompletesBlock(p) => p.mcnt \in mcnt_start + Nm .. (mcnt_start + Nm) + Nm - 1
  <1>1. p.mcnt \in Nat /\ mcnt_start \in Nat
    BY Sizes DEF Packets, ThreadTypeOK
  <1>2. p.mcnt >= mcnt_start /\ p.mcnt < mcnt_start + 2 * Nm
    BY <1>1, Sizes DEF IsExpected, Dist
  <1>3. CASE p.mcnt < mcnt_start + Nm
    <2>1. p.mcnt \in mcnt_start .. mcnt_start + Nm - 1
      BY <1>1, <1>2, <1>3, Sizes
    <2>2. ~CompletesBlock(p)
      BY <1>1, <1>3, Sizes DEF CompletesBlock, Dist
    <2>3. block_for_mcnt(p.mcnt) = block_i /\ p.mcnt % Nm = p.mcnt - mcnt_start
      BY <1>1, <2>1, SameBlock DEF WindowInv
    <2> QED
      BY <1>1, <1>2, <1>3, <2>2, <2>3
  <1>4. CASE ~(p.mcnt < mcnt_start + Nm)
    <2>1. p.mcnt \in mcnt_start + Nm .. (mcnt_start + Nm) + Nm - 1
      BY <1>1, <1>2, <1>4, Sizes
    <2>2. /\ block_for_mcnt(p.mcnt) = NextBlock(block_i)
          /\ p.mcnt % Nm = p.mcnt - (mcnt_start + Nm)
      BY <2>1, StartAdvances, SameBlock
    <2> QED
      BY <1>1, <1>2, <1>4, <2>1, <2>2
  <1> QED
    BY <1>3, <1>4

-----------------------------------------------------------------------------
(* What the steps of the thread do to the blocks.                          *)

\* A block that was just initialized.
Fresh(x) ==
  /\ x.missed = [s \in Beams |-> Nm]
  /\ x.slots = [s \in Beams |-> {}]

\* A block before and after packet p was copied into it.
Took(old, new, p) ==
  IF p.sid \in Beams
    THEN /\ new.missed = [old.missed EXCEPT ![p.sid] = (@ - 1) % WordMod]
         /\ new.slots = [old.slots EXCEPT ![p.sid] = @ \cup {p.mcnt % Nm}]
    ELSE new = old

LEMMA EmptyBlockFresh == \A m : Fresh(EmptyBlock(m))
  BY DEF Fresh, EmptyBlock

LEMMA TakeEffect ==
  ASSUME NEW blk \in [Blocks -> InputBlock], NEW p \in Packets
  PROVE  LET pb == block_for_mcnt(p.mcnt)
         IN  /\ pb \in Blocks
             /\ copy_packet(blk, p) \in [Blocks -> InputBlock]
             /\ Took(blk[pb], copy_packet(blk, p)[pb], p)
             /\ \A b \in Blocks : b # pb => copy_packet(blk, p)[b] = blk[b]
  <1>1. p.mcnt \in Nat
    BY Sizes DEF Packets
  <1>2. block_for_mcnt(p.mcnt) \in Blocks
    BY <1>1, BlockForMcnt
  <1> QED
    BY <1>2, CopyPacket DEF Took

\* Both blocks of a window recycled.
LEMMA FreshWindow ==
  ASSUME NEW blk \in [Blocks -> InputBlock], NEW m \in Nat
  PROVE  LET b0 == block_for_mcnt(m)
             b1 == NextBlock(b0)
             new == initialize_block(initialize_block(blk, m), m + Nm)
         IN  /\ new \in [Blocks -> InputBlock]
             /\ Fresh(new[b0]) /\ Fresh(new[b1])
             /\ \A b \in Blocks : b \notin {b0, b1} => new[b] = blk[b]
  <1> DEFINE b0 == block_for_mcnt(m)
             b1 == NextBlock(b0)
             mid == initialize_block(blk, m)
  <1>1. b0 \in Blocks /\ b1 \in Blocks /\ b1 # b0 /\ m + Nm \in Nat /\ block_for_mcnt(m + Nm) = b1
    BY BlockForMcnt, NextBlockType, Sizes
  <1>2. /\ mid \in [Blocks -> InputBlock]
        /\ mid[b0] = EmptyBlock(m)
        /\ \A b \in Blocks : b # b0 => mid[b] = blk[b]
    BY InitializeBlock
  <1> HIDE DEF mid, b0, b1
  <1>3. /\ initialize_block(mid, m + Nm) \in [Blocks -> InputBlock]
        /\ initialize_block(mid, m + Nm)[b1] = EmptyBlock(m + Nm)
        /\ \A b \in Blocks : b # b1 => initialize_block(mid, m + Nm)[b] = mid[b]
    BY <1>1, <1>2, InitializeBlock
  <1>4. Fresh(EmptyBlock(m)) /\ Fresh(EmptyBlock(m + Nm))
    BY EmptyBlockFresh
  <1> QED
    BY <1>1, <1>2, <1>3, <1>4 DEF mid, b0, b1

\* The second block comes: the two blocks held start anew, and the benchmark
\* changes nothing in the others, which were never written.
LEMMA AcquireSecondEffect ==
  ASSUME ThreadTypeOK, WindowInv, AcquireSecond
  PROVE  /\ block_i = 0 /\ NextBlock(0) = 1 /\ 0 \in Blocks /\ 1 \in Blocks
         /\ block' \in [Blocks -> InputBlock]
         /\ Fresh(block'[0]) /\ Fresh(block'[1])
         /\ \A b \in Blocks : b \notin {0, 1} => block'[b] = block[b]
  <1> DEFINE new == initialize_block(initialize_block(block, 0), Nm)
  <1>1. Idle /\ block_i = 0
    BY AtZero DEF AcquireSecond, WindowInv, Running, Idle
  <1>2. NextBlock(0) = 1 /\ 0 \in Blocks /\ 1 \in Blocks
    BY AtZero, NextBlockType, Sizes DEF Blocks
  <1>3. block_for_mcnt(0) = 0 /\ 0 + Nm = Nm /\ 0 \in Nat
    BY AtZero, Sizes
  <1>4. block \in [Blocks -> InputBlock]
    BY DEF ThreadTypeOK
  <1>5. /\ new \in [Blocks -> InputBlock]
        /\ Fresh(new[0]) /\ Fresh(new[1])
        /\ \A b \in Blocks : b \notin {0, 1} => new[b] = block[b]
    BY <1>2, <1>3, <1>4, FreshWindow
  <1>6. \A b \in Blocks : new[b].slots = [s \in Beams |-> {}]
    BY <1>1, <1>5 DEF Fresh, Idle
  <1>7. block' = s6_memcpy_benchmark(new)
    BY DEF AcquireSecond
  <1> HIDE DEF new
  <1>8. \A b \in Blocks : [new[b] EXCEPT !.slots = [s \in Beams |-> {}]] = new[b]
    BY <1>5, <1>6 DEF InputBlock
  <1>9. block' = new
    BY <1>5, <1>7, <1>8 DEF s6_memcpy_benchmark
  <1> QED
    BY <1>1, <1>2, <1>5, <1>9

\* A packet for one of the blocks held.
LEMMA ExpectedEffect ==
  ASSUME ThreadTypeOK, WindowInv, NEW p \in Packets, ExpectedPacket(p)
  PROVE  LET pb == block_for_mcnt(p.mcnt)
         IN  /\ pb \in {block_i, NextBlock(block_i)} /\ pb \in Blocks
             /\ block' \in [Blocks -> InputBlock]
             /\ Took(block[pb], block'[pb], p)
             /\ \A b \in Blocks : b # pb => block'[b] = block[b]
             /\ block_packet_counter' = [block_packet_counter EXCEPT ![pb] = @ + 1]
             /\ out_of_seq_cnt' = 0
  <1>1. block' = copy_packet(block, p) /\ IsExpected(p)
    BY DEF ExpectedPacket, TakePacket
  <1>2. block \in [Blocks -> InputBlock]
    BY DEF ThreadTypeOK
  <1>3. block_for_mcnt(p.mcnt) \in {block_i, NextBlock(block_i)}
    BY <1>1, ExpectedOffset
  <1> QED
    BY <1>1, <1>2, <1>3, TakeEffect DEF ExpectedPacket, TakePacket

\* The block after the current one comes: it starts anew, and the packet in
\* hand goes to the current one.
LEMMA AcquireNextEffect ==
  ASSUME ThreadTypeOK, WindowInv, AcquireNext
  PROVE  LET nb == NextBlock(block_i)
         IN  /\ block_i \in Blocks /\ nb \in Blocks /\ nb # block_i
             /\ pkt \in Packets /\ pkt.mcnt % Nm = pkt.mcnt - mcnt_start
             /\ block_for_mcnt(pkt.mcnt) = block_i
             /\ block' \in [Blocks -> InputBlock]
             /\ Took(block[block_i], block'[block_i], pkt)
             /\ Fresh(block'[nb])
             /\ \A b \in Blocks : b \notin {block_i, nb} => block'[b] = block[b]
             /\ block_packet_counter' =
                  [block_packet_counter EXCEPT ![nb] = 0, ![block_i] = @ + 1]
  <1> DEFINE nb == NextBlock(block_i)
             mid == initialize_block(block, pkt.mcnt + Nm)
  <1>1. /\ block_i \in Blocks /\ nb \in Blocks /\ nb # block_i
        /\ block \in [Blocks -> InputBlock]
        /\ block_packet_counter \in [Blocks -> Nat]
        /\ mcnt_start \in Nat
    BY NextBlockType DEF ThreadTypeOK
  <1>2. /\ pkt \in Packets /\ pkt.mcnt \in mcnt_start .. mcnt_start + Nm - 1
        /\ mcnt_start % Nm = 0 /\ block_i = block_for_mcnt(mcnt_start)
    BY DEF AcquireNext, WindowInv
  <1>3. block_for_mcnt(pkt.mcnt) = block_i /\ pkt.mcnt % Nm = pkt.mcnt - mcnt_start
    BY <1>1, <1>2, SameBlock
  <1>4. pkt.mcnt \in Nat /\ pkt.mcnt + Nm \in Nat /\ block_for_mcnt(pkt.mcnt + Nm) = nb
    <2>1. pkt.mcnt \in Nat /\ pkt.mcnt + Nm \in Nat
      BY <1>1, <1>2, Sizes
    <2> QED
      BY <1>3, <2>1, BlockForMcnt
  <1>5. /\ mid \in [Blocks -> InputBlock]
        /\ Fresh(mid[nb])
        /\ \A b \in Blocks : b # nb => mid[b] = block[b]
    BY <1>1, <1>4, InitializeBlock, EmptyBlockFresh
  <1>6. /\ block' = copy_packet(mid, pkt)
        /\ block_packet_counter' =
             [[block_packet_counter EXCEPT ![nb] = 0] EXCEPT ![block_i] = @ + 1]
    BY <1>3 DEF AcquireNext, TakePacket, FreshCounter
  <1> HIDE DEF mid, nb
  <1>7. /\ block' \in [Blocks -> InputBlock]
        /\ Took(mid[block_i], block'[block_i], pkt)
        /\ \A b \in Blocks : b # block_i => block'[b] = mid[b]
    BY <1>2, <1>3, <1>5, <1>6, TakeEffect
  <1>8. block_packet_counter' =
          [block_packet_counter EXCEPT ![nb] = 0, ![block_i] = @ + 1]
    BY <1>1, <1>6
  <1>9. Took(block[block_i], block'[block_i], pkt) /\ Fresh(block'[nb])
    BY <1>1, <1>5, <1>7
  <1> QED
    BY <1>1, <1>2, <1>3, <1>5, <1>7, <1>8, <1>9 DEF nb

\* A reset: the two blocks held start anew.
LEMMA ResetEffect ==
  ASSUME ThreadTypeOK, WindowInv, NEW p \in Packets, ResetMcnt(p)
  PROVE  LET nb == NextBlock(block_i)
         IN  /\ mcnt_start' \in Nat /\ mcnt_start' % Nm = 0
             /\ block_for_mcnt(mcnt_start') = block_i
             /\ block_i' = block_i
             /\ block' \in [Blocks -> InputBlock]
             /\ Fresh(block'[block_i]) /\ Fresh(block'[nb])
             /\ \A b \in Blocks : b \notin {block_i, nb} => block'[b] = block[b]
             /\ block_packet_counter' =
                  [block_packet_counter EXCEPT ![block_i] = 0, ![nb] = 0]
  <1>1. /\ ResetStart(p) \in Nat /\ ResetStart(p) % Nm = 0
        /\ block_for_mcnt(ResetStart(p)) = block_i
    BY ResetKeepsBlock
  <1>2. /\ mcnt_start' = ResetStart(p) /\ block_i' = block_i
        /\ block' = initialize_block(initialize_block(block, ResetStart(p)), ResetStart(p) + Nm)
        /\ block_packet_counter' =
             [block_packet_counter EXCEPT ![block_i] = 0, ![NextBlock(block_i)] = 0]
    BY <1>1 DEF ResetMcnt
  <1>3. block \in [Blocks -> InputBlock]
    BY DEF ThreadTypeOK
  <1> QED
    BY <1>1, <1>2, <1>3, FreshWindow

-----------------------------------------------------------------------------
(* The inductive invariant.                                                *)

\* A minimum of natural numbers.
LEMMA MinOfNats ==
  ASSUME NEW S \in SUBSET Nat, IsFiniteSet(S), S # {}
  PROVE  /\ Min(S) \in S
         /\ \A x \in S : Min(S) <= x
  <1> DEFINE Below(x) == {y \in S : y <= x}
             B == {Below(x) : x \in S}
  <1>1. B \in SUBSET (SUBSET S) /\ B # {}
    <2>1. PICK z \in S : TRUE
      OBVIOUS
    <2>2. Below(z) \in B
      BY <2>1
    <2>3. \A x \in S : Below(x) \subseteq S
      OBVIOUS
    <2> HIDE DEF Below
    <2> QED
      BY <2>2, <2>3
  <1> HIDE DEF B
  <1>2. PICK T : Smallest(T, B)
    BY <1>1, SmallestSet
  <1> USE DEF B
  <1>3. PICK x \in S : T = Below(x)
    BY <1>2 DEF Smallest
  <1>4. ASSUME NEW y \in S, y < x PROVE FALSE
    <2>1. Below(y) \subseteq Below(x)
      <3>1. \A z \in S : z <= y => z <= x
        BY <1>4, x \in Nat, y \in Nat, \A z \in S : z \in Nat
      <3> QED
        BY <3>1
    <2>2. Below(y) = Below(x)
      <3>1. Below(y) \in B
        OBVIOUS
      <3> HIDE DEF Below, B
      <3> QED
        BY <1>2, <1>3, <2>1, <3>1 DEF Smallest
    <2>3. x \in Below(x) /\ x \notin Below(y)
      BY <1>4
    <2> QED
      BY <2>2, <2>3
  <1>5. \A y \in S : x <= y
    BY <1>4
  <1>6. Min(S) = CHOOSE z \in S : \A y \in S : z <= y
    BY DEF Min
  <1> QED
    BY <1>5, <1>6

LEMMA InitInv == Init => IInv
  <1> SUFFICES ASSUME Init PROVE IInv
    OBVIOUS
  <1>1. [EmptyBlock(0) EXCEPT !.missed = [s \in Beams |-> 0]] \in InputBlock
    <2>1. EmptyBlock(0) \in InputBlock /\ 0 \in 0 .. WordMod-1
      BY EmptyBlockType, Sizes
    <2> QED
      BY <2>1 DEF InputBlock
  <1>2. ThreadTypeOK
    BY <1>1, AtZero, Sizes DEF Init, ThreadTypeOK
  <1>3. NetTypeOK
    BY CounterAssumption, Sizes DEF Init, NetTypeOK
  <1>4. WindowInv
    <2>1. (-1 + 1) % N = 0 /\ 0 % Nm = 0 /\ block_for_mcnt(0) = 0
      BY AtZero
    <2>2. [EmptyBlock(0) EXCEPT !.missed = [s \in Beams |-> 0]].slots = [s \in Beams |-> {}]
      BY DEF EmptyBlock
    <2>3. \A b \in Blocks : block[b].slots = [s \in Beams |-> {}]
      BY <2>2 DEF Init
    <2>4. Idle
      BY <2>3 DEF Init, Idle
    <2> QED
      BY <2>1, <2>4 DEF Init, WindowInv, Running
  <1>5. NetInv
    <2>1. 0 \in Beams
      BY Sizes DEF Beams
    <2> QED
      BY <2>1, Sizes DEF Init, NetInv
  <1> QED
    BY <1>2, <1>3, <1>4, <1>5 DEF IInv, TypeOK

\* The steps of the thread, one by one.
ThreadInv == ThreadTypeOK /\ WindowInv

LEMMA AcquireSecondInv ==
  ASSUME ThreadInv, AcquireSecond
  PROVE  ThreadInv'
  <1> USE DEF ThreadInv
  <1>1. /\ block_i = 0 /\ NextBlock(0) = 1
        /\ block' \in [Blocks -> InputBlock]
    BY AcquireSecondEffect
  <1>2. /\ pc = "acquire1" /\ pc' = "recv" /\ sem[1] = 0
        /\ UNCHANGED <<sem, mcnt_start, block_i, out_of_seq_cnt, block_packet_counter,
                       last_filled, MISSPER, block_missed, NETHOLD, pkt>>
    BY DEF AcquireSecond, binfo, status, missed
  <1>3. sem[0] = 0 /\ 0 \in Blocks
    BY <1>2, AtZero DEF WindowInv, Running, Idle
  <1>4. ThreadTypeOK'
    BY <1>1, <1>2 DEF ThreadTypeOK
  <1>5. WindowInv'
    BY <1>1, <1>2, <1>3 DEF WindowInv, Running, block_for_mcnt, NextBlock
  <1> QED
    BY <1>4, <1>5

LEMMA ExpectedPacketInv ==
  ASSUME ThreadInv, NEW p \in Packets, ExpectedPacket(p), pc = "recv", NETHOLD' = NETHOLD
  PROVE  ThreadInv'
  <1> USE DEF ThreadInv
  <1> DEFINE pb == block_for_mcnt(p.mcnt)
  <1>1. /\ block' \in [Blocks -> InputBlock]
        /\ pb \in Blocks
        /\ block_packet_counter' = [block_packet_counter EXCEPT ![pb] = @ + 1]
        /\ out_of_seq_cnt' = 0
    BY ExpectedEffect
  <1>2. UNCHANGED <<sem, mcnt_start, block_i, last_filled, MISSPER, block_missed, pc, pkt>>
    BY DEF ExpectedPacket, missed
  <1> HIDE DEF pb
  <1>3. block_packet_counter' \in [Blocks -> Nat]
    BY <1>1 DEF ThreadTypeOK
  <1>4. ThreadTypeOK'
    BY <1>1, <1>2, <1>3, Sizes DEF ThreadTypeOK
  <1>5. WindowInv'
    BY <1>2 DEF WindowInv, Running, block_for_mcnt, NextBlock
  <1> QED
    BY <1>4, <1>5

LEMMA FillBlockInv ==
  ASSUME ThreadInv, NEW p \in Packets, FillBlock(p), pc = "recv", NETHOLD' = NETHOLD
  PROVE  ThreadInv'
  <1> USE DEF ThreadInv
  <1> DEFINE nb == NextBlock(block_i)
  <1>1. /\ block_i \in Blocks /\ nb \in Blocks /\ nb # block_i
        /\ block \in [Blocks -> InputBlock]
    BY NextBlockType DEF ThreadTypeOK
  <1>2. /\ last_filled' = block_i
        /\ sem' = [sem EXCEPT ![block_i] = 1]
        /\ mcnt_start' = mcnt_start + Nm
        /\ block_i' = nb /\ pc' = "acquire" /\ pkt' = p
        /\ MISSPER' = block[block_i].missed
        /\ UNCHANGED <<block, out_of_seq_cnt, block_packet_counter>>
    BY DEF FillBlock, WindowInv, total_missed_pkts
  <1>3. block_missed' \in 0 .. WordMod-1
    <2>1. \A i \in Int : i % WordMod \in 0 .. WordMod-1
      BY DivMod, Sizes
    <2>2. block_packet_counter[block_i] \in Nat
      BY <1>1 DEF ThreadTypeOK
    <2>3. Nm * N_BEAMS - block_packet_counter[block_i] \in Int
      BY <2>2, Sizes
    <2> QED
      BY <2>1, <2>3 DEF FillBlock
  <1>4. MISSPER' \in [Beams -> 0 .. WordMod-1]
    BY <1>1, <1>2 DEF InputBlock
  <1>5. /\ (mcnt_start + Nm) % Nm = 0
        /\ block_for_mcnt(mcnt_start + Nm) = nb
        /\ mcnt_start + Nm \in Nat
        /\ p.mcnt \in mcnt_start + Nm .. (mcnt_start + Nm) + Nm - 1
    BY StartAdvances, ExpectedOffset DEF FillBlock
  <1> HIDE DEF nb
  <1>6. ThreadTypeOK'
    BY <1>1, <1>2, <1>3, <1>4, <1>5 DEF ThreadTypeOK
  <1>7. sem'[block_i'] = 0
    BY <1>1, <1>2 DEF WindowInv, ThreadTypeOK, nb
  <1>8. block_i' = (last_filled' + 1) % N
    BY <1>2 DEF nb, NextBlock
  <1>9. WindowInv'
    BY <1>2, <1>5, <1>7, <1>8 DEF WindowInv, Running, block_for_mcnt
  <1> QED
    BY <1>6, <1>9

LEMMA AcquireNextInv ==
  ASSUME ThreadInv, AcquireNext
  PROVE  ThreadInv'
  <1> USE DEF ThreadInv
  <1>1. /\ block_i \in Blocks /\ NextBlock(block_i) \in Blocks
        /\ block' \in [Blocks -> InputBlock]
        /\ block_packet_counter' =
             [block_packet_counter EXCEPT ![NextBlock(block_i)] = 0, ![block_i] = @ + 1]
    BY AcquireNextEffect
  <1>2. /\ pc = "acquire" /\ pc' = "recv" /\ pkt' = NoPacket
        /\ out_of_seq_cnt' = 0
        /\ sem[NextBlock(block_i)] = 0
        /\ UNCHANGED <<sem, mcnt_start, block_i, last_filled, MISSPER, block_missed, NETHOLD>>
    BY DEF AcquireNext, TakePacket, missed
  <1>3. block_packet_counter' \in [Blocks -> Nat]
    BY <1>1 DEF ThreadTypeOK
  <1>4. ThreadTypeOK'
    BY <1>1, <1>2, <1>3, Sizes DEF ThreadTypeOK
  <1>5. WindowInv'
    BY <1>2 DEF WindowInv, Running, block_for_mcnt, NextBlock
  <1> QED
    BY <1>4, <1>5

LEMMA ResetMcntInv ==
  ASSUME ThreadInv, NEW p \in Packets, ResetMcnt(p), pc = "recv", NETHOLD' = NETHOLD
  PROVE  ThreadInv'
  <1> USE DEF ThreadInv
  <1>1. /\ mcnt_start' \in Nat /\ mcnt_start' % Nm = 0
        /\ block_for_mcnt(mcnt_start') = block_i
        /\ block_i' = block_i
        /\ block' \in [Blocks -> InputBlock]
        /\ block_packet_counter' =
             [block_packet_counter EXCEPT ![block_i] = 0, ![NextBlock(block_i)] = 0]
    BY ResetEffect
  <1>2. /\ out_of_seq_cnt' = MAX_OUT_OF_SEQ + 1
        /\ UNCHANGED <<sem, last_filled, MISSPER, block_missed, pc, pkt>>
    BY DEF ResetMcnt, missed
  <1>3. block_packet_counter' \in [Blocks -> Nat]
    BY <1>1 DEF ThreadTypeOK
  <1>4. ThreadTypeOK'
    BY <1>1, <1>2, <1>3, Sizes DEF ThreadTypeOK
  <1>5. WindowInv'
    BY <1>1, <1>2 DEF WindowInv, Running, NextBlock
  <1> QED
    BY <1>4, <1>5

LEMMA OutOfSeqInv ==
  ASSUME ThreadInv, NEW p \in Packets, OutOfSeqPacket(p), pc = "recv", NETHOLD' = NETHOLD
  PROVE  ThreadInv'
  <1>1. /\ out_of_seq_cnt' = out_of_seq_cnt + 1
        /\ out_of_seq_cnt < MAX_OUT_OF_SEQ
        /\ UNCHANGED <<sem, block, mcnt_start, block_i, block_packet_counter,
                       last_filled, MISSPER, block_missed, pc, pkt>>
    BY Sizes DEF OutOfSeqPacket, missed, TooManyOutOfSeq, ThreadInv, ThreadTypeOK
  <1>2. out_of_seq_cnt' \in 0 .. MAX_OUT_OF_SEQ + 1
    BY <1>1, Sizes DEF ThreadInv, ThreadTypeOK
  <1>3. ThreadTypeOK'
    BY <1>1, <1>2 DEF ThreadInv, ThreadTypeOK
  <1>4. WindowInv'
    BY <1>1 DEF ThreadInv, WindowInv, Running, block_for_mcnt, NextBlock
  <1> QED
    BY <1>3, <1>4 DEF ThreadInv

LEMMA FreeBlockInv ==
  ASSUME ThreadInv, NEW b \in Blocks, FreeBlock(b)
  PROVE  ThreadInv'
  <1> USE DEF ThreadInv
  <1>1. /\ sem[b] = 1 /\ sem' = [sem EXCEPT ![b] = 0]
        /\ UNCHANGED <<block, mcnt_start, block_i, out_of_seq_cnt, block_packet_counter,
                       last_filled, MISSPER, block_missed, NETHOLD, pc, pkt>>
    BY DEF FreeBlock, thread, binfo, missed
  <1>2. ThreadTypeOK'
    BY <1>1 DEF ThreadTypeOK
  <1>3. \A c \in Blocks : sem[c] = 0 => sem'[c] = 0
    BY <1>1 DEF ThreadTypeOK
  <1>4. block_i \in Blocks /\ NextBlock(block_i) \in Blocks
    BY NextBlockType DEF ThreadTypeOK
  <1>5. Running
    BY <1>1 DEF WindowInv, Idle
  <1>6. Running'
    BY <1>1, <1>5 DEF Running
  <1>7. WindowInv'
    BY <1>1, <1>3, <1>4, <1>6 DEF WindowInv, Running, block_for_mcnt, NextBlock
  <1> QED
    BY <1>2, <1>7

\* Before the thread has its first blocks.
LEMMA StartInv ==
  ASSUME ThreadInv, EnterHold \/ ReleaseHold \/ LeaveHold \/ AcquireFirst
  PROVE  ThreadInv'
  <1> USE DEF ThreadInv
  <1>1. /\ UNCHANGED <<sem, block, mcnt_start, block_i, out_of_seq_cnt, block_packet_counter,
                       last_filled, block_missed, pkt>>
        /\ NETHOLD' \in {NoKey, 0, 1}
        /\ pc' = pc \/ (~Running /\ pc' \in {"hold", "acquire0", "acquire1"})
        /\ MISSPER' \in [Beams -> 0 .. WordMod-1]
    BY Sizes DEF EnterHold, ReleaseHold, LeaveHold, AcquireFirst, binfo, missed, status, thread,
                 Running, ThreadTypeOK
  <1>2. ThreadTypeOK'
    BY <1>1 DEF ThreadTypeOK
  <1>3. WindowInv'
    BY <1>1 DEF WindowInv, Running, Idle, block_for_mcnt, NextBlock
  <1> QED
    BY <1>2, <1>3

LEMMA ProcessPacketInv ==
  ASSUME ThreadInv, NEW p \in Packets, process_packet(p)
  PROVE  ThreadInv'
  <1>1. pc = "recv" /\ NETHOLD' = NETHOLD
    BY DEF process_packet
  <1>2. CASE LatePacket(p)
    BY <1>1, <1>2 DEF LatePacket, thread, binfo, missed, ThreadInv, ThreadTypeOK, WindowInv,
                      Running, block_for_mcnt, NextBlock
  <1> QED
    BY <1>1, <1>2, ExpectedPacketInv, FillBlockInv, OutOfSeqInv, ResetMcntInv
       DEF process_packet

\* What a turn does to the leads: the live beams' differences change only as
\* far as the beam whose turn it is moves on.
LEMMA TurnEffect ==
  ASSUME NetTypeOK, NEW s \in Beams, Turn(s)
  PROVE  /\ s \in live
         /\ \E slowest \in Nat :
              \A o \in live : lead'[o] = (IF o = s THEN lead[s] + 1 ELSE lead[o]) - slowest
         /\ lead' \in [Beams -> 0 .. MaxSkew]
         /\ tx' = [tx EXCEPT ![s] = IF tx[s] + 1 = McntMod THEN 0 ELSE tx[s] + 1]
         /\ tx' \in [Beams -> 0 .. McntMod-1]
         /\ UNCHANGED <<live, restarts, strays>>
  <1> DEFINE l == [lead EXCEPT ![s] = @ + 1]
             L == {l[o] : o \in live}
  <1>1. /\ s \in live /\ l[s] - Min(L) <= MaxSkew
        /\ lead' = [o \in Beams |-> IF o \in live THEN l[o] - Min(L) ELSE 0]
        /\ tx' = [tx EXCEPT ![s] = (@ + 1) % McntMod]
        /\ UNCHANGED <<live, restarts, strays>>
    BY DEF Turn
  <1>2. /\ live \subseteq Beams
        /\ lead \in [Beams -> 0 .. MaxSkew] /\ tx \in [Beams -> 0 .. McntMod-1]
        /\ MaxSkew \in Nat /\ McntMod \in Nat \ {0}
    BY Sizes DEF NetTypeOK
  <1>3. \A o \in live : /\ l[o] = IF o = s THEN lead[s] + 1 ELSE lead[o]
                        /\ l[o] \in Nat
                        /\ o # s => l[o] <= MaxSkew
    BY <1>2
  <1>4. IsFiniteSet(L)
    <2>1. IsFiniteSet(0 .. MaxSkew + 1)
      BY <1>2, FS_Interval, 0 \in Int, MaxSkew + 1 \in Int
    <2>2. \A o \in live : l[o] \in 0 .. MaxSkew + 1
      BY <1>2, <1>3
    <2>3. L \subseteq 0 .. MaxSkew + 1
      BY <2>2
    <2> QED
      BY <2>1, <2>3, FS_Subset
  <1>5. L \in SUBSET Nat /\ L # {}
    BY <1>1, <1>3
  <1> HIDE DEF l
  <1>6. Min(L) \in Nat /\ \A o \in live : Min(L) <= l[o]
    BY <1>4, <1>5, MinOfNats
  <1>7. \A o \in live : l[o] - Min(L) \in 0 .. MaxSkew
    BY <1>1, <1>2, <1>3, <1>6
  <1>8. lead' \in [Beams -> 0 .. MaxSkew]
    BY <1>1, <1>2, <1>7
  <1>9. (tx[s] + 1) % McntMod = IF tx[s] + 1 = McntMod THEN 0 ELSE tx[s] + 1
    <2>1. tx[s] \in 0 .. McntMod-1
      BY <1>2
    <2>2. (tx[s] + 1) % McntMod = IF tx[s] = McntMod - 1 THEN 0 ELSE tx[s] + 1
      BY <1>2, <2>1, RingNext
    <2> QED
      BY <1>2, <2>1, <2>2
  <1>10. (IF tx[s] + 1 = McntMod THEN 0 ELSE tx[s] + 1) \in 0 .. McntMod-1
    BY <1>2
  <1>11. /\ tx' = [tx EXCEPT ![s] = IF tx[s] + 1 = McntMod THEN 0 ELSE tx[s] + 1]
         /\ tx' \in [Beams -> 0 .. McntMod-1]
    BY <1>1, <1>2, <1>9, <1>10
  <1>12. \A o \in live : lead'[o] = (IF o = s THEN lead[s] + 1 ELSE lead[o]) - Min(L)
    BY <1>1, <1>2, <1>3
  <1> QED
    BY <1>1, <1>6, <1>8, <1>11, <1>12

\* The faults keep to their bound.
LEMMA OneMoreFault ==
  ASSUME NetTypeOK, MayFail
  PROVE  /\ losses \in Nat /\ restarts \in Nat /\ strays \in Nat
         /\ {losses + 1, restarts + 1, strays + 1} \subseteq 0 .. MaxFaults
         /\ losses + restarts + strays + 1 <= MaxFaults
  BY Sizes DEF NetTypeOK, MayFail

NetTypeInv == NetTypeOK /\ NetInv

LEMMA ReceiveNet ==
  ASSUME NetTypeInv, NEW s \in Beams, Receive(s)
  PROVE  NetTypeInv'
  <1> USE DEF NetTypeInv
  <1>1. /\ lead' \in [Beams -> 0 .. MaxSkew] /\ tx' \in [Beams -> 0 .. McntMod-1]
        /\ UNCHANGED <<live, restarts, strays, losses>>
    BY TurnEffect DEF Receive
  <1>2. insync' \in [Beams -> BOOLEAN]
    <2> DEFINE ok == IsExpected([mcnt |-> tx[s], sid |-> s])
    <2>1. ok \in BOOLEAN
      BY DEF IsExpected
    <2>2. insync' = [insync EXCEPT ![s] = ok] /\ insync \in [Beams -> BOOLEAN]
      BY DEF Receive, NetTypeOK
    <2> HIDE DEF ok
    <2> QED
      BY <2>1, <2>2
  <1> QED
    BY <1>1, <1>2 DEF NetTypeOK, NetInv

LEMMA LoseNet ==
  ASSUME NetTypeInv, NEW s \in Beams, Lose(s)
  PROVE  NetTypeInv'
  <1> USE DEF NetTypeInv
  <1>1. /\ lead' \in [Beams -> 0 .. MaxSkew] /\ tx' \in [Beams -> 0 .. McntMod-1]
        /\ UNCHANGED <<live, restarts, strays>>
    BY TurnEffect DEF Lose
  <1>2. losses' = losses + 1 /\ insync' = insync /\ MayFail
    BY DEF Lose
  <1> QED
    BY <1>1, <1>2, OneMoreFault DEF NetTypeOK, NetInv

LEMMA OtherNet ==
  ASSUME NetTypeInv,
         (\E p \in Strays : ReceiveStray(p)) \/ (\E s \in Beams : Restart(s) \/ FallSilent(s))
  PROVE  NetTypeInv'
  <1> USE DEF NetTypeInv
  <1>1. ASSUME NEW p \in Strays, ReceiveStray(p) PROVE NetTypeInv'
    BY <1>1, OneMoreFault DEF ReceiveStray, NetTypeOK, NetInv
  <1>2. ASSUME NEW s \in Beams, Restart(s) PROVE NetTypeInv'
    <2>1. 0 \in 0 .. McntMod-1
      BY Sizes
    <2>2. tx' \in [Beams -> 0 .. McntMod-1]
      BY <1>2, <2>1 DEF Restart, NetTypeOK
    <2> QED
      BY <1>2, <2>2, OneMoreFault DEF Restart, NetTypeOK, NetInv
  <1>3. ASSUME NEW s \in Beams, FallSilent(s) PROVE NetTypeInv'
    <2>1. 0 \in 0 .. MaxSkew
      BY Sizes
    <2>2. lead' \in [Beams -> 0 .. MaxSkew] /\ live' \in SUBSET Beams /\ live' # {}
      BY <1>3, <2>1 DEF FallSilent, NetTypeOK
    <2> QED
      BY <1>3, <2>2 DEF FallSilent, NetTypeOK, NetInv
  <1> QED
    BY <1>1, <1>2, <1>3

\* What the thread may be handed.
LEMMA PacketTypes ==
  ASSUME NetTypeOK
  PROVE  /\ \A s \in Beams : [mcnt |-> tx[s], sid |-> s] \in Packets
         /\ Strays \subseteq Packets
  BY DEF NetTypeOK, Strays, Packets

LEMMA StepInv == IInv /\ [Next]_vars => IInv'
  <1> SUFFICES ASSUME IInv, [Next]_vars PROVE IInv'
    OBVIOUS
  <1> USE DEF IInv, TypeOK, ThreadInv, NetTypeInv
  <1>1. ASSUME EnterHold \/ ReleaseHold \/ LeaveHold \/ AcquireFirst PROVE IInv'
    <2>1. ThreadInv'
      BY <1>1, StartInv
    <2>2. UNCHANGED net
      BY <1>1 DEF EnterHold, ReleaseHold, LeaveHold, AcquireFirst
    <2>3. NetTypeInv'
      BY <2>2 DEF net, NetTypeOK, NetInv
    <2> QED
      BY <2>1, <2>3
  <1>2. ASSUME AcquireSecond \/ AcquireNext \/ \E b \in Blocks : FreeBlock(b) PROVE IInv'
    <2>1. ThreadInv'
      BY <1>2, AcquireSecondInv, AcquireNextInv, FreeBlockInv
    <2>2. UNCHANGED net
      BY <1>2 DEF AcquireSecond, AcquireNext, FreeBlock
    <2>3. NetTypeInv'
      BY <2>2 DEF net, NetTypeOK, NetInv
    <2> QED
      BY <2>1, <2>3
  <1>3. ASSUME NEW s \in Beams, Receive(s) PROVE IInv'
    <2>1. ThreadInv'
      BY <1>3, PacketTypes, ProcessPacketInv DEF Receive
    <2> QED
      BY <1>3, <2>1, ReceiveNet
  <1>4. ASSUME NEW p \in Strays, ReceiveStray(p) PROVE IInv'
    <2>1. ThreadInv'
      BY <1>4, PacketTypes, ProcessPacketInv DEF ReceiveStray
    <2> QED
      BY <1>4, <2>1, OtherNet
  <1>5. ASSUME NEW s \in Beams, Lose(s) \/ Restart(s) \/ FallSilent(s) PROVE IInv'
    <2>1. UNCHANGED <<sem, thread, NETHOLD>>
      BY <1>5 DEF Lose, Restart, FallSilent
    <2>2. ThreadTypeOK'
      BY <2>1 DEF thread, binfo, missed, ThreadTypeOK
    <2>3. WindowInv'
      BY <2>1 DEF thread, binfo, missed, WindowInv, Idle, Running, block_for_mcnt, NextBlock
    <2>4. NetTypeInv'
      BY <1>5, LoseNet, OtherNet
    <2> QED
      BY <2>2, <2>3, <2>4
  <1>6. CASE UNCHANGED vars
    <2>1. ThreadTypeOK'
      BY <1>6 DEF vars, thread, binfo, missed, ThreadTypeOK
    <2>2. WindowInv'
      BY <1>6 DEF vars, thread, binfo, missed, WindowInv, Idle, Running, block_for_mcnt, NextBlock
    <2>3. NetTypeInv'
      BY <1>6 DEF vars, net, NetTypeOK, NetInv
    <2> QED
      BY <2>1, <2>2, <2>3
  <1> QED
    BY <1>1, <1>2, <1>3, <1>4, <1>5, <1>6 DEF Next

LEMMA Invariance == Spec => []IInv
  BY InitInv, StepInv, PTL DEF Spec

\* Every reachable state is well typed, whatever the beams and the network do:
\* ring indices, counters and header words stay in their ranges.
THEOREM BeamsTypeCorrect == Spec => []TypeOK
  <1>1. IInv => TypeOK
    BY DEF IInv
  <1> QED
    BY <1>1, Invariance, PTL

-----------------------------------------------------------------------------
(* The ring that the thread promises.                                      *)

\* A packet writes into the blocks held, or hands the current one on.
LEMMA PacketSimulates ==
  ASSUME ThreadInv, NEW p \in Packets, process_packet(p)
  PROVE  Ring!Write \/ Ring!Fill \/ UNCHANGED Ring!vars
  <1> USE DEF ThreadInv
  <1> DEFINE held == {block_i, NextBlock(block_i)}
  <1>1. /\ pc = "recv" /\ block_i \in Blocks /\ Ring!Blocks = Blocks
        /\ Ring!After(block_i) = NextBlock(block_i)
    BY DEF process_packet, ThreadTypeOK, Ring!Blocks, Blocks, Ring!After, NextBlock
  <1>2. CASE ExpectedPacket(p)
    <2>1. DOMAIN block' = Blocks /\ \A b \in Blocks \ held : block'[b] = block[b]
      BY <1>2, ExpectedEffect
    <2>2. Ring!WritesOnly(held)
      BY <1>1, <2>1 DEF Ring!WritesOnly
    <2> QED
      BY <1>1, <1>2, <2>2 DEF ExpectedPacket, Ring!Write
  <1>3. CASE FillBlock(p)
    BY <1>1, <1>3 DEF FillBlock, WindowInv, Running, Ring!Fill
  <1>4. CASE ResetMcnt(p)
    <2>1. /\ DOMAIN block' = Blocks /\ block_i' = block_i
          /\ \A b \in Blocks \ held : block'[b] = block[b]
      BY <1>4, ResetEffect
    <2>2. Ring!WritesOnly(held)
      BY <1>1, <2>1 DEF Ring!WritesOnly
    <2> QED
      BY <1>1, <1>4, <2>1, <2>2 DEF ResetMcnt, Ring!Write
  <1>5. CASE LatePacket(p) \/ OutOfSeqPacket(p)
    BY <1>1, <1>5 DEF LatePacket, OutOfSeqPacket, thread, binfo, Ring!vars
  <1> QED
    BY <1>2, <1>3, <1>4, <1>5 DEF process_packet

\* A step of the thread is a step of the ring it promises, or none.
LEMMA StepSimulates == IInv /\ [Next]_vars => [Ring!Next]_(Ring!vars)
  <1> SUFFICES ASSUME IInv, [Next]_vars PROVE [Ring!Next]_(Ring!vars)
    OBVIOUS
  <1> USE DEF IInv, TypeOK, ThreadInv
  <1>1. /\ block_i \in Blocks /\ Ring!Blocks = Blocks
        /\ Ring!After(block_i) = NextBlock(block_i)
    BY DEF ThreadTypeOK, Ring!Blocks, Blocks, Ring!After, NextBlock
  <1>2. CASE AcquireFirst
    BY <1>2 DEF AcquireFirst, binfo, Ring!Next, Ring!AcquireFirst
  <1>3. CASE AcquireSecond
    <2>1. DOMAIN block' = Blocks /\ \A b \in Blocks \ {0, 1} : block'[b] = block[b]
      BY <1>3, AcquireSecondEffect
    <2>2. Ring!WritesOnly({0, 1})
      BY <1>1, <2>1 DEF Ring!WritesOnly
    <2> QED
      BY <1>3, <2>2 DEF AcquireSecond, binfo, Ring!Next, Ring!AcquireSecond
  <1>4. CASE AcquireNext
    <2>1. /\ DOMAIN block' = Blocks
          /\ \A b \in Blocks \ {block_i, NextBlock(block_i)} : block'[b] = block[b]
      BY <1>4, AcquireNextEffect
    <2>2. Ring!WritesOnly({block_i, NextBlock(block_i)})
      BY <1>1, <2>1 DEF Ring!WritesOnly
    <2> QED
      BY <1>1, <1>4, <2>2 DEF AcquireNext, Ring!Next, Ring!AcquireNext
  <1>5. ASSUME (\E s \in Beams : Receive(s)) \/ (\E p \in Strays : ReceiveStray(p))
        PROVE  [Ring!Next]_(Ring!vars)
    BY <1>5, PacketTypes, PacketSimulates DEF Receive, ReceiveStray, Ring!Next
  <1>6. ASSUME NEW b \in Blocks, FreeBlock(b) PROVE Ring!Next
    BY <1>1, <1>6 DEF FreeBlock, thread, binfo, Ring!Next, Ring!Free
  <1>7. CASE EnterHold \/ ReleaseHold \/ LeaveHold
    BY <1>7 DEF EnterHold, ReleaseHold, LeaveHold, thread, binfo, Ring!vars
  <1>8. ASSUME NEW s \in Beams, Lose(s) \/ Restart(s) \/ FallSilent(s)
        PROVE  UNCHANGED Ring!vars
    BY <1>8 DEF Lose, Restart, FallSilent, thread, binfo, Ring!vars
  <1>9. CASE UNCHANGED vars
    BY <1>9 DEF vars, thread, binfo, Ring!vars
  <1> QED
    BY <1>2, <1>3, <1>4, <1>5, <1>6, <1>7, <1>8, <1>9 DEF Next

\* The multi-beam thread, too, keeps the promise that the rest of the pipeline
\* is built on, whatever its beams do to each other's window: seen from outside
\* it is the producer of module InputRing, the hold at its start included.
THEOREM BeamsRingImplemented == Spec => ImplementsInputRing
  <1>1. Init => Ring!Init
    BY DEF Init, Ring!Init, Ring!Blocks, Blocks
  <1> QED
    BY <1>1, Invariance, StepSimulates, PTL DEF Spec, ImplementsInputRing, Ring!Spec

-----------------------------------------------------------------------------
(* What was taken, and where the beams are.                                *)

\* The counters of the beams that live differ by their leads, as long as none
\* was restarted.
LeadInv ==
  restarts = 0 =>
    \E base \in 0 .. McntMod-1 : \A s \in live : tx[s] = (base + lead[s]) % McntMod

LEMMA LeadInit == Init => LeadInv
  <1> SUFFICES ASSUME Init PROVE LeadInv
    OBVIOUS
  <1>1. PICK m \in StartMcnts : tx = [s \in Beams |-> m]
    BY DEF Init
  <1>2. m \in 0 .. McntMod-1 /\ (m + 0) % McntMod = m
    <2>1. m \in 0 .. McntMod-1
      BY CounterAssumption
    <2>2. ((McntMod * 0) + m) % McntMod = m
      BY <2>1, DivModUnique, Sizes, 0 \in Int
    <2>3. (McntMod * 0) + m = m /\ m + 0 = m
      BY <2>1, Sizes
    <2> QED
      BY <2>1, <2>2, <2>3
  <1> QED
    BY <1>1, <1>2 DEF Init, LeadInv

LEMMA LeadTurn ==
  ASSUME NetTypeOK, LeadInv, NEW s \in Beams, Turn(s)
  PROVE  LeadInv'
  <1> SUFFICES ASSUME restarts' = 0 PROVE LeadInv'
    BY DEF LeadInv
  <1>1. PICK slowest \in Nat :
          \A o \in live : lead'[o] = (IF o = s THEN lead[s] + 1 ELSE lead[o]) - slowest
    BY TurnEffect
  <1>2. /\ s \in live /\ live' = live /\ restarts = 0 /\ live \subseteq Beams
        /\ tx' = [tx EXCEPT ![s] = (@ + 1) % McntMod]
        /\ tx \in [Beams -> 0 .. McntMod-1] /\ lead \in [Beams -> 0 .. MaxSkew]
    BY DEF Turn, NetTypeOK
  <1>3. PICK base \in 0 .. McntMod-1 : \A o \in live : tx[o] = (base + lead[o]) % McntMod
    BY <1>2 DEF LeadInv
  <1> DEFINE nbase == (base + slowest) % McntMod
  <1>4. base \in Int /\ McntMod \in Nat \ {0} /\ slowest \in Int
    BY Sizes
  <1>5. \A x, k \in Int : ((x % McntMod) + k) % McntMod = (x + k) % McntMod
    BY <1>4, ModOfSum
  <1>6. nbase \in 0 .. McntMod-1
    BY <1>4, DivMod, base + slowest \in Int
  <1>7. ASSUME NEW o \in live PROVE tx'[o] = (nbase + lead'[o]) % McntMod
    <2>1. PICK l \in Int : l = IF o = s THEN lead[s] + 1 ELSE lead[o]
      BY <1>2, <1>7
    <2>2. lead'[o] = l - slowest /\ l - slowest \in Int /\ base + slowest \in Int
      BY <1>1, <1>4, <1>7, <2>1
    <2>3. (nbase + lead'[o]) % McntMod = ((base + slowest) + (l - slowest)) % McntMod
      BY <1>5, <2>2
    <2>4. (base + slowest) + (l - slowest) = base + l
      BY <1>4, <2>1
    <2>5. tx'[o] = (base + l) % McntMod
      <3>1. CASE o # s
        BY <1>2, <1>3, <1>7, <2>1, <3>1
      <3>2. CASE o = s
        <4>1. lead[s] \in Int /\ base + lead[s] \in Int /\ 1 \in Int
          BY <1>2, <1>4
        <4>2. (((base + lead[s]) % McntMod) + 1) % McntMod = ((base + lead[s]) + 1) % McntMod
          BY <1>5, <4>1
        <4>3. tx'[s] = (tx[s] + 1) % McntMod /\ tx[s] = (base + lead[s]) % McntMod
          BY <1>2, <1>3
        <4>4. (base + lead[s]) + 1 = base + l
          BY <1>4, <2>1, <3>2, <4>1
        <4> QED
          BY <3>2, <4>2, <4>3, <4>4
      <3> QED
        BY <3>1, <3>2
    <2> QED
      BY <2>3, <2>4, <2>5
  <1> HIDE DEF nbase
  <1> QED
    BY <1>2, <1>6, <1>7 DEF LeadInv

LEMMA LeadStep == NetTypeOK /\ LeadInv /\ [Next]_vars => LeadInv'
  <1> SUFFICES ASSUME NetTypeOK, LeadInv, [Next]_vars PROVE LeadInv'
    OBVIOUS
  <1>1. ASSUME NEW s \in Beams, Turn(s) PROVE LeadInv'
    BY <1>1, LeadTurn
  <1>2. ASSUME NEW s \in Beams, FallSilent(s) PROVE LeadInv'
    BY <1>2 DEF FallSilent, LeadInv, NetTypeOK
  <1>3. ASSUME NEW s \in Beams, Restart(s) PROVE LeadInv'
    <2>1. restarts' # 0
      BY <1>3, OneMoreFault DEF Restart
    <2> QED
      BY <2>1 DEF LeadInv
  <1>4. CASE UNCHANGED <<tx, lead, live, restarts>>
    BY <1>4 DEF LeadInv
  <1> QED
    BY <1>1, <1>2, <1>3, <1>4
       DEF Next, EnterHold, ReleaseHold, LeaveHold, AcquireFirst, AcquireSecond, AcquireNext,
           Receive, Lose, ReceiveStray, FreeBlock, net, vars

\* How far a beam at t, perhaps past its rollover, has left behind the window
\* that starts at s.
WindowEnd(s) == IF s + 2 * Nm < McntMod THEN s + 2 * Nm ELSE McntMod
Past(t, s) == (IF t < s THEN t + McntMod ELSE t) - WindowEnd(s)

\* How far that may be: the packets sent past the window are within the skew
\* of a beam that is in it, lost, or counted as out of sequence since the last
\* packet that was expected, be it a stray.
Budget ==
  MaxSkew + losses + strays * (MAX_OUT_OF_SEQ + 1)
    + (IF pc = "recv" THEN out_of_seq_cnt ELSE 0)
MaxBudget == MaxSkew + (MaxFaults + 1) * (MAX_OUT_OF_SEQ + 1)

LEMMA Rollover ==
  /\ LATE_PKT_MCNT_THRESHOLD \in Nat /\ LATE_PKT_MCNT_THRESHOLD > 0
  /\ MaxBudget \in Nat
  /\ McntMod >= LATE_PKT_MCNT_THRESHOLD + 2 * Nm + MaxSkew + MaxBudget
  /\ McntMod > 2 * MaxSkew + 2 * Nm
  <1>1. PICK f \in Nat : f = (MaxFaults + 1) * (MAX_OUT_OF_SEQ + 1)
    BY Sizes
  <1>2. Nm * N \in Nat /\ Nm * N > 0
    BY Sizes
  <1>3. LATE_PKT_MCNT_THRESHOLD = 2 * (Nm * N)
    BY Sizes DEF LATE_PKT_MCNT_THRESHOLD
  <1>4. PICK late \in Nat : late = LATE_PKT_MCNT_THRESHOLD /\ late > 0
    BY <1>2, <1>3
  <1>5. McntMod >= late + 2 * Nm + 2 * MaxSkew + f
    BY <1>1, <1>4, RolloverAssumption
  <1>6. MaxBudget = MaxSkew + f
    BY <1>1 DEF MaxBudget
  <1> QED
    BY <1>1, <1>4, <1>5, <1>6, Sizes

LEMMA BudgetType ==
  ASSUME ThreadTypeOK, NetTypeOK, NetInv
  PROVE  /\ Budget \in Nat /\ Budget <= MaxBudget
         /\ losses \in Nat /\ strays \in Nat
         /\ strays * (MAX_OUT_OF_SEQ + 1) \in Nat
         /\ out_of_seq_cnt \in Nat /\ out_of_seq_cnt <= MAX_OUT_OF_SEQ + 1
  <1>1. /\ losses \in Nat /\ strays \in Nat /\ restarts \in Nat
        /\ losses + strays <= MaxFaults
        /\ out_of_seq_cnt \in Nat /\ out_of_seq_cnt <= MAX_OUT_OF_SEQ + 1
    BY Sizes DEF NetTypeOK, NetInv, ThreadTypeOK
  <1>2. PICK k \in Nat : k = MAX_OUT_OF_SEQ + 1 /\ k >= 1
    BY Sizes
  <1>3. /\ strays * k \in Nat /\ losses <= losses * k
        /\ losses * k + strays * k = (losses + strays) * k
        /\ (losses + strays) * k <= MaxFaults * k
    BY <1>1, <1>2, Sizes
  <1>4. MaxBudget = MaxSkew + MaxFaults * k + k /\ MaxFaults * k \in Nat /\ losses * k \in Nat
    BY <1>1, <1>2, Sizes DEF MaxBudget
  <1>5. PICK sk \in Nat : sk = strays * k
    BY <1>3
  <1>6. Budget = MaxSkew + losses + sk + (IF pc = "recv" THEN out_of_seq_cnt ELSE 0)
    BY <1>2, <1>5 DEF Budget
  <1>7. losses + sk <= MaxFaults * k
    BY <1>1, <1>3, <1>4, <1>5
  <1>8. out_of_seq_cnt <= k
    BY <1>1, <1>2
  <1>9. PICK mk \in Nat : mk = MaxFaults * k
    BY <1>4
  <1>10. MaxBudget = MaxSkew + mk + k /\ losses + sk <= mk
    BY <1>4, <1>7, <1>9
  <1>11. Budget \in Nat /\ Budget <= MaxBudget
    BY <1>1, <1>2, <1>5, <1>6, <1>8, <1>10, Sizes
  <1> QED
    BY <1>1, <1>2, <1>3, <1>11

\* Two beams that live are within MaxSkew packets of each other, perhaps on
\* both sides of a rollover.
LEMMA WithinSkew ==
  ASSUME NetTypeOK, LeadInv, restarts = 0, NEW s \in live, NEW o \in live
  PROVE  \E d \in -MaxSkew .. MaxSkew :
           tx[o] = IF tx[s] + d < 0 THEN (tx[s] + d) + McntMod
                   ELSE IF tx[s] + d < McntMod THEN tx[s] + d ELSE (tx[s] + d) - McntMod
  <1>1. PICK base \in 0 .. McntMod-1 : \A b \in live : tx[b] = (base + lead[b]) % McntMod
    BY DEF LeadInv
  <1> DEFINE x == base + lead[s]
             y == base + lead[o]
             d == lead[o] - lead[s]
             z == tx[s] + d
  <1>2. /\ lead[s] \in 0 .. MaxSkew /\ lead[o] \in 0 .. MaxSkew
        /\ MaxSkew \in Nat /\ McntMod \in Nat \ {0} /\ McntMod > MaxSkew
        /\ tx[s] \in 0 .. McntMod-1
    BY Sizes, Rollover DEF NetTypeOK
  <1>3. x \in Int /\ y \in Int /\ d \in -MaxSkew .. MaxSkew /\ d \in Int /\ y = x + d
    BY <1>2
  <1>4. tx[s] = x % McntMod /\ tx[o] = y % McntMod
    BY <1>1
  <1> HIDE DEF x, y, d
  <1>5. tx[o] = z % McntMod
    <2>1. ((x % McntMod) + d) % McntMod = (x + d) % McntMod
      BY <1>2, <1>3, ModOfSum
    <2> QED
      BY <1>3, <1>4, <2>1
  <1>6. z \in Int /\ -McntMod < z /\ z < 2 * McntMod
    BY <1>2, <1>3
  <1> HIDE DEF z
  <1>7. \A q \in Int, r \in 0 .. McntMod-1 : ((McntMod * q) + r) % McntMod = r
    BY <1>2, DivModUnique
  <1>8. CASE z < 0
    <2>1. z = (McntMod * (-1)) + (z + McntMod) /\ z + McntMod \in 0 .. McntMod-1 /\ -1 \in Int
      BY <1>2, <1>6, <1>8
    <2>2. z % McntMod = z + McntMod
      BY <1>7, <2>1
    <2> QED
      BY <1>3, <1>5, <1>8, <2>2 DEF z
  <1>9. CASE z >= 0 /\ z < McntMod
    <2>1. z = (McntMod * 0) + z /\ z \in 0 .. McntMod-1 /\ 0 \in Int
      BY <1>2, <1>6, <1>9
    <2>2. z % McntMod = z
      BY <1>7, <2>1
    <2>3. ~(z < 0)
      BY <1>6, <1>9
    <2> QED
      BY <1>3, <1>5, <1>9, <2>2, <2>3 DEF z
  <1>10. CASE z >= McntMod
    <2>1. z = (McntMod * 1) + (z - McntMod) /\ z - McntMod \in 0 .. McntMod-1 /\ 1 \in Int
      BY <1>2, <1>6, <1>10
    <2>2. z % McntMod = z - McntMod
      BY <1>7, <2>1
    <2>3. ~(z < 0) /\ ~(z < McntMod)
      BY <1>2, <1>6, <1>10
    <2> QED
      BY <1>3, <1>5, <2>2, <2>3 DEF z
  <1> QED
    BY <1>2, <1>6, <1>8, <1>9, <1>10

\* A beam that sent, in the window that starts at w, a packet which the window
\* that now starts at s still holds, is near its end if another beam sends a
\* packet for the window.
LEMMA NearWindow ==
  ASSUME NEW w \in Nat, NEW s \in w .. w + Nm,
         NEW t \in 0 .. McntMod-1, t >= s, t < w + 2 * Nm,
         NEW d \in -MaxSkew .. MaxSkew,
         NEW u \in 0 .. McntMod-1,
         u = IF t + d < 0 THEN (t + d) + McntMod
             ELSE IF t + d < McntMod THEN t + d ELSE (t + d) - McntMod,
         NEW m \in 0 .. McntMod-1, m >= s,
         u >= w => m < u,
         Past(u, w) <= MaxBudget
  PROVE  /\ u >= s => m < u
         /\ Past(u, s) <= MaxSkew
  BY Rollover, Sizes DEF Past, WindowEnd

\* A beam that sends packets for the window has not left it.
LEMMA InWindow ==
  ASSUME NEW s \in Nat, NEW t \in 0 .. McntMod-1, t >= s, t < s + 2 * Nm,
         NEW u, u = IF t + 1 = McntMod THEN 0 ELSE t + 1
  PROVE  /\ u >= s => u = t + 1
         /\ Past(u, s) <= 0
  BY Rollover, Sizes DEF Past, WindowEnd

\* A packet sent since the rollover is out of sequence, not merely late.
LEMMA SentSinceRollover ==
  ASSUME NEW t \in 0 .. McntMod-1, NEW s \in Nat, t < s, Past(t, s) <= MaxBudget
  PROVE  t - s <= -LATE_PKT_MCNT_THRESHOLD
  BY Rollover, Sizes DEF Past, WindowEnd

\* A beam goes on: past what was taken, and not round to it.
LEMMA BeamAdvances ==
  ASSUME NEW t \in 0 .. McntMod-1, NEW m \in 0 .. McntMod-1, NEW s \in Nat, m >= s,
         t >= s => m < t, Past(t, s) <= MaxBudget,
         NEW u, u = IF t + 1 = McntMod THEN 0 ELSE t + 1
  PROVE  /\ u >= s => m < u
         /\ Past(u, s) <= Past(t, s) + 1
  <1>1. t < s => t + 1 < s
    BY Rollover, Sizes DEF Past, WindowEnd
  <1>2. t + 1 = McntMod => s > 0
    BY Rollover, Sizes DEF Past, WindowEnd
  <1> QED
    BY <1>1, <1>2, Rollover, Sizes DEF Past, WindowEnd

\* The window moves on.
LEMMA WindowMoves ==
  ASSUME NEW w \in Nat, NEW t \in 0 .. McntMod-1, NEW m \in Nat, m >= w + Nm,
         t >= w => m < t
  PROVE  Past(t, w + Nm) <= Past(t, w)
  BY Sizes DEF Past, WindowEnd

\* The packets that the blocks held, or the thread's hands, hold of beam s.
Taken(s, m) ==
  \/ Running /\ m - mcnt_start \in block[block_i].slots[s]
  \/ pc = "recv" /\ m - (mcnt_start + Nm) \in block[NextBlock(block_i)].slots[s]
  \/ pc = "acquire" /\ s = pkt.sid /\ m = pkt.mcnt

\* What was taken was sent before, and is not sent again while the window is
\* there.
Gone(s, m) ==
  /\ tx[s] >= mcnt_start => m < tx[s]
  /\ Past(tx[s], mcnt_start) <= Budget

TakenInv ==
  restarts = 0 =>
    /\ \A s \in live : \A m \in 0 .. McntMod-1 : Taken(s, m) => Gone(s, m)
    /\ pc = "acquire" /\ pkt.sid \in Beams =>
         pkt.mcnt - mcnt_start \notin block[block_i].slots[pkt.sid]

\* What was taken lies in the window.
LEMMA TakenInWindow ==
  ASSUME ThreadTypeOK, WindowInv, NEW s \in Beams, NEW m \in Nat, Taken(s, m)
  PROVE  m >= mcnt_start /\ mcnt_start \in Nat
  <1>1. /\ mcnt_start \in Nat
        /\ block \in [Blocks -> InputBlock]
        /\ block_i \in Blocks /\ NextBlock(block_i) \in Blocks
    BY NextBlockType DEF ThreadTypeOK
  <1>2. \A b \in Blocks : block[b].slots[s] \subseteq 0 .. Nm-1
    BY <1>1 DEF InputBlock, Offsets
  <1>3. CASE m - mcnt_start \in block[block_i].slots[s]
    <2>1. m - mcnt_start \in 0 .. Nm-1
      BY <1>1, <1>2, <1>3
    <2> QED
      BY <1>1, <2>1
  <1>4. CASE m - (mcnt_start + Nm) \in block[NextBlock(block_i)].slots[s]
    <2>1. m - (mcnt_start + Nm) \in 0 .. Nm-1
      BY <1>1, <1>2, <1>4
    <2> QED
      BY <1>1, <2>1, Sizes
  <1>5. CASE pc = "acquire" /\ m = pkt.mcnt
    BY <1>1, <1>5 DEF WindowInv
  <1> QED
    BY <1>3, <1>4, <1>5 DEF Taken

\* Nothing is held of any beam in a window that was just recycled.
LEMMA FreshTakesNothing ==
  ASSUME pc' = "recv",
         Fresh(block'[block_i']), Fresh(block'[NextBlock(block_i)'])
  PROVE  \A s \in Beams : \A m : ~Taken(s, m)'
  BY DEF Taken, Running, Fresh

\* A packet that is expected adds itself to what is held of its beam.
LEMMA ExpectedTakes ==
  ASSUME ThreadTypeOK, WindowInv, NEW p \in Packets, ExpectedPacket(p), pc = "recv",
         NEW s \in Beams, NEW m \in 0 .. McntMod-1, Taken(s, m)'
  PROVE  Taken(s, m) \/ (s = p.sid /\ m = p.mcnt)
  <1> DEFINE pb == block_for_mcnt(p.mcnt)
             nb == NextBlock(block_i)
  <1>1. /\ pb \in {block_i, nb} /\ pb \in Blocks /\ block_i \in Blocks /\ nb \in Blocks /\ nb # block_i
        /\ Took(block[pb], block'[pb], p)
        /\ \A b \in Blocks : b # pb => block'[b] = block[b]
        /\ block \in [Blocks -> InputBlock]
    BY ExpectedEffect, NextBlockType DEF ThreadTypeOK
  <1>2. /\ p.mcnt < mcnt_start + Nm => pb = block_i /\ p.mcnt % Nm = p.mcnt - mcnt_start
        /\ ~(p.mcnt < mcnt_start + Nm) => pb = nb /\ p.mcnt % Nm = p.mcnt - (mcnt_start + Nm)
        /\ p.mcnt \in Nat /\ mcnt_start \in Nat
    BY ExpectedOffset DEF ExpectedPacket
  <1>3. /\ mcnt_start' = mcnt_start /\ block_i' = block_i /\ pc' = "recv"
        /\ NextBlock(block_i)' = nb
    BY DEF ExpectedPacket, NextBlock
  <1>4. \/ m - mcnt_start \in block'[block_i].slots[s]
        \/ m - (mcnt_start + Nm) \in block'[nb].slots[s]
    BY <1>3 DEF Taken, Running
  <1>5. \A b \in Blocks : \A k :
          k \in block'[b].slots[s] =>
            k \in block[b].slots[s] \/ (b = pb /\ s = p.sid /\ k = p.mcnt % Nm)
    <2> SUFFICES ASSUME NEW b \in Blocks, NEW k, k \in block'[b].slots[s],
                        k \notin block[b].slots[s]
                 PROVE  b = pb /\ s = p.sid /\ k = p.mcnt % Nm
      OBVIOUS
    <2>1. b = pb
      BY <1>1
    <2>2. p.sid \in Beams
      BY <1>1, <2>1 DEF Took
    <2>3. block'[pb].slots = [block[pb].slots EXCEPT ![p.sid] = @ \cup {p.mcnt % Nm}]
      BY <1>1, <2>2 DEF Took
    <2>4. block[pb].slots \in [Beams -> SUBSET Offsets]
      BY <1>1 DEF InputBlock
    <2> HIDE DEF pb
    <2> QED
      BY <2>1, <2>2, <2>3, <2>4
  <1> HIDE DEF pb, nb
  <1>6. CASE m - mcnt_start \in block'[block_i].slots[s]
    <2>1. \/ m - mcnt_start \in block[block_i].slots[s]
          \/ block_i = pb /\ s = p.sid /\ m - mcnt_start = p.mcnt % Nm
      BY <1>1, <1>5, <1>6
    <2>2. CASE block_i = pb /\ s = p.sid /\ m - mcnt_start = p.mcnt % Nm
      BY <1>1, <1>2, <2>2
    <2> QED
      BY <2>1, <2>2 DEF Taken, Running
  <1>7. CASE m - (mcnt_start + Nm) \in block'[nb].slots[s]
    <2>1. \/ m - (mcnt_start + Nm) \in block[nb].slots[s]
          \/ nb = pb /\ s = p.sid /\ m - (mcnt_start + Nm) = p.mcnt % Nm
      BY <1>1, <1>5, <1>7
    <2>2. CASE nb = pb /\ s = p.sid /\ m - (mcnt_start + Nm) = p.mcnt % Nm
      BY <1>1, <1>2, <2>2, Sizes
    <2> QED
      BY <2>1, <2>2 DEF Taken, nb
  <1> QED
    BY <1>4, <1>6, <1>7

\* The packet that completes a block goes to the thread's hands.
LEMMA FillTakes ==
  ASSUME ThreadTypeOK, WindowInv, NEW p \in Packets, FillBlock(p), pc = "recv",
         NEW s \in Beams, NEW m, Taken(s, m)'
  PROVE  Taken(s, m) \/ (s = p.sid /\ m = p.mcnt)
  BY DEF FillBlock, Taken, Running

\* The packet in hand goes to its block.
LEMMA NextTakes ==
  ASSUME ThreadTypeOK, WindowInv, AcquireNext, NEW s \in Beams, NEW m \in Nat, Taken(s, m)'
  PROVE  Taken(s, m)
  <1> DEFINE nb == NextBlock(block_i)
  <1>1. /\ block_i \in Blocks /\ pkt \in Packets
        /\ pkt.mcnt % Nm = pkt.mcnt - mcnt_start
        /\ Took(block[block_i], block'[block_i], pkt)
        /\ Fresh(block'[nb])
    BY AcquireNextEffect
  <1>2. /\ mcnt_start' = mcnt_start /\ block_i' = block_i /\ pc' = "recv" /\ pc = "acquire"
        /\ NextBlock(block_i)' = nb
        /\ mcnt_start \in Nat /\ pkt.mcnt \in Nat
    BY <1>1, Sizes DEF AcquireNext, NextBlock, ThreadTypeOK, Packets
  <1>3. block'[nb].slots[s] = {}
    BY <1>1 DEF Fresh
  <1>4. m - mcnt_start \in block'[block_i].slots[s]
    BY <1>2, <1>3 DEF Taken, Running
  <1>5. CASE m - mcnt_start \in block[block_i].slots[s]
    BY <1>2, <1>5 DEF Taken, Running
  <1>6. CASE m - mcnt_start \notin block[block_i].slots[s]
    <2>1. pkt.sid \in Beams
      BY <1>1, <1>4, <1>6 DEF Took
    <2>2. block'[block_i].slots = [block[block_i].slots EXCEPT ![pkt.sid] = @ \cup {pkt.mcnt % Nm}]
      BY <1>1, <2>1 DEF Took
    <2>3. block[block_i].slots \in [Beams -> SUBSET Offsets]
      BY <1>1 DEF InputBlock, ThreadTypeOK
    <2>4. s = pkt.sid /\ m - mcnt_start = pkt.mcnt % Nm
      BY <1>4, <1>6, <2>1, <2>2, <2>3
    <2>5. m = pkt.mcnt
      BY <1>1, <1>2, <2>4
    <2> QED
      BY <1>2, <2>4, <2>5 DEF Taken
  <1> QED
    BY <1>5, <1>6

\* A beam whose packet is taken: what is held of the beams stays behind them.
LEMMA ReceiveExpectedTaken ==
  ASSUME IInv, LeadInv, TakenInv, restarts = 0, NEW s \in Beams, Receive(s),
         NEW p, p = [mcnt |-> tx[s], sid |-> s], ExpectedPacket(p) \/ FillBlock(p)
  PROVE  TakenInv'
  <1> USE DEF IInv, TypeOK
  <1> DEFINE t == tx[s]
             u == IF t + 1 = McntMod THEN 0 ELSE t + 1
             w == mcnt_start
  <1>1. /\ s \in live /\ live' = live /\ tx' = [tx EXCEPT ![s] = u] /\ p \in Packets
        /\ losses' = losses /\ strays' = strays /\ restarts' = 0
    BY TurnEffect, PacketTypes DEF Receive
  <1>2. /\ t \in 0 .. McntMod-1 /\ w \in Nat /\ live \subseteq Beams
        /\ p.mcnt = t /\ p.sid = s /\ IsExpected(p) /\ pc = "recv"
    BY DEF NetTypeOK, ThreadTypeOK, ExpectedPacket, FillBlock, Receive, process_packet
  <1>3. t >= w /\ t < w + 2 * Nm /\ (CompletesBlock(p) => t >= w + Nm)
    BY <1>1, <1>2, ExpectedOffset
  <1>4. PICK start \in Nat :
          /\ start = mcnt_start'
          /\ start \in w .. w + Nm /\ t >= start /\ t < start + 2 * Nm
          /\ pc' \in {"recv", "acquire"} /\ (pc' = "recv" => out_of_seq_cnt' = 0)
    <2>1. CASE ExpectedPacket(p)
      BY <1>2, <1>3, <2>1, Sizes DEF ExpectedPacket, TakePacket
    <2>2. CASE FillBlock(p)
      <3>1. /\ mcnt_start' = w + Nm /\ pc' = "acquire" /\ t >= w + Nm /\ w + Nm \in Nat
            /\ t < (w + Nm) + 2 * Nm /\ w + Nm \in w .. w + Nm
        BY <1>2, <1>3, <2>2, Sizes DEF FillBlock
      <3> QED
        BY <3>1
    <2> QED
      BY <2>1, <2>2
  <1>5. PICK budget \in Nat : budget = Budget' /\ MaxSkew <= budget
    <2>1. PICK k \in Nat : k = strays * (MAX_OUT_OF_SEQ + 1)
      BY BudgetType
    <2>2. Budget' = MaxSkew + losses + k + 0
      BY <1>1, <1>4, <2>1 DEF Budget
    <2>3. MaxSkew + losses + k + 0 \in Nat /\ MaxSkew <= MaxSkew + losses + k + 0
      BY <2>1, BudgetType, Sizes
    <2> QED
      BY <2>2, <2>3
  <1>6. /\ t \in Nat /\ u \in 0 .. McntMod-1
        /\ u >= start => u = t + 1
        /\ Past(u, start) <= 0 /\ Past(u, start) \in Int
    <2>1. u \in 0 .. McntMod-1 /\ t \in Nat
      BY <1>2, Sizes
    <2>2. /\ u >= start => u = t + 1
          /\ Past(u, start) <= 0
      BY <1>2, <1>4, InWindow
    <2> HIDE DEF u
    <2>3. Past(u, start) \in Int
      BY <2>1, Sizes DEF Past, WindowEnd
    <2> QED
      BY <2>1, <2>2, <2>3
  <1> HIDE DEF t, u, w
  <1>7. ASSUME NEW o \in live, NEW m \in 0 .. McntMod-1, Taken(o, m)'
        PROVE  Gone(o, m)'
    <2>1. o \in Beams /\ m \in Nat
      BY <1>2, <1>7
    <2>2. (Taken(o, m) /\ Gone(o, m)) \/ (o = s /\ m = t)
      BY <1>1, <1>2, <1>7, <2>1, ExpectedTakes, FillTakes DEF t, TakenInv
    <2>3. m >= start
      <3>1. CASE ExpectedPacket(p)
        <4>1. start = w
          BY <1>4, <3>1 DEF ExpectedPacket, w
        <4>2. Taken(o, m) => m >= w
          BY <2>1, TakenInWindow DEF w
        <4> QED
          BY <1>4, <2>2, <4>1, <4>2
      <3>2. CASE FillBlock(p)
        <4>1. /\ mcnt_start' = start /\ block' = block /\ block_i' = NextBlock(block_i)
              /\ pc' = "acquire" /\ pkt' = p
          BY <1>4, <3>2 DEF FillBlock
        <4>2. m - start \in block[NextBlock(block_i)].slots[o] \/ m = t
          BY <1>2, <1>7, <4>1 DEF Taken
        <4>3. block[NextBlock(block_i)].slots[o] \subseteq 0 .. Nm-1
          BY <2>1, NextBlockType DEF ThreadTypeOK, InputBlock, Offsets
        <4>4. m - start \in 0 .. Nm-1 \/ m = t
          BY <4>2, <4>3
        <4>5. start \in Nat /\ t >= start
          BY <1>4
        <4>6. CASE m - start \in 0 .. Nm-1
          BY <2>1, <4>5, <4>6, Sizes
        <4> QED
          BY <4>4, <4>5, <4>6
      <3> QED
        BY <3>1, <3>2
    <2>4. CASE o = s
      <3>1. m <= t
        BY <1>2, <1>3, <1>6, <2>1, <2>2, <2>4 DEF Gone, t, w
      <3>2. tx'[o] = u
        BY <1>1, <1>2, <2>1, <2>4 DEF NetTypeOK
      <3>3. u >= start => m < u
        BY <1>6, <2>1, <3>1
      <3>4. Past(u, start) <= budget
        BY <1>5, <1>6, Sizes
      <3> QED
        BY <1>4, <1>5, <3>2, <3>3, <3>4 DEF Gone, Past, WindowEnd
    <2>5. CASE o # s
      <3>1. tx'[o] = tx[o] /\ tx[o] \in 0 .. McntMod-1
        BY <1>1, <2>1, <2>5 DEF NetTypeOK
      <3>2. Past(tx[o], w) <= MaxBudget /\ (tx[o] >= w => m < tx[o])
        <4>1. Past(tx[o], w) \in Int
          BY <1>2, <3>1, Sizes DEF Past, WindowEnd
        <4> QED
          BY <2>2, <2>5, <4>1, BudgetType, Rollover DEF Gone, w
      <3>3. PICK d \in -MaxSkew .. MaxSkew :
              tx[o] = IF t + d < 0 THEN (t + d) + McntMod
                      ELSE IF t + d < McntMod THEN t + d ELSE (t + d) - McntMod
        BY <1>1, <1>7, WithinSkew DEF t
      <3>4. /\ tx[o] >= start => m < tx[o]
            /\ Past(tx[o], start) <= MaxSkew
        BY <1>2, <1>3, <1>4, <1>7, <2>3, <3>1, <3>2, <3>3, NearWindow
      <3>5. Past(tx[o], start) \in Int
        BY <1>4, <3>1, Sizes DEF Past, WindowEnd
      <3>6. Past(tx[o], start) <= budget
        BY <1>5, <3>4, <3>5, Sizes
      <3> QED
        BY <1>4, <1>5, <3>1, <3>4, <3>6 DEF Gone, Past, WindowEnd
    <2> QED
      BY <2>4, <2>5
  <1>8. ASSUME pc' = "acquire", pkt'.sid \in Beams
        PROVE  pkt'.mcnt - mcnt_start' \notin block'[block_i'].slots[pkt'.sid]
    <2>1. /\ pkt' = p /\ mcnt_start' = mcnt_start + Nm /\ block' = block
          /\ block_i' = NextBlock(block_i)
      BY <1>2, <1>8 DEF FillBlock, ExpectedPacket
    <2>2. ASSUME t - (w + Nm) \in block[NextBlock(block_i)].slots[s] PROVE FALSE
      <3>1. Taken(s, t)
        BY <1>2, <2>2 DEF Taken, w
      <3>2. Gone(s, t)
        BY <1>1, <1>2, <3>1 DEF TakenInv
      <3> QED
        BY <1>2, <1>3, <3>2 DEF Gone, t, w
    <2> QED
      BY <1>2, <2>1, <2>2 DEF t, w
  <1> QED
    BY <1>1, <1>7, <1>8 DEF TakenInv

\* A beam whose packet is lost, late or out of sequence goes on, and is
\* counted.
LEMMA BeamSkipped ==
  ASSUME IInv, TakenInv, restarts = 0, NEW s \in Beams, Turn(s), live' = live,
         mcnt_start' = mcnt_start,
         \A o \in Beams, m \in Nat : Taken(o, m)' => Taken(o, m),
         pc' = "acquire" => pc = "acquire" /\ UNCHANGED <<pkt, block, block_i>>,
         Budget' >= Budget, Budget' \in Nat,
         \/ tx[s] < mcnt_start /\ tx[s] - mcnt_start > -LATE_PKT_MCNT_THRESHOLD
         \/ Budget' = Budget + 1
  PROVE  TakenInv'
  <1> USE DEF IInv, TypeOK
  <1> DEFINE t == tx[s]
             u == IF t + 1 = McntMod THEN 0 ELSE t + 1
             w == mcnt_start
  <1>1. /\ s \in live /\ tx' = [tx EXCEPT ![s] = u]
        /\ tx \in [Beams -> 0 .. McntMod-1]
        /\ t \in 0 .. McntMod-1 /\ w \in Nat /\ live \subseteq Beams
    BY TurnEffect DEF NetTypeOK, ThreadTypeOK
  <1>2. PICK budget \in Nat : budget = Budget' /\ budget >= Budget
    OBVIOUS
  <1>3. u \in 0 .. McntMod-1
    BY <1>1, Sizes
  <1>4. Past(t, w) \in Int /\ Past(u, w) \in Int
    BY <1>1, <1>3, Sizes DEF Past, WindowEnd
  <1>5. ASSUME NEW o \in live, NEW m \in 0 .. McntMod-1, Taken(o, m)'
        PROVE  Gone(o, m)'
    <2>1. o \in Beams /\ m \in Nat /\ Taken(o, m) /\ Gone(o, m) /\ m >= w
      <3>1. o \in Beams /\ m \in Nat
        BY <1>1, <1>5
      <3>2. Taken(o, m)
        BY <1>5, <3>1
      <3> QED
        BY <1>5, <3>1, <3>2, TakenInWindow DEF TakenInv
    <2>2. CASE o # s
      <3>1. tx'[o] = tx[o] /\ tx[o] \in 0 .. McntMod-1
        BY <1>1, <2>1, <2>2
      <3>2. Past(tx[o], w) \in Int
        BY <1>1, <3>1, Sizes DEF Past, WindowEnd
      <3>3. Past(tx[o], w) <= Budget /\ (tx[o] >= w => m < tx[o])
        BY <2>1 DEF Gone
      <3>4. Past(tx[o], w) <= budget
        BY <1>2, <3>2, <3>3, BudgetType
      <3> QED
        BY <1>2, <3>1, <3>3, <3>4 DEF Gone, Past, WindowEnd
    <2>3. CASE o = s
      <3>1. Past(t, w) <= Budget /\ (t >= w => m < t)
        BY <2>1, <2>3 DEF Gone
      <3>2. Past(t, w) <= MaxBudget
        BY <1>4, <3>1, BudgetType, Rollover
      <3>3. ~(t < w /\ t - w > -LATE_PKT_MCNT_THRESHOLD)
        <4> SUFFICES ASSUME t < w PROVE ~(t - w > -LATE_PKT_MCNT_THRESHOLD)
          OBVIOUS
        <4>1. t - w <= -LATE_PKT_MCNT_THRESHOLD
          BY <1>1, <3>2, SentSinceRollover
        <4> QED
          BY <1>1, <4>1, Rollover
      <3>4. budget = Budget + 1
        BY <1>2, <3>3
      <3>5. /\ u >= w => m < u
            /\ Past(u, w) <= Past(t, w) + 1
        BY <1>1, <1>5, <2>1, <3>1, <3>2, BeamAdvances
      <3>6. Past(u, w) <= budget
        BY <1>2, <1>4, <3>1, <3>4, <3>5, BudgetType
      <3>7. tx'[o] = u
        BY <1>1, <2>1, <2>3
      <3> QED
        BY <1>2, <3>5, <3>6, <3>7 DEF Gone, Past, WindowEnd
    <2> QED
      BY <2>2, <2>3
  <1>6. ASSUME pc' = "acquire", pkt'.sid \in Beams
        PROVE  pkt'.mcnt - mcnt_start' \notin block'[block_i'].slots[pkt'.sid]
    BY <1>6 DEF TakenInv
  <1> QED
    BY <1>5, <1>6 DEF TakenInv

\* What is held stays behind the beams if none of them sends, the window stays
\* and the budget does not shrink.
LEMMA BeamsWait ==
  ASSUME IInv, TakenInv, restarts = 0, tx' = tx, live' \subseteq live,
         mcnt_start' = mcnt_start,
         \A o \in Beams, m \in Nat : Taken(o, m)' => Taken(o, m),
         pc' = "acquire" => pc = "acquire" /\ UNCHANGED <<pkt, block, block_i>>,
         Budget' >= Budget, Budget' \in Nat
  PROVE  TakenInv'
  <1> USE DEF IInv, TypeOK
  <1>1. live \subseteq Beams /\ mcnt_start \in Nat /\ tx \in [Beams -> 0 .. McntMod-1]
    BY DEF NetTypeOK, ThreadTypeOK
  <1>2. PICK budget \in Nat : budget = Budget' /\ budget >= Budget
    OBVIOUS
  <1>3. ASSUME NEW o \in live, NEW m \in 0 .. McntMod-1, Taken(o, m)'
        PROVE  Gone(o, m)'
    <2>1. o \in Beams /\ m \in Nat
      BY <1>1, <1>3
    <2>2. Gone(o, m)
      BY <1>3, <2>1 DEF TakenInv
    <2>3. Past(tx[o], mcnt_start) \in Int
      BY <1>1, <2>1, Sizes DEF Past, WindowEnd
    <2>4. Past(tx[o], mcnt_start) <= budget
      BY <1>2, <2>2, <2>3, BudgetType DEF Gone
    <2> QED
      BY <1>2, <2>2, <2>4 DEF Gone, Past, WindowEnd
  <1>4. ASSUME pc' = "acquire", pkt'.sid \in Beams
        PROVE  pkt'.mcnt - mcnt_start' \notin block'[block_i'].slots[pkt'.sid]
    BY <1>4 DEF TakenInv
  <1> QED
    BY <1>3, <1>4 DEF TakenInv

\* How the budget changes: cnt is the count of a run of out-of-sequence packets
\* after the step, k tells that a stray came.
Counted == IF pc = "recv" THEN out_of_seq_cnt ELSE 0

LEMMA BudgetChanges ==
  ASSUME ThreadTypeOK, NetTypeOK, NetInv,
         NEW l \in {0, 1}, NEW k \in {0, 1}, NEW cnt \in Nat,
         losses' = losses + l, strays' = strays + k, Counted' = cnt
  PROVE  /\ Counted \in Nat /\ Counted <= MAX_OUT_OF_SEQ + 1
         /\ Budget' = (Budget - Counted) + l + (IF k = 1 THEN MAX_OUT_OF_SEQ + 1 ELSE 0) + cnt
         /\ Budget' \in Nat
  <1>1. PICK x \in Nat : x = MAX_OUT_OF_SEQ + 1
    BY Sizes
  <1>2. PICK sx \in Nat : sx = strays * x
    BY <1>1, BudgetType
  <1>3. /\ losses \in Nat /\ strays \in Nat /\ MaxSkew \in Nat
        /\ Counted \in Nat /\ Counted <= x
    BY <1>1, BudgetType, Sizes DEF Counted
  <1>4. (strays + k) * x = sx + (IF k = 1 THEN x ELSE 0)
    <2>1. CASE k = 0
      BY <1>1, <1>2, <1>3, <2>1
    <2>2. CASE k = 1
      BY <1>1, <1>2, <1>3, <2>2
    <2> QED
      BY <2>1, <2>2
  <1>5. Budget = MaxSkew + losses + sx + Counted
    BY <1>1, <1>2 DEF Budget, Counted
  <1>6. Budget' = MaxSkew + (losses + l) + (sx + (IF k = 1 THEN x ELSE 0)) + cnt
    BY <1>1, <1>4 DEF Budget, Counted
  <1>7. PICK c \in Nat : c = Counted
    BY <1>3
  <1> QED
    BY <1>1, <1>2, <1>3, <1>5, <1>6, <1>7

LEMMA ReceiveTaken ==
  ASSUME IInv, LeadInv, TakenInv, restarts = 0, NEW s \in Beams, Receive(s)
  PROVE  TakenInv'
  <1> USE DEF IInv, TypeOK
  <1> DEFINE p == [mcnt |-> tx[s], sid |-> s]
  <1>1. /\ Turn(s) /\ process_packet(p) /\ losses' = losses /\ pc = "recv" /\ p \in Packets
        /\ live' = live /\ strays' = strays /\ restarts' = restarts /\ p.mcnt = tx[s]
    BY PacketTypes DEF Receive, Turn, process_packet
  <1>2. losses \in Nat /\ strays \in Nat /\ losses' = losses + 0 /\ strays' = strays + 0
    BY <1>1, BudgetType
  <1> HIDE DEF p
  <1>3. CASE ExpectedPacket(p) \/ FillBlock(p)
    BY <1>3, ReceiveExpectedTaken DEF p
  <1>4. CASE LatePacket(p)
    <2>1. UNCHANGED <<block, mcnt_start, block_i, out_of_seq_cnt, pc, pkt>>
      BY <1>4 DEF LatePacket, thread, binfo
    <2>2. \A o \in Beams, m \in Nat : Taken(o, m)' => Taken(o, m)
      BY <2>1 DEF Taken, Running, NextBlock
    <2>3. Budget' = Budget
      BY <1>1, <2>1 DEF Budget
    <2>4. tx[s] < mcnt_start /\ tx[s] - mcnt_start > -LATE_PKT_MCNT_THRESHOLD
      <3>1. tx[s] \in Int /\ mcnt_start \in Int
        BY Sizes DEF NetTypeOK, ThreadTypeOK
      <3> QED
        BY <1>1, <1>4, <3>1 DEF LatePacket, IsLate, Dist
    <2>5. Budget' >= Budget /\ Budget' \in Nat
      BY <2>3, BudgetType
    <2> QED
      BY <1>1, <2>1, <2>2, <2>4, <2>5, BeamSkipped
  <1>5. CASE OutOfSeqPacket(p)
    <2>1. /\ UNCHANGED <<block, mcnt_start, block_i, pc, pkt>>
          /\ out_of_seq_cnt' = out_of_seq_cnt + 1
      BY <1>5 DEF OutOfSeqPacket
    <2>2. \A o \in Beams, m \in Nat : Taken(o, m)' => Taken(o, m)
      BY <2>1 DEF Taken, Running, NextBlock
    <2>3. Budget' = Budget + 1 /\ Budget' \in Nat
      <3>1. PICK c \in Nat : c = Counted /\ Counted' = c + 1 /\ c + 1 \in Nat
        BY <1>1, <2>1, BudgetType DEF Counted
      <3>2. Budget' = (Budget - c) + 0 + 0 + (c + 1) /\ Budget' \in Nat
        BY <1>2, <3>1, BudgetChanges, 0 \in {0, 1}, 0 # 1
      <3> QED
        BY <3>1, <3>2, BudgetType
    <2>4. Budget' >= Budget
      BY <2>3, BudgetType
    <2> QED
      BY <1>1, <2>1, <2>2, <2>3, <2>4, BeamSkipped
  <1>6. CASE ResetMcnt(p)
    <2>1. /\ Fresh(block'[block_i]) /\ Fresh(block'[NextBlock(block_i)]) /\ block_i' = block_i
          /\ pc' = "recv"
      BY <1>1, <1>6, ResetEffect DEF ResetMcnt
    <2>2. \A o \in Beams : \A m : ~Taken(o, m)'
      BY <2>1, FreshTakesNothing DEF NextBlock
    <2>3. live' \subseteq Beams
      BY <1>1 DEF NetTypeOK
    <2> QED
      BY <2>1, <2>2, <2>3 DEF TakenInv
  <1> QED
    BY <1>1, <1>3, <1>4, <1>5, <1>6 DEF process_packet

LEMMA LoseTaken ==
  ASSUME IInv, TakenInv, restarts = 0, NEW s \in Beams, Lose(s)
  PROVE  TakenInv'
  <1> USE DEF IInv, TypeOK
  <1>1. /\ Turn(s) /\ losses' = losses + 1 /\ live' = live /\ strays' = strays
        /\ UNCHANGED <<block, mcnt_start, block_i, out_of_seq_cnt, pc, pkt>>
    BY DEF Lose, Turn, thread, binfo
  <1>2. \A o \in Beams, m \in Nat : Taken(o, m)' => Taken(o, m)
    BY <1>1 DEF Taken, Running, NextBlock
  <1>3. Budget' = Budget + 1 /\ Budget' \in Nat
    <2>1. strays' = strays + 0 /\ 0 \in {0, 1} /\ 1 \in {0, 1}
      BY <1>1, BudgetType
    <2>2. PICK c \in Nat : c = Counted /\ Counted' = c
      BY <1>1, BudgetType DEF Counted
    <2>3. Budget' = (Budget - c) + 1 + 0 + c /\ Budget' \in Nat
      BY <1>1, <2>1, <2>2, BudgetChanges, 0 # 1
    <2> QED
      BY <2>2, <2>3, BudgetType
  <1>4. Budget' >= Budget
    BY <1>3, BudgetType
  <1> QED
    BY <1>1, <1>2, <1>3, <1>4, BeamSkipped

\* A stray is nobody's packet: whatever it does to the window, nothing more is
\* held of a beam.
LEMMA StrayTaken ==
  ASSUME IInv, TakenInv, restarts = 0, NEW p \in Strays, ReceiveStray(p)
  PROVE  TakenInv'
  <1> USE DEF IInv, TypeOK
  <1>1. /\ process_packet(p) /\ losses' = losses + 0 /\ strays' = strays + 1
        /\ UNCHANGED <<tx, live, restarts>>
        /\ pc = "recv" /\ p \in Packets
    BY PacketTypes, BudgetType DEF ReceiveStray, process_packet
  <1>2. p.sid \notin Beams
    BY StrayAssumption DEF Strays, Beams
  <1>3. 0 \in {0, 1} /\ 1 \in {0, 1}
    OBVIOUS
  <1>4. PICK x \in Nat : x = MAX_OUT_OF_SEQ + 1
    BY Sizes
  <1>5. ASSUME NEW cnt \in Nat, Counted' = cnt
        PROVE  Budget' >= Budget /\ Budget' \in Nat
    <2>1. PICK c \in Nat : c = Counted /\ c <= x
      BY <1>4, BudgetType DEF Counted
    <2>2. Budget' = (Budget - c) + 0 + x + cnt /\ Budget' \in Nat
      BY <1>1, <1>3, <1>4, <1>5, <2>1, BudgetChanges
    <2> QED
      BY <1>4, <2>1, <2>2, BudgetType
  <1>6. CASE ExpectedPacket(p)
    <2>1. /\ UNCHANGED <<mcnt_start, block_i, pc, pkt>> /\ out_of_seq_cnt' = 0
      BY <1>6 DEF ExpectedPacket, TakePacket
    <2>2. Budget' >= Budget /\ Budget' \in Nat
      BY <1>1, <1>5, <2>1 DEF Counted
    <2>3. \A o \in Beams, m \in Nat : Taken(o, m)' => Taken(o, m)
      <3>1. block' = block
        BY <1>1, <1>2, <1>6 DEF ExpectedPacket, TakePacket, copy_packet, SidOk
      <3> QED
        BY <2>1, <3>1 DEF Taken, Running, NextBlock
    <2> QED
      BY <1>1, <2>1, <2>2, <2>3, BeamsWait
  <1>7. CASE FillBlock(p)
    <2>1. /\ mcnt_start' = mcnt_start + Nm /\ block_i' = NextBlock(block_i) /\ block' = block
          /\ pc' = "acquire" /\ pkt' = p
      BY <1>7 DEF FillBlock
    <2>2. live \subseteq Beams /\ mcnt_start \in Nat /\ tx \in [Beams -> 0 .. McntMod-1]
      BY DEF NetTypeOK, ThreadTypeOK
    <2>3. PICK w \in Nat : w = mcnt_start
      BY <2>2
    <2>4. PICK budget \in Nat : budget = Budget' /\ budget >= Budget
      BY <1>5, <2>1, 0 \in Nat DEF Counted
    <2>5. ASSUME NEW o \in live, NEW m \in 0 .. McntMod-1, Taken(o, m)'
          PROVE  Gone(o, m)'
      <3>1. o \in Beams /\ m \in Nat /\ tx[o] \in 0 .. McntMod-1
        BY <2>2, <2>5
      <3>2. m - (w + Nm) \in block[NextBlock(block_i)].slots[o]
        BY <1>2, <2>1, <2>3, <2>5, <3>1 DEF Taken
      <3>3. m >= w + Nm
        <4>1. block[NextBlock(block_i)].slots[o] \subseteq 0 .. Nm-1
          BY <3>1, NextBlockType DEF ThreadTypeOK, InputBlock, Offsets
        <4>2. m - (w + Nm) \in 0 .. Nm-1
          BY <3>2, <4>1
        <4> QED
          BY <3>1, <4>2, Sizes
      <3>4. Past(tx[o], w) <= Budget /\ (tx[o] >= w => m < tx[o])
        BY <1>1, <2>3, <2>5, <3>2 DEF Taken, TakenInv, Gone
      <3>5. Past(tx[o], w + Nm) <= Past(tx[o], w)
        BY <3>1, <3>3, <3>4, WindowMoves
      <3>6. /\ Past(tx[o], w) \in Int /\ Past(tx[o], w + Nm) \in Int
        BY <3>1, Sizes DEF Past, WindowEnd
      <3>7. Past(tx[o], w + Nm) <= budget
        BY <2>4, <3>4, <3>5, <3>6, BudgetType
      <3>8. tx[o] >= w + Nm => m < tx[o]
        BY <3>1, <3>4, Sizes
      <3>9. mcnt_start' = w + Nm /\ tx'[o] = tx[o]
        BY <1>1, <2>1, <2>3
      <3> QED
        BY <2>4, <3>7, <3>8, <3>9 DEF Gone, Past, WindowEnd
    <2> QED
      BY <1>1, <1>2, <2>1, <2>5 DEF TakenInv
  <1>8. CASE LatePacket(p)
    <2>1. UNCHANGED <<block, mcnt_start, block_i, out_of_seq_cnt, pc, pkt>>
      BY <1>8 DEF LatePacket, thread, binfo
    <2>2. \A o \in Beams, m \in Nat : Taken(o, m)' => Taken(o, m)
      BY <2>1 DEF Taken, Running, NextBlock
    <2>3. Budget' >= Budget /\ Budget' \in Nat
      BY <1>1, <1>5, <2>1, BudgetType DEF Counted
    <2> QED
      BY <1>1, <2>1, <2>2, <2>3, BeamsWait
  <1>9. CASE OutOfSeqPacket(p)
    <2>1. /\ UNCHANGED <<block, mcnt_start, block_i, pc, pkt>>
          /\ out_of_seq_cnt' = out_of_seq_cnt + 1
      BY <1>9 DEF OutOfSeqPacket
    <2>2. \A o \in Beams, m \in Nat : Taken(o, m)' => Taken(o, m)
      BY <2>1 DEF Taken, Running, NextBlock
    <2>3. out_of_seq_cnt + 1 \in Nat
      BY BudgetType
    <2>4. Budget' >= Budget /\ Budget' \in Nat
      BY <1>1, <1>5, <2>1, <2>3 DEF Counted
    <2> QED
      BY <1>1, <2>1, <2>2, <2>4, BeamsWait
  <1>10. CASE ResetMcnt(p)
    <2>1. /\ Fresh(block'[block_i]) /\ Fresh(block'[NextBlock(block_i)]) /\ block_i' = block_i
          /\ pc' = "recv"
      BY <1>1, <1>10, ResetEffect DEF ResetMcnt
    <2>2. \A o \in Beams : \A m : ~Taken(o, m)'
      BY <2>1, FreshTakesNothing DEF NextBlock
    <2>3. live' \subseteq Beams
      BY <1>1 DEF NetTypeOK
    <2> QED
      BY <2>1, <2>2, <2>3 DEF TakenInv
  <1> QED
    BY <1>1, <1>6, <1>7, <1>8, <1>9, <1>10 DEF process_packet

LEMMA TakenStep == IInv /\ LeadInv /\ TakenInv /\ [Next]_vars => TakenInv'
  <1> SUFFICES ASSUME IInv, LeadInv, TakenInv, [Next]_vars, restarts' = 0 PROVE TakenInv'
    BY DEF TakenInv
  <1> USE DEF IInv, TypeOK
  <1>1. ASSUME NEW s \in Beams, Receive(s) PROVE TakenInv'
    <2>1. restarts = 0
      BY <1>1 DEF Receive, Turn
    <2> QED
      BY <1>1, <2>1, ReceiveTaken
  <1>2. ASSUME NEW s \in Beams, Lose(s) PROVE TakenInv'
    <2>1. restarts = 0
      BY <1>2 DEF Lose, Turn
    <2> QED
      BY <1>2, <2>1, LoseTaken
  <1>3. ASSUME NEW p \in Strays, ReceiveStray(p) PROVE TakenInv'
    <2>1. restarts = 0
      BY <1>3 DEF ReceiveStray
    <2> QED
      BY <1>3, <2>1, StrayTaken
  <1>4. ASSUME NEW s \in Beams, Restart(s) PROVE TakenInv'
    BY <1>4, OneMoreFault DEF Restart
  <1>5. ASSUME restarts = 0, tx' = tx, live' \subseteq live,
               UNCHANGED <<block, mcnt_start, block_i, out_of_seq_cnt, pkt, losses, strays>>,
               pc' = pc \/ (~Running /\ ~Running')
        PROVE  TakenInv'
    <2>1. \A o \in Beams, m \in Nat : Taken(o, m)' => Taken(o, m)
      BY <1>5 DEF Taken, Running, NextBlock
    <2>2. Budget' = Budget
      BY <1>5 DEF Budget, Running
    <2>3. Budget' >= Budget /\ Budget' \in Nat
      BY <2>2, BudgetType
    <2>4. pc' = "acquire" => pc = "acquire"
      BY <1>5 DEF Running
    <2> QED
      BY <1>5, <2>1, <2>3, <2>4, BeamsWait
  <1>6. ASSUME (\E s \in Beams : FallSilent(s)) \/ (\E b \in Blocks : FreeBlock(b))
                 \/ UNCHANGED vars
        PROVE  TakenInv'
    <2>1. /\ UNCHANGED <<block, mcnt_start, block_i, out_of_seq_cnt, pkt, losses, strays,
                         restarts, tx, pc>>
          /\ live' \subseteq live
      BY <1>6 DEF FallSilent, FreeBlock, thread, binfo, net, vars
    <2> QED
      BY <1>5, <2>1
  <1>7. ASSUME EnterHold \/ ReleaseHold \/ LeaveHold \/ AcquireFirst
        PROVE  TakenInv'
    <2>1. /\ UNCHANGED <<block, mcnt_start, block_i, out_of_seq_cnt, pkt, losses, strays,
                         restarts, tx, live>>
          /\ pc' = pc \/ (~Running /\ ~Running')
      BY <1>7 DEF EnterHold, ReleaseHold, LeaveHold, AcquireFirst, thread, binfo, net, Running
    <2> QED
      BY <1>5, <2>1
  <1>8. CASE AcquireSecond
    <2>1. /\ Fresh(block'[block_i]) /\ Fresh(block'[NextBlock(block_i)])
          /\ UNCHANGED <<block_i, live>> /\ pc' = "recv"
      BY <1>8, AcquireSecondEffect DEF AcquireSecond, binfo, net
    <2>2. \A o \in Beams : \A m : ~Taken(o, m)'
      BY <2>1, FreshTakesNothing DEF NextBlock
    <2>3. live' \subseteq Beams
      BY <2>1 DEF NetTypeOK
    <2> QED
      BY <2>1, <2>2, <2>3 DEF TakenInv
  <1>9. CASE AcquireNext
    <2>1. /\ UNCHANGED <<mcnt_start, tx, live, restarts, losses, strays>>
          /\ pc = "acquire" /\ pc' = "recv" /\ out_of_seq_cnt' = 0
      BY <1>9 DEF AcquireNext, TakePacket, net
    <2>2. \A o \in Beams, m \in Nat : Taken(o, m)' => Taken(o, m)
      BY <1>9, NextTakes
    <2>3. Budget' = Budget
      BY <2>1 DEF Budget
    <2>4. Budget' >= Budget /\ Budget' \in Nat
      BY <2>3, BudgetType
    <2> QED
      BY <2>1, <2>2, <2>4, BeamsWait
  <1> QED
    BY <1>1, <1>2, <1>3, <1>4, <1>6, <1>7, <1>8, <1>9 DEF Next

-----------------------------------------------------------------------------
(* What is reported missing, beam by beam.                                 *)

\* A block whose header counts, for each beam, the gaps in its data.
CountsGaps(x) == \A s \in Beams : x.missed[s] = Nm - Cardinality(x.slots[s])

\* The blocks that hold data: held by the thread or handed on.
InUse(b) ==
  \/ sem[b] = 1
  \/ Running /\ b = block_i
  \/ pc = "recv" /\ b = NextBlock(block_i)

GapsInv == restarts = 0 => \A b \in Blocks : InUse(b) => CountsGaps(block[b])

\* The status shows what the header of the block filled last says.
ReportInv == last_filled # -1 /\ sem[last_filled] = 1 => MISSPER = block[last_filled].missed

LEMMA FreshCountsGaps ==
  ASSUME NEW x, Fresh(x)
  PROVE  CountsGaps(x)
  <1>1. Cardinality({}) = 0 /\ Nm - 0 = Nm
    BY FS_EmptySet, Sizes
  <1> QED
    BY <1>1 DEF Fresh, CountsGaps

\* A packet that the block does not have yet fills one gap.
LEMMA TookCountsGaps ==
  ASSUME NEW x \in InputBlock, NEW y, NEW p \in Packets, Took(x, y, p), CountsGaps(x),
         p.sid \in Beams => p.mcnt % Nm \notin x.slots[p.sid]
  PROVE  CountsGaps(y)
  <1>1. CASE p.sid \notin Beams
    BY <1>1 DEF Took
  <1>2. CASE p.sid \in Beams
    <2> DEFINE k == p.mcnt % Nm
               old == x.slots[p.sid]
    <2>1. k \in 0 .. Nm-1
      <3>1. p.mcnt \in Int
        BY Sizes DEF Packets
      <3> QED
        BY <3>1, DivMod, Sizes
    <2>2. x.slots \in [Beams -> SUBSET (0 .. Nm-1)] /\ x.missed \in [Beams -> 0 .. WordMod-1]
      BY DEF InputBlock, Offsets
    <2>3. /\ y.missed = [x.missed EXCEPT ![p.sid] = (@ - 1) % WordMod]
          /\ y.slots = [x.slots EXCEPT ![p.sid] = @ \cup {k}]
          /\ k \notin old
      BY <1>2 DEF Took
    <2> HIDE DEF k
    <2>4. /\ IsFiniteSet(0 .. Nm-1) /\ Cardinality(0 .. Nm-1) = Nm
      BY FS_Interval, Sizes, 0 \in Int, Nm - 1 \in Int
    <2>5. old \cup {k} \subseteq 0 .. Nm-1 /\ old \subseteq 0 .. Nm-1
      BY <1>2, <2>1, <2>2
    <2>6. /\ IsFiniteSet(old) /\ Cardinality(old) \in Nat
          /\ Cardinality(old \cup {k}) = Cardinality(old) + 1
          /\ Cardinality(old \cup {k}) <= Nm
      BY <2>3, <2>4, <2>5, FS_Subset, FS_CardinalityType, FS_AddElement
    <2>7. PICK c \in Nat : c = Cardinality(old) /\ c + 1 <= Nm
      BY <2>6
    <2>8. x.missed[p.sid] = Nm - c
      BY <1>2, <2>7 DEF CountsGaps
    <2>9. ((Nm - c) - 1) % WordMod = Nm - (c + 1)
      <3>1. (Nm - c) - 1 = (WordMod * 0) + (Nm - (c + 1)) /\ Nm - (c + 1) \in 0 .. WordMod-1
        BY <2>7, Sizes
      <3>2. ((WordMod * 0) + (Nm - (c + 1))) % WordMod = Nm - (c + 1)
        BY <3>1, DivModUnique, Sizes, 0 \in Int
      <3> QED
        BY <3>1, <3>2
    <2>10. y.missed[p.sid] = Nm - Cardinality(y.slots[p.sid])
      BY <1>2, <2>2, <2>3, <2>6, <2>7, <2>8, <2>9
    <2>11. \A s \in Beams : s # p.sid => y.missed[s] = x.missed[s] /\ y.slots[s] = x.slots[s]
      BY <1>2, <2>2, <2>3
    <2> QED
      BY <2>10, <2>11 DEF CountsGaps
  <1> QED
    BY <1>1, <1>2

\* A beam's packet that is expected was not taken before.
LEMMA ExpectedIsNew ==
  ASSUME IInv, TakenInv, restarts = 0, NEW s \in Beams, Receive(s),
         NEW p, p = [mcnt |-> tx[s], sid |-> s], ExpectedPacket(p)
  PROVE  p.mcnt % Nm \notin block[block_for_mcnt(p.mcnt)].slots[s]
  <1> SUFFICES ASSUME p.mcnt % Nm \in block[block_for_mcnt(p.mcnt)].slots[s] PROVE FALSE
    OBVIOUS
  <1>1. /\ s \in live /\ tx[s] \in 0 .. McntMod-1 /\ pc = "recv" /\ p \in Packets
        /\ p.mcnt = tx[s] /\ IsExpected(p) /\ mcnt_start \in Nat
    BY PacketTypes DEF Receive, Turn, process_packet, ExpectedPacket, IInv, TypeOK, NetTypeOK,
                       ThreadTypeOK
  <1>2. Taken(s, tx[s])
    BY <1>1, ExpectedOffset DEF Taken, Running, IInv, TypeOK
  <1>3. Gone(s, tx[s])
    BY <1>1, <1>2 DEF TakenInv
  <1>4. tx[s] >= mcnt_start
    BY <1>1, ExpectedOffset DEF IInv, TypeOK
  <1> QED
    BY <1>1, <1>3, <1>4 DEF Gone

\* Restarts are never forgotten.
LEMMA NeverUnrestarted ==
  ASSUME NetTypeOK, [Next]_vars, restarts' = 0
  PROVE  restarts = 0
  <1>1. ASSUME NEW s \in Beams, Restart(s) PROVE FALSE
    BY <1>1, OneMoreFault DEF Restart
  <1>2. CASE restarts' = restarts
    BY <1>2
  <1> QED
    BY <1>1, <1>2
       DEF Next, EnterHold, ReleaseHold, LeaveHold, AcquireFirst, AcquireSecond, AcquireNext,
           Receive, Turn, Lose, FallSilent, ReceiveStray, FreeBlock, net, vars

LEMMA GapsStep == IInv /\ TakenInv /\ GapsInv /\ [Next]_vars => GapsInv'
  <1> SUFFICES ASSUME IInv, TakenInv, GapsInv, [Next]_vars, restarts' = 0,
                      NEW b \in Blocks, InUse(b)'
               PROVE  CountsGaps(block'[b])
    BY DEF GapsInv, CountsGaps
  <1> USE DEF IInv, TypeOK
  <1>1. /\ block_i \in Blocks /\ NextBlock(block_i) \in Blocks /\ NextBlock(block_i) # block_i
        /\ sem \in [Blocks -> {0, 1}] /\ block \in [Blocks -> InputBlock]
    BY NextBlockType DEF ThreadTypeOK
  <1>2. restarts = 0
    BY NeverUnrestarted
  <1>3. \A c \in Blocks : InUse(c) => CountsGaps(block[c])
    BY <1>2 DEF GapsInv
  <1>4. ASSUME NEW p \in Packets, pc = "recv", ExpectedPacket(p),
               p.sid \in Beams => p.mcnt % Nm \notin block[block_for_mcnt(p.mcnt)].slots[p.sid]
        PROVE  CountsGaps(block'[b])
    <2> DEFINE pb == block_for_mcnt(p.mcnt)
    <2>1. /\ pb \in {block_i, NextBlock(block_i)} /\ pb \in Blocks
          /\ Took(block[pb], block'[pb], p)
          /\ \A c \in Blocks : c # pb => block'[c] = block[c]
      BY <1>4, ExpectedEffect
    <2>2. UNCHANGED <<sem, pc, block_i>>
      BY <1>4 DEF ExpectedPacket
    <2>3. InUse(b)
      BY <2>2 DEF InUse, Running, NextBlock
    <2>4. CASE b = pb
      BY <1>1, <1>3, <1>4, <2>1, <2>3, <2>4, TookCountsGaps
    <2> QED
      BY <1>3, <2>1, <2>3, <2>4
  <1>5. ASSUME NEW p \in Packets, pc = "recv", FillBlock(p) PROVE CountsGaps(block'[b])
    <2>1. /\ block' = block /\ sem' = [sem EXCEPT ![block_i] = 1]
          /\ block_i' = NextBlock(block_i) /\ pc' = "acquire"
      BY <1>5 DEF FillBlock, WindowInv
    <2>2. InUse(b)
      BY <1>1, <1>5, <2>1 DEF InUse, Running
    <2> QED
      BY <1>3, <2>1, <2>2
  <1>6. ASSUME NEW p \in Packets, pc = "recv", ResetMcnt(p) PROVE CountsGaps(block'[b])
    <2>1. /\ Fresh(block'[block_i]) /\ Fresh(block'[NextBlock(block_i)])
          /\ \A c \in Blocks : c \notin {block_i, NextBlock(block_i)} => block'[c] = block[c]
          /\ block_i' = block_i
      BY <1>6, ResetEffect
    <2>2. UNCHANGED <<sem, pc>>
      BY <1>6 DEF ResetMcnt
    <2>3. CASE b \in {block_i, NextBlock(block_i)}
      BY <2>1, <2>3, FreshCountsGaps
    <2>4. CASE b \notin {block_i, NextBlock(block_i)}
      <3>1. InUse(b)
        BY <2>1, <2>2, <2>4 DEF InUse, Running, NextBlock
      <3> QED
        BY <1>3, <2>1, <2>4, <3>1
    <2> QED
      BY <2>3, <2>4
  <1>7. ASSUME UNCHANGED <<block, block_i>>, \A c \in Blocks : sem'[c] = 1 => sem[c] = 1,
               pc' = pc \/ ~Running'
        PROVE  CountsGaps(block'[b])
    <2>1. InUse(b)
      BY <1>7 DEF InUse, Running, NextBlock
    <2> QED
      BY <1>3, <1>7, <2>1
  <1>8. ASSUME NEW s \in Beams, Receive(s) PROVE CountsGaps(block'[b])
    <2> DEFINE p == [mcnt |-> tx[s], sid |-> s]
    <2>1. p \in Packets /\ process_packet(p) /\ pc = "recv" /\ p.sid = s
      BY <1>8, PacketTypes DEF Receive, process_packet
    <2> HIDE DEF p
    <2>2. CASE ExpectedPacket(p)
      <3>1. p.mcnt % Nm \notin block[block_for_mcnt(p.mcnt)].slots[s]
        BY <1>2, <1>8, <2>2, ExpectedIsNew DEF p
      <3> QED
        BY <1>4, <2>1, <2>2, <3>1
    <2>3. CASE LatePacket(p) \/ OutOfSeqPacket(p)
      BY <1>7, <2>3 DEF LatePacket, OutOfSeqPacket, thread, binfo
    <2> QED
      BY <1>5, <1>6, <2>1, <2>2, <2>3 DEF process_packet
  <1>9. ASSUME NEW p \in Strays, ReceiveStray(p) PROVE CountsGaps(block'[b])
    <2>1. p \in Packets /\ process_packet(p) /\ pc = "recv" /\ p.sid \notin Beams
      BY <1>9, PacketTypes, StrayAssumption DEF ReceiveStray, process_packet, Strays, Beams
    <2>2. CASE LatePacket(p) \/ OutOfSeqPacket(p)
      BY <1>7, <2>2 DEF LatePacket, OutOfSeqPacket, thread, binfo
    <2> QED
      BY <1>4, <1>5, <1>6, <2>1, <2>2 DEF process_packet
  <1>10. CASE AcquireSecond
    <2>1. /\ Fresh(block'[0]) /\ Fresh(block'[1]) /\ block_i = 0 /\ NextBlock(0) = 1
      BY <1>10, AcquireSecondEffect
    <2>2. /\ UNCHANGED <<sem, block_i>> /\ \A c \in Blocks : sem[c] = 0
      BY <1>10 DEF AcquireSecond, binfo, WindowInv, Running, Idle
    <2>3. b \in {0, 1}
      BY <2>1, <2>2 DEF InUse, Running, NextBlock
    <2> QED
      BY <2>1, <2>3, FreshCountsGaps
  <1>11. CASE AcquireNext
    <2>1. /\ pkt \in Packets /\ pkt.mcnt % Nm = pkt.mcnt - mcnt_start
          /\ Took(block[block_i], block'[block_i], pkt)
          /\ Fresh(block'[NextBlock(block_i)])
          /\ \A c \in Blocks : c \notin {block_i, NextBlock(block_i)} => block'[c] = block[c]
      BY <1>11, AcquireNextEffect
    <2>2. UNCHANGED <<sem, block_i>> /\ pc = "acquire"
      BY <1>11 DEF AcquireNext
    <2>3. CASE b = NextBlock(block_i)
      BY <2>1, <2>3, FreshCountsGaps
    <2>4. CASE b = block_i
      <3>1. CountsGaps(block[b])
        BY <1>3, <2>2, <2>4 DEF InUse, Running
      <3>2. pkt.sid \in Beams => pkt.mcnt % Nm \notin block[b].slots[pkt.sid]
        BY <1>2, <2>1, <2>2, <2>4 DEF TakenInv
      <3> QED
        BY <1>1, <2>1, <2>4, <3>1, <3>2, TookCountsGaps
    <2>5. CASE b \notin {block_i, NextBlock(block_i)}
      <3>1. InUse(b)
        BY <2>2, <2>5 DEF InUse, Running, NextBlock
      <3> QED
        BY <1>3, <2>1, <2>5, <3>1
    <2> QED
      BY <2>3, <2>4, <2>5
  <1>12. ASSUME NEW c \in Blocks, FreeBlock(c) PROVE CountsGaps(block'[b])
    <2>1. \A d \in Blocks : sem'[d] = 1 => sem[d] = 1
      BY <1>1, <1>12 DEF FreeBlock
    <2> QED
      BY <1>7, <1>12, <2>1 DEF FreeBlock, thread, binfo
  <1>13. CASE EnterHold \/ ReleaseHold \/ LeaveHold \/ AcquireFirst
    BY <1>7, <1>13 DEF EnterHold, ReleaseHold, LeaveHold, AcquireFirst, thread, binfo, Running
  <1>14. ASSUME NEW s \in Beams, Lose(s) \/ Restart(s) \/ FallSilent(s)
         PROVE  CountsGaps(block'[b])
    BY <1>7, <1>14 DEF Lose, Restart, FallSilent, thread, binfo
  <1>15. CASE UNCHANGED vars
    BY <1>7, <1>15 DEF vars, thread, binfo
  <1> QED
    BY <1>8, <1>9, <1>10, <1>11, <1>12, <1>13, <1>14, <1>15 DEF Next

\* In a ring of three blocks or more the block filled last is none of the two
\* held.
LEMMA LastFilledNotHeld ==
  ASSUME ThreadTypeOK, WindowInv, last_filled # -1
  PROVE  last_filled \in Blocks \ {block_i, NextBlock(block_i)}
  <1>1. last_filled \in 0 .. N-1 /\ block_i = (last_filled + 1) % N /\ block_i \in Blocks
    BY DEF ThreadTypeOK, Blocks, WindowInv
  <1>2. block_i = IF last_filled = N - 1 THEN 0 ELSE last_filled + 1
    BY <1>1, RingNext, Sizes
  <1>3. NextBlock(block_i) = IF block_i = N - 1 THEN 0 ELSE block_i + 1
    BY <1>1, NextBlockType
  <1> QED
    BY <1>1, <1>2, <1>3, Sizes DEF Blocks

LEMMA ReportStep == IInv /\ ReportInv /\ [Next]_vars => ReportInv'
  <1> SUFFICES ASSUME IInv, ReportInv, [Next]_vars PROVE ReportInv'
    OBVIOUS
  <1> USE DEF IInv, TypeOK
  <1>1. sem \in [Blocks -> {0, 1}] /\ block \in [Blocks -> InputBlock] /\ last_filled \in Blocks \cup {-1}
    BY DEF ThreadTypeOK
  <1>2. ASSUME UNCHANGED <<last_filled, MISSPER>>,
               \A b \in Blocks : sem'[b] = 1 => sem[b] = 1,
               \A b \in Blocks : b \notin {block_i, NextBlock(block_i)} => block'[b] = block[b]
        PROVE  ReportInv'
    BY <1>1, <1>2, LastFilledNotHeld DEF ReportInv
  <1>3. ASSUME NEW p \in Packets, process_packet(p) PROVE ReportInv'
    <2>1. CASE ExpectedPacket(p)
      <3>1. UNCHANGED <<last_filled, MISSPER, sem>>
        BY <2>1 DEF ExpectedPacket, missed
      <3> QED
        BY <1>2, <2>1, <3>1, ExpectedEffect
    <2>2. CASE FillBlock(p)
      <3>1. last_filled' = block_i /\ block' = block /\ MISSPER' = block[block_i].missed
        BY <2>2 DEF FillBlock, WindowInv, total_missed_pkts
      <3> QED
        BY <3>1 DEF ReportInv
    <2>3. CASE LatePacket(p) \/ OutOfSeqPacket(p)
      <3>1. UNCHANGED <<last_filled, MISSPER, sem, block>>
        BY <2>3 DEF LatePacket, OutOfSeqPacket, thread, missed
      <3> QED
        BY <1>2, <3>1
    <2>4. CASE ResetMcnt(p)
      <3>1. UNCHANGED <<last_filled, MISSPER, sem>>
        BY <2>4 DEF ResetMcnt, missed
      <3> QED
        BY <1>2, <2>4, <3>1, ResetEffect
    <2> QED
      BY <1>3, <2>1, <2>2, <2>3, <2>4 DEF process_packet
  <1>4. CASE AcquireSecond \/ LeaveHold
    <2>1. last_filled' = -1
      BY <1>4 DEF AcquireSecond, LeaveHold, WindowInv, Running, Idle
    <2> QED
      BY <2>1 DEF ReportInv
  <1>5. CASE AcquireNext
    <2>1. UNCHANGED <<last_filled, MISSPER, sem>>
      BY <1>5 DEF AcquireNext, missed
    <2> QED
      BY <1>2, <1>5, <2>1, AcquireNextEffect
  <1>6. ASSUME NEW c \in Blocks, FreeBlock(c) PROVE ReportInv'
    <2>1. \A b \in Blocks : sem'[b] = 1 => sem[b] = 1
      BY <1>1, <1>6 DEF FreeBlock
    <2> QED
      BY <1>2, <1>6, <2>1 DEF FreeBlock, thread, missed
  <1>7. ASSUME UNCHANGED <<sem, block, last_filled, MISSPER>> PROVE ReportInv'
    BY <1>2, <1>7
  <1> QED
    BY <1>3, <1>4, <1>5, <1>6, <1>7, PacketTypes
       DEF Next, EnterHold, ReleaseHold, AcquireFirst, Receive, ReceiveStray, Lose, Restart,
           FallSilent, thread, status, missed, vars

\* The losses reported are, beam by beam, the gaps in the data: however the
\* packets of the beams interleave, are lost, come late or out of sequence,
\* whichever beam falls silent, whatever strays do to the window the beams
\* share, and through every rollover of their counters.
THEOREM MissedHolds == Spec => []MissedIsGapsPerBeam
  <1> DEFINE Inv == LeadInv /\ TakenInv /\ GapsInv /\ ReportInv
  <1>1. Init => Inv
    <2>1. Init => LeadInv
      BY LeadInit
    <2>2. Init => TakenInv /\ GapsInv /\ ReportInv
      BY DEF Init, TakenInv, Taken, Running, GapsInv, InUse, ReportInv
    <2> QED
      BY <2>1, <2>2
  <1>2. IInv /\ Inv /\ [Next]_vars => Inv'
    BY LeadStep, TakenStep, GapsStep, ReportStep DEF IInv, TypeOK
  <1>3. IInv /\ Inv => MissedIsGapsPerBeam
    <2> SUFFICES ASSUME IInv, Inv, pc = "recv", restarts = 0
                 PROVE  /\ \A b \in Blocks :
                             sem[b] = 1 \/ b \in {block_i, NextBlock(block_i)} =>
                               block[b].missed = Gaps(b)
                        /\ last_filled # -1 /\ sem[last_filled] = 1 => MISSPER = Gaps(last_filled)
      BY DEF MissedIsGapsPerBeam
    <2>1. /\ block \in [Blocks -> InputBlock] /\ last_filled \in Blocks \cup {-1}
      BY DEF IInv, TypeOK, ThreadTypeOK
    <2>2. \A b \in Blocks : CountsGaps(block[b]) => block[b].missed = Gaps(b)
      <3> SUFFICES ASSUME NEW b \in Blocks, CountsGaps(block[b]) PROVE block[b].missed = Gaps(b)
        OBVIOUS
      <3>1. block[b].missed \in [Beams -> 0 .. WordMod-1]
        BY <2>1 DEF InputBlock
      <3>2. \A s \in Beams : block[b].missed[s] = Gaps(b)[s]
        BY DEF CountsGaps, Gaps
      <3> QED
        BY <3>1, <3>2 DEF Gaps
    <2>3. \A b \in Blocks : sem[b] = 1 \/ b \in {block_i, NextBlock(block_i)} => CountsGaps(block[b])
      BY DEF GapsInv, InUse, Running
    <2> QED
      BY <2>1, <2>2, <2>3 DEF ReportInv
  <1> QED
    BY <1>1, <1>2, <1>3, Invariance, PTL DEF Spec

-----------------------------------------------------------------------------
(* The sums over the beams.                                                *)

LEMMA SumOverTotal == \A f : SumOver(f) = Total(f)
  BY DEF SumOver, MapThenSumSet, MapThenFoldSet, One, Sums, Total

LEMMA SumType ==
  ASSUME NEW S, IsFiniteSet(S), NEW f \in [S -> Int]
  PROVE  SumOver(f) \in Int
  BY SumOverTotal, TotalType

LEMMA SumMonotone ==
  ASSUME NEW S, IsFiniteSet(S), NEW f \in [S -> Int], NEW h \in [S -> Int],
         \A x \in S : f[x] <= h[x]
  PROVE  SumOver(f) <= SumOver(h)
  BY SumOverTotal, TotalMonotone

LEMMA SumChange ==
  ASSUME NEW S, IsFiniteSet(S), NEW f \in [S -> Int], NEW h \in [S -> Int],
         NEW s \in S, NEW d \in Int,
         h[s] = f[s] + d, \A x \in S : x # s => h[x] = f[x]
  PROVE  SumOver(h) = SumOver(f) + d
  BY SumOverTotal, TotalChange

LEMMA SumConstant ==
  ASSUME NEW S, IsFiniteSet(S), NEW c \in Int
  PROVE  SumOver([x \in S |-> c]) = c * Cardinality(S)
  BY SumOverTotal, TotalConstant

-----------------------------------------------------------------------------
(* The two counts of what a block missed.                                  *)

\* What the beams missed of a block, by its header, and the packets that binfo
\* counted for it are all packets of the block.
TotalFits(x, cnt) == ((SumOver(x.missed) + cnt) - (Nm * N_BEAMS)) % WordMod = 0

InHand(b) == (Running /\ b = block_i) \/ (pc = "recv" /\ b = NextBlock(block_i))

TotalsInv ==
  strays = 0 =>
    /\ \A b \in Blocks : InHand(b) => TotalFits(block[b], block_packet_counter[b])
    /\ (SumOver(MISSPER) - block_missed) % WordMod = 0
    /\ pc = "acquire" => pkt.sid \in Beams

LEMMA BeamsFinite == IsFiniteSet(Beams) /\ Cardinality(Beams) = N_BEAMS
  <1>1. /\ IsFiniteSet(0 .. N_BEAMS-1)
        /\ Cardinality(0 .. N_BEAMS-1) = N_BEAMS
    BY FS_Interval, Sizes, 0 \in Int, N_BEAMS - 1 \in Int
  <1> QED
    BY <1>1 DEF Beams

LEMMA ZeroModWord == 0 % WordMod = 0
  <1>1. ((WordMod * 0) + 0) % WordMod = 0
    BY DivModUnique, Sizes, 0 \in Int, 0 \in 0 .. WordMod-1
  <1> QED
    BY <1>1, Sizes

LEMMA MissedSum ==
  ASSUME NEW f \in [Beams -> 0 .. WordMod-1]
  PROVE  SumOver(f) \in Int
  <1>1. f \in [Beams -> Int]
    BY Sizes
  <1> QED
    BY <1>1, BeamsFinite, SumType

\* A recycled block counts all its packets as missed, and none as arrived.
LEMMA FreshTotal ==
  ASSUME NEW x, Fresh(x)
  PROVE  TotalFits(x, 0)
  <1>1. SumOver(x.missed) = Nm * N_BEAMS
    BY BeamsFinite, SumConstant, Sizes, Nm \in Int DEF Fresh
  <1>2. Nm * N_BEAMS \in Int
    BY Sizes
  <1>3. (SumOver(x.missed) + 0) - (Nm * N_BEAMS) = 0
    BY <1>1, <1>2
  <1> QED
    BY <1>3, ZeroModWord DEF TotalFits

\* A beam's packet is counted in both, though the header's count may wrap.
LEMMA TookTotal ==
  ASSUME NEW x \in InputBlock, NEW y \in InputBlock, NEW p \in Packets, p.sid \in Beams,
         Took(x, y, p), NEW cnt \in Nat, TotalFits(x, cnt)
  PROVE  TotalFits(y, cnt + 1)
  <1> DEFINE v == x.missed[p.sid]
             q == (v - 1) \div WordMod
             r == (v - 1) % WordMod
             all == Nm * N_BEAMS
  <1>1. x.missed \in [Beams -> 0 .. WordMod-1] /\ y.missed \in [Beams -> 0 .. WordMod-1]
    BY DEF InputBlock
  <1>2. v \in Int /\ v - 1 \in Int /\ all \in Int
    BY <1>1, Sizes
  <1>3. v - 1 = (WordMod * q) + r /\ q \in Int /\ r \in 0 .. WordMod-1
    BY <1>2, DivMod, Sizes
  <1>4. y.missed[p.sid] = r /\ \A s \in Beams : s # p.sid => y.missed[s] = x.missed[s]
    BY <1>1 DEF Took
  <1> HIDE DEF v, q, r, all
  <1>5. x.missed \in [Beams -> Int] /\ y.missed \in [Beams -> Int] /\ r - v \in Int
    BY <1>1, <1>2, <1>3, Sizes
  <1>6. y.missed[p.sid] = x.missed[p.sid] + (r - v)
    BY <1>2, <1>3, <1>4, Sizes DEF v
  <1>7. SumOver(y.missed) = SumOver(x.missed) + (r - v)
    BY <1>4, <1>5, <1>6, BeamsFinite, SumChange
  <1>8. PICK a \in Int : a = SumOver(x.missed)
    BY <1>1, MissedSum
  <1>9. PICK wq \in Int : wq = WordMod * (-q) /\ WordMod * q = -wq /\ -q \in Int
    BY <1>3, Sizes
  <1>10. (SumOver(y.missed) + (cnt + 1)) - all = ((a + cnt) - all) + wq
    BY <1>2, <1>3, <1>7, <1>8, <1>9, Sizes
  <1>11. (((a + cnt) - all) + wq) % WordMod = ((a + cnt) - all) % WordMod
    <2>1. (a + cnt) - all \in Int
      BY <1>2
    <2>2. (((a + cnt) - all) + (WordMod * (-q))) % WordMod = ((a + cnt) - all) % WordMod
      BY <1>9, <2>1, DivModShift, Sizes
    <2> QED
      BY <1>9, <2>2
  <1>12. ((a + cnt) - all) % WordMod = 0
    BY <1>8 DEF TotalFits, all
  <1>13. ((SumOver(y.missed) + (cnt + 1)) - all) % WordMod = 0
    BY <1>10, <1>11, <1>12
  <1> QED
    BY <1>13 DEF TotalFits, all

\* What the status takes from the two counts agrees.
LEMMA FilledTotals ==
  ASSUME NEW x \in InputBlock, NEW cnt \in Nat, TotalFits(x, cnt)
  PROVE  (SumOver(x.missed) - ((Nm * N_BEAMS - cnt) % WordMod)) % WordMod = 0
  <1> DEFINE all == Nm * N_BEAMS
             q == (all - cnt) \div WordMod
             r == (all - cnt) % WordMod
  <1>1. all \in Int /\ all - cnt \in Int
    BY Sizes
  <1>2. all - cnt = (WordMod * q) + r /\ q \in Int /\ r \in 0 .. WordMod-1
    BY <1>1, DivMod, Sizes
  <1>3. PICK a \in Int : a = SumOver(x.missed)
    BY MissedSum DEF InputBlock
  <1>4. ((a + cnt) - all) % WordMod = 0
    BY <1>3 DEF TotalFits
  <1> HIDE DEF all, q, r
  <1>5. PICK wq \in Int : wq = WordMod * q
    BY <1>2, Sizes
  <1>6. a - r = ((a + cnt) - all) + wq
    BY <1>1, <1>2, <1>5, Sizes
  <1>7. (((a + cnt) - all) + wq) % WordMod = ((a + cnt) - all) % WordMod
    <2>1. (a + cnt) - all \in Int
      BY <1>1
    <2>2. (((a + cnt) - all) + (WordMod * q)) % WordMod = ((a + cnt) - all) % WordMod
      BY <1>2, <2>1, DivModShift, Sizes
    <2> QED
      BY <1>5, <2>2
  <1>8. (SumOver(x.missed) - r) % WordMod = 0
    BY <1>3, <1>4, <1>6, <1>7
  <1> QED
    BY <1>8 DEF r, all

LEMMA TotalsInit == Init => TotalsInv
  <1> SUFFICES ASSUME Init PROVE TotalsInv
    OBVIOUS
  <1>1. SumOver(MISSPER) = 0
    <2>1. SumOver([s \in Beams |-> 0]) = 0 * Cardinality(Beams)
      BY BeamsFinite, SumConstant, 0 \in Int
    <2> QED
      BY <2>1, BeamsFinite, Sizes DEF Init
  <1>2. (SumOver(MISSPER) - block_missed) % WordMod = 0
    <2>1. SumOver(MISSPER) - block_missed = 0
      BY <1>1 DEF Init
    <2> QED
      BY <2>1, ZeroModWord
  <1> QED
    BY <1>2 DEF Init, TotalsInv, InHand, Running

LEMMA TotalsStep == IInv /\ TotalsInv /\ [Next]_vars => TotalsInv'
  <1> SUFFICES ASSUME IInv, TotalsInv, [Next]_vars, strays' = 0 PROVE TotalsInv'
    BY DEF TotalsInv
  <1> USE DEF IInv, TypeOK
  <1>1. /\ block_i \in Blocks /\ NextBlock(block_i) \in Blocks /\ NextBlock(block_i) # block_i
        /\ block \in [Blocks -> InputBlock] /\ block_packet_counter \in [Blocks -> Nat]
    BY NextBlockType DEF ThreadTypeOK
  <1>2. ASSUME strays = 0, UNCHANGED <<block, block_packet_counter, block_i, MISSPER, block_missed, pkt>>,
               pc' = pc \/ ~Running'
        PROVE  TotalsInv'
    <2>1. \A b \in Blocks : InHand(b)' => InHand(b)
      BY <1>2 DEF InHand, Running, NextBlock
    <2> QED
      BY <1>2, <2>1 DEF TotalsInv, TotalFits, Running
  <1>3. ASSUME NEW s \in Beams, Receive(s) PROVE TotalsInv'
    <2> DEFINE p == [mcnt |-> tx[s], sid |-> s]
    <2>1. p \in Packets /\ process_packet(p) /\ pc = "recv" /\ p.sid = s /\ strays = 0
      BY <1>3, PacketTypes DEF Receive, process_packet, Turn
    <2> HIDE DEF p
    <2>2. /\ TotalFits(block[block_i], block_packet_counter[block_i])
          /\ TotalFits(block[NextBlock(block_i)], block_packet_counter[NextBlock(block_i)])
          /\ (SumOver(MISSPER) - block_missed) % WordMod = 0
      BY <1>1, <2>1 DEF TotalsInv, InHand, Running
    <2>3. CASE ExpectedPacket(p)
      <3> DEFINE pb == block_for_mcnt(p.mcnt)
      <3>1. /\ pb \in {block_i, NextBlock(block_i)} /\ pb \in Blocks
            /\ block' \in [Blocks -> InputBlock]
            /\ Took(block[pb], block'[pb], p)
            /\ \A c \in Blocks : c # pb => block'[c] = block[c]
            /\ block_packet_counter' = [block_packet_counter EXCEPT ![pb] = @ + 1]
        BY <2>1, <2>3, ExpectedEffect
      <3>2. UNCHANGED <<mcnt_start, block_i, MISSPER, block_missed, pc>>
        BY <2>3 DEF ExpectedPacket, missed
      <3> HIDE DEF pb
      <3>3. TotalFits(block'[pb], block_packet_counter[pb] + 1)
        BY <1>1, <2>1, <2>2, <3>1, TookTotal
      <3>4. ASSUME NEW b \in Blocks, InHand(b)'
            PROVE  TotalFits(block'[b], block_packet_counter'[b])
        <4>1. b \in {block_i, NextBlock(block_i)}
          BY <3>2, <3>4 DEF InHand, NextBlock
        <4>2. CASE b = pb
          BY <1>1, <3>1, <3>3, <4>2
        <4>3. CASE b # pb
          BY <1>1, <2>2, <3>1, <4>1, <4>3
        <4> QED
          BY <4>2, <4>3
      <3> QED
        BY <2>1, <2>2, <3>2, <3>4 DEF TotalsInv, TotalFits
    <2>4. CASE FillBlock(p)
      <3>1. /\ MISSPER' = block[block_i].missed
            /\ block_missed' = (Nm * N_BEAMS - block_packet_counter[block_i]) % WordMod
            /\ block_i' = NextBlock(block_i) /\ pc' = "acquire" /\ pkt' = p
            /\ UNCHANGED <<block, block_packet_counter>>
        BY <2>4 DEF FillBlock, total_missed_pkts
      <3>2. (SumOver(MISSPER') - block_missed') % WordMod = 0
        BY <1>1, <2>2, <3>1, FilledTotals
      <3>3. \A b \in Blocks : InHand(b)' => TotalFits(block'[b], block_packet_counter'[b])
        BY <2>2, <3>1 DEF InHand, Running
      <3> QED
        <4>1. ((SumOver(MISSPER) - block_missed) % WordMod = 0)'
          BY <3>2
        <4>2. pkt'.sid \in Beams
          BY <2>1, <3>1
        <4> QED
          BY <3>3, <4>1, <4>2 DEF TotalsInv, TotalFits
    <2>5. CASE LatePacket(p) \/ OutOfSeqPacket(p)
      BY <1>2, <2>1, <2>5 DEF LatePacket, OutOfSeqPacket, thread, binfo, missed
    <2>6. CASE ResetMcnt(p)
      <3>1. /\ block_i' = block_i
            /\ Fresh(block'[block_i]) /\ Fresh(block'[NextBlock(block_i)])
            /\ block_packet_counter' =
                 [block_packet_counter EXCEPT ![block_i] = 0, ![NextBlock(block_i)] = 0]
        BY <2>1, <2>6, ResetEffect
      <3>2. UNCHANGED <<MISSPER, block_missed, pc>>
        BY <2>6 DEF ResetMcnt, missed
      <3>3. \A b \in Blocks : InHand(b)' => TotalFits(block'[b], block_packet_counter'[b])
        BY <1>1, <3>1, FreshTotal DEF InHand, NextBlock
      <3> QED
        BY <2>1, <2>2, <3>2, <3>3 DEF TotalsInv, TotalFits
    <2> QED
      BY <2>1, <2>3, <2>4, <2>5, <2>6 DEF process_packet
  <1>4. CASE AcquireSecond
    <2>1. /\ Fresh(block'[0]) /\ Fresh(block'[1]) /\ block_i = 0 /\ NextBlock(0) = 1
          /\ 0 \in Blocks /\ 1 \in Blocks
      BY <1>4, AcquireSecondEffect
    <2>2. /\ UNCHANGED <<block_i, block_packet_counter, MISSPER, block_missed, strays>>
          /\ block_packet_counter[0] = 0 /\ block_packet_counter[1] = 0 /\ pc' = "recv"
      BY <1>4, <2>1 DEF AcquireSecond, binfo, status, missed, net, WindowInv, Running, Idle
    <2>3. \A b \in Blocks : InHand(b)' => TotalFits(block'[b], block_packet_counter'[b])
      BY <2>1, <2>2, FreshTotal DEF InHand, NextBlock
    <2> QED
      BY <2>2, <2>3 DEF TotalsInv, TotalFits
  <1>5. CASE AcquireNext
    <2>1. /\ pkt \in Packets /\ block' \in [Blocks -> InputBlock]
          /\ Took(block[block_i], block'[block_i], pkt)
          /\ Fresh(block'[NextBlock(block_i)])
          /\ block_packet_counter' =
               [block_packet_counter EXCEPT ![NextBlock(block_i)] = 0, ![block_i] = @ + 1]
      BY <1>5, AcquireNextEffect
    <2>2. UNCHANGED <<block_i, MISSPER, block_missed, strays>> /\ pc = "acquire" /\ pc' = "recv"
      BY <1>5 DEF AcquireNext, missed, net
    <2>3. /\ TotalFits(block[block_i], block_packet_counter[block_i])
          /\ (SumOver(MISSPER) - block_missed) % WordMod = 0
          /\ pkt.sid \in Beams
      BY <1>1, <2>2 DEF TotalsInv, InHand, Running
    <2>4. TotalFits(block'[block_i], block_packet_counter[block_i] + 1)
      BY <1>1, <2>1, <2>3, TookTotal
    <2>5. \A b \in Blocks : InHand(b)' => TotalFits(block'[b], block_packet_counter'[b])
      BY <1>1, <2>1, <2>2, <2>4, FreshTotal DEF InHand, NextBlock
    <2> QED
      BY <2>2, <2>3, <2>5 DEF TotalsInv, TotalFits
  <1>6. CASE LeaveHold
    <2>1. /\ MISSPER' = [s \in Beams |-> 0] /\ block_missed' = 0 /\ pc' = "acquire0"
      BY <1>6 DEF LeaveHold, WindowInv, Running, Idle
    <2>2. SumOver([s \in Beams |-> 0]) = 0
      <3>1. SumOver([s \in Beams |-> 0]) = 0 * Cardinality(Beams)
        BY BeamsFinite, SumConstant, 0 \in Int
      <3> QED
        BY <3>1, BeamsFinite, Sizes
    <2>3. (SumOver(MISSPER') - block_missed') % WordMod = 0
      <3>1. SumOver(MISSPER') - block_missed' = 0
        BY <2>1, <2>2
      <3> QED
        BY <3>1, ZeroModWord
    <2>4. ((SumOver(MISSPER) - block_missed) % WordMod = 0)'
      BY <2>3
    <2> QED
      BY <2>1, <2>4 DEF TotalsInv, InHand, Running
  <1>7. ASSUME NEW p \in Strays, ReceiveStray(p) PROVE TotalsInv'
    BY <1>7, OneMoreFault DEF ReceiveStray
  <1>8. CASE EnterHold \/ ReleaseHold \/ AcquireFirst
    BY <1>2, <1>8 DEF EnterHold, ReleaseHold, AcquireFirst, thread, binfo, status, missed, net, Running
  <1>9. ASSUME NEW b \in Blocks, FreeBlock(b) PROVE TotalsInv'
    BY <1>2, <1>9 DEF FreeBlock, thread, binfo, missed, net
  <1>10. ASSUME NEW s \in Beams, Lose(s) \/ Restart(s) \/ FallSilent(s) PROVE TotalsInv'
    BY <1>2, <1>10 DEF Lose, Restart, FallSilent, Turn, thread, binfo, missed
  <1>11. CASE UNCHANGED vars
    BY <1>2, <1>11 DEF vars, thread, binfo, missed, net
  <1> QED
    BY <1>3, <1>4, <1>5, <1>6, <1>7, <1>8, <1>9, <1>10, <1>11 DEF Next

\* The count that the status keeps per beam and the one it sums up per block
\* agree, though one comes from the block's header and the other from binfo,
\* each reset at places of its own, and both are kept in words that wrap.
THEOREM TotalsHold == Spec => []TotalsAgree
  <1>1. TotalsInv => TotalsAgree
    BY DEF TotalsInv, TotalsAgree
  <1> QED
    BY <1>1, TotalsInit, TotalsStep, Invariance, PTL DEF Spec

-----------------------------------------------------------------------------
(* When the window is reset.                                               *)

\* What the other beams can have sent since beam s's packet received last: a
\* beam that lives, by its lead over s, which grew by as much, from -MaxSkew at
\* the least; and one packet more for every packet of s that was lost.
SentSince(s, ld, lv, ls) ==
  [o \in Beams |->
     IF o = s THEN 0
              ELSE (IF o \in lv THEN (ld[o] - ld[s]) + MaxSkew ELSE 2 * MaxSkew) + ls]

\* Since a packet of a beam was in the window, only strays and the packets of
\* the others were counted as out of sequence.  (While a block is awaited, the
\* count is that from before the expected packet in hand.)
SyncInv ==
  pc # "acquire" =>
    \A s \in live : insync[s] =>
      out_of_seq_cnt <= strays + SumOver(SentSince(s, lead, live, losses))

\* The skew of the beams, the packets lost and the strays leave room below the
\* limit of out-of-sequence packets.
Room(ls, ss) == ss + ((N_BEAMS - 1) * (2 * MaxSkew + ls)) <= MAX_OUT_OF_SEQ
FewFaults == Room(losses, strays)

LEMMA SumGrows ==
  ASSUME NEW S, IsFiniteSet(S), NEW f \in [S -> Int], NEW h \in [S -> Int],
         \A x \in S : f[x] <= h[x], NEW o \in S, f[o] + 1 <= h[o]
  PROVE  SumOver(f) + 1 <= SumOver(h)
  <1> DEFINE g == [f EXCEPT ![o] = @ + 1]
  <1>1. /\ g \in [S -> Int] /\ g[o] = f[o] + 1 /\ \A x \in S : x # o => g[x] = f[x]
        /\ 1 \in Int
    OBVIOUS
  <1> HIDE DEF g
  <1>2. SumOver(g) = SumOver(f) + 1
    BY <1>1, SumChange
  <1>3. \A x \in S : g[x] <= h[x]
    BY <1>1
  <1>4. SumOver(g) <= SumOver(h)
    BY <1>1, <1>3, SumMonotone
  <1> QED
    BY <1>2, <1>4

LEMMA SentType ==
  ASSUME NEW s \in Beams, NEW ld \in [Beams -> 0 .. MaxSkew], NEW lv, NEW ls \in Nat
  PROVE  /\ SentSince(s, ld, lv, ls) \in [Beams -> Int]
         /\ SumOver(SentSince(s, ld, lv, ls)) \in Nat
  <1> DEFINE f == SentSince(s, ld, lv, ls)
             z == [o \in Beams |-> 0]
  <1>1. MaxSkew \in Nat /\ \A o \in Beams : ld[o] \in 0 .. MaxSkew
    BY Sizes
  <1>2. \A o \in Beams : f[o] \in Nat
    BY <1>1 DEF SentSince
  <1>3. f \in [Beams -> Int]
    <2>1. f = [o \in Beams |-> f[o]]
      BY DEF SentSince
    <2>2. \A o \in Beams : f[o] \in Int
      BY <1>2
    <2> HIDE DEF f
    <2> QED
      BY <2>1, <2>2
  <1>4. z \in [Beams -> Int] /\ \A o \in Beams : z[o] = 0
    OBVIOUS
  <1>5. SumOver(z) = 0
    <2>1. SumOver(z) = 0 * Cardinality(Beams)
      BY BeamsFinite, SumConstant, 0 \in Int
    <2> HIDE DEF z
    <2> QED
      BY <2>1, BeamsFinite, Sizes
  <1> HIDE DEF f, z
  <1>6. \A o \in Beams : z[o] <= f[o]
    BY <1>2, <1>4
  <1>7. SumOver(z) <= SumOver(f) /\ SumOver(f) \in Int
    BY <1>3, <1>4, <1>6, BeamsFinite, SumMonotone, SumType
  <1>8. SumOver(f) \in Nat
    BY <1>5, <1>7
  <1> QED
    BY <1>3, <1>8 DEF f

\* All of it is at most this much.
LEMMA SentMost ==
  ASSUME NEW s \in Beams, NEW ld \in [Beams -> 0 .. MaxSkew], NEW lv, NEW ls \in Nat
  PROVE  SumOver(SentSince(s, ld, lv, ls)) <= (N_BEAMS - 1) * (2 * MaxSkew + ls)
  <1> DEFINE f == SentSince(s, ld, lv, ls)
             c == 2 * MaxSkew + ls
             k == [o \in Beams |-> c]
             g == [o \in Beams |-> IF o = s THEN 0 ELSE c]
  <1>1. /\ MaxSkew \in Nat /\ \A o \in Beams : ld[o] \in 0 .. MaxSkew
        /\ c \in Nat
    BY Sizes
  <1>2. \A o \in Beams : f[o] <= g[o]
    BY <1>1 DEF SentSince
  <1> HIDE DEF c
  <1>3. /\ k \in [Beams -> Int] /\ g \in [Beams -> Int] /\ c \in Int /\ -c \in Int
        /\ g[s] = k[s] + (-c) /\ \A o \in Beams : o # s => g[o] = k[o]
    BY <1>1
  <1>4. SumOver(k) = c * Cardinality(Beams)
    BY <1>3, BeamsFinite, SumConstant
  <1> HIDE DEF k, g
  <1>5. SumOver(g) = SumOver(k) + (-c)
    BY <1>3, BeamsFinite, SumChange
  <1>6. SumOver(f) <= SumOver(g)
    BY <1>2, <1>3, SentType, BeamsFinite, SumMonotone
  <1>7. (c * N_BEAMS) + (-c) = (N_BEAMS - 1) * c
    BY <1>1, Sizes
  <1>8. SumOver(f) <= (N_BEAMS - 1) * c
    BY <1>4, <1>5, <1>6, <1>7, BeamsFinite
  <1> QED
    BY <1>8 DEF c

LEMMA SentInState ==
  ASSUME NetTypeOK, NEW s \in Beams
  PROVE  /\ losses \in Nat /\ lead \in [Beams -> 0 .. MaxSkew]
         /\ SentSince(s, lead, live, losses) \in [Beams -> Int]
         /\ SumOver(SentSince(s, lead, live, losses)) \in Nat
         /\ SumOver(SentSince(s, lead, live, losses)) <= (N_BEAMS - 1) * (2 * MaxSkew + losses)
  <1>1. losses \in Nat /\ lead \in [Beams -> 0 .. MaxSkew]
    BY DEF NetTypeOK
  <1> QED
    BY <1>1, SentType, SentMost

\* It only grows while s lives and receives nothing.
LEMMA SentGrows ==
  ASSUME NEW s \in Beams, NEW lv, NEW mv, s \in lv, mv \subseteq lv,
         NEW ld \in [Beams -> 0 .. MaxSkew], NEW md \in [Beams -> 0 .. MaxSkew],
         NEW ls \in Nat, NEW ms \in Nat, ls <= ms,
         \A o \in Beams : o \in mv /\ o # s => (ld[o] - ld[s]) + ls <= (md[o] - md[s]) + ms
  PROVE  SumOver(SentSince(s, ld, lv, ls)) <= SumOver(SentSince(s, md, mv, ms))
  <1> DEFINE f == SentSince(s, ld, lv, ls)
             h == SentSince(s, md, mv, ms)
  <1>1. ASSUME NEW o \in Beams PROVE f[o] <= h[o]
    <2>1. /\ ld[o] \in 0 .. MaxSkew /\ ld[s] \in 0 .. MaxSkew /\ md[o] \in 0 .. MaxSkew
          /\ md[s] \in 0 .. MaxSkew /\ MaxSkew \in Nat
      BY Sizes
    <2>2. CASE o = s
      BY <2>2 DEF SentSince
    <2>3. CASE o # s /\ o \in mv
      BY <2>1, <2>3 DEF SentSince
    <2>4. CASE o # s /\ o \notin mv
      <3>1. /\ h[o] = (2 * MaxSkew) + ms
            /\ f[o] = (IF o \in lv THEN (ld[o] - ld[s]) + MaxSkew ELSE 2 * MaxSkew) + ls
        BY <2>4 DEF SentSince
      <3> QED
        BY <2>1, <3>1
    <2> QED
      BY <2>2, <2>3, <2>4
  <1>2. f \in [Beams -> Int] /\ h \in [Beams -> Int]
    BY SentType
  <1> HIDE DEF f, h
  <1>3. SumOver(f) <= SumOver(h)
    BY <1>1, <1>2, BeamsFinite, SumMonotone
  <1> QED
    BY <1>3 DEF f, h

\* A packet of another beam is one of those.
LEMMA SentByOther ==
  ASSUME NetTypeOK, NEW s \in live, NEW o \in Beams, o # s, Turn(o), losses' = losses
  PROVE  /\ SumOver(SentSince(s, lead', live', losses')) \in Nat
         /\ SumOver(SentSince(s, lead, live, losses)) + 1
              <= SumOver(SentSince(s, lead', live', losses'))
         /\ SumOver(SentSince(s, lead', live', losses'))
              <= (N_BEAMS - 1) * (2 * MaxSkew + losses)
  <1>1. /\ o \in live /\ live' = live
        /\ lead' \in [Beams -> 0 .. MaxSkew]
    BY TurnEffect
  <1>2. PICK slowest \in Nat :
          \A x \in live : lead'[x] = (IF x = o THEN lead[o] + 1 ELSE lead[x]) - slowest
    BY TurnEffect
  <1>3. /\ losses \in Nat /\ lead \in [Beams -> 0 .. MaxSkew] /\ s \in Beams
        /\ live \subseteq Beams /\ MaxSkew \in Nat
    BY Sizes DEF NetTypeOK
  <1> DEFINE f == SentSince(s, lead, live, losses)
             h == SentSince(s, lead', live, losses)
  <1>4. f \in [Beams -> Int] /\ h \in [Beams -> Int]
    BY <1>1, <1>3, SentType
  <1>5. ASSUME NEW x \in Beams PROVE f[x] <= h[x] /\ (x = o => f[x] + 1 <= h[x])
    <2>1. lead[x] \in Int /\ lead[s] \in Int /\ lead'[s] = lead[s] - slowest
      BY <1>2, <1>3
    <2>2. CASE x = s
      BY <2>2 DEF SentSince
    <2>3. CASE x # s /\ x \in live
      <3>1. lead'[x] = (IF x = o THEN lead[x] + 1 ELSE lead[x]) - slowest
        BY <1>2, <2>3
      <3>2. f[x] = ((lead[x] - lead[s]) + MaxSkew) + losses
        BY <2>3 DEF SentSince
      <3>3. h[x] = ((lead'[x] - lead'[s]) + MaxSkew) + losses
        BY <2>3 DEF SentSince
      <3> HIDE DEF f, h
      <3> QED
        BY <1>2, <1>3, <2>1, <3>1, <3>2, <3>3
    <2>4. CASE x # s /\ x \notin live
      <3>1. f[x] = 2 * MaxSkew + losses /\ h[x] = 2 * MaxSkew + losses /\ x # o
        BY <1>1, <2>4 DEF SentSince
      <3> QED
        BY <1>3, <3>1
    <2> QED
      BY <1>1, <2>2, <2>3, <2>4
  <1> HIDE DEF f, h
  <1>6. SumOver(f) + 1 <= SumOver(h)
    BY <1>4, <1>5, BeamsFinite, SumGrows
  <1>7. SumOver(h) \in Nat /\ SumOver(h) <= (N_BEAMS - 1) * (2 * MaxSkew + losses)
    BY <1>1, <1>3, SentType, SentMost DEF h
  <1> QED
    BY <1>1, <1>6, <1>7 DEF f, h

\* A lost packet of s gives every other beam one more.
LEMMA SentAfterLoss ==
  ASSUME NetTypeOK, NEW s \in live, NEW o \in Beams, Turn(o), losses' = losses + 1
  PROVE  SumOver(SentSince(s, lead, live, losses))
           <= SumOver(SentSince(s, lead', live', losses'))
  <1>1. /\ live' = live /\ lead' \in [Beams -> 0 .. MaxSkew]
    BY TurnEffect
  <1>2. PICK slowest \in Nat :
          \A x \in live : lead'[x] = (IF x = o THEN lead[o] + 1 ELSE lead[x]) - slowest
    BY TurnEffect
  <1>3. /\ losses \in Nat /\ lead \in [Beams -> 0 .. MaxSkew] /\ s \in Beams
    BY DEF NetTypeOK
  <1>4. ASSUME NEW x \in Beams, x \in live, x # s
        PROVE  (lead[x] - lead[s]) + losses <= (lead'[x] - lead'[s]) + losses'
    <2>1. /\ lead'[x] = (IF x = o THEN lead[x] + 1 ELSE lead[x]) - slowest
          /\ lead'[s] = (IF s = o THEN lead[s] + 1 ELSE lead[s]) - slowest
      BY <1>2, <1>4
    <2>2. lead[x] \in Int /\ lead[s] \in Int
      BY <1>3
    <2> QED
      BY <1>2, <1>3, <2>1, <2>2
  <1>5. losses' \in Nat /\ losses <= losses'
    BY <1>3
  <1> QED
    BY <1>1, <1>3, <1>4, <1>5, SentGrows

\* What a packet does to the count.
LEMMA CountChanges ==
  ASSUME IInv, NEW p \in Packets, process_packet(p)
  PROVE  /\ pc = "recv"
         /\ IsExpected(p) => pc' = "acquire" \/ out_of_seq_cnt' = 0
         /\ ~TooManyOutOfSeq =>
              pc' = "acquire" \/ out_of_seq_cnt' \in {0, out_of_seq_cnt, out_of_seq_cnt + 1}
         /\ ~TooManyOutOfSeq \/ IsExpected(p) => mcnt_start' \in {mcnt_start, mcnt_start + Nm}
  <1>1. p.mcnt \in Int /\ mcnt_start \in Int
    BY Sizes DEF Packets, IInv, TypeOK, ThreadTypeOK
  <1>2. IsExpected(p) => ~IsLate(p)
    BY <1>1 DEF IsExpected, IsLate, Dist
  <1>3. pc = "recv"
    BY DEF process_packet
  <1>4. CASE ExpectedPacket(p)
    BY <1>3, <1>4 DEF ExpectedPacket, TakePacket
  <1>5. CASE FillBlock(p)
    BY <1>3, <1>5 DEF FillBlock
  <1>6. CASE LatePacket(p)
    BY <1>2, <1>3, <1>6 DEF LatePacket, thread, binfo
  <1>7. CASE OutOfSeqPacket(p)
    BY <1>3, <1>7 DEF OutOfSeqPacket
  <1>8. CASE ResetMcnt(p)
    BY <1>3, <1>8 DEF ResetMcnt
  <1> QED
    BY <1>4, <1>5, <1>6, <1>7, <1>8 DEF process_packet

\* While the packets of a beam that lives are in the window, the others are too
\* few to reset it.
LEMMA RoomForOthers ==
  ASSUME FewFaults', IInv, SyncInv, pc = "recv", NEW s \in live, insync[s], losses' = losses,
         \/ \E o \in Beams : o # s /\ Turn(o)
         \/ strays' = strays + 1
  PROVE  ~TooManyOutOfSeq
  <1>1. NetTypeOK /\ s \in Beams /\ out_of_seq_cnt \in Nat /\ strays \in Nat /\ losses \in Nat
    BY Sizes DEF IInv, TypeOK, ThreadTypeOK, NetTypeOK
  <1>2. PICK few \in Nat : few = SumOver(SentSince(s, lead, live, losses))
    BY <1>1, SentInState
  <1>3. PICK most \in Int : most = (N_BEAMS - 1) * (2 * MaxSkew + losses)
    BY <1>1, Sizes
  <1>4. out_of_seq_cnt <= strays + few
    BY <1>2 DEF SyncInv
  <1>5. strays' + most <= MAX_OUT_OF_SEQ
    BY <1>1, <1>3 DEF FewFaults, Room
  <1>6. few <= most
    BY <1>1, <1>2, <1>3, SentInState
  <1>7. CASE \E o \in Beams : o # s /\ Turn(o)
    <2>1. few + 1 <= most /\ strays' = strays
      <3>1. PICK o \in Beams : o # s /\ Turn(o) /\ losses' = losses /\ strays' = strays
        BY <1>7 DEF Turn
      <3>2. PICK more \in Nat : more = SumOver(SentSince(s, lead', live', losses'))
        BY <1>1, <3>1, SentByOther
      <3>3. few + 1 <= more /\ more <= most
        BY <1>1, <1>2, <1>3, <3>1, <3>2, SentByOther
      <3> QED
        BY <3>1, <3>3
    <2> QED
      BY <1>1, <1>3, <1>4, <1>5, <2>1, Sizes DEF TooManyOutOfSeq
  <1>8. CASE strays' = strays + 1
    BY <1>1, <1>3, <1>4, <1>5, <1>6, <1>8, Sizes DEF TooManyOutOfSeq
  <1> QED
    BY <1>7, <1>8

LEMMA SyncInit == Init => SyncInv
  BY DEF Init, SyncInv, Beams

LEMMA SyncStep == IInv /\ IInv' /\ FewFaults' /\ SyncInv /\ [Next]_vars => SyncInv'
  <1> SUFFICES ASSUME IInv, IInv', FewFaults', SyncInv, [Next]_vars,
                      pc' # "acquire", NEW s \in live', insync'[s]
               PROVE  out_of_seq_cnt' <= strays' + SumOver(SentSince(s, lead', live', losses'))
    BY DEF SyncInv
  <1>1. /\ NetTypeOK /\ live \subseteq Beams /\ out_of_seq_cnt \in Nat /\ strays \in Nat
        /\ losses \in Nat /\ lead \in [Beams -> 0 .. MaxSkew]
        /\ out_of_seq_cnt' \in Nat /\ strays' \in Nat
        /\ losses' \in Nat /\ lead' \in [Beams -> 0 .. MaxSkew] /\ s \in Beams
    BY Sizes DEF IInv, TypeOK, ThreadTypeOK, NetTypeOK
  <1>2. PICK more \in Nat : more = SumOver(SentSince(s, lead', live', losses'))
    BY <1>1, SentType
  <1>3. CASE out_of_seq_cnt' = 0
    BY <1>1, <1>2, <1>3
  <1>4. ASSUME s \in live, insync[s], pc # "acquire",
               SumOver(SentSince(s, lead, live, losses)) <= more,
               out_of_seq_cnt' = out_of_seq_cnt, strays' = strays
        PROVE  out_of_seq_cnt' <= strays' + more
    <2>1. PICK few \in Nat : few = SumOver(SentSince(s, lead, live, losses))
      BY <1>1, SentInState
    <2>2. out_of_seq_cnt <= strays + few
      BY <1>4, <2>1 DEF SyncInv
    <2> QED
      BY <1>1, <1>4, <2>1, <2>2
  <1>5. CASE UNCHANGED <<out_of_seq_cnt, strays, insync, live, lead, losses>> /\ pc # "acquire"
    <2>1. SumOver(SentSince(s, lead, live, losses)) <= more
      BY <1>2, <1>5
    <2> QED
      BY <1>2, <1>4, <1>5, <2>1
  <1>6. ASSUME NEW o \in Beams, Receive(o)
        PROVE  out_of_seq_cnt' <= strays' + more
    <2> DEFINE p == [mcnt |-> tx[o], sid |-> o]
    <2>1. /\ p \in Packets /\ process_packet(p) /\ Turn(o) /\ losses' = losses
          /\ insync' = [insync EXCEPT ![o] = IsExpected(p)] /\ live' = live /\ strays' = strays
          /\ insync \in [Beams -> BOOLEAN]
      BY <1>1, <1>6, PacketTypes DEF Receive, Turn, IInv, TypeOK, NetTypeOK
    <2> HIDE DEF p
    <2>2. CASE o = s
      <3>1. IsExpected(p)
        BY <2>1, <2>2
      <3>2. out_of_seq_cnt' = 0
        BY <2>1, <3>1, CountChanges
      <3> QED
        BY <1>2, <1>3, <3>2
    <2>3. CASE o # s
      <3>1. insync[s] /\ s \in live /\ pc = "recv"
        BY <2>1, <2>3, <1>1, CountChanges
      <3>2. ~TooManyOutOfSeq
        BY <2>1, <2>3, <3>1, RoomForOthers
      <3>3. out_of_seq_cnt' \in {0, out_of_seq_cnt, out_of_seq_cnt + 1}
        BY <2>1, <3>2, CountChanges
      <3>4. PICK few \in Nat : few = SumOver(SentSince(s, lead, live, losses))
        BY <1>1, SentInState
      <3>5. few + 1 <= more
        BY <1>1, <1>2, <2>1, <2>3, <3>1, <3>4, SentByOther
      <3>6. out_of_seq_cnt <= strays + few
        BY <3>1, <3>4 DEF SyncInv
      <3> QED
        BY <1>1, <2>1, <3>3, <3>5, <3>6
    <2> QED
      BY <2>2, <2>3
  <1>7. ASSUME NEW o \in Beams, Lose(o)
        PROVE  out_of_seq_cnt' <= strays' + more
    <2>1. /\ Turn(o) /\ losses' = losses + 1 /\ live' = live /\ strays' = strays
          /\ UNCHANGED <<insync, pc, out_of_seq_cnt>>
      BY <1>7 DEF Lose, Turn, thread, binfo
    <2>2. SumOver(SentSince(s, lead, live, losses)) <= more
      BY <1>1, <1>2, <2>1, SentAfterLoss
    <2> QED
      BY <1>4, <2>1, <2>2
  <1>8. ASSUME NEW p \in Strays, ReceiveStray(p)
        PROVE  out_of_seq_cnt' <= strays' + more
    <2>1. /\ process_packet(p) /\ strays' = strays + 1
          /\ UNCHANGED <<lead, live, insync, losses>> /\ p \in Packets
      BY <1>8 DEF ReceiveStray, Strays, Packets
    <2>2. ~TooManyOutOfSeq /\ pc = "recv"
      BY <2>1, RoomForOthers, CountChanges
    <2>3. out_of_seq_cnt' \in {0, out_of_seq_cnt, out_of_seq_cnt + 1}
      BY <2>1, <2>2, CountChanges
    <2>4. out_of_seq_cnt <= strays + more
      BY <1>2, <2>1, <2>2 DEF SyncInv
    <2> QED
      BY <1>1, <2>1, <2>3, <2>4
  <1>9. ASSUME NEW o \in Beams, FallSilent(o)
        PROVE  out_of_seq_cnt' <= strays' + more
    <2>1. /\ live' = live \ {o} /\ lead' = [lead EXCEPT ![o] = 0]
          /\ UNCHANGED <<insync, pc, out_of_seq_cnt, losses, strays>>
      BY <1>9 DEF FallSilent, thread, binfo
    <2>2. /\ s \in live /\ s # o /\ live' \subseteq live /\ losses <= losses'
          /\ \A x \in Beams : x \in live' /\ x # s =>
               (lead[x] - lead[s]) + losses <= (lead'[x] - lead'[s]) + losses'
      <3>1. s \in live /\ s # o /\ live' \subseteq live /\ losses <= losses'
        BY <1>1, <2>1
      <3>2. ASSUME NEW x \in Beams, x \in live'
            PROVE  (lead[x] - lead[s]) + losses <= (lead'[x] - lead'[s]) + losses'
        <4>1. lead'[x] = lead[x] /\ lead'[s] = lead[s] /\ lead[x] \in Int /\ lead[s] \in Int
          BY <1>1, <2>1, <3>1, <3>2
        <4> QED
          BY <1>1, <2>1, <4>1
      <3> QED
        BY <3>1, <3>2
    <2>3. SumOver(SentSince(s, lead, live, losses)) <= more
      BY <1>1, <1>2, <2>2, SentGrows
    <2> QED
      BY <1>4, <2>1, <2>2, <2>3
  <1>10. CASE AcquireNext
    BY <1>2, <1>3, <1>10 DEF AcquireNext, TakePacket
  <1>11. ASSUME NEW o \in Beams, Restart(o)
         PROVE  out_of_seq_cnt' <= strays' + more
    BY <1>2, <1>5, <1>11 DEF Restart, thread, binfo
  <1>12. CASE \/ EnterHold \/ ReleaseHold \/ LeaveHold \/ AcquireFirst \/ AcquireSecond
              \/ UNCHANGED vars \/ \E b \in Blocks : FreeBlock(b)
    BY <1>2, <1>5, <1>12
       DEF EnterHold, ReleaseHold, LeaveHold, AcquireFirst, AcquireSecond, FreeBlock,
           vars, thread, binfo, net
  <1> QED
    BY <1>2, <1>6, <1>7, <1>8, <1>9, <1>10, <1>11, <1>12 DEF Next

\* The window moves by whole blocks only, unless no beam that lives had its
\* packet received last in it: a beam that is restarted, or rolls over, or
\* whose packets go astray does not take the window away from the others, as
\* long as the limit of two packets per beam leaves room for the skew and the
\* losses.
THEOREM ResetHolds == Spec /\ []FewFaults => ResetNeedsEveryBeam
  <1> DEFINE StaysUnlessLost ==
        mcnt_start' \notin {mcnt_start, mcnt_start + Nm} => \A s \in live : ~insync'[s]
  <1>1. IInv /\ FewFaults' /\ SyncInv /\ [Next]_vars => [StaysUnlessLost]_vars
    <2> SUFFICES ASSUME IInv, FewFaults', SyncInv, Next, mcnt_start' \notin {mcnt_start, mcnt_start + Nm},
                        NEW s \in live, insync'[s]
                 PROVE  FALSE
      BY DEF vars, thread, binfo
    <2>1. s \in Beams /\ insync \in [Beams -> BOOLEAN]
      BY DEF IInv, TypeOK, NetTypeOK
    <2>2. ASSUME NEW o \in Beams, Receive(o) PROVE FALSE
      <3> DEFINE p == [mcnt |-> tx[o], sid |-> o]
      <3>1. /\ p \in Packets /\ process_packet(p) /\ Turn(o) /\ losses' = losses
            /\ insync' = [insync EXCEPT ![o] = IsExpected(p)]
        BY <2>2, PacketTypes DEF Receive, IInv, TypeOK
      <3> HIDE DEF p
      <3>2. TooManyOutOfSeq /\ ~IsExpected(p) /\ pc = "recv"
        BY <3>1, CountChanges
      <3>3. o # s /\ insync[s]
        BY <2>1, <3>1, <3>2
      <3> QED
        BY <3>1, <3>2, <3>3, RoomForOthers
    <2>3. ASSUME NEW p \in Strays, ReceiveStray(p) PROVE FALSE
      <3>1. /\ process_packet(p) /\ insync' = insync /\ p \in Packets
            /\ strays' = strays + 1 /\ losses' = losses
        BY <2>3 DEF ReceiveStray, Strays, Packets
      <3>2. TooManyOutOfSeq /\ pc = "recv"
        BY <3>1, CountChanges
      <3> QED
        BY <3>1, <3>2, RoomForOthers
    <2>4. ~(mcnt_start' = mcnt_start)
      OBVIOUS
    <2> QED
      BY <2>2, <2>3, <2>4
         DEF Next, EnterHold, ReleaseHold, LeaveHold, AcquireFirst, AcquireSecond, AcquireNext,
             Lose, Restart, FallSilent, FreeBlock, thread, binfo
  <1>2. IInv /\ FewFaults' /\ SyncInv /\ [Next]_vars => SyncInv'
    BY SyncStep, StepInv
  <1> QED
    BY <1>1, <1>2, SyncInit, Invariance, PTL DEF Spec, ResetNeedsEveryBeam

\* Where the bound on the faults already sees to that, as with two beams and a
\* skew of one packet for up to two faults, nothing has to be assumed.
THEOREM ResetHoldsForFew ==
  ASSUME \A l \in 0 .. MaxFaults : Room(l, MaxFaults - l)
  PROVE  Spec => ResetNeedsEveryBeam
  <1>1. IInv => FewFaults
    <2> SUFFICES ASSUME IInv PROVE FewFaults
      OBVIOUS
    <2>1. /\ losses \in 0 .. MaxFaults /\ strays \in Nat /\ strays <= MaxFaults - losses
      BY Sizes DEF IInv, TypeOK, NetTypeOK, NetInv
    <2>2. PICK most \in Int : most = (N_BEAMS - 1) * (2 * MaxSkew + losses)
      BY <2>1, Sizes
    <2>3. (MaxFaults - losses) + most <= MAX_OUT_OF_SEQ
      BY <2>1, <2>2 DEF Room
    <2>4. strays + most <= MAX_OUT_OF_SEQ
      BY <2>1, <2>2, <2>3, Sizes
    <2> QED
      BY <2>2, <2>4 DEF FewFaults, Room
  <1> QED
    BY <1>1, Invariance, ResetHolds, PTL
=============================================================================
