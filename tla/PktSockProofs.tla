--------------------------- MODULE PktSockProofs ---------------------------
(***************************************************************************)
(* What PktSock's thread keeps true for every ring size, block size and    *)
(* counter width: it only ever writes blocks that it holds, in ring order. *)
(* And what it achieves for the one sender of module PktStream, for every  *)
(* number of losses and amount of reordering: its loss accounting is exact. *)
(***************************************************************************)
EXTENDS PktStream, Arithmetic, FiniteSetTheorems

\* The ring positions, the current mcnt and the headers hang together: the
\* inductive strengthening of HoldsTwoBlocks, FillsInRingOrder and
\* HeadersCoverWindow.
WindowInv ==
  /\ mcnt_start % Nm = 0
  /\ block_i = block_for_mcnt(mcnt_start)
  /\ block_i = (last_filled + 1) % N
  /\ pc \in {"acquire0", "acquire1"} => mcnt_start = 0
  /\ pc = "acquire1" => sem[0] = 0
  /\ pc \in {"recv", "acquire"} => /\ sem[block_i] = 0
                                   /\ block[block_i].mcnt = mcnt_start
  /\ pc = "recv" => /\ sem[NextBlock(block_i)] = 0
                    /\ block[NextBlock(block_i)].mcnt = mcnt_start + Nm
  /\ pc = "acquire" => /\ mcnt_start >= Nm
                       /\ pkt \in Packets
                       /\ pkt.mcnt \in mcnt_start .. mcnt_start + Nm - 1
                       /\ InBound(pkt)

IInv == TypeOK /\ WindowInv

-----------------------------------------------------------------------------
(* The helpers.                                                            *)

\* The divisors are positive.
LEMMA Positive ==
  Nm \in Nat \ {0} /\ N \in Nat \ {0} /\ WordMod \in Nat \ {0}
  BY RingAssumption, BlockAssumption, WordAssumption

\* What the modulo operator gives for this module's divisors.
LEMMA Remainders ==
  /\ \A x \in Int : x % Nm \in 0 .. Nm-1
  /\ \A x \in Int : x % N \in 0 .. N-1
  /\ \A x \in Int : x % WordMod \in 0 .. WordMod-1
  /\ \A x \in Int : ((x % N) + 1) % N = (x + 1) % N
  /\ \A x \in Int : (x + Nm) % Nm = x % Nm
  <1>1. \A n \in Nat \ {0} : \A x \in Int : x % n \in 0 .. n-1
    BY DivMod
  <1>2. \A n \in Nat \ {0} : \A x \in Int : ((x % n) + 1) % n = (x + 1) % n
    BY ModOfSum, 1 \in Int
  <1>3. \A n \in Nat \ {0} : \A x \in Int : (x + n) % n = x % n
    <2>1. \A n \in Nat \ {0} : \A x \in Int : (x + (n * 1)) % n = x % n
      BY DivModShift, 1 \in Int
    <2> SUFFICES ASSUME NEW n \in Nat \ {0}, NEW x \in Int
                 PROVE  (x + n) % n = x % n
      OBVIOUS
    <2>2. n * 1 = n
      OBVIOUS
    <2>3. QED
      BY <2>1, <2>2
  <1>4. QED
    BY <1>1, <1>2, <1>3, Positive

LEMMA NextBlockType ==
  ASSUME NEW b \in Blocks
  PROVE  NextBlock(b) \in Blocks /\ NextBlock(b) # b
  <1>1. CASE b = N - 1
    <2>1. b + 1 = (N * 1) + 0
      BY <1>1, RingAssumption
    <2>2. ((N * 1) + 0) % N = 0
      BY RingAssumption, DivModUnique, 0 \in 0 .. N-1, 1 \in Int
    <2>3. QED
      BY <1>1, <2>1, <2>2, RingAssumption DEF NextBlock, Blocks
  <1>2. CASE b # N - 1
    BY <1>2, RingAssumption DEF NextBlock, Blocks
  <1>3. QED
    BY <1>1, <1>2

\* block_for_mcnt gives a block of the ring, Nm mcnts later the one after it,
\* and the same block for all mcnts of a block.
LEMMA BlockForMcnt ==
  ASSUME NEW m \in Nat
  PROVE  /\ block_for_mcnt(m) \in Blocks
         /\ block_for_mcnt(m + Nm) = NextBlock(block_for_mcnt(m))
         /\ block_for_mcnt(m - (m % Nm)) = block_for_mcnt(m)
  <1> DEFINE q == m \div Nm
  <1>1. q \in Nat /\ (m - (m % Nm)) \div Nm = q
    BY RoundDown, Positive
  <1>2. (m + (Nm * 1)) \div Nm = q + 1
    BY DivModShift, Positive, 1 \in Int
  <1>3. m + Nm = m + (Nm * 1)
    BY BlockAssumption
  <1>4. (m + Nm) \div Nm = q + 1
    BY <1>2, <1>3
  <1> HIDE DEF q
  <1>5. ((q % N) + 1) % N = (q + 1) % N
    BY <1>1, Remainders
  <1>6. q % N \in 0 .. N-1
    BY <1>1, Remainders
  <1>7. block_for_mcnt(m) = q % N
    BY DEF block_for_mcnt, q
  <1>8. QED
    BY <1>1, <1>4, <1>5, <1>6, <1>7 DEF block_for_mcnt, NextBlock, Blocks

LEMMA SameBlock ==
  ASSUME NEW s \in Nat, s % Nm = 0, NEW m \in s .. s + Nm - 1
  PROVE  /\ block_for_mcnt(m) = block_for_mcnt(s)
         /\ m - (m % Nm) = s
  BY RoundsDown, Positive DEF block_for_mcnt

\* initialize_block writes the block of its mcnt, and no other.
LEMMA InitializeBlock ==
  ASSUME NEW blk \in [Blocks -> InputBlock], NEW m \in Nat
  PROVE  /\ initialize_block(blk, m) \in [Blocks -> InputBlock]
         /\ initialize_block(blk, m)[block_for_mcnt(m)].mcnt = m - (m % Nm)
         /\ \A b \in Blocks : b # block_for_mcnt(m) => initialize_block(blk, m)[b] = blk[b]
  <1>1. block_for_mcnt(m) \in Blocks
    BY BlockForMcnt
  <1>2. m - (m % Nm) \in Nat
    BY RoundDown, Positive
  <1>3. [mcnt |-> m - (m % Nm), missed |-> Nm, slots |-> {}] \in InputBlock
    BY <1>2, BlockAssumption, WordAssumption DEF InputBlock
  <1>4. QED
    BY <1>1, <1>3 DEF initialize_block

\* copy_packet writes the block of the packet's mcnt, and leaves the header's
\* mcnt alone.
LEMMA CopyPacket ==
  ASSUME NEW blk \in [Blocks -> InputBlock], NEW p \in Packets
  PROVE  /\ copy_packet(blk, p) \in [Blocks -> InputBlock]
         /\ \A b \in Blocks : copy_packet(blk, p)[b].mcnt = blk[b].mcnt
         /\ \A b \in Blocks : b # block_for_mcnt(p.mcnt) => copy_packet(blk, p)[b] = blk[b]
  <1> DEFINE pb == block_for_mcnt(p.mcnt)
             x == blk[pb]
             y == [x EXCEPT !.missed = (@ - 1) % WordMod, !.slots = @ \cup {p.mcnt % Nm}]
  <1>1. p.mcnt \in Nat
    BY CounterAssumption DEF Packets, Mcnts
  <1>2. pb \in Blocks
    BY <1>1, BlockForMcnt
  <1>3. x \in InputBlock
    BY <1>2
  <1>4. p.mcnt % Nm \in 0 .. Nm-1
    BY <1>1, Remainders
  <1>5. x.missed \in Int /\ (x.missed - 1) % WordMod \in 0 .. WordMod-1
    BY <1>3, Remainders DEF InputBlock
  <1>6. y \in InputBlock /\ y.mcnt = x.mcnt
    BY <1>3, <1>4, <1>5 DEF InputBlock
  <1>7. CASE p.sid_ok
    <2>1. copy_packet(blk, p) = [blk EXCEPT ![pb] = y]
      BY <1>2, <1>7 DEF copy_packet
    <2>2. QED
      BY <1>2, <1>6, <2>1
  <1>8. CASE ~p.sid_ok
    BY <1>8 DEF copy_packet
  <1>9. QED
    BY <1>7, <1>8

\* A reset restarts at a block boundary whose block is the current one.
LEMMA ResetKeepsBlock ==
  ASSUME TypeOK, NEW p \in Packets
  PROVE  /\ ResetStart(p) \in Nat
         /\ ResetStart(p) % Nm = 0
         /\ block_for_mcnt(ResetStart(p)) = block_i
  <1> DEFINE pb == block_for_mcnt(p.mcnt)
             ahead == IF block_i >= pb THEN block_i - pb ELSE block_i + N - pb
             m == p.mcnt + (Nm * ahead)
             q == p.mcnt \div Nm
  <1>1. p.mcnt \in Nat
    BY CounterAssumption DEF Packets, Mcnts
  <1>2. pb \in 0 .. N-1 /\ pb = q % N /\ q \in Nat
    BY <1>1, BlockForMcnt, RoundDown, Positive DEF Blocks, block_for_mcnt
  <1>3. block_i \in 0 .. N-1
    BY DEF TypeOK, Blocks
  <1>4. ahead \in Nat
    BY <1>2, <1>3, RingAssumption
  <1>5. m \div Nm = q + ahead
    BY <1>1, <1>4, DivModShift, Positive
  <1>6. (q + ahead) % N = block_i
    <2>1. CASE block_i >= pb
      BY <2>1, <1>2, <1>3, RingDistance, Positive, RingAssumption
    <2>2. CASE ~(block_i >= pb)
      BY <2>2, <1>2, <1>3, RingDistance, Positive, RingAssumption
    <2>3. QED
      BY <2>1, <2>2
  <1>7. m \in Nat
    BY <1>1, <1>4, BlockAssumption
  <1>8. block_for_mcnt(m) = block_i
    BY <1>5, <1>6 DEF block_for_mcnt
  <1>9. ResetStart(p) = m - (m % Nm)
    BY DEF ResetStart
  <1> HIDE DEF m
  <1>10. QED
    BY <1>7, <1>8, <1>9, RoundDown, BlockForMcnt, Positive

-----------------------------------------------------------------------------
(* The inductive invariant.                                                *)

LEMMA AtZero ==
  0 % Nm = 0 /\ block_for_mcnt(0) = 0 /\ 0 % N = 0
  <1>1. (Nm * 0) + 0 = 0 /\ (N * 0) + 0 = 0
    BY RingAssumption, BlockAssumption
  <1>2. 0 \in 0 .. Nm-1 /\ 0 \in 0 .. N-1 /\ 0 \in Int
    BY RingAssumption, BlockAssumption
  <1>3. ((Nm * 0) + 0) \div Nm = 0 /\ ((Nm * 0) + 0) % Nm = 0
    BY <1>2, DivModUnique, Positive
  <1>4. ((N * 0) + 0) % N = 0
    BY <1>2, DivModUnique, Positive
  <1>5. QED
    BY <1>1, <1>3, <1>4 DEF block_for_mcnt

LEMMA CountType ==
  /\ MAX_OUT_OF_SEQ \in Nat
  /\ 0 \in 0 .. MAX_OUT_OF_SEQ + 1
  /\ MAX_OUT_OF_SEQ + 1 \in 0 .. MAX_OUT_OF_SEQ + 1
  /\ 0 \in 0 .. MaxCount
  BY BorsAssumption, BoundAssumption DEF MAX_OUT_OF_SEQ

LEMMA InitInv == Init => IInv
  <1> SUFFICES ASSUME Init PROVE IInv
    OBVIOUS
  <1>1. TypeOK
    <2>1. block \in [Blocks -> InputBlock]
      BY WordAssumption, BlockAssumption DEF Init, InputBlock
    <2>2. 0 \in Blocks
      BY RingAssumption DEF Blocks
    <2>3. QED
      BY <2>1, <2>2, CountType DEF Init, TypeOK
  <1>2. WindowInv
    BY AtZero DEF Init, WindowInv
  <1>3. QED
    BY <1>1, <1>2 DEF IInv

\* mcnt_start moves on to the next block of the ring.
LEMMA StartAdvances ==
  ASSUME TypeOK, WindowInv
  PROVE  /\ (mcnt_start + Nm) % Nm = 0
         /\ block_for_mcnt(mcnt_start + Nm) = NextBlock(block_i)
         /\ (mcnt_start + Nm) \in Nat
  <1>1. mcnt_start \in Nat /\ mcnt_start % Nm = 0
    BY DEF TypeOK, WindowInv
  <1>2. (mcnt_start + Nm) % Nm = mcnt_start % Nm
    BY <1>1, Remainders
  <1>3. block_for_mcnt(mcnt_start + Nm) = NextBlock(block_for_mcnt(mcnt_start))
    BY <1>1, BlockForMcnt
  <1>4. mcnt_start + Nm \in Nat
    BY <1>1, BlockAssumption
  <1>5. block_i = block_for_mcnt(mcnt_start)
    BY DEF WindowInv
  <1>6. QED
    BY <1>1, <1>2, <1>3, <1>4, <1>5

\* A packet the thread expects belongs to one of the two blocks it holds.
LEMMA ExpectedBlock ==
  ASSUME TypeOK, WindowInv, NEW p \in Packets, IsExpected(p)
  PROVE  /\ block_for_mcnt(p.mcnt) \in {block_i, NextBlock(block_i)}
         /\ CompletesBlock(p) => p.mcnt \in mcnt_start + Nm .. mcnt_start + Nm + Nm - 1
  <1>1. p.mcnt \in Nat /\ mcnt_start \in Nat
    BY CounterAssumption DEF Packets, Mcnts, TypeOK
  <1>2. p.mcnt \in mcnt_start .. mcnt_start + 2 * Nm - 1
    BY <1>1, BlockAssumption DEF IsExpected, Dist
  <1>3. CASE p.mcnt < mcnt_start + Nm
    <2>1. p.mcnt \in mcnt_start .. mcnt_start + Nm - 1
      BY <1>1, <1>2, <1>3, BlockAssumption
    <2>2. ~CompletesBlock(p)
      BY <1>1, <1>3, BlockAssumption DEF CompletesBlock, Dist
    <2>3. QED
      BY <1>1, <2>1, <2>2, SameBlock DEF WindowInv
  <1>4. CASE ~(p.mcnt < mcnt_start + Nm)
    <2>1. p.mcnt \in mcnt_start + Nm .. mcnt_start + Nm + Nm - 1
      BY <1>1, <1>2, <1>4, BlockAssumption
    <2>2. block_for_mcnt(p.mcnt) = NextBlock(block_i)
      BY <2>1, StartAdvances, SameBlock
    <2>3. QED
      BY <2>1, <2>2
  <1>5. QED
    BY <1>3, <1>4

LEMMA AcquireFirstInv ==
  ASSUME IInv, AcquireFirst
  PROVE  IInv'
  BY DEF IInv, TypeOK, WindowInv, AcquireFirst, binfo

LEMMA AcquireSecondInv ==
  ASSUME IInv, AcquireSecond
  PROVE  IInv'
  <1> DEFINE b0 == initialize_block(block, 0)
             b1 == initialize_block(b0, Nm)
  <1> USE DEF IInv
  <1>1. block \in [Blocks -> InputBlock] /\ 0 \in Blocks /\ Nm \in Nat
    BY RingAssumption, BlockAssumption DEF TypeOK, Blocks
  <1>2. mcnt_start = 0 /\ block_i = 0 /\ sem[0] = 0 /\ sem[1] = 0
    BY AtZero DEF AcquireSecond, WindowInv
  <1>3. NextBlock(0) = 1 /\ 1 \in Blocks
    BY RingAssumption DEF NextBlock, Blocks
  <1>4. block_for_mcnt(0) = 0 /\ block_for_mcnt(Nm) = 1 /\ 0 % Nm = 0 /\ Nm % Nm = 0
    BY <1>2, <1>3, AtZero, StartAdvances, BlockAssumption
  <1>5. b0 \in [Blocks -> InputBlock] /\ b0[0].mcnt = 0
    BY <1>1, <1>4, InitializeBlock, 0 \in Nat
  <1> HIDE DEF b0
  <1>6. b1 \in [Blocks -> InputBlock] /\ b1[1].mcnt = Nm /\ b1[0] = b0[0]
    <2>1. /\ b1 \in [Blocks -> InputBlock]
          /\ b1[block_for_mcnt(Nm)].mcnt = Nm - (Nm % Nm)
          /\ \A b \in Blocks : b # block_for_mcnt(Nm) => b1[b] = b0[b]
      BY <1>1, <1>5, InitializeBlock
    <2>2. Nm - 0 = Nm
      BY BlockAssumption
    <2>3. QED
      BY <1>1, <1>4, <2>1, <2>2
  <1> HIDE DEF b1
  <1>7. /\ block' = b1
        /\ pc = "acquire1" /\ pc' = "recv"
        /\ UNCHANGED <<sem, mcnt_start, block_i, out_of_seq_cnt,
                       block_packet_counter, last_filled, NETMCNT, pkt>>
    BY DEF AcquireSecond, b0, b1, binfo
  <1>8. TypeOK'
    BY <1>6, <1>7 DEF TypeOK
  <1>9. block'[0].mcnt = 0 /\ block'[1].mcnt = 0 + Nm
    BY <1>1, <1>5, <1>6, <1>7
  <1>10. WindowInv'
    BY <1>2, <1>3, <1>7, <1>9 DEF WindowInv
  <1>11. QED
    BY <1>8, <1>10

LEMMA ExpectedPacketInv ==
  ASSUME IInv, NEW p \in Packets, ExpectedPacket(p)
  PROVE  IInv'
  <1> USE DEF IInv
  <1>1. block_for_mcnt(p.mcnt) \in Blocks
    BY BlockForMcnt, CounterAssumption DEF Packets, Mcnts
  <1>2. block \in [Blocks -> InputBlock] /\ block_i \in Blocks /\ NextBlock(block_i) \in Blocks
    BY NextBlockType DEF TypeOK
  <1>3. /\ block' = copy_packet(block, p)
        /\ out_of_seq_cnt' = 0
        /\ block_packet_counter' =
             [block_packet_counter EXCEPT ![block_for_mcnt(p.mcnt)] = @ + 1]
        /\ UNCHANGED <<sem, mcnt_start, block_i, last_filled, NETMCNT, pc, pkt>>
        /\ pc = "recv"
    BY DEF ExpectedPacket, TakePacket
  <1>4. block' \in [Blocks -> InputBlock] /\ \A b \in Blocks : block'[b].mcnt = block[b].mcnt
    BY <1>2, <1>3, CopyPacket
  <1>5. block_packet_counter' \in [Blocks -> 0 .. MaxCount]
    <2>1. block_packet_counter[block_for_mcnt(p.mcnt)] < MaxCount
      BY DEF ExpectedPacket, InBound
    <2>2. QED
      BY <1>1, <1>3, <2>1, BoundAssumption DEF TypeOK
  <1>6. TypeOK'
    BY <1>3, <1>4, <1>5, CountType DEF TypeOK
  <1>7. WindowInv'
    BY <1>2, <1>3, <1>4 DEF WindowInv
  <1>8. QED
    BY <1>6, <1>7

LEMMA FillBlockInv ==
  ASSUME IInv, NEW p \in Packets, FillBlock(p)
  PROVE  IInv'
  <1> USE DEF IInv
  <1>1. block_i \in Blocks /\ NextBlock(block_i) \in Blocks /\ NextBlock(block_i) # block_i
    BY NextBlockType DEF TypeOK
  <1>2. /\ last_filled' = (last_filled + 1) % N
        /\ sem' = [sem EXCEPT ![block_i] = 1]
        /\ mcnt_start' = mcnt_start + Nm
        /\ block_i' = NextBlock(block_i)
        /\ pc = "recv" /\ pc' = "acquire" /\ pkt' = p
        /\ UNCHANGED <<block, out_of_seq_cnt, block_packet_counter, NETMCNT>>
    BY DEF FillBlock, set_block_filled, WindowInv
  <1>3. last_filled' = block_i
    BY <1>2 DEF WindowInv
  <1>4. TypeOK'
    BY <1>1, <1>2, <1>3, StartAdvances DEF TypeOK
  <1>5. p.mcnt \in mcnt_start' .. mcnt_start' + Nm - 1
    BY <1>2, ExpectedBlock DEF FillBlock, set_block_filled
  <1>6. InBound(p)'
    BY <1>2 DEF FillBlock, InBound
  <1>7. sem'[block_i'] = 0 /\ block'[block_i'].mcnt = mcnt_start'
    BY <1>1, <1>2 DEF WindowInv, TypeOK
  <1>8. block_i' = (last_filled' + 1) % N
    BY <1>2, <1>3 DEF NextBlock
  <1>9. mcnt_start' % Nm = 0 /\ block_i' = block_for_mcnt(mcnt_start')
    BY <1>2, StartAdvances
  <1>10. InBound(pkt)' /\ pkt' \in Packets /\ mcnt_start' >= Nm /\ pkt'.mcnt \in mcnt_start' .. mcnt_start' + Nm - 1
    BY <1>2, <1>5, <1>6, BlockAssumption DEF InBound, TypeOK
  <1>11. WindowInv'
    BY <1>2, <1>7, <1>8, <1>9, <1>10 DEF WindowInv, block_for_mcnt
  <1>12. QED
    BY <1>4, <1>11

LEMMA AcquireNextInv ==
  ASSUME IInv, AcquireNext
  PROVE  IInv'
  <1> USE DEF IInv
  <1> DEFINE nb == NextBlock(block_i)
             pb == block_for_mcnt(pkt.mcnt)
             bi == initialize_block(block, pkt.mcnt + Nm)
             cnt == [block_packet_counter EXCEPT ![nb] = 0]
  <1>1. pc = "acquire" /\ sem[nb] = 0 /\ pkt \in Packets /\ pkt.mcnt \in Nat
    BY CounterAssumption DEF AcquireNext, WindowInv, Packets, Mcnts
  <1>2. block_i \in Blocks /\ nb \in Blocks /\ nb # block_i
    BY NextBlockType DEF TypeOK
  <1>3. mcnt_start \in Nat /\ mcnt_start % Nm = 0 /\ pkt.mcnt \in mcnt_start .. mcnt_start + Nm - 1
    BY <1>1 DEF WindowInv, TypeOK
  <1>4. pb = block_i
    BY <1>3, SameBlock DEF WindowInv
  <1>5. pkt.mcnt + Nm \in Nat
    BY <1>1, BlockAssumption
  <1>6. block_for_mcnt(pkt.mcnt + Nm) = nb
    BY <1>1, <1>4, BlockForMcnt
  <1>7. (pkt.mcnt + Nm) - ((pkt.mcnt + Nm) % Nm) = mcnt_start + Nm
    <2>1. pkt.mcnt + Nm \in mcnt_start + Nm .. (mcnt_start + Nm) + Nm - 1
      BY <1>3, BlockAssumption
    <2>2. QED
      BY <2>1, StartAdvances, SameBlock
  <1>8. /\ bi \in [Blocks -> InputBlock]
        /\ bi[nb].mcnt = mcnt_start + Nm
        /\ bi[block_i].mcnt = mcnt_start
    BY <1>1, <1>2, <1>5, <1>6, <1>7, InitializeBlock DEF TypeOK, WindowInv
  <1>9. cnt \in [Blocks -> 0 .. MaxCount] /\ cnt[pb] < MaxCount
    BY <1>1, <1>2, <1>4, BoundAssumption DEF TypeOK, WindowInv, InBound
  <1> HIDE DEF nb, pb, bi, cnt
  <1>10. /\ out_of_seq_cnt' = 0
         /\ block_packet_counter' = [cnt EXCEPT ![pb] = @ + 1]
         /\ block' = copy_packet(bi, pkt)
         /\ pc' = "recv" /\ pkt' = NoPacket
         /\ NETMCNT' = IF pkt.sid_ok THEN mcnt_start - Nm ELSE NETMCNT
         /\ UNCHANGED <<sem, mcnt_start, block_i, last_filled>>
    BY DEF AcquireNext, ReportedMcnt, TakePacket, nb, pb, bi, cnt
  <1>11. /\ block' \in [Blocks -> InputBlock]
         /\ block'[nb].mcnt = mcnt_start + Nm
         /\ block'[block_i].mcnt = mcnt_start
    BY <1>1, <1>2, <1>8, <1>10, CopyPacket
  <1>12. block_packet_counter' \in [Blocks -> 0 .. MaxCount]
    BY <1>2, <1>4, <1>9, <1>10, BoundAssumption
  <1>13. mcnt_start - Nm \in Nat
    BY <1>1, BlockAssumption DEF WindowInv, TypeOK
  <1>14. TypeOK'
    BY <1>10, <1>11, <1>12, <1>13, CountType DEF TypeOK
  <1>15. WindowInv'
    BY <1>1, <1>10, <1>11 DEF WindowInv, nb
  <1>16. QED
    BY <1>14, <1>15

LEMMA OutOfSeqInv ==
  ASSUME IInv, NEW p \in Packets, OutOfSeqPacket(p)
  PROVE  IInv'
  <1>1. out_of_seq_cnt' \in 0 .. MAX_OUT_OF_SEQ + 1
    BY CountType DEF IInv, TypeOK, OutOfSeqPacket
  <1>2. QED
    BY <1>1 DEF IInv, TypeOK, WindowInv, OutOfSeqPacket, InBound

LEMMA ResetMcntInv ==
  ASSUME IInv, NEW p \in Packets, ResetMcnt(p)
  PROVE  IInv'
  <1> USE DEF IInv
  <1> DEFINE start == ResetStart(p)
             nb == NextBlock(block_i)
             b0 == initialize_block(block, start)
             b1 == initialize_block(b0, start + Nm)
  <1>1. start \in Nat /\ start % Nm = 0 /\ block_for_mcnt(start) = block_i
    BY ResetKeepsBlock
  <1>2. block_i \in Blocks /\ nb \in Blocks /\ nb # block_i
    BY NextBlockType DEF TypeOK
  <1> HIDE DEF start
  <1>3. start + Nm \in Nat /\ (start + Nm) % Nm = 0 /\ block_for_mcnt(start + Nm) = nb
    BY <1>1, BlockForMcnt, Remainders, BlockAssumption
  <1>4. b0 \in [Blocks -> InputBlock] /\ b0[block_i].mcnt = start
    BY <1>1, InitializeBlock DEF TypeOK
  <1> HIDE DEF nb, b0
  <1>5. /\ b1 \in [Blocks -> InputBlock]
        /\ b1[nb].mcnt = start + Nm
        /\ b1[block_i] = b0[block_i]
    BY <1>2, <1>3, <1>4, InitializeBlock
  <1> HIDE DEF b1
  <1>6. /\ pc = "recv"
        /\ out_of_seq_cnt' = MAX_OUT_OF_SEQ + 1
        /\ mcnt_start' = start
        /\ block_i' = block_i
        /\ block' = b1
        /\ block_packet_counter' = [block_packet_counter EXCEPT ![block_i] = 0, ![nb] = 0]
        /\ UNCHANGED <<sem, last_filled, NETMCNT, pc, pkt>>
    BY <1>1 DEF ResetMcnt, start, nb, b0, b1
  <1>7. TypeOK'
    BY <1>1, <1>2, <1>5, <1>6, CountType DEF TypeOK
  <1>8. WindowInv'
    BY <1>1, <1>4, <1>5, <1>6 DEF WindowInv, nb
  <1>9. QED
    BY <1>7, <1>8

LEMMA FreeBlockInv ==
  ASSUME IInv, NEW b \in Blocks, FreeBlock(b)
  PROVE  IInv'
  <1> USE DEF IInv
  <1>1. /\ sem' = [sem EXCEPT ![b] = 0]
        /\ UNCHANGED <<block, mcnt_start, block_i, out_of_seq_cnt,
                       block_packet_counter, last_filled, NETMCNT, pc, pkt>>
    BY DEF FreeBlock, binfo
  <1>2. TypeOK'
    BY <1>1 DEF TypeOK
  <1>3. \A c \in Blocks : sem[c] = 0 => sem'[c] = 0
    BY <1>1 DEF TypeOK
  <1>4. block_i \in Blocks /\ NextBlock(block_i) \in Blocks /\ 0 \in Blocks
    BY NextBlockType, RingAssumption DEF TypeOK, Blocks
  <1>5. WindowInv'
    BY <1>1, <1>3, <1>4 DEF WindowInv, InBound
  <1>6. QED
    BY <1>2, <1>5

LEMMA StepInv == IInv /\ [Next]_vars => IInv'
  <1> SUFFICES ASSUME IInv, [Next]_vars PROVE IInv'
    OBVIOUS
  <1>1. CASE AcquireFirst
    BY <1>1, AcquireFirstInv
  <1>2. CASE AcquireSecond
    BY <1>2, AcquireSecondInv
  <1>3. CASE AcquireNext
    BY <1>3, AcquireNextInv
  <1>4. ASSUME NEW p \in Packets, ExpectedPacket(p) PROVE IInv'
    BY <1>4, ExpectedPacketInv
  <1>5. ASSUME NEW p \in Packets, FillBlock(p) PROVE IInv'
    BY <1>5, FillBlockInv
  <1>6. ASSUME NEW p \in Packets, OutOfSeqPacket(p) PROVE IInv'
    BY <1>6, OutOfSeqInv
  <1>7. ASSUME NEW p \in Packets, ResetMcnt(p) PROVE IInv'
    BY <1>7, ResetMcntInv
  <1>8. ASSUME NEW b \in Blocks, FreeBlock(b) PROVE IInv'
    BY <1>8, FreeBlockInv
  <1>9. CASE UNCHANGED vars
    BY <1>9 DEF IInv, TypeOK, WindowInv, vars, InBound
  <1>10. QED
    BY <1>1, <1>2, <1>3, <1>4, <1>5, <1>6, <1>7, <1>8, <1>9
       DEF Next, ProcessPacket, LatePacket

\* The blocks a step writes are among the two the thread holds.
LEMMA StepWritesHeld ==
  IInv /\ [Next]_vars =>
    \A b \in Blocks :
      block'[b] = block[b] \/ (b \in {block_i, NextBlock(block_i)} /\ sem[b] = 0)
  <1> SUFFICES ASSUME IInv, [Next]_vars, NEW b \in Blocks,
                      ~(b \in {block_i, NextBlock(block_i)} /\ sem[b] = 0)
               PROVE  block'[b] = block[b]
    OBVIOUS
  <1> USE DEF IInv
  <1>1. /\ block \in [Blocks -> InputBlock]
        /\ block_i \in Blocks
        /\ NextBlock(block_i) \in Blocks
    BY NextBlockType DEF TypeOK
  <1>2. CASE AcquireSecond
    <2>1. sem[0] = 0 /\ sem[1] = 0 /\ mcnt_start = 0 /\ block_i = 0
      BY <1>2, AtZero DEF AcquireSecond, WindowInv
    <2>2. block_for_mcnt(0) = 0 /\ block_for_mcnt(Nm) = NextBlock(0)
      BY <2>1, AtZero, StartAdvances, BlockAssumption
    <2>3. NextBlock(0) = 1
      BY RingAssumption DEF NextBlock
    <2>4. initialize_block(block, 0) \in [Blocks -> InputBlock]
      BY <1>1, InitializeBlock, 0 \in Nat
    <2>5. QED
      BY <1>1, <1>2, <2>1, <2>2, <2>3, <2>4, InitializeBlock, BlockAssumption, 0 \in Nat
         DEF AcquireSecond
  <1>3. CASE AcquireNext
    <2> DEFINE bi == initialize_block(block, pkt.mcnt + Nm)
    <2>1. pkt \in Packets /\ pkt.mcnt \in Nat /\ mcnt_start \in Nat
      BY <1>3, CounterAssumption DEF AcquireNext, WindowInv, Packets, Mcnts, TypeOK
    <2>2. sem[block_i] = 0 /\ sem[NextBlock(block_i)] = 0
      BY <1>3 DEF AcquireNext, WindowInv
    <2>3. block_for_mcnt(pkt.mcnt) = block_i
      BY <1>3, <2>1, SameBlock DEF AcquireNext, WindowInv
    <2>4. block_for_mcnt(pkt.mcnt + Nm) = NextBlock(block_i) /\ pkt.mcnt + Nm \in Nat
      BY <2>1, <2>3, BlockForMcnt, BlockAssumption
    <2>5. bi \in [Blocks -> InputBlock] /\ bi[b] = block[b]
      BY <1>1, <2>2, <2>4, InitializeBlock
    <2>6. block' = copy_packet(bi, pkt)
      BY <1>3 DEF AcquireNext, TakePacket
    <2> HIDE DEF bi
    <2>7. QED
      BY <2>1, <2>2, <2>3, <2>5, <2>6, CopyPacket
  <1>4. ASSUME NEW p \in Packets, ExpectedPacket(p) PROVE block'[b] = block[b]
    <2>1. sem[block_i] = 0 /\ sem[NextBlock(block_i)] = 0
      BY <1>4 DEF ExpectedPacket, WindowInv
    <2>2. block_for_mcnt(p.mcnt) \in {block_i, NextBlock(block_i)}
      BY <1>4, ExpectedBlock DEF ExpectedPacket
    <2>3. block' = copy_packet(block, p)
      BY <1>4 DEF ExpectedPacket, TakePacket
    <2>4. QED
      BY <1>1, <2>1, <2>2, <2>3, CopyPacket
  <1>5. ASSUME NEW p \in Packets, ResetMcnt(p) PROVE block'[b] = block[b]
    <2> DEFINE start == ResetStart(p)
               b0 == initialize_block(block, start)
    <2>1. sem[block_i] = 0 /\ sem[NextBlock(block_i)] = 0
      BY <1>5 DEF ResetMcnt, WindowInv
    <2>2. start \in Nat /\ block_for_mcnt(start) = block_i
      BY ResetKeepsBlock
    <2> HIDE DEF start
    <2>3. start + Nm \in Nat /\ block_for_mcnt(start + Nm) = NextBlock(block_i)
      BY <2>2, BlockForMcnt, BlockAssumption
    <2>4. b0 \in [Blocks -> InputBlock] /\ b0[b] = block[b]
      BY <1>1, <2>1, <2>2, InitializeBlock
    <2>5. block' = initialize_block(b0, start + Nm)
      BY <1>5 DEF ResetMcnt, start
    <2> HIDE DEF b0
    <2>6. QED
      BY <2>1, <2>3, <2>4, <2>5, InitializeBlock
  <1>6. CASE UNCHANGED block
    BY <1>6
  <1>7. QED
    BY <1>2, <1>3, <1>4, <1>5, <1>6
       DEF Next, ProcessPacket, LatePacket, vars, AcquireFirst, FillBlock, set_block_filled,
           OutOfSeqPacket, FreeBlock

-----------------------------------------------------------------------------
(* The two counts of a block's packets.                                    *)

\* The packets a block's header counts as arrived, at most those counted in it.
Agrees(blk, cnt, b) ==
  \E taken \in 0 .. cnt[b] : blk[b].missed = (Nm - taken) % WordMod

\* The inductive strengthening of CountersAgree: the block that was taken into
\* while it was not yet current keeps its counts over the wait.
CountsInv ==
  /\ pc \in {"recv", "acquire"} => Agrees(block, block_packet_counter, block_i)
  /\ pc = "recv" => Agrees(block, block_packet_counter, NextBlock(block_i))

\* A recycled block counts all its packets as missed, whatever was counted.
LEMMA FreshAgrees ==
  ASSUME NEW blk \in [Blocks -> InputBlock], NEW cnt \in [Blocks -> Nat],
         NEW m \in Nat, NEW b \in Blocks, b = block_for_mcnt(m)
  PROVE  Agrees(initialize_block(blk, m), cnt, b)
  <1>1. initialize_block(blk, m)[b].missed = Nm
    BY DEF initialize_block
  <1>2. Nm % WordMod = Nm
    BY BlockAssumption, WordAssumption
  <1>3. Nm - 0 = Nm /\ 0 \in 0 .. cnt[b]
    BY BlockAssumption
  <1>4. QED
    BY <1>1, <1>2, <1>3 DEF Agrees

\* Recycling another block changes nothing.
LEMMA OtherAgrees ==
  ASSUME NEW blk \in [Blocks -> InputBlock], NEW cnt,
         NEW m \in Nat, NEW b \in Blocks, b # block_for_mcnt(m), Agrees(blk, cnt, b)
  PROVE  Agrees(initialize_block(blk, m), cnt, b)
  BY InitializeBlock DEF Agrees

\* Taking a packet counts it in its block, and counts it as arrived or not.
LEMMA TakeAgrees ==
  ASSUME NEW blk \in [Blocks -> InputBlock], NEW cnt \in [Blocks -> Nat],
         NEW p \in Packets, NEW b \in Blocks, Agrees(blk, cnt, b)
  PROVE  Agrees(copy_packet(blk, p), [cnt EXCEPT ![block_for_mcnt(p.mcnt)] = @ + 1], b)
  <1> DEFINE pb == block_for_mcnt(p.mcnt)
             new == [cnt EXCEPT ![pb] = @ + 1]
  <1>1. PICK taken \in 0 .. cnt[b] : blk[b].missed = (Nm - taken) % WordMod
    BY DEF Agrees
  <1>2. cnt[b] \in Nat /\ taken \in Int /\ Nm - taken \in Int
    BY BlockAssumption
  <1>3. CASE b = pb /\ p.sid_ok
    <2>1. copy_packet(blk, p)[b].missed = (blk[b].missed - 1) % WordMod
      BY <1>3 DEF copy_packet
    <2>2. (((Nm - taken) % WordMod) + (-1)) % WordMod = ((Nm - taken) + (-1)) % WordMod
      BY <1>2, ModOfSum, Positive, -1 \in Int
    <2>3. (Nm - taken) % WordMod \in Int
      BY <1>2, Remainders
    <2>4. copy_packet(blk, p)[b].missed = (((Nm - taken) % WordMod) + (-1)) % WordMod
      <3> DEFINE w == (Nm - taken) % WordMod
      <3>1. w - 1 = w + (-1)
        BY <2>3
      <3> HIDE DEF w
      <3>2. QED
        BY <1>1, <2>1, <3>1 DEF w
    <2>5. (Nm - taken) + (-1) = Nm - (taken + 1)
      BY <1>2, BlockAssumption
    <2>6. taken + 1 \in 0 .. new[b]
      BY <1>2, <1>3
    <2>7. QED
      BY <2>2, <2>4, <2>5, <2>6 DEF Agrees
  <1>4. CASE ~(b = pb /\ p.sid_ok)
    <2>1. copy_packet(blk, p)[b].missed = blk[b].missed
      <3>1. CASE b # pb
        BY <3>1, CopyPacket
      <3>2. CASE ~p.sid_ok
        BY <3>2 DEF copy_packet
      <3>3. QED
        BY <1>4, <3>1, <3>2
    <2>2. new[b] \in Nat /\ new[b] >= cnt[b]
      BY <1>2
    <2>3. taken \in 0 .. new[b]
      BY <1>2, <2>2
    <2>4. QED
      BY <1>1, <2>1, <2>3 DEF Agrees
  <1>5. QED
    BY <1>3, <1>4

LEMMA CountsStep == IInv /\ CountsInv /\ [Next]_vars => CountsInv'
  <1> SUFFICES ASSUME IInv, CountsInv, [Next]_vars PROVE CountsInv'
    OBVIOUS
  <1> USE DEF IInv
  <1> DEFINE nb == NextBlock(block_i)
             cnt == block_packet_counter
  <1>1. /\ block \in [Blocks -> InputBlock]
        /\ cnt \in [Blocks -> Nat]
        /\ block_i \in Blocks /\ nb \in Blocks /\ nb # block_i
    BY NextBlockType, BoundAssumption DEF TypeOK
  <1>2. CASE AcquireFirst
    BY <1>2 DEF AcquireFirst, CountsInv
  <1>3. CASE AcquireSecond
    <2> DEFINE b0 == initialize_block(block, 0)
    <2>1. mcnt_start = 0 /\ block_i = 0
      BY <1>3, AtZero DEF AcquireSecond, WindowInv
    <2>2. block_for_mcnt(0) = block_i /\ block_for_mcnt(Nm) = nb /\ 0 \in Nat /\ Nm \in Nat
      BY <2>1, AtZero, StartAdvances, BlockAssumption
    <2>3. b0 \in [Blocks -> InputBlock] /\ Agrees(b0, cnt, block_i)
      BY <1>1, <2>2, InitializeBlock, FreshAgrees
    <2> HIDE DEF b0
    <2>4. Agrees(initialize_block(b0, Nm), cnt, block_i)
      BY <1>1, <2>2, <2>3, OtherAgrees
    <2>5. Agrees(initialize_block(b0, Nm), cnt, nb)
      BY <1>1, <2>2, <2>3, FreshAgrees
    <2>6. QED
      BY <1>3, <2>4, <2>5 DEF AcquireSecond, binfo, b0, CountsInv
  <1>4. CASE AcquireNext
    <2> DEFINE zeroed == [cnt EXCEPT ![nb] = 0]
               bi == initialize_block(block, pkt.mcnt + Nm)
               counted == [zeroed EXCEPT ![block_for_mcnt(pkt.mcnt)] = @ + 1]
    <2>1. pkt \in Packets /\ pkt.mcnt \in Nat /\ mcnt_start \in Nat
      BY <1>4, CounterAssumption DEF AcquireNext, WindowInv, Packets, Mcnts, TypeOK
    <2>2. block_for_mcnt(pkt.mcnt) = block_i
      BY <1>4, <2>1, SameBlock DEF AcquireNext, WindowInv
    <2>3. block_for_mcnt(pkt.mcnt + Nm) = nb /\ pkt.mcnt + Nm \in Nat
      BY <2>1, <2>2, BlockForMcnt, BlockAssumption
    <2>4. zeroed \in [Blocks -> Nat] /\ zeroed[block_i] = cnt[block_i]
      BY <1>1
    <2>5. Agrees(block, zeroed, block_i)
      BY <1>4, <2>4 DEF AcquireNext, CountsInv, Agrees
    <2> HIDE DEF zeroed
    <2>6. Agrees(bi, zeroed, block_i)
      BY <1>1, <2>3, <2>5, OtherAgrees
    <2>7. Agrees(bi, zeroed, nb)
      BY <1>1, <2>3, <2>4, FreshAgrees
    <2>8. bi \in [Blocks -> InputBlock]
      BY <1>1, <2>3, InitializeBlock
    <2> HIDE DEF bi
    <2>9. Agrees(copy_packet(bi, pkt), counted, block_i) /\ Agrees(copy_packet(bi, pkt), counted, nb)
      BY <1>1, <2>1, <2>4, <2>6, <2>7, <2>8, TakeAgrees
    <2>10. QED
      BY <1>4, <2>9 DEF AcquireNext, TakePacket, bi, zeroed, CountsInv
  <1>5. ASSUME NEW p \in Packets, ExpectedPacket(p) PROVE CountsInv'
    <2> DEFINE counted == [cnt EXCEPT ![block_for_mcnt(p.mcnt)] = @ + 1]
    <2>1. Agrees(copy_packet(block, p), counted, block_i) /\ Agrees(copy_packet(block, p), counted, nb)
      BY <1>1, <1>5, TakeAgrees DEF ExpectedPacket, CountsInv
    <2>2. QED
      BY <1>5, <2>1 DEF ExpectedPacket, TakePacket, CountsInv
  <1>6. ASSUME NEW p \in Packets, FillBlock(p) PROVE CountsInv'
    BY <1>6 DEF FillBlock, CountsInv
  <1>7. ASSUME NEW p \in Packets, ResetMcnt(p) PROVE CountsInv'
    <2> DEFINE start == ResetStart(p)
               b0 == initialize_block(block, start)
               zeroed == [cnt EXCEPT ![block_i] = 0, ![nb] = 0]
    <2>1. start \in Nat /\ block_for_mcnt(start) = block_i
      BY ResetKeepsBlock
    <2> HIDE DEF start
    <2>2. start + Nm \in Nat /\ block_for_mcnt(start + Nm) = nb
      BY <2>1, BlockForMcnt, BlockAssumption
    <2>3. zeroed \in [Blocks -> Nat]
      BY <1>1
    <2> HIDE DEF zeroed
    <2>4. b0 \in [Blocks -> InputBlock] /\ Agrees(b0, zeroed, block_i)
      BY <1>1, <2>1, <2>3, InitializeBlock, FreshAgrees
    <2> HIDE DEF b0
    <2>5. Agrees(initialize_block(b0, start + Nm), zeroed, block_i)
      BY <1>1, <2>2, <2>4, OtherAgrees
    <2>6. Agrees(initialize_block(b0, start + Nm), zeroed, nb)
      BY <1>1, <2>2, <2>3, <2>4, FreshAgrees
    <2>7. QED
      BY <1>7, <2>1, <2>5, <2>6 DEF ResetMcnt, start, b0, zeroed, CountsInv
  <1>8. CASE UNCHANGED <<block, block_packet_counter, block_i, pc>>
    BY <1>8 DEF CountsInv
  <1>9. QED
    BY <1>2, <1>3, <1>4, <1>5, <1>6, <1>7, <1>8
       DEF Next, ProcessPacket, LatePacket, OutOfSeqPacket, FreeBlock, binfo, vars

-----------------------------------------------------------------------------
(* What is reported of the block filled last.                              *)

\* The strengthening of NetmcntIsLastFilled: until the filled block is
\* reported its header is the one before the current mcnt.
NetmcntInv ==
  /\ pc \in {"acquire0", "acquire1"} => last_filled = -1
  /\ pc = "acquire" => /\ last_filled # -1
                       /\ block[last_filled].mcnt = mcnt_start - Nm
  /\ NetmcntIsLastFilled

\* In a ring of three blocks or more the block filled last is none of the two
\* held.
LEMMA LastFilledNotHeld ==
  ASSUME TypeOK, WindowInv, last_filled # -1
  PROVE  last_filled \in Blocks \ {block_i, NextBlock(block_i)}
  <1>1. last_filled \in 0 .. N-1 /\ block_i = (last_filled + 1) % N
    BY DEF TypeOK, Blocks, WindowInv
  <1>2. block_i = IF last_filled = N - 1 THEN 0 ELSE last_filled + 1
    BY <1>1, RingNext, Positive
  <1>3. block_i \in 0 .. N-1
    BY DEF TypeOK, Blocks
  <1>4. NextBlock(block_i) = IF block_i = N - 1 THEN 0 ELSE block_i + 1
    BY <1>3, RingNext, Positive DEF NextBlock
  <1>5. QED
    BY <1>1, <1>2, <1>3, <1>4, RingAssumption DEF Blocks

LEMMA NetmcntStep ==
  ASSUME SidVerdicts = {TRUE}
  PROVE  IInv /\ NetmcntInv /\ [Next]_vars => NetmcntInv'
  <1> SUFFICES ASSUME IInv, NetmcntInv, [Next]_vars PROVE NetmcntInv'
    OBVIOUS
  <1> USE DEF IInv
  <1>1. ASSUME last_filled # -1, pc # "acquire1"
        PROVE  block'[last_filled] = block[last_filled]
    <2>1. last_filled \in Blocks \ {block_i, NextBlock(block_i)}
      BY <1>1, LastFilledNotHeld
    <2>2. QED
      BY <2>1, StepWritesHeld
  <1>2. CASE AcquireFirst
    BY <1>2 DEF AcquireFirst, NetmcntInv, NetmcntIsLastFilled
  <1>3. CASE AcquireSecond
    BY <1>3 DEF AcquireSecond, NetmcntInv, NetmcntIsLastFilled
  <1>4. CASE AcquireNext
    <2>1. pkt.sid_ok
      BY <1>4 DEF AcquireNext, WindowInv, Packets
    <2>2. NETMCNT' = mcnt_start - Nm
      BY <1>4, <2>1 DEF AcquireNext, ReportedMcnt
    <2>3. QED
      BY <1>1, <1>4, <2>2 DEF AcquireNext, NetmcntInv, NetmcntIsLastFilled
  <1>5. ASSUME NEW p \in Packets, FillBlock(p) PROVE NetmcntInv'
    <2>1. /\ last_filled' = block_i
          /\ block' = block
          /\ mcnt_start' = mcnt_start + Nm
          /\ pc' = "acquire"
      BY <1>5 DEF FillBlock, set_block_filled, WindowInv
    <2>2. block[block_i].mcnt = mcnt_start /\ block_i # -1
      BY <1>5, RingAssumption DEF FillBlock, WindowInv, TypeOK, Blocks
    <2>3. mcnt_start = (mcnt_start + Nm) - Nm
      BY BlockAssumption DEF TypeOK
    <2>4. QED
      BY <2>1, <2>2, <2>3 DEF NetmcntInv, NetmcntIsLastFilled
  <1>6. CASE pc = "recv" /\ UNCHANGED <<last_filled, NETMCNT, pc>>
    BY <1>1, <1>6 DEF NetmcntInv, NetmcntIsLastFilled
  <1>7. CASE UNCHANGED <<block, mcnt_start, last_filled, NETMCNT, pc>>
    BY <1>7 DEF NetmcntInv, NetmcntIsLastFilled
  <1>8. QED
    BY <1>2, <1>3, <1>4, <1>5, <1>6, <1>7
       DEF Next, ProcessPacket, LatePacket, ExpectedPacket, OutOfSeqPacket, ResetMcnt,
           FreeBlock, binfo, vars

-----------------------------------------------------------------------------
(* The theorems.                                                           *)

LEMMA Invariance == Spec => []IInv
  BY InitInv, StepInv, PTL DEF Spec

\* Every reachable state of the thread is well typed: ring indices, counters
\* and header words stay in their ranges, for all packets that may arrive.
THEOREM TypeCorrect == Spec => []TypeOK
  <1>1. IInv => TypeOK
    BY DEF IInv
  <1>2. QED
    BY <1>1, Invariance, PTL

\* The two blocks process_packet copies into are held by the thread whenever
\* it takes a packet, never by the GPU thread.
THEOREM OwnershipHolds == Spec => []HoldsTwoBlocks
  <1>1. IInv => HoldsTwoBlocks
    BY DEF IInv, WindowInv, HoldsTwoBlocks
  <1>2. QED
    BY <1>1, Invariance, PTL

\* Blocks are marked filled in ring order, through every reset of the mcnt:
\* the two validations of set_block_filled never warn.
THEOREM RingOrderHolds == Spec => []FillsInRingOrder
  <1>1. IInv => FillsInRingOrder
    BY DEF IInv, WindowInv, FillsInRingOrder
  <1>2. QED
    BY <1>1, Invariance, PTL

\* The headers of the two held blocks cover exactly the mcnts the thread
\* copies into them.
THEOREM HeadersHold == Spec => []HeadersCoverWindow
  <1>1. IInv => HeadersCoverWindow
    BY DEF IInv, WindowInv, HeadersCoverWindow
  <1>2. QED
    BY <1>1, Invariance, PTL

\* A block that was marked filled keeps its header and its data until the
\* thread downstream frees it.
THEOREM FilledBlocksKeep == Spec => FilledBlocksAreStable
  <1>1. IInv /\ [Next]_vars => \A b \in Blocks : sem[b] = 1 => block'[b] = block[b]
    BY StepWritesHeld
  <1>2. QED
    BY <1>1, Invariance, PTL DEF Spec, FilledBlocksAreStable

\* The counts that the status reports and those in the headers go together:
\* however packets, waits and resets follow each other, what is reported
\* missing from a block held is at most what its header counts as missing.
THEOREM CountsHold == Spec => []CountersAgree
  <1>1. Init => CountsInv
    BY DEF Init, CountsInv
  <1>2. IInv /\ CountsInv => CountersAgree
    BY DEF CountsInv, CountersAgree, Agrees
  <1>3. QED
    BY <1>1, <1>2, Invariance, CountsStep, PTL DEF Spec

\* What is reported of the blocks handed on: if every packet has a good sid,
\* NETMCNT is the first mcnt of the block filled last whenever the thread
\* takes packets, as process_packet's comment has it.
THEOREM NetmcntHolds ==
  ASSUME SidVerdicts = {TRUE}
  PROVE  Spec => []NetmcntIsLastFilled
  <1>1. Init => NetmcntInv
    BY DEF Init, NetmcntInv, NetmcntIsLastFilled
  <1>2. NetmcntInv => NetmcntIsLastFilled
    BY DEF NetmcntInv
  <1>3. IInv /\ NetmcntInv /\ [Next]_vars => NetmcntInv'
    BY NetmcntStep
  <1>4. QED
    BY <1>1, <1>2, <1>3, Invariance, PTL DEF Spec

\* A step of the thread is a step of the ring it promises, or none.
LEMMA StepSimulates == IInv /\ [Next]_vars => [Ring!Next]_(Ring!vars)
  <1> SUFFICES ASSUME IInv, [Next]_vars PROVE [Ring!Next]_(Ring!vars)
    OBVIOUS
  <1> USE DEF IInv
  <1> DEFINE held == {block_i, NextBlock(block_i)}
  <1>1. /\ block_i \in Blocks /\ Ring!Blocks = Blocks
        /\ Ring!After(block_i) = NextBlock(block_i)
    BY DEF TypeOK, Ring!Blocks, Blocks, Ring!After, NextBlock
  <1>2. Ring!WritesOnly(held)
    <2>1. \A b \in Blocks \ held : block'[b] = block[b]
      BY StepWritesHeld
    <2>2. DOMAIN block' = Blocks
      BY StepInv DEF TypeOK
    <2>3. QED
      BY <1>1, <2>1, <2>2 DEF Ring!WritesOnly
  <1> HIDE DEF held
  <1>3. CASE AcquireFirst
    BY <1>3 DEF AcquireFirst, binfo, Ring!Next, Ring!AcquireFirst
  <1>4. CASE AcquireSecond
    <2>1. block_i = 0
      BY <1>4, AtZero DEF AcquireSecond, WindowInv
    <2>2. NextBlock(0) = 1
      BY RingAssumption DEF NextBlock
    <2>3. QED
      BY <1>2, <1>4, <2>1, <2>2 DEF held, AcquireSecond, binfo, Ring!Next, Ring!AcquireSecond
  <1>5. CASE AcquireNext
    BY <1>1, <1>2, <1>5 DEF AcquireNext, held, Ring!Next, Ring!AcquireNext
  <1>6. ASSUME NEW p \in Packets, ExpectedPacket(p) PROVE Ring!Next
    BY <1>1, <1>2, <1>6 DEF ExpectedPacket, held, Ring!Next, Ring!Write
  <1>7. ASSUME NEW p \in Packets, FillBlock(p) PROVE Ring!Next
    BY <1>1, <1>7 DEF FillBlock, set_block_filled, WindowInv, Ring!Next, Ring!Fill
  <1>8. ASSUME NEW p \in Packets, ResetMcnt(p) PROVE Ring!Next
    <2>1. block_i' = block_i
      BY <1>8, ResetKeepsBlock DEF ResetMcnt
    <2>2. QED
      BY <1>1, <1>2, <1>8, <2>1 DEF ResetMcnt, held, Ring!Next, Ring!Write
  <1>9. ASSUME NEW b \in Blocks, FreeBlock(b) PROVE Ring!Next
    BY <1>1, <1>9 DEF FreeBlock, binfo, Ring!Next, Ring!Free
  <1>10. ASSUME NEW p \in Packets, OutOfSeqPacket(p) PROVE UNCHANGED Ring!vars
    BY <1>10 DEF OutOfSeqPacket, Ring!vars
  <1>11. CASE UNCHANGED vars
    BY <1>11 DEF vars, Ring!vars
  <1>12. QED
    BY <1>3, <1>4, <1>5, <1>6, <1>7, <1>8, <1>9, <1>10, <1>11
       DEF Next, ProcessPacket, LatePacket

\* The thread keeps the promise the rest of the pipeline is built on: seen
\* from outside it is the producer of module InputRing.
THEOREM RingImplemented == Spec => ImplementsInputRing
  <1>1. Init => Ring!Init
    BY DEF Init, Ring!Init, Ring!Blocks, Blocks
  <1>2. QED
    BY <1>1, Invariance, StepSimulates, PTL DEF Spec, ImplementsInputRing, Ring!Spec

-----------------------------------------------------------------------------
(* One sender: where its counter is.                                       *)

\* The counter, and the packets in flight, which were sent a little before it
\* (a restart takes the counter away from them).
FlightInv ==
  /\ tx \in Mcnts
  /\ flight \subseteq Mcnts
  /\ losses \in 0 .. MaxLosses
  /\ restarts \in Nat
  /\ restarts = 0 => \A m \in flight : (tx - m) % McntMod \in 1 .. MaxFlight + 1

\* How long ago a packet was sent.
LEMMA Age ==
  ASSUME NEW t \in Mcnts, NEW m \in Mcnts
  PROVE  (t - m) % McntMod = IF m <= t THEN t - m ELSE (t - m) + McntMod
  <1>1. t \in Int /\ m \in Int /\ McntMod \in Nat \ {0}
    BY CounterAssumption DEF Mcnts
  <1>2. CASE m <= t
    <2>1. t - m \in 0 .. McntMod-1 /\ t - m = (McntMod * 0) + (t - m)
      BY <1>1, <1>2 DEF Mcnts
    <2>2. QED
      BY <1>1, <1>2, <2>1, DivModUnique, 0 \in Int
  <1>3. CASE ~(m <= t)
    <2>1. (t - m) + McntMod \in 0 .. McntMod-1
      BY <1>1, <1>3 DEF Mcnts
    <2>2. t - m = (McntMod * (-1)) + ((t - m) + McntMod)
      BY <1>1
    <2>3. QED
      BY <1>1, <1>3, <2>1, <2>2, DivModUnique, -1 \in Int
  <1>4. QED
    BY <1>2, <1>3

LEMMA McntsFinite == IsFiniteSet(Mcnts)
  BY FS_Interval, CounterAssumption, 0 \in Int, McntMod - 1 \in Int DEF Mcnts

\* The bounds of the network.
LEMMA Bounds ==
  /\ McntMod \in Nat /\ MaxFlight \in Nat \ {0} /\ MaxLosses \in Nat
  /\ MAX_OUT_OF_SEQ \in Nat /\ Nm \in Nat \ {0}
  /\ McntMod >= 2 * Nm + MAX_OUT_OF_SEQ + 1 + MaxLosses + 2 * MaxFlight
                 + LATE_PKT_MCNT_THRESHOLD
  /\ LATE_PKT_MCNT_THRESHOLD \in Nat
  <1>1. 2 * Nm * N \in Nat
    BY RingAssumption, BlockAssumption
  <1>2. LATE_PKT_MCNT_THRESHOLD \in Nat
    BY <1>1 DEF LATE_PKT_MCNT_THRESHOLD
  <1>3. QED
    BY <1>2, CountType, CounterAssumption, BlockAssumption, FlightAssumption, FaultAssumption,
       RolloverAssumption

\* No more than MaxFlight+1 packets are in flight: no two of them have the
\* same age.
LEMMA FlightIsSmall ==
  ASSUME FlightInv, restarts = 0
  PROVE  /\ IsFiniteSet(flight)
         /\ Cardinality(flight) \in 0 .. MaxFlight + 1
  <1>1. IsFiniteSet(flight)
    BY McntsFinite, FS_Subset DEF FlightInv
  <1>2. Cardinality(flight) \in Nat
    BY <1>1, FS_CardinalityType
  <1> DEFINE ages == 1 .. MaxFlight + 1
             age == [m \in flight |-> (tx - m) % McntMod]
  <1>3. IsFiniteSet(ages) /\ Cardinality(ages) = MaxFlight + 1
    BY FS_Interval, Bounds, 1 \in Int, MaxFlight + 1 \in Int
  <1>4. age \in [flight -> ages]
    BY DEF FlightInv
  <1>5. ASSUME NEW x \in flight, NEW y \in flight, age[x] = age[y]
        PROVE  x = y
    <2>1. /\ x \in Mcnts /\ y \in Mcnts /\ tx \in Mcnts
          /\ (tx - x) % McntMod = (tx - y) % McntMod
      BY <1>5 DEF FlightInv
    <2>2. /\ (tx - x) % McntMod = IF x <= tx THEN tx - x ELSE (tx - x) + McntMod
          /\ (tx - y) % McntMod = IF y <= tx THEN tx - y ELSE (tx - y) + McntMod
      BY <2>1, Age
    <2>3. QED
      BY <2>1, <2>2, CounterAssumption DEF Mcnts
  <1> HIDE DEF ages, age
  <1>6. ASSUME Cardinality(ages) < Cardinality(flight) PROVE FALSE
    <2>1. \E x, y \in flight : x # y /\ age[x] = age[y]
      BY <1>1, <1>3, <1>4, <1>6, FS_PigeonHole
    <2>2. QED
      BY <1>5, <2>1
  <1>7. QED
    BY <1>1, <1>2, <1>3, <1>6, Bounds

LEMMA FlightStep ==
  FlightInv /\ [StreamNext]_<<vars, net>> => FlightInv'
  <1> SUFFICES ASSUME FlightInv, [StreamNext]_<<vars, net>> PROVE FlightInv'
    OBVIOUS
  <1>1. CASE Send
    <2>1. /\ tx \in Mcnts /\ flight' = flight \cup {tx}
          /\ tx' = (tx + 1) % McntMod
          /\ \A m \in flight : (tx - m) % McntMod \in 1 .. MaxFlight
          /\ UNCHANGED <<losses, restarts>>
      BY <1>1 DEF Send, FlightInv
    <2>2. tx' \in Mcnts
      BY <2>1, DivMod, CounterAssumption DEF Mcnts
    <2>3. ASSUME NEW m \in flight' PROVE (tx' - m) % McntMod \in 1 .. MaxFlight + 1
      <3>1. m \in Mcnts /\ m \in Int /\ tx \in Int
        BY <2>1 DEF FlightInv, Mcnts
      <3>2. (tx' - m) % McntMod = ((tx - m) + 1) % McntMod
        <4>1. ((((tx + 1) % McntMod) + (-m)) % McntMod) = ((tx + 1) + (-m)) % McntMod
          BY <3>1, ModOfSum, CounterAssumption, tx + 1 \in Int, -m \in Int
        <4>2. (tx + 1) % McntMod \in Int
          BY <2>1, <2>2 DEF Mcnts
        <4>3. /\ ((tx + 1) % McntMod) + (-m) = ((tx + 1) % McntMod) - m
              /\ (tx + 1) + (-m) = (tx - m) + 1
          BY <3>1, <4>2
        <4>4. QED
          BY <2>1, <4>1, <4>3
      <3>3. ((tx - m) + 1) % McntMod = (((tx - m) % McntMod) + 1) % McntMod
        BY <3>1, ModOfSum, CounterAssumption, tx - m \in Int, 1 \in Int
      <3>4. (tx - m) % McntMod \in 0 .. MaxFlight
        <4>1. CASE m = tx
          BY <3>1, <4>1, Age, Bounds
        <4>2. CASE m \in flight
          BY <2>1, <4>2, Bounds
        <4>3. QED
          BY <2>1, <4>1, <4>2
      <3> DEFINE a == (tx - m) % McntMod
      <3> HIDE DEF a
      <3>5. (a + 1) % McntMod = a + 1
        <4>1. a + 1 \in 0 .. McntMod-1 /\ a + 1 = (McntMod * 0) + (a + 1)
          BY <3>4, Bounds DEF a
        <4>2. QED
          BY <4>1, DivModUnique, CounterAssumption, 0 \in Int
      <3>6. QED
        BY <3>2, <3>3, <3>4, <3>5, Bounds DEF a
    <2>4. flight' \subseteq Mcnts
      BY <2>1 DEF FlightInv
    <2>5. QED
      BY <2>1, <2>2, <2>3, <2>4 DEF FlightInv
  <1>2. ASSUME NEW m \in Mcnts, Deliver(m) PROVE FlightInv'
    BY <1>2 DEF Deliver, FlightInv
  <1>3. ASSUME NEW m \in Mcnts, Lose(m) PROVE FlightInv'
    BY <1>3, FaultAssumption DEF Lose, FlightInv
  <1>4. CASE Restart
    BY <1>4, CounterAssumption DEF Restart, FlightInv, Mcnts
  <1>5. CASE UNCHANGED net
    BY <1>5 DEF FlightInv, net
  <1>6. QED
    BY <1>1, <1>2, <1>3, <1>4, <1>5 DEF StreamNext, RingStep

-----------------------------------------------------------------------------
(* One sender: its steps are steps of the thread fed by any network.       *)

LEMMA StreamStep == [StreamNext]_<<vars, net>> => [Next]_vars
  <1> SUFFICES ASSUME [StreamNext]_<<vars, net>> PROVE [Next]_vars
    OBVIOUS
  <1>1. ASSUME NEW m \in Mcnts, Deliver(m) PROVE Next
    <2>1. Packet(m) \in Packets
      BY SenderAssumption DEF Packet, Packets
    <2>2. QED
      BY <1>1, <2>1 DEF Deliver, Next
  <1>2. CASE RingStep
    BY <1>2 DEF RingStep, Next
  <1>3. CASE UNCHANGED vars
    BY <1>3
  <1>4. QED
    BY <1>1, <1>2, <1>3 DEF StreamNext, Send, Lose, Restart

\* The thread fed by one sender is the thread fed by any network, so that all
\* that is proved of the latter holds of the former.
THEOREM StreamImplementsPktSock == StreamSpec => Spec
  <1>1. StreamInit => Init
    BY DEF StreamInit
  <1>2. QED
    BY <1>1, StreamStep, PTL DEF StreamSpec, Spec

-----------------------------------------------------------------------------
(* One sender: no packet is taken that its block already has.              *)

\* A packet of this mcnt was taken into the current window.
Taken(m) ==
  \/ pc \in {"recv", "acquire"} /\ m - mcnt_start \in block[block_i].slots
  \/ pc = "recv" /\ m - (mcnt_start + Nm) \in block[NextBlock(block_i)].slots
  \/ pc = "acquire" /\ m = pkt.mcnt

\* How far the sender at t, perhaps past its rollover, has left behind the
\* window that starts at s.
WindowEnd(s) == IF s + 2 * Nm < McntMod THEN s + 2 * Nm ELSE McntMod
Past(t, s) == (IF t < s THEN t + McntMod ELSE t) - WindowEnd(s)

\* How far that may be: the packets sent past the window are in flight, lost,
\* counted as out of sequence, or overtook one that was expected.
Budget ==
  MaxFlight + losses + Cardinality(flight) + (IF pc = "recv" THEN out_of_seq_cnt ELSE 0)
MaxBudget == MaxFlight + MaxLosses + (MaxFlight + 1) + (MAX_OUT_OF_SEQ + 1)

\* What was taken was sent before, and is not sent again while the window is
\* there.
Gone(m) ==
  /\ m \notin flight
  /\ tx >= mcnt_start => m < tx
  /\ Past(tx, mcnt_start) <= Budget

TakenInv ==
  restarts = 0 =>
    /\ \A m \in Mcnts : Taken(m) => Gone(m)
    /\ pc = "acquire" => pkt.mcnt - mcnt_start \notin block[block_i].slots

LEMMA Threshold == LATE_PKT_MCNT_THRESHOLD >= 3
  <1>1. Nm * N \in Nat /\ Nm * N >= Nm * 3
    BY RingAssumption, BlockAssumption
  <1>2. 2 * Nm * N = 2 * (Nm * N)
    BY RingAssumption, BlockAssumption
  <1>3. QED
    BY <1>1, <1>2, BlockAssumption DEF LATE_PKT_MCNT_THRESHOLD

\* A packet in flight below the end of the window keeps the sender near it.
LEMMA NearWindow ==
  ASSUME NEW t \in Mcnts, NEW m \in Mcnts, NEW s \in Nat,
         (t - m) % McntMod \in 1 .. MaxFlight + 1,
         m < WindowEnd(s), t < s => ~(m < t)
  PROVE  /\ Past(t, s) <= MaxFlight
         /\ m >= s /\ t >= s => m < t
  <1>1. (t - m) % McntMod = IF m <= t THEN t - m ELSE (t - m) + McntMod
    BY Age
  <1>2. t \in Nat /\ m \in Nat /\ t < McntMod /\ m < McntMod
    BY CounterAssumption DEF Mcnts
  <1>3. QED
    BY <1>1, <1>2, Bounds DEF Past, WindowEnd

\* A packet sent since the rollover is out of sequence, not merely late.
LEMMA SentSinceRollover ==
  ASSUME NEW t \in Mcnts, NEW m \in Mcnts, NEW s \in Nat,
         t < s, m < t, Past(t, s) <= MaxBudget
  PROVE  m - s <= -LATE_PKT_MCNT_THRESHOLD
  <1>1. t \in Nat /\ m \in Nat
    BY CounterAssumption DEF Mcnts
  <1>2. QED
    BY <1>1, Bounds DEF Past, WindowEnd, MaxBudget

\* The sender goes on: past what was taken, and not round to it.
LEMMA SenderAdvances ==
  ASSUME NEW t \in Mcnts, NEW m \in Mcnts, NEW s \in Nat, m >= s,
         t >= s => m < t, Past(t, s) <= MaxBudget,
         NEW u, u = IF t + 1 = McntMod THEN 0 ELSE t + 1
  PROVE  /\ m # t
         /\ u >= s => m < u
         /\ Past(u, s) <= Past(t, s) + 1
  <1>1. t \in Nat /\ m \in Nat /\ t < McntMod /\ m < McntMod
    BY CounterAssumption DEF Mcnts
  <1>2. t < s => t + 1 < s
    BY <1>1, Bounds, Threshold DEF Past, WindowEnd, MaxBudget
  <1>3. t + 1 = McntMod => s > 0
    BY <1>1, Bounds, Threshold DEF Past, WindowEnd, MaxBudget
  <1>4. QED
    BY <1>1, <1>2, <1>3, Bounds DEF Past, WindowEnd

LEMMA BudgetType ==
  ASSUME TypeOK, FlightInv, restarts = 0
  PROVE  /\ Budget \in Nat /\ Budget <= MaxBudget
         /\ Cardinality(flight) \in Nat /\ losses \in Nat
         /\ out_of_seq_cnt \in 0 .. MAX_OUT_OF_SEQ + 1
         /\ Past(tx, mcnt_start) \in Int
  <1>1. /\ Cardinality(flight) \in 0 .. MaxFlight + 1
        /\ losses \in 0 .. MaxLosses
        /\ out_of_seq_cnt \in 0 .. MAX_OUT_OF_SEQ + 1
        /\ tx \in Int /\ mcnt_start \in Nat
    BY FlightIsSmall DEF FlightInv, TypeOK, Mcnts
  <1>2. QED
    BY <1>1, Bounds DEF Budget, MaxBudget, Past, WindowEnd

\* What was taken lies in the window.
LEMMA TakenInWindow ==
  ASSUME TypeOK, WindowInv, NEW m \in Mcnts, Taken(m)
  PROVE  m >= mcnt_start /\ mcnt_start \in Nat
  <1>1. /\ mcnt_start \in Nat /\ m \in Int
        /\ block \in [Blocks -> InputBlock]
        /\ block_i \in Blocks /\ NextBlock(block_i) \in Blocks
    BY NextBlockType DEF TypeOK, Mcnts
  <1>2. \A b \in Blocks : block[b].slots \subseteq 0 .. Nm-1
    BY <1>1 DEF InputBlock
  <1>3. CASE m - mcnt_start \in block[block_i].slots
    <2>1. m - mcnt_start \in 0 .. Nm-1
      BY <1>1, <1>2, <1>3
    <2>2. QED
      BY <1>1, <2>1
  <1>4. CASE m - (mcnt_start + Nm) \in block[NextBlock(block_i)].slots
    <2>1. m - (mcnt_start + Nm) \in 0 .. Nm-1
      BY <1>1, <1>2, <1>4
    <2>2. QED
      BY <1>1, <2>1, Bounds
  <1>5. CASE pc = "acquire" /\ m = pkt.mcnt
    BY <1>1, <1>5 DEF WindowInv
  <1>6. QED
    BY <1>3, <1>4, <1>5 DEF Taken

\* Where a packet that is expected belongs.
LEMMA ExpectedOffset ==
  ASSUME TypeOK, WindowInv, NEW p \in Packets, IsExpected(p)
  PROVE  /\ p.mcnt < mcnt_start + Nm =>
              block_for_mcnt(p.mcnt) = block_i /\ p.mcnt % Nm = p.mcnt - mcnt_start
         /\ ~(p.mcnt < mcnt_start + Nm) =>
              /\ block_for_mcnt(p.mcnt) = NextBlock(block_i)
              /\ p.mcnt % Nm = p.mcnt - (mcnt_start + Nm)
  <1>1. p.mcnt \in Nat /\ mcnt_start \in Nat /\ p.mcnt % Nm \in Int
    BY CounterAssumption, Remainders DEF Packets, Mcnts, TypeOK
  <1>2. p.mcnt \in mcnt_start .. mcnt_start + 2 * Nm - 1
    BY <1>1, BlockAssumption DEF IsExpected, Dist
  <1>3. CASE p.mcnt < mcnt_start + Nm
    <2>1. p.mcnt \in mcnt_start .. mcnt_start + Nm - 1
      BY <1>1, <1>2, <1>3, BlockAssumption
    <2>2. block_for_mcnt(p.mcnt) = block_i /\ p.mcnt - (p.mcnt % Nm) = mcnt_start
      BY <1>1, <2>1, SameBlock DEF WindowInv
    <2>3. QED
      BY <1>1, <1>3, <2>2
  <1>4. CASE ~(p.mcnt < mcnt_start + Nm)
    <2>1. p.mcnt \in mcnt_start + Nm .. mcnt_start + Nm + Nm - 1
      BY <1>1, <1>2, <1>4, BlockAssumption
    <2>2. /\ block_for_mcnt(p.mcnt) = NextBlock(block_i)
          /\ p.mcnt - (p.mcnt % Nm) = mcnt_start + Nm
      BY <2>1, StartAdvances, SameBlock
    <2>3. QED
      BY <1>1, <1>4, <2>2, BlockAssumption
  <1>5. QED
    BY <1>3, <1>4

\* initialize_block empties the block, copy_packet adds the packet's offset.
LEMMA Slots ==
  ASSUME NEW blk \in [Blocks -> InputBlock], NEW m \in Nat
  PROVE  /\ initialize_block(blk, m)[block_for_mcnt(m)].slots = {}
         /\ initialize_block(blk, m)[block_for_mcnt(m)].missed = Nm
         /\ copy_packet(blk, Packet(m))[block_for_mcnt(m)].slots =
              blk[block_for_mcnt(m)].slots \cup {m % Nm}
         /\ copy_packet(blk, Packet(m))[block_for_mcnt(m)].missed =
              (blk[block_for_mcnt(m)].missed - 1) % WordMod
  <1> DEFINE pb == block_for_mcnt(m)
  <1>1. pb \in Blocks
    BY BlockForMcnt
  <1> HIDE DEF pb
  <1>2. Packet(m).sid_ok /\ Packet(m).mcnt = m
    BY DEF Packet
  <1>3. blk[pb] \in InputBlock
    BY <1>1
  <1>4. copy_packet(blk, Packet(m)) =
          [blk EXCEPT ![pb].missed = (@ - 1) % WordMod, ![pb].slots = @ \cup {m % Nm}]
    BY <1>2 DEF copy_packet, pb
  <1>5. /\ copy_packet(blk, Packet(m))[pb].slots = blk[pb].slots \cup {m % Nm}
        /\ copy_packet(blk, Packet(m))[pb].missed = (blk[pb].missed - 1) % WordMod
    BY <1>1, <1>3, <1>4 DEF InputBlock
  <1>6. initialize_block(blk, m)[pb] = [mcnt |-> m - (m % Nm), missed |-> Nm, slots |-> {}]
    BY <1>1 DEF initialize_block, pb
  <1>7. QED
    BY <1>5, <1>6 DEF pb

\* A window that was just recycled holds nothing.
LEMMA FreshWindow ==
  ASSUME TypeOK, WindowInv, NEW m \in Nat, block_for_mcnt(m) = block_i
  PROVE  LET blk == initialize_block(initialize_block(block, m), m + Nm)
         IN  /\ blk[block_i].slots = {} /\ blk[block_i].missed = Nm
             /\ blk[NextBlock(block_i)].slots = {} /\ blk[NextBlock(block_i)].missed = Nm
             /\ \A b \in Blocks \ {block_i, NextBlock(block_i)} : blk[b] = block[b]
  <1> DEFINE b0 == initialize_block(block, m)
             nb == NextBlock(block_i)
  <1>1. /\ block \in [Blocks -> InputBlock]
        /\ block_i \in Blocks /\ nb \in Blocks /\ nb # block_i
    BY NextBlockType DEF TypeOK
  <1>2. m + Nm \in Nat /\ block_for_mcnt(m + Nm) = nb
    BY BlockForMcnt, BlockAssumption
  <1>3. /\ b0 \in [Blocks -> InputBlock]
        /\ b0[block_i].slots = {} /\ b0[block_i].missed = Nm
        /\ \A b \in Blocks : b # block_i => b0[b] = block[b]
    BY <1>1, InitializeBlock, Slots
  <1> HIDE DEF b0, nb
  <1>4. /\ initialize_block(b0, m + Nm)[nb].slots = {}
        /\ initialize_block(b0, m + Nm)[nb].missed = Nm
        /\ \A b \in Blocks : b # nb => initialize_block(b0, m + Nm)[b] = b0[b]
    BY <1>2, <1>3, InitializeBlock, Slots
  <1>5. QED
    BY <1>1, <1>3, <1>4 DEF b0, nb

LEMMA SendKeeps ==
  ASSUME IInv, FlightInv, TakenInv, Send
  PROVE  TakenInv'
  <1> SUFFICES ASSUME restarts' = 0 PROVE TakenInv'
    BY DEF TakenInv
  <1> USE DEF IInv
  <1>1. /\ flight' = flight \cup {tx} /\ tx' = (tx + 1) % McntMod
        /\ UNCHANGED vars /\ losses' = losses /\ restarts = 0
    BY DEF Send
  <1>2. UNCHANGED <<pc, pkt, mcnt_start, block, block_i, out_of_seq_cnt>>
    BY <1>1 DEF vars
  <1>3. tx \in Mcnts /\ mcnt_start \in Nat
    BY DEF FlightInv, TypeOK
  <1>4. tx' = IF tx + 1 = McntMod THEN 0 ELSE tx + 1
    BY <1>1, <1>3, RingNext, CounterAssumption DEF Mcnts
  <1>5. tx \notin flight
    <2>1. ASSUME tx \in flight PROVE FALSE
      <3>1. (tx - tx) % McntMod \in 1 .. MaxFlight
        BY <2>1 DEF Send
      <3>2. (tx - tx) % McntMod = IF tx <= tx THEN tx - tx ELSE (tx - tx) + McntMod
        BY <1>3, Age
      <3>3. QED
        BY <1>3, <3>1, <3>2 DEF Mcnts
    <2>2. QED
      BY <2>1
  <1>6. Cardinality(flight') = Cardinality(flight) + 1
    BY <1>1, <1>5, FlightIsSmall, FS_AddElement
  <1>7. Budget' = Budget + 1
    <2>1. PICK count \in Nat : count = Cardinality(flight) /\ Cardinality(flight') = count + 1
      BY <1>1, <1>6, BudgetType
    <2>2. Budget' = MaxFlight + losses + (count + 1) + (IF pc = "recv" THEN out_of_seq_cnt ELSE 0)
      BY <1>1, <1>2, <2>1 DEF Budget
    <2>3. Budget = MaxFlight + losses + count + (IF pc = "recv" THEN out_of_seq_cnt ELSE 0)
      BY <2>1 DEF Budget
    <2>4. QED
      BY <1>1, <2>2, <2>3, BudgetType, Bounds
  <1>8. ASSUME NEW m \in Mcnts, Taken(m) PROVE Gone(m)'
    <2>1. Gone(m) /\ m >= mcnt_start
      BY <1>1, <1>8, TakenInWindow DEF TakenInv
    <2>2. Past(tx, mcnt_start) <= MaxBudget
      BY <1>1, <2>1, BudgetType, Bounds DEF Gone, MaxBudget
    <2>3. /\ m # tx
          /\ tx' >= mcnt_start => m < tx'
          /\ Past(tx', mcnt_start) <= Past(tx, mcnt_start) + 1
      BY <1>3, <1>4, <2>1, <2>2, SenderAdvances DEF Gone
    <2>4. m \notin flight'
      BY <1>1, <2>1, <2>3 DEF Gone
    <2>5. Past(tx', mcnt_start) \in Int
      BY <1>3, <1>4, CounterAssumption, Bounds DEF Past, WindowEnd, Mcnts
    <2>6. Past(tx', mcnt_start) <= Budget + 1
      BY <1>1, <2>1, <2>3, <2>5, BudgetType DEF Gone
    <2>7. QED
      BY <1>2, <1>7, <2>3, <2>4, <2>6 DEF Gone, Past, WindowEnd
  <1>9. \A m \in Mcnts : Taken(m)' => Taken(m)
    BY <1>2 DEF Taken
  <1>10. QED
    BY <1>1, <1>2, <1>8, <1>9 DEF TakenInv

\* A packet leaves the network.
LEMMA OneLess ==
  ASSUME FlightInv, restarts = 0, NEW m \in flight
  PROVE  /\ Cardinality(flight \ {m}) \in Nat
         /\ Cardinality(flight) = Cardinality(flight \ {m}) + 1
  <1>1. IsFiniteSet(flight) /\ Cardinality(flight) \in Nat
    BY FlightIsSmall, FS_CardinalityType
  <1>2. /\ Cardinality(flight \ {m}) = Cardinality(flight) - 1
        /\ IsFiniteSet(flight \ {m})
    BY <1>1, FS_RemoveElement
  <1>3. Cardinality(flight \ {m}) \in Nat
    BY <1>2, FS_CardinalityType
  <1>4. QED
    BY <1>1, <1>2, <1>3

LEMMA LoseKeeps ==
  ASSUME IInv, FlightInv, TakenInv, NEW m \in Mcnts, Lose(m)
  PROVE  TakenInv'
  <1> SUFFICES ASSUME restarts' = 0 PROVE TakenInv'
    BY DEF TakenInv
  <1> USE DEF IInv
  <1>1. /\ m \in flight /\ flight' = flight \ {m} /\ losses' = losses + 1
        /\ tx' = tx /\ restarts = 0
        /\ UNCHANGED <<pc, pkt, mcnt_start, block, block_i, out_of_seq_cnt>>
    BY DEF Lose, vars
  <1>2. Budget' = Budget
    <2>1. PICK count \in Nat : count = Cardinality(flight') /\ Cardinality(flight) = count + 1
      BY <1>1, OneLess
    <2>2. Budget' = MaxFlight + (losses + 1) + count + (IF pc = "recv" THEN out_of_seq_cnt ELSE 0)
      BY <1>1, <2>1 DEF Budget
    <2>3. Budget = MaxFlight + losses + (count + 1) + (IF pc = "recv" THEN out_of_seq_cnt ELSE 0)
      BY <2>1 DEF Budget
    <2>4. QED
      BY <1>1, <2>2, <2>3, BudgetType, Bounds
  <1>3. \A x \in Mcnts : Taken(x)' => Taken(x)
    BY <1>1 DEF Taken
  <1>4. \A x : Gone(x) => Gone(x)'
    BY <1>1, <1>2 DEF Gone, Past, WindowEnd
  <1>5. QED
    BY <1>1, <1>3, <1>4 DEF TakenInv

\* What a packet delivered finds: it was not taken before.
LEMMA Delivered ==
  ASSUME IInv, FlightInv, TakenInv, restarts = 0, NEW m \in flight
  PROVE  /\ m \in Mcnts /\ m \in Nat /\ tx \in Mcnts /\ mcnt_start \in Nat
         /\ Packet(m) \in Packets /\ Packet(m).mcnt = m /\ Packet(m).sid_ok
         /\ ~Taken(m)
         /\ (tx - m) % McntMod \in 1 .. MaxFlight + 1
  BY SenderAssumption, CounterAssumption
     DEF IInv, TypeOK, FlightInv, TakenInv, Gone, Packet, Packets, Mcnts

\* A packet that is not out of sequence keeps the sender near the window.
LEMMA TakesFew ==
  ASSUME FlightInv, restarts = 0, Past(tx, mcnt_start)' <= MaxFlight,
         UNCHANGED <<tx, losses>>, mcnt_start' \in Nat, NEW m \in flight,
         flight' = flight \ {m}, out_of_seq_cnt' \in Nat
  PROVE  Past(tx, mcnt_start)' <= Budget'
  <1>1. PICK count \in Nat : count = Cardinality(flight')
    BY OneLess
  <1>2. PICK oos \in Nat : oos = out_of_seq_cnt'
    OBVIOUS
  <1>3. Budget' = MaxFlight + losses + count + (IF pc' = "recv" THEN oos ELSE 0)
    BY <1>1, <1>2 DEF Budget
  <1>4. PICK past \in Int : past = Past(tx, mcnt_start)'
    <2>1. PICK s \in Nat : s = mcnt_start'
      OBVIOUS
    <2>2. Past(tx, s) \in Int
      BY Bounds DEF Past, WindowEnd, FlightInv, Mcnts
    <2>3. Past(tx, mcnt_start)' = Past(tx, s)
      BY <2>1 DEF Past, WindowEnd
    <2>4. QED
      BY <2>2, <2>3
  <1>5. losses \in Nat /\ MaxFlight \in Nat
    BY Bounds DEF FlightInv
  <1>6. past <= MaxFlight
    BY <1>4
  <1>7. past <= MaxFlight + losses + count + (IF pc' = "recv" THEN oos ELSE 0)
    BY <1>5, <1>6
  <1>8. QED
    BY <1>3, <1>4, <1>7

LEMMA ExpectedKeeps ==
  ASSUME IInv, FlightInv, TakenInv, NEW m \in flight, flight' = flight \ {m},
         UNCHANGED <<tx, losses, restarts>>, ExpectedPacket(Packet(m))
  PROVE  TakenInv'
  <1> SUFFICES ASSUME restarts = 0 PROVE TakenInv'
    BY DEF TakenInv
  <1> USE DEF IInv
  <1> DEFINE nb == NextBlock(block_i)
             pb == block_for_mcnt(m)
  <1>1. /\ m \in Mcnts /\ m \in Nat /\ tx \in Mcnts /\ mcnt_start \in Nat
        /\ Packet(m) \in Packets /\ Packet(m).mcnt = m
        /\ ~Taken(m)
        /\ (tx - m) % McntMod \in 1 .. MaxFlight + 1
    BY Delivered
  <1>2. /\ block_i \in Blocks /\ nb \in Blocks /\ nb # block_i
        /\ block \in [Blocks -> InputBlock]
    BY NextBlockType DEF TypeOK
  <1>3. /\ pc = "recv" /\ block' = copy_packet(block, Packet(m))
        /\ UNCHANGED <<mcnt_start, block_i, pc>>
        /\ out_of_seq_cnt' = 0
        /\ IsExpected(Packet(m))
    BY DEF ExpectedPacket, TakePacket
  <1>4. /\ m < mcnt_start + Nm => pb = block_i /\ m % Nm = m - mcnt_start
        /\ ~(m < mcnt_start + Nm) => pb = nb /\ m % Nm = m - (mcnt_start + Nm)
    BY <1>1, <1>3, ExpectedOffset
  <1>5. m >= mcnt_start /\ m < WindowEnd(mcnt_start)
    BY <1>1, <1>3, Bounds DEF IsExpected, Dist, WindowEnd, Mcnts
  <1>6. /\ Past(tx, mcnt_start) <= MaxFlight
        /\ tx >= mcnt_start => m < tx
    BY <1>1, <1>5, NearWindow DEF Mcnts
  <1>7. /\ block'[pb].slots = block[pb].slots \cup {m % Nm}
        /\ \A b \in Blocks : b # pb => block'[b].slots = block[b].slots
    BY <1>1, <1>2, <1>3, Slots, CopyPacket
  <1> HIDE DEF nb, pb
  <1>8. ASSUME NEW x \in Mcnts, Taken(x)' PROVE Taken(x) \/ x = m
    <2>1. x \in Int
      BY DEF Mcnts
    <2>2. CASE x - mcnt_start \in block'[block_i].slots
      <3>1. CASE pb = block_i /\ x - mcnt_start = m % Nm
        BY <1>1, <1>2, <1>4, <2>1, <3>1, Bounds
      <3>2. CASE x - mcnt_start \in block[block_i].slots
        BY <1>3, <3>2 DEF Taken
      <3>3. QED
        BY <1>2, <1>7, <2>2, <3>1, <3>2
    <2>3. CASE x - (mcnt_start + Nm) \in block'[nb].slots
      <3>1. CASE pb = nb /\ x - (mcnt_start + Nm) = m % Nm
        BY <1>1, <1>2, <1>4, <2>1, <3>1, Bounds
      <3>2. CASE x - (mcnt_start + Nm) \in block[nb].slots
        BY <1>3, <3>2 DEF Taken, nb
      <3>3. QED
        BY <1>2, <1>7, <2>3, <3>1, <3>2
    <2>4. QED
      BY <1>3, <1>8, <2>2, <2>3 DEF Taken, nb, NextBlock
  <1>9. Past(tx, mcnt_start)' <= Budget'
    <2>1. Past(tx, mcnt_start)' <= MaxFlight
      BY <1>3, <1>6 DEF Past, WindowEnd
    <2>2. QED
      BY <1>1, <1>3, <2>1, TakesFew
  <1>10. ASSUME NEW x \in Mcnts, Taken(x)' PROVE Gone(x)'
    <2>1. CASE Taken(x)
      <3>1. Gone(x)
        BY <2>1 DEF TakenInv
      <3>2. QED
        BY <1>3, <1>9, <3>1 DEF Gone
    <2>2. CASE x = m
      BY <1>3, <1>6, <1>9, <2>2 DEF Gone
    <2>3. QED
      BY <1>8, <1>10, <2>1, <2>2
  <1>11. QED
    BY <1>3, <1>10 DEF TakenInv

LEMMA FillKeeps ==
  ASSUME IInv, FlightInv, TakenInv, NEW m \in flight, flight' = flight \ {m},
         UNCHANGED <<tx, losses, restarts>>, FillBlock(Packet(m))
  PROVE  TakenInv'
  <1> SUFFICES ASSUME restarts = 0 PROVE TakenInv'
    BY DEF TakenInv
  <1> USE DEF IInv
  <1> DEFINE nb == NextBlock(block_i)
             s == mcnt_start + Nm
  <1>1. /\ m \in Mcnts /\ m \in Nat /\ tx \in Mcnts /\ mcnt_start \in Nat
        /\ Packet(m).mcnt = m
        /\ ~Taken(m)
        /\ (tx - m) % McntMod \in 1 .. MaxFlight + 1
    BY Delivered
  <1>2. /\ pc = "recv" /\ pc' = "acquire" /\ block' = block
        /\ mcnt_start' = s /\ block_i' = nb /\ pkt' = Packet(m)
        /\ out_of_seq_cnt' = out_of_seq_cnt
        /\ IsExpected(Packet(m)) /\ CompletesBlock(Packet(m))
    BY DEF FillBlock
  <1>3. s \in Nat /\ m >= s /\ m < WindowEnd(s)
    BY <1>1, <1>2, Bounds, BlockAssumption
       DEF IsExpected, CompletesBlock, Dist, WindowEnd, Mcnts
  <1>4. /\ Past(tx, s) <= MaxFlight
        /\ tx >= s => m < tx
    BY <1>1, <1>3, NearWindow DEF Mcnts
  <1>5. tx >= s => tx >= mcnt_start
    BY <1>1, Bounds DEF Mcnts
  <1> HIDE DEF nb, s
  <1>6. ASSUME NEW x \in Mcnts, Taken(x)' PROVE Taken(x) \/ x = m
    <2>1. x - s \in block[nb].slots \/ x = m
      BY <1>1, <1>2, <1>6 DEF Taken
    <2>2. QED
      BY <1>2, <2>1 DEF Taken, s, nb
  <1>7. m - s \notin block[nb].slots
    BY <1>1, <1>2 DEF Taken, s, nb
  <1>8. Past(tx, mcnt_start)' <= Budget'
    <2>1. Past(tx, mcnt_start)' <= MaxFlight
      BY <1>2, <1>4 DEF Past, WindowEnd
    <2>2. out_of_seq_cnt' \in Nat
      BY <1>2, CountType DEF TypeOK
    <2>3. QED
      BY <1>2, <1>3, <2>1, <2>2, TakesFew
  <1>9. ASSUME NEW x \in Mcnts, Taken(x)' PROVE Gone(x)'
    <2>1. CASE Taken(x)
      <3>1. Gone(x)
        BY <2>1 DEF TakenInv
      <3>2. QED
        BY <1>2, <1>5, <1>8, <3>1 DEF Gone
    <2>2. CASE x = m
      BY <1>2, <1>4, <1>8, <2>2 DEF Gone
    <2>3. QED
      BY <1>6, <1>9, <2>1, <2>2
  <1>10. QED
    BY <1>1, <1>2, <1>7, <1>9 DEF TakenInv

LEMMA LateKeeps ==
  ASSUME IInv, FlightInv, TakenInv, NEW m \in flight, flight' = flight \ {m},
         UNCHANGED <<tx, losses, restarts>>, LatePacket(Packet(m))
  PROVE  TakenInv'
  <1> SUFFICES ASSUME restarts = 0 PROVE TakenInv'
    BY DEF TakenInv
  <1> USE DEF IInv
  <1>1. /\ m \in Mcnts /\ m \in Nat /\ tx \in Mcnts /\ mcnt_start \in Nat
        /\ Packet(m).mcnt = m
        /\ (tx - m) % McntMod \in 1 .. MaxFlight + 1
    BY Delivered
  <1>2. /\ UNCHANGED <<pc, pkt, block, block_i, mcnt_start, out_of_seq_cnt>>
        /\ m - mcnt_start < 0 /\ m - mcnt_start > -LATE_PKT_MCNT_THRESHOLD
    BY <1>1 DEF LatePacket, IsLate, Dist, vars
  <1>3. \A x : Taken(x)' => Taken(x)
    BY <1>2 DEF Taken
  <1>4. ASSUME NEW x \in Mcnts, Taken(x) PROVE Gone(x)'
    <2>1. Gone(x) /\ x >= mcnt_start
      BY <1>4, TakenInWindow DEF TakenInv
    <2>2. m < WindowEnd(mcnt_start)
      BY <1>1, <1>2, <2>1, Bounds DEF WindowEnd, Mcnts
    <2>3. tx < mcnt_start => ~(m < tx)
      <3>1. Past(tx, mcnt_start) <= MaxBudget
        BY <2>1, BudgetType, Bounds DEF Gone, MaxBudget
      <3>2. SUFFICES ASSUME tx < mcnt_start, m < tx PROVE FALSE
        OBVIOUS
      <3>3. m - mcnt_start <= -LATE_PKT_MCNT_THRESHOLD
        BY <1>1, <3>1, <3>2, SentSinceRollover
      <3>4. QED
        BY <1>1, <1>2, <3>3, Bounds
    <2>4. Past(tx, mcnt_start) <= MaxFlight
      BY <1>1, <2>2, <2>3, NearWindow
    <2>5. Past(tx, mcnt_start)' <= Budget'
      <3>1. Past(tx, mcnt_start)' <= MaxFlight
        BY <1>2, <2>4 DEF Past, WindowEnd
      <3>2. out_of_seq_cnt' \in Nat
        BY <1>2, CountType DEF TypeOK
      <3>3. QED
        BY <1>1, <1>2, <3>1, <3>2, TakesFew
    <2>6. QED
      BY <1>2, <2>1, <2>5 DEF Gone
  <1>5. QED
    BY <1>2, <1>3, <1>4 DEF TakenInv

LEMMA OutOfSeqKeeps ==
  ASSUME IInv, FlightInv, TakenInv, NEW m \in flight, flight' = flight \ {m},
         UNCHANGED <<tx, losses, restarts>>, OutOfSeqPacket(Packet(m))
  PROVE  TakenInv'
  <1> SUFFICES ASSUME restarts = 0 PROVE TakenInv'
    BY DEF TakenInv
  <1> USE DEF IInv
  <1>1. /\ pc = "recv" /\ out_of_seq_cnt' = out_of_seq_cnt + 1
        /\ UNCHANGED <<pc, pkt, block, block_i, mcnt_start>>
    BY DEF OutOfSeqPacket
  <1>2. Budget' = Budget
    <2>1. PICK count \in Nat : count = Cardinality(flight') /\ Cardinality(flight) = count + 1
      BY OneLess
    <2>2. Budget' = MaxFlight + losses + count + (out_of_seq_cnt + 1)
      BY <1>1, <2>1 DEF Budget
    <2>3. Budget = MaxFlight + losses + (count + 1) + out_of_seq_cnt
      BY <1>1, <2>1 DEF Budget
    <2>4. QED
      BY <2>2, <2>3, BudgetType, Bounds
  <1>3. \A x : Taken(x)' => Taken(x)
    BY <1>1 DEF Taken
  <1>4. \A x : Gone(x) => Gone(x)'
    BY <1>1, <1>2 DEF Gone, Past, WindowEnd
  <1>5. QED
    BY <1>1, <1>3, <1>4 DEF TakenInv

LEMMA ResetKeeps ==
  ASSUME IInv, NEW p \in Packets, ResetMcnt(p)
  PROVE  TakenInv'
  <1> USE DEF IInv
  <1> DEFINE start == ResetStart(p)
  <1>1. start \in Nat /\ block_for_mcnt(start) = block_i
    BY ResetKeepsBlock
  <1> HIDE DEF start
  <1>2. /\ pc = "recv" /\ pc' = "recv" /\ block_i' = block_i
        /\ block' = initialize_block(initialize_block(block, start), start + Nm)
    BY <1>1 DEF ResetMcnt, start
  <1>3. block'[block_i'].slots = {} /\ block'[NextBlock(block_i')].slots = {}
    BY <1>1, <1>2, FreshWindow
  <1>4. \A x : ~Taken(x)'
    BY <1>2, <1>3 DEF Taken, NextBlock
  <1>5. QED
    BY <1>2, <1>4 DEF TakenInv

LEMMA AcquireSecondKeeps ==
  ASSUME IInv, AcquireSecond
  PROVE  TakenInv'
  <1> USE DEF IInv
  <1>1. block_i = 0 /\ block_for_mcnt(0) = 0 /\ 0 + Nm = Nm /\ 0 \in Nat
    <2>1. block_i = 0 /\ block_for_mcnt(0) = 0
      BY AtZero DEF AcquireSecond, WindowInv
    <2>2. 0 + Nm = Nm
      BY Bounds
    <2>3. QED
      BY <2>1, <2>2
  <1>2. /\ pc' = "recv" /\ block_i' = block_i
        /\ block' = initialize_block(initialize_block(block, 0), 0 + Nm)
    BY <1>1 DEF AcquireSecond, binfo
  <1>3. block'[block_i'].slots = {} /\ block'[NextBlock(block_i')].slots = {}
    BY <1>1, <1>2, FreshWindow
  <1>4. \A x : ~Taken(x)'
    BY <1>2, <1>3 DEF Taken, NextBlock
  <1>5. QED
    BY <1>2, <1>4 DEF TakenInv

\* The packet in hand goes to the current block, the next one is emptied.
LEMMA NextAcquired ==
  ASSUME IInv, AcquireNext, SidVerdicts = {TRUE}
  PROVE  /\ pkt = Packet(pkt.mcnt) /\ pkt.mcnt \in Mcnts
         /\ pkt.mcnt % Nm = pkt.mcnt - mcnt_start
         /\ block'[block_i].slots = block[block_i].slots \cup {pkt.mcnt - mcnt_start}
         /\ block'[block_i].missed = (block[block_i].missed - 1) % WordMod
         /\ block'[NextBlock(block_i)].slots = {} /\ block'[NextBlock(block_i)].missed = Nm
         /\ \A b \in Blocks \ {block_i, NextBlock(block_i)} : block'[b] = block[b]
  <1> USE DEF IInv
  <1> DEFINE nb == NextBlock(block_i)
             bi == initialize_block(block, pkt.mcnt + Nm)
  <1>1. /\ pc = "acquire" /\ pkt \in Packets /\ pkt.mcnt \in Mcnts /\ pkt.mcnt \in Nat
        /\ pkt = Packet(pkt.mcnt)
    <2>1. pc = "acquire" /\ pkt \in Packets
      BY DEF AcquireNext, WindowInv
    <2>2. pkt.mcnt \in Mcnts /\ pkt.mcnt \in Nat /\ pkt.sid_ok = TRUE
      <3>1. pkt.mcnt \in Mcnts /\ pkt.sid_ok \in SidVerdicts
        BY <2>1 DEF Packets
      <3>2. pkt.sid_ok = TRUE
        BY <3>1
      <3>3. pkt.mcnt \in Nat
        BY <3>1, CounterAssumption DEF Mcnts
      <3>4. QED
        BY <3>1, <3>2, <3>3
    <2>3. pkt = [mcnt |-> pkt.mcnt, sid_ok |-> pkt.sid_ok]
      BY <2>1 DEF Packets
    <2>4. QED
      BY <2>1, <2>2, <2>3 DEF Packet
  <1>2. /\ block_i \in Blocks /\ nb \in Blocks /\ nb # block_i
        /\ block \in [Blocks -> InputBlock]
    BY NextBlockType DEF TypeOK
  <1>3. /\ mcnt_start \in Nat /\ mcnt_start % Nm = 0
        /\ pkt.mcnt \in mcnt_start .. mcnt_start + Nm - 1
    BY <1>1 DEF WindowInv, TypeOK
  <1>4. block_for_mcnt(pkt.mcnt) = block_i /\ pkt.mcnt - (pkt.mcnt % Nm) = mcnt_start
    BY <1>3, SameBlock DEF WindowInv
  <1>5. pkt.mcnt % Nm = pkt.mcnt - mcnt_start
    BY <1>1, <1>3, <1>4, Remainders
  <1>6. pkt.mcnt + Nm \in Nat /\ block_for_mcnt(pkt.mcnt + Nm) = nb
    BY <1>1, <1>4, BlockForMcnt, BlockAssumption
  <1>7. /\ bi \in [Blocks -> InputBlock]
        /\ bi[nb].slots = {} /\ bi[nb].missed = Nm
        /\ \A b \in Blocks : b # nb => bi[b] = block[b]
    BY <1>2, <1>6, InitializeBlock, Slots
  <1>8. block' = copy_packet(bi, pkt)
    BY DEF AcquireNext, TakePacket
  <1> HIDE DEF bi, nb
  <1>9. /\ block'[block_i].slots = bi[block_i].slots \cup {pkt.mcnt % Nm}
        /\ block'[block_i].missed = (bi[block_i].missed - 1) % WordMod
        /\ \A b \in Blocks : b # block_i => block'[b] = bi[b]
    BY <1>1, <1>4, <1>7, <1>8, Slots, CopyPacket
  <1>10. QED
    BY <1>1, <1>2, <1>5, <1>7, <1>9 DEF nb

LEMMA AcquireNextKeeps ==
  ASSUME IInv, FlightInv, TakenInv, AcquireNext, UNCHANGED net
  PROVE  TakenInv'
  <1> SUFFICES ASSUME restarts = 0 PROVE TakenInv'
    BY DEF TakenInv, net
  <1> USE DEF IInv
  <1>1. /\ pkt.mcnt \in Mcnts
        /\ block'[block_i].slots = block[block_i].slots \cup {pkt.mcnt - mcnt_start}
        /\ block'[NextBlock(block_i)].slots = {}
    BY NextAcquired, SenderAssumption
  <1>2. /\ pc = "acquire" /\ pc' = "recv" /\ out_of_seq_cnt' = 0
        /\ UNCHANGED <<mcnt_start, block_i, tx, flight, losses, restarts>>
    BY DEF AcquireNext, TakePacket, net
  <1>3. Budget' = Budget
    <2>1. Budget' = MaxFlight + losses + Cardinality(flight) + 0
      BY <1>2 DEF Budget
    <2>2. Budget = MaxFlight + losses + Cardinality(flight) + 0
      BY <1>2 DEF Budget
    <2>3. QED
      BY <2>1, <2>2
  <1>4. ASSUME NEW x \in Mcnts, Taken(x)' PROVE Taken(x)
    <2>1. x - mcnt_start \in block'[block_i].slots
      BY <1>1, <1>2, <1>4 DEF Taken, NextBlock
    <2>2. x \in Int /\ pkt.mcnt \in Int /\ mcnt_start \in Nat
      BY <1>1 DEF Mcnts, TypeOK
    <2>3. CASE x - mcnt_start = pkt.mcnt - mcnt_start
      BY <1>2, <2>2, <2>3 DEF Taken
    <2>4. CASE x - mcnt_start \in block[block_i].slots
      BY <1>2, <2>4 DEF Taken
    <2>5. QED
      BY <1>1, <2>1, <2>3, <2>4
  <1>5. \A x : Gone(x) => Gone(x)'
    BY <1>2, <1>3 DEF Gone, Past, WindowEnd
  <1>6. QED
    BY <1>2, <1>4, <1>5 DEF TakenInv

LEMMA TakenStep ==
  IInv /\ FlightInv /\ TakenInv /\ [StreamNext]_<<vars, net>> => TakenInv'
  <1> SUFFICES ASSUME IInv, FlightInv, TakenInv, [StreamNext]_<<vars, net>>
               PROVE  TakenInv'
    OBVIOUS
  <1>1. CASE Send
    BY <1>1, SendKeeps
  <1>2. ASSUME NEW m \in Mcnts, Deliver(m) PROVE TakenInv'
    <2>1. /\ m \in flight /\ flight' = flight \ {m} /\ UNCHANGED <<tx, losses, restarts>>
          /\ ProcessPacket(Packet(m))
      BY <1>2 DEF Deliver
    <2>2. Packet(m) \in Packets
      BY SenderAssumption DEF Packet, Packets
    <2>3. QED
      BY <2>1, <2>2, ExpectedKeeps, FillKeeps, LateKeeps, OutOfSeqKeeps, ResetKeeps
         DEF ProcessPacket
  <1>3. ASSUME NEW m \in Mcnts, Lose(m) PROVE TakenInv'
    BY <1>3, LoseKeeps
  <1>4. CASE Restart
    <2>1. restarts' # 0
      BY <1>4 DEF Restart, FlightInv
    <2>2. QED
      BY <2>1 DEF TakenInv
  <1>5. CASE RingStep
    <2>1. UNCHANGED net
      BY <1>5 DEF RingStep
    <2>2. CASE AcquireFirst
      BY <2>2 DEF AcquireFirst, TakenInv, Taken
    <2>3. CASE AcquireSecond
      BY <2>3, AcquireSecondKeeps
    <2>4. CASE AcquireNext
      BY <2>1, <2>4, AcquireNextKeeps
    <2>5. ASSUME NEW b \in Blocks, FreeBlock(b) PROVE TakenInv'
      BY <2>1, <2>5
         DEF FreeBlock, binfo, net, TakenInv, Taken, Gone, Past, WindowEnd, Budget
    <2>6. QED
      BY <1>5, <2>2, <2>3, <2>4, <2>5 DEF RingStep
  <1>6. CASE UNCHANGED <<vars, net>>
    BY <1>6 DEF vars, net, TakenInv, Taken, Gone, Past, WindowEnd, Budget
  <1>7. QED
    BY <1>1, <1>2, <1>3, <1>4, <1>5, <1>6 DEF StreamNext

-----------------------------------------------------------------------------
(* One sender: the losses reported are the gaps.                           *)

Counted(blk) == blk.missed = Nm - Cardinality(blk.slots)

\* The blocks whose contents somebody relies on.
InUse(b) ==
  \/ sem[b] = 1
  \/ pc \in {"recv", "acquire"} /\ b = block_i
  \/ pc = "recv" /\ b = NextBlock(block_i)

GapsInv == restarts = 0 => \A b \in Blocks : InUse(b) => Counted(block[b])

LEMMA EmptyCounted ==
  ASSUME NEW blk, blk.slots = {}, blk.missed = Nm
  PROVE  Counted(blk)
  BY FS_EmptySet, Bounds DEF Counted

\* A packet at an offset that was free is one loss less.
LEMMA TakeCounted ==
  ASSUME NEW blk \in InputBlock, Counted(blk), NEW new, NEW o \in 0 .. Nm-1,
         o \notin blk.slots,
         new.slots = blk.slots \cup {o}, new.missed = (blk.missed - 1) % WordMod
  PROVE  Counted(new)
  <1> DEFINE size == Cardinality(blk.slots)
  <1>1. blk.slots \subseteq 0 .. Nm-1
    BY DEF InputBlock
  <1>2. IsFiniteSet(0 .. Nm-1) /\ Cardinality(0 .. Nm-1) = Nm
    BY FS_Interval, Bounds, 0 \in Int, Nm - 1 \in Int
  <1>3. IsFiniteSet(blk.slots) /\ size \in Nat
    BY <1>1, <1>2, FS_Subset, FS_CardinalityType
  <1>4. Cardinality(new.slots) = size + 1
    BY <1>3, FS_AddElement
  <1>5. new.slots \subseteq 0 .. Nm-1
    BY <1>1
  <1>6. size + 1 <= Nm
    <2>1. Cardinality(new.slots) <= Cardinality(0 .. Nm-1)
      BY <1>2, <1>5, FS_Subset
    <2>2. QED
      BY <1>2, <1>4, <2>1
  <1>7. blk.missed = Nm - size
    BY DEF Counted
  <1> HIDE DEF size
  <1>8. (Nm - size) - 1 \in 0 .. WordMod-1
    BY <1>3, <1>6, Bounds, WordAssumption
  <1>9. ((Nm - size) - 1) % WordMod = (Nm - size) - 1
    <2>1. (Nm - size) - 1 = (WordMod * 0) + ((Nm - size) - 1)
      BY <1>3, Bounds, WordAssumption
    <2>2. QED
      BY <1>8, <2>1, DivModUnique, Positive, 0 \in Int
  <1>10. (Nm - size) - 1 = Nm - (size + 1)
    BY <1>3, Bounds
  <1>11. QED
    BY <1>4, <1>7, <1>9, <1>10 DEF Counted

LEMMA ExpectedCounts ==
  ASSUME IInv, FlightInv, TakenInv, GapsInv, restarts = 0, NEW m \in flight,
         ExpectedPacket(Packet(m))
  PROVE  \A b \in Blocks : InUse(b)' => Counted(block'[b])
  <1> USE DEF IInv
  <1> DEFINE pb == block_for_mcnt(m)
             nb == NextBlock(block_i)
  <1>1. /\ m \in Nat /\ mcnt_start \in Nat /\ Packet(m) \in Packets /\ Packet(m).mcnt = m
        /\ ~Taken(m)
    BY Delivered
  <1>2. /\ block_i \in Blocks /\ nb \in Blocks /\ nb # block_i
        /\ block \in [Blocks -> InputBlock]
    BY NextBlockType DEF TypeOK
  <1>3. /\ pc = "recv" /\ block' = copy_packet(block, Packet(m))
        /\ UNCHANGED <<block_i, pc, sem>> /\ IsExpected(Packet(m))
    BY DEF ExpectedPacket, TakePacket
  <1>4. /\ m < mcnt_start + Nm => pb = block_i /\ m % Nm = m - mcnt_start
        /\ ~(m < mcnt_start + Nm) => pb = nb /\ m % Nm = m - (mcnt_start + Nm)
    BY <1>1, <1>3, ExpectedOffset
  <1>5. m % Nm \notin block[pb].slots /\ pb \in {block_i, nb}
    BY <1>1, <1>3, <1>4 DEF Taken
  <1>6. /\ block'[pb].slots = block[pb].slots \cup {m % Nm}
        /\ block'[pb].missed = (block[pb].missed - 1) % WordMod
        /\ \A b \in Blocks : b # pb => block'[b] = block[b]
    BY <1>1, <1>2, <1>3, Slots, CopyPacket
  <1>7. m % Nm \in 0 .. Nm-1
    BY <1>1, Remainders
  <1> HIDE DEF pb
  <1>8. \A b \in Blocks : InUse(b)' => InUse(b)
    BY <1>3 DEF InUse
  <1>9. Counted(block[pb]) /\ pb \in Blocks
    BY <1>2, <1>3, <1>5 DEF GapsInv, InUse, nb
  <1>10. Counted(block'[pb])
    BY <1>2, <1>5, <1>6, <1>7, <1>9, TakeCounted
  <1>11. QED
    BY <1>6, <1>8, <1>10 DEF GapsInv

LEMMA NextCounts ==
  ASSUME IInv, TakenInv, GapsInv, restarts = 0, AcquireNext
  PROVE  \A b \in Blocks : InUse(b)' => Counted(block'[b])
  <1> USE DEF IInv
  <1> DEFINE nb == NextBlock(block_i)
             o == pkt.mcnt - mcnt_start
  <1>1. /\ pkt.mcnt \in Mcnts /\ pkt.mcnt % Nm = o
        /\ block'[block_i].slots = block[block_i].slots \cup {o}
        /\ block'[block_i].missed = (block[block_i].missed - 1) % WordMod
        /\ block'[nb].slots = {} /\ block'[nb].missed = Nm
        /\ \A b \in Blocks \ {block_i, nb} : block'[b] = block[b]
    BY NextAcquired, SenderAssumption
  <1>2. /\ block_i \in Blocks /\ nb \in Blocks /\ nb # block_i
        /\ block \in [Blocks -> InputBlock]
    BY NextBlockType DEF TypeOK
  <1>3. pc = "acquire" /\ UNCHANGED <<sem, block_i>>
    BY DEF AcquireNext
  <1>4. o \in 0 .. Nm-1
    <2>1. pkt.mcnt % Nm \in 0 .. Nm-1
      BY <1>1, Remainders DEF Mcnts
    <2>2. QED
      BY <1>1, <2>1
  <1>5. o \notin block[block_i].slots
    BY <1>3 DEF TakenInv
  <1> HIDE DEF o
  <1>6. Counted(block[block_i])
    BY <1>2, <1>3 DEF GapsInv, InUse
  <1>7. Counted(block'[block_i])
    BY <1>1, <1>2, <1>4, <1>5, <1>6, TakeCounted
  <1>8. Counted(block'[nb])
    BY <1>1, EmptyCounted
  <1>9. ASSUME NEW b \in Blocks \ {block_i, nb}, InUse(b)' PROVE Counted(block'[b])
    <2>1. InUse(b)
      BY <1>3, <1>9 DEF InUse, NextBlock
    <2>2. QED
      BY <1>1, <2>1 DEF GapsInv
  <1>10. QED
    BY <1>7, <1>8, <1>9

\* Both blocks held are emptied, by a reset or at the start.
LEMMA FreshCounts ==
  ASSUME IInv, GapsInv, restarts = 0, UNCHANGED <<sem, block_i>>,
         NEW m \in Nat, block_for_mcnt(m) = block_i,
         block' = initialize_block(initialize_block(block, m), m + Nm)
  PROVE  \A b \in Blocks : InUse(b)' => Counted(block'[b])
  <1> USE DEF IInv
  <1>1. /\ block'[block_i].slots = {} /\ block'[block_i].missed = Nm
        /\ block'[NextBlock(block_i)].slots = {} /\ block'[NextBlock(block_i)].missed = Nm
        /\ \A b \in Blocks \ {block_i, NextBlock(block_i)} : block'[b] = block[b]
    BY FreshWindow
  <1>2. Counted(block'[block_i]) /\ Counted(block'[NextBlock(block_i)])
    BY <1>1, EmptyCounted
  <1>3. ASSUME NEW b \in Blocks \ {block_i, NextBlock(block_i)}, InUse(b)'
        PROVE  Counted(block'[b])
    <2>1. sem[b] = 1
      BY <1>3 DEF InUse, NextBlock
    <2>2. QED
      BY <1>1, <2>1 DEF GapsInv, InUse
  <1>4. QED
    BY <1>2, <1>3

LEMMA GapsStep ==
  IInv /\ FlightInv /\ TakenInv /\ GapsInv /\ [StreamNext]_<<vars, net>> => GapsInv'
  <1> SUFFICES ASSUME IInv, FlightInv, TakenInv, GapsInv, [StreamNext]_<<vars, net>>,
                      restarts' = 0
               PROVE  \A b \in Blocks : InUse(b)' => Counted(block'[b])
    BY DEF GapsInv, Counted
  <1> USE DEF IInv
  <1>1. restarts = 0
    BY DEF StreamNext, Send, Deliver, Lose, Restart, RingStep, net, FlightInv
  <1>2. CASE UNCHANGED <<block, block_i, sem, pc>>
    BY <1>1, <1>2 DEF GapsInv, InUse
  <1>3. ASSUME NEW m \in Mcnts, Deliver(m)
        PROVE  \A b \in Blocks : InUse(b)' => Counted(block'[b])
    <2>1. m \in flight /\ ProcessPacket(Packet(m)) /\ Packet(m) \in Packets
      BY <1>3, SenderAssumption DEF Deliver, Packet, Packets
    <2>2. CASE ExpectedPacket(Packet(m))
      BY <1>1, <2>1, <2>2, ExpectedCounts
    <2>3. CASE FillBlock(Packet(m))
      <3>1. /\ pc = "recv" /\ pc' = "acquire" /\ block_i' = NextBlock(block_i)
            /\ sem' = [sem EXCEPT ![block_i] = 1] /\ block' = block
        BY <2>3 DEF FillBlock, set_block_filled, WindowInv
      <3>2. \A b \in Blocks : InUse(b)' => InUse(b)
        BY <3>1 DEF InUse, TypeOK
      <3>3. QED
        BY <1>1, <3>1, <3>2 DEF GapsInv
    <2>4. CASE LatePacket(Packet(m))
      BY <1>2, <2>4 DEF LatePacket, vars
    <2>5. CASE OutOfSeqPacket(Packet(m))
      BY <1>2, <2>5 DEF OutOfSeqPacket
    <2>6. CASE ResetMcnt(Packet(m))
      <3> DEFINE start == ResetStart(Packet(m))
      <3>1. start \in Nat /\ block_for_mcnt(start) = block_i
        BY <2>1, ResetKeepsBlock
      <3> HIDE DEF start
      <3>2. /\ UNCHANGED <<sem, block_i>>
            /\ block' = initialize_block(initialize_block(block, start), start + Nm)
        BY <2>6, <3>1 DEF ResetMcnt, start
      <3>3. QED
        BY <1>1, <3>1, <3>2, FreshCounts
    <2>7. QED
      BY <2>1, <2>2, <2>3, <2>4, <2>5, <2>6 DEF ProcessPacket
  <1>4. CASE RingStep
    <2>1. CASE AcquireFirst
      BY <1>1, <2>1 DEF AcquireFirst, binfo, GapsInv, InUse
    <2>2. CASE AcquireSecond
      <3>1. block_for_mcnt(0) = block_i /\ 0 \in Nat
        BY <2>2, AtZero DEF AcquireSecond, WindowInv
      <3>2. 0 + Nm = Nm
        BY Bounds
      <3>3. /\ UNCHANGED <<sem, block_i>>
            /\ block' = initialize_block(initialize_block(block, 0), 0 + Nm)
        BY <2>2, <3>2 DEF AcquireSecond, binfo
      <3>4. QED
        BY <1>1, <3>1, <3>3, FreshCounts
    <2>3. CASE AcquireNext
      BY <1>1, <2>3, NextCounts
    <2>4. ASSUME NEW b \in Blocks, FreeBlock(b)
          PROVE  \A c \in Blocks : InUse(c)' => Counted(block'[c])
      <3>1. sem' = [sem EXCEPT ![b] = 0] /\ UNCHANGED <<block, block_i, pc>>
        BY <2>4 DEF FreeBlock, binfo
      <3>2. \A c \in Blocks : InUse(c)' => InUse(c)
        BY <3>1 DEF InUse, TypeOK
      <3>3. QED
        BY <1>1, <3>1, <3>2 DEF GapsInv
    <2>5. QED
      BY <1>4, <2>1, <2>2, <2>3, <2>4 DEF RingStep
  <1>5. QED
    BY <1>2, <1>3, <1>4 DEF StreamNext, Send, Lose, Restart, vars

\* The losses that the header of a block reports are exactly the gaps in its
\* data: no packet of a sender that is not restarted is counted in a block
\* that already has it, through reordering, loss, the rollover of the counter
\* and the resets that follow it.
THEOREM GapsReported == StreamSpec => []MissedIsGaps
  <1>1. StreamInit => IInv /\ FlightInv /\ TakenInv /\ GapsInv
    <2> SUFFICES ASSUME StreamInit PROVE IInv /\ FlightInv /\ TakenInv /\ GapsInv
      OBVIOUS
    <2>2. IInv
      BY InitInv DEF StreamInit
    <2>3. FlightInv
      BY CounterAssumption, FaultAssumption DEF StreamInit, FlightInv, Mcnts
    <2>4. TakenInv /\ GapsInv
      BY DEF StreamInit, Init, TakenInv, Taken, GapsInv, InUse
    <2>5. QED
      BY <2>2, <2>3, <2>4
  <1>2. IInv /\ [StreamNext]_<<vars, net>> => IInv'
    BY StepInv, StreamStep
  <1>3. GapsInv => MissedIsGaps
    BY DEF GapsInv, InUse, Counted, MissedIsGaps
  <1>4. QED
    BY <1>1, <1>2, <1>3, FlightStep, TakenStep, GapsStep, PTL DEF StreamSpec
=============================================================================
