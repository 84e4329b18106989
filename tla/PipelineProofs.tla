--------------------------- MODULE PipelineProofs ---------------------------
(***************************************************************************)
(* Theorems about the GPU thread and its neighbours.                       *)
(*                                                                         *)
(* Module Pipeline: the types, that blocks are recorded whole and in       *)
(* order, how recent the ADCRMS recorded with them is, that the three      *)
(* threads with their two rings implement BlockFifo, and that they never   *)
(* wait for each other all round.                                          *)
(*                                                                         *)
(* Module GpuShare, the semaphore between the GPU threads of several       *)
(* instances: the types, and that the GPU is used by one at a time.        *)
(***************************************************************************)
EXTENDS Pipeline, GpuShare, Arithmetic, SequenceTheorems, TLAPS

\* The stamp of the block with number s.
Stamp(s) == s % StampMod

\* How far a block is ahead of the GPU thread in the input ring, and of the
\* output thread in the output ring.
AheadIn(b) == RingAhead(N_INPUT_BLOCKS, gpu_in, b)
AheadOut(b) == RingAhead(N_OUTPUT_BLOCKS, block_idx, b)

\* The GPU thread has handed on the block at gpu_in and not freed it yet.
Handed == IF gpu_pc = "set_free" THEN 1 ELSE 0

\* z is the number of the block the output thread comes to next, m how many
\* blocks the output ring holds for it, n how many the input ring holds for
\* the GPU thread.  The first of these has the number:
AtGpu(z, m) == z + m - Handed

\* The input ring: the n blocks ahead of the GPU thread are filled, and they
\* and the network thread's own bear consecutive numbers.
InputWindow(z, m, n) ==
  /\ AheadIn(net_i) = n
  /\ \A b \in InBlocks :
       /\ sem_in[b] = 1 <=> AheadIn(b) < n
       /\ AheadIn(b) < n => in_block[b] = Stamp(AtGpu(z, m) + AheadIn(b))
  /\ net_pc \in {"acquire0", "acquire1"} => net_i = 0 /\ n = 0 /\ AtGpu(z, m) = 0
  /\ net_pc \in {"recv", "acquire"} => in_block[net_i] = Stamp(AtGpu(z, m) + n)
  /\ net_pc = "recv" =>
       /\ n + 2 <= N_INPUT_BLOCKS
       /\ in_block[(net_i + 1) % N_INPUT_BLOCKS] = Stamp(AtGpu(z, m) + n + 1)
  /\ gpu_pc \notin {"top", "wait_filled", "done"} => n > 0

\* The output ring: the m blocks ahead of the output thread are filled, whole
\* and consecutive, and the GPU thread works on the next.
OutputWindow(z, m) ==
  /\ AheadOut(gpu_out) = IF m = N_OUTPUT_BLOCKS THEN 0 ELSE m
  /\ \A b \in OutBlocks :
       /\ sem_out[b] = 1 <=> AheadOut(b) < m
       /\ AheadOut(b) < m =>
            out_block[b] = [header |-> Stamp(z + AheadOut(b)),
                            hits |-> Stamp(z + AheadOut(b))]
  /\ gpu_pc \in {"header", "spectroscopy", "set_filled"} => m < N_OUTPUT_BLOCKS
  /\ gpu_pc \in {"spectroscopy", "set_filled"} =>
       out_block[gpu_out].header = Stamp(z + m)
  /\ gpu_pc = "set_filled" => out_block[gpu_out].hits = Stamp(z + m)
  /\ out_pc \in {"write", "set_free"} => m > 0

\* What the threads last computed and recorded.
Latest(z, m) ==
  /\ gpu_pc = "set_filled" => ADCRMS = Stamp(z + m)
  /\ gpu_pc # "set_filled" /\ z + m > 0 => ADCRMS = Stamp(z + m - 1)
  /\ out_pc = "write" => \E k \in 0 .. N_OUTPUT_BLOCKS-1 : rms = Stamp(z + k)
  /\ out_pc = "set_free" => recorded = [header |-> Stamp(z), hits |-> Stamp(z)]
  /\ out_pc # "set_free" =>
       recorded = IF z = 0 THEN EmptyBlock
                  ELSE [header |-> Stamp(z - 1), hits |-> Stamp(z - 1)]

Windows(z, m, n) ==
  InputWindow(z, m, n) /\ OutputWindow(z, m) /\ Latest(z, m)

PipeInv ==
  /\ TypeOK
  /\ \E z \in Nat, m \in 0 .. N_OUTPUT_BLOCKS, n \in 0 .. N_INPUT_BLOCKS-1 :
       Windows(z, m, n)

\* A block is recorded whole, and it is the one after the block recorded last.
RecordsInOrder ==
  [][recorded' # recorded =>
       /\ recorded'.header = recorded'.hits
       /\ recorded'.header =
            IF recorded = EmptyBlock THEN 0 ELSE (recorded.header + 1) % StampMod]_vars

-----------------------------------------------------------------------------
(* The rings and the stamps.                                               *)

LEMMA Sizes ==
  /\ N_INPUT_BLOCKS \in Nat \ {0} /\ N_INPUT_BLOCKS >= 3
  /\ N_OUTPUT_BLOCKS \in Nat \ {0}
  /\ StampMod \in Nat \ {0} /\ StampMod > 3
  BY InputAssumption, OutputAssumption, StampAssumption

LEMMA NextBlockType ==
  /\ \A b \in InBlocks : (b + 1) % N_INPUT_BLOCKS \in InBlocks
  /\ \A b \in OutBlocks : (b + 1) % N_OUTPUT_BLOCKS \in OutBlocks
  /\ 0 \in InBlocks /\ 1 \in InBlocks /\ 0 \in OutBlocks
  BY Sizes, RingNext DEF InBlocks, OutBlocks

LEMMA StampType ==
  ASSUME NEW s \in Int
  PROVE  Stamp(s) \in Stamps /\ Stamp(s) # None
  BY Sizes, DivMod DEF Stamp, Stamps, None

LEMMA NextStamp ==
  ASSUME NEW s \in Int
  PROVE  (Stamp(s) + 1) % StampMod = Stamp(s + 1)
  <1>1. ((s % StampMod) + 1) % StampMod = (s + 1) % StampMod
    BY 1 \in Int, Sizes, ModOfSum
  <1> QED
    BY <1>1 DEF Stamp

LEMMA FirstStamps == Stamp(0) = 0 /\ Stamp(1) = 1
  <1>1. 0 = (StampMod * 0) + 0 /\ 1 = (StampMod * 0) + 1
    BY Sizes
  <1> QED
    BY <1>1, Sizes, DivModUnique DEF Stamp

-----------------------------------------------------------------------------
(* The types.                                                              *)

LEMMA PipeTypeInit == Init => TypeOK
  BY NextBlockType DEF Init, TypeOK, Net!Init, Net!Blocks, InBlocks, OutBlocks,
                       None, EmptyBlock

LEMMA PipeTypeStep ==
  ASSUME TypeOK, [Next]_vars
  PROVE  TypeOK'
  <1> USE DEF TypeOK
  <1>1. CASE NetAcquire
    <2>1. 0 \in Stamps /\ 1 \in Stamps
      BY Sizes DEF Stamps
    <2> QED
      BY <1>1, <2>1 DEF NetAcquire, Net!AcquireFirst, Net!AcquireSecond, out
  <1>2. CASE NetFill
    BY <1>2, NextBlockType DEF NetFill, Net!Fill, Net!After, out
  <1>3. CASE NetAcquireNext
    <2>1. in_block[net_i] \in Int
      BY DEF Stamps, None
    <2>2. (in_block[net_i] + 1) % StampMod \in Stamps
      BY <2>1, StampType DEF Stamp
    <2> QED
      BY <1>3, <2>2 DEF NetAcquireNext, Net!AcquireNext, out
  <1>4. CASE GpuLoop \/ GpuTakeInput \/ GpuTakeOutput
    BY <1>4 DEF GpuLoop, GpuTakeInput, GpuTakeOutput, net, out
  <1>5. CASE GpuCopyHeader \/ GpuSpectroscopy
    BY <1>5 DEF GpuCopyHeader, GpuSpectroscopy, net, out
  <1>6. CASE GpuSetFilled
    BY <1>6, NextBlockType DEF GpuSetFilled, NextOut, net, out
  <1>7. CASE GpuSetFree
    BY <1>7, NextBlockType DEF GpuSetFree, NextIn, Net!Free, out
  <1>8. CASE OutLoop \/ OutTake \/ OutWrite
    BY <1>8 DEF OutLoop, OutTake, OutWrite, net
  <1>9. CASE OutSetFree
    BY <1>9, NextBlockType DEF OutSetFree, EmptyBlock, net
  <1>10. CASE Stop \/ Cancel
    BY <1>10 DEF Stop, Cancel, net, out
  <1>11. CASE UNCHANGED vars
    BY <1>11 DEF vars, net, out
  <1> QED
    BY <1>1, <1>2, <1>3, <1>4, <1>5, <1>6, <1>7, <1>8, <1>9, <1>10, <1>11
    DEF Next, NetStep, GpuStep, OutStep

\* The variables of the three threads keep to their types, for every size of
\* the two rings.
THEOREM PipelineTypeCorrect == Spec => []TypeOK
  <1> QED
    BY PipeTypeInit, PipeTypeStep, PTL DEF Spec

-----------------------------------------------------------------------------
(* The windows.                                                            *)

\* A state of the invariant with its numbers.
Numbered(z, m, n) ==
  /\ TypeOK
  /\ z \in Nat /\ m \in 0 .. N_OUTPUT_BLOCKS /\ n \in 0 .. N_INPUT_BLOCKS-1
  /\ Windows(z, m, n)

LEMMA AheadTypes ==
  ASSUME TypeOK
  PROVE  /\ \A b \in InBlocks : /\ AheadIn(b) \in InBlocks
                                /\ AheadIn(b) = 0 <=> b = gpu_in
                                /\ \A c \in InBlocks : AheadIn(b) = AheadIn(c) => b = c
         /\ \A b \in OutBlocks : /\ AheadOut(b) \in OutBlocks
                                 /\ AheadOut(b) = 0 <=> b = block_idx
                                 /\ \A c \in OutBlocks : AheadOut(b) = AheadOut(c) => b = c
  <1>1. gpu_in \in 0 .. N_INPUT_BLOCKS-1 /\ block_idx \in 0 .. N_OUTPUT_BLOCKS-1
    BY DEF TypeOK, InBlocks, OutBlocks
  <1>2. ASSUME NEW b \in InBlocks
        PROVE  /\ AheadIn(b) \in InBlocks
               /\ AheadIn(b) = 0 <=> b = gpu_in
               /\ \A c \in InBlocks : AheadIn(b) = AheadIn(c) => b = c
    BY <1>1, Sizes, RingAheadType DEF InBlocks, AheadIn
  <1>3. ASSUME NEW b \in OutBlocks
        PROVE  /\ AheadOut(b) \in OutBlocks
               /\ AheadOut(b) = 0 <=> b = block_idx
               /\ \A c \in OutBlocks : AheadOut(b) = AheadOut(c) => b = c
    BY <1>1, Sizes, RingAheadType DEF OutBlocks, AheadOut
  <1> QED
    BY <1>2, <1>3

LEMMA NumberTypes ==
  ASSUME NEW z, NEW m, NEW n, Numbered(z, m, n)
  PROVE  /\ z \in Int /\ m \in Int /\ n \in Int /\ n >= 0 /\ m >= 0 /\ z >= 0
         /\ AtGpu(z, m) \in Int
         /\ Handed = 0 => AtGpu(z, m) = z + m
         /\ Handed = 1 => AtGpu(z, m) + 1 = z + m
         /\ Handed = 1 <=> gpu_pc = "set_free"
         /\ Handed \in {0, 1}
  BY Sizes DEF Numbered, AtGpu, Handed

\* The network thread holds its blocks beyond the ones the GPU thread has still
\* to process.
LEMMA NetKeeps ==
  ASSUME NEW z, NEW m, NEW n, Numbered(z, m, n), NetStep
  PROVE  IF NetFill THEN n + 2 <= N_INPUT_BLOCKS /\ Windows(z, m, n + 1)'
                    ELSE Windows(z, m, n)'
  <1> DEFINE g == AtGpu(z, m)
             nx == (net_i + 1) % N_INPUT_BLOCKS
  <1>1. /\ TypeOK /\ InputWindow(z, m, n) /\ OutputWindow(z, m) /\ Latest(z, m)
        /\ n \in Int /\ n \in 0 .. N_INPUT_BLOCKS-1 /\ g \in Int
    BY NumberTypes DEF Numbered, Windows
  <1>2. /\ net_i \in InBlocks /\ nx \in InBlocks /\ gpu_in \in InBlocks
        /\ in_block \in [InBlocks -> Stamps \cup {None}]
        /\ sem_in \in [InBlocks -> {0, 1}]
    BY <1>1, NextBlockType DEF TypeOK
  <1>3. UNCHANGED <<sem_out, out_block, gpu_in, gpu_out, gpu_pc, ADCRMS, out>>
    BY DEF NetStep, NetAcquire, NetFill, NetAcquireNext
  <1>4. OutputWindow(z, m)' /\ Latest(z, m)'
    BY <1>1, <1>3 DEF OutputWindow, Latest, AheadOut, out
  <1>5. /\ AtGpu(z, m)' = g
        /\ \A b \in InBlocks : AheadIn(b)' = AheadIn(b) /\ AheadIn(b) \in InBlocks
    BY <1>1, <1>3, AheadTypes DEF AtGpu, Handed, AheadIn
  <1>6. AheadIn(net_i) = n
    BY <1>1 DEF InputWindow
  <1>7. AheadIn(nx) = IF n = N_INPUT_BLOCKS - 1 THEN 0 ELSE n + 1
    BY <1>2, <1>6, Sizes, RingAheadNext DEF AheadIn, InBlocks
  <1>8. \A b \in InBlocks : AheadIn(b) < n + 1 <=> (AheadIn(b) < n \/ b = net_i)
    <2>1. \A b \in InBlocks : AheadIn(b) = n <=> b = net_i
      BY <1>1, <1>2, <1>6, AheadTypes
    <2> QED
      BY <1>1, <1>5, <2>1, Sizes DEF InBlocks
  <1>9. ASSUME Net!AcquireFirst, UNCHANGED in_block
        PROVE  InputWindow(z, m, n)'
    BY <1>1, <1>3, <1>5, <1>9, <1>6 DEF InputWindow, Net!AcquireFirst, AheadIn
  <1>10. ASSUME in_block' = [in_block EXCEPT ![0] = 0, ![1] = 1], Net!AcquireSecond
         PROVE  InputWindow(z, m, n)'
    <2>1. /\ net_i = 0 /\ n = 0 /\ g = 0 /\ net_pc = "acquire1"
          /\ net_pc' = "recv" /\ UNCHANGED <<sem_in, net_i>>
      BY <1>1, <1>10 DEF InputWindow, Net!AcquireSecond
    <2>2. in_block'[0] = Stamp(0) /\ in_block'[1] = Stamp(1)
      BY <1>2, <1>10, FirstStamps, NextBlockType
    <2>3. nx = 1
      BY <2>1, Sizes, RingNext
    <2>4. \A b \in InBlocks : ~(AheadIn(b) < 0)
      BY <1>5, Sizes DEF InBlocks
    <2>5. \A b \in InBlocks : sem_in[b] # 1
      BY <1>1, <2>1, <2>4 DEF InputWindow
    <2>6. gpu_pc' \in {"top", "wait_filled", "done"}
      BY <1>1, <1>3, <2>1 DEF InputWindow
    <2>7. net_i' = 0 /\ nx' = 1 /\ AheadIn(net_i)' = 0
      BY <1>2, <1>5, <1>6, <2>1, <2>3 DEF AheadIn
    <2> QED
      BY <1>5, <2>1, <2>2, <2>4, <2>5, <2>6, <2>7, Sizes DEF InputWindow
  <1>11. CASE NetFill
    <2>1. /\ net_pc = "recv" /\ sem_in[net_i] = 0
          /\ sem_in' = [sem_in EXCEPT ![net_i] = 1]
          /\ net_i' = nx /\ net_pc' = "acquire" /\ in_block' = in_block
      BY <1>11 DEF NetFill, Net!Fill, Net!After
    <2>2. /\ n + 2 <= N_INPUT_BLOCKS /\ in_block[net_i] = Stamp(g + n)
          /\ in_block[nx] = Stamp(g + n + 1)
      BY <1>1, <2>1 DEF InputWindow
    <2>3. \A b \in InBlocks : sem_in'[b] = 1 <=> AheadIn(b) < n + 1
      BY <1>1, <1>2, <1>8, <2>1 DEF InputWindow
    <2>4. \A b \in InBlocks : AheadIn(b) < n + 1 => in_block'[b] = Stamp(g + AheadIn(b))
      BY <1>1, <1>6, <1>8, <2>1, <2>2 DEF InputWindow
    <2>5. AheadIn(net_i)' = n + 1
      BY <1>3, <2>1, <1>7, <2>2, <1>1, Sizes DEF AheadIn
    <2>6. gpu_pc' \notin {"top", "wait_filled", "done"} => n + 1 > 0
      BY <1>1
    <2>7. g + (n + 1) = g + n + 1
      BY <1>1
    <2> HIDE DEF g
    <2>8. InputWindow(z, m, n + 1)'
      BY <1>5, <2>1, <2>2, <2>3, <2>4, <2>5, <2>6, <2>7 DEF InputWindow
    <2> QED
      BY <1>4, <1>11, <2>2, <2>8 DEF Windows
  <1>12. CASE NetAcquireNext
    <2>1. /\ net_pc = "acquire" /\ sem_in[nx] = 0
          /\ in_block' = [in_block EXCEPT ![nx] = (in_block[net_i] + 1) % StampMod]
          /\ net_pc' = "recv" /\ sem_in' = sem_in /\ net_i' = net_i
      BY <1>12 DEF NetAcquireNext, Net!AcquireNext, Net!After
    <2>2. AheadIn(nx) = n + 1 /\ n + 2 <= N_INPUT_BLOCKS
      <3>1. ~(AheadIn(nx) < n)
        BY <1>1, <1>2, <2>1 DEF InputWindow
      <3> QED
        BY <1>1, <1>7, <3>1, Sizes
    <2>3. in_block[net_i] = Stamp(g + n)
      BY <1>1, <2>1 DEF InputWindow
    <2>4. in_block'[nx] = Stamp(g + n + 1)
      BY <1>1, <1>2, <2>1, <2>3, NextStamp
    <2>5. \A b \in InBlocks : AheadIn(b) <= n => b # nx /\ in_block'[b] = in_block[b]
      BY <1>1, <1>2, <2>1, <2>2
    <2>6. in_block'[net_i] = Stamp(g + n)
      BY <1>1, <1>2, <1>6, <2>3, <2>5
    <2>7. \A b \in InBlocks : AheadIn(b) < n => in_block'[b] = Stamp(g + AheadIn(b))
      <3>1. \A b \in InBlocks : AheadIn(b) < n => AheadIn(b) <= n
        BY <1>1, <1>5, Sizes DEF InBlocks
      <3> QED
        BY <1>1, <2>5, <3>1 DEF InputWindow
    <2>8. InputWindow(z, m, n)'
      BY <1>1, <1>2, <1>3, <1>5, <1>6, <2>1, <2>2, <2>4, <2>6, <2>7 DEF InputWindow
    <2> QED
      BY <1>1, <1>4, <2>1, <2>8 DEF Windows, NetFill, Net!Fill
  <1>13. CASE NetAcquire
    <2>1. InputWindow(z, m, n)'
      BY <1>9, <1>10, <1>13 DEF NetAcquire
    <2>2. ~NetFill
      BY <1>13 DEF NetAcquire, NetFill, Net!AcquireFirst, Net!AcquireSecond, Net!Fill
    <2> QED
      BY <1>4, <2>1, <2>2 DEF Windows
  <1> QED
    BY <1>11, <1>12, <1>13 DEF NetStep

\* The steps of the GPU thread that move no window.
LEMMA GpuWorkKeeps ==
  ASSUME NEW z, NEW m, NEW n, Numbered(z, m, n),
         GpuLoop \/ GpuTakeInput \/ GpuTakeOutput \/ GpuCopyHeader \/ GpuSpectroscopy
  PROVE  Windows(z, m, n)'
  <1> DEFINE g == AtGpu(z, m)
  <1>1. /\ TypeOK /\ InputWindow(z, m, n) /\ OutputWindow(z, m) /\ Latest(z, m)
        /\ z \in Int /\ m \in Int /\ n \in Int
        /\ m \in 0 .. N_OUTPUT_BLOCKS /\ n \in 0 .. N_INPUT_BLOCKS-1
    BY NumberTypes DEF Numbered, Windows
  <1>2. /\ gpu_in \in InBlocks /\ gpu_out \in OutBlocks
        /\ out_block \in [OutBlocks -> [header : Stamps \cup {None},
                                        hits : Stamps \cup {None}]]
    BY <1>1 DEF TypeOK
  <1>3. /\ gpu_pc # "set_free" /\ gpu_pc' # "set_free" /\ gpu_pc # "set_filled"
        /\ UNCHANGED <<net, sem_out, gpu_in, gpu_out, out>>
    BY DEF GpuLoop, GpuTakeInput, GpuTakeOutput, GpuCopyHeader, GpuSpectroscopy
  <1>4. /\ AtGpu(z, m)' = g /\ g = z + m
        /\ \A b : AheadIn(b)' = AheadIn(b) /\ AheadOut(b)' = AheadOut(b)
    BY <1>1, <1>3 DEF AtGpu, Handed, AheadIn, AheadOut, out
  <1>5. AheadIn(gpu_in) = 0 /\ \A b \in InBlocks : AheadIn(b) \in InBlocks
    BY <1>1, <1>2, AheadTypes
  <1>6. InputWindow(z, m, n)'
    <2>1. gpu_pc' \notin {"top", "wait_filled", "done"} => n > 0
      <3>1. CASE GpuLoop
        BY <3>1 DEF GpuLoop
      <3>2. CASE GpuTakeInput
        <4>1. AheadIn(gpu_in) < n
          BY <1>1, <1>2, <3>2 DEF GpuTakeInput, InputWindow
        <4> QED
          BY <1>5, <4>1
      <3>3. CASE GpuTakeOutput \/ GpuCopyHeader \/ GpuSpectroscopy
        BY <1>1, <3>3 DEF GpuTakeOutput, GpuCopyHeader, GpuSpectroscopy, InputWindow
      <3> QED
        BY <3>1, <3>2, <3>3
    <2> QED
      BY <1>1, <1>3, <1>4, <2>1 DEF InputWindow, AheadIn, net
  <1>7. gpu_pc \in {"header", "spectroscopy"} => in_block[gpu_in] = Stamp(z + m)
    <2>1. gpu_pc \in {"header", "spectroscopy"} => AheadIn(gpu_in) < n
      BY <1>1, <1>5 DEF InputWindow
    <2>2. g + AheadIn(gpu_in) = z + m
      BY <1>1, <1>4, <1>5
    <2> QED
      BY <1>1, <1>2, <2>1, <2>2 DEF InputWindow
  <1>8. m < N_OUTPUT_BLOCKS => \A b \in OutBlocks : AheadOut(b) < m => b # gpu_out
    BY <1>1, <1>2, Sizes DEF OutputWindow
  <1>9. CASE GpuLoop \/ GpuTakeInput
    <2>1. /\ gpu_pc' \notin {"header", "spectroscopy", "set_filled"}
          /\ UNCHANGED <<out_block, ADCRMS>>
      BY <1>9 DEF GpuLoop, GpuTakeInput
    <2>2. OutputWindow(z, m)' /\ Latest(z, m)'
      BY <1>1, <1>3, <1>4, <2>1 DEF OutputWindow, Latest, out
    <2> QED
      BY <1>6, <2>2 DEF Windows
  <1>10. CASE GpuTakeOutput
    <2>1. sem_out[gpu_out] = 0 /\ gpu_pc' = "header" /\ UNCHANGED <<out_block, ADCRMS>>
      BY <1>10 DEF GpuTakeOutput
    <2>2. ~(AheadOut(gpu_out) < m)
      BY <1>1, <1>2, <2>1 DEF OutputWindow
    <2>3. m < N_OUTPUT_BLOCKS
      BY <1>1, <2>2, Sizes DEF OutputWindow
    <2>4. OutputWindow(z, m)' /\ Latest(z, m)'
      BY <1>1, <1>3, <1>4, <2>1, <2>3 DEF OutputWindow, Latest, out
    <2> QED
      BY <1>6, <2>4 DEF Windows
  <1>11. CASE GpuCopyHeader
    <2>1. /\ gpu_pc = "header" /\ gpu_pc' = "spectroscopy" /\ UNCHANGED ADCRMS
          /\ out_block' = [out_block EXCEPT ![gpu_out].header = in_block[gpu_in]]
      BY <1>11 DEF GpuCopyHeader
    <2>2. m < N_OUTPUT_BLOCKS
      BY <1>1, <2>1 DEF OutputWindow
    <2>3. /\ \A b \in OutBlocks : AheadOut(b) < m => out_block'[b] = out_block[b]
          /\ out_block'[gpu_out].header = Stamp(z + m)
      BY <1>2, <1>7, <1>8, <2>1, <2>2
    <2>4. OutputWindow(z, m)'
      BY <1>1, <1>3, <1>4, <2>1, <2>2, <2>3 DEF OutputWindow, out
    <2>5. Latest(z, m)'
      BY <1>1, <1>3, <2>1 DEF Latest, out
    <2> QED
      BY <1>6, <2>4, <2>5 DEF Windows
  <1>12. CASE GpuSpectroscopy
    <2>1. /\ gpu_pc = "spectroscopy" /\ gpu_pc' = "set_filled"
          /\ ADCRMS' = in_block[gpu_in]
          /\ out_block' = [out_block EXCEPT ![gpu_out].hits = in_block[gpu_in]]
      BY <1>12 DEF GpuSpectroscopy
    <2>2. m < N_OUTPUT_BLOCKS /\ out_block[gpu_out].header = Stamp(z + m)
      BY <1>1, <2>1 DEF OutputWindow
    <2>3. /\ \A b \in OutBlocks : AheadOut(b) < m => out_block'[b] = out_block[b]
          /\ out_block'[gpu_out].header = Stamp(z + m)
          /\ out_block'[gpu_out].hits = Stamp(z + m)
      BY <1>2, <1>7, <1>8, <2>1, <2>2
    <2>4. OutputWindow(z, m)'
      BY <1>1, <1>3, <1>4, <2>1, <2>2, <2>3 DEF OutputWindow, out
    <2>5. ADCRMS' = Stamp(z + m)
      BY <1>7, <2>1
    <2>6. Latest(z, m)'
      BY <1>1, <1>3, <2>1, <2>5 DEF Latest, out
    <2> QED
      BY <1>6, <2>4, <2>6 DEF Windows
  <1> QED
    BY <1>9, <1>10, <1>11, <1>12

\* The GPU thread hands on a block: the output ring holds one more.
LEMMA GpuSetFilledKeeps ==
  ASSUME NEW z, NEW m, NEW n, Numbered(z, m, n), GpuSetFilled
  PROVE  m + 1 \in 0 .. N_OUTPUT_BLOCKS /\ Windows(z, m + 1, n)'
  <1>1. /\ TypeOK /\ InputWindow(z, m, n) /\ OutputWindow(z, m) /\ Latest(z, m)
        /\ z \in Int /\ m \in Int /\ n \in Int
        /\ m \in 0 .. N_OUTPUT_BLOCKS /\ n \in 0 .. N_INPUT_BLOCKS-1
    BY NumberTypes DEF Numbered, Windows
  <1>2. /\ gpu_out \in OutBlocks /\ block_idx \in OutBlocks
        /\ sem_out \in [OutBlocks -> {0, 1}]
        /\ out_block \in [OutBlocks -> [header : Stamps \cup {None},
                                        hits : Stamps \cup {None}]]
    BY <1>1 DEF TypeOK
  <1>3. /\ gpu_pc = "set_filled" /\ gpu_pc' = "set_free"
        /\ sem_out' = [sem_out EXCEPT ![gpu_out] = 1]
        /\ gpu_out' = (gpu_out + 1) % N_OUTPUT_BLOCKS
        /\ UNCHANGED <<net, out_block, gpu_in, ADCRMS, out>>
    BY DEF GpuSetFilled, NextOut
  <1>4. AtGpu(z, m + 1)' = AtGpu(z, m)
    BY <1>1, <1>3 DEF AtGpu, Handed
  <1>5. n > 0
    BY <1>1, <1>3 DEF InputWindow
  <1>6. InputWindow(z, m + 1, n)'
    BY <1>1, <1>3, <1>4, <1>5 DEF InputWindow, AheadIn, net
  <1>7. /\ m < N_OUTPUT_BLOCKS /\ AheadOut(gpu_out) = m
        /\ out_block[gpu_out].header = Stamp(z + m)
        /\ out_block[gpu_out].hits = Stamp(z + m)
    BY <1>1, <1>3, Sizes DEF OutputWindow
  <1>8. out_block[gpu_out] = [header |-> Stamp(z + m), hits |-> Stamp(z + m)]
    BY <1>2, <1>7
  <1>9. \A b \in OutBlocks : AheadOut(b) < m + 1 <=> (AheadOut(b) < m \/ b = gpu_out)
    <2>1. \A b \in OutBlocks : /\ AheadOut(b) = m <=> b = gpu_out
                               /\ AheadOut(b) \in OutBlocks
      BY <1>1, <1>2, <1>7, AheadTypes
    <2> QED
      BY <1>1, <2>1, Sizes DEF OutBlocks
  <1>10. \A b \in OutBlocks :
           /\ sem_out'[b] = 1 <=> AheadOut(b) < m + 1
           /\ AheadOut(b) < m + 1 =>
                out_block'[b] = [header |-> Stamp(z + AheadOut(b)),
                                 hits |-> Stamp(z + AheadOut(b))]
    BY <1>1, <1>2, <1>3, <1>7, <1>8, <1>9 DEF OutputWindow
  <1>11. RingAhead(N_OUTPUT_BLOCKS, block_idx, gpu_out') =
           IF m + 1 = N_OUTPUT_BLOCKS THEN 0 ELSE m + 1
    <2>1. RingAhead(N_OUTPUT_BLOCKS, block_idx, gpu_out') =
            IF AheadOut(gpu_out) = N_OUTPUT_BLOCKS - 1 THEN 0 ELSE AheadOut(gpu_out) + 1
      BY <1>2, <1>3, Sizes, RingAheadNext DEF AheadOut, OutBlocks
    <2> QED
      BY <1>1, <1>7, <2>1, Sizes
  <1>12. out_pc' \in {"write", "set_free"} => m + 1 > 0
    BY <1>1, Sizes
  <1>13. OutputWindow(z, m + 1)'
    BY <1>3, <1>10, <1>11, <1>12 DEF OutputWindow, AheadOut, out
  <1>14. ADCRMS' = Stamp(z + (m + 1) - 1)
    <2>1. ADCRMS' = Stamp(z + m) /\ z + (m + 1) - 1 = z + m
      BY <1>1, <1>3 DEF Latest
    <2> QED
      BY <2>1
  <1>15. Latest(z, m + 1)'
    BY <1>1, <1>3, <1>14 DEF Latest, out
  <1> QED
    BY <1>1, <1>6, <1>7, <1>13, <1>15, Sizes DEF Windows

\* It frees the block it has processed: the input ring holds one less.
LEMMA GpuSetFreeKeeps ==
  ASSUME NEW z, NEW m, NEW n, Numbered(z, m, n), GpuSetFree
  PROVE  n - 1 \in 0 .. N_INPUT_BLOCKS-1 /\ Windows(z, m, n - 1)'
  <1> DEFINE g == AtGpu(z, m)
             B(b) == RingAhead(N_INPUT_BLOCKS, gpu_in', b)
  <1>1. /\ TypeOK /\ InputWindow(z, m, n) /\ OutputWindow(z, m) /\ Latest(z, m)
        /\ z \in Int /\ m \in Int /\ n \in Int /\ g \in Int
        /\ m \in 0 .. N_OUTPUT_BLOCKS /\ n \in 0 .. N_INPUT_BLOCKS-1
    BY NumberTypes DEF Numbered, Windows
  <1>2. /\ gpu_in \in InBlocks /\ net_i \in InBlocks /\ sem_in \in [InBlocks -> {0, 1}]
    BY <1>1 DEF TypeOK
  <1>3. /\ gpu_pc = "set_free" /\ gpu_pc' = "top"
        /\ sem_in' = [sem_in EXCEPT ![gpu_in] = 0]
        /\ gpu_in' = (gpu_in + 1) % N_INPUT_BLOCKS
        /\ UNCHANGED <<in_block, net_i, net_pc, sem_out, out_block, gpu_out, ADCRMS, out>>
    BY DEF GpuSetFree, Net!Free, NextIn
  <1>4. AtGpu(z, m)' = g + 1
    BY <1>1, <1>3 DEF AtGpu, Handed
  <1>5. n > 0
    BY <1>1, <1>3 DEF InputWindow
  <1>6. /\ AheadIn(gpu_in) = 0
        /\ \A b \in InBlocks : /\ B(b) = IF b = gpu_in THEN N_INPUT_BLOCKS - 1
                                         ELSE AheadIn(b) - 1
                               /\ b # gpu_in => AheadIn(b) \in 1 .. N_INPUT_BLOCKS-1
    <2>1. \A b \in InBlocks : AheadIn(b) \in InBlocks /\ (AheadIn(b) = 0 <=> b = gpu_in)
      BY <1>1, AheadTypes
    <2>2. \A b \in InBlocks : B(b) = IF b = gpu_in THEN N_INPUT_BLOCKS - 1
                                     ELSE AheadIn(b) - 1
      BY <1>2, <1>3, Sizes, RingAheadStep DEF AheadIn, InBlocks
    <2> QED
      BY <1>2, <2>1, <2>2, Sizes DEF InBlocks
  <1> HIDE DEF B
  <1>7. B(net_i) = n - 1
    BY <1>1, <1>2, <1>5, <1>6 DEF InputWindow
  <1>8. \A b \in InBlocks : B(b) < n - 1 <=> (b # gpu_in /\ AheadIn(b) < n)
    BY <1>1, <1>6, Sizes
  <1>9. \A b \in InBlocks : sem_in'[b] = 1 <=> B(b) < n - 1
    BY <1>1, <1>2, <1>3, <1>8 DEF InputWindow
  <1>10. \A b \in InBlocks : B(b) < n - 1 => in_block'[b] = Stamp((g + 1) + B(b))
    <2>1. ASSUME NEW b \in InBlocks, B(b) < n - 1
          PROVE  in_block[b] = Stamp((g + 1) + B(b))
      <3>1. b # gpu_in /\ AheadIn(b) < n
        BY <1>8, <2>1
      <3>2. (g + 1) + B(b) = g + AheadIn(b)
        BY <1>1, <1>6, <3>1
      <3> QED
        BY <1>1, <3>1, <3>2 DEF InputWindow
    <2> QED
      BY <1>3, <2>1
  <1>11. (g + 1) + (n - 1) = g + n /\ (g + 1) + (n - 1) + 1 = g + n + 1
    BY <1>1
  <1>12. /\ net_pc \in {"recv", "acquire"}
         /\ in_block[net_i] = Stamp(g + n)
         /\ net_pc = "recv" =>
              /\ n + 2 <= N_INPUT_BLOCKS
              /\ in_block[(net_i + 1) % N_INPUT_BLOCKS] = Stamp(g + n + 1)
    BY <1>1, <1>5 DEF InputWindow, TypeOK
  <1> HIDE DEF g
  <1>13. n + 2 <= N_INPUT_BLOCKS => n - 1 + 2 <= N_INPUT_BLOCKS
    BY <1>1, Sizes
  <1>14. InputWindow(z, m, n - 1)'
    BY <1>3, <1>4, <1>7, <1>9, <1>10, <1>11, <1>12, <1>13 DEF InputWindow, AheadIn, B
  <1>15. OutputWindow(z, m)' /\ Latest(z, m)'
    BY <1>1, <1>3 DEF OutputWindow, Latest, AheadOut, out
  <1> QED
    BY <1>1, <1>5, <1>14, <1>15, Sizes DEF Windows

\* The output thread takes, records and frees the block it has come to.
LEMMA OutWorkKeeps ==
  ASSUME NEW z, NEW m, NEW n, Numbered(z, m, n), OutLoop \/ OutTake \/ OutWrite
  PROVE  /\ Windows(z, m, n)'
         /\ OutWrite => recorded' = [header |-> Stamp(z), hits |-> Stamp(z)]
  <1>1. /\ TypeOK /\ InputWindow(z, m, n) /\ OutputWindow(z, m) /\ Latest(z, m)
        /\ z \in Int /\ m \in Int /\ n \in Int /\ z >= 0
        /\ m \in 0 .. N_OUTPUT_BLOCKS /\ n \in 0 .. N_INPUT_BLOCKS-1
        /\ block_idx \in OutBlocks /\ AheadOut(block_idx) = 0
    BY NumberTypes, AheadTypes DEF Numbered, Windows, TypeOK
  <1>2. UNCHANGED <<net, sem_out, out_block, gpu_in, gpu_out, gpu_pc, ADCRMS, block_idx>>
    BY DEF OutLoop, OutTake, OutWrite
  <1>3. InputWindow(z, m, n)'
    BY <1>1, <1>2 DEF InputWindow, AtGpu, Handed, AheadIn, net
  <1>4. CASE OutLoop
    <2>1. /\ out_pc = "top" /\ out_pc' \in {"wait_filled", "done"}
          /\ UNCHANGED <<rms, recorded>>
      BY <1>4 DEF OutLoop
    <2>2. OutputWindow(z, m)' /\ Latest(z, m)'
      BY <1>1, <1>2, <2>1 DEF OutputWindow, Latest, AheadOut
    <2>3. ~OutWrite
      BY <2>1 DEF OutWrite
    <2> QED
      BY <1>3, <2>2, <2>3 DEF Windows
  <1>5. CASE OutTake
    <2>1. /\ out_pc = "wait_filled" /\ out_pc' = "write" /\ sem_out[block_idx] = 1
          /\ rms' = ADCRMS /\ UNCHANGED recorded
      BY <1>5 DEF OutTake
    <2>2. m > 0
      BY <1>1, <2>1 DEF OutputWindow
    <2>3. OutputWindow(z, m)'
      BY <1>1, <1>2, <2>1, <2>2 DEF OutputWindow, AheadOut
    <2>4. \E k \in 0 .. N_OUTPUT_BLOCKS-1 : rms' = Stamp(z + k)
      <3>1. CASE gpu_pc = "set_filled"
        <4>1. m \in 0 .. N_OUTPUT_BLOCKS-1 /\ ADCRMS = Stamp(z + m)
          BY <1>1, <3>1, Sizes DEF OutputWindow, Latest
        <4> QED
          BY <2>1, <4>1
      <3>2. CASE gpu_pc # "set_filled"
        <4>1. m - 1 \in 0 .. N_OUTPUT_BLOCKS-1 /\ z + m > 0 /\ z + m - 1 = z + (m - 1)
          BY <1>1, <2>2, Sizes
        <4>2. ADCRMS = Stamp(z + (m - 1))
          BY <1>1, <3>2, <4>1 DEF Latest
        <4> QED
          BY <2>1, <4>1, <4>2
      <3> QED
        BY <3>1, <3>2
    <2>5. Latest(z, m)'
      BY <1>1, <1>2, <2>1, <2>4 DEF Latest
    <2>6. ~OutWrite
      BY <2>1 DEF OutWrite
    <2> QED
      BY <1>3, <2>3, <2>5, <2>6 DEF Windows
  <1>6. CASE OutWrite
    <2>1. /\ out_pc = "write" /\ out_pc' = "set_free"
          /\ recorded' = out_block[block_idx] /\ UNCHANGED rms
      BY <1>6 DEF OutWrite
    <2>2. m > 0
      BY <1>1, <2>1 DEF OutputWindow
    <2>3. recorded' = [header |-> Stamp(z), hits |-> Stamp(z)]
      <3>1. z + AheadOut(block_idx) = z /\ AheadOut(block_idx) < m
        BY <1>1, <2>2
      <3> QED
        BY <1>1, <2>1, <3>1 DEF OutputWindow
    <2>4. OutputWindow(z, m)' /\ Latest(z, m)'
      BY <1>1, <1>2, <2>1, <2>2, <2>3 DEF OutputWindow, Latest, AheadOut
    <2> QED
      BY <1>3, <2>3, <2>4 DEF Windows
  <1> QED
    BY <1>4, <1>5, <1>6

LEMMA OutSetFreeKeeps ==
  ASSUME NEW z, NEW m, NEW n, Numbered(z, m, n), OutSetFree
  PROVE  m - 1 \in 0 .. N_OUTPUT_BLOCKS /\ Windows(z + 1, m - 1, n)'
  <1> DEFINE B(b) == RingAhead(N_OUTPUT_BLOCKS, block_idx', b)
  <1>1. /\ TypeOK /\ InputWindow(z, m, n) /\ OutputWindow(z, m) /\ Latest(z, m)
        /\ z \in Int /\ m \in Int /\ n \in Int /\ z >= 0
        /\ m \in 0 .. N_OUTPUT_BLOCKS /\ n \in 0 .. N_INPUT_BLOCKS-1
    BY NumberTypes DEF Numbered, Windows
  <1>2. /\ gpu_out \in OutBlocks /\ block_idx \in OutBlocks
        /\ sem_out \in [OutBlocks -> {0, 1}]
        /\ out_block \in [OutBlocks -> [header : Stamps \cup {None},
                                        hits : Stamps \cup {None}]]
    BY <1>1 DEF TypeOK
  <1>3. /\ out_pc = "set_free" /\ out_pc' = "top"
        /\ out_block' = [out_block EXCEPT ![block_idx] = EmptyBlock]
        /\ sem_out' = [sem_out EXCEPT ![block_idx] = 0]
        /\ block_idx' = (block_idx + 1) % N_OUTPUT_BLOCKS
        /\ UNCHANGED <<net, gpu_in, gpu_out, gpu_pc, ADCRMS, rms, recorded>>
    BY DEF OutSetFree
  <1>4. (z + 1) + (m - 1) = z + m /\ z + 1 > 0 /\ (z + 1) - 1 = z
    BY <1>1
  <1>5. AtGpu(z + 1, m - 1)' = AtGpu(z, m)
    BY <1>1, <1>3, <1>4 DEF AtGpu, Handed
  <1>6. InputWindow(z + 1, m - 1, n)'
    BY <1>1, <1>3, <1>5 DEF InputWindow, AheadIn, net
  <1>7. m > 0
    BY <1>1, <1>3 DEF OutputWindow
  <1>8. \A b \in OutBlocks : /\ B(b) = IF b = block_idx THEN N_OUTPUT_BLOCKS - 1
                                       ELSE AheadOut(b) - 1
                             /\ b # block_idx => AheadOut(b) \in 1 .. N_OUTPUT_BLOCKS-1
                             /\ b = block_idx => AheadOut(b) = 0
    <2>1. \A b \in OutBlocks :
            AheadOut(b) \in OutBlocks /\ (AheadOut(b) = 0 <=> b = block_idx)
      BY <1>1, AheadTypes
    <2>2. \A b \in OutBlocks : B(b) = IF b = block_idx THEN N_OUTPUT_BLOCKS - 1
                                      ELSE AheadOut(b) - 1
      BY <1>2, <1>3, Sizes, RingAheadStep DEF AheadOut, OutBlocks
    <2> QED
      BY <1>2, <2>1, <2>2, Sizes DEF OutBlocks
  <1> HIDE DEF B
  <1>9. B(gpu_out) = IF m - 1 = N_OUTPUT_BLOCKS THEN 0 ELSE m - 1
    BY <1>1, <1>2, <1>7, <1>8, Sizes DEF OutputWindow
  <1>10. \A b \in OutBlocks : B(b) < m - 1 <=> (b # block_idx /\ AheadOut(b) < m)
    BY <1>1, <1>8, Sizes
  <1>11. \A b \in OutBlocks :
           /\ sem_out'[b] = 1 <=> B(b) < m - 1
           /\ B(b) < m - 1 =>
                out_block'[b] = [header |-> Stamp((z + 1) + B(b)),
                                 hits |-> Stamp((z + 1) + B(b))]
    <2>1. ASSUME NEW b \in OutBlocks
          PROVE  sem_out'[b] = 1 <=> B(b) < m - 1
      BY <1>1, <1>2, <1>3, <1>10 DEF OutputWindow
    <2>2. ASSUME NEW b \in OutBlocks, B(b) < m - 1
          PROVE  out_block'[b] = [header |-> Stamp((z + 1) + B(b)),
                                  hits |-> Stamp((z + 1) + B(b))]
      <3>1. b # block_idx /\ AheadOut(b) < m
        BY <1>10, <2>2
      <3>2. (z + 1) + B(b) = z + AheadOut(b)
        BY <1>1, <1>8, <3>1
      <3>3. out_block'[b] = out_block[b]
        BY <1>2, <1>3, <3>1
      <3> QED
        BY <1>1, <3>1, <3>2, <3>3 DEF OutputWindow
    <2> QED
      BY <2>1, <2>2
  <1>12. m < N_OUTPUT_BLOCKS => out_block'[gpu_out] = out_block[gpu_out]
    <2>1. m < N_OUTPUT_BLOCKS => AheadOut(gpu_out) = m
      BY <1>1 DEF OutputWindow
    <2> QED
      BY <1>1, <1>2, <1>3, <1>7, <1>8, <2>1
  <1>13. /\ gpu_pc \in {"header", "spectroscopy", "set_filled"} =>
              m < N_OUTPUT_BLOCKS /\ m - 1 < N_OUTPUT_BLOCKS
         /\ gpu_pc \in {"spectroscopy", "set_filled"} =>
              out_block[gpu_out].header = Stamp(z + m)
         /\ gpu_pc = "set_filled" => out_block[gpu_out].hits = Stamp(z + m)
    BY <1>1, Sizes DEF OutputWindow
  <1>14. OutputWindow(z + 1, m - 1)'
    BY <1>3, <1>4, <1>9, <1>11, <1>12, <1>13 DEF OutputWindow, AheadOut, B
  <1>15. Latest(z + 1, m - 1)'
    BY <1>1, <1>3, <1>4 DEF Latest
  <1> QED
    BY <1>1, <1>6, <1>7, <1>14, <1>15, Sizes DEF Windows

\* The end of the program moves no block.
LEMMA EndKeeps ==
  ASSUME NEW z, NEW m, NEW n, Numbered(z, m, n), Stop \/ Cancel \/ UNCHANGED vars
  PROVE  Windows(z, m, n)'
  <1>1. InputWindow(z, m, n) /\ OutputWindow(z, m) /\ Latest(z, m)
    BY DEF Numbered, Windows
  <1>2. /\ UNCHANGED <<net, sem_out, out_block, gpu_in, gpu_out, ADCRMS,
                       block_idx, rms, recorded>>
        /\ gpu_pc' = gpu_pc \/ (gpu_pc \in {"wait_filled", "wait_free"} /\ gpu_pc' = "done")
        /\ out_pc' = out_pc \/ (out_pc = "wait_filled" /\ out_pc' = "done")
    BY DEF Stop, Cancel, vars, out
  <1>3. Handed' = Handed
    BY <1>2 DEF Handed
  <1>4. InputWindow(z, m, n)'
    BY <1>1, <1>2, <1>3 DEF InputWindow, AtGpu, AheadIn, net
  <1>5. OutputWindow(z, m)' /\ Latest(z, m)'
    BY <1>1, <1>2 DEF OutputWindow, Latest, AheadOut
  <1> QED
    BY <1>4, <1>5 DEF Windows

LEMMA PipeInit == Init => PipeInv
  <1> SUFFICES ASSUME Init
               PROVE  Windows(0, 0, 0)
    BY PipeTypeInit, Sizes DEF PipeInv
  <1>1. /\ gpu_in = 0 /\ gpu_out = 0 /\ block_idx = 0 /\ net_i = 0
        /\ gpu_pc = "top" /\ out_pc = "top" /\ net_pc = "acquire0"
        /\ sem_in = [b \in InBlocks |-> 0] /\ sem_out = [b \in OutBlocks |-> 0]
        /\ recorded = EmptyBlock
    BY DEF Init, Net!Init, Net!Blocks, InBlocks
  <1>2. AtGpu(0, 0) = 0
    BY <1>1 DEF AtGpu, Handed
  <1>3. AheadIn(0) = 0 /\ AheadOut(0) = 0
    BY <1>1 DEF AheadIn, AheadOut, RingAhead
  <1>4. /\ \A b \in InBlocks : ~(AheadIn(b) < 0)
        /\ \A b \in OutBlocks : ~(AheadOut(b) < 0)
    BY <1>1 DEF AheadIn, AheadOut, RingAhead, InBlocks, OutBlocks
  <1>5. InputWindow(0, 0, 0)
    BY <1>1, <1>2, <1>3, <1>4 DEF InputWindow
  <1>6. OutputWindow(0, 0) /\ Latest(0, 0)
    BY <1>1, <1>3, <1>4 DEF OutputWindow, Latest
  <1> QED
    BY <1>5, <1>6 DEF Windows

LEMMA PipeStep ==
  ASSUME PipeInv, [Next]_vars
  PROVE  PipeInv'
  <1>1. PICK z \in Nat, m \in 0 .. N_OUTPUT_BLOCKS, n \in 0 .. N_INPUT_BLOCKS-1 :
          Windows(z, m, n)
    BY DEF PipeInv
  <1>2. Numbered(z, m, n)
    BY <1>1 DEF PipeInv, Numbered
  <1>3. TypeOK'
    BY PipeTypeStep DEF PipeInv
  <1>4. SUFFICES \E y \in Nat, l \in 0 .. N_OUTPUT_BLOCKS, k \in 0 .. N_INPUT_BLOCKS-1 :
                   Windows(y, l, k)'
    BY <1>3 DEF PipeInv
  <1>5. CASE NetStep
    <2>1. IF NetFill THEN n + 2 <= N_INPUT_BLOCKS /\ Windows(z, m, n + 1)'
                     ELSE Windows(z, m, n)'
      BY <1>2, <1>5, NetKeeps
    <2>2. n + 2 <= N_INPUT_BLOCKS => n + 1 \in 0 .. N_INPUT_BLOCKS-1
      BY Sizes
    <2> QED
      BY <2>1, <2>2
  <1>6. CASE GpuStep
    <2>1. CASE GpuLoop \/ GpuTakeInput \/ GpuTakeOutput \/ GpuCopyHeader \/ GpuSpectroscopy
      BY <1>2, <2>1, GpuWorkKeeps
    <2>2. CASE GpuSetFilled
      BY <1>2, <2>2, GpuSetFilledKeeps
    <2>3. CASE GpuSetFree
      BY <1>2, <2>3, GpuSetFreeKeeps
    <2> QED
      BY <1>6, <2>1, <2>2, <2>3 DEF GpuStep
  <1>7. CASE OutStep
    <2>1. CASE OutLoop \/ OutTake \/ OutWrite
      BY <1>2, <2>1, OutWorkKeeps
    <2>2. CASE OutSetFree
      <3>1. m - 1 \in 0 .. N_OUTPUT_BLOCKS /\ Windows(z + 1, m - 1, n)' /\ z + 1 \in Nat
        BY <1>2, <2>2, OutSetFreeKeeps
      <3> QED
        BY <3>1
    <2> QED
      BY <1>7, <2>1, <2>2 DEF OutStep
  <1>8. CASE Stop \/ Cancel \/ UNCHANGED vars
    BY <1>2, <1>8, EndKeeps
  <1> QED
    BY <1>5, <1>6, <1>7, <1>8 DEF Next

-----------------------------------------------------------------------------
(* The theorems.                                                           *)

\* Stamps of blocks less than StampMod apart tell how far apart they are.
LEMMA StampDistance ==
  ASSUME NEW s \in Int, NEW k \in 0 .. StampMod-1
  PROVE  (Stamp(s + k) - Stamp(s)) % StampMod = k
  <1> DEFINE q == s \div StampMod
             r == s % StampMod
  <1>1. s = (StampMod * q) + r /\ r \in 0 .. StampMod-1 /\ q \in Int /\ StampMod \in Nat \ {0}
    BY Sizes, DivMod
  <1>2. (((s + k) % StampMod) + (-r)) % StampMod = ((s + k) + (-r)) % StampMod
    <2>1. s + k \in Int /\ -r \in Int
      BY <1>1
    <2> HIDE DEF r
    <2> QED
      BY <1>1, <2>1, ModOfSum
  <1>3. (s + k) + (-r) = (StampMod * q) + k
    <2> HIDE DEF q, r
    <2> QED
      BY <1>1
  <1>4. ((StampMod * q) + k) % StampMod = k
    BY <1>1, DivModUnique
  <1>5. (s + k) % StampMod \in Int
    BY <1>1, DivMod
  <1>6. ((s + k) % StampMod) + (-r) = ((s + k) % StampMod) - r
    <2> HIDE DEF r
    <2> QED
      BY <1>1, <1>5
  <1> QED
    BY <1>2, <1>3, <1>4, <1>6 DEF Stamp

LEMMA InvRmsIsRecent == PipeInv => RmsIsRecent
  <1> SUFFICES ASSUME PipeInv, out_pc = "write"
               PROVE  (rms - out_block[block_idx].header) % StampMod
                        \in 0 .. N_OUTPUT_BLOCKS-1
    BY DEF RmsIsRecent
  <1>1. PICK z \in Nat, m \in 0 .. N_OUTPUT_BLOCKS, n \in 0 .. N_INPUT_BLOCKS-1 :
          Windows(z, m, n)
    BY DEF PipeInv
  <1>2. PICK k \in 0 .. N_OUTPUT_BLOCKS-1 : rms = Stamp(z + k)
    BY <1>1 DEF Windows, Latest
  <1>3. block_idx \in OutBlocks /\ AheadOut(block_idx) = 0 /\ m > 0
    BY <1>1, AheadTypes DEF PipeInv, TypeOK, Windows, OutputWindow
  <1>4. out_block[block_idx].header = Stamp(z)
    <2>1. AheadOut(block_idx) < m /\ z + AheadOut(block_idx) = z
      BY <1>3
    <2>2. out_block[block_idx] = [header |-> Stamp(z), hits |-> Stamp(z)]
      BY <1>1, <1>3, <2>1 DEF Windows, OutputWindow
    <2> QED
      BY <2>2
  <1>5. k \in 0 .. StampMod-1 /\ z \in Int
    BY StampAssumption, Sizes
  <1> QED
    BY <1>2, <1>4, <1>5, StampDistance

\* The ADCRMS recorded with a block is its own or that of one of the
\* N_OUTPUT_BLOCKS - 1 blocks after it, for every size of the two rings.
THEOREM RmsStaysRecent == Spec => []RmsIsRecent
  <1> QED
    BY PipeInit, PipeStep, InvRmsIsRecent, PTL DEF Spec

LEMMA StepRecordsInOrder ==
  ASSUME PipeInv, [Next]_vars, recorded' # recorded
  PROVE  /\ recorded'.header = recorded'.hits
         /\ recorded'.header =
              IF recorded = EmptyBlock THEN 0 ELSE (recorded.header + 1) % StampMod
  <1>1. PICK z \in Nat, m \in 0 .. N_OUTPUT_BLOCKS, n \in 0 .. N_INPUT_BLOCKS-1 :
          Windows(z, m, n)
    BY DEF PipeInv
  <1>2. Numbered(z, m, n)
    BY <1>1 DEF PipeInv, Numbered
  <1>3. OutWrite
    BY DEF Next, NetStep, NetAcquire, NetFill, NetAcquireNext, GpuStep, GpuLoop,
           GpuTakeInput, GpuTakeOutput, GpuCopyHeader, GpuSpectroscopy,
           GpuSetFilled, GpuSetFree, OutStep, OutLoop, OutTake, OutSetFree,
           Stop, Cancel, vars, out
  <1>4. recorded' = [header |-> Stamp(z), hits |-> Stamp(z)]
    BY <1>2, <1>3, OutWorkKeeps
  <1>5. out_pc = "write"
    BY <1>3 DEF OutWrite
  <1>6. CASE z = 0
    <2>1. recorded = EmptyBlock
      BY <1>1, <1>5, <1>6 DEF Windows, Latest
    <2> QED
      BY <1>4, <1>6, <2>1, FirstStamps
  <1>7. CASE z # 0
    <2>1. recorded = [header |-> Stamp(z - 1), hits |-> Stamp(z - 1)]
      BY <1>1, <1>5, <1>7 DEF Windows, Latest
    <2>2. recorded # EmptyBlock
      BY <2>1, StampType DEF EmptyBlock
    <2>3. (Stamp(z - 1) + 1) % StampMod = Stamp(z)
      <3>1. z - 1 \in Int /\ (z - 1) + 1 = z
        OBVIOUS
      <3> QED
        BY <3>1, NextStamp
    <2> QED
      BY <1>4, <2>1, <2>2, <2>3
  <1> QED
    BY <1>6, <1>7

\* Blocks are recorded whole, each once and in the order in which the network
\* thread began them, however the three threads interleave and for every size
\* of the two rings.
THEOREM BlocksRecordedInOrder == Spec => RecordsInOrder
  <1>1. PipeInv /\ [Next]_vars =>
          [recorded' # recorded =>
             /\ recorded'.header = recorded'.hits
             /\ recorded'.header =
                  IF recorded = EmptyBlock THEN 0
                  ELSE (recorded.header + 1) % StampMod]_vars
    BY StepRecordsInOrder
  <1> QED
    BY <1>1, PipeInit, PipeStep, PTL DEF Spec, RecordsInOrder

-----------------------------------------------------------------------------
(* The pipeline is a bounded queue.                                        *)

\* The stamps of l blocks in a row, the first of which has number a.
Stretch(a, l) == [k \in 1 .. l |-> Stamp(a + (k - 1))]

LEMMA StretchFacts ==
  ASSUME NEW a \in Int, NEW l \in Nat
  PROVE  /\ Stretch(a, l) \in Seq(Stamps) /\ Len(Stretch(a, l)) = l
         /\ Stretch(a, 0) = <<>>
         /\ Append(Stretch(a, l), Stamp(a + l)) = Stretch(a, l + 1)
         /\ l > 0 => /\ Stretch(a, l) # <<>>
                     /\ Head(Stretch(a, l)) = Stamp(a)
                     /\ Tail(Stretch(a, l)) = Stretch(a + 1, l - 1)
  <1>1. \A k \in 1 .. l : Stamp(a + (k - 1)) \in Stamps
    BY StampType
  <1>2. Stretch(a, l) \in Seq(Stamps) /\ Len(Stretch(a, l)) = l
    BY <1>1 DEF Stretch
  <1>3. Stretch(a, 0) = <<>>
    BY DEF Stretch
  <1>4. Append(Stretch(a, l), Stamp(a + l)) = Stretch(a, l + 1)
    BY <1>2 DEF Stretch
  <1>5. ASSUME l > 0
        PROVE  /\ Stretch(a, l) # <<>>
               /\ Head(Stretch(a, l)) = Stamp(a)
               /\ Tail(Stretch(a, l)) = Stretch(a + 1, l - 1)
    <2>1. Stretch(a, l)[1] = Stamp(a)
      BY <1>5 DEF Stretch
    <2>2. Stretch(a, l) # <<>> /\ Head(Stretch(a, l)) = Stamp(a)
      BY <1>2, <1>5, <2>1
    <2>3. \A k \in 1 .. l-1 : Stretch(a, l)[k + 1] = Stamp((a + 1) + (k - 1))
      <3>1. ASSUME NEW k \in 1 .. l-1
            PROVE  Stretch(a, l)[k + 1] = Stamp((a + 1) + (k - 1))
        <4>1. k + 1 \in 1 .. l /\ a + ((k + 1) - 1) = (a + 1) + (k - 1)
          BY <1>5
        <4> QED
          BY <4>1 DEF Stretch
      <3> QED
        BY <3>1
    <2>4. Tail(Stretch(a, l)) = [k \in 1 .. l-1 |-> Stamp((a + 1) + (k - 1))]
      <3> DEFINE whole == Stretch(a, l)
      <3>1. whole \in Seq(Stamps) /\ Len(whole) = l /\ whole # <<>>
        BY <1>2, <2>2
      <3>2. \A k \in 1 .. l-1 : whole[k + 1] = Stamp((a + 1) + (k - 1))
        BY <2>3
      <3> HIDE DEF whole
      <3>3. /\ Tail(whole) \in Seq(Stamps) /\ Len(Tail(whole)) = l - 1
            /\ \A k \in 1 .. l-1 : Tail(whole)[k] = whole[k + 1]
        BY <1>5, <3>1
      <3>4. Tail(whole) = [k \in 1 .. l-1 |-> Tail(whole)[k]]
        <4>1. Tail(whole) \in [1 .. l-1 -> Stamps]
          BY <3>3, LenProperties
        <4> QED
          BY <4>1
      <3>5. Tail(whole) = [k \in 1 .. l-1 |-> Stamp((a + 1) + (k - 1))]
        BY <3>2, <3>3, <3>4
      <3> QED
        BY <3>5 DEF whole
    <2> QED
      BY <2>2, <2>4 DEF Stretch
  <1> QED
    BY <1>2, <1>3, <1>4, <1>5

LEMMA StretchJoined ==
  ASSUME NEW a \in Int, NEW l \in Nat, NEW b \in Int, NEW j \in Nat, b = a + l
  PROVE  Stretch(a, l) \o Stretch(b, j) = Stretch(a, l + j)
  <1>1. /\ Stretch(a, l) \in Seq(Stamps) /\ Len(Stretch(a, l)) = l
        /\ Stretch(b, j) \in Seq(Stamps) /\ Len(Stretch(b, j)) = j
    BY StretchFacts
  <1>2. Stretch(a, l) \o Stretch(b, j) =
          [k \in 1 .. l + j |-> IF k <= l THEN Stretch(a, l)[k]
                                ELSE Stretch(b, j)[k - l]]
    BY <1>1
  <1>3. ASSUME NEW k \in 1 .. l + j
        PROVE  (IF k <= l THEN Stretch(a, l)[k] ELSE Stretch(b, j)[k - l])
                 = Stamp(a + (k - 1))
    <2>1. CASE k <= l
      BY <2>1 DEF Stretch
    <2>2. CASE k > l
      <3>1. k - l \in 1 .. j /\ b + ((k - l) - 1) = a + (k - 1)
        BY <2>2
      <3> QED
        BY <2>2, <3>1 DEF Stretch
    <2> QED
      BY <2>1, <2>2
  <1> QED
    BY <1>2, <1>3 DEF Stretch

\* The filled blocks of a ring are the m from `first' on, and bear consecutive
\* numbers from s on; the first `skip' of them are not to count.
Holds(n, sem, content, first, skip, m, s) ==
  /\ n \in Nat \ {0} /\ first \in 0 .. n-1 /\ m \in 0 .. n /\ s \in Int
  /\ skip \in {0, 1} /\ skip <= m
  /\ sem \in [0 .. n-1 -> {0, 1}]
  /\ \A b \in 0 .. n-1 :
       /\ sem[b] = 1 <=> RingAhead(n, first, b) < m
       /\ RingAhead(n, first, b) < m => content[b] = Stamp(s + RingAhead(n, first, b))

\* Such a ring contains a stretch.
LEMMA ContentsAre ==
  ASSUME NEW n, NEW sem, NEW content, NEW first, NEW m, NEW s,
         NEW skip, Holds(n, sem, content, first, skip, m, s)
  PROVE  Contents(sem, content, first, skip, n) = Stretch(s + skip, m - skip)
  <1> /\ n \in Nat \ {0} /\ first \in 0 .. n-1 /\ m \in 0 .. n /\ s \in Int
      /\ skip \in {0, 1} /\ skip <= m
    BY DEF Holds
  <1>1. ASSUME NEW k \in 0 .. n-1
        PROVE  sem[(first + k) % n] = 1 <=> k < m
    <2>1. (first + k) % n \in 0 .. n-1 /\ RingAhead(n, first, (first + k) % n) = k
      BY RingAt
    <2> QED
      BY <2>1 DEF Holds
  <1>2. FilledFrom(sem, first, n) = m
    <2> DEFINE P(l) == /\ \A k \in 0 .. l-1 : sem[(first + k) % n] = 1
                       /\ l < n => sem[(first + l) % n] # 1
    <2>1. P(m)
      <3>1. \A k \in 0 .. m-1 : k \in 0 .. n-1 /\ k < m
        OBVIOUS
      <3>2. m < n => m \in 0 .. n-1 /\ ~(m < m)
        OBVIOUS
      <3> QED
        BY <1>1, <3>1, <3>2
    <2>2. ASSUME NEW l \in 0 .. n, P(l)
          PROVE  l = m
      <3>1. ~(l < m)
        BY <1>1, <2>2
      <3>2. ~(m < l)
        <4>1. m < l => m \in 0 .. l-1 /\ m \in 0 .. n-1
          OBVIOUS
        <4> QED
          BY <1>1, <2>2, <4>1
      <3> QED
        BY <3>1, <3>2
    <2> QED
      BY <2>1, <2>2 DEF FilledFrom
  <1>3. ASSUME NEW k \in 1 .. m - skip
        PROVE  content[(first + skip + (k - 1)) % n] = Stamp((s + skip) + (k - 1))
    <2> DEFINE j == skip + (k - 1)
    <2>1. /\ j \in 0 .. n-1 /\ j < m
          /\ first + skip + (k - 1) = first + j
          /\ (s + skip) + (k - 1) = s + j
      BY <1>3
    <2> HIDE DEF j
    <2>2. (first + j) % n \in 0 .. n-1 /\ RingAhead(n, first, (first + j) % n) = j
      BY <2>1, RingAt
    <2> QED
      BY <2>1, <2>2 DEF Holds
  <1> QED
    BY <1>2, <1>3 DEF Contents, Stretch

\* The output thread has recorded the block it has not freed yet.
Taken == IF out_pc = "set_free" THEN 1 ELSE 0

OutHeaders == [b \in OutBlocks |-> out_block[b].header]

\* The lemma is needed for a state and for its successor: the variables are
\* parameters.
LEMMA WayIs ==
  ASSUME NEW NO, NEW semo, NEW heads, NEW idx, NEW taken, NEW m, NEW z,
         NEW NI, NEW semi, NEW stamps, NEW gin, NEW handed, NEW n, NEW g,
         Holds(NO, semo, heads, idx, taken, m, z),
         Holds(NI, semi, stamps, gin, handed, n, g),
         g + handed = z + m
  PROVE  Contents(semo, heads, idx, taken, NO) \o Contents(semi, stamps, gin, handed, NI)
           = Stretch(z + taken, (m - taken) + (n - handed))
  <1>1. /\ z \in Int /\ m \in Nat /\ taken \in {0, 1} /\ taken <= m
        /\ g \in Int /\ n \in Nat /\ handed \in {0, 1} /\ handed <= n
    BY DEF Holds
  <1>2. /\ Contents(semo, heads, idx, taken, NO) = Stretch(z + taken, m - taken)
        /\ Contents(semi, stamps, gin, handed, NI) = Stretch(g + handed, n - handed)
    BY ContentsAre
  <1>3. /\ g + handed = (z + taken) + (m - taken) /\ g + handed \in Int
        /\ m - taken \in Nat /\ n - handed \in Nat /\ z + taken \in Int
    BY <1>1
  <1> DEFINE a == z + taken
             b == g + handed
             l == m - taken
             j == n - handed
  <1>4. Stretch(a, l) \o Stretch(b, j) = Stretch(a, l + j)
    <2>1. a \in Int /\ l \in Nat /\ b \in Int /\ j \in Nat /\ b = a + l
      BY <1>3
    <2> HIDE DEF a, b, l, j
    <2> QED
      BY <2>1, StretchJoined
  <1> QED
    BY <1>2, <1>4

\* What the windows say of the two rings.
LEMMA WindowsHold ==
  ASSUME NEW z \in Nat, NEW m \in 0 .. N_OUTPUT_BLOCKS, NEW n \in 0 .. N_INPUT_BLOCKS-1,
         TypeOK, Windows(z, m, n)
  PROVE  /\ Holds(N_OUTPUT_BLOCKS, sem_out, OutHeaders, block_idx, Taken, m, z)
         /\ Holds(N_INPUT_BLOCKS, sem_in, in_block, gpu_in, Handed, n, AtGpu(z, m))
         /\ AtGpu(z, m) + Handed = z + m
         /\ Taken \in {0, 1} /\ Taken <= m /\ Handed \in {0, 1} /\ Handed <= n
  <1>1. InputWindow(z, m, n) /\ OutputWindow(z, m)
    BY DEF Windows
  <1>2. Taken \in {0, 1} /\ Taken <= m
    BY <1>1, Sizes DEF OutputWindow, Taken
  <1>3. Handed \in {0, 1} /\ Handed <= n
    BY <1>1, Sizes DEF InputWindow, Handed
  <1>4. AtGpu(z, m) \in Int /\ AtGpu(z, m) + Handed = z + m
    BY <1>3, Sizes DEF AtGpu
  <1>5. Holds(N_OUTPUT_BLOCKS, sem_out, OutHeaders, block_idx, Taken, m, z)
    <2>1. \A b \in OutBlocks : /\ sem_out[b] = 1 <=> AheadOut(b) < m
                               /\ AheadOut(b) < m => OutHeaders[b] = Stamp(z + AheadOut(b))
      <3>1. ASSUME NEW b \in OutBlocks
            PROVE  /\ sem_out[b] = 1 <=> AheadOut(b) < m
                   /\ AheadOut(b) < m => out_block[b].header = Stamp(z + AheadOut(b))
        <4>1. /\ sem_out[b] = 1 <=> AheadOut(b) < m
              /\ AheadOut(b) < m =>
                   out_block[b] = [header |-> Stamp(z + AheadOut(b)),
                                   hits |-> Stamp(z + AheadOut(b))]
          BY <1>1 DEF OutputWindow
        <4> QED
          BY <4>1
      <3> QED
        BY <3>1 DEF OutHeaders
    <2>2. sem_out \in [OutBlocks -> {0, 1}] /\ block_idx \in OutBlocks /\ z \in Int
      BY DEF TypeOK
    <2> QED
      BY <1>2, <2>1, <2>2, Sizes DEF Holds, OutBlocks, AheadOut
  <1>6. Holds(N_INPUT_BLOCKS, sem_in, in_block, gpu_in, Handed, n, AtGpu(z, m))
    <2>1. n \in 0 .. N_INPUT_BLOCKS
      BY Sizes
    <2> QED
      BY <1>1, <1>3, <1>4, <2>1, Sizes DEF InputWindow, Holds, InBlocks, AheadIn, TypeOK
  <1> QED
    BY <1>2, <1>3, <1>4, <1>5, <1>6

LEMMA WayNow ==
  ASSUME NEW z \in Nat, NEW m \in 0 .. N_OUTPUT_BLOCKS, NEW n \in 0 .. N_INPUT_BLOCKS-1,
         TypeOK, Windows(z, m, n)
  PROVE  OnTheirWay = Stretch(z + Taken, (m - Taken) + (n - Handed))
  <1>1. Contents(sem_out, OutHeaders, block_idx, Taken, N_OUTPUT_BLOCKS)
          \o Contents(sem_in, in_block, gpu_in, Handed, N_INPUT_BLOCKS)
            = Stretch(z + Taken, (m - Taken) + (n - Handed))
    BY WindowsHold, WayIs
  <1> QED
    BY <1>1 DEF OnTheirWay, OutHeaders, Taken, Handed

\* The blocks on their way, whatever numbers fit the state.
OnTheirWayIsStretch ==
  \A z \in Nat, m \in 0 .. N_OUTPUT_BLOCKS, n \in 0 .. N_INPUT_BLOCKS-1 :
    Windows(z, m, n) =>
      OnTheirWay = Stretch(z + Taken, (m - Taken) + (n - Handed))

LEMMA WayNowAndNext ==
  /\ TypeOK => OnTheirWayIsStretch
  /\ TypeOK' => OnTheirWayIsStretch'
  <1>1. TypeOK => OnTheirWayIsStretch
    BY WayNow DEF OnTheirWayIsStretch
  <1> QED
    BY <1>1, PTL

LEMMA FifoInit == Init => Fifo!Init
  <1> SUFFICES ASSUME Init
               PROVE  Fifo!Init
    OBVIOUS
  <1>1. recorded = EmptyBlock /\ out_pc = "top" /\ gpu_pc = "top"
    BY DEF Init
  <1>2. recorded.header \notin Stamps
    BY <1>1, Sizes DEF EmptyBlock, None, Stamps
  <1>3. OnTheirWay = <<>>
    <2>1. /\ sem_in = [b \in InBlocks |-> 0] /\ sem_out = [b \in OutBlocks |-> 0]
          /\ gpu_in = 0 /\ block_idx = 0
      BY DEF Init, Net!Init, Net!Blocks, InBlocks
    <2>2. /\ Holds(N_OUTPUT_BLOCKS, sem_out, OutHeaders, block_idx, Taken, 0, 0)
          /\ Holds(N_INPUT_BLOCKS, sem_in, in_block, gpu_in, Handed, 0, 0)
          /\ Taken = 0 /\ Handed = 0
      <3>1. Taken = 0 /\ Handed = 0
        BY <1>1 DEF Taken, Handed
      <3>2. Holds(N_OUTPUT_BLOCKS, sem_out, OutHeaders, block_idx, Taken, 0, 0)
        BY <2>1, <3>1, Sizes DEF Holds, OutBlocks, RingAhead
      <3>3. Holds(N_INPUT_BLOCKS, sem_in, in_block, gpu_in, Handed, 0, 0)
        BY <2>1, <3>1, Sizes DEF Holds, InBlocks, RingAhead
      <3> QED
        BY <3>1, <3>2, <3>3
    <2>3. Contents(sem_out, OutHeaders, block_idx, 0, N_OUTPUT_BLOCKS)
            \o Contents(sem_in, in_block, gpu_in, 0, N_INPUT_BLOCKS) = Stretch(0, 0)
      <3>1. Contents(sem_out, OutHeaders, block_idx, 0, N_OUTPUT_BLOCKS)
              \o Contents(sem_in, in_block, gpu_in, 0, N_INPUT_BLOCKS)
                = Stretch(0 + 0, (0 - 0) + (0 - 0))
        BY <2>2, WayIs
      <3> QED
        BY <3>1
    <2>4. Stretch(0, 0) = <<>>
      BY StretchFacts
    <2>5. OnTheirWay = Contents(sem_out, OutHeaders, block_idx, Taken, N_OUTPUT_BLOCKS)
                         \o Contents(sem_in, in_block, gpu_in, Handed, N_INPUT_BLOCKS)
      BY DEF OnTheirWay, OutHeaders, Taken, Handed
    <2>6. Taken = 0 /\ Handed = 0
      BY <2>2
    <2> QED
      BY <2>3, <2>4, <2>5, <2>6
  <1> QED
    BY <1>2, <1>3 DEF Fifo!Init

\* Filling a block is a Put, recording it a Get, and nothing else changes what
\* is on its way.
LEMMA FifoStep ==
  ASSUME PipeInv, [Next]_vars
  PROVE  [Fifo!Next]_(Fifo!vars)
  <1>1. PICK z \in Nat, m \in 0 .. N_OUTPUT_BLOCKS, n \in 0 .. N_INPUT_BLOCKS-1 :
          Windows(z, m, n)
    BY DEF PipeInv
  <1>2. Numbered(z, m, n) /\ TypeOK /\ TypeOK'
    BY <1>1, PipeTypeStep DEF PipeInv, Numbered
  <1> DEFINE Way(y, l, k, t, h) == Stretch(y + t, (l - t) + (k - h))
  <1>3. OnTheirWay = Way(z, m, n, Taken, Handed)
    BY <1>1, <1>2, WayNowAndNext DEF OnTheirWayIsStretch
  <1>4. ASSUME NEW y \in Nat, NEW l \in 0 .. N_OUTPUT_BLOCKS,
               NEW k \in 0 .. N_INPUT_BLOCKS-1, Windows(y, l, k)'
        PROVE  OnTheirWay' = Way(y, l, k, Taken', Handed')
    BY <1>2, <1>4, WayNowAndNext DEF OnTheirWayIsStretch
  <1>5. /\ Taken \in {0, 1} /\ Handed \in {0, 1} /\ Taken <= m /\ Handed <= n
        /\ m \in Int /\ n \in Int /\ z \in Int
    BY <1>1, <1>2, Sizes, WindowsHold
  <1> HIDE DEF Way
  <1>6. SUFFICES ASSUME ~(OnTheirWay' = OnTheirWay /\ recorded' = recorded)
                 PROVE  Fifo!Next
    BY DEF Fifo!vars
  <1>7. CASE NetStep
    <2>1. /\ Taken' = Taken /\ Handed' = Handed /\ recorded' = recorded
      BY <1>7 DEF NetStep, NetAcquire, NetFill, NetAcquireNext, Taken, Handed, out
    <2>2. IF NetFill THEN n + 2 <= N_INPUT_BLOCKS /\ Windows(z, m, n + 1)'
                     ELSE Windows(z, m, n)'
      BY <1>2, <1>7, NetKeeps
    <2>3. NetFill
      BY <1>3, <1>4, <1>6, <2>1, <2>2
    <2>4. n + 1 \in 0 .. N_INPUT_BLOCKS-1
      BY <1>5, <2>2, <2>3, Sizes
    <2> DEFINE a == z + Taken
               c == (m - Taken) + (n - Handed)
    <2>5. /\ a \in Int /\ c \in Nat /\ (m - Taken) + ((n + 1) - Handed) = c + 1
          /\ c < N_INPUT_BLOCKS - 1 + N_OUTPUT_BLOCKS
      BY <1>5, <2>2, <2>3, Sizes
    <2>6. OnTheirWay = Stretch(a, c) /\ OnTheirWay' = Stretch(a, c + 1)
      BY <1>3, <1>4, <2>1, <2>2, <2>3, <2>4, <2>5 DEF Way
    <2> HIDE DEF a, c
    <2>7. Fifo!Put(Stamp(a + c))
      BY <2>1, <2>5, <2>6, StretchFacts DEF Fifo!Put
    <2> QED
      BY <2>5, <2>7, StampType DEF Fifo!Next
  <1>8. CASE GpuLoop \/ GpuTakeInput \/ GpuTakeOutput \/ GpuCopyHeader \/ GpuSpectroscopy
    <2>1. Taken' = Taken /\ Handed' = Handed /\ recorded' = recorded
      BY <1>8 DEF GpuLoop, GpuTakeInput, GpuTakeOutput, GpuCopyHeader,
                  GpuSpectroscopy, Taken, Handed, out
    <2> QED
      BY <1>2, <1>3, <1>4, <1>6, <1>8, <2>1, GpuWorkKeeps
  <1>9. CASE GpuSetFilled
    <2>1. Taken' = Taken /\ Handed = 0 /\ Handed' = 1 /\ recorded' = recorded
      BY <1>9 DEF GpuSetFilled, Taken, Handed, out
    <2>2. OnTheirWay' = Way(z, m + 1, n, Taken, 1)
      BY <1>2, <1>4, <1>9, <2>1, GpuSetFilledKeeps
    <2>3. ((m + 1) - Taken) + (n - 1) = (m - Taken) + (n - 0)
      BY <1>5
    <2> QED
      BY <1>3, <1>6, <2>1, <2>2, <2>3 DEF Way
  <1>10. CASE GpuSetFree
    <2>1. Taken' = Taken /\ Handed = 1 /\ Handed' = 0 /\ recorded' = recorded
      BY <1>10 DEF GpuSetFree, Taken, Handed, out
    <2>2. OnTheirWay' = Way(z, m, n - 1, Taken, 0)
      BY <1>2, <1>4, <1>10, <2>1, GpuSetFreeKeeps
    <2>3. (m - Taken) + ((n - 1) - 0) = (m - Taken) + (n - 1)
      BY <1>5
    <2> QED
      BY <1>3, <1>6, <2>1, <2>2, <2>3 DEF Way
  <1>11. CASE OutLoop \/ OutTake
    <2>1. Taken' = Taken /\ Handed' = Handed /\ recorded' = recorded
      BY <1>11 DEF OutLoop, OutTake, Taken, Handed
    <2> QED
      BY <1>2, <1>3, <1>4, <1>6, <1>11, <2>1, OutWorkKeeps
  <1>12. CASE OutWrite
    <2>1. Taken = 0 /\ Taken' = 1 /\ Handed' = Handed /\ out_pc = "write"
      BY <1>12 DEF OutWrite, Taken, Handed
    <2>2. /\ OnTheirWay' = Way(z, m, n, 1, Handed)
          /\ recorded' = [header |-> Stamp(z), hits |-> Stamp(z)]
      BY <1>2, <1>4, <1>12, <2>1, OutWorkKeeps
    <2>3. m > 0
      BY <1>1, <2>1 DEF Windows, OutputWindow
    <2> DEFINE c == m + (n - Handed)
    <2>4. /\ (m - 0) + (n - Handed) = c /\ (m - 1) + (n - Handed) = c - 1
          /\ c \in Nat /\ c > 0 /\ z + 0 = z
      BY <1>5, <2>3
    <2>5. OnTheirWay = Stretch(z, c) /\ OnTheirWay' = Stretch(z + 1, c - 1)
      BY <1>3, <2>1, <2>2, <2>4 DEF Way
    <2> HIDE DEF c
    <2>6. Fifo!Get
      BY <1>5, <2>2, <2>4, <2>5, StretchFacts DEF Fifo!Get
    <2> QED
      BY <2>6 DEF Fifo!Next
  <1>13. CASE OutSetFree
    <2>1. Taken = 1 /\ Taken' = 0 /\ Handed' = Handed /\ recorded' = recorded
      BY <1>13 DEF OutSetFree, Taken, Handed
    <2>2. OnTheirWay' = Way(z + 1, m - 1, n, 0, Handed)
      BY <1>2, <1>4, <1>13, <2>1, OutSetFreeKeeps
    <2>3. (z + 1) + 0 = z + 1 /\ ((m - 1) - 0) + (n - Handed) = (m - 1) + (n - Handed)
      BY <1>5
    <2> QED
      BY <1>3, <1>6, <2>1, <2>2, <2>3 DEF Way
  <1>14. CASE Stop \/ Cancel \/ UNCHANGED vars
    <2>1. Taken' = Taken /\ Handed' = Handed /\ recorded' = recorded
      BY <1>14 DEF Stop, Cancel, vars, out, Taken, Handed
    <2> QED
      BY <1>2, <1>3, <1>4, <1>6, <1>14, <2>1, EndKeeps
  <1> QED
    BY <1>7, <1>8, <1>9, <1>10, <1>11, <1>12, <1>13, <1>14 DEF Next, GpuStep, OutStep

\* The three threads and their two rings implement a bounded queue, for every
\* size of the rings: no block is lost, duplicated, torn or overtaken, and
\* never more than N_INPUT_BLOCKS - 1 + N_OUTPUT_BLOCKS are on their way.
THEOREM FifoImplemented == Spec => ImplementsFifo
  <1> QED
    BY FifoInit, FifoStep, PipeInit, PipeStep, PTL
    DEF Spec, ImplementsFifo, Fifo!Spec

-----------------------------------------------------------------------------
(* No wait all round.                                                      *)

\* The GPU and the output thread leave their loops only once the end is
\* ordered.
EndIsOrdered == (gpu_pc = "done" \/ out_pc = "done") => ~run_threads

LEMMA EndIsOrderedInit == Init => EndIsOrdered
  BY DEF Init, EndIsOrdered

LEMMA EndIsOrderedStep ==
  ASSUME EndIsOrdered, [Next]_vars
  PROVE  EndIsOrdered'
  <1>1. CASE NetStep
    BY <1>1 DEF NetStep, NetAcquire, NetFill, NetAcquireNext, EndIsOrdered, out
  <1>2. CASE GpuStep
    BY <1>2 DEF GpuStep, GpuLoop, GpuTakeInput, GpuTakeOutput, GpuCopyHeader,
                GpuSpectroscopy, GpuSetFilled, GpuSetFree, EndIsOrdered, out
  <1>3. CASE OutStep
    BY <1>3 DEF OutStep, OutLoop, OutTake, OutWrite, OutSetFree, EndIsOrdered
  <1>4. CASE Stop \/ Cancel \/ UNCHANGED vars
    BY <1>4 DEF Stop, Cancel, vars, out, EndIsOrdered
  <1> QED
    BY <1>1, <1>2, <1>3, <1>4 DEF Next

\* The network thread waits for a filled block only when the input ring is full
\* for the GPU thread, and the GPU thread for a filled output block only when
\* the output ring is full for the output thread.
LEMMA WindowsMove ==
  ASSUME PipeInv, EndIsOrdered
  PROVE  NoCircularWait
  <1> SUFFICES ASSUME run_threads, NetWaits
               PROVE  gpu_pc # "done" /\ out_pc # "done" /\ ~(GpuWaits /\ OutWaits)
    BY DEF NoCircularWait
  <1>1. PICK z \in Nat, m \in 0 .. N_OUTPUT_BLOCKS, n \in 0 .. N_INPUT_BLOCKS-1 :
          Windows(z, m, n)
    BY DEF PipeInv
  <1>2. /\ TypeOK /\ InputWindow(z, m, n) /\ OutputWindow(z, m)
        /\ net_i \in InBlocks /\ gpu_in \in InBlocks
        /\ gpu_out \in OutBlocks /\ block_idx \in OutBlocks
    BY <1>1 DEF PipeInv, Windows, TypeOK
  <1> DEFINE nx == (net_i + 1) % N_INPUT_BLOCKS
  <1>3. n > 0
    <2>1. nx \in InBlocks /\ sem_in[nx] = 1
      BY <1>2, NextBlockType DEF NetWaits, Net!After
    <2>2. AheadIn(nx) < n
      BY <1>2, <2>1 DEF InputWindow
    <2>3. AheadIn(nx) \in InBlocks
      BY <1>2, <2>1, AheadTypes
    <2> QED
      BY <2>2, <2>3, Sizes DEF InBlocks
  <1>4. sem_in[gpu_in] = 1
    <2>1. AheadIn(gpu_in) = 0
      BY <1>2, AheadTypes
    <2> QED
      BY <1>2, <1>3, <2>1 DEF InputWindow
  <1>5. ASSUME GpuWaits
        PROVE  ~OutWaits
    <2>1. sem_out[gpu_out] = 1
      BY <1>4, <1>5 DEF GpuWaits
    <2>2. AheadOut(gpu_out) < m /\ AheadOut(gpu_out) \in OutBlocks
      BY <1>2, <2>1, AheadTypes DEF OutputWindow
    <2>3. m > 0
      BY <2>2, Sizes DEF OutBlocks
    <2>4. AheadOut(block_idx) = 0
      BY <1>2, AheadTypes
    <2>5. sem_out[block_idx] = 1
      BY <1>2, <2>3, <2>4 DEF OutputWindow
    <2> QED
      BY <2>5 DEF OutWaits
  <1> QED
    BY <1>5 DEF EndIsOrdered

\* While the network thread waits for the GPU thread, the GPU thread or the
\* output thread can go on, for every size of the two rings: the threads never
\* wait for each other all round.
THEOREM ThreadsNeverAllWait == Spec => []NoCircularWait
  <1> QED
    BY PipeInit, PipeStep, EndIsOrderedInit, EndIsOrderedStep, WindowsMove, PTL DEF Spec

-----------------------------------------------------------------------------
(* Module GpuShare: the types, and that the semaphore serializes the GPU   *)
(* access of two instances.                                                *)

\* The semaphore is closed before it is opened and once an instance is gone.
Closed == \A i \in Instances : pc[i] \in {"off", "open"} <=> gpu_sem[i] = NoSem

\* While one instance has the semaphore and the other is about to open it, the
\* name refers to it: so both have the same one open.
SameSem ==
  \A i, j \in Instances :
    gpu_sem[i] # NoSem =>
      /\ pc[j] = "open" => name = gpu_sem[i]
      /\ gpu_sem[j] # NoSem => gpu_sem[j] = gpu_sem[i]

\* The semaphore is taken while an instance uses the GPU.
SemTaken == \A i \in Instances : pc[i] = "gpu" => value[gpu_sem[i]] = 0

\* The inductive invariant.
ShareInv == ShareTypeOK /\ Closed /\ SameSem /\ SemTaken /\ Serialized

LEMMA NoSemaphore == NoSem \notin Sems
  BY DEF NoSem, Sems

LEMMA ShareInvInit == ShareInit => ShareInv
  BY NoSemaphore DEF ShareInit, ShareInv, ShareTypeOK, Closed, SameSem, SemTaken, Serialized

\* Every step keeps the invariant.
LEMMA ShareInvStep ==
  ASSUME ShareInv, [ShareNext]_share_vars
  PROVE  ShareInv'
  <1> USE NoSemaphore DEF ShareInv, ShareTypeOK, Closed, SameSem, SemTaken, Serialized
  <1>1. CASE InitScript
    BY <1>1 DEF InitScript
  <1>2. CASE StopScript
    BY <1>2 DEF StopScript
  <1>3. ASSUME NEW i \in Instances, SemOpen(i)
        PROVE  ShareInv'
    <2>1. CASE name # NoSem
      BY <1>3, <2>1 DEF SemOpen, Goes
    <2>2. CASE name = NoSem
      <3>1. PICK s \in Sems : /\ name' = s
                              /\ value' = [value EXCEPT ![s] = 1]
                              /\ gpu_sem' = [gpu_sem EXCEPT ![i] = s]
        BY <1>3, <2>2 DEF SemOpen, Unused
      <3>2. pc[i] = "open" /\ pc' = [pc EXCEPT ![i] = "loop"]
        BY <1>3 DEF SemOpen, Goes
      <3>3. \A j \in Instances : gpu_sem[j] = NoSem
        BY <2>2, <3>2
      <3>4. UNCHANGED <<running, died_holding>>
        BY <1>3 DEF SemOpen
      <3> QED
        BY <3>1, <3>2, <3>3, <3>4
    <2> QED
      BY <2>1, <2>2
  <1>4. ASSUME NEW i \in Instances, Loop(i)
        PROVE  ShareInv'
    BY <1>4 DEF Loop, Goes
  <1>5. ASSUME NEW i \in Instances, SemWait(i)
        PROVE  ShareInv'
    <2>1. pc[i] = "wait" /\ gpu_sem[i] \in Sems /\ value[gpu_sem[i]] = 1
      BY <1>5 DEF SemWait, Goes
    <2>2. \A j \in Instances : pc[j] # "gpu"
      BY <2>1
    <2> QED
      BY <1>5, <2>1, <2>2 DEF SemWait, Goes
  <1>6. ASSUME NEW i \in Instances, SemPost(i)
        PROVE  ShareInv'
    <2>1. pc[i] = "gpu" /\ gpu_sem[i] \in Sems /\ value[gpu_sem[i]] = 0
      BY <1>6 DEF SemPost, Goes
    <2> QED
      BY <1>6, <2>1 DEF SemPost, Goes
  <1>7. ASSUME NEW i \in Instances, Fini(i)
        PROVE  ShareInv'
    <2>1. \A j, k \in Instances : j # i /\ k # i => j = k
      BY TwoInstances
    <2> QED
      BY <1>7, <2>1 DEF Fini, Ends
  <1>8. ASSUME NEW i \in Instances, TakeBlock(i)
        PROVE  ShareInv'
    BY <1>8 DEF TakeBlock, Goes
  <1>9. ASSUME NEW i \in Instances, StopInstance(i)
        PROVE  ShareInv'
    BY <1>9 DEF StopInstance
  <1>10. ASSUME NEW i \in Instances, CancelInstance(i)
         PROVE  ShareInv'
    BY <1>10 DEF CancelInstance, Ends
  <1>11. ASSUME NEW i \in Instances, Crash(i)
         PROVE  ShareInv'
    BY <1>11 DEF Crash, Ends
  <1>12. CASE UNCHANGED share_vars
    BY <1>12 DEF share_vars
  <1> QED
    BY <1>1, <1>2, <1>3, <1>4, <1>5, <1>6, <1>7, <1>8, <1>9, <1>10, <1>11, <1>12
    DEF ShareNext, Thread

LEMMA ShareInvariance == ShareSpec => []ShareInv
  BY ShareInvInit, ShareInvStep, PTL DEF ShareSpec

\* The variables keep to their types; the semaphore is never posted twice.
THEOREM ShareTypeCorrect == ShareSpec => []ShareTypeOK
  BY ShareInvariance, PTL DEF ShareInv

\* spectroscopy() never runs on the GPU for two instances at a time, through
\* any sequence of starts, orderly ends, crashes and kills.
THEOREM GpuSerialized == ShareSpec => []Serialized
  BY ShareInvariance, PTL DEF ShareInv
=============================================================================
