-------------------------------- MODULE Hits --------------------------------
(***************************************************************************)
(* From the spectra of a block to the tables of an integration: the hit    *)
(* finder (spectroscopy() and its helpers in s6GPU.cu, called by the GPU   *)
(* thread for each beam or subspectrum) and the tables that the output     *)
(* thread writes (write_ccpwrs and write_hits of s6_etfits.cpp).  The two  *)
(* threads take turns with an output block (module Pipeline), so what      *)
(* happens to one block is sequential; the block is one of a ring in       *)
(* shared memory, which outlives the program.                              *)
(*                                                                         *)
(* The three builds differ in how polarisations and coarse channels are    *)
(* laid out.  The signal is abstracted to narrow lines over a flat noise,  *)
(* and the FFT to the power of each fine channel.  A mean over a window is *)
(* represented by the sum over it, so that powers stay integers, and       *)
(* float rounding is left out.                                             *)
(***************************************************************************)
EXTENDS Integers, Sequences, FiniteSets, FiniteSetsExt

CONSTANTS
  Builds,        \* the builds to check, some of "S6", "DIBAS" and "FAST"
  MaxHitsKeys,   \* the values of the status key MAXHITS
  MAXHITS,       \* size of the arrays of write_hits
  POWER_THRESH,
  SMOOTH_SCALE,  \* half of the window of the running mean
  N_FINE_CHAN,
  N_COARSE_CHAN_PER_BORS,   \* of a beam or subspectrum, unless FAST
  Bors,          \* number of beams or subspectra, unless FAST
  Noise, Line,   \* power of a fine channel without and with a line
  MaxLines       \* bound: lines in a block

ASSUME BuildAssumption == Builds \subseteq {"S6", "DIBAS", "FAST"}

\* The key is at most the size of the arrays that the hits are copied to.
ASSUME MaxHitsAssumption ==
  MAXHITS \in Nat \ {0} /\ MaxHitsKeys \subseteq 1 .. MAXHITS

\* There is room for the window, and the channels come in pairs.
ASSUME SizeAssumption ==
  /\ SMOOTH_SCALE \in Nat \ {0}
  /\ N_FINE_CHAN \in Nat /\ N_FINE_CHAN > 2 * SMOOTH_SCALE
  /\ N_COARSE_CHAN_PER_BORS \in Nat \ {0} /\ N_COARSE_CHAN_PER_BORS % 2 = 0
  /\ Bors \in Nat \ {0}
ASSUME PowerAssumption ==
  POWER_THRESH \in Nat \ {0} /\ Noise \in Nat /\ Line \in Nat /\ MaxLines \in Nat

VARIABLES
  build,      \* the build: fixed
  maxhits,    \* the GPU thread's maxhits: fixed
  sid_pol,    \* FAST: the polarisation of this instance's stream: fixed
  lines,      \* the lines in the block
  nchan,      \* header.num_coarse_chan: 0 or N_CC
  stage,      \* "next", "gpu" or "write"
  bors,       \* the next beam or subspectrum of the GPU thread
  block,      \* the output block
  ccpwrs,     \* the table of coarse channel powers
  hdus        \* the hit tables of the integration

hits_vars == <<build, maxhits, sid_pol, lines, nchan, stage, bors, block, ccpwrs, hdus>>

N_POLS_PER_BEAM == IF build = "FAST" THEN 1 ELSE 2
N_BORS == IF build = "FAST" THEN 1 ELSE Bors
N_CC == IF build = "FAST" THEN 1 ELSE N_COARSE_CHAN_PER_BORS
N_SPECTRA == N_CC * N_POLS_PER_BEAM
N_ELEMENT == N_SPECTRA * N_FINE_CHAN

BorsIds == 0 .. N_BORS-1
Inputs == 0 .. N_POLS_PER_BEAM-1
Chans == 0 .. N_CC-1
Elements == 0 .. N_ELEMENT-1
Fines == 0 .. N_FINE_CHAN-1

\* Where a line can be.
Places == [bors : BorsIds, input : Inputs, chan : Chans, fine : Fines]

\* The order of the spectra in the data, by build: for each pair of channels
\* both channels of either polarisation (S6), or for each channel both
\* polarisations.
Spectrum(chan, input) ==
  IF build = "S6" THEN 4 * (chan \div 2) + 2 * input + (chan % 2)
                  ELSE N_POLS_PER_BEAM * chan + input

-----------------------------------------------------------------------------
(* s6GPU.cu.  Vectors are functions on Elements.                           *)

\* The FFTs, unpacked and computed for all spectra at once.
fft_data_out(b) ==
  [i \in Elements |->
     IF \E l \in lines : /\ l.bors = b
                         /\ Spectrum(l.chan, l.input) = i \div N_FINE_CHAN
                         /\ l.fine = i % N_FINE_CHAN
     THEN Line ELSE Noise]

\* The last element is taken for padding: its power stays 0.
compute_power_spectrum(fft) ==
  [i \in Elements |-> IF i = N_ELEMENT-1 THEN 0 ELSE fft[i]]

\* Sums of powers by spectrum, from which the means are found.
reduce_power_spectra(powspec) ==
  [s \in 0 .. N_SPECTRA-1 |->
     MapThenSumSet(LAMBDA f : powspec[s * N_FINE_CHAN + f], Fines)]

\* Mutant: the Y polarisation starts where the X polarisation does.
polY_NoOffset(sums) == [c \in Chans |-> sums[2 * c]]

\* The strided ranges that separate the polarisations.
polX(sums) == [c \in Chans |-> sums[2 * c]]
polY(sums) == [c \in Chans |-> sums[2 * c + 1]]

\* Sum of the powers before an element in its spectrum.
exclusive_scan_by_key(powspec) ==
  LET scanned[i \in Elements] ==
        IF i % N_FINE_CHAN = 0 THEN 0 ELSE scanned[i-1] + powspec[i-1]
  IN  scanned

\* Mutant: the window is not kept within the spectrum at its upper end.
running_mean_by_region_NoUpperEnd(scanned, i) ==
  LET idx    == i % N_FINE_CHAN
      offset == i - idx
      radius == SMOOTH_SCALE
      last   == N_ELEMENT - 1
  IN  IF idx < radius
      THEN scanned[2 * radius + offset] - scanned[offset]
      ELSE scanned[IF i + radius > last THEN last ELSE i + radius]
             - scanned[i - radius]

\* Sum of the 2 * SMOOTH_SCALE powers around an element.
running_mean_by_region(scanned, i) ==
  LET idx    == i % N_FINE_CHAN
      offset == i - idx
      radius == SMOOTH_SCALE
      last   == N_FINE_CHAN - 1
  IN  IF idx < radius
      THEN scanned[2 * radius + offset] - scanned[offset]
      ELSE IF idx > last - radius
           THEN scanned[last + offset] - scanned[last - 2 * radius + offset]
           ELSE scanned[i + radius] - scanned[i - radius]

compute_baseline(powspec) ==
  LET scanned == exclusive_scan_by_key(powspec)
  IN  [i \in Elements |-> running_mean_by_region(scanned, i)]

\* Is the power over the threshold when divided by the mean?  (A quotient by 0
\* is infinite, or not a number for 0 by 0.)
normalized_over_thresh(power, baseline) ==
  power * 2 * SMOOTH_SCALE > POWER_THRESH * baseline

\* The indices of the elements over the threshold, in order; found[n] has those
\* of the first n elements.
copy_if(powspec, baseline) ==
  LET found[n \in 0 .. N_ELEMENT] ==
        IF n = 0 THEN <<>>
        ELSE IF normalized_over_thresh(powspec[n-1], baseline[n-1])
             THEN Append(found[n-1], n-1) ELSE found[n-1]
  IN  found[N_ELEMENT]

\* Mutant: one hit less than there is room for.
find_hits_OffByOne(powspec, baseline) ==
  LET all == copy_if(powspec, baseline)
  IN  SubSeq(all, 1, IF Len(all) >= maxhits THEN maxhits-1 ELSE Len(all))

\* The indices of the hits; those beyond maxhits are thrown away.
find_hits(powspec, baseline) ==
  LET all == copy_if(powspec, baseline)
  IN  SubSeq(all, 1, IF Len(all) > maxhits THEN maxhits ELSE Len(all))

ao_pol(spectrum_index) == (spectrum_index \div 2) % 2
ao_coarse_chan(spectrum_index) == (spectrum_index \div 4) * 2 + (spectrum_index % 2)
dibas_pol(spectrum_index) == spectrum_index % 2
dibas_coarse_chan(spectrum_index, b) == spectrum_index \div 2 + b * N_COARSE_CHAN_PER_BORS

\* A hit as it is stored in the output block.
Hit(b, powspec, baseline, hit_index) ==
  LET spectrum_index == hit_index \div N_FINE_CHAN
  IN  [power |-> powspec[hit_index],
       baseline |-> baseline[hit_index],
       fine_chan |-> hit_index % N_FINE_CHAN,
       pol |-> CASE build = "S6" -> ao_pol(spectrum_index)
                 [] build = "DIBAS" -> dibas_pol(spectrum_index)
                 [] build = "FAST" -> sid_pol,
       coarse_chan |-> CASE build = "S6" -> ao_coarse_chan(spectrum_index)
                         [] build = "DIBAS" -> dibas_coarse_chan(spectrum_index, b)
                         [] build = "FAST" -> 0]

\* The hits replace the first elements of the arrays; the rest stays.
Overwrite(array, hits) ==
  [i \in DOMAIN array |-> IF i <= Len(hits) THEN hits[i] ELSE array[i]]

spectroscopy(b) ==
  LET powspec  == compute_power_spectrum(fft_data_out(b))
      baseline == compute_baseline(powspec)
      indices  == find_hits(powspec, baseline)
      hits     == [i \in 1 .. Len(indices) |-> Hit(b, powspec, baseline, indices[i])]
      sums     == reduce_power_spectra(powspec)
      arrays   == [block EXCEPT !.nhits[b] = Len(hits),
                                !.hits[b] = Overwrite(@, hits)]
  IN  block' = IF build = "FAST" THEN arrays
               ELSE [arrays EXCEPT !.cc_pwrs_x[b] = polX(sums),
                                   !.cc_pwrs_y[b] = polY(sums)]

-----------------------------------------------------------------------------
(* s6_etfits.cpp.                                                          *)

\* The rows of CCPWRS, those of a beam or subspectrum after the other.
write_ccpwrs ==
  [row \in 0 .. N_BORS * N_CC - 1 |->
     [POLX |-> block.cc_pwrs_x[row \div N_CC][row % N_CC],
      POLY |-> block.cc_pwrs_y[row \div N_CC][row % N_CC]]]

\* The hits that go to the table of an input: those in its polarisation, but
\* not those in the DC bin.
TakesHit(input, hit) ==
  /\ IF build = "FAST" THEN input = 0 ELSE hit.pol = input
  /\ hit.fine_chan # 0

\* The rows of ETHITS for an input; rows[n] has those from the first n hits.
Rows(b, input) ==
  LET hits == block.hits[b]
      rows[n \in 0 .. block.nhits[b]] ==
        IF n = 0 THEN <<>>
        ELSE IF TakesHit(input, hits[n]) THEN Append(rows[n-1], hits[n]) ELSE rows[n-1]
  IN  rows[block.nhits[b]]

\* A table for each input of each beam or subspectrum.
write_hits ==
  [k \in 1 .. N_BORS * N_POLS_PER_BEAM |->
     LET b == (k-1) \div N_POLS_PER_BEAM
         input == (k-1) % N_POLS_PER_BEAM
     IN  [borspol |-> k-1, NHITS |-> Len(Rows(b, input)), rows |-> Rows(b, input)]]

-----------------------------------------------------------------------------
\* The lines of a block: at most MaxLines.
Lines ==
  {{}} \cup {{place[n] : n \in 1 .. MaxLines} : place \in [1 .. MaxLines -> Places]}

\* An output block that the output thread has freed, and one that a killed
\* instance left with its last hits.
Old == [power |-> Line, baseline |-> 0, fine_chan |-> 1, pol |-> 0, coarse_chan |-> 0]
Zero == [Old EXCEPT !.power = 0, !.fine_chan = 0]
OutputBlock(n, hit) ==
  [nhits |-> [b \in BorsIds |-> n],
   hits |-> [b \in BorsIds |-> [i \in 1 .. MAXHITS |-> hit]],
   cc_pwrs_x |-> [b \in BorsIds |-> [c \in Chans |-> 0]],
   cc_pwrs_y |-> [b \in BorsIds |-> [c \in Chans |-> 0]]]
Cleared == OutputBlock(0, Zero)

HitsInit ==
  /\ build \in Builds
  /\ maxhits \in MaxHitsKeys
  /\ sid_pol \in IF build = "FAST" THEN {0, 1} ELSE {0}
  /\ lines = {} /\ nchan = 0
  /\ stage = "next" /\ bors = 0
  /\ block = Cleared
  /\ ccpwrs = <<>> /\ hdus = <<>>

\* The next filled input block and the next free output block.  At Arecibo the
\* first two blocks come without channels.
NextBlock ==
  /\ stage = "next"
  /\ lines' \in Lines
  /\ nchan' \in IF build = "S6" THEN {0, N_CC} ELSE {N_CC}
  /\ block' \in {Cleared, OutputBlock(maxhits, Old)}
  /\ stage' = "gpu" /\ bors' = 0
  /\ ccpwrs' = <<>> /\ hdus' = <<>>
  /\ UNCHANGED <<build, maxhits, sid_pol>>

\* The GPU thread's loop over the beams or subspectra, if there are channels.
Spectroscopy ==
  /\ stage = "gpu"
  /\ nchan # 0
  /\ spectroscopy(bors)
  /\ bors' = bors + 1
  /\ stage' = IF bors' < N_BORS THEN "gpu" ELSE "write"
  /\ UNCHANGED <<build, maxhits, sid_pol, lines, nchan, ccpwrs, hdus>>

\* "only do spectroscopy if there are more than zero channels": the output
\* block is handed on as it was found.
NoSpectroscopy ==
  /\ stage = "gpu"
  /\ nchan = 0
  /\ stage' = "write"
  /\ UNCHANGED <<build, maxhits, sid_pol, lines, nchan, bors, block, ccpwrs, hdus>>

\* The tables of the integration; the FAST build has no coarse channel powers.
\* The block is cleared as it is freed.
WriteTables ==
  /\ stage = "write"
  /\ ccpwrs' = IF build = "FAST" THEN <<>> ELSE write_ccpwrs
  /\ hdus' = write_hits
  /\ block' = Cleared
  /\ stage' = "next"
  /\ UNCHANGED <<build, maxhits, sid_pol, lines, nchan, bors>>

HitsNext == NextBlock \/ Spectroscopy \/ NoSpectroscopy \/ WriteTables

HitsSpec == HitsInit /\ [][HitsNext]_hits_vars

-----------------------------------------------------------------------------
(* What the tables should say, from the signal alone.                      *)

\* The power at a place, which the program does not see in the very last bin of
\* a beam or subspectrum.
Power(p) ==
  IF Spectrum(p.chan, p.input) = N_SPECTRA-1 /\ p.fine = N_FINE_CHAN-1 THEN 0
  ELSE IF p \in lines THEN Line ELSE Noise

\* The sum over the 2 * SMOOTH_SCALE bins around a place, those moved inwards
\* at the ends of the spectrum (where the last bin is in no window).
LocalSum(p) ==
  LET inwards == Min({p.fine - SMOOTH_SCALE, N_FINE_CHAN - 1 - 2 * SMOOTH_SCALE})
      first   == Max({0, inwards})
  IN  MapThenSumSet(LAMBDA f : Power([p EXCEPT !.fine = f]),
                    first .. first + 2 * SMOOTH_SCALE - 1)

Detected(p) == Power(p) * 2 * SMOOTH_SCALE > POWER_THRESH * LocalSum(p)

Detections(b) == {p \in Places : p.bors = b /\ Detected(p)}

\* The row of a place: the polarisation and the numbers of the channels as the
\* observatory counts them.
Row(p) ==
  [power |-> Power(p), baseline |-> LocalSum(p), fine_chan |-> p.fine,
   pol |-> IF build = "FAST" THEN sid_pol ELSE p.input,
   coarse_chan |-> p.chan + IF build = "DIBAS" THEN p.bors * N_COARSE_CHAN_PER_BORS ELSE 0]

Table(b, input) == hdus[b * N_POLS_PER_BEAM + input + 1]
RowsOf(b, input) == {Table(b, input).rows[i] : i \in 1 .. Len(Table(b, input).rows)}

\* A block with channels is written.
Written == stage = "next" /\ hdus # <<>> /\ nchan # 0

\* Every row of a hit table is a detection of this block in the table's beam
\* and polarisation, with its own powers, and none is written twice: nothing of
\* an earlier run and nothing of a neighbouring spectrum gets in.  (Into the
\* tables of a block without channels gets whatever was left in the block.)
RowsAreDetections ==
  Written =>
    \A b \in BorsIds, input \in Inputs :
      /\ RowsOf(b, input) \subseteq
           {Row(p) : p \in {q \in Detections(b) : q.input = input /\ q.fine # 0}}
      /\ Cardinality(RowsOf(b, input)) = Table(b, input).NHITS

\* A beam or subspectrum with no more detections than maxhits loses none of
\* them but those in the DC bin; one with more fills its tables up to maxhits,
\* the hits in the DC bin counted.
NothingLostBelowLimit ==
  Written =>
    \A b \in BorsIds :
      LET found == Detections(b)
          kept  == UNION {RowsOf(b, input) : input \in Inputs}
          dc    == {p \in found : p.fine = 0}
      IN  IF Cardinality(found) <= maxhits
          THEN kept = {Row(p) : p \in found \ dc}
          ELSE Cardinality(kept) >= maxhits - Cardinality(dc)

\* The columns POLX and POLY are the powers of the coarse channels in the one
\* and the other polarisation.  This is so for the order of the spectra of the
\* DIBAS build only.
CcPowersArePerPol ==
  Written /\ build = "DIBAS" =>
    \A b \in BorsIds, c \in Chans :
      LET Sum(input) == MapThenSumSet(
                          LAMBDA f : Power([bors |-> b, input |-> input, chan |-> c, fine |-> f]),
                          Fines)
      IN  ccpwrs[b * N_CC + c] = [POLX |-> Sum(0), POLY |-> Sum(1)]
=============================================================================
