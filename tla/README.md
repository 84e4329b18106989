# SERENDIP VI: a TLA+ model of the data recorder

SERENDIP VI receives the digitized signal of a radio telescope as UDP packets,
looks for narrow-band signals ("hits") on a GPU and records them in ETFITS
files.  One hashpipe instance is three threads joined by two rings of blocks in
shared memory.  The source has three builds, for FAST (`SOURCE_FAST`, the only
one `src/src/Makefile` makes), Arecibo (`SOURCE_S6`) and Green Bank
(`SOURCE_DIBAS`); they share the rings, the GPU code and the output thread and
differ in the network thread, the layout of the data and the observatory's
status, which reaches the output thread through a redis database.

    kernel ring -> [network thread] -> input ring -> [GPU thread] -> output ring -> [output thread] -> files
                    s6_pktsock_thread   24 blocks     s6_gpu_thread    3 blocks      s6_output_thread
                    (AO, GBT:                                                        + s6_etfits
                     s6_net_thread)                                                     ^
                                        observatory -> [daemon] -> redis ---------------+
                                                       s6_observatory_ao/_gbt

## The system and its components

| component | state it keeps | operations | what makes it correct | module |
|---|---|---|---|---|
| network thread, blocks (`process_packet` and its helpers) | `binfo` (first mcnt and index of the current block, out-of-sequence count, packets per block), the headers and data of the two blocks it holds, the static `last_filled` | take an expected packet, fill a block and wait for the next, ignore a late packet, count an out-of-sequence one, reset | it never writes into a block it gave away; blocks are filled in ring order; headers say what the data are; losses are counted; it recovers from any disruption | `PktSock`, `PktStream`, `InputRing` |
| network thread, receive loop | the index into the kernel's ring of frames, the frame in hand | drop early packets, receive, reject by size, process, release | each packet is seen once and in order; no frame is leaked | `FrameRing` |
| shared rings (`s6_databuf`) | one semaphore per block | wait for free or filled, set free or filled | a block has one owner | in `InputRing`, `Pipeline` |
| GPU thread | an index into each ring, the status key ADCRMS | wait for an input block and for a free output block, copy the header, compute, hand on, free | each block is processed once, whole and in order | `Pipeline` |
| output thread | its index, `faststatus`, the previous receiver, RUNALWYS and channel count | wait, get the observatory's data, change files, record, free | every block is recorded in the right file | `Pipeline`, `Etfits`, `DumpVolt` |
| ETFITS files | the `etfits` struct (`new_run`, `new_file`, `file_open`, `integration_cnt`, the names) | create, write an integration, roll, close and rename | no integration is lost; a renamed file is final | `Etfits` |
| status buffer (hashpipe) | the keys RUNALWYS, TESTMODE, DUMPVOLT, ADCRMS, NETMCNT | set and read by operators and threads | a request is served once; a value belongs to what it is recorded with | `DumpVolt`, in the others |
| named GPU semaphore | its name, its value, who has it open | create or open, wait, post, unlink; kill and restart of the instances | one instance at a time; no kill leaves others waiting for the dead | `GpuShare` |
| network thread of several beams (`s6_net_thread`) | `binfo`, counts of missed packets per beam and per block, the key NETHOLD | hold and release, take, fill, reset | as for the first; and no beam's faults cost another beam its data | `NetBeams` |
| spectroscopy (`s6GPU.cu`) and the tables of an integration (`write_ccpwrs`, `write_hits`) | the output block's hits and channel powers | find the hits of a beam or subspectrum, write the tables | every row is a detection of its own block, beam and polarisation; none is lost below the limit | `Hits` |
| AO daemon and query (`s6_observatory_ao`, `s6_obs_data`) | the groups of status in redis, `scram`, the count of standing AGCTIMEs | copy a group, query group by group, decide on the receiver | a receiver is recorded only on recent evidence; a dead daemon is noticed | `ObsAO` |
| GBT daemon and query (`s6_observatory_gbt`, `s6_obs_data_gbt`) | the keys in redis, `gbtstatus`, the lag counts, the file's name | poll mysql, read CLEO, query key by key, change files, announce them | a file holds one circuit's blocks; the operator's switch works; silence is noticed | `ObsGBT` |
| redis (FAST) | the observatory's RECEIVER, pointing | query | - | an input of `Etfits` |
| synthetic source, small tools, most of the scripts | | | | not modelled, see the end |

The threads share only the rings and the status buffer; the daemons and the
output thread share only redis, one command at a time.  A block is handed over
by its semaphore: `set_filled` passes it downstream, `set_free` back.  The hard
parts are the network thread's window over a counter that may jump, restart and
roll over, while it always holds two blocks; three threads with independent
indices into the rings; requests and values passed through status keys, some
without the lock; files that change for five different reasons; and queries of
many commands against a database that changes, or has stopped changing, between
them.  Every hazard is listed at its line in `PROJECT.json`.

## Modules

**`PktSock`** is the network thread, one action per path through
`process_packet`, plus the two waits at its start.  `mcnt_start`, `block_i`,
`out_of_seq_cnt` and `block_packet_counter` are the fields of `binfo`;
`block[b]` is a block of the ring: its header's `mcnt` and `missed_pkts[0]`,
and as its data the set of offsets that hold a packet (`slots`).  `sem[b]` is
the block's semaphore.  `FillBlock` and `AcquireNext` are one call of
`process_packet` cut at its only wait, `s6_input_databuf_busywait_free`: in
between, the packet is still in hand (`pkt`).  The network is the most general one (any
packet at any time, with a good or a bad sid), and so is the downstream thread
(any filled block may be freed).  `missed_pkts` keeps its wrap-around
(`WordMod` for 2^64) and the mcnt field its width (`McntMod` for 2^56);
`mcnt_start` is a `uint64_t` that no packet can bring near its limit.
Abstracted: a packet's payload, the time stamp, sid and channel fields of
a block's header, and the status keys other than NETMCNT.

**`InputRing`** is what the network thread promises: it owns the current block
and the next, writes only into these, fills only the current one and then owns
the one after next as soon as that is free.  `PktSock` implements it
(`ImplementsInputRing`), and `Pipeline` uses `InputRing`'s actions as its
network thread.

**`PktStream`** closes `PktSock` with one digitizer that numbers its packets,
may restart and rolls over, and a network that loses and reorders.  That is what it
takes to say that the loss counts are exact and that blocks keep coming.

**`Pipeline`** is the three threads and both rings, with a stamp for a block's
contents.  A header and the hits are copied by two steps of the GPU thread, so a
torn block would show.  `Stop` and `Cancel` are hashpipe's `run_threads` flag
and the cancellation of waiting threads.  **`BlockFifo`** is its abstract specification: a
bounded queue.

**`FrameRing`** is the receive loop of `run()` and the `PACKET_RX_RING` it
shares with the kernel; the kernel and hashpipe's `pktsock` functions are
external, modelled from how `run()` uses them.

**`Etfits`** is the part of the output thread that decides when to change files
and what to record, with the life of a file in `s6_etfits.cpp`.  A processed
block is one action (`ProcessBlock`): no other actor touches the thread's
variables or the files, and the status keys and the database, which may change
at any moment, are read as arbitrary inputs.  `etf` is the `etfits` struct,
`working` and `fits` the directory.  A file's name has the receiver, the beam with
the polarisation (one number, `sid`) and the second in which it was begun.  Beam
and polarisation come from the header of the block at hand (`Header`), which says
zero in the first blocks of a run: `zero_headers` is how many of them are still to
come, at most two, since a reset of the network thread's window may fill in the
right values before they are used.  `etfits_close` may fail to rename the file; the
code then logs the error, has already cleared `file_open`, and goes on.  `Restart`
comes at least a second later, the clock is never set back, and CFITSIO creates
no file over another of its name.  `written` (block to name of the file it was
recorded in) and `unrenamed` (the files of the logged errors) are history.

**`DumpVolt`** is the DUMPVOLT status key between its three writers.

**`GpuShare`** is the named semaphore with which the GPU threads of the two
instances on a machine serialize `spectroscopy()`.  It is kernel-persistent:
`name` is what its name refers to and `gpu_sem[i]` what instance `i` has open,
which differ once the name was unlinked (`Fini`) or removed (`InitScript`).
`StopScript` is the `pkill -9` of `s6_stop.sh`, `Crash` an exception inside
`spectroscopy()`, `Cancel` hashpipe's cancellation, which skips `sem_unlink`.

**`NetBeams`** is the network thread of the multi-beam receivers.  It shares
`PktSock`'s shape, but the packets of all beams go into one block under one
window, losses are counted per beam (in the block's header, `missed`) and per
block (`block_missed`), and the thread waits at its start until a script
releases NETHOLD.  The network is one digitizer per beam: they keep step, any
may lose packets, be restarted or fall silent, and packets of no beam arrive.
A vector of packets from `recvmmsg` is received packet by packet.  It
implements `InputRing`, too.  `insync` and the fault counts are history.

**`ObsAO`** is the path of the receiver in focus at Arecibo: the telescope, the
daemon that sets a redis hash per group of status as it arrives, and the output
thread's query, one action per command, any of which may fail.  Times are kept
as ages up to the first that is too old.  `silent`, `DaemonDies` and
`DaemonRestarts` are the faults.

**`ObsGBT`** is the same path at Green Bank: a daemon that takes turns between
a mysql table and the CLEO socket and can block on either, a query of some
hundred keys (those that decide something are kept: both sources' MJD, the
circuit, and the operator's switch), and the part of the output thread that
changes files on their account and announces a file's name in redis (a failed
connection ends the thread, a failed SET goes unnoticed: `Announce`).
`RecvFails`, an error of `recv`, sends the daemon back to mysql; it counts as a
fault.  If it came for ever, mysql's data would be late now and then, each time
with a lag count that the other query's success has reset, and TLC finds
`StaticIsNoticed` violated: that property is about a source that falls silent.

**`Hits`** is what `spectroscopy()` does to a block of powers and what the output
thread makes of it: a pure algorithm in one module with the two loops that call
it, against a reference definition (`Detections`, `Row`, `LocalSum`) stated on
the signal alone.  `build` selects the layout of the data, `Places` are all
places for a narrow line, and `NextBlock` finds the output block either cleared
or as a killed instance left it.

**`Arithmetic`** has the lemmas on `\div` and `%` of ring indices, on distances
around a ring, on sums over sets and over stretches of numbers, and on picking
the entries of an array in order; **`PktSockProofs`** (which is also about `PktStream`),
**`PipelineProofs`** (also about `GpuShare`), **`FrameRingProofs`**,
**`EtfitsProofs`** (also about `Hits`), **`NetBeamsProofs`**, **`ObsAOProofs`** and
**`ObsGBTProofs`** have the theorems about the modules they are named after.

## What TLC checks

| run | bounds | question and result |
|---|---|---|
| `PktSockAny` | ring of 3 blocks of 2 mcnts, 13 mcnts, words modulo 8, 3 packets counted per block | any packets: types, two blocks held, ring order, headers, counters; filled blocks are stable; implements `InputRing` |
| `PktStream` | blocks of 4, 40 mcnts, 2 packets overtaking, 1 loss, 1 restart, good sids | reported losses are the gaps; NETMCNT is the block last filled; blocks keep coming |
| `Pipeline` | 4 input and 3 output blocks, 8 stamps | implements `BlockFifo`; what is filled is recorded; the threads never wait for each other all round; ADCRMS is at most 2 blocks too new |
| `FrameRing` | 4 frames, serials modulo 6, 2 packets of a wrong size | data packets are seen once, in order; without wrong sizes reception never stops |
| `Etfits` | 2 receivers, `Sid` 1, 3 blocks, 2 seconds, 1 restart | of a running program's files only the open one and reported ones keep `.working`; counts; receivers and beams are those of the name; a recorded block stays in its file unless the name is used again within its second; after that second a renamed file is final |
| `GpuShare` | 2 instances, any number of starts, ends and kills | the GPU is used by one at a time; nobody waits for a semaphore that is not posted, unless a process died by itself while it held it |
| `NetBeams` | 2 beams a packet apart, ring of 3 blocks of 2, 28 mcnts, 1 loss, restart or stray packet, any silence | losses beam by beam; both counts agree; the window is reset only when no beam is in it; implements `InputRing`; blocks keep coming while the beams that send are in step |
| `ObsAO` | groups AGC, IF2 and TT, 3 settings, tolerance 1, 1 change, any number of errors | ALFA only on evidence within the tolerance; answers from a standing database are bounded; a dead daemon leads to errors |
| `ObsGBT` | 2 circuits, tolerance 0, 2 acts or faults, 1 failing command | a file holds one circuit's blocks; the switch takes effect; a silent source or dead daemon leads to errors |
| `Hits` | 3 builds, 2 beams of 2 channels of 5 bins, window 2, up to 2 lines, limits of 1 and 2 hits | every row is a detection; nothing is lost below the limit; DIBAS's channel powers are split by polarisation |
| `FrameRingBad` | as `FrameRing`, 1 wrong size | violated: a rejected frame is never released |
| `DumpVolt` | 2 requests, 3 dumps | violated: dumps without a request |

The two violated runs each check one sentence of the source; `findings` in
`PROJECT.json` quotes it.

*Bounds.*  `PktSock` needs three blocks (two held, one away).  With 13 mcnts the
counter rolls over inside the ring (a ring covers 6) and past
`LATE_PKT_MCNT_THRESHOLD` (12), and 13 is not a multiple of the ring, as 2^56 is not of the real
one of 24 blocks; `mcnt_start` goes beyond the counter's range.  Three
packets per block of two are enough for duplicates to take `missed_pkts` under
zero.  `PktStream`'s counter is just long enough for `RolloverAssumption`: after a
rollover the stream must be late enough to be reset rather than ignored.  In
`Pipeline` the output ring is full-sized and the input ring has one more block
than the minimum; the stamps must exceed the blocks on their way.  In `Etfits`
three blocks suffice for a file change in and out of test mode with something
recorded in each; they also take a run past its two blocks with zeros for a
header.  Within two seconds two files get one name or two, and a restart falls
between them; `Sid` is not 0, so that the zeros are wrong.  `CHECK_DEADLOCK FALSE` is used where the bound on blocks or
the end of the program stops the model (`Etfits`), where a ring that has leaked
every frame stops (`FrameRing`), and for `DumpVolt`'s bounds.

`NetBeams` needs two beams for one to disturb the other and a counter that is
longer than the threshold for late packets (12) beyond the window, by what may
be sent before a reset (`RolloverAssumption`); 28 is also enough for
two beams' counters to be further apart than the threshold both ways, which is
what `BlocksKeepComing` excepts (`InStep`, see the remarks).  The run
starts nine packets before the counter rolls over.  `ObsAO`
keeps one group of each role: the one that shows a standing database, and two
that decide on the receiver, read by different commands, so that a query can be
torn between them.  `ObsGBT`'s two acts are enough for a switch or a change of
circuit with a fault (a silence, a failing `recv`, a dead daemon); with one failing command a query is torn once at any
place.  In `Hits` five bins are the least in which a window of two is moved at
both ends and in place between; two lines fall into each other's windows,
into neighbouring spectra, on the DC bin and over the limit.  The query loops
of `ObsGBT` may end (`CHECK_DEADLOCK FALSE`): the thread exits when the
announcement fails.

`GpuShare` has the two instances that `s6_init_fast.sh` starts, on the same
device, and no bound besides.  Two is also what the code supports
(`TwoInstances`): with three, one may end and unlink the name while a second
computes, and a third that is slow to start then creates a second semaphore.
The end of the instances is the only way to take the name away, and with two
nobody is left to be excluded.

*Fairness.*  Each thread is a loop that the operating system schedules: weak
fairness of its steps.  `PktStream` adds that the digitizer sends and the
network delivers what it does not lose; losses and restarts are never forced.
`Pipeline` does not assume packets: the network thread need not fill
blocks.  `FrameRing` assumes strong fairness of the kernel's receipt of data
packets: the ring has room only again and again, and packets come without end.
`GpuShare` assumes strong fairness of `sem_wait`: a thread that has posted
needs new blocks and a copy to the GPU before it asks again, so that the other
is not passed over for ever; blocks need not come and the scripts need not run.
`NetBeams` is fair to the thread, to the script that releases the hold, to the
live beams together (none in particular) and to the thread downstream.  `ObsAO`
assumes only that the output thread goes on querying, which it does for every
block; `ObsGBT` that, and that time passes.  Neither assumes anything of the
daemons: what is shown of them is that the reader notices.
`KeepsReceiving` excepts the case that the start-up loop never finds the ring
empty, which nothing in the code prevents.

## What is proved

Where not said otherwise a theorem is about the module's `Spec`, and the named
assumptions of that module are all it uses.

`PktSockProofs` proves eight theorems of `PktSock!Spec` for every ring of at
least three blocks, every block of at least two mcnts, every counter
and word width (`WordMod > Nm`), and every value of the bound:
`TypeCorrect`, `OwnershipHolds`, `RingOrderHolds`, `HeadersHold`,
`FilledBlocksKeep`, `CountsHold`, `NetmcntHolds` and `RingImplemented`.

The invariants are not inductive by themselves.  `IInv` is `TypeOK` with
`WindowInv`, which contains `HoldsTwoBlocks`, `FillsInRingOrder` and
`HeadersCoverWindow` and the facts these need: `mcnt_start` is a multiple of
`Nm` (so a block's worth of mcnts moves the ring by exactly one block); it is
zero until the first two blocks are held; the current block keeps its header
during the wait for the next; and the packet in hand then belongs to
the window's first block, so that `initialize_block(pkt_mcnt + Nm)` recycles
exactly the block just acquired and the packet's own counter has room.  The
one hard step is `ResetMcnt`: the lemmas of `Arithmetic` show that moving
the packet's mcnt forward by its distance in the ring lands on `block_i`.
`CountsInv` adds, on top of `IInv`, the agreement of the two counters during
the wait.  `RingImplemented` maps every step to a step of `InputRing` or a
stutter.  `NetmcntHolds` has a hypothesis, `SidVerdicts = {TRUE}`: with a packet
of a bad sid in the block's last place the thread returns before it reports the
block, and TLC shows the property violated.  Its invariant `NetmcntInv` says where
the block filled last begins during the wait; in a ring of three it is neither of
the two held, so its header stays.

The same module proves two theorems of `PktStream!StreamSpec`, for every
number of losses and restarts and every `MaxFlight`.  `StreamImplementsPktSock`
makes the theorems above available for the thread with one digitizer.
`GapsReported` (`MissedIsGaps`) is exact accounting: an offset never receives a
second packet.  That is a fact about sender, network and window together.
`FlightInv`: packets in flight are recent.  `TakenInv`: every packet in the
window's blocks (`Taken`) is `Gone`, not in flight and not about to be
sent, which after a rollover of the counter could fail only if the sender came
round to the window again.  It does not, because the sender can be past the
window (`Past`) only by packets in flight, lost, counted as out of sequence, or
that overtook one that was expected (`Budget`), and the counter is longer than
any such excursion (`RolloverAssumption`) before a reset moves the
window.  `GapsInv` adds the count itself, a block in use at a time.
`RolloverAssumption` has `2 * MaxFlight`: packets may overtake both a late one and
the one that completes a block.  `SenderAssumption` (good sids) is used by
these two theorems only.

`PipelineProofs` proves `ShareTypeCorrect` and `GpuSerialized` of
`GpuShare!ShareSpec` for at most two instances.  The invariant `SInv` adds to
`Serialized` that an instance has a semaphore open exactly between `sem_open`
and its end (`Closed`), that the semaphore's value is zero while an instance
uses the GPU (`Taken`), and that two instances have the same one open, which
holds only because, while one has it open and the other is about to open it,
the name still refers to it (`SameSem`).  `TwoInstances` is used in one place,
the step `Fini` that unlinks the name.

It proves five theorems of `Pipeline!Spec` for an input ring of at
least three blocks and an output ring of at least one: `PipelineTypeCorrect`,
`RmsStaysRecent`, `BlocksRecordedInOrder` (each block recorded is whole and the
one after the block recorded before), `FifoImplemented` and
`ThreadsNeverAllWait`.  The invariant
`PipeInv` says that three numbers fit the state: `z`, how many blocks were
recorded and freed, and `m` and `n`, how many filled blocks the output and the
input ring hold.  `InputWindow` and `OutputWindow` then give, for every block of
either ring, its semaphore and its contents by its distance from the thread that
comes to it next, and `Latest` what the GPU thread last computed and the output
thread last recorded.  The overlap of the two hand-overs (`set_filled` before
`set_free`) is the number `Handed`: one block is in both rings, and it is
not counted twice.  `RmsStaysRecent` follows because ADCRMS is at most the
latest of at most `N_OUTPUT_BLOCKS` blocks in the output ring.  For `FifoImplemented` the
refinement's queue is shown to be `Stretch`, a run of consecutive stamps that
a filled block lengthens at one end and a recorded one shortens at the other.
`ThreadsNeverAllWait` reads off the windows that a network thread that waits has
filled its ring up to the GPU thread's block, and a GPU thread that then waits has
filled the output ring up to the output thread's.

`NetBeamsProofs` proves six theorems of `NetBeams!Spec`, for every ring of at
least three blocks, any number of beams, skew and faults.  `BeamsTypeCorrect`
and `BeamsRingImplemented` rest on `IInv`, as in `PktSockProofs`.
`MissedHolds` (`MissedIsGapsPerBeam`) needs what `GapsReported` needs, for each beam: a beam's
packet never comes twice, because the beam does not get round to the
window again.  Here a beam that is slow or has rolled over while another has not keeps the window
where it is, so `LeadInv` ties the beams' counters to each other, and `Budget`
bounds how far any beam can have left the window behind: the skew, the
losses, a run of out-of-sequence packets, and a new run for every stray that
was taken for an expected packet.  `RolloverAssumption` says that the counter is longer than
that.  `ReportInv` carries the counts from the header to the status, where they
stay until the next block is filled.

`TotalsHold` (`TotalsAgree`) is about a sum over the beams, which the library
defines by recursion over the subsets of a set.  Two functions that obey the
recursion (`Sums`) agree, since there is no smallest set on which they differ
(`SmallestSet`, from the well-foundedness of the strict subsets of a finite
set); the same argument gives that the sum exists, is monotone, is `c` times the size
for a constant, and changes by `d` when one value does (`SumsExist`,
`TotalMonotone`, `TotalConstant`, `TotalChange` of `Arithmetic`).  With these `TotalsInv` is checked
step by step: of each block in hand the sum of what the beams missed and the
packets counted make up all packets of a block, modulo the word.

`ResetHolds` (`ResetNeedsEveryBeam`) uses the sums again.  `SyncInv`: since a
beam's packet was last in the window only strays and the other beams'
packets were counted as out of sequence, and of these there are no more than
their leads over the beam have grown, and one each for every packet the beam
lost (`SentSince`).  The hypothesis `FewFaults` is that this stays within
`MAX_OUT_OF_SEQ`: `strays + (N_BEAMS-1) * (2 * MaxSkew + losses)` is at most
`2 * N_BEAMS`.  It is a bound on losses and strays, not on restarts, and TLC's
instance satisfies it (`ResetHoldsForFew`).  With Arecibo's seven beams a skew
of one packet leaves room for two strays but for no loss.

`FrameRingProofs` proves `ReceiveTypeCorrect` and `FramesSeenInOrder` of
`FrameRing!Spec` for every number of frames.  `RingInv` has two cases.  Either
the kernel is `n` frames ahead of the thread (`Window`): the user owns exactly
these, the one in hand and rejected ones behind, and the data packets among them bear
consecutive serial numbers from the last seen to the last sent.  Or the thread
has gone round to a frame that it rejected and never released (`Stuck`), and
nothing is received any more.  Order thus holds with the leak as well; what the leak
breaks is liveness (`FrameRingBad`).

`EtfitsProofs` proves seven theorems of `Etfits!Spec`, for any receivers, any beam and any
number of blocks, seconds and restarts: `EtfitsTypeCorrect`, `ClosedHolds`,
`CountHolds`, `NamedHolds`, `BeamHolds`, `WrittenKept` and `ReadyFilesFinal`.  None
assumes anything of when files are changed.
`FilesInv` is an invariant of the directory and the `etfits` struct, which the
operators of `s6_etfits.cpp` (close, create, write, and the change of
files) are each shown to preserve: the open file and those that could not be renamed
are the only ones of this run that are still working, and `integration_cnt` is the
open one's length (`OpenFile`); a block on disk is in the file it was recorded in and
at one place there (`Once`); a block that is not was in a file whose name was used
again, by a file that has later blocks only (`Kept`).  That file may
still be the open one, about to replace the other, so `Kept` speaks of the `.fits` files
(`InFile`) and of the `.working` ones (`Later`); between blocks an open file has something recorded (`Between`).  A processed
block is the composition of these operators, so that its proof follows the code
from `etfits_close` to `WriteIntegration`, with the error in each place.
`EtfitsInv` adds that an open file is named for the receiver that the thread
compares the next one with (`OpenReceiver`), the reason why a change of receivers is never missed,
and that the number of channels of the last change of files tells whether the open
file was begun under a header of zeros (`OpenBeam`), the reason why its beam is
right although nothing compares beams.  For `ReadyFilesFinal`, closing a file is
shown to change a `.fits` file only where there is a `.working` one of its name
(`Settles`), and a step to begin no file but one of the present second.

The same module proves three theorems of `Hits!HitsSpec`, `RowsHold`,
`NothingLostHolds` and `CcPowersHold`: for each build, any number of beams,
channels and bins, any window, threshold and limit, and any lines.  Here the
difficulty is the data.  `ElementOf` and `PlaceOf` are shown inverse
to each other for all three layouts (`ElementOfPlace`, `PlaceOfElement`), so that
`PowerAt` finds an element's power from its place.  What is defined by
recursion (the scan before the running mean, `copy_if`, `rows`) is the CHOOSE of a
function that obeys its recursion; that one exists and is unique is shown by
`CountUp`, which is induction over the naturals stated for sets, in first-order
form.  `Scanned` then makes the scan a sum over a stretch of elements, `BaselineAt`
the difference of two scans the `LocalSum` of the reference definition, also
where the window is cut off at either end of a spectrum; `CopiesOver` and
`DetectionsCounted` say that `copy_if` keeps exactly the detections, each once, and
`HitsRight` and `PowersRight` that one call of `spectroscopy()` leaves its beam's part of
the output block right (`RightBeam`).  `RowsPicked` and `RowsRight` carry the hits into
the rows of their table.  `HitsInv` adds the control: the beams before `bors` are right
while the GPU thread is between two of them, and all are when it writes
(`BeamsDone`); nothing else in the output block is read, so a killed run's hits in it
do no harm, except in a block without channels, which the properties leave out.

`ObsAOProofs` proves `ObsTypeCorrect`, `AlfaFromRecentEvidence` and
`StaleAnswersHold` of `ObsAO!Spec` for every set of groups, tolerance and number
of changes.  `EvidenceInv`: what an entry reports, in redis or as read by the
query, has held since the entry was made; this survives whatever happens between
two commands, since condition and entry grow older together.  The answer then
need only look at the entries' ages.  `StaleInv` bounds the answers given since
AGCTIME last moved by the reader's count, with one more for a query it moved in.

`ObsGBTProofs` proves `GbtTypeCorrect`, `FilesOfOneCircuit` and `OffHolds` of
`ObsGBT!Spec` for all circuits and tolerances and any number of acts and
failures.  `FileInv`: the open file's circuit is `prior_receiver`, which is what the last
recorded block was of, also when a query fails between the circuit and the
switch.  `SwitchInv`: once a block was recorded too late, a good query that
has ended has read the switch as off.  `RowInv` is needed for the types: a row
that was copied has an age in redis.

Liveness (`BlocksKeepComing`, `FilledIsRecorded`, `KeepsReceivingWellSized`,
`NobodyWaitsForTheDead`, `DeadDaemonIsNoticed`, `StaticIsNoticed`) is only
model-checked, because the provers do not reach it.  Every invariant and every
action property that a passing run checks is also proved.  The two violated
properties are counterexamples and need no more than TLC.

The `TypeOK` of `Pipeline`, `FrameRing`, `NetBeams`, `ObsAO` and `Etfits` are in no run
because they are proved.

## Remarks on the code

- `s6_output_thread.cpp:153` names `faststatus_p` outside its `#ifdef`, so that at
  this commit the output thread compiles only for FAST.  The branches for the
  other two builds are modelled as they are written.
- `TIME`, set "for this block of hits", is overwritten by the observatory's
  database before anything reads it (FAST).
- `s6_seti_ao_timeMS2unixtime` goes back to the midnight before `now`, so that a
  reading from just before midnight AST that is converted just after it is dated
  a day late, although its comment (`s6_time.c:7`) asks only that `now` be less
  than 24 hours ahead of the reading.
- Two changes of files within a second give both files the same name, and the
  second, when it is closed, replaces the first, although "We rename to mark the file as
  ready for post-processing or transfer" (`s6_etfits.h:59`).  A FAST
  block lasts about 0.27 s; an instance with sid 0 that records from its
  start can get there by itself, since the number of channels changes at its second or third
  block, and any instance when an operator unsets and sets RUNALWYS.  `WrittenIsKept` and `ReadyIsFinal` therefore
  say that this is the only way to lose a block, and only within that second.
- A failed rename is only logged ("TODO - exit here?", `s6_etfits.cpp:410`): the closed
  file keeps its `.working` name for good, like that of a killed program.
- The last element of a beam's powers is taken for padding and stays zero, so
  the top bin of the last spectrum never holds a hit (`Power` in `Hits`).
- The channel powers are split by stride 2, which is the order of the DIBAS
  data only; at Arecibo POLX and POLY mix channels of both polarisations
  (`CcPowersArePerPol` is restricted to DIBAS).
- A block without channels (AO's first two) writes tables of whatever the output
  block held, which after a kill is the killed run's hits (`NoSpectroscopy`).
- Late packets are ignored within a threshold "so we can handle gateware restarts
  and MCNT rollover" (`s6_net_thread.cpp:602`).  If one beam of two is
  restarted and the counters are then further apart than the threshold, each
  beam's packets are out of sequence to the other's window, and
  once the count is past its limit every packet resets it: with packets that
  alternate strictly the window goes to and fro and no block is ever completed.
  TLC finds this when `InStep` is left out of `BlocksKeepComing`.
- At AO nothing bounds the age of the values that decide for 327 MHz, only for
  ALFA; and a query that fails keeps the last receiver.
- At GBT a query that fails before it reads the operator's switch takes it for on;
  and the daemon blocks on a CLEO socket that is silent, because `O_NONBLOCK`
  is set on another descriptor.

## What is not modelled, and why

- Floating point: the FFT, the rounding of sums and means, times and pointings
  (`s6_time.c`, `s6_obsaux_*`).
- The columns of the primary and integration headers of a file, and statistics,
  logging and status displays, on which nothing in the program depends.
- The `sid` and channel count of a block's header but for the zeros of the first two
  blocks: they come from the packet that initialises the block, and a stray one
  of another beam would name a file wrongly.  The shutdown of the network thread.
- The synthetic source (one block at a time, a stand-in for bench tests), and
  `s6_net_null_thread.cpp`, which only times the reception of packets.
- The daemons' replay, test and file options; small tools; the scripts but for
  what they do to processes, the semaphore and NETHOLD.
- `MAXHITS` above the size of the output arrays: undefined behaviour that the
  scripts' setting excludes (`MaxHitsAssumption`).

## Plan

Done: `InputRing`, `PktSock`, `PktStream`, `BlockFifo`, `Pipeline`,
`FrameRing`, `Etfits`, `DumpVolt`, `GpuShare`, `NetBeams`, `ObsAO`, `ObsGBT`,
`Hits`, and the proofs named above, of all modules but `DumpVolt`, whose one
property is violated.

Next: the `sid` and channel fields of the headers in `PktSock`, and from there what a
stray packet does to the names of files.
