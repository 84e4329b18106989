------------------------------- MODULE Etfits -------------------------------
(***************************************************************************)
(* The output files: the part of the output thread that decides when to    *)
(* change files and what to record (run() of s6_output_thread.cpp), and    *)
(* the life of an ETFITS file (s6_etfits.cpp).  A file is written under    *)
(* the name <receiver>_<time>.working and renamed to .fits when closed.    *)
(*                                                                         *)
(* Around the thread: the status keys RUNALWYS and TESTMODE, which an      *)
(* operator sets at any time, so that any value may be read each time; the *)
(* observatory database, the clock, FITS errors, the file system, the end  *)
(* of the program and its restart.  A file is the sequence of the          *)
(* integrations recorded in it; each is flushed as soon as it is written.  *)
(* Left out: the idle flags, which only set the status key IDLE.           *)
(***************************************************************************)
EXTENDS Integers, Sequences, FiniteSets, Functions

CONSTANTS
  Receivers,    \* the receivers the observatory reports
  Sid,          \* beam and polarisation of the instance, in one number
  MaxBlocks,    \* bound: blocks processed
  MaxSecond,    \* bound: seconds on the clock
  MaxRestarts   \* bound: restarts of the program

ASSUME ReceiverAssumption ==
  Receivers # {} /\ Receivers \cap {"", "S6TEST"} = {}
ASSUME CountAssumption ==
  MaxBlocks \in Nat /\ MaxSecond \in Nat /\ MaxRestarts \in Nat
ASSUME SidAssumption == Sid \in Nat

VARIABLES
  run_threads,          \* hashpipe's flag
  clock,                \* seconds
  restarts,             \* restarts of the program so far
  started,              \* when the program was started
  pc,                   \* "top" and "wait" of the loop, or how the thread ended
  run_always, prior_run_always,   \* locals of run()
  prior_receiver, num_coarse_chan,
  RECEIVER,             \* fastreceiver, "" before it is first assigned
  zero_headers,         \* blocks to come with the header that the start gave them
  etf,                  \* new_run, new_file, file_open, integration_cnt, name
  working, fits,        \* the files of either kind: names -> integrations
  unrenamed,            \* history: the files of the messages "file rename error"
  blocks,               \* blocks processed so far
  written               \* history: those that were recorded -> names of their files

env == <<run_threads, clock>>
locals == <<run_always, prior_run_always, prior_receiver, num_coarse_chan, RECEIVER,
            zero_headers>>
run == <<locals, etf>>
disk == <<working, fits, unrenamed>>
vars == <<env, restarts, started, pc, run, disk, blocks, written>>

Sids == {0, Sid}
Names == [receiver : Receivers \cup {"", "S6TEST"}, sid : Sids, second : 0 .. MaxSecond]
CoarseChans == {0, 1}     \* num_coarse_chan of a block's header
NoName == [receiver |-> "", sid |-> 0, second |-> 0]
Integrations == [block : 0 .. MaxBlocks-1, RECEIVER : Receivers \cup {"", "S6TEST"},
                 sid : Sids]

Put(files, name, content) ==
  [n \in DOMAIN files \cup {name} |-> IF n = name THEN content ELSE files[n]]

-----------------------------------------------------------------------------
(* s6_etfits.cpp.  The operators map a record of etf, working, fits and    *)
(* unrenamed to the next one.                                              *)

init_etfits == [new_run |-> TRUE, new_file |-> TRUE, file_open |-> FALSE,
                integration_cnt |-> 0, name |-> NoName]

\* Mutant: the file is copied to its new name.
etfits_close_KeepsWorking(s, renamed) ==
  [etf |-> [s.etf EXCEPT !.file_open = FALSE],
   working |-> s.working,
   fits |-> Put(s.fits, s.etf.name, s.working[s.etf.name]),
   unrenamed |-> s.unrenamed]

\* Close the file and rename it, which replaces a .fits file of that name.  If
\* the rename fails, that is reported and the file keeps its .working name; the
\* program goes on as if it were closed well.
etfits_close(s, renamed) ==
  [etf |-> [s.etf EXCEPT !.file_open = FALSE],
   working |-> IF renamed THEN Restrict(s.working, DOMAIN s.working \ {s.etf.name})
                          ELSE s.working,
   fits |-> IF renamed THEN Put(s.fits, s.etf.name, s.working[s.etf.name]) ELSE s.fits,
   unrenamed |-> IF renamed THEN s.unrenamed ELSE s.unrenamed \cup {s.etf.name}]

\* Begin a file of this name.
etfits_create(s, name) ==
  [etf |-> [s.etf EXCEPT !.new_run = FALSE, !.file_open = TRUE, !.name = name],
   working |-> Put(s.working, name, <<>>),
   fits |-> s.fits, unrenamed |-> s.unrenamed]

\* Mutant: the count is kept.
LeaveFile_KeepsCount(s, renamed) ==
  LET left == IF ~s.etf.new_run /\ s.etf.file_open THEN etfits_close(s, renamed) ELSE s
  IN  [left EXCEPT !.etf = [@ EXCEPT !.new_file = FALSE]]

\* The files and etf once write_etfits_fast has left the file it was writing.
LeaveFile(s, renamed) ==
  LET left == IF ~s.etf.new_run /\ s.etf.file_open THEN etfits_close(s, renamed) ELSE s
  IN  [etf |-> [left.etf EXCEPT !.new_file = FALSE,
                                !.integration_cnt = IF s.etf.new_run THEN @ ELSE 0],
       working |-> left.working,
       fits |-> left.fits, unrenamed |-> left.unrenamed]

NeedsFile(s) == s.etf.new_run \/ s.etf.new_file

\* Record an integration; full tells whether check_for_file_roll finds that
\* the file has reached its size.
WriteIntegration(s, integration, full) ==
  [etf |-> [s.etf EXCEPT !.integration_cnt = @ + 1, !.new_file = @ \/ full],
   working |-> Put(s.working, s.etf.name, Append(s.working[s.etf.name], integration)),
   fits |-> s.fits, unrenamed |-> s.unrenamed]

\* A file change event leaves no file open, and asks for a new one.
ChangeFile(s, renamed) ==
  LET closed == IF s.etf.file_open THEN etfits_close(s, renamed) ELSE s
  IN  [etf |-> [closed.etf EXCEPT !.new_file = TRUE],
       working |-> closed.working,
       fits |-> closed.fits, unrenamed |-> closed.unrenamed]

-----------------------------------------------------------------------------
Init ==
  /\ run_threads = TRUE
  /\ clock = 0 /\ restarts = 0 /\ started = 0
  /\ pc = "top"
  /\ run_always = FALSE /\ prior_run_always = FALSE
  /\ prior_receiver = "" /\ num_coarse_chan = 0 /\ RECEIVER = ""
  /\ zero_headers \in 0 .. 2
  /\ etf = init_etfits
  /\ working = <<>> /\ fits = <<>> /\ unrenamed = {}
  /\ blocks = 0 /\ written = <<>>

\* The environment.
Tick ==
  /\ clock < MaxSecond
  /\ clock' = clock + 1
  /\ UNCHANGED <<run_threads, restarts, started, pc, run, disk, blocks, written>>

Stop ==
  /\ run_threads
  /\ run_threads' = FALSE
  /\ UNCHANGED <<clock, restarts, started, pc, run, disk, blocks, written>>

\* The loop goes round: the key RUNALWYS is read before the wait for a block.
LoopTop ==
  /\ pc = "top"
  /\ run_threads
  /\ run_always' \in BOOLEAN
  /\ pc' = "wait"
  /\ UNCHANGED <<env, restarts, started, prior_run_always, prior_receiver, num_coarse_chan,
                 RECEIVER, zero_headers, etf, disk, blocks, written>>

Now == [etf |-> etf, working |-> working, fits |-> fits, unrenamed |-> unrenamed]

\* etf and the files become those of s.
Becomes(s) ==
  /\ etf' = s.etf
  /\ working' = s.working /\ fits' = s.fits /\ unrenamed' = s.unrenamed

\* Mutant: no final close.
FinalClose_None(renamed) == Now

FinalClose(renamed) == IF etf.file_open THEN etfits_close(Now, renamed) ELSE Now

\* The loop ends: final close.
LoopEnd(renamed) ==
  /\ pc = "top"
  /\ ~run_threads
  /\ pc' = "done"
  /\ Becomes(FinalClose(renamed))
  /\ UNCHANGED <<env, restarts, started, locals, blocks, written>>

\* The receiver that the observatory's answer (ok, and then r) leaves in
\* faststatus: no answer leaves the one before.
Faststatus(testmode, ok, r) ==
  IF testmode THEN "S6TEST" ELSE IF ok THEN r ELSE RECEIVER

\* The header of the block that comes next.  The network thread starts with
\* zeros in the first two, which a reset replaces by what the packet says.
Header ==
  IF zero_headers > 0 THEN [num_coarse_chan |-> 0, sid |-> 0]
                      ELSE [num_coarse_chan |-> 1, sid |-> Sid]

\* Mutants: the receiver or the number of channels is not looked at.
ChangesFile_NoReceiver(testmode, receiver) ==
  /\ ~testmode
  /\ run_always # prior_run_always \/ num_coarse_chan # Header.num_coarse_chan
ChangesFile_NoChannels(testmode, receiver) ==
  /\ ~testmode
  /\ receiver # prior_receiver \/ run_always # prior_run_always

\* A file change event; there are none in test mode.
ChangesFile(testmode, receiver) ==
  /\ ~testmode
  /\ \/ receiver # prior_receiver
     \/ run_always # prior_run_always
     \/ num_coarse_chan # Header.num_coarse_chan

\* The name of a file begun now.
FileName_NoTime(receiver) == [receiver |-> receiver, sid |-> Header.sid, second |-> 0]  \* mutant
FileName(receiver) == [receiver |-> receiver, sid |-> Header.sid, second |-> clock]

\* A filled block has come, the key TESTMODE has been read, and outside test
\* mode the observatory has answered.  At most one file is closed; renamed
\* tells whether its rename succeeds.  err is the FITS error that ends the
\* program: none, one on creating the file, or one on writing to it.  CFITSIO
\* creates no file over another.
ProcessBlock(testmode, ok, r, full, renamed, err) ==
  LET receiver == Faststatus(testmode, ok, r)
      change == ChangesFile(testmode, receiver)
      s1 == IF change THEN ChangeFile(Now, renamed) ELSE Now
      records == testmode \/ run_always
      creates == records /\ NeedsFile(s1)
      name == FileName(receiver)
      left == IF creates THEN LeaveFile(s1, renamed) ELSE s1
      open == IF creates /\ err # "create" THEN etfits_create(left, name) ELSE left
      final == IF records /\ err = "none"
                 THEN WriteIntegration(open, [block |-> blocks, RECEIVER |-> receiver,
                                              sid |-> Header.sid], full)
                 ELSE open
  IN  /\ pc = "wait"
      /\ blocks < MaxBlocks
      /\ err = "create" => creates
      /\ err = "write" => records
      /\ creates /\ name \in DOMAIN left.working => err = "create"
      /\ RECEIVER' = receiver
      /\ IF change
           THEN /\ prior_receiver' = receiver
                /\ prior_run_always' = run_always
                /\ num_coarse_chan' = Header.num_coarse_chan
           ELSE UNCHANGED <<prior_receiver, prior_run_always, num_coarse_chan>>
      /\ zero_headers' = IF zero_headers > 0 THEN zero_headers - 1 ELSE 0
      /\ Becomes(final)
      /\ blocks' = blocks + 1
      /\ written' = IF records /\ err = "none" THEN Put(written, blocks, open.etf.name)
                                               ELSE written
      /\ pc' = IF err = "none" THEN "top" ELSE "dead"
      /\ UNCHANGED <<env, restarts, started, run_always>>

\* The thread is cancelled in its wait after the end was ordered, or the
\* program is killed.
Die ==
  /\ \/ pc = "wait" /\ ~run_threads
     \/ pc \in {"top", "wait"} /\ restarts < MaxRestarts
  /\ pc' = "dead"
  /\ UNCHANGED <<env, restarts, started, run, disk, blocks, written>>

\* The program is started again, at least a second later.
Restart ==
  /\ pc \in {"done", "dead"}
  /\ restarts < MaxRestarts
  /\ clock < MaxSecond
  /\ restarts' = restarts + 1
  /\ clock' = clock + 1
  /\ started' = clock + 1
  /\ run_threads' = TRUE
  /\ pc' = "top"
  /\ run_always' = FALSE /\ prior_run_always' = FALSE
  /\ prior_receiver' = "" /\ num_coarse_chan' = 0 /\ RECEIVER' = ""
  /\ zero_headers' \in 0 .. 2
  /\ etf' = init_etfits
  /\ UNCHANGED <<disk, blocks, written>>

Next ==
  \/ Tick \/ Stop
  \/ LoopTop
  \/ \E renamed \in BOOLEAN : LoopEnd(renamed)
  \/ \E testmode, ok, full, renamed \in BOOLEAN, r \in Receivers,
        err \in {"none", "create", "write"} :
       ProcessBlock(testmode, ok, r, full, renamed, err)
  \/ Die \/ Restart

Spec == Init /\ [][Next]_vars

-----------------------------------------------------------------------------
(* Properties.                                                             *)

\* The variables keep to their types.
TypeOK ==
  /\ {run_threads, run_always, prior_run_always} \subseteq BOOLEAN
  /\ {clock, started} \subseteq 0 .. MaxSecond /\ restarts \in 0 .. MaxRestarts
  /\ pc \in {"top", "wait", "done", "dead"}
  /\ num_coarse_chan \in CoarseChans /\ zero_headers \in 0 .. 2
  /\ {prior_receiver, RECEIVER} \subseteq Receivers \cup {"", "S6TEST"}
  /\ etf \in [new_run : BOOLEAN, new_file : BOOLEAN, file_open : BOOLEAN,
              integration_cnt : 0 .. MaxBlocks, name : Names]
  /\ \A files \in {working, fits} :
       \A n \in DOMAIN files : n \in Names /\ Range(files[n]) \subseteq Integrations
  /\ unrenamed \subseteq DOMAIN working
  /\ blocks \in 0 .. MaxBlocks
  /\ DOMAIN written \subseteq 0 .. MaxBlocks-1 /\ Range(written) \subseteq Names

\* Of the files a running program has begun, those still under a .working
\* name are the open one and those whose rename failed with a message,
\* although files are closed in three places (file change events, file rolls,
\* the end): every other one was renamed, and the end of the loop leaves none
\* behind in silence.
ClosedIsRenamedOrReported ==
  pc \in {"top", "wait", "done"} =>
    {n \in DOMAIN working : n.second >= started}
      = {n \in unrenamed : n.second >= started}
          \cup (IF etf.file_open /\ pc # "done" THEN {etf.name} ELSE {})

\* integration_cnt, which decides whether the HDUs of the template are used or
\* new ones appended, is the number of integrations in the open file: it is
\* neither reset too late nor kept over a change of files.
CountsIntegrations ==
  pc \in {"top", "wait"} /\ etf.file_open =>
    etf.integration_cnt = Len(working[etf.name])

\* A file named for a receiver records blocks of that receiver and of test
\* mode, and of no other receiver: whenever the receiver changes, be it while
\* in test mode or while nothing is recorded, the file is changed first.
NamedForItsReceiver ==
  \A files \in {working, fits} : \A n \in DOMAIN files :
    n.receiver \in Receivers =>
      \A i \in Range(files[n]) : i.RECEIVER \in {n.receiver, "S6TEST"}

\* A file is named for the beam and the polarisation of what it records outside
\* test mode, although nothing compares these: the first blocks say beam 0, and
\* their file must not be the one of the blocks that follow.
NamedForItsBeam ==
  \A files \in {working, fits} : \A n \in DOMAIN files :
    \A i \in Range(files[n]) : i.RECEIVER # "S6TEST" => i.sid = n.sid

\* The places where block b is on disk: kind of file, name and position.
FoundAt(b) ==
  {p \in {"working", "fits"} \X Names \X (1 .. MaxBlocks) :
     LET on_disk == IF p[1] = "working" THEN working ELSE fits
     IN  /\ p[2] \in DOMAIN on_disk /\ p[3] \in DOMAIN on_disk[p[2]]
         /\ on_disk[p[2]][p[3]].block = b}

\* A second file of that name was begun in the same second, and has replaced
\* the one that block b was recorded in.
Replaced(b) ==
  /\ written[b] \in DOMAIN fits
  /\ fits[written[b]] # <<>>
  /\ \A i \in Range(fits[written[b]]) : i.block > b

\* A block recorded is in the file it was recorded in, once, under whichever
\* of its names that file has by now, and in no other, through file changes,
\* failed renames, errors, the end and restarts.  The one way to lose it is a
\* change of files within the second in which its file was begun.
WrittenIsKept ==
  \A b \in DOMAIN written :
    \/ Cardinality(FoundAt(b)) = 1 /\ \A p \in FoundAt(b) : p[2] = written[b]
    \/ FoundAt(b) = {} /\ Replaced(b)

\* "We rename to mark the file as ready for post-processing or transfer": who
\* waits until the second in a ready file's name is over, and finds no .working
\* file of that name, has a file that is never begun or touched again, by this
\* run of the program or a later one.
ReadyIsFinal ==
  [][\A n \in DOMAIN fits \ DOMAIN working : n.second < clock =>
       n \in DOMAIN fits' \ DOMAIN working' /\ fits'[n] = fits[n]]_vars
=============================================================================
