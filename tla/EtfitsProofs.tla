---------------------------- MODULE EtfitsProofs ----------------------------
(***************************************************************************)
(* Theorems about what gets into the ETFITS files.  About module Etfits:   *)
(* the types, which files keep their .working name, which receiver and     *)
(* which beam a file records, what becomes of a recorded integration and   *)
(* of a file marked ready.  About module Hits: the tables of an            *)
(* integration have the hits and the powers of its block, which is proved  *)
(* from the layout of the spectra, the running means, the hits and the     *)
(* rows, in this order.                                                    *)
(***************************************************************************)
EXTENDS Etfits, Hits, Arithmetic, SequenceTheorems, FiniteSetTheorems, TLAPS

Etf == [new_run : BOOLEAN, new_file : BOOLEAN, file_open : BOOLEAN,
        integration_cnt : 0 .. MaxBlocks, name : Names]

\* Files of either kind.
IsFiles(files) ==
  /\ files \in [DOMAIN files -> Seq(Integrations)]
  /\ DOMAIN files \subseteq Names

\* What the operators of s6_etfits.cpp work on.
IsState(s) ==
  /\ s.etf \in Etf /\ IsFiles(s.working) /\ IsFiles(s.fits)
  /\ s.unrenamed \subseteq DOMAIN s.working

\* Block b is the k-th that file n records.
Records(files, n, k, b) ==
  n \in DOMAIN files /\ k \in DOMAIN files[n] /\ files[n][k].block = b

\* What of the run the files depend on.
IsRun(h) ==
  /\ h.blocks \in 0 .. MaxBlocks
  /\ h.written \in [DOMAIN h.written -> Names] /\ DOMAIN h.written \subseteq 0 .. h.blocks-1
  /\ h.clock \in 0 .. MaxSecond /\ h.started \in 0 .. h.clock

\* A block on disk is in the file it was written to, and at one place only.
Single(files) ==
  \A n, k, m, j, b : Records(files, n, k, b) /\ Records(files, m, j, b) => n = m /\ k = j

Apart(files, others) ==
  \A n, k, m, j, b : Records(files, n, k, b) => ~Records(others, m, j, b)

Processed(files, h) ==
  \A n, k, b : Records(files, n, k, b) =>
    b \in DOMAIN h.written /\ h.written[b] = n /\ k \in 1 .. h.blocks

Once(s, h) ==
  /\ Processed(s.working, h) /\ Processed(s.fits, h)
  /\ Single(s.working) /\ Single(s.fits) /\ Apart(s.working, s.fits)

\* A block written to file n is there, or the file of that name is a later one.
\* The latter includes a .working file that is yet to replace the .fits file.
After(content, b) == \A k \in DOMAIN content : content[k].block > b

InFile(s, n, b) ==
  \/ \E k : Records(s.working, n, k, b) \/ Records(s.fits, n, k, b)
  \/ n \in DOMAIN s.fits /\ s.fits[n] # <<>> /\ After(s.fits[n], b)

Later(s, n, b) ==
  n \in DOMAIN s.working =>
    (\E k : Records(s.working, n, k, b)) \/ After(s.working[n], b)

Kept(s, h) ==
  \A b \in DOMAIN h.written : InFile(s, h.written[b], b) /\ Later(s, h.written[b], b)

\* The open file and those that could not be renamed are the only ones of this
\* run that are still working, and integration_cnt is the open file's length.
OpenFile(s, h) ==
  /\ \A n \in DOMAIN s.working : n.second <= h.clock
  /\ \A n \in DOMAIN s.working :
       n.second >= h.started => n \in s.unrenamed \/ (s.etf.file_open /\ n = s.etf.name)
  /\ s.etf.file_open =>
       /\ ~s.etf.new_run
       /\ s.etf.name \in DOMAIN s.working \ s.unrenamed
       /\ s.etf.name.second >= h.started
       /\ s.etf.integration_cnt = Len(s.working[s.etf.name])
  /\ s.etf.new_run => s.etf.integration_cnt = 0
  /\ s.etf.integration_cnt <= h.blocks

\* What a file may record by its name: of receivers, only its own and the test
\* mode's; outside test mode, only its beam and polarisation.
MayRecord(n, i) ==
  /\ n.receiver \in Receivers => i.RECEIVER \in {n.receiver, "S6TEST"}
  /\ i.RECEIVER # "S6TEST" => i.sid = n.sid

Named(files) ==
  \A n \in DOMAIN files : \A k \in DOMAIN files[n] : MayRecord(n, files[n][k])

FilesInv(s, h) ==
  /\ IsState(s) /\ IsRun(h)
  /\ Once(s, h) /\ Kept(s, h) /\ OpenFile(s, h)
  /\ Named(s.working) /\ Named(s.fits)

Run == [blocks |-> blocks, written |-> written, clock |-> clock, started |-> started]

\* The rest of the variables keep to their types.
RestTypeOK ==
  /\ run_threads \in BOOLEAN /\ run_always \in BOOLEAN /\ prior_run_always \in BOOLEAN
  /\ restarts \in 0 .. MaxRestarts
  /\ pc \in {"top", "wait", "done", "dead"}
  /\ num_coarse_chan \in CoarseChans /\ zero_headers \in 0 .. 2
  /\ {prior_receiver, RECEIVER} \subseteq Receivers \cup {"", "S6TEST"}

\* The number of channels tells the headers of the start from the others, and
\* with them the beam of the open file.
OpenBeam ==
  /\ num_coarse_chan = 1 => zero_headers = 0
  /\ etf.file_open /\ zero_headers > 0 => etf.name.sid = 0
  /\ etf.file_open /\ num_coarse_chan = 1 => etf.name.sid = Sid

OpenReceiver ==
  etf.file_open /\ etf.name.receiver \in Receivers => etf.name.receiver = prior_receiver

\* Between blocks an open file has something recorded, and a block to record
\* finds a file or asks for one; the end leaves none open.
Between ==
  /\ pc \in {"top", "wait"} => etf.new_run \/ etf.new_file \/ etf.file_open
  /\ pc \in {"top", "wait"} /\ etf.file_open => etf.integration_cnt > 0
  /\ pc = "done" => ~etf.file_open

EtfitsInv ==
  /\ RestTypeOK
  /\ FilesInv(Now, Run)
  /\ Between /\ OpenReceiver /\ OpenBeam
-----------------------------------------------------------------------------
(* Files.                                                                  *)

\* What Put and Restrict make of files.
IsPut(put, files, name, content) ==
  /\ DOMAIN put = DOMAIN files \cup {name}
  /\ put[name] = content
  /\ \A n \in DOMAIN files \ {name} : put[n] = files[n]

IsRest(rest, files, name) ==
  /\ DOMAIN rest = DOMAIN files \ {name}
  /\ \A n \in DOMAIN rest : rest[n] = files[n]

LEMMA NameSeconds == \A n \in Names : n.second \in Nat
  <1> SUFFICES ASSUME NEW n \in Names PROVE n.second \in Nat
    OBVIOUS
  <1>1. n.second \in 0 .. MaxSecond
    BY DEF Names
  <1> QED
    BY <1>1, CountAssumption

LEMMA PutFiles ==
  ASSUME NEW files, IsFiles(files), NEW name \in Names, NEW content \in Seq(Integrations)
  PROVE  /\ IsFiles(Put(files, name, content))
         /\ IsPut(Put(files, name, content), files, name, content)
  BY DEF IsFiles, Put, IsPut

LEMMA RestrictFiles ==
  ASSUME NEW files, IsFiles(files), NEW name
  PROVE  LET rest == Restrict(files, DOMAIN files \ {name})
         IN  IsFiles(rest) /\ IsRest(rest, files, name)
  BY DEF IsFiles, Restrict, IsRest

LEMMA PutRecords ==
  ASSUME NEW put, NEW files, NEW name, NEW content, IsPut(put, files, name, content)
  PROVE  \A n, k, b : Records(put, n, k, b) <=>
                      \/ n = name /\ k \in DOMAIN content /\ content[k].block = b
                      \/ n # name /\ Records(files, n, k, b)
  BY DEF Records, IsPut

LEMMA RestRecords ==
  ASSUME NEW rest, NEW files, NEW name, IsRest(rest, files, name)
  PROVE  \A n, k, b : Records(rest, n, k, b) <=> n # name /\ Records(files, n, k, b)
  BY DEF Records, IsRest

LEMMA CloseState ==
  ASSUME NEW s, IsState(s), s.etf.name \in DOMAIN s.working \ s.unrenamed
  PROVE  LET c == etfits_close(s, TRUE)
         IN  /\ IsState(c)
             /\ c.etf = [s.etf EXCEPT !.file_open = FALSE]
             /\ IsRest(c.working, s.working, s.etf.name)
             /\ IsPut(c.fits, s.fits, s.etf.name, s.working[s.etf.name])
             /\ c.unrenamed = s.unrenamed
  <1> DEFINE c == etfits_close(s, TRUE)
             rest == Restrict(s.working, DOMAIN s.working \ {s.etf.name})
             put == Put(s.fits, s.etf.name, s.working[s.etf.name])
  <1>1. /\ c.etf = [s.etf EXCEPT !.file_open = FALSE]
        /\ c.working = rest /\ c.fits = put /\ c.unrenamed = s.unrenamed
    BY DEF etfits_close
  <1>2. /\ s.etf \in Etf /\ IsFiles(s.working) /\ IsFiles(s.fits)
        /\ s.unrenamed \subseteq DOMAIN s.working
    BY DEF IsState
  <1>3. s.etf.name \in Names /\ s.working[s.etf.name] \in Seq(Integrations)
    BY DEF IsState, IsFiles
  <1>4. IsFiles(rest) /\ IsRest(rest, s.working, s.etf.name)
    BY <1>2, RestrictFiles
  <1>5. IsFiles(put) /\ IsPut(put, s.fits, s.etf.name, s.working[s.etf.name])
    BY <1>2, <1>3, PutFiles
  <1>6. c.etf \in Etf
    BY <1>1, <1>2 DEF Etf
  <1>7. s.unrenamed \subseteq DOMAIN rest
    BY <1>2, <1>4 DEF IsRest
  <1> HIDE DEF c, rest, put
  <1> QED
    BY <1>1, <1>4, <1>5, <1>6, <1>7 DEF IsState, c

LEMMA CreateState ==
  ASSUME NEW s, IsState(s), NEW name \in Names
  PROVE  LET c == etfits_create(s, name)
         IN  /\ IsState(c)
             /\ c.etf = [s.etf EXCEPT !.new_run = FALSE, !.file_open = TRUE, !.name = name]
             /\ IsPut(c.working, s.working, name, <<>>)
             /\ c.fits = s.fits /\ c.unrenamed = s.unrenamed
  <1> DEFINE c == etfits_create(s, name)
             put == Put(s.working, name, <<>>)
  <1>1. /\ c.etf = [s.etf EXCEPT !.new_run = FALSE, !.file_open = TRUE, !.name = name]
        /\ c.working = put /\ c.fits = s.fits /\ c.unrenamed = s.unrenamed
    BY DEF etfits_create
  <1>2. /\ s.etf \in Etf /\ IsFiles(s.working) /\ IsFiles(s.fits)
        /\ s.unrenamed \subseteq DOMAIN s.working
    BY DEF IsState
  <1>3. <<>> \in Seq(Integrations)
    OBVIOUS
  <1>4. IsFiles(put) /\ IsPut(put, s.working, name, <<>>)
    BY <1>2, <1>3, PutFiles
  <1>5. c.etf \in Etf
    BY <1>1, <1>2 DEF Etf
  <1>6. s.unrenamed \subseteq DOMAIN put
    BY <1>2, <1>4 DEF IsPut
  <1> HIDE DEF c, put
  <1> QED
    BY <1>1, <1>2, <1>4, <1>5, <1>6 DEF IsState, c

LEMMA WriteState ==
  ASSUME NEW s, IsState(s), s.etf.name \in DOMAIN s.working,
         NEW integration \in Integrations, NEW full \in BOOLEAN,
         s.etf.integration_cnt < MaxBlocks
  PROVE  LET c == WriteIntegration(s, integration, full)
         IN  /\ IsState(c)
             /\ c.etf.integration_cnt = s.etf.integration_cnt + 1
             /\ c.etf.file_open = s.etf.file_open /\ c.etf.name = s.etf.name
             /\ c.etf.new_run = s.etf.new_run
             /\ IsPut(c.working, s.working, s.etf.name,
                      Append(s.working[s.etf.name], integration))
             /\ c.fits = s.fits /\ c.unrenamed = s.unrenamed
  <1> DEFINE c == WriteIntegration(s, integration, full)
             content == Append(s.working[s.etf.name], integration)
             put == Put(s.working, s.etf.name, content)
  <1>1. /\ c.etf = [s.etf EXCEPT !.integration_cnt = @ + 1, !.new_file = @ \/ full]
        /\ c.working = put /\ c.fits = s.fits /\ c.unrenamed = s.unrenamed
    BY DEF WriteIntegration
  <1>2. /\ s.etf \in Etf /\ IsFiles(s.working) /\ IsFiles(s.fits)
        /\ s.unrenamed \subseteq DOMAIN s.working
    BY DEF IsState
  <1>3. content \in Seq(Integrations) /\ s.etf.name \in Names
    BY AppendProperties DEF IsState, IsFiles
  <1>4. c.etf \in Etf
    <2>1. (s.etf.new_file \/ full) \in BOOLEAN
      OBVIOUS
    <2>2. s.etf.integration_cnt + 1 \in 0 .. MaxBlocks
      BY <1>2, CountAssumption DEF Etf
    <2> QED
      BY <1>1, <1>2, <2>1, <2>2 DEF Etf
  <1>5. IsFiles(put) /\ IsPut(put, s.working, s.etf.name, content)
    BY <1>2, <1>3, PutFiles
  <1>6. /\ c.etf.integration_cnt = s.etf.integration_cnt + 1
        /\ c.etf.file_open = s.etf.file_open /\ c.etf.name = s.etf.name
        /\ c.etf.new_run = s.etf.new_run
    BY <1>1, <1>2 DEF Etf
  <1>7. s.unrenamed \subseteq DOMAIN put
    BY <1>2, <1>5 DEF IsPut
  <1> HIDE DEF c, put
  <1> QED
    BY <1>1, <1>2, <1>4, <1>5, <1>6, <1>7 DEF IsState, c

-----------------------------------------------------------------------------
(* The operators of s6_etfits.cpp keep the files in order.                 *)

\* Where the blocks are after a file has been renamed.
LEMMA RenameOnce ==
  ASSUME NEW s, NEW h, IsState(s), Once(s, h), NEW name \in DOMAIN s.working, NEW c,
         IsRest(c.working, s.working, name), IsPut(c.fits, s.fits, name, s.working[name])
  PROVE  /\ \A n, k, b : Records(c.working, n, k, b) <=>
                           n # name /\ Records(s.working, n, k, b)
         /\ \A n, k, b : Records(c.fits, n, k, b) <=>
                           \/ n = name /\ Records(s.working, n, k, b)
                           \/ n # name /\ Records(s.fits, n, k, b)
         /\ Once(c, h)
  <1>3. \A n, k, b : Records(c.working, n, k, b) <=> n # name /\ Records(s.working, n, k, b)
    BY RestRecords
  <1>4. \A n, k, b : Records(c.fits, n, k, b) <=>
                       \/ n = name /\ Records(s.working, n, k, b)
                       \/ n # name /\ Records(s.fits, n, k, b)
    <2>1. \A n, k, b : Records(c.fits, n, k, b) <=>
                         \/ n = name /\ k \in DOMAIN s.working[name]
                                     /\ s.working[name][k].block = b
                         \/ n # name /\ Records(s.fits, n, k, b)
      BY PutRecords
    <2>2. \A k, b : Records(s.working, name, k, b) <=>
                    k \in DOMAIN s.working[name] /\ s.working[name][k].block = b
      BY DEF Records
    <2> QED
      BY <2>1, <2>2
  <1>5. Once(c, h)
    <2>0. /\ Processed(s.working, h) /\ Processed(s.fits, h)
          /\ Single(s.working) /\ Single(s.fits) /\ Apart(s.working, s.fits)
      BY DEF Once
    <2>1. Processed(c.working, h) /\ Processed(c.fits, h)
      BY <1>3, <1>4, <2>0 DEF Processed
    <2>2. Single(c.working)
      BY <1>3, <2>0 DEF Single
    <2>3. Single(c.fits)
      <3> SUFFICES ASSUME NEW n, NEW k, NEW m, NEW j, NEW b,
                          Records(c.fits, n, k, b), Records(c.fits, m, j, b)
                   PROVE  n = m /\ k = j
        BY DEF Single
      <3>1. \/ n = name /\ Records(s.working, n, k, b)
            \/ n # name /\ Records(s.fits, n, k, b)
        BY <1>4
      <3>2. \/ m = name /\ Records(s.working, m, j, b)
            \/ m # name /\ Records(s.fits, m, j, b)
        BY <1>4
      <3> QED
        BY <2>0, <3>1, <3>2 DEF Single, Apart
    <2>4. Apart(c.working, c.fits)
      <3> SUFFICES ASSUME NEW n, NEW k, NEW m, NEW j, NEW b,
                          Records(c.working, n, k, b), Records(c.fits, m, j, b)
                   PROVE  FALSE
        BY DEF Apart
      <3>1. n # name /\ Records(s.working, n, k, b)
        BY <1>3
      <3>2. CASE m = name
        BY <1>4, <2>0, <3>1, <3>2 DEF Single
      <3>3. CASE m # name
        BY <1>4, <2>0, <3>1, <3>3 DEF Apart
      <3> QED
        BY <3>2, <3>3
    <2> QED
      BY <2>1, <2>2, <2>3, <2>4 DEF Once
  <1> QED
    BY <1>3, <1>4, <1>5

\* A file that is renamed replaces an older one at most.
LEMMA RenameKept ==
  ASSUME NEW s, NEW h, IsState(s), Once(s, h), Kept(s, h), NEW name \in DOMAIN s.working,
         s.working[name] # <<>>, NEW c,
         IsRest(c.working, s.working, name), IsPut(c.fits, s.fits, name, s.working[name])
  PROVE  Kept(c, h)
  <1>1. /\ \A n, k, b : Records(c.working, n, k, b) <=>
                          n # name /\ Records(s.working, n, k, b)
        /\ \A n, k, b : Records(c.fits, n, k, b) <=>
                          \/ n = name /\ Records(s.working, n, k, b)
                          \/ n # name /\ Records(s.fits, n, k, b)
    BY RenameOnce
  <1>2. /\ DOMAIN c.working = DOMAIN s.working \ {name}
        /\ \A n \in DOMAIN c.working : c.working[n] = s.working[n]
    BY DEF IsRest
  <1>3. /\ DOMAIN c.fits = DOMAIN s.fits \cup {name}
        /\ c.fits[name] = s.working[name]
        /\ \A n \in DOMAIN s.fits \ {name} : c.fits[n] = s.fits[n]
    BY DEF IsPut
  <1> SUFFICES ASSUME NEW b \in DOMAIN h.written
               PROVE  InFile(c, h.written[b], b) /\ Later(c, h.written[b], b)
    BY DEF Kept
  <1> DEFINE n == h.written[b]
  <1>4. InFile(s, n, b) /\ Later(s, n, b)
    BY DEF Kept
  <1> HIDE DEF n
  <1>5. CASE n = name
    <2>1. (\E k : Records(s.working, n, k, b)) \/ After(s.working[n], b)
      BY <1>4, <1>5 DEF Later
    <2>2. (\E k : Records(c.fits, n, k, b)) \/ After(c.fits[n], b)
      BY <1>1, <1>3, <1>5, <2>1
    <2>3. InFile(c, n, b)
      BY <1>3, <1>5, <2>2 DEF InFile
    <2>4. Later(c, n, b)
      BY <1>2, <1>5 DEF Later
    <2> QED
      BY <2>3, <2>4 DEF n
  <1>6. CASE n # name
    <2>1. InFile(c, n, b)
      BY <1>1, <1>3, <1>4, <1>6 DEF InFile
    <2>2. Later(c, n, b)
      BY <1>1, <1>2, <1>4, <1>6 DEF Later
    <2> QED
      BY <2>1, <2>2 DEF n
  <1> QED
    BY <1>5, <1>6

LEMMA CloseInv ==
  ASSUME NEW s, NEW h, FilesInv(s, h), s.etf.file_open, s.etf.integration_cnt > 0,
         NEW renamed \in BOOLEAN
  PROVE  /\ FilesInv(etfits_close(s, renamed), h)
         /\ etfits_close(s, renamed).etf = [s.etf EXCEPT !.file_open = FALSE]
  <1> DEFINE c == etfits_close(s, renamed)
             name == s.etf.name
  <1>0. /\ IsState(s) /\ IsRun(h) /\ Once(s, h) /\ Kept(s, h) /\ OpenFile(s, h)
        /\ Named(s.working) /\ Named(s.fits)
    BY DEF FilesInv
  <1>1. /\ s.etf \in Etf /\ name \in DOMAIN s.working \ s.unrenamed
        /\ s.working[name] \in Seq(Integrations) /\ s.working[name] # <<>>
    <2>1. /\ s.etf \in Etf /\ name \in DOMAIN s.working \ s.unrenamed
          /\ s.working[name] \in Seq(Integrations)
      BY <1>0 DEF OpenFile, IsState, IsFiles
    <2>2. Len(s.working[name]) > 0
      BY <1>0 DEF OpenFile
    <2> QED
      BY <2>1, <2>2
  <1>2. c.etf = [s.etf EXCEPT !.file_open = FALSE]
    BY DEF etfits_close
  <1>3. c.etf \in Etf /\ ~c.etf.file_open /\ c.etf.new_run = s.etf.new_run
        /\ c.etf.integration_cnt = s.etf.integration_cnt
    BY <1>1, <1>2 DEF Etf
  <1>4. CASE renamed
    <2>1. /\ IsState(c)
          /\ IsRest(c.working, s.working, name)
          /\ IsPut(c.fits, s.fits, name, s.working[name])
          /\ c.unrenamed = s.unrenamed
      BY <1>0, <1>1, <1>4, CloseState
    <2> HIDE DEF c, name
    <2>2. Once(c, h) /\ Kept(c, h)
      BY <1>0, <1>1, <2>1, RenameOnce, RenameKept
    <2>3. /\ DOMAIN c.working = DOMAIN s.working \ {name}
          /\ \A n \in DOMAIN c.working : c.working[n] = s.working[n]
      BY <2>1 DEF IsRest
    <2>4. /\ DOMAIN c.fits = DOMAIN s.fits \cup {name}
          /\ c.fits[name] = s.working[name]
          /\ \A n \in DOMAIN s.fits \ {name} : c.fits[n] = s.fits[n]
      BY <2>1 DEF IsPut
    <2>5. OpenFile(c, h)
      BY <1>0, <1>3, <2>1, <2>3 DEF OpenFile, name
    <2>6. Named(c.working) /\ Named(c.fits)
      BY <1>0, <1>1, <2>3, <2>4 DEF Named
    <2> QED
      BY <1>0, <1>2, <2>1, <2>2, <2>5, <2>6 DEF FilesInv, c
  <1>5. CASE ~renamed
    <2>1. /\ c.working = s.working /\ c.fits = s.fits
          /\ c.unrenamed = s.unrenamed \cup {name}
      BY <1>5 DEF etfits_close
    <2> HIDE DEF c, name
    <2>2. IsState(c)
      BY <1>0, <1>1, <1>3, <2>1 DEF IsState
    <2>3. Once(c, h) /\ Kept(c, h)
      BY <1>0, <2>1 DEF Once, Kept, InFile, Later
    <2>4. OpenFile(c, h)
      BY <1>0, <1>3, <2>1 DEF OpenFile, name
    <2> QED
      BY <1>0, <1>2, <2>1, <2>2, <2>3, <2>4 DEF FilesInv, c
  <1> QED
    BY <1>4, <1>5

\* With no file open, the flags may change, and integration_cnt be reset.
LEMMA FlagsInv ==
  ASSUME NEW s, NEW t, NEW h, FilesInv(s, h), ~s.etf.file_open, t.etf \in Etf,
         t.working = s.working, t.fits = s.fits, t.unrenamed = s.unrenamed,
         ~t.etf.file_open, t.etf.integration_cnt \in {0, s.etf.integration_cnt},
         t.etf.new_run => t.etf.integration_cnt = 0
  PROVE  FilesInv(t, h)
  <1>1. /\ IsState(s) /\ IsRun(h) /\ Once(s, h) /\ Kept(s, h) /\ OpenFile(s, h)
        /\ Named(s.working) /\ Named(s.fits)
    BY DEF FilesInv
  <1>2. IsState(t)
    BY <1>1 DEF IsState
  <1>3. Once(t, h)
    BY <1>1 DEF Once
  <1>4. Kept(t, h)
    BY <1>1 DEF Kept, InFile, Later
  <1>5. t.etf.integration_cnt <= h.blocks
    BY <1>1 DEF OpenFile, IsRun
  <1>6. OpenFile(t, h)
    BY <1>1, <1>5 DEF OpenFile
  <1> QED
    BY <1>1, <1>2, <1>3, <1>4, <1>6 DEF FilesInv

LEMMA ChangeInv ==
  ASSUME NEW s, NEW h, FilesInv(s, h), s.etf.file_open => s.etf.integration_cnt > 0,
         NEW renamed \in BOOLEAN
  PROVE  LET c == ChangeFile(s, renamed)
         IN  FilesInv(c, h) /\ ~c.etf.file_open /\ c.etf.new_file
  <1> DEFINE closed == IF s.etf.file_open THEN etfits_close(s, renamed) ELSE s
             c == ChangeFile(s, renamed)
  <1>1. FilesInv(closed, h) /\ ~closed.etf.file_open
    <2>1. CASE s.etf.file_open
      <3>1. s.etf \in Etf
        BY DEF FilesInv, IsState
      <3> QED
        BY <2>1, <3>1, CloseInv DEF Etf
    <2>2. CASE ~s.etf.file_open
      BY <2>2
    <2> QED
      BY <2>1, <2>2
  <1>2. /\ c.etf = [closed.etf EXCEPT !.new_file = TRUE]
        /\ c.working = closed.working /\ c.fits = closed.fits
        /\ c.unrenamed = closed.unrenamed
    BY DEF ChangeFile
  <1> HIDE DEF closed, c
  <1>3. closed.etf \in Etf /\ (closed.etf.new_run => closed.etf.integration_cnt = 0)
    BY <1>1 DEF FilesInv, IsState, OpenFile
  <1>4. /\ c.etf \in Etf /\ c.etf.file_open = closed.etf.file_open /\ c.etf.new_file
        /\ c.etf.new_run = closed.etf.new_run
        /\ c.etf.integration_cnt = closed.etf.integration_cnt
    BY <1>2, <1>3 DEF Etf
  <1>5. FilesInv(c, h)
    BY <1>1, <1>2, <1>3, <1>4, FlagsInv
  <1> QED
    BY <1>1, <1>4, <1>5 DEF c

LEMMA LeaveInv ==
  ASSUME NEW s, NEW h, FilesInv(s, h), s.etf.file_open => s.etf.integration_cnt > 0,
         NEW renamed \in BOOLEAN
  PROVE  LET c == LeaveFile(s, renamed)
         IN  FilesInv(c, h) /\ ~c.etf.file_open /\ c.etf.integration_cnt = 0
  <1> DEFINE closed == IF ~s.etf.new_run /\ s.etf.file_open
                         THEN etfits_close(s, renamed) ELSE s
             c == LeaveFile(s, renamed)
  <1>0. s.etf \in Etf /\ OpenFile(s, h)
    BY DEF FilesInv, IsState
  <1>1. /\ FilesInv(closed, h) /\ ~closed.etf.file_open
        /\ closed.etf.new_run = s.etf.new_run
    <2>1. CASE s.etf.file_open
      <3>1. ~s.etf.new_run
        BY <1>0, <2>1 DEF OpenFile
      <3> QED
        BY <1>0, <2>1, <3>1, CloseInv DEF Etf
    <2>2. CASE ~s.etf.file_open
      BY <2>2
    <2> QED
      BY <2>1, <2>2
  <1>2. /\ c.etf = [closed.etf EXCEPT !.new_file = FALSE,
                                     !.integration_cnt = IF s.etf.new_run THEN @ ELSE 0]
        /\ c.working = closed.working /\ c.fits = closed.fits
        /\ c.unrenamed = closed.unrenamed
    BY DEF LeaveFile
  <1> HIDE DEF closed, c
  <1>3. closed.etf \in Etf /\ (closed.etf.new_run => closed.etf.integration_cnt = 0)
    BY <1>1 DEF FilesInv, IsState, OpenFile
  <1>4. c.etf = [closed.etf EXCEPT !.new_file = FALSE, !.integration_cnt = 0]
    <2>1. CASE s.etf.new_run
      BY <1>1, <1>2, <1>3, <2>1 DEF Etf
    <2>2. CASE ~s.etf.new_run
      BY <1>2, <2>2
    <2> QED
      BY <2>1, <2>2
  <1>5. /\ c.etf \in Etf /\ c.etf.file_open = closed.etf.file_open
        /\ c.etf.new_run = closed.etf.new_run
        /\ c.etf.integration_cnt = 0
    <2>1. 0 \in 0 .. MaxBlocks
      BY CountAssumption
    <2>2. c.etf \in Etf
      BY <1>3, <1>4, <2>1 DEF Etf
    <2> QED
      BY <1>3, <1>4, <2>2 DEF Etf
  <1>6. FilesInv(c, h)
    BY <1>1, <1>2, <1>3, <1>5, FlagsInv
  <1> QED
    BY <1>1, <1>5, <1>6 DEF c

LEMMA CreateInv ==
  ASSUME NEW s, NEW h, FilesInv(s, h), ~s.etf.file_open, s.etf.integration_cnt = 0,
         NEW name \in Names, name.second = h.clock, name \notin DOMAIN s.working
  PROVE  LET c == etfits_create(s, name)
         IN  FilesInv(c, h) /\ c.etf.file_open /\ c.etf.name = name
  <1> DEFINE c == etfits_create(s, name)
  <1>0. /\ IsState(s) /\ IsRun(h) /\ Once(s, h) /\ Kept(s, h) /\ OpenFile(s, h)
        /\ Named(s.working) /\ Named(s.fits)
    BY DEF FilesInv
  <1>1. /\ IsState(c)
        /\ c.etf = [s.etf EXCEPT !.new_run = FALSE, !.file_open = TRUE, !.name = name]
        /\ IsPut(c.working, s.working, name, <<>>)
        /\ c.fits = s.fits /\ c.unrenamed = s.unrenamed
    BY <1>0, CreateState
  <1> HIDE DEF c
  <1>2. s.etf \in Etf /\ s.unrenamed \subseteq DOMAIN s.working
    BY <1>0 DEF IsState
  <1>3. /\ ~c.etf.new_run /\ c.etf.file_open /\ c.etf.name = name
        /\ c.etf.integration_cnt = 0
    BY <1>1, <1>2 DEF Etf
  <1>4. h.clock \in Nat /\ h.started \in Nat /\ h.started <= h.clock /\ h.blocks \in Nat
    BY <1>0, CountAssumption DEF IsRun
  <1>5. DOMAIN <<>> = {}
    OBVIOUS
  <1>6. \A n, k, b : Records(c.working, n, k, b) <=> Records(s.working, n, k, b)
    <2>1. \A n, k, b : Records(c.working, n, k, b) <=>
                         \/ n = name /\ k \in DOMAIN <<>> /\ <<>>[k].block = b
                         \/ n # name /\ Records(s.working, n, k, b)
      BY <1>1, PutRecords
    <2>2. \A k : k \notin DOMAIN <<>>
      BY <1>5
    <2>3. \A k, b : ~Records(s.working, name, k, b)
      BY DEF Records
    <2> QED
      BY <2>1, <2>2, <2>3
  <1>7. Once(c, h)
    BY <1>0, <1>1, <1>6 DEF Once, Processed, Single, Apart
  <1>8. /\ DOMAIN c.working = DOMAIN s.working \cup {name} /\ c.working[name] = <<>>
        /\ \A n \in DOMAIN s.working : c.working[n] = s.working[n]
    BY <1>1 DEF IsPut
  <1>9. Kept(c, h)
    <2> SUFFICES ASSUME NEW b \in DOMAIN h.written, NEW n, n = h.written[b]
                 PROVE  InFile(c, n, b) /\ Later(c, n, b)
      BY DEF Kept
    <2>1. InFile(s, n, b) /\ Later(s, n, b)
      BY <1>0 DEF Kept
    <2>2. InFile(c, n, b)
      BY <1>1, <1>6, <2>1 DEF InFile
    <2>3. After(<<>>, b)
      BY <1>5 DEF After
    <2>4. Later(c, n, b)
      BY <1>6, <1>8, <2>1, <2>3 DEF Later
    <2> QED
      BY <2>2, <2>4
  <1>10. OpenFile(c, h)
    <2>1. \A n \in DOMAIN c.working : n.second <= h.clock
      BY <1>0, <1>4, <1>8 DEF OpenFile
    <2>2. \A n \in DOMAIN c.working :
            n.second >= h.started => n \in c.unrenamed \/ n = name
      BY <1>0, <1>1, <1>8 DEF OpenFile
    <2>3. /\ Len(c.working[name]) = 0 /\ name \in DOMAIN c.working \ c.unrenamed
          /\ name.second >= h.started
      BY <1>1, <1>2, <1>4, <1>8
    <2> QED
      BY <1>3, <1>4, <2>1, <2>2, <2>3 DEF OpenFile
  <1>11. Named(c.working) /\ Named(c.fits)
    BY <1>0, <1>1, <1>5, <1>8 DEF Named
  <1> QED
    BY <1>0, <1>1, <1>3, <1>7, <1>9, <1>10, <1>11 DEF FilesInv, c

LEMMA WriteInv ==
  ASSUME NEW s, NEW h, FilesInv(s, h), s.etf.file_open,
         NEW integration \in Integrations, integration.block = h.blocks,
         MayRecord(s.etf.name, integration),
         NEW full \in BOOLEAN,
         NEW g, IsRun(g), g.blocks = h.blocks + 1,
         IsPut(g.written, h.written, h.blocks, s.etf.name),
         g.clock = h.clock, g.started = h.started
  PROVE  LET c == WriteIntegration(s, integration, full)
         IN  /\ FilesInv(c, g) /\ c.etf.file_open /\ c.etf.name = s.etf.name
             /\ c.etf.integration_cnt > 0
  <1> DEFINE c == WriteIntegration(s, integration, full)
             name == s.etf.name
             len == Len(s.working[name])
             content == Append(s.working[name], integration)
  <1>0. /\ IsState(s) /\ IsRun(h) /\ Once(s, h) /\ Kept(s, h) /\ OpenFile(s, h)
        /\ Named(s.working) /\ Named(s.fits)
    BY DEF FilesInv
  <1>1. /\ s.etf \in Etf /\ s.etf.integration_cnt = len /\ len <= h.blocks
        /\ name \in DOMAIN s.working \ s.unrenamed /\ s.working[name] \in Seq(Integrations)
    BY <1>0 DEF IsState, OpenFile, IsFiles
  <1>2. h.blocks \in Nat /\ h.blocks < MaxBlocks /\ len \in Nat
    <2>1. h.blocks \in 0 .. MaxBlocks /\ h.blocks + 1 \in 0 .. MaxBlocks
      BY <1>0 DEF IsRun
    <2> QED
      BY <1>1, <2>1, CountAssumption
  <1>3. /\ IsState(c)
        /\ c.etf.integration_cnt = s.etf.integration_cnt + 1
        /\ c.etf.file_open = s.etf.file_open /\ c.etf.name = s.etf.name
        /\ c.etf.new_run = s.etf.new_run
        /\ IsPut(c.working, s.working, name, content)
        /\ c.fits = s.fits /\ c.unrenamed = s.unrenamed
    <2>1. s.etf.integration_cnt < MaxBlocks
      BY <1>1, <1>2, CountAssumption
    <2>2. IsState(s) /\ s.etf.name \in DOMAIN s.working
      BY <1>0, <1>1
    <2> QED
      BY <2>1, <2>2, WriteState
  <1>4. /\ Len(content) = len + 1 /\ DOMAIN content = 1 .. len + 1
        /\ DOMAIN s.working[name] = 1 .. len
        /\ \A k \in 1 .. len : content[k] = s.working[name][k]
        /\ content[len + 1] = integration
    BY <1>1, AppendProperties
  <1> HIDE DEF c, content, len, name
  <1>5. /\ c.etf.integration_cnt = len + 1 /\ c.etf.file_open = s.etf.file_open
        /\ c.etf.name = name /\ c.etf.new_run = s.etf.new_run
        /\ c.etf.integration_cnt > 0
    BY <1>1, <1>2, <1>3 DEF name
  <1>6. \A n, k, b : Records(c.working, n, k, b) <=>
                       \/ n = name /\ k = len + 1 /\ b = h.blocks
                       \/ Records(s.working, n, k, b)
    <2>1. \A n, k, b : Records(c.working, n, k, b) <=>
                         \/ n = name /\ k \in DOMAIN content /\ content[k].block = b
                         \/ n # name /\ Records(s.working, n, k, b)
      BY <1>3, PutRecords
    <2>2. \A k, b : k \in DOMAIN content /\ content[k].block = b <=>
                    \/ k = len + 1 /\ b = h.blocks
                    \/ k \in 1 .. len /\ s.working[name][k].block = b
      BY <1>2, <1>4
    <2>3. \A k, b : Records(s.working, name, k, b) <=>
                    k \in 1 .. len /\ s.working[name][k].block = b
      BY <1>1, <1>4 DEF Records
    <2> QED
      BY <2>1, <2>2, <2>3
  <1>7. /\ Processed(s.working, h) /\ Processed(s.fits, h)
        /\ Single(s.working) /\ Single(s.fits) /\ Apart(s.working, s.fits)
    BY <1>0 DEF Once
  \* The block is a new one.
  <1>8. /\ \A b \in DOMAIN h.written : b < h.blocks
        /\ DOMAIN g.written = DOMAIN h.written \cup {h.blocks}
        /\ g.written[h.blocks] = name
        /\ \A b \in DOMAIN h.written : g.written[b] = h.written[b]
        /\ \A n, k : ~Records(s.working, n, k, h.blocks) /\ ~Records(s.fits, n, k, h.blocks)
        /\ len + 1 \in 1 .. g.blocks /\ \A i \in 1 .. h.blocks : i \in 1 .. g.blocks
    <2>1. \A b \in DOMAIN h.written : b < h.blocks
      BY <1>0, <1>2 DEF IsRun
    <2>2. h.blocks \notin DOMAIN h.written
      BY <1>2, <2>1
    <2>3. \A n, k : ~Records(s.working, n, k, h.blocks) /\ ~Records(s.fits, n, k, h.blocks)
      BY <1>7, <2>2 DEF Processed
    <2>4. /\ DOMAIN g.written = DOMAIN h.written \cup {h.blocks}
          /\ g.written[h.blocks] = name
          /\ \A b \in DOMAIN h.written : g.written[b] = h.written[b]
      BY <2>2 DEF IsPut, name
    <2>5. len + 1 \in 1 .. g.blocks /\ \A i \in 1 .. h.blocks : i \in 1 .. g.blocks
      BY <1>1, <1>2
    <2> QED
      BY <2>1, <2>3, <2>4, <2>5
  <1>9. Once(c, g)
    <2>1. Processed(c.working, g)
      <3> SUFFICES ASSUME NEW n, NEW k, NEW b, Records(c.working, n, k, b)
                   PROVE  b \in DOMAIN g.written /\ g.written[b] = n /\ k \in 1 .. g.blocks
        BY DEF Processed
      <3>1. (n = name /\ k = len + 1 /\ b = h.blocks) \/ Records(s.working, n, k, b)
        BY <1>6
      <3>2. Records(s.working, n, k, b) =>
              b \in DOMAIN h.written /\ h.written[b] = n /\ k \in 1 .. h.blocks
        BY <1>7 DEF Processed
      <3> QED
        BY <1>8, <3>1, <3>2
    <2>2. Processed(c.fits, g)
      <3> SUFFICES ASSUME NEW n, NEW k, NEW b, Records(s.fits, n, k, b)
                   PROVE  b \in DOMAIN g.written /\ g.written[b] = n /\ k \in 1 .. g.blocks
        BY <1>3 DEF Processed
      <3>1. b \in DOMAIN h.written /\ h.written[b] = n /\ k \in 1 .. h.blocks
        BY <1>7 DEF Processed
      <3> QED
        BY <1>8, <3>1
    <2>3. Single(c.working)
      <3> SUFFICES ASSUME NEW n, NEW k, NEW m, NEW j, NEW b,
                          Records(c.working, n, k, b), Records(c.working, m, j, b)
                   PROVE  n = m /\ k = j
        BY DEF Single
      <3>1. \/ n = name /\ k = len + 1 /\ b = h.blocks
            \/ Records(s.working, n, k, b)
        BY <1>6
      <3>2. \/ m = name /\ j = len + 1 /\ b = h.blocks
            \/ Records(s.working, m, j, b)
        BY <1>6
      <3> QED
        BY <1>7, <1>8, <3>1, <3>2 DEF Single
    <2>4. Apart(c.working, c.fits)
      BY <1>3, <1>6, <1>7, <1>8 DEF Apart
    <2> QED
      BY <1>3, <1>7, <2>1, <2>2, <2>3, <2>4 DEF Once
  <1>10. /\ DOMAIN c.working = DOMAIN s.working /\ c.working[name] = content
         /\ \A n \in DOMAIN s.working \ {name} : c.working[n] = s.working[n]
    BY <1>1, <1>3 DEF IsPut, name
  <1>11. Kept(c, g)
    <2> SUFFICES ASSUME NEW b \in DOMAIN g.written, NEW n, n = g.written[b]
                 PROVE  InFile(c, n, b) /\ Later(c, n, b)
      BY DEF Kept
    <2>1. CASE b = h.blocks
      <3>1. Records(c.working, n, len + 1, b)
        BY <1>6, <1>8, <2>1
      <3> QED
        BY <3>1 DEF InFile, Later
    <2>2. CASE b \in DOMAIN h.written
      <3>1. InFile(s, n, b) /\ Later(s, n, b) /\ b < h.blocks
        BY <1>0, <1>8, <2>2 DEF Kept
      <3>2. InFile(c, n, b)
        BY <1>3, <1>6, <3>1 DEF InFile
      <3>3. Later(c, n, b)
        <4>1. CASE n = name /\ After(s.working[n], b)
          <5>1. \A k \in 1 .. len : content[k].block > b
            BY <1>4, <4>1 DEF After
          <5>2. content[len + 1].block > b
            BY <1>4, <3>1
          <5>3. \A k \in DOMAIN content : k \in 1 .. len \/ k = len + 1
            BY <1>2, <1>4
          <5>4. After(content, b)
            BY <5>1, <5>2, <5>3 DEF After
          <5> QED
            BY <1>10, <4>1, <5>4 DEF Later
        <4>2. CASE n # name \/ ~After(s.working[n], b)
          BY <1>6, <1>10, <3>1, <4>2 DEF Later
        <4> QED
          BY <4>1, <4>2
      <3> QED
        BY <3>2, <3>3
    <2> QED
      BY <1>8, <2>1, <2>2
  <1>12. OpenFile(c, g)
    <2>1. len + 1 <= g.blocks
      BY <1>8
    <2>2. Len(c.working[name]) = len + 1
      BY <1>4, <1>10
    <2>3. /\ \A n \in DOMAIN s.working : n.second <= h.clock
          /\ \A n \in DOMAIN s.working :
               n.second >= h.started => n \in s.unrenamed \/ n = name
          /\ ~s.etf.new_run /\ name.second >= h.started
      BY <1>0 DEF OpenFile, name
    <2> QED
      BY <1>1, <1>3, <1>5, <1>10, <2>1, <2>2, <2>3 DEF OpenFile
  <1>13. Named(c.working) /\ Named(c.fits)
    <2>1. ASSUME NEW k \in DOMAIN content PROVE MayRecord(name, content[k])
      <3>1. CASE k = len + 1
        BY <1>4, <3>1 DEF name
      <3>2. CASE k \in 1 .. len
        BY <1>0, <1>1, <1>4, <3>2 DEF Named
      <3> QED
        BY <1>2, <1>4, <3>1, <3>2
    <2> QED
      BY <1>0, <1>3, <1>10, <2>1 DEF Named
  <1> QED
    BY <1>3, <1>5, <1>9, <1>11, <1>12, <1>13 DEF FilesInv, c, name

\* What no file depends on: blocks that are not recorded, and the clock.
LEMMA GrowInv ==
  ASSUME NEW s, NEW h, FilesInv(s, h), NEW g, IsRun(g),
         g.blocks >= h.blocks, g.written = h.written,
         g.clock >= h.clock, g.started = h.started
  PROVE  FilesInv(s, g)
  <1>0. IsState(s) /\ IsRun(h) /\ Once(s, h) /\ Kept(s, h) /\ OpenFile(s, h)
    BY DEF FilesInv
  <1>1. /\ h.blocks \in Nat /\ g.blocks \in Nat /\ h.clock \in Nat /\ g.clock \in Nat
        /\ \A n \in DOMAIN s.working : n.second \in Nat
        /\ s.etf.integration_cnt \in Nat
    <2>1. h.blocks \in Nat /\ g.blocks \in Nat /\ h.clock \in Nat /\ g.clock \in Nat
      BY <1>0, CountAssumption DEF IsRun
    <2>2. s.etf.integration_cnt \in Nat
      BY <1>0, CountAssumption DEF IsState, Etf
    <2>3. \A n \in Names : n.second \in Nat
      BY NameSeconds
    <2>4. \A n \in DOMAIN s.working : n \in Names
      BY <1>0 DEF IsState, IsFiles
    <2> QED
      BY <2>1, <2>2, <2>3, <2>4
  <1>2. Once(s, g)
    <2>1. \A i \in 1 .. h.blocks : i \in 1 .. g.blocks
      BY <1>1
    <2>2. Processed(s.working, h) => Processed(s.working, g)
      BY <2>1 DEF Processed
    <2>3. Processed(s.fits, h) => Processed(s.fits, g)
      BY <2>1 DEF Processed
    <2> QED
      BY <1>0, <2>2, <2>3 DEF Once
  <1>3. Kept(s, g)
    BY <1>0 DEF Kept
  <1>4. OpenFile(s, g)
    <2>1. \A n \in DOMAIN s.working : n.second <= g.clock
      BY <1>0, <1>1 DEF OpenFile
    <2>2. s.etf.integration_cnt <= g.blocks
      BY <1>0, <1>1 DEF OpenFile
    <2> QED
      BY <1>0, <2>1, <2>2 DEF OpenFile
  <1>5. Named(s.working) /\ Named(s.fits)
    BY DEF FilesInv
  <1> QED
    BY <1>0, <1>2, <1>3, <1>4, <1>5 DEF FilesInv

LEMMA RestartInv ==
  ASSUME NEW s, NEW h, FilesInv(s, h), NEW t, NEW g, IsRun(g),
         t.working = s.working, t.fits = s.fits, t.unrenamed = s.unrenamed,
         t.etf = init_etfits, g.blocks = h.blocks, g.written = h.written,
         g.clock = h.clock + 1, g.started = h.clock + 1
  PROVE  FilesInv(t, g)
  <1>0. IsState(s) /\ IsRun(h) /\ Once(s, h) /\ Kept(s, h) /\ OpenFile(s, h)
    BY DEF FilesInv
  <1>1. /\ h.clock \in Nat /\ h.blocks \in Nat
        /\ \A n \in DOMAIN s.working : n.second \in Nat
    <2>1. h.clock \in Nat /\ h.blocks \in Nat
      BY <1>0, CountAssumption DEF IsRun
    <2>2. \A n \in Names : n.second \in Nat
      BY NameSeconds
    <2>3. \A n \in DOMAIN s.working : n \in Names
      BY <1>0 DEF IsState, IsFiles
    <2> QED
      BY <2>1, <2>2, <2>3
  <1>2. /\ t.etf \in Etf /\ ~t.etf.file_open /\ t.etf.integration_cnt = 0
    <2>1. NoName \in Names /\ 0 \in 0 .. MaxBlocks
      BY CountAssumption DEF NoName, Names, Sids
    <2> QED
      BY <2>1 DEF init_etfits, Etf
  <1>3. IsState(t)
    BY <1>0, <1>2 DEF IsState
  <1>4. Once(t, g)
    BY <1>0 DEF Once, Processed
  <1>5. Kept(t, g)
    BY <1>0 DEF Kept, InFile, Later
  <1>6. OpenFile(t, g)
    <2>1. \A n \in DOMAIN s.working : n.second <= g.clock /\ ~(n.second >= g.started)
      BY <1>0, <1>1 DEF OpenFile
    <2> QED
      BY <1>1, <1>2, <2>1 DEF OpenFile
  <1>7. Named(t.working) /\ Named(t.fits)
    BY DEF FilesInv
  <1> QED
    BY <1>3, <1>4, <1>5, <1>6, <1>7 DEF FilesInv

-----------------------------------------------------------------------------
(* The program.                                                            *)

LEMMA EtfitsInit == Init => EtfitsInv
  <1> SUFFICES ASSUME Init PROVE EtfitsInv
    OBVIOUS
  <1>1. RestTypeOK
    <2>1. 0 \in 0 .. MaxRestarts
      BY CountAssumption
    <2> QED
      BY <2>1 DEF Init, RestTypeOK, CoarseChans
  <1>2. /\ Now.etf = init_etfits /\ Now.working = <<>> /\ Now.fits = <<>>
        /\ Now.unrenamed = {}
        /\ Run.blocks = 0 /\ Run.written = <<>> /\ Run.clock = 0 /\ Run.started = 0
    BY DEF Init, Now, Run
  <1>3. /\ etf \in Etf /\ etf.new_run /\ ~etf.file_open /\ etf.integration_cnt = 0
    <2>1. NoName \in Names /\ 0 \in 0 .. MaxBlocks
      BY CountAssumption DEF NoName, Names, Sids
    <2> QED
      BY <2>1 DEF Init, init_etfits, Etf
  <1>4. DOMAIN <<>> = {} /\ IsFiles(<<>>)
    BY DEF IsFiles
  <1>5. FilesInv(Now, Run)
    <2>1. IsState(Now)
      BY <1>2, <1>3, <1>4 DEF IsState, Now
    <2>2. IsRun(Run)
      <3>1. <<>> \in [DOMAIN <<>> -> Names]
        BY <1>4
      <3> QED
        BY <1>2, <1>4, <3>1, CountAssumption DEF IsRun
    <2>3. \A n, k, b : ~Records(<<>>, n, k, b)
      BY <1>4 DEF Records
    <2>4. Once(Now, Run)
      BY <1>2, <2>3 DEF Once, Processed, Single, Apart
    <2>5. Kept(Now, Run)
      BY <1>2, <1>4 DEF Kept
    <2>6. OpenFile(Now, Run)
      BY <1>2, <1>3, <1>4 DEF OpenFile, Now
    <2>7. Named(Now.working) /\ Named(Now.fits)
      BY <1>2, <1>4 DEF Named
    <2> QED
      BY <2>1, <2>2, <2>4, <2>5, <2>6, <2>7 DEF FilesInv
  <1>6. pc = "top" /\ num_coarse_chan = 0
    BY DEF Init
  <1> QED
    BY <1>1, <1>3, <1>5, <1>6 DEF EtfitsInv, Between, OpenReceiver, OpenBeam

\* A step that leaves the files alone.
LEMMA SameFiles ==
  ASSUME EtfitsInv, RestTypeOK', UNCHANGED <<etf, disk, blocks, written, started>>,
         clock' \in {clock, clock + 1}, clock' \in 0 .. MaxSecond,
         UNCHANGED <<prior_receiver, num_coarse_chan, zero_headers>>,
         pc' \in {"top", "wait"} => pc \in {"top", "wait"},
         pc' = "done" => pc = "done"
  PROVE  EtfitsInv'
  <1>1. FilesInv(Now, Run) /\ IsRun(Run)
    BY DEF EtfitsInv, FilesInv
  <1>2. clock \in Nat
    BY <1>1, CountAssumption DEF IsRun, Run
  <1>3. /\ Now' = Now /\ Run'.blocks = Run.blocks /\ Run'.written = Run.written
        /\ Run'.started = Run.started /\ Run'.clock = clock' /\ Run.clock = clock
    BY DEF Now, Run, disk
  <1>4. IsRun(Run') /\ Run'.clock >= Run.clock /\ Run'.blocks >= Run.blocks
    BY <1>1, <1>2, <1>3, CountAssumption DEF IsRun
  <1>5. FilesInv(Now, Run')
    BY <1>1, <1>3, <1>4, GrowInv
  <1>6. FilesInv(Now, Run)'
    BY <1>3, <1>5
  <1> QED
    BY <1>6 DEF EtfitsInv, Between, OpenReceiver, OpenBeam

\* The files after a block, for the run with that block in it.
LEMMA FilesBecome ==
  ASSUME NEW s, Becomes(s), FilesInv(s, Run')
  PROVE  FilesInv(Now, Run)'
  <1>1. /\ Now'.etf = s.etf /\ Now'.working = s.working /\ Now'.fits = s.fits
        /\ Now'.unrenamed = s.unrenamed
    BY DEF Becomes, Now
  <1>2. FilesInv(Now', Run')
    <2>1. /\ IsState(s) /\ IsRun(Run') /\ Once(s, Run') /\ Kept(s, Run')
          /\ OpenFile(s, Run') /\ Named(s.working) /\ Named(s.fits)
      BY DEF FilesInv
    <2>2. IsState(Now') /\ Once(Now', Run') /\ Kept(Now', Run') /\ OpenFile(Now', Run')
      BY <1>1, <2>1 DEF IsState, Once, Kept, InFile, Later, OpenFile
    <2> QED
      BY <1>1, <2>1, <2>2 DEF FilesInv
  <1> QED
    BY <1>2

\* A block: the files are left, begun and written to as it and the keys demand.
LEMMA BlockStep ==
  ASSUME EtfitsInv, NEW testmode \in BOOLEAN, NEW ok \in BOOLEAN, NEW r \in Receivers,
         NEW full \in BOOLEAN, NEW renamed \in BOOLEAN,
         NEW err \in {"none", "create", "write"},
         ProcessBlock(testmode, ok, r, full, renamed, err)
  PROVE  EtfitsInv'
  <1> DEFINE receiver == Faststatus(testmode, ok, r)
             change == ChangesFile(testmode, receiver)
             s1 == IF change THEN ChangeFile(Now, renamed) ELSE Now
             records == testmode \/ run_always
             creates == records /\ NeedsFile(s1)
             name == FileName(receiver)
             left == IF creates THEN LeaveFile(s1, renamed) ELSE s1
             open == IF creates /\ err # "create" THEN etfits_create(left, name) ELSE left
             integration == [block |-> blocks, RECEIVER |-> receiver, sid |-> Header.sid]
             final == IF records /\ err = "none"
                        THEN WriteIntegration(open, integration, full) ELSE open
  <1>1. /\ pc = "wait" /\ blocks < MaxBlocks
        /\ err = "create" => creates
        /\ err = "write" => records
        /\ creates /\ name \in DOMAIN left.working => err = "create"
    BY DEF ProcessBlock
  <1>2. /\ RECEIVER' = receiver
        /\ IF change
             THEN /\ prior_receiver' = receiver
                  /\ prior_run_always' = run_always
                  /\ num_coarse_chan' = Header.num_coarse_chan
             ELSE UNCHANGED <<prior_receiver, prior_run_always, num_coarse_chan>>
        /\ zero_headers' = IF zero_headers > 0 THEN zero_headers - 1 ELSE 0
        /\ blocks' = blocks + 1
        /\ written' = IF records /\ err = "none" THEN Put(written, blocks, open.etf.name)
                                                 ELSE written
        /\ pc' = IF err = "none" THEN "top" ELSE "dead"
        /\ UNCHANGED <<env, restarts, started, run_always>>
    BY DEF ProcessBlock
  <1>3. Becomes(final)
    BY DEF ProcessBlock
  <1> HIDE DEF final
  <1>4. receiver \in Receivers \cup {"", "S6TEST"}
    BY DEF Faststatus, EtfitsInv, RestTypeOK
  <1>5. /\ FilesInv(Now, Run) /\ (etf.new_run \/ etf.new_file \/ etf.file_open)
        /\ etf.file_open => etf.integration_cnt > 0
        /\ OpenReceiver /\ OpenBeam
        /\ num_coarse_chan \in CoarseChans /\ zero_headers \in 0 .. 2
    BY <1>1 DEF EtfitsInv, Between, RestTypeOK
  <1>6. /\ Header.sid \in Sids /\ Header.num_coarse_chan \in CoarseChans
        /\ Header.num_coarse_chan = 1 <=> zero_headers = 0
        /\ Header.num_coarse_chan = 1 => Header.sid = Sid
        /\ Header.num_coarse_chan # 1 => Header.sid = 0
        /\ Header.num_coarse_chan = 1 => zero_headers' = 0
        /\ zero_headers' > 0 => zero_headers > 0
        /\ zero_headers' \in 0 .. 2
    BY <1>2, <1>5, SidAssumption DEF Header, Sids, CoarseChans
  <1>7. Now.etf = etf
    BY DEF Now
  <1>8. /\ FilesInv(s1, Run)
        /\ s1.etf.new_run \/ s1.etf.new_file \/ s1.etf.file_open
        /\ s1.etf.file_open => s1.etf.integration_cnt > 0
        /\ change => ~s1.etf.file_open
        /\ ~change => s1 = Now
    BY <1>5, <1>7, ChangeInv
  <1> HIDE DEF s1
  <1>9. creates => FilesInv(left, Run) /\ ~left.etf.file_open /\ left.etf.integration_cnt = 0
    BY <1>8, LeaveInv
  <1> DEFINE g == [blocks |-> blocks + 1, written |-> written',
                   clock |-> clock, started |-> started]
  <1>10. Run' = g
    BY <1>2 DEF Run, env
  <1>11. /\ blocks \in 0 .. MaxBlocks-1 /\ blocks + 1 \in 0 .. MaxBlocks
         /\ clock \in 0 .. MaxSecond /\ started \in 0 .. clock
         /\ written \in [DOMAIN written -> Names] /\ DOMAIN written \subseteq 0 .. blocks-1
         /\ blocks \in Nat /\ clock \in Nat
    <2>1. /\ blocks \in 0 .. MaxBlocks
          /\ clock \in 0 .. MaxSecond /\ started \in 0 .. clock
          /\ written \in [DOMAIN written -> Names] /\ DOMAIN written \subseteq 0 .. blocks-1
      BY <1>5 DEF FilesInv, IsRun, Run
    <2> QED
      BY <1>1, <2>1, CountAssumption
  \* What is the case when the file that records block is open.
  <1> DEFINE MayOpen(n) ==
               /\ MayRecord(n, integration)
               /\ n.receiver \in Receivers => n.receiver = prior_receiver'
               /\ zero_headers' > 0 => n.sid = 0
               /\ num_coarse_chan' = 1 => n.sid = Sid
  <1>12. num_coarse_chan' = 1 => zero_headers' = 0
    <2>1. CASE change
      BY <1>2, <1>6, <2>1
    <2>2. CASE ~change
      BY <1>2, <1>5, <2>2 DEF OpenBeam
    <2> QED
      BY <2>1, <2>2
  <1>13. ASSUME records, err # "create"
         PROVE  FilesInv(open, Run) /\ open.etf.file_open /\ MayOpen(open.etf.name)
    <2>1. CASE creates
      <3>1. FilesInv(left, Run) /\ ~left.etf.file_open /\ left.etf.integration_cnt = 0
        BY <1>9, <2>1
      <3>2. /\ name \in Names /\ name.second = Run.clock
            /\ name.receiver = receiver /\ name.sid = Header.sid
        BY <1>4, <1>6, <1>11 DEF FileName, Names, Run
      <3>3. name \notin DOMAIN left.working /\ open = etfits_create(left, name)
        BY <1>1, <1>13, <2>1
      <3> HIDE DEF left, name, open
      <3>4. FilesInv(open, Run) /\ open.etf.file_open /\ open.etf.name = name
        BY <3>1, <3>2, <3>3, CreateInv
      <3>5. receiver \in Receivers => receiver = prior_receiver'
        <4>1. CASE testmode
          BY <4>1, ReceiverAssumption DEF Faststatus
        <4>2. CASE ~testmode
          BY <1>2, <4>2 DEF ChangesFile
        <4> QED
          BY <4>1, <4>2
      <3>6. num_coarse_chan' = 1 => Header.num_coarse_chan = 1
        BY <1>2, <1>5, <1>6 DEF OpenBeam
      <3>7. MayRecord(name, integration)
        BY <3>2 DEF MayRecord
      <3> QED
        BY <1>6, <3>2, <3>4, <3>5, <3>6, <3>7
    <2>2. CASE ~creates
      <3>1. s1.etf.file_open /\ open = s1
        BY <1>8, <1>13, <2>2 DEF NeedsFile
      <3>2. ~change /\ s1 = Now
        BY <1>8, <3>1
      <3> DEFINE n == etf.name
      <3>3. /\ etf.file_open /\ open.etf = etf
            /\ prior_receiver' = prior_receiver /\ num_coarse_chan' = num_coarse_chan
        BY <1>2, <1>7, <3>1, <3>2
      <3>4. /\ n.receiver \in Receivers => n.receiver = prior_receiver
            /\ zero_headers > 0 => n.sid = 0
            /\ num_coarse_chan = 1 => n.sid = Sid
        BY <1>5, <3>3 DEF OpenReceiver, OpenBeam
      <3>5. testmode => receiver = "S6TEST"
        BY DEF Faststatus
      <3>6. ~testmode => receiver = prior_receiver /\ num_coarse_chan = Header.num_coarse_chan
        BY <3>2 DEF ChangesFile
      <3>7. ~testmode => Header.sid = n.sid
        BY <1>5, <1>6, <3>4, <3>6
      <3>8. MayRecord(n, integration)
        BY <3>4, <3>5, <3>6, <3>7 DEF MayRecord
      <3> QED
        BY <1>6, <1>8, <3>1, <3>2, <3>3, <3>4, <3>8
    <2> QED
      BY <2>1, <2>2
  <1>14. /\ IsRun(g) /\ g.blocks = Run.blocks + 1 /\ g.clock = Run.clock
         /\ g.started = Run.started /\ g.written = written' /\ g.blocks >= Run.blocks
         /\ g.clock >= Run.clock
         /\ Run.blocks = blocks /\ Run.written = written
    <2>1. written' \in [DOMAIN written' -> Names] /\ DOMAIN written' \subseteq 0 .. blocks
      <3>1. CASE records /\ err = "none"
        <4>1. open.etf.name \in Names
          BY <1>13, <3>1 DEF FilesInv, IsState, Etf
        <4> HIDE DEF open
        <4> QED
          BY <1>2, <1>11, <3>1, <4>1 DEF Put
      <3>2. CASE ~(records /\ err = "none")
        BY <1>2, <1>11, <3>2
      <3> QED
        BY <3>1, <3>2
    <2>2. (blocks + 1) - 1 = blocks
      BY <1>11
    <2> QED
      BY <1>11, <2>1, <2>2 DEF IsRun, Run
  <1> HIDE DEF g
  <1>15. /\ FilesInv(final, g)
         /\ err = "none" => final.etf.new_run \/ final.etf.new_file \/ final.etf.file_open
         /\ err = "none" /\ final.etf.file_open => final.etf.integration_cnt > 0
         /\ final.etf.file_open /\ final.etf.name.receiver \in Receivers =>
              final.etf.name.receiver = prior_receiver'
         /\ final.etf.file_open /\ zero_headers' > 0 => final.etf.name.sid = 0
         /\ final.etf.file_open /\ num_coarse_chan' = 1 => final.etf.name.sid = Sid
    <2>1. CASE records /\ err = "none"
      <3>1. integration \in Integrations /\ integration.block = Run.blocks
        BY <1>4, <1>6, <1>11, <1>14 DEF Integrations
      <3>2. FilesInv(open, Run) /\ open.etf.file_open /\ MayOpen(open.etf.name)
        BY <1>13, <2>1
      <3>3. final = WriteIntegration(open, integration, full)
        BY <2>1 DEF final
      <3> HIDE DEF open, integration
      <3>4. IsPut(g.written, Run.written, Run.blocks, open.etf.name)
        BY <1>2, <1>14, <2>1 DEF IsPut, Put, open
      <3>5. /\ FilesInv(final, g) /\ final.etf.file_open
            /\ final.etf.name = open.etf.name /\ final.etf.integration_cnt > 0
        BY <1>14, <3>1, <3>2, <3>3, <3>4, WriteInv
      <3> QED
        BY <3>2, <3>5
    <2>2. CASE ~records
      <3>1. final = s1 /\ err = "none" /\ g.written = Run.written
        BY <1>1, <1>2, <1>14, <2>2 DEF final
      <3>2. FilesInv(final, g)
        BY <1>8, <1>14, <3>1, GrowInv
      <3>3. ASSUME final.etf.file_open
            PROVE  /\ final.etf.name.receiver \in Receivers =>
                        final.etf.name.receiver = prior_receiver'
                   /\ zero_headers' > 0 => final.etf.name.sid = 0
                   /\ num_coarse_chan' = 1 => final.etf.name.sid = Sid
        <4>1. final.etf = etf /\ UNCHANGED <<prior_receiver, num_coarse_chan>>
          BY <1>2, <1>7, <1>8, <3>1, <3>3
        <4> QED
          BY <1>5, <1>6, <3>3, <4>1 DEF OpenReceiver, OpenBeam
      <3> QED
        BY <1>8, <3>1, <3>2, <3>3
    <2>3. CASE records /\ err = "write"
      <3>1. final = open /\ g.written = Run.written
        BY <1>2, <1>14, <2>3 DEF final
      <3>2. FilesInv(open, Run) /\ open.etf.file_open /\ MayOpen(open.etf.name)
        BY <1>13, <2>3
      <3> HIDE DEF open
      <3>3. FilesInv(final, g)
        BY <1>14, <3>1, <3>2, GrowInv
      <3> QED
        BY <2>3, <3>1, <3>2, <3>3
    <2>4. CASE records /\ err = "create"
      <3>1. final = left /\ creates /\ g.written = Run.written
        BY <1>1, <1>2, <1>14, <2>4 DEF final
      <3>2. FilesInv(left, Run) /\ ~left.etf.file_open
        BY <1>9, <3>1
      <3>3. FilesInv(final, g)
        BY <1>14, <3>1, <3>2, GrowInv
      <3> QED
        BY <2>4, <3>1, <3>2, <3>3
    <2> QED
      BY <2>1, <2>2, <2>3, <2>4
  <1>16. RestTypeOK'
    BY <1>2, <1>4, <1>6 DEF EtfitsInv, RestTypeOK, env
  <1>17. FilesInv(Now, Run)'
    BY <1>3, <1>10, <1>15, FilesBecome
  <1>18. etf' = final.etf
    BY <1>3 DEF Becomes
  <1>19. Between' /\ OpenReceiver' /\ OpenBeam'
    BY <1>2, <1>12, <1>15, <1>18 DEF Between, OpenReceiver, OpenBeam
  <1> QED
    BY <1>16, <1>17, <1>19 DEF EtfitsInv

LEMMA EtfitsStep == EtfitsInv /\ [Next]_vars => EtfitsInv'
  <1> SUFFICES ASSUME EtfitsInv, [Next]_vars PROVE EtfitsInv'
    OBVIOUS
  <1>0. /\ RestTypeOK /\ FilesInv(Now, Run) /\ IsRun(Run)
        /\ Between /\ OpenReceiver /\ OpenBeam
        /\ clock \in 0 .. MaxSecond
        /\ Now.etf = etf
    BY DEF EtfitsInv, FilesInv, IsRun, Run, Now
  <1>1. CASE Tick
    <2>1. clock' \in 0 .. MaxSecond
      BY <1>0, <1>1, CountAssumption DEF Tick
    <2>2. RestTypeOK'
      BY <1>0, <1>1 DEF Tick, RestTypeOK, run, locals
    <2> QED
      BY <1>1, <2>1, <2>2, SameFiles DEF Tick, run, locals
  <1>2. CASE Stop
    <2>1. RestTypeOK'
      BY <1>0, <1>2 DEF Stop, RestTypeOK, run, locals
    <2> QED
      BY <1>0, <1>2, <2>1, SameFiles DEF Stop, run, locals
  <1>3. CASE LoopTop
    <2>1. RestTypeOK'
      BY <1>0, <1>3 DEF LoopTop, RestTypeOK, env
    <2> QED
      BY <1>0, <1>3, <2>1, SameFiles DEF LoopTop, env
  <1>4. ASSUME NEW renamed \in BOOLEAN, LoopEnd(renamed)
        PROVE  EtfitsInv'
    <2> DEFINE closed == FinalClose(renamed)
    <2>1. pc = "top" /\ pc' = "done" /\ UNCHANGED locals /\ Becomes(closed)
      BY <1>4 DEF LoopEnd
    <2>2. FilesInv(closed, Run) /\ ~closed.etf.file_open
      <3>1. CASE etf.file_open
        <4>1. etf \in Etf /\ Now.etf.file_open /\ Now.etf.integration_cnt > 0
          BY <1>0, <2>1, <3>1 DEF FilesInv, IsState, Between
        <4>2. closed = etfits_close(Now, renamed)
          BY <3>1 DEF FinalClose
        <4>3. /\ FilesInv(etfits_close(Now, renamed), Run)
              /\ etfits_close(Now, renamed).etf = [etf EXCEPT !.file_open = FALSE]
          BY <1>0, <4>1, CloseInv
        <4> HIDE DEF closed
        <4> QED
          BY <4>1, <4>2, <4>3 DEF Etf
      <3>2. CASE ~etf.file_open
        BY <1>0, <3>2 DEF FinalClose
      <3> QED
        BY <3>1, <3>2
    <2> HIDE DEF closed
    <2>3. Run' = Run
      BY <1>4 DEF LoopEnd, Run, env
    <2>4. FilesInv(Now, Run)'
      BY <2>1, <2>2, <2>3, FilesBecome
    <2>5. RestTypeOK'
      BY <1>0, <1>4 DEF LoopEnd, RestTypeOK, env, locals
    <2>6. ~etf'.file_open
      BY <2>1, <2>2 DEF Becomes
    <2>7. Between' /\ OpenReceiver' /\ OpenBeam'
      BY <1>0, <2>1, <2>6 DEF Between, OpenReceiver, OpenBeam, locals
    <2> QED
      BY <2>4, <2>5, <2>7 DEF EtfitsInv
  <1>5. ASSUME NEW testmode \in BOOLEAN, NEW ok \in BOOLEAN, NEW full \in BOOLEAN,
               NEW renamed \in BOOLEAN, NEW r \in Receivers,
               NEW err \in {"none", "create", "write"},
               ProcessBlock(testmode, ok, r, full, renamed, err)
        PROVE  EtfitsInv'
    BY <1>5, BlockStep
  <1>6. CASE Die
    <2>1. RestTypeOK'
      BY <1>0, <1>6 DEF Die, RestTypeOK, env, run, locals
    <2> QED
      BY <1>0, <1>6, <2>1, SameFiles DEF Die, run, locals, env
  <1>7. CASE Restart
    <2>0. clock < MaxSecond /\ restarts < MaxRestarts /\ restarts \in 0 .. MaxRestarts
      BY <1>0, <1>7 DEF Restart, RestTypeOK
    <2>1. clock + 1 \in 0 .. MaxSecond /\ restarts + 1 \in 0 .. MaxRestarts
      BY <1>0, <2>0, CountAssumption
    <2>2. RestTypeOK'
      BY <1>0, <1>7, <2>1 DEF Restart, RestTypeOK, CoarseChans
    <2>3. /\ Run'.blocks = Run.blocks /\ Run'.written = Run.written
          /\ Run'.clock = Run.clock + 1 /\ Run'.started = Run.clock + 1
          /\ Now'.working = Now.working /\ Now'.fits = Now.fits
          /\ Now'.unrenamed = Now.unrenamed /\ Now'.etf = init_etfits
      BY <1>7 DEF Restart, Run, Now, disk
    <2>4. IsRun(Run')
      <3>1. Run.clock = clock
        BY DEF Run
      <3>2. clock + 1 \in 0 .. clock + 1
        BY <1>0, CountAssumption
      <3> QED
        BY <1>0, <2>1, <2>3, <3>1, <3>2 DEF IsRun
    <2>5. FilesInv(Now', Run')
      BY <1>0, <2>3, <2>4, RestartInv
    <2>6. /\ etf'.new_run /\ ~etf'.file_open
          /\ pc' = "top" /\ num_coarse_chan' = 0
      BY <1>7 DEF Restart, init_etfits
    <2> QED
      BY <2>2, <2>5, <2>6 DEF EtfitsInv, Between, OpenReceiver, OpenBeam
  <1>8. CASE UNCHANGED vars
    <2>1. RestTypeOK'
      BY <1>0, <1>8 DEF vars, RestTypeOK, env, run, locals
    <2> QED
      BY <1>0, <1>8, <2>1, SameFiles DEF vars, run, locals, env
  <1> QED
    BY <1>1, <1>2, <1>3, <1>4, <1>5, <1>6, <1>7, <1>8 DEF Next

LEMMA EtfitsInvariance == Spec => []EtfitsInv
  BY EtfitsInit, EtfitsStep, PTL DEF Spec

-----------------------------------------------------------------------------
(* Files that were renamed.                                                *)

\* What closing a file does to the others: a .fits file changes only if there
\* is a .working file of its name, and no .working file is begun.
Settles(s, t) ==
  /\ \A n \in DOMAIN s.fits \ DOMAIN s.working : n \in DOMAIN t.fits /\ t.fits[n] = s.fits[n]
  /\ DOMAIN t.working \subseteq DOMAIN s.working

LEMMA CloseSettles ==
  ASSUME NEW s, NEW h, FilesInv(s, h), NEW renamed \in BOOLEAN, s.etf.file_open
  PROVE  Settles(s, etfits_close(s, renamed))
  <1>1. IsState(s) /\ s.etf.name \in DOMAIN s.working \ s.unrenamed
    BY DEF FilesInv, OpenFile
  <1>2. CASE renamed
    <2>1. /\ IsRest(etfits_close(s, renamed).working, s.working, s.etf.name)
          /\ IsPut(etfits_close(s, renamed).fits, s.fits, s.etf.name, s.working[s.etf.name])
      BY <1>1, <1>2, CloseState
    <2> QED
      BY <1>1, <2>1 DEF Settles, IsRest, IsPut
  <1>3. CASE ~renamed
    BY <1>3 DEF Settles, etfits_close
  <1> QED
    BY <1>2, <1>3

LEMMA ChangeSettles ==
  ASSUME NEW s, NEW h, FilesInv(s, h), NEW renamed \in BOOLEAN
  PROVE  Settles(s, ChangeFile(s, renamed))
  BY CloseSettles DEF ChangeFile, Settles

LEMMA LeaveSettles ==
  ASSUME NEW s, NEW h, FilesInv(s, h), NEW renamed \in BOOLEAN
  PROVE  Settles(s, LeaveFile(s, renamed))
  BY CloseSettles DEF LeaveFile, Settles

\* A step begins no file but one named for the present second.
LEMMA StepSettles ==
  EtfitsInv /\ [Next]_vars =>
    /\ \A n \in DOMAIN fits \ DOMAIN working : n \in DOMAIN fits' /\ fits'[n] = fits[n]
    /\ \A n \in DOMAIN working' : n \in DOMAIN working \/ n.second = clock
  <1> DEFINE Settled == /\ \A n \in DOMAIN fits \ DOMAIN working :
                             n \in DOMAIN fits' /\ fits'[n] = fits[n]
                        /\ \A n \in DOMAIN working' : n \in DOMAIN working \/ n.second = clock
  <1> SUFFICES ASSUME EtfitsInv, [Next]_vars PROVE Settled
    OBVIOUS
  <1>0. /\ FilesInv(Now, Run) /\ Now.etf = etf /\ Now.fits = fits /\ Now.working = working
    BY DEF EtfitsInv, Now
  <1>1. CASE UNCHANGED <<fits, working>>
    BY <1>1
  <1>2. ASSUME NEW renamed \in BOOLEAN, LoopEnd(renamed) PROVE Settled
    <2>1. fits' = FinalClose(renamed).fits /\ working' = FinalClose(renamed).working
      BY <1>2 DEF LoopEnd, Becomes
    <2>2. Settles(Now, FinalClose(renamed))
      BY <1>0, CloseSettles DEF FinalClose, Settles
    <2> QED
      BY <1>0, <2>1, <2>2 DEF Settles
  <1>3. ASSUME NEW testmode \in BOOLEAN, NEW ok \in BOOLEAN, NEW full \in BOOLEAN,
               NEW renamed \in BOOLEAN, NEW r \in Receivers,
               NEW err \in {"none", "create", "write"},
               ProcessBlock(testmode, ok, r, full, renamed, err)
        PROVE  Settled
    <2> DEFINE receiver == Faststatus(testmode, ok, r)
               change == ChangesFile(testmode, receiver)
               s1 == IF change THEN ChangeFile(Now, renamed) ELSE Now
               records == testmode \/ run_always
               creates == records /\ NeedsFile(s1)
               name == FileName(receiver)
               left == IF creates THEN LeaveFile(s1, renamed) ELSE s1
               open == IF creates /\ err # "create" THEN etfits_create(left, name) ELSE left
               integration == [block |-> blocks, RECEIVER |-> receiver, sid |-> Header.sid]
               final == IF records /\ err = "none"
                          THEN WriteIntegration(open, integration, full) ELSE open
    <2>1. fits' = final.fits /\ working' = final.working
      BY <1>3 DEF ProcessBlock, Becomes
    <2>2. /\ FilesInv(s1, Run) /\ Settles(Now, s1)
          /\ s1.etf.file_open => s1.etf.name \in DOMAIN s1.working
          /\ NeedsFile(s1) \/ s1.etf.file_open
      <3>1. /\ etf.file_open => etf.integration_cnt > 0
            /\ etf.new_run \/ etf.new_file \/ etf.file_open
        BY <1>3 DEF EtfitsInv, Between, ProcessBlock
      <3>2. CASE change
        BY <1>0, <3>1, <3>2, ChangeInv, ChangeSettles DEF NeedsFile
      <3>3. CASE ~change
        BY <1>0, <3>1, <3>3 DEF Settles, NeedsFile, FilesInv, OpenFile
      <3> QED
        BY <3>2, <3>3
    <2> HIDE DEF s1
    <2>3. Settles(s1, left)
      BY <2>2, LeaveSettles DEF Settles
    <2>4. Settles(Now, left)
      <3>1. CASE creates /\ s1.etf.file_open
        <4>1. s1 = Now
          BY <1>0, <1>3, <3>1, ChangeInv DEF s1, EtfitsInv, Between, ProcessBlock
        <4> QED
          BY <2>3, <4>1
      <3>2. CASE ~(creates /\ s1.etf.file_open)
        <4>1. left.fits = s1.fits /\ left.working = s1.working
          BY <3>2 DEF LeaveFile
        <4> QED
          BY <2>2, <4>1 DEF Settles
      <3> QED
        BY <3>1, <3>2
    <2>5. /\ final.fits = left.fits
          /\ \A n \in DOMAIN final.working : n \in DOMAIN left.working \/ n = name
      <3>1. CASE records /\ err # "create"
        <4>1. open.etf.name = name \/ open.etf.name \in DOMAIN left.working
          <5>1. CASE creates
            BY <3>1, <5>1 DEF etfits_create
          <5>2. CASE ~creates
            BY <2>2, <3>1, <5>2
          <5> QED
            BY <5>1, <5>2
        <4> QED
          BY <3>1, <4>1 DEF etfits_create, WriteIntegration, Put
      <3>2. CASE ~(records /\ err # "create")
        BY <3>2
      <3> QED
        BY <3>1, <3>2
    <2>6. name.second = clock
      BY DEF FileName
    <2> HIDE DEF left, final, name
    <2> QED
      BY <1>0, <2>1, <2>4, <2>5, <2>6 DEF Settles
  <1> HIDE DEF Settled
  <1>4. CASE Tick \/ Stop \/ LoopTop \/ Die \/ Restart \/ UNCHANGED vars
    <2>1. UNCHANGED disk
      BY <1>4 DEF Tick, Stop, LoopTop, Die, Restart, vars
    <2> QED
      BY <1>1, <2>1 DEF disk
  <1> QED
    BY <1>2, <1>3, <1>4 DEF Next

-----------------------------------------------------------------------------
(* The theorems.                                                           *)

\* The variables keep to their types, for any receivers and all bounds.
THEOREM EtfitsTypeCorrect == Spec => []TypeOK
  <1>1. EtfitsInv => TypeOK
    <2> SUFFICES ASSUME EtfitsInv PROVE TypeOK
      OBVIOUS
    <2>1. RestTypeOK /\ FilesInv(Now, Run)
      BY DEF EtfitsInv
    <2>2. etf \in Etf /\ IsFiles(working) /\ IsFiles(fits) /\ unrenamed \subseteq DOMAIN working
      BY <2>1 DEF FilesInv, IsState, Now
    <2>3. ASSUME NEW files, IsFiles(files), NEW n \in DOMAIN files
          PROVE  n \in Names /\ Range(files[n]) \subseteq Integrations
      <3>1. n \in Names /\ files[n] \in Seq(Integrations)
        BY <2>3 DEF IsFiles
      <3> QED
        BY <3>1 DEF Range
    <2>4. /\ blocks \in 0 .. MaxBlocks
          /\ written \in [DOMAIN written -> Names] /\ DOMAIN written \subseteq 0 .. blocks-1
          /\ clock \in 0 .. MaxSecond /\ started \in 0 .. clock
      BY <2>1 DEF FilesInv, IsRun, Run
    <2>5. DOMAIN written \subseteq 0 .. MaxBlocks-1 /\ started \in 0 .. MaxSecond
      BY <2>4, CountAssumption
    <2>6. Range(written) \subseteq Names
      BY <2>4 DEF Range
    <2>7. \A files \in {working, fits} :
            \A n \in DOMAIN files : n \in Names /\ Range(files[n]) \subseteq Integrations
      BY <2>2, <2>3
    <2> QED
      BY <2>1, <2>2, <2>4, <2>5, <2>6, <2>7 DEF TypeOK, RestTypeOK, Etf
  <1> QED
    BY <1>1, EtfitsInvariance, PTL

\* Of the files a running program has begun, those still under a .working name
\* are the open one and those reported as not renamed.
THEOREM ClosedHolds == Spec => []ClosedIsRenamedOrReported
  <1>1. EtfitsInv => ClosedIsRenamedOrReported
    <2> SUFFICES ASSUME EtfitsInv, pc \in {"top", "wait", "done"}
                 PROVE  {n \in DOMAIN working : n.second >= started}
                          = {n \in unrenamed : n.second >= started}
                              \cup (IF etf.file_open /\ pc # "done" THEN {etf.name} ELSE {})
      BY DEF ClosedIsRenamedOrReported
    <2>1. OpenFile(Now, Run) /\ IsState(Now) /\ Between
      BY DEF EtfitsInv, FilesInv
    <2>2. /\ \A n \in DOMAIN working :
               n.second >= started => n \in unrenamed \/ (etf.file_open /\ n = etf.name)
          /\ etf.file_open => etf.name \in DOMAIN working /\ etf.name.second >= started
          /\ unrenamed \subseteq DOMAIN working
      BY <2>1 DEF OpenFile, IsState, Now, Run
    <2>3. pc = "done" => ~etf.file_open
      BY <2>1 DEF Between
    <2> QED
      BY <2>2, <2>3
  <1> QED
    BY <1>1, EtfitsInvariance, PTL

\* integration_cnt is the number of integrations in the open file.
THEOREM CountHolds == Spec => []CountsIntegrations
  <1>1. EtfitsInv => CountsIntegrations
    BY DEF EtfitsInv, FilesInv, OpenFile, Now, CountsIntegrations
  <1> QED
    BY <1>1, EtfitsInvariance, PTL

\* What a file records is what its name allows.
LEMMA FilesNamed ==
  EtfitsInv => \A files \in {working, fits} : \A n \in DOMAIN files :
                 \A i \in Range(files[n]) : MayRecord(n, i)
  <1> SUFFICES ASSUME EtfitsInv, NEW files \in {working, fits}, NEW n \in DOMAIN files,
                      NEW i \in Range(files[n])
               PROVE  MayRecord(n, i)
    OBVIOUS
  <1>1. Named(files)
    BY DEF EtfitsInv, FilesInv, Now
  <1>2. PICK k \in DOMAIN files[n] : i = files[n][k]
    BY DEF Range
  <1> QED
    BY <1>1, <1>2 DEF Named

\* A file named for a receiver records blocks of no other receiver.
THEOREM NamedHolds == Spec => []NamedForItsReceiver
  <1>1. EtfitsInv => NamedForItsReceiver
    BY FilesNamed DEF NamedForItsReceiver, MayRecord
  <1> QED
    BY <1>1, EtfitsInvariance, PTL

\* Nor does it record another beam or polarisation, whatever headers the first
\* blocks have.
THEOREM BeamHolds == Spec => []NamedForItsBeam
  <1>1. EtfitsInv => NamedForItsBeam
    BY FilesNamed DEF NamedForItsBeam, MayRecord
  <1> QED
    BY <1>1, EtfitsInvariance, PTL

\* A block recorded is in its file, once, or that file has been replaced by a
\* later one of the same second, whatever files are changed, closed, not
\* renamed and left behind.
THEOREM WrittenKept == Spec => []WrittenIsKept
  <1>1. EtfitsInv => WrittenIsKept
    <2> SUFFICES ASSUME EtfitsInv, NEW b \in DOMAIN written
                 PROVE  \/ /\ Cardinality(FoundAt(b)) = 1
                           /\ \A p \in FoundAt(b) : p[2] = written[b]
                        \/ FoundAt(b) = {} /\ Replaced(b)
      BY DEF WrittenIsKept
    <2> DEFINE OnDisk(f) == IF f = "working" THEN working ELSE fits
    <2>1. /\ Once(Now, Run) /\ Kept(Now, Run) /\ IsState(Now) /\ IsRun(Run)
          /\ Now.working = working /\ Now.fits = fits
          /\ Run.written = written /\ Run.blocks = blocks
      BY DEF EtfitsInv, FilesInv, Now, Run
    <2>2. \A p : p \in FoundAt(b) <=>
            /\ p \in {"working", "fits"} \X Names \X (1 .. MaxBlocks)
            /\ Records(OnDisk(p[1]), p[2], p[3], b)
      BY DEF Records, FoundAt
    <2>3. \A p \in FoundAt(b) : p[2] = written[b]
      BY <2>1, <2>2 DEF Once, Processed
    <2>4. CASE \E n, k : Records(working, n, k, b) \/ Records(fits, n, k, b)
      <3>1. PICK n, k : Records(working, n, k, b) \/ Records(fits, n, k, b)
        BY <2>4
      <3>2. n \in Names /\ k \in 1 .. MaxBlocks
        <4>1. n \in Names
          BY <2>1, <3>1 DEF Records, IsState, IsFiles
        <4>2. k \in 1 .. blocks /\ blocks \in 0 .. MaxBlocks
          BY <2>1, <3>1 DEF Once, Processed, IsRun
        <4> QED
          BY <4>1, <4>2, CountAssumption
      <3>3. PICK f \in {"working", "fits"} : Records(OnDisk(f), n, k, b)
        BY <3>1
      <3>4. <<f, n, k>> \in FoundAt(b)
        BY <2>2, <3>2, <3>3
      <3>5. ASSUME NEW p \in FoundAt(b) PROVE p = <<f, n, k>>
        <4>1. /\ p \in {"working", "fits"} \X Names \X (1 .. MaxBlocks)
              /\ Records(OnDisk(p[1]), p[2], p[3], b)
          BY <2>2, <3>5
        <4>2. p[1] = f /\ p[2] = n /\ p[3] = k
          <5>1. /\ Single(working) /\ Single(fits) /\ Apart(working, fits)
            BY <2>1 DEF Once
          <5>2. \/ f = "working" /\ Records(working, n, k, b)
                \/ f = "fits" /\ Records(fits, n, k, b)
            BY <3>3
          <5>3. \/ p[1] = "working" /\ Records(working, p[2], p[3], b)
                \/ p[1] = "fits" /\ Records(fits, p[2], p[3], b)
            BY <4>1
          <5> QED
            BY <5>1, <5>2, <5>3 DEF Single, Apart
        <4>3. p = <<p[1], p[2], p[3]>>
          BY <4>1
        <4> QED
          BY <4>2, <4>3
      <3>6. FoundAt(b) = {<<f, n, k>>}
        BY <3>4, <3>5
      <3>7. Cardinality(FoundAt(b)) = 1
        BY <3>6, FS_Singleton
      <3> QED
        BY <2>3, <3>7
    <2>5. CASE ~\E n, k : Records(working, n, k, b) \/ Records(fits, n, k, b)
      <3>1. FoundAt(b) = {}
        BY <2>2, <2>5
      <3>2. /\ written[b] \in DOMAIN fits /\ fits[written[b]] # <<>>
            /\ After(fits[written[b]], b)
        BY <2>1, <2>5 DEF Kept, InFile
      <3>3. \A i \in Range(fits[written[b]]) : i.block > b
        BY <3>2 DEF After, Range
      <3> QED
        BY <3>1, <3>2, <3>3 DEF Replaced
    <2> QED
      BY <2>4, <2>5
  <1> QED
    BY <1>1, EtfitsInvariance, PTL

\* A file marked ready is final as soon as the second in its name is over and
\* no .working file has that name: no step touches it or begins one of its name
\* again, and so none ever does.
THEOREM ReadyFilesFinal == Spec => ReadyIsFinal
  <1>1. EtfitsInv /\ [Next]_vars =>
          [\A n \in DOMAIN fits \ DOMAIN working : n.second < clock =>
             n \in DOMAIN fits' \ DOMAIN working' /\ fits'[n] = fits[n]]_vars
    <2> SUFFICES ASSUME EtfitsInv, [Next]_vars, NEW n \in DOMAIN fits \ DOMAIN working,
                        n.second < clock
                 PROVE  n \in DOMAIN fits' \ DOMAIN working' /\ fits'[n] = fits[n]
      OBVIOUS
    <2>1. n.second \in Nat /\ clock \in Nat
      <3>1. IsState(Now) /\ IsRun(Run) /\ Now.fits = fits /\ Run.clock = clock
        BY DEF EtfitsInv, FilesInv, Now, Run
      <3>2. n \in Names
        BY <3>1 DEF IsState, IsFiles
      <3> QED
        BY <3>1, <3>2, NameSeconds, CountAssumption DEF IsRun
    <2>2. n \in DOMAIN fits' /\ fits'[n] = fits[n]
      BY StepSettles
    <2>3. n \notin DOMAIN working'
      BY <2>1, StepSettles
    <2> QED
      BY <2>2, <2>3
  <1> QED
    BY <1>1, EtfitsInvariance, PTL DEF Spec, ReadyIsFinal
-----------------------------------------------------------------------------
(* Hits: where a place is in the data, and the place of an element.        *)

\* What does not change while a block is processed, apart from its lines.
AnyBuild == build \in {"S6", "DIBAS", "FAST"}

LEMMA DataSizes ==
  ASSUME AnyBuild
  PROVE  /\ N_CC \in Nat \ {0} /\ N_BORS \in Nat \ {0}
         /\ N_SPECTRA \in Nat \ {0} /\ N_FINE_CHAN \in Nat \ {0}
         /\ N_ELEMENT \in Nat \ {0}
         /\ build = "FAST" => N_POLS_PER_BEAM = 1 /\ N_CC = 1 /\ N_BORS = 1
         /\ build # "FAST" => /\ N_POLS_PER_BEAM = 2 /\ N_CC % 2 = 0
                              /\ N_CC = N_COARSE_CHAN_PER_BORS
         /\ N_SPECTRA = N_CC * N_POLS_PER_BEAM
         /\ N_ELEMENT = N_FINE_CHAN * N_SPECTRA
  <1>1. /\ N_CC \in Nat \ {0} /\ N_BORS \in Nat \ {0}
        /\ build = "FAST" => N_POLS_PER_BEAM = 1 /\ N_CC = 1 /\ N_BORS = 1
        /\ build # "FAST" => /\ N_POLS_PER_BEAM = 2 /\ N_CC % 2 = 0
                             /\ N_CC = N_COARSE_CHAN_PER_BORS
    BY SizeAssumption DEF N_CC, N_BORS, N_POLS_PER_BEAM
  <1>2. N_FINE_CHAN \in Nat \ {0}
    BY SizeAssumption
  <1>3. N_POLS_PER_BEAM \in {1, 2}
    BY DEF N_POLS_PER_BEAM
  <1>4. N_SPECTRA \in Nat \ {0} /\ N_SPECTRA = N_CC * N_POLS_PER_BEAM
    BY <1>1, <1>3 DEF N_SPECTRA
  <1>5. N_ELEMENT = N_FINE_CHAN * N_SPECTRA
    BY <1>2, <1>4 DEF N_ELEMENT
  <1>6. \A m \in Nat \ {0}, n \in Nat \ {0} : m * n \in Nat \ {0}
    OBVIOUS
  <1> QED
    BY <1>1, <1>2, <1>4, <1>5, <1>6

\* The polarisation and the channel of a spectrum.
InputOf(s) == IF build = "S6" THEN ao_pol(s) ELSE s % N_POLS_PER_BEAM
ChanOf(s) == IF build = "S6" THEN ao_coarse_chan(s) ELSE s \div N_POLS_PER_BEAM

LEMMA SpectrumOf ==
  ASSUME AnyBuild, NEW chan \in Chans, NEW input \in Inputs
  PROVE  /\ Spectrum(chan, input) \in 0 .. N_SPECTRA-1
         /\ InputOf(Spectrum(chan, input)) = input
         /\ ChanOf(Spectrum(chan, input)) = chan
  <1>1. /\ N_CC \in Nat \ {0} /\ N_SPECTRA \in Nat /\ N_SPECTRA = N_CC * N_POLS_PER_BEAM
        /\ chan \in 0 .. N_CC-1 /\ input \in 0 .. N_POLS_PER_BEAM-1
    BY DataSizes DEF Chans, Inputs
  <1>2. CASE build = "S6"
    <2>1. N_POLS_PER_BEAM = 2 /\ N_CC % 2 = 0
      BY <1>2, DataSizes
    <2> DEFINE c == chan \div 2
               r == chan % 2
    <2>2. chan = (2 * c) + r /\ c \in Int /\ r \in 0 .. 1
      BY <1>1, DivMod, 2 \in Nat \ {0}
    <2> HIDE DEF c, r
    <2>3. chan \div 2 = c /\ chan % 2 = r
      BY <2>2
    <2>4. Spectrum(chan, input) = (4 * c + 2 * input) + r
      BY <1>2, <2>2, <2>3 DEF Spectrum
    <2>5. PICK h \in Int : N_CC = 2 * h
      BY <1>1, <2>1
    <2>6. c \in 0 .. h-1 /\ input \in 0 .. 1 /\ N_SPECTRA = 4 * h
      BY <1>1, <2>1, <2>2, <2>5
    <2>7. /\ ((4 * c + 2 * input) + r) \div 4 = c
          /\ ((4 * c + 2 * input) + r) \div 2 = 2 * c + input
          /\ (2 * c + input) % 2 = input
          /\ ((4 * c + 2 * input) + r) % 2 = r
          /\ (4 * c + 2 * input) + r \in 0 .. 4 * h - 1
      BY <2>2, <2>6
    <2> QED
      BY <1>2, <2>2, <2>4, <2>6, <2>7 DEF InputOf, ChanOf, ao_pol, ao_coarse_chan
  <1>3. CASE build = "DIBAS"
    <2>1. N_POLS_PER_BEAM = 2 /\ Spectrum(chan, input) = 2 * chan + input
      BY <1>3, DataSizes DEF Spectrum
    <2>2. /\ (2 * chan + input) % 2 = input /\ (2 * chan + input) \div 2 = chan
          /\ 2 * chan + input \in 0 .. N_CC * 2 - 1
      BY <1>1, <2>1
    <2> QED
      BY <1>1, <1>3, <2>1, <2>2 DEF InputOf, ChanOf
  <1>4. CASE build = "FAST"
    <2>1. N_POLS_PER_BEAM = 1 /\ N_CC = 1 /\ Spectrum(chan, input) = 1 * chan + input
      BY <1>4, DataSizes DEF Spectrum
    <2>2. chan = 0 /\ input = 0 /\ N_SPECTRA = 1
      BY <1>1, <2>1
    <2> QED
      BY <1>4, <2>1, <2>2 DEF InputOf, ChanOf
  <1> QED
    BY <1>2, <1>3, <1>4 DEF AnyBuild

LEMMA OfSpectrum ==
  ASSUME AnyBuild, NEW s \in 0 .. N_SPECTRA-1
  PROVE  /\ InputOf(s) \in Inputs /\ ChanOf(s) \in Chans
         /\ Spectrum(ChanOf(s), InputOf(s)) = s
  <1>1. /\ N_CC \in Nat \ {0} /\ N_SPECTRA \in Nat /\ N_SPECTRA = N_CC * N_POLS_PER_BEAM
        /\ s \in 0 .. N_SPECTRA-1
    BY DataSizes
  <1>2. CASE build = "S6"
    <2>1. N_POLS_PER_BEAM = 2 /\ N_CC % 2 = 0
      BY <1>2, DataSizes
    <2> DEFINE c == s \div 4
               i == (s % 4) \div 2
               r == (s % 4) % 2
    <2>2. s = (4 * c + 2 * i) + r /\ c \in Int /\ i \in 0 .. 1 /\ r \in 0 .. 1
      <3>1. s = 4 * c + (s % 4) /\ c \in Int /\ s % 4 \in 0 .. 3
        BY <1>1, DivMod, 4 \in Nat \ {0}
      <3>2. s % 4 = 2 * i + r /\ i \in Int /\ r \in 0 .. 1
        BY <3>1, DivMod, 2 \in Nat \ {0}
      <3> HIDE DEF c, i, r
      <3> QED
        BY <3>1, <3>2
    <2> HIDE DEF c, i, r
    <2>3. /\ s \div 4 = c /\ s \div 2 = 2 * c + i /\ (2 * c + i) % 2 = i /\ s % 2 = r
      BY <2>2
    <2>4. ao_pol(s) = i /\ ao_coarse_chan(s) = c * 2 + r
      BY <2>3 DEF ao_pol, ao_coarse_chan
    <2>5. PICK h \in Int : N_CC = 2 * h
      BY <1>1, <2>1
    <2>6. c \in 0 .. h-1
      BY <1>1, <2>1, <2>2, <2>5
    <2>7. /\ c * 2 + r \in 0 .. N_CC-1 /\ (c * 2 + r) \div 2 = c /\ (c * 2 + r) % 2 = r
      BY <2>2, <2>5, <2>6
    <2>8. Spectrum(c * 2 + r, i) = (4 * c + 2 * i) + r
      BY <1>2, <2>7 DEF Spectrum
    <2> QED
      BY <1>2, <2>1, <2>2, <2>4, <2>7, <2>8 DEF InputOf, ChanOf, Inputs, Chans
  <1>3. CASE build = "DIBAS"
    <2>1. N_POLS_PER_BEAM = 2
      BY <1>3, DataSizes
    <2>2. s % 2 \in 0 .. 1 /\ s \div 2 \in 0 .. N_CC-1 /\ 2 * (s \div 2) + (s % 2) = s
      BY <1>1, <2>1
    <2> QED
      BY <1>3, <2>1, <2>2 DEF InputOf, ChanOf, Inputs, Chans, Spectrum
  <1>4. CASE build = "FAST"
    <2>1. N_POLS_PER_BEAM = 1 /\ N_CC = 1
      BY <1>4, DataSizes
    <2>2. s = 0 /\ 0 % 1 = 0 /\ 0 \div 1 = 0 /\ 1 * 0 + 0 = 0
      BY <1>1, <2>1
    <2> QED
      BY <1>4, <2>1, <2>2 DEF InputOf, ChanOf, Inputs, Chans, Spectrum
  <1> QED
    BY <1>2, <1>3, <1>4 DEF AnyBuild

\* The element of a place, and the place of an element.
ElementOf(p) == N_FINE_CHAN * Spectrum(p.chan, p.input) + p.fine
PlaceOf(b, e) == [bors |-> b, input |-> InputOf(e \div N_FINE_CHAN),
                  chan |-> ChanOf(e \div N_FINE_CHAN), fine |-> e % N_FINE_CHAN]

LEMMA ElementOfPlace ==
  ASSUME AnyBuild, NEW p \in Places
  PROVE  /\ ElementOf(p) \in Elements
         /\ ElementOf(p) \div N_FINE_CHAN = Spectrum(p.chan, p.input)
         /\ ElementOf(p) % N_FINE_CHAN = p.fine
         /\ PlaceOf(p.bors, ElementOf(p)) = p
  <1> DEFINE s == Spectrum(p.chan, p.input)
             F == N_FINE_CHAN
  <1>1. /\ p.bors \in BorsIds /\ p.input \in Inputs /\ p.chan \in Chans /\ p.fine \in 0 .. F-1
        /\ p = [bors |-> p.bors, input |-> p.input, chan |-> p.chan, fine |-> p.fine]
    BY DEF Places, Fines
  <1>2. s \in 0 .. N_SPECTRA-1 /\ InputOf(s) = p.input /\ ChanOf(s) = p.chan
    BY <1>1, SpectrumOf
  <1>3. F \in Nat \ {0} /\ N_SPECTRA \in Nat \ {0} /\ N_ELEMENT = F * N_SPECTRA
    BY DataSizes
  <1>4. ElementOf(p) = (F * s) + p.fine
    BY DEF ElementOf
  <1> HIDE DEF s, F
  <1>5. ((F * s) + p.fine) \div F = s /\ ((F * s) + p.fine) % F = p.fine
    BY <1>1, <1>2, <1>3, DivModUnique, s \in Int
  <1>6. F * s >= 0 /\ F * s <= F * (N_SPECTRA - 1)
    BY <1>2, <1>3
  <1>7. (F * s) + p.fine \in 0 .. F * N_SPECTRA - 1
    BY <1>1, <1>2, <1>3, <1>6
  <1>8. ElementOf(p) \in Elements
    BY <1>3, <1>4, <1>7 DEF Elements
  <1>9. PlaceOf(p.bors, ElementOf(p)) = p
    BY <1>1, <1>2, <1>4, <1>5 DEF PlaceOf, F
  <1> QED
    BY <1>4, <1>5, <1>8, <1>9 DEF F, s

LEMMA PlaceOfElement ==
  ASSUME AnyBuild, NEW b \in BorsIds, NEW e \in Elements
  PROVE  /\ e \div N_FINE_CHAN \in 0 .. N_SPECTRA-1 /\ e % N_FINE_CHAN \in Fines
         /\ e = N_FINE_CHAN * (e \div N_FINE_CHAN) + (e % N_FINE_CHAN)
         /\ PlaceOf(b, e) \in Places /\ PlaceOf(b, e).bors = b
         /\ Spectrum(PlaceOf(b, e).chan, PlaceOf(b, e).input) = e \div N_FINE_CHAN
         /\ PlaceOf(b, e).fine = e % N_FINE_CHAN
         /\ ElementOf(PlaceOf(b, e)) = e
  <1> DEFINE F == N_FINE_CHAN
             s == e \div F
             r == e % F
  <1>1. F \in Nat \ {0} /\ N_SPECTRA \in Nat \ {0} /\ N_ELEMENT = F * N_SPECTRA
    BY DataSizes
  <1>2. e \in Nat /\ e < F * N_SPECTRA
    BY <1>1 DEF Elements
  <1>3. e = (F * s) + r /\ r \in 0 .. F-1 /\ s \in Nat
    <2>1. F \in Nat \ {0} /\ e \in Nat /\ e \in Int
      BY <1>1, <1>2
    <2> HIDE DEF F
    <2>2. e = (F * s) + r /\ r \in 0 .. F-1
      BY <2>1, DivMod
    <2>3. s \in Nat
      BY <2>1, RoundDown
    <2> QED
      BY <2>2, <2>3
  <1> HIDE DEF s, r, F
  <1>4. s < N_SPECTRA
    <2> SUFFICES ASSUME s >= N_SPECTRA PROVE FALSE
      BY <1>1, <1>3
    <2>1. F * s >= F * N_SPECTRA
      BY <1>1, <1>3
    <2> QED
      BY <1>1, <1>2, <1>3, <2>1
  <1>5. s \in 0 .. N_SPECTRA-1
    BY <1>1, <1>3, <1>4
  <1>6. InputOf(s) \in Inputs /\ ChanOf(s) \in Chans /\ Spectrum(ChanOf(s), InputOf(s)) = s
    BY <1>5, OfSpectrum
  <1>7. PlaceOf(b, e) = [bors |-> b, input |-> InputOf(s), chan |-> ChanOf(s), fine |-> r]
    BY DEF PlaceOf, s, r, F
  <1>8. r \in Fines
    BY <1>3 DEF Fines, F
  <1>9. PlaceOf(b, e) \in Places
    BY <1>6, <1>7, <1>8 DEF Places
  <1>10. ElementOf(PlaceOf(b, e)) = e
    BY <1>3, <1>6, <1>7 DEF ElementOf, F
  <1> QED
    BY <1>3, <1>5, <1>6, <1>7, <1>8, <1>9, <1>10 DEF F, s, r

-----------------------------------------------------------------------------
(* Hits: powers and their running means.                                   *)

Pow(b) == compute_power_spectrum(fft_data_out(b))

LEMMA PowerType ==
  ASSUME AnyBuild, NEW p
  PROVE  Power(p) \in Nat
  BY PowerAssumption DEF Power

\* The spectrum that the program computes has the powers of the places.
LEMMA PowerAt ==
  ASSUME AnyBuild, lines \subseteq Places, NEW b \in BorsIds, NEW e \in Elements
  PROVE  Pow(b)[e] = Power(PlaceOf(b, e)) /\ Pow(b)[e] \in Nat
  <1> DEFINE q == PlaceOf(b, e)
             F == N_FINE_CHAN
             s == e \div F
             r == e % F
             S == N_SPECTRA
  <1>1. /\ s \in 0 .. S-1 /\ r \in Fines /\ e = (F * s) + r /\ q \in Places /\ q.bors = b
        /\ Spectrum(q.chan, q.input) = s /\ q.fine = r
    BY PlaceOfElement
  <1>2. F \in Nat \ {0} /\ S \in Nat \ {0} /\ N_ELEMENT = F * S
    BY DataSizes
  <1>3. (\E l \in lines : l.bors = b /\ Spectrum(l.chan, l.input) = s /\ l.fine = r) <=> q \in lines
    <2>1. ASSUME NEW l \in lines, l.bors = b, Spectrum(l.chan, l.input) = s, l.fine = r
          PROVE  l = q
      <3>1. l \in Places
        BY <2>1
      <3>2. ElementOf(l) = (F * s) + r
        BY <2>1 DEF ElementOf
      <3>3. PlaceOf(l.bors, ElementOf(l)) = l
        BY <3>1, ElementOfPlace
      <3> HIDE DEF s, r, F
      <3>4. ElementOf(l) = e
        BY <1>1, <3>2
      <3> QED
        BY <2>1, <3>3, <3>4
    <2> HIDE DEF s, r, F, q
    <2> QED
      BY <1>1, <2>1
  <1>4. fft_data_out(b)[e] = IF q \in lines THEN Line ELSE Noise
    <2>1. fft_data_out(b)[e] =
            IF \E l \in lines : l.bors = b /\ Spectrum(l.chan, l.input) = s /\ l.fine = r
            THEN Line ELSE Noise
      BY DEF fft_data_out
    <2> HIDE DEF s, r, F, q
    <2> QED
      BY <1>3, <2>1
  <1>5. e = N_ELEMENT-1 <=> s = S - 1 /\ r = F - 1
    <2>1. r \in 0 .. F-1
      BY <1>1 DEF Fines
    <2> HIDE DEF s, r, F, S
    <2>2. CASE s = S - 1
      <3>1. F * s = F * S - F
        BY <1>2, <2>2
      <3> QED
        BY <1>1, <1>2, <2>1, <2>2, <3>1
    <2>3. CASE s # S - 1
      <3>1. s <= S - 2
        BY <1>1, <1>2, <2>3
      <3>2. F * s <= F * (S - 2)
        BY <1>1, <1>2, <3>1
      <3>3. F * (S - 2) = F * S - 2 * F
        BY <1>2
      <3>4. F * s \in Int /\ F * S \in Int
        BY <1>1, <1>2
      <3> QED
        BY <1>1, <1>2, <2>1, <2>3, <3>2, <3>3, <3>4
    <2> QED
      BY <2>2, <2>3
  <1>6. Pow(b)[e] = IF e = N_ELEMENT-1 THEN 0 ELSE fft_data_out(b)[e]
    BY DEF Pow, compute_power_spectrum
  <1>7. Power(q) = IF s = S - 1 /\ r = F - 1 THEN 0 ELSE IF q \in lines THEN Line ELSE Noise
    BY <1>1 DEF Power
  <1> HIDE DEF s, r, F, S, q
  <1>8. Pow(b)[e] = Power(q)
    BY <1>4, <1>5, <1>6, <1>7
  <1> QED
    BY <1>8, PowerType DEF q

\* Positions in a spectrum.
LEMMA InSpectrum ==
  ASSUME AnyBuild, NEW e \in Elements, NEW f \in Fines
  PROVE  /\ e - (e % N_FINE_CHAN) \in Nat
         /\ (e - (e % N_FINE_CHAN)) + f \in Elements
         /\ ((e - (e % N_FINE_CHAN)) + f) % N_FINE_CHAN = f
         /\ ((e - (e % N_FINE_CHAN)) + f) \div N_FINE_CHAN = e \div N_FINE_CHAN
  <1> DEFINE F == N_FINE_CHAN
             s == e \div F
             r == e % F
  <1>1. s \in 0 .. N_SPECTRA-1 /\ e = (F * s) + r /\ r \in Fines
    <2>1. PICK b \in BorsIds : TRUE
      <3>1. 0 \in BorsIds
        BY DataSizes DEF BorsIds
      <3> QED
        BY <3>1
    <2> QED
      BY <2>1, PlaceOfElement
  <1>2. F \in Nat \ {0} /\ N_SPECTRA \in Nat \ {0} /\ N_ELEMENT = F * N_SPECTRA
    BY DataSizes
  <1>3. f \in 0 .. F-1 /\ r \in 0 .. F-1
    BY <1>1 DEF Fines
  <1> HIDE DEF s, r, F
  <1>4. e - r = F * s /\ F * s >= 0 /\ F * s <= F * (N_SPECTRA - 1) /\ F * s \in Int
    BY <1>1, <1>2, <1>3
  <1>5. ((F * s) + f) % F = f /\ ((F * s) + f) \div F = s
    BY <1>1, <1>2, <1>3, DivModUnique, s \in Int
  <1>6. F * (N_SPECTRA - 1) = F * N_SPECTRA - F /\ F * N_SPECTRA \in Int
    BY <1>2
  <1>7. (F * s) + f \in 0 .. F * N_SPECTRA - 1
    BY <1>2, <1>3, <1>4, <1>6
  <1>8. (e - r) + f \in Elements
    BY <1>2, <1>4, <1>7 DEF Elements
  <1>9. e - r \in Nat /\ ((e - r) + f) % F = f /\ ((e - r) + f) \div F = s
    BY <1>4, <1>5
  <1> QED
    BY <1>8, <1>9 DEF F, r, s

\* The scan is the sum of the powers before an element in its spectrum.
IsScan(pow, g) ==
  g = [i \in Elements |-> IF i % N_FINE_CHAN = 0 THEN 0 ELSE g[i-1] + pow[i-1]]

LEMMA ScanChosen ==
  ASSUME NEW pow
  PROVE  exclusive_scan_by_key(pow) = CHOOSE g : IsScan(pow, g)
  BY DEF exclusive_scan_by_key, IsScan

LEMMA ElementBefore ==
  ASSUME AnyBuild, NEW i \in Elements, i % N_FINE_CHAN # 0
  PROVE  /\ i - 1 \in Elements /\ (i - 1) % N_FINE_CHAN = (i % N_FINE_CHAN) - 1
         /\ (i - 1) - ((i - 1) % N_FINE_CHAN) = i - (i % N_FINE_CHAN)
  <1> DEFINE F == N_FINE_CHAN
             r == i % F
             o == i - r
  <1>1. i \in Nat /\ F \in Nat \ {0} /\ r \in 0 .. F-1 /\ r # 0
    <2>1. i \in Nat /\ F \in Nat \ {0}
      BY DataSizes DEF Elements
    <2>2. i % N_FINE_CHAN \in 0 .. N_FINE_CHAN-1
      BY <2>1, DivMod
    <2> QED
      BY <2>1, <2>2
  <1>2. r - 1 \in Fines
    BY <1>1 DEF Fines
  <1>3. (i - (i % N_FINE_CHAN)) + (r - 1) \in Elements
        /\ ((i - (i % N_FINE_CHAN)) + (r - 1)) % N_FINE_CHAN = r - 1
    BY <1>2, InSpectrum
  <1> HIDE DEF r, F
  <1>4. (i - r) + (r - 1) = i - 1
    BY <1>1
  <1>5. i - 1 \in Elements /\ (i - 1) % F = r - 1
    BY <1>3, <1>4 DEF r, F
  <1>6. (i - 1) - (r - 1) = i - r
    BY <1>1
  <1> QED
    BY <1>5, <1>6 DEF r, F

LEMMA Scanned ==
  ASSUME AnyBuild, NEW pow, \A i \in Elements : pow[i] \in Int, NEW e \in Elements
  PROVE  exclusive_scan_by_key(pow)[e] = SumBetween(pow, e - (e % N_FINE_CHAN), e)
  <1> DEFINE F == N_FINE_CHAN
             w == [i \in Elements |-> SumBetween(pow, i - (i % F), i)]
             g == exclusive_scan_by_key(pow)
  <1>1. \A i \in Elements : i \in Nat /\ F \in Nat \ {0}
    BY DataSizes DEF Elements
  <1>2. ASSUME NEW i \in Elements
        PROVE  w[i] = IF i % F = 0 THEN 0 ELSE w[i-1] + pow[i-1]
    <2>1. i \in Nat /\ F \in Nat \ {0}
      BY <1>1
    <2>2. CASE i % F = 0
      <3>1. i - (i % F) = i /\ DOMAIN [k \in i .. i-1 |-> pow[k]] = {}
        BY <2>1, <2>2
      <3>2. SumBetween(pow, i, i) = 0
        BY <3>1, TotalEmpty DEF SumBetween
      <3> QED
        BY <2>2, <3>1, <3>2
    <2>3. CASE i % F # 0
      <3> DEFINE o == i - (i % F)
      <3>1. i - 1 \in Elements /\ (i - 1) - ((i - 1) % F) = o /\ (i - 1) % F = (i % F) - 1
        BY <2>3, ElementBefore
      <3>2. o \in Int /\ o <= i - 1 /\ i - 1 \in Int
        <4>1. i % N_FINE_CHAN \in 0 .. N_FINE_CHAN-1
          BY <2>1, DivMod
        <4> QED
          BY <2>1, <2>3, <4>1
      <3>3. \A k \in o .. i-1 : pow[k] \in Int
        <4> SUFFICES ASSUME NEW k \in o .. i-1 PROVE k \in Elements
          OBVIOUS
        <4>1. o \in Nat
          <5>1. 0 \in Fines
            BY <2>1 DEF Fines
          <5> QED
            BY <5>1, InSpectrum
        <4> HIDE DEF o
        <4>2. k \in Nat /\ k <= i - 1
          BY <3>2, <4>1
        <4> QED
          BY <2>1, <4>2, DataSizes DEF Elements
      <3>4. w[i] = SumBetween(pow, o, i) /\ w[i-1] = SumBetween(pow, o, i-1)
        BY <3>1
      <3> HIDE DEF o, w
      <3>5. SumBetween(pow, o, (i - 1) + 1) = SumBetween(pow, o, i-1) + pow[i-1]
        BY <3>2, <3>3, SumBetweenStep
      <3>6. (i - 1) + 1 = i
        BY <2>1
      <3> QED
        BY <2>3, <3>4, <3>5, <3>6
    <2> HIDE DEF w
    <2> QED
      BY <2>2, <2>3
  <1>3. IsScan(pow, w)
    <2>1. w = [i \in Elements |-> w[i]]
      OBVIOUS
    <2> HIDE DEF w
    <2>2. w = [i \in Elements |-> IF i % F = 0 THEN 0 ELSE w[i-1] + pow[i-1]]
      BY <1>2, <2>1
    <2> QED
      BY <2>2 DEF IsScan
  <1> HIDE DEF w
  <1>4. IsScan(pow, g)
    BY <1>3, ScanChosen
  <1> DEFINE G == {k \in 0 .. N_ELEMENT-1 : g[k] = w[k]}
             n == N_ELEMENT - 1
  <1>5. n \in Nat /\ Elements = 0 .. n
    BY DataSizes DEF Elements
  <1>6. \A i \in Elements : g[i] = IF i % F = 0 THEN 0 ELSE g[i-1] + pow[i-1]
    <2> HIDE DEF g
    <2>1. g = [i \in Elements |-> IF i % F = 0 THEN 0 ELSE g[i-1] + pow[i-1]]
      BY <1>4 DEF IsScan
    <2> QED
      BY <2>1
  <1> HIDE DEF g
  <1>7. 0 \in G
    <2>1. 0 % F = 0 /\ 0 \in Elements
      <3>1. F \in Nat \ {0} /\ 0 \in Elements
        BY <1>1, <1>5
      <3>2. ((F * 0) + 0) % F = 0
        BY <3>1, DivModUnique, 0 \in Int, 0 \in 0 .. F-1
      <3> QED
        BY <3>1, <3>2
    <2>2. g[0] = 0 /\ w[0] = 0
      BY <1>2, <1>6, <2>1
    <2> QED
      BY <1>5, <2>2
  <1>8. ASSUME NEW k \in 0 .. n-1, k \in G PROVE k + 1 \in G
    <2>1. k + 1 \in Elements /\ (k + 1) - 1 = k /\ k + 1 \in 0 .. N_ELEMENT-1
      BY <1>5
    <2>2. g[k + 1] = w[k + 1]
      BY <1>2, <1>6, <1>8, <2>1
    <2> QED
      BY <2>1, <2>2
  <1>9. \A k \in 0 .. n : k \in G
    <2> HIDE DEF G, n
    <2>1. \A k \in 0 .. n-1 : k \in G => k + 1 \in G
      BY <1>8
    <2> QED
      BY <1>5, <1>7, <2>1, CountUp
  <1>10. g[e] = w[e]
    BY <1>5, <1>9
  <1> QED
    BY <1>10 DEF g, w

\* The first bin of the window around a bin.
Window(f) == Max({0, Min({f - SMOOTH_SCALE, N_FINE_CHAN - 1 - 2 * SMOOTH_SCALE})})

LEMMA WindowIs ==
  ASSUME NEW f \in Fines
  PROVE  /\ Window(f) = IF f < SMOOTH_SCALE THEN 0
                        ELSE IF f > N_FINE_CHAN - 1 - SMOOTH_SCALE
                             THEN N_FINE_CHAN - 1 - 2 * SMOOTH_SCALE
                             ELSE f - SMOOTH_SCALE
         /\ Window(f) \in Fines /\ Window(f) + 2 * SMOOTH_SCALE \in Fines
         /\ Window(f) \in Nat /\ Window(f) + 2 * SMOOTH_SCALE \in Nat
  <1> DEFINE R == SMOOTH_SCALE
             F == N_FINE_CHAN
             m == Min({f - R, F - 1 - 2 * R})
  <1>1. R \in Nat \ {0} /\ F \in Nat /\ F > 2 * R /\ f \in 0 .. F-1
    BY SizeAssumption DEF Fines
  <1> HIDE DEF R, F
  <1>2. m = IF f > F - 1 - R THEN F - 1 - 2 * R ELSE f - R
    <2>1. \A x \in Int, y \in Int : Min({x, y}) = IF x <= y THEN x ELSE y
      BY DEF Min
    <2>2. f - R \in Int /\ F - 1 - 2 * R \in Int
      BY <1>1
    <2> QED
      BY <1>1, <2>1, <2>2
  <1>3. m \in Int
    BY <1>1, <1>2
  <1> HIDE DEF m
  <1>4. Max({0, m}) = IF m < 0 THEN 0 ELSE m
    BY <1>3 DEF Max
  <1>5. Window(f) = Max({0, m})
    BY DEF Window, m, R, F
  <1>6. Window(f) = IF f < R THEN 0 ELSE IF f > F - 1 - R THEN F - 1 - 2 * R ELSE f - R
    BY <1>1, <1>2, <1>4, <1>5
  <1>7. /\ Window(f) \in 0 .. F-1 /\ Window(f) + 2 * R \in 0 .. F-1
    BY <1>1, <1>6
  <1> QED
    BY <1>6, <1>7 DEF R, F, Fines

\* The powers of the spectrum of a place.
Around(p) == [f \in Fines |-> Power([p EXCEPT !.fine = f])]

LEMMA LocalSumIs ==
  \A p \in Places :
    LocalSum(p) = SumBetween(Around(p), Window(p.fine), Window(p.fine) + 2 * SMOOTH_SCALE)
  <1> SUFFICES ASSUME NEW p \in Places
               PROVE  LocalSum(p) = SumBetween(Around(p), Window(p.fine),
                                            Window(p.fine) + 2 * SMOOTH_SCALE)
    OBVIOUS
  <1> DEFINE w == Window(p.fine)
             S == w .. w + 2 * SMOOTH_SCALE - 1
             h == [f \in w .. (w + 2 * SMOOTH_SCALE) - 1 |-> Around(p)[f]]
             A(g) == g = [T \in SUBSET S |->
                            IF T = {} THEN 0
                            ELSE Power([p EXCEPT !.fine = One(T)]) + g[T \ {One(T)}]]
  <1>1. p.fine \in Fines
    BY DEF Places
  <1>2. S \subseteq Fines /\ IsFiniteSet(S) /\ S = w .. (w + 2 * SMOOTH_SCALE) - 1
    <2>1. w \in Fines /\ w + 2 * SMOOTH_SCALE \in Fines /\ w \in Nat /\ w + 2 * SMOOTH_SCALE \in Nat
      BY <1>1, WindowIs
    <2>2. SMOOTH_SCALE \in Nat /\ N_FINE_CHAN \in Nat
      BY SizeAssumption
    <2> HIDE DEF w
    <2>3. IsFiniteSet(S)
      BY <2>1, <2>2, FS_Interval, w + 2 * SMOOTH_SCALE - 1 \in Int, w \in Int
    <2> QED
      BY <2>1, <2>2, <2>3 DEF Fines
  <1>3. LocalSum(p) = (CHOOSE g : A(g))[S]
    BY DEF LocalSum, Window, MapThenSumSet, MapThenFoldSet, One
  <1> HIDE DEF w, S
  <1>4. \A f \in S : h[f] = Power([p EXCEPT !.fine = f])
    BY <1>2 DEF Around
  <1>5. \A g : A(g) <=> Sums(h, g, S)
    <2> SUFFICES ASSUME NEW g PROVE A(g) <=> Sums(h, g, S)
      OBVIOUS
    <2>1. \A T \in SUBSET S : T # {} => One(T) \in S
      BY DEF One
    <2>2. \A T \in SUBSET S : T # {} => h[One(T)] = Power([p EXCEPT !.fine = One(T)])
      BY <1>4, <2>1
    <2> HIDE DEF h
    <2>3. [T \in SUBSET S |-> IF T = {} THEN 0
                              ELSE Power([p EXCEPT !.fine = One(T)]) + g[T \ {One(T)}]]
            = [T \in SUBSET S |-> IF T = {} THEN 0 ELSE h[One(T)] + g[T \ {One(T)}]]
      BY <2>2
    <2> QED
      BY <2>3 DEF Sums
  <1>6. DOMAIN h = S
    BY <1>2
  <1>7. SumBetween(Around(p), w, w + 2 * SMOOTH_SCALE) = Total(h)
    BY DEF SumBetween
  <1> HIDE DEF A, h
  <1>8. PICK g : Sums(h, g, S)
    BY <1>2, <1>6, SumsExist
  <1>9. A(CHOOSE k : A(k))
    BY <1>5, <1>8
  <1>10. Total(h) = (CHOOSE k : A(k))[S]
    BY <1>2, <1>5, <1>6, <1>9, TotalIs
  <1> QED
    BY <1>3, <1>7, <1>10 DEF w

LEMMA LocalSumType ==
  ASSUME AnyBuild, NEW p \in Places
  PROVE  LocalSum(p) \in Int
  <1> DEFINE w == Window(p.fine)
             v == w + 2 * SMOOTH_SCALE
  <1>1. p.fine \in Fines
    BY DEF Places
  <1>2. w \in Fines /\ v \in Fines /\ w \in Nat /\ v \in Nat
    BY <1>1, WindowIs
  <1>3. w <= v /\ N_FINE_CHAN \in Nat
    BY <1>2, SizeAssumption
  <1> HIDE DEF w, v
  <1>4. \A i \in w .. v : Around(p)[i] \in Int
    <2>1. \A i \in w .. v : i \in Fines
      BY <1>2, <1>3 DEF Fines
    <2> QED
      BY <2>1, PowerType DEF Around
  <1>5. SumBetween(Around(p), w, v) \in Int
    BY <1>2, <1>3, <1>4, SumBetweenStep
  <1> QED
    BY <1>5, LocalSumIs DEF w, v

\* The running mean that the program computes is the local mean.
LEMMA BaselineAt ==
  ASSUME AnyBuild, lines \subseteq Places, NEW b \in BorsIds, NEW e \in Elements
  PROVE  compute_baseline(Pow(b))[e] = LocalSum(PlaceOf(b, e))
  <1> DEFINE F == N_FINE_CHAN
             R == SMOOTH_SCALE
             pow == Pow(b)
             idx == e % F
             o == e - idx
             w == Window(idx)
             v == w + 2 * R
             scanned == exclusive_scan_by_key(pow)
             p == PlaceOf(b, e)
  <1>1. /\ R \in Nat \ {0} /\ F \in Nat \ {0} /\ F > 2 * R
    BY SizeAssumption
  <1>2. idx \in Fines /\ p \in Places /\ p.fine = idx
    BY PlaceOfElement
  <1>3. /\ w = IF idx < R THEN 0 ELSE IF idx > F - 1 - R THEN F - 1 - 2 * R ELSE idx - R
        /\ w \in Fines /\ v \in Fines /\ w \in Nat /\ v \in Nat
    BY <1>2, WindowIs
  <1>4. \A i \in Elements : pow[i] \in Int
    BY PowerAt
  <1>5. ASSUME NEW k \in Fines
        PROVE  /\ o \in Nat /\ o + k \in Elements
               /\ scanned[o + k] = SumBetween(pow, o, o + k)
               /\ PlaceOf(b, o + k) = [p EXCEPT !.fine = k]
    <2>1. /\ o \in Nat /\ o + k \in Elements /\ (o + k) % F = k /\ (o + k) \div F = e \div F
      BY InSpectrum
    <2>2. (o + k) - ((o + k) % F) = o
      <3>1. k \in Nat
        BY <1>1 DEF Fines
      <3> HIDE DEF o
      <3> QED
        BY <2>1, <3>1
    <2>3. scanned[o + k] = SumBetween(pow, o, o + k)
      <3> HIDE DEF o, pow
      <3>1. scanned[o + k] = SumBetween(pow, (o + k) - ((o + k) % N_FINE_CHAN), o + k)
        BY <1>4, <2>1, Scanned
      <3> QED
        BY <2>2, <3>1
    <2>4. PlaceOf(b, o + k) = [p EXCEPT !.fine = k]
      <3> HIDE DEF o
      <3> QED
        BY <2>1 DEF PlaceOf
    <2> QED
      BY <2>1, <2>3, <2>4
  <1>6. compute_baseline(pow)[e] = running_mean_by_region(scanned, e)
    BY DEF compute_baseline
  <1> HIDE DEF pow, scanned
  <1>7. running_mean_by_region(scanned, e) = scanned[o + v] - scanned[o + w]
    <2>1. running_mean_by_region(scanned, e) =
            IF idx < R THEN scanned[2 * R + o] - scanned[o]
            ELSE IF idx > (F - 1) - R
                 THEN scanned[(F - 1) + o] - scanned[((F - 1) - 2 * R) + o]
                 ELSE scanned[e + R] - scanned[e - R]
      BY DEF running_mean_by_region
    <2>2. o \in Nat /\ idx \in 0 .. F-1 /\ e = o + idx
      <3>1. o \in Nat
        BY <1>2, <1>5
      <3>2. idx \in 0 .. F-1
        BY <1>2 DEF Fines
      <3>3. e \in Int
        BY DataSizes DEF Elements
      <3> HIDE DEF idx
      <3> QED
        BY <3>1, <3>2, <3>3
    <2> HIDE DEF o, idx, w, F, R
    <2>3. CASE idx < R
      <3>1. w = 0
        BY <1>3, <2>3
      <3>2. o + w = o /\ o + v = 2 * R + o
        BY <1>1, <2>2, <3>1
      <3> HIDE DEF v
      <3> QED
        BY <2>1, <2>3, <3>2
    <2>4. CASE ~(idx < R) /\ idx > (F - 1) - R
      <3>1. w = F - 1 - 2 * R
        BY <1>1, <1>3, <2>2, <2>4
      <3>2. o + w = ((F - 1) - 2 * R) + o /\ o + v = (F - 1) + o
        BY <1>1, <2>2, <3>1
      <3> HIDE DEF v
      <3> QED
        BY <2>1, <2>4, <3>2
    <2>5. CASE ~(idx < R) /\ ~(idx > (F - 1) - R)
      <3>1. w = idx - R
        BY <1>1, <1>3, <2>2, <2>5
      <3>2. o + w = e - R /\ o + v = e + R
        BY <1>1, <2>2, <3>1
      <3> HIDE DEF v
      <3> QED
        BY <2>1, <2>5, <3>2
    <2> QED
      BY <2>3, <2>4, <2>5
  <1>8. /\ o \in Nat
        /\ scanned[o + v] = SumBetween(pow, o, o + v) /\ scanned[o + w] = SumBetween(pow, o, o + w)
    BY <1>3, <1>5
  <1>9. w <= v
    BY <1>1, <1>3
  <1>10. \A i \in 0 .. v : i \in Fines /\ o + i \in Elements
    <2>1. \A i \in 0 .. v : i \in Fines
      BY <1>1, <1>3 DEF Fines
    <2> QED
      BY <1>5, <2>1
  <1> HIDE DEF o, w, v, p
  <1>11. \A i \in o .. (o + v) - 1 : pow[i] \in Int
    <2> SUFFICES ASSUME NEW i \in o .. (o + v) - 1 PROVE pow[i] \in Int
      OBVIOUS
    <2>1. i - o \in 0 .. v /\ o + (i - o) = i
      BY <1>3, <1>8
    <2> QED
      BY <1>4, <1>10, <2>1
  <1>12. /\ SumBetween(pow, o, o + w) \in Int /\ SumBetween(pow, o + w, o + v) \in Int
         /\ SumBetween(pow, o, o + v) = SumBetween(pow, o, o + w) + SumBetween(pow, o + w, o + v)
    <2>1. o \in Int /\ o + w \in Int /\ o + v \in Int /\ o <= o + w /\ o + w <= o + v
      BY <1>3, <1>8, <1>9
    <2> QED
      BY <1>11, <2>1, SumBetweenSplit
  <1>13. SumBetween(pow, o + w, o + v) = SumBetween(Around(p), w, v)
    <2>1. ASSUME NEW i \in w .. v-1 PROVE Around(p)[i] \in Int /\ pow[o + i] = Around(p)[i]
      <3>1. i \in Fines /\ o + i \in Elements
        BY <1>3, <1>10
      <3>2. Around(p)[i] = Power([p EXCEPT !.fine = i])
        BY <3>1 DEF Around
      <3>3. pow[o + i] = Power(PlaceOf(b, o + i)) /\ pow[o + i] \in Nat
        BY <3>1, PowerAt DEF pow
      <3>4. PlaceOf(b, o + i) = [p EXCEPT !.fine = i]
        BY <1>5, <3>1 DEF p, o
      <3> QED
        BY <3>2, <3>3, <3>4
    <2>2. w \in Int /\ v \in Int /\ o \in Int
      BY <1>3, <1>8
    <2> QED
      <3>1. \A i \in w .. v-1 : Around(p)[i] \in Int /\ pow[o + i] = Around(p)[i]
        BY <2>1
      <3> DEFINE h == Around(p)
      <3> HIDE DEF h
      <3>2. \A i \in w .. v-1 : h[i] \in Int /\ pow[o + i] = h[i]
        BY <3>1 DEF h
      <3>3. SumBetween(pow, o + w, o + v) = SumBetween(h, w, v)
        <4>1. /\ w \in Int /\ v \in Int /\ o + w \in Int /\ o + v \in Int /\ w <= v
              /\ (o + v) - (o + w) = v - w
          BY <1>9, <2>2
        <4>2. \A i \in w .. v-1 : h[i] \in Int /\ pow[(o + w) + (i - w)] = h[i]
          <5>1. \A i \in w .. v-1 : (o + w) + (i - w) = o + i
            BY <2>2
          <5> QED
            BY <3>2, <5>1
        <4> DEFINE x == o + w
                   y == o + v
        <4> HIDE DEF x, y
        <4>3. x \in Int /\ y \in Int /\ y - x = v - w
          BY <4>1 DEF x, y
        <4>4. \A i \in w .. v-1 : h[i] \in Int /\ pow[x + (i - w)] = h[i]
          BY <4>2 DEF x
        <4>5. SumBetween(pow, x, y) = SumBetween(h, w, v)
          <5>1. Moved(pow, h, w, v, x)
            BY <4>4 DEF Moved
          <5> QED
            BY <4>1, <4>3, <5>1, SumBetweenShift
        <4> QED
          BY <4>5 DEF x, y
      <3> QED
        BY <3>3 DEF h
  <1>14. LocalSum(p) = SumBetween(Around(p), w, v)
    BY <1>2, LocalSumIs DEF w, v
  <1>15. compute_baseline(pow)[e] = SumBetween(pow, o + w, o + v)
    BY <1>6, <1>7, <1>8, <1>12
  <1> QED
    BY <1>13, <1>14, <1>15 DEF pow, p

LEMMA DetectedAt ==
  ASSUME AnyBuild, lines \subseteq Places, NEW b \in BorsIds, NEW e \in Elements
  PROVE  normalized_over_thresh(Pow(b)[e], compute_baseline(Pow(b))[e])
           <=> PlaceOf(b, e) \in Detections(b)
  BY PowerAt, BaselineAt, PlaceOfElement DEF normalized_over_thresh, Detections, Detected

-----------------------------------------------------------------------------
(* Hits: the hits that are found.                                          *)

\* The elements over the threshold.
Over(b) ==
  {e \in Elements : normalized_over_thresh(Pow(b)[e], compute_baseline(Pow(b))[e])}
Indices == [k \in 1 .. N_ELEMENT |-> k - 1]

LEMMA CopiesOver ==
  ASSUME AnyBuild, NEW b \in BorsIds, NEW all, all = copy_if(Pow(b), compute_baseline(Pow(b)))
  PROVE  /\ all \in Seq(Elements)
         /\ \A i \in 1 .. Len(all) : all[i] \in Over(b)
         /\ \A e \in Over(b) : \E i \in 1 .. Len(all) : all[i] = e
         /\ \A i \in 1 .. Len(all), j \in 1 .. Len(all) : all[i] = all[j] => i = j
  <1> DEFINE pow == Pow(b)
             base == compute_baseline(Pow(b))
             T == Over(b)
             n == N_ELEMENT
             A(g) == g = [k \in 0 .. n |->
                            IF k = 0 THEN <<>>
                            ELSE IF normalized_over_thresh(pow[k-1], base[k-1])
                                 THEN Append(g[k-1], k-1) ELSE g[k-1]]
  <1>1. copy_if(pow, base) = (CHOOSE g : A(g))[n]
    BY DEF copy_if
  <1>2. n \in Nat /\ Elements = 0 .. n-1
    BY DataSizes DEF Elements
  <1>3. \A k \in 0 .. n : k # 0 =>
          /\ Indices[k] = k - 1 /\ k - 1 \in Elements
          /\ k - 1 \in T <=> normalized_over_thresh(pow[k-1], base[k-1])
    BY <1>2 DEF Over, Indices
  <1> HIDE DEF pow, base, T, n
  <1>4. \A g : A(g) <=> Picks(Indices, T, g, n)
    <2> SUFFICES ASSUME NEW g PROVE A(g) <=> Picks(Indices, T, g, n)
      OBVIOUS
    <2>1. [k \in 0 .. n |-> IF k = 0 THEN <<>>
                            ELSE IF normalized_over_thresh(pow[k-1], base[k-1])
                                 THEN Append(g[k-1], k-1) ELSE g[k-1]]
            = [k \in 0 .. n |-> IF k = 0 THEN <<>>
                                ELSE IF Indices[k] \in T
                                     THEN Append(g[k-1], Indices[k]) ELSE g[k-1]]
      BY <1>3
    <2> QED
      BY <2>1 DEF Picks
  <1> HIDE DEF A
  <1>5. PICK g : Picks(Indices, T, g, n)
    BY <1>2, PicksExist
  <1>6. A(CHOOSE k : A(k))
    BY <1>4, <1>5
  <1> DEFINE h == CHOOSE k : A(k)
  <1>7. Picks(Indices, T, h, n)
    BY <1>4, <1>6
  <1> HIDE DEF h
  <1>8. /\ \A k \in 1 .. n : Indices[k] \in Elements
        /\ \A i \in 1 .. n, j \in 1 .. n : Indices[i] = Indices[j] => i = j
    <2>1. \A k \in 1 .. n : Indices[k] = k - 1 /\ k - 1 \in Elements
      BY <1>2, <1>3
    <2>2. \A i \in 1 .. n, j \in 1 .. n : i - 1 = j - 1 => i = j
      BY <1>2
    <2> QED
      BY <2>1, <2>2
  <1>9. h[n] \in Seq(Elements) /\ PickedOf(Indices, T, n, h[n])
    BY <1>2, <1>7, <1>8, PicksArePicked
  <1>10. all = h[n]
    BY <1>1 DEF h, pow, base
  <1>11. all \in Seq(Elements) /\ PickedOf(Indices, T, n, all)
    BY <1>9, <1>10
  <1>12. \A i \in 1 .. Len(all) : all[i] \in T
    BY <1>11 DEF PickedOf
  <1>13. ASSUME NEW e \in T PROVE \E i \in 1 .. Len(all) : all[i] = e
    <2>1. e \in 0 .. n-1
      BY <1>2 DEF T, Over
    <2>2. e + 1 \in 1 .. n /\ e + 1 \in 0 .. n /\ e + 1 # 0 /\ (e + 1) - 1 = e
      BY <1>2, <2>1
    <2>3. Indices[e + 1] = e
      BY <1>3, <2>2
    <2> QED
      BY <1>11, <2>2, <2>3 DEF PickedOf
  <1>14. \A i \in 1 .. Len(all), j \in 1 .. Len(all) : all[i] = all[j] => i = j
    BY <1>11 DEF PickedOf
  <1> QED
    BY <1>11, <1>12, <1>13, <1>14 DEF T

\* The detections of a beam are counted by the elements over the threshold.
LEMMA DetectionsCounted ==
  ASSUME AnyBuild, lines \subseteq Places, NEW b \in BorsIds,
         NEW all, all = copy_if(Pow(b), compute_baseline(Pow(b)))
  PROVE  /\ IsFiniteSet(Detections(b)) /\ Cardinality(Detections(b)) = Len(all)
         /\ \A i \in 1 .. Len(all) : PlaceOf(b, all[i]) \in Detections(b)
         /\ \A p \in Detections(b) : \E i \in 1 .. Len(all) : PlaceOf(b, all[i]) = p
         /\ \A i \in 1 .. Len(all), j \in 1 .. Len(all) :
              PlaceOf(b, all[i]) = PlaceOf(b, all[j]) => i = j
  <1> DEFINE D == Detections(b)
             n == Len(all)
             f == [i \in 1 .. n |-> PlaceOf(b, all[i])]
  <1>1. /\ all \in Seq(Elements) /\ n \in Nat
        /\ \A i \in 1 .. n : all[i] \in Over(b) /\ all[i] \in Elements
        /\ \A e \in Over(b) : \E i \in 1 .. n : all[i] = e
        /\ \A i \in 1 .. n, j \in 1 .. n : all[i] = all[j] => i = j
    BY CopiesOver
  <1>2. \A i \in 1 .. n : PlaceOf(b, all[i]) \in D /\ ElementOf(PlaceOf(b, all[i])) = all[i]
    BY <1>1, DetectedAt, PlaceOfElement DEF Over
  <1>3. ASSUME NEW p \in D PROVE \E i \in 1 .. n : PlaceOf(b, all[i]) = p
    <2>1. p \in Places /\ p.bors = b
      BY DEF Detections
    <2>2. ElementOf(p) \in Elements /\ PlaceOf(b, ElementOf(p)) = p
      BY <2>1, ElementOfPlace
    <2>3. ElementOf(p) \in Over(b)
      BY <2>2, DetectedAt DEF Over
    <2> QED
      BY <1>1, <2>2, <2>3
  <1>4. ASSUME NEW i \in 1 .. n, NEW j \in 1 .. n, PlaceOf(b, all[i]) = PlaceOf(b, all[j])
        PROVE  i = j
    <2>1. all[i] = all[j]
      BY <1>2, <1>4
    <2> QED
      BY <1>1, <2>1
  <1> HIDE DEF D, n
  <1>5. f \in [1 .. n -> D] /\ \A i \in 1 .. n : f[i] = PlaceOf(b, all[i])
    BY <1>2
  <1> HIDE DEF f
  <1>6. f \in Bijection(1 .. n, D)
    BY <1>3, <1>4, <1>5 DEF Bijection, Injection, Surjection, IsInjective
  <1>7. ExistsBijection(1 .. n, D)
    BY <1>6 DEF ExistsBijection
  <1>8. IsFiniteSet(D) /\ Cardinality(D) = n
    BY <1>1, <1>7, FS_NatBijection, FS_CountingElements
  <1> QED
    BY <1>2, <1>3, <1>4, <1>8 DEF D, n

\* What is stored for an element is the row of its place.
LEMMA HitIsRow ==
  ASSUME AnyBuild, lines \subseteq Places, NEW b \in BorsIds, NEW e \in Elements
  PROVE  Hit(b, Pow(b), compute_baseline(Pow(b)), e) = Row(PlaceOf(b, e))
  <1> DEFINE s == e \div N_FINE_CHAN
             p == PlaceOf(b, e)
  <1>1. /\ p \in Places /\ p.input = InputOf(s) /\ p.chan = ChanOf(s) /\ p.bors = b
        /\ p.fine = e % N_FINE_CHAN
    BY PlaceOfElement DEF PlaceOf
  <1>2. Pow(b)[e] = Power(p) /\ compute_baseline(Pow(b))[e] = LocalSum(p)
    BY PowerAt, BaselineAt
  <1>3. p.chan \in Chans /\ Chans = 0 .. N_CC-1 /\ N_CC \in Nat
    BY <1>1, DataSizes DEF Places, Chans
  <1> DEFINE pol == CASE build = "S6" -> ao_pol(s)
                      [] build = "DIBAS" -> dibas_pol(s)
                      [] build = "FAST" -> sid_pol
             cc == CASE build = "S6" -> ao_coarse_chan(s)
                     [] build = "DIBAS" -> dibas_coarse_chan(s, b)
                     [] build = "FAST" -> 0
  <1>4. pol = IF build = "FAST" THEN sid_pol ELSE p.input
    <2>1. CASE build = "S6"
      BY <1>1, <2>1 DEF InputOf
    <2>2. CASE build = "DIBAS"
      BY <1>1, <2>2, DataSizes DEF InputOf, dibas_pol
    <2>3. CASE build = "FAST"
      BY <2>3
    <2> QED
      BY <2>1, <2>2, <2>3 DEF AnyBuild
  <1>5. cc = p.chan + IF build = "DIBAS" THEN p.bors * N_COARSE_CHAN_PER_BORS ELSE 0
    <2>1. CASE build = "S6"
      <3>1. cc = p.chan
        BY <1>1, <2>1 DEF ChanOf
      <3> QED
        BY <1>3, <2>1, <3>1
    <2>2. CASE build = "DIBAS"
      BY <1>1, <2>2, DataSizes DEF ChanOf, dibas_coarse_chan
    <2>3. CASE build = "FAST"
      <3>1. p.chan = 0 /\ cc = 0
        BY <1>3, <2>3, DataSizes
      <3> QED
        BY <2>3, <3>1
    <2> QED
      BY <2>1, <2>2, <2>3 DEF AnyBuild
  <1>6. Hit(b, Pow(b), compute_baseline(Pow(b)), e)
          = [power |-> Pow(b)[e], baseline |-> compute_baseline(Pow(b))[e],
             fine_chan |-> e % N_FINE_CHAN, pol |-> pol, coarse_chan |-> cc]
    BY DEF Hit
  <1> HIDE DEF pol, cc, p, s
  <1> QED
    BY <1>1, <1>2, <1>4, <1>5, <1>6 DEF Row, p

\* The first n hits of a block's array are detections of the beam, all of them
\* or as many as there is room for.
RightHits(b, n, hs) ==
  /\ n = IF Cardinality(Detections(b)) > maxhits THEN maxhits ELSE Cardinality(Detections(b))
  /\ \E q \in [1 .. n -> Detections(b)] :
       /\ \A i \in 1 .. n, j \in 1 .. n : q[i] = q[j] => i = j
       /\ \A i \in 1 .. n : hs[i] = Row(q[i])
       /\ Cardinality(Detections(b)) <= maxhits =>
            \A p \in Detections(b) : \E i \in 1 .. n : q[i] = p

LEMMA HitsRight ==
  ASSUME AnyBuild, lines \subseteq Places, maxhits \in 1 .. MAXHITS, NEW b \in BorsIds,
         NEW array, DOMAIN array = 1 .. MAXHITS,
         NEW indices, indices = find_hits(Pow(b), compute_baseline(Pow(b))),
         NEW hits, hits = [i \in 1 .. Len(indices) |->
                             Hit(b, Pow(b), compute_baseline(Pow(b)), indices[i])]
  PROVE  /\ Len(hits) = Len(indices) /\ Len(hits) \in 0 .. maxhits
         /\ RightHits(b, Len(hits), Overwrite(array, hits))
  <1> DEFINE all == copy_if(Pow(b), compute_baseline(Pow(b)))
             D == Detections(b)
             m == Len(all)
             n == IF m > maxhits THEN maxhits ELSE m
             q == [i \in 1 .. n |-> PlaceOf(b, all[i])]
  <1>1. all \in Seq(Elements)
    BY CopiesOver
  <1>2. /\ IsFiniteSet(D) /\ Cardinality(D) = m
        /\ \A i \in 1 .. m : PlaceOf(b, all[i]) \in D
        /\ \A p \in D : \E i \in 1 .. m : PlaceOf(b, all[i]) = p
        /\ \A i \in 1 .. m, j \in 1 .. m : PlaceOf(b, all[i]) = PlaceOf(b, all[j]) => i = j
    BY DetectionsCounted
  <1>3. indices = SubSeq(all, 1, n)
    BY DEF find_hits
  <1> HIDE DEF all
  <1>4. m \in Nat /\ n \in 0 .. maxhits /\ n <= m /\ MAXHITS \in Nat /\ maxhits <= MAXHITS
    BY <1>1, MaxHitsAssumption
  <1>5. Len(indices) = n /\ \A i \in 1 .. n : indices[i] = all[i] /\ all[i] \in Elements
    <2> HIDE DEF n
    <2> QED
      BY <1>1, <1>3, <1>4
  <1>6. Len(hits) = n
    <2>1. hits = [i \in 1 .. n |-> Hit(b, Pow(b), compute_baseline(Pow(b)), indices[i])]
      BY <1>5
    <2>2. n \in Nat
      BY <1>4
    <2> HIDE DEF n
    <2> QED
      BY <2>1, <2>2
  <1>7. \A i \in 1 .. n : Overwrite(array, hits)[i] = Row(PlaceOf(b, all[i]))
    <2> SUFFICES ASSUME NEW i \in 1 .. n
                 PROVE  Overwrite(array, hits)[i] = Row(PlaceOf(b, all[i]))
      OBVIOUS
    <2>1. hits[i] = Hit(b, Pow(b), compute_baseline(Pow(b)), all[i])
      BY <1>5
    <2>2. i \in DOMAIN array /\ i <= Len(hits)
      BY <1>4, <1>6
    <2>3. Overwrite(array, hits)[i] = hits[i]
      BY <2>2 DEF Overwrite
    <2>4. all[i] \in Elements
      BY <1>5
    <2> QED
      BY <2>1, <2>3, <2>4, HitIsRow
  <1>8. q \in [1 .. n -> D] /\ \A i \in 1 .. n : q[i] = PlaceOf(b, all[i]) /\ i \in 1 .. m
    BY <1>2, <1>4
  <1>9. n = IF Cardinality(D) > maxhits THEN maxhits ELSE Cardinality(D)
    BY <1>2
  <1>10. Cardinality(D) <= maxhits => n = m
    BY <1>2, <1>4
  <1> HIDE DEF q, n, m, D
  <1>11. /\ \A i \in 1 .. n, j \in 1 .. n : q[i] = q[j] => i = j
         /\ \A i \in 1 .. n : Overwrite(array, hits)[i] = Row(q[i])
         /\ Cardinality(D) <= maxhits => \A p \in D : \E i \in 1 .. n : q[i] = p
    BY <1>2, <1>7, <1>8, <1>10
  <1>12. RightHits(b, n, Overwrite(array, hits))
    BY <1>8, <1>9, <1>11 DEF RightHits, D
  <1> QED
    BY <1>4, <1>5, <1>6, <1>12

-----------------------------------------------------------------------------
(* Hits: the tables that are written.                                      *)

LEMMA RowInjective ==
  ASSUME AnyBuild, NEW p \in Places, NEW q \in Places, p.bors = q.bors, Row(p) = Row(q)
  PROVE  p = q
  <1>1. /\ p.input \in Inputs /\ q.input \in Inputs /\ p.chan \in Chans /\ q.chan \in Chans
        /\ p = [bors |-> p.bors, input |-> p.input, chan |-> p.chan, fine |-> p.fine]
        /\ q = [bors |-> q.bors, input |-> q.input, chan |-> q.chan, fine |-> q.fine]
    BY DEF Places
  <1>2. /\ Row(p).fine_chan = p.fine /\ Row(q).fine_chan = q.fine
        /\ Row(p).pol = IF build = "FAST" THEN sid_pol ELSE p.input
        /\ Row(q).pol = IF build = "FAST" THEN sid_pol ELSE q.input
        /\ Row(p).coarse_chan
             = p.chan + IF build = "DIBAS" THEN p.bors * N_COARSE_CHAN_PER_BORS ELSE 0
        /\ Row(q).coarse_chan
             = q.chan + IF build = "DIBAS" THEN q.bors * N_COARSE_CHAN_PER_BORS ELSE 0
    BY DEF Row
  <1>3. p.fine = q.fine
    BY <1>2
  <1>4. p.input = q.input
    <2>1. CASE build = "FAST"
      <3>1. Inputs = {0}
        BY <2>1, DataSizes DEF Inputs
      <3> QED
        BY <1>1, <3>1
    <2>2. CASE build # "FAST"
      BY <1>2, <2>2
    <2> QED
      BY <2>1, <2>2
  <1>5. p.chan = q.chan
    <2> DEFINE off == IF build = "DIBAS" THEN p.bors * N_COARSE_CHAN_PER_BORS ELSE 0
    <2>1. p.chan + off = q.chan + off
      BY <1>2
    <2>2. p.chan \in Int /\ q.chan \in Int /\ off \in Int
      <3>1. p.bors \in Int
        BY DataSizes DEF Places, BorsIds
      <3> QED
        BY <1>1, <3>1, SizeAssumption, DataSizes DEF Chans
    <2> HIDE DEF off
    <2>3. \A x \in Int, y \in Int, z \in Int : x + z = y + z => x = y
      OBVIOUS
    <2> QED
      BY <2>1, <2>2, <2>3
  <1> QED
    BY <1>1, <1>3, <1>4, <1>5

LEMMA TakesRow ==
  ASSUME AnyBuild, NEW p \in Places, NEW input \in Inputs
  PROVE  TakesHit(input, Row(p)) <=> p.input = input /\ p.fine # 0
  <1>1. p.input \in Inputs
    BY DEF Places
  <1>2. build = "FAST" => Inputs = {0}
    BY DataSizes DEF Inputs
  <1>3. Row(p).fine_chan = p.fine /\ (build # "FAST" => Row(p).pol = p.input)
    BY DEF Row
  <1> QED
    BY <1>1, <1>2, <1>3 DEF TakesHit

\* The hits of an array that go to the table of an input.
Taken(input, hs, n) == {h \in {hs[i] : i \in 1 .. n} : TakesHit(input, h)}

LEMMA RowsPicked ==
  ASSUME NEW b, NEW input, block.nhits[b] \in Nat,
         \A i \in 1 .. block.nhits[b], j \in 1 .. block.nhits[b] :
           block.hits[b][i] = block.hits[b][j] => i = j
  PROVE  /\ PickedOf(block.hits[b], Taken(input, block.hits[b], block.nhits[b]),
                     block.nhits[b], Rows(b, input))
         /\ Len(Rows(b, input)) \in Nat
  <1> DEFINE hs == block.hits[b]
             n == block.nhits[b]
             T == Taken(input, hs, n)
             V == {hs[i] : i \in 1 .. n}
             A(g) == g = [k \in 0 .. n |->
                            IF k = 0 THEN <<>>
                            ELSE IF TakesHit(input, hs[k]) THEN Append(g[k-1], hs[k]) ELSE g[k-1]]
  <1>1. Rows(b, input) = (CHOOSE g : A(g))[n]
    BY DEF Rows
  <1>2. \A k \in 0 .. n : k # 0 => (hs[k] \in T <=> TakesHit(input, hs[k]))
    <2> SUFFICES ASSUME NEW k \in 0 .. n, k # 0 PROVE hs[k] \in T <=> TakesHit(input, hs[k])
      OBVIOUS
    <2>1. k \in 1 .. n
      OBVIOUS
    <2> HIDE DEF hs, n
    <2> QED
      BY <2>1 DEF Taken
  <1>3. n \in Nat /\ (\A k \in 1 .. n : hs[k] \in V)
        /\ (\A i \in 1 .. n, j \in 1 .. n : hs[i] = hs[j] => i = j)
    OBVIOUS
  <1> HIDE DEF hs, n, T, V
  <1>4. \A g : A(g) <=> Picks(hs, T, g, n)
    <2> SUFFICES ASSUME NEW g PROVE A(g) <=> Picks(hs, T, g, n)
      OBVIOUS
    <2>1. [k \in 0 .. n |-> IF k = 0 THEN <<>>
                            ELSE IF TakesHit(input, hs[k]) THEN Append(g[k-1], hs[k]) ELSE g[k-1]]
            = [k \in 0 .. n |-> IF k = 0 THEN <<>>
                                ELSE IF hs[k] \in T THEN Append(g[k-1], hs[k]) ELSE g[k-1]]
      BY <1>2
    <2> QED
      BY <2>1 DEF Picks
  <1> HIDE DEF A
  <1>5. PICK g : Picks(hs, T, g, n)
    BY <1>3, PicksExist
  <1>6. A(CHOOSE k : A(k))
    BY <1>4, <1>5
  <1> DEFINE h == CHOOSE k : A(k)
  <1>7. Picks(hs, T, h, n)
    BY <1>4, <1>6
  <1> HIDE DEF h
  <1>8. h[n] \in Seq(V) /\ PickedOf(hs, T, n, h[n])
    BY <1>3, <1>7, PicksArePicked
  <1>9. Rows(b, input) = h[n]
    BY <1>1 DEF h
  <1>10. Len(h[n]) \in Nat
    BY <1>8
  <1> QED
    BY <1>8, <1>9, <1>10 DEF hs, n, T

RowSet(r) == {r[i] : i \in 1 .. Len(r)}

\* The rows rs of the tables of a beam, by input, are right.
RightRows(b, rs) ==
  \A input \in Inputs :
    /\ RowSet(rs[input]) \subseteq
         {Row(p) : p \in {q \in Detections(b) : q.input = input /\ q.fine # 0}}
    /\ Cardinality(RowSet(rs[input])) = Len(rs[input])

FullRows(b, rs) ==
  LET found == Detections(b)
      kept  == UNION {RowSet(rs[input]) : input \in Inputs}
      dc    == {p \in found : p.fine = 0}
  IN  IF Cardinality(found) <= maxhits
      THEN kept = {Row(p) : p \in found \ dc}
      ELSE Cardinality(kept) >= maxhits - Cardinality(dc)

LEMMA RowsRight ==
  ASSUME AnyBuild, lines \subseteq Places, maxhits \in Nat, NEW b \in BorsIds,
         RightHits(b, block.nhits[b], block.hits[b]),
         NEW rs, rs = [input \in Inputs |-> Rows(b, input)]
  PROVE  RightRows(b, rs) /\ FullRows(b, rs)
  <1> DEFINE D == Detections(b)
             hs == block.hits[b]
             n == block.nhits[b]
             dc == {p \in D : p.fine = 0}
             kept == UNION {RowSet(rs[input]) : input \in Inputs}
  <1>1. IsFiniteSet(D) /\ Cardinality(D) \in Nat
    <2>1. IsFiniteSet(D)
      BY DetectionsCounted
    <2> QED
      BY <2>1, FS_CardinalityType
  <1>2. PICK q \in [1 .. n -> D] :
          /\ \A i \in 1 .. n, j \in 1 .. n : q[i] = q[j] => i = j
          /\ \A i \in 1 .. n : hs[i] = Row(q[i])
          /\ Cardinality(D) <= maxhits => \A p \in D : \E i \in 1 .. n : q[i] = p
    BY DEF RightHits
  <1>3. n = IF Cardinality(D) > maxhits THEN maxhits ELSE Cardinality(D)
    BY DEF RightHits
  <1>4. n \in Nat
    BY <1>1, <1>3
  <1>5. \A p \in D : p \in Places /\ p.bors = b /\ p.input \in Inputs
    BY DEF Detections, Places
  <1>6. \A i \in 1 .. n, j \in 1 .. n : hs[i] = hs[j] => i = j
    <2> SUFFICES ASSUME NEW i \in 1 .. n, NEW j \in 1 .. n, hs[i] = hs[j] PROVE i = j
      OBVIOUS
    <2> HIDE DEF hs, n, D
    <2>1. Row(q[i]) = Row(q[j]) /\ q[i] \in D /\ q[j] \in D
      BY <1>2
    <2>2. q[i] = q[j]
      BY <1>5, <2>1, RowInjective
    <2> QED
      BY <1>2, <2>2
  <1>7. ASSUME NEW input \in Inputs
        PROVE  /\ RowSet(rs[input]) =
                    {Row(q[i]) : i \in {k \in 1 .. n : q[k].input = input /\ q[k].fine # 0}}
               /\ Cardinality(RowSet(rs[input])) = Len(rs[input])
    <2> DEFINE r == rs[input]
               T == Taken(input, hs, n)
    <2>1. PickedOf(hs, T, n, r) /\ Len(r) \in Nat
      <3>1. r = Rows(b, input)
        OBVIOUS
      <3>2. PickedOf(hs, T, n, Rows(b, input)) /\ Len(Rows(b, input)) \in Nat
        BY <1>4, <1>6, RowsPicked
      <3> QED
        BY <3>1, <3>2
    <2> HIDE DEF r, hs, n, D
    <2>2. \A i \in 1 .. n : hs[i] = Row(q[i]) /\ q[i] \in D
      BY <1>2
    <2>3. \A i \in 1 .. n : hs[i] \in T <=> q[i].input = input /\ q[i].fine # 0
      <3>1. \A i \in 1 .. n : hs[i] \in T <=> TakesHit(input, hs[i])
        BY DEF Taken
      <3> QED
        BY <1>5, <2>2, <3>1, TakesRow
    <2> HIDE DEF T
    <2>4. RowSet(r) = {Row(q[i]) : i \in {k \in 1 .. n : q[k].input = input /\ q[k].fine # 0}}
      <3>1. ASSUME NEW h \in RowSet(r)
            PROVE  h \in {Row(q[i]) : i \in {k \in 1 .. n : q[k].input = input /\ q[k].fine # 0}}
        <4>1. PICK i \in 1 .. Len(r) : h = r[i]
          BY DEF RowSet
        <4>2. PICK j \in 1 .. n : r[i] = hs[j] /\ hs[j] \in T
          BY <2>1 DEF PickedOf
        <4> QED
          BY <2>2, <2>3, <4>1, <4>2
      <3>2. ASSUME NEW j \in 1 .. n, q[j].input = input, q[j].fine # 0 PROVE Row(q[j]) \in RowSet(r)
        <4>1. hs[j] \in T
          BY <2>3, <3>2
        <4>2. PICK i \in 1 .. Len(r) : r[i] = hs[j]
          BY <2>1, <4>1 DEF PickedOf
        <4> QED
          BY <2>2, <4>2 DEF RowSet
      <3> QED
        BY <3>1, <3>2
    <2>5. Cardinality(RowSet(r)) = Len(r)
      <3> DEFINE f == [i \in 1 .. Len(r) |-> r[i]]
      <3>1. f \in [1 .. Len(r) -> RowSet(r)] /\ \A i \in 1 .. Len(r) : f[i] = r[i]
        BY DEF RowSet
      <3>2. \A i \in 1 .. Len(r), j \in 1 .. Len(r) : f[i] = f[j] => i = j
        <4>1. \A i \in 1 .. Len(r), j \in 1 .. Len(r) : r[i] = r[j] => i = j
          BY <2>1 DEF PickedOf
        <4> QED
          BY <3>1, <4>1
      <3>3. \A h \in RowSet(r) : \E i \in 1 .. Len(r) : f[i] = h
        BY <3>1 DEF RowSet
      <3> HIDE DEF f
      <3>4. f \in Bijection(1 .. Len(r), RowSet(r))
        BY <3>1, <3>2, <3>3 DEF Bijection, Injection, Surjection, IsInjective
      <3>5. ExistsBijection(1 .. Len(r), RowSet(r))
        BY <3>4 DEF ExistsBijection
      <3> QED
        BY <2>1, <3>5, FS_CountingElements
    <2> QED
      BY <2>4, <2>5 DEF r
  <1> HIDE DEF hs, n, D
  <1>8. RightRows(b, rs)
    <2> SUFFICES ASSUME NEW input \in Inputs
                 PROVE  /\ RowSet(rs[input]) \subseteq
                             {Row(p) : p \in {x \in D : x.input = input /\ x.fine # 0}}
                        /\ Cardinality(RowSet(rs[input])) = Len(rs[input])
      BY DEF RightRows, D
    <2>1. \A k \in 1 .. n : q[k] \in D
      BY <1>2
    <2> QED
      BY <1>7, <2>1
  <1>9. kept = {Row(q[i]) : i \in {k \in 1 .. n : q[k].fine # 0}}
    <2>1. \A k \in 1 .. n : q[k].input \in Inputs
      BY <1>2, <1>5
    <2>2. \A h : h \in kept <=> \E input \in Inputs : h \in RowSet(rs[input])
      OBVIOUS
    <2>3. \A h : \A input \in Inputs :
            h \in RowSet(rs[input]) <=>
              \E i \in 1 .. n : h = Row(q[i]) /\ q[i].input = input /\ q[i].fine # 0
      BY <1>7
    <2> HIDE DEF kept
    <2>4. \A h : h \in kept <=> \E i \in 1 .. n : h = Row(q[i]) /\ q[i].fine # 0
      BY <2>1, <2>2, <2>3
    <2> QED
      BY <2>4
  <1> HIDE DEF kept
  <1>10. CASE Cardinality(D) <= maxhits
    <2>1. \A p \in D : \E i \in 1 .. n : q[i] = p
      BY <1>2, <1>10
    <2>2. \A i \in 1 .. n : q[i] \in D
      BY <1>2
    <2>3. kept = {Row(p) : p \in D \ dc}
      BY <1>9, <2>1, <2>2
    <2> QED
      BY <1>8, <1>10, <2>3 DEF FullRows, D, kept
  <1>11. CASE ~(Cardinality(D) <= maxhits)
    <2> DEFINE K == {k \in 1 .. n : q[k].fine # 0}
               Z == {k \in 1 .. n : q[k].fine = 0}
               f == [k \in K |-> Row(q[k])]
               z == [k \in Z |-> q[k]]
    <2>1. n = maxhits
      BY <1>1, <1>3, <1>11
    <2>2. /\ IsFiniteSet(1 .. n) /\ Cardinality(1 .. n) = n
      BY <1>4, FS_Interval, 1 \in Int, n \in Int
    <2>3. /\ IsFiniteSet(K) /\ IsFiniteSet(Z)
          /\ Cardinality(K) \in Nat /\ Cardinality(Z) \in Nat
      BY <2>2, FS_Subset, FS_CardinalityType
    <2>4. Cardinality(K) + Cardinality(Z) = n
      <3>1. K \cup Z = 1 .. n /\ K \cap Z = {}
        OBVIOUS
      <3> HIDE DEF K, Z
      <3>2. Cardinality(K \cup Z) = Cardinality(K) + Cardinality(Z) - Cardinality(K \cap Z)
        BY <2>3, FS_Union
      <3>3. Cardinality(K \cap Z) = 0
        BY <3>1, FS_EmptySet
      <3>4. Cardinality(K \cup Z) = n
        BY <2>2, <3>1
      <3> QED
        BY <2>3, <3>2, <3>3, <3>4
    <2>5. \A k \in 1 .. n : q[k] \in D /\ q[k] \in Places /\ q[k].bors = b
      BY <1>2, <1>5
    <2>6. f \in Bijection(K, kept)
      <3>1. f \in [K -> kept] /\ \A k \in K : f[k] = Row(q[k])
        BY <1>9
      <3>2. \A i \in K, j \in K : f[i] = f[j] => i = j
        <4> SUFFICES ASSUME NEW i \in K, NEW j \in K, f[i] = f[j] PROVE i = j
          OBVIOUS
        <4>1. Row(q[i]) = Row(q[j])
          BY <3>1
        <4>2. q[i] = q[j]
          BY <2>5, <4>1, RowInjective
        <4> QED
          BY <1>2, <4>2
      <3>3. \A h \in kept : \E k \in K : f[k] = h
        BY <1>9, <3>1
      <3> HIDE DEF f, K
      <3> QED
        BY <3>1, <3>2, <3>3 DEF Bijection, Injection, Surjection, IsInjective
    <2>7. IsFiniteSet(kept) /\ Cardinality(kept) = Cardinality(K)
      <3>1. ExistsBijection(K, kept)
        BY <2>6 DEF ExistsBijection
      <3> HIDE DEF K
      <3> QED
        BY <2>3, <3>1, FS_Bijection
    <2>8. z \in Injection(Z, dc)
      <3>1. z \in [Z -> dc] /\ \A k \in Z : z[k] = q[k]
        BY <2>5
      <3>2. \A i \in Z, j \in Z : z[i] = z[j] => i = j
        BY <1>2, <3>1
      <3> HIDE DEF z, Z
      <3> QED
        BY <3>1, <3>2 DEF Injection, IsInjective
    <2>9. IsFiniteSet(dc) /\ Cardinality(dc) \in Nat
      BY <1>1, FS_Subset, FS_CardinalityType
    <2>10. Cardinality(Z) <= Cardinality(dc)
      <3> HIDE DEF Z, z, dc
      <3> QED
        BY <2>8, <2>9, FS_Injection
    <2>11. Cardinality(kept) >= maxhits - Cardinality(dc)
      <3> HIDE DEF Z, K, dc
      <3> QED
        BY <2>1, <2>3, <2>4, <2>7, <2>9, <2>10
    <2> QED
      BY <1>8, <1>11, <2>11 DEF FullRows, D, kept
  <1> QED
    BY <1>10, <1>11

-----------------------------------------------------------------------------
(* Hits: the powers of the coarse channels.                                *)

\* The sum of the powers of a channel in a polarisation.
ChanSum(b, input, chan) ==
  MapThenSumSet(LAMBDA f : Power([bors |-> b, input |-> input, chan |-> chan, fine |-> f]), Fines)
ChanPowers(b, input, chan) ==
  [f \in Fines |-> Power([bors |-> b, input |-> input, chan |-> chan, fine |-> f])]

LEMMA FinesFinite == IsFiniteSet(Fines)
  BY FS_Interval, SizeAssumption, 0 \in Int, N_FINE_CHAN-1 \in Int DEF Fines

LEMMA ChanSumIs == \A b, input, chan : ChanSum(b, input, chan) = Total(ChanPowers(b, input, chan))
  <1> SUFFICES ASSUME NEW b, NEW input, NEW chan
               PROVE  ChanSum(b, input, chan) = Total(ChanPowers(b, input, chan))
    OBVIOUS
  <1> DEFINE h == ChanPowers(b, input, chan)
             A(g) == g = [T \in SUBSET Fines |->
                            IF T = {} THEN 0
                            ELSE Power([bors |-> b, input |-> input, chan |-> chan, fine |-> One(T)])
                                   + g[T \ {One(T)}]]
  <1>1. ChanSum(b, input, chan) = (CHOOSE g : A(g))[Fines]
    BY DEF ChanSum, MapThenSumSet, MapThenFoldSet, One
  <1>2. DOMAIN h = Fines /\ \A f \in Fines :
          h[f] = Power([bors |-> b, input |-> input, chan |-> chan, fine |-> f])
    BY DEF ChanPowers
  <1> HIDE DEF h
  <1>3. \A g : A(g) <=> Sums(h, g, Fines)
    <2> SUFFICES ASSUME NEW g PROVE A(g) <=> Sums(h, g, Fines)
      OBVIOUS
    <2>1. \A T \in SUBSET Fines : T # {} => One(T) \in Fines
      BY DEF One
    <2>2. \A T \in SUBSET Fines : T # {} =>
            h[One(T)] = Power([bors |-> b, input |-> input, chan |-> chan, fine |-> One(T)])
      BY <1>2, <2>1
    <2>3. [T \in SUBSET Fines |->
             IF T = {} THEN 0
             ELSE Power([bors |-> b, input |-> input, chan |-> chan, fine |-> One(T)])
                    + g[T \ {One(T)}]]
            = [T \in SUBSET Fines |-> IF T = {} THEN 0 ELSE h[One(T)] + g[T \ {One(T)}]]
      BY <2>2
    <2> QED
      BY <2>3 DEF Sums
  <1> HIDE DEF A
  <1>4. PICK g : Sums(h, g, Fines)
    BY <1>2, FinesFinite, SumsExist
  <1>5. A(CHOOSE k : A(k))
    BY <1>3, <1>4
  <1>6. Total(h) = (CHOOSE k : A(k))[Fines]
    BY <1>2, <1>3, <1>5, FinesFinite, TotalIs
  <1> QED
    BY <1>1, <1>6 DEF h

LEMMA SpectrumSum ==
  ASSUME NEW pow, NEW s \in 0 .. N_SPECTRA-1
  PROVE  reduce_power_spectra(pow)[s] = Total([f \in Fines |-> pow[s * N_FINE_CHAN + f]])
  <1> DEFINE h == [f \in Fines |-> pow[s * N_FINE_CHAN + f]]
             A(g) == g = [T \in SUBSET Fines |->
                            IF T = {} THEN 0
                            ELSE pow[s * N_FINE_CHAN + One(T)] + g[T \ {One(T)}]]
  <1>1. reduce_power_spectra(pow)[s] = (CHOOSE g : A(g))[Fines]
    BY DEF reduce_power_spectra, MapThenSumSet, MapThenFoldSet, One
  <1>2. DOMAIN h = Fines /\ \A f \in Fines : h[f] = pow[s * N_FINE_CHAN + f]
    OBVIOUS
  <1> HIDE DEF h
  <1>3. \A g : A(g) <=> Sums(h, g, Fines)
    <2> SUFFICES ASSUME NEW g PROVE A(g) <=> Sums(h, g, Fines)
      OBVIOUS
    <2>1. \A T \in SUBSET Fines : T # {} => One(T) \in Fines
      BY DEF One
    <2>2. \A T \in SUBSET Fines : T # {} => h[One(T)] = pow[s * N_FINE_CHAN + One(T)]
      BY <1>2, <2>1
    <2>3. [T \in SUBSET Fines |-> IF T = {} THEN 0
                                  ELSE pow[s * N_FINE_CHAN + One(T)] + g[T \ {One(T)}]]
            = [T \in SUBSET Fines |-> IF T = {} THEN 0 ELSE h[One(T)] + g[T \ {One(T)}]]
      BY <2>2
    <2> QED
      BY <2>3 DEF Sums
  <1> HIDE DEF A
  <1>4. PICK g : Sums(h, g, Fines)
    BY <1>2, FinesFinite, SumsExist
  <1>5. A(CHOOSE k : A(k))
    BY <1>3, <1>4
  <1>6. Total(h) = (CHOOSE k : A(k))[Fines]
    BY <1>2, <1>3, <1>5, FinesFinite, TotalIs
  <1> QED
    BY <1>1, <1>6 DEF h

RightPowers(b, x, y) ==
  \A chan \in Chans : x[chan] = ChanSum(b, 0, chan) /\ y[chan] = ChanSum(b, 1, chan)

LEMMA PowersRight ==
  ASSUME AnyBuild, build = "DIBAS", lines \subseteq Places, NEW b \in BorsIds,
         NEW sums, sums = reduce_power_spectra(Pow(b))
  PROVE  RightPowers(b, polX(sums), polY(sums))
  <1>1. N_POLS_PER_BEAM = 2 /\ Inputs = {0, 1} /\ N_FINE_CHAN \in Nat
    BY DataSizes DEF Inputs
  <1>2. ASSUME NEW chan \in Chans, NEW input \in Inputs
        PROVE  sums[2 * chan + input] = ChanSum(b, input, chan)
    <2> DEFINE s == 2 * chan + input
               P(f) == [bors |-> b, input |-> input, chan |-> chan, fine |-> f]
    <2>1. s = Spectrum(chan, input) /\ s \in 0 .. N_SPECTRA-1
      BY <1>1, SpectrumOf DEF Spectrum
    <2>2. ASSUME NEW f \in Fines PROVE Pow(b)[s * N_FINE_CHAN + f] = Power(P(f))
      <3>1. P(f) \in Places
        BY DEF Places
      <3>2. /\ ElementOf(P(f)) \in Elements /\ PlaceOf(b, ElementOf(P(f))) = P(f)
            /\ ElementOf(P(f)) = N_FINE_CHAN * s + f
        BY <2>1, <3>1, ElementOfPlace DEF ElementOf
      <3> HIDE DEF s, P
      <3>3. N_FINE_CHAN * s = s * N_FINE_CHAN
        BY <1>1, <2>1, s \in Int
      <3>4. Pow(b)[ElementOf(P(f))] = Power(P(f))
        BY <3>2, PowerAt
      <3> QED
        BY <3>2, <3>3, <3>4
    <2>3. [f \in Fines |-> Pow(b)[s * N_FINE_CHAN + f]] = ChanPowers(b, input, chan)
      BY <2>2 DEF ChanPowers
    <2> HIDE DEF s
    <2>4. sums[s] = Total([f \in Fines |-> Pow(b)[s * N_FINE_CHAN + f]])
      BY <2>1, SpectrumSum
    <2>5. sums[s] = ChanSum(b, input, chan)
      BY <2>3, <2>4, ChanSumIs
    <2> QED
      BY <2>5 DEF s
  <1>3. \A chan \in Chans : 2 * chan + 0 = 2 * chan
    BY DataSizes DEF Chans
  <1>4. \A chan \in Chans :
          sums[2 * chan] = ChanSum(b, 0, chan) /\ sums[2 * chan + 1] = ChanSum(b, 1, chan)
    <2>1. \A chan \in Chans : sums[2 * chan + 0] = ChanSum(b, 0, chan)
      BY <1>1, <1>2
    <2>2. \A chan \in Chans : sums[2 * chan + 1] = ChanSum(b, 1, chan)
      BY <1>1, <1>2
    <2> QED
      BY <1>3, <2>1, <2>2
  <1> QED
    BY <1>4 DEF RightPowers, polX, polY

-----------------------------------------------------------------------------
(* Hits: nothing of this changes while a block is processed.               *)

Same == build' = build /\ lines' = lines /\ sid_pol' = sid_pol /\ maxhits' = maxhits

LEMMA SameSizes ==
  ASSUME Same
  PROVE  /\ N_POLS_PER_BEAM' = N_POLS_PER_BEAM /\ N_CC' = N_CC /\ N_BORS' = N_BORS
         /\ N_SPECTRA' = N_SPECTRA /\ BorsIds' = BorsIds /\ Inputs' = Inputs /\ Chans' = Chans
         /\ Places' = Places
  BY DEF Same, N_POLS_PER_BEAM, N_CC, N_BORS, N_SPECTRA, BorsIds, Inputs, Chans, Places

LEMMA SamePower ==
  ASSUME Same, NEW p
  PROVE  Power(p)' = Power(p)
  BY SameSizes DEF Same, Power, Spectrum

\* What the lemmas above say of the sums, in any state.
SumsAreTotals ==
  /\ \A p \in Places :
       LocalSum(p) = SumBetween(Around(p), Window(p.fine), Window(p.fine) + 2 * SMOOTH_SCALE)
  /\ \A b, input, chan : ChanSum(b, input, chan) = Total(ChanPowers(b, input, chan))

LEMMA SumsTotal == SumsAreTotals
  BY LocalSumIs, ChanSumIs DEF SumsAreTotals

LEMMA SameSums ==
  ASSUME Same
  PROVE  /\ \A p \in Places : LocalSum(p)' = LocalSum(p)
         /\ \A b, input, chan : ChanSum(b, input, chan)' = ChanSum(b, input, chan)
  <1>0. SumsAreTotals'
    BY SumsTotal, PTL
  <1>1. \A p \in Places : LocalSum(p)' = LocalSum(p)
    <2> SUFFICES ASSUME NEW p \in Places PROVE LocalSum(p)' = LocalSum(p)
      OBVIOUS
    <2>1. (\A q \in Places : LocalSum(q) = SumBetween(Around(q), Window(q.fine),
                                                   Window(q.fine) + 2 * SMOOTH_SCALE))'
      BY <1>0 DEF SumsAreTotals
    <2>2. Around(p)' = Around(p)
      BY SamePower DEF Around
    <2>3. LocalSum(p)' = SumBetween(Around(p)', Window(p.fine), Window(p.fine) + 2 * SMOOTH_SCALE)
      BY <2>1, SameSizes
    <2> QED
      BY <2>2, <2>3, LocalSumIs
  <1>2. \A b, input, chan : ChanSum(b, input, chan)' = ChanSum(b, input, chan)
    <2> SUFFICES ASSUME NEW b, NEW input, NEW chan
                 PROVE  ChanSum(b, input, chan)' = ChanSum(b, input, chan)
      OBVIOUS
    <2>1. (\A x, y, z : ChanSum(x, y, z) = Total(ChanPowers(x, y, z)))'
      BY <1>0 DEF SumsAreTotals
    <2>2. ChanPowers(b, input, chan)' = ChanPowers(b, input, chan)
      BY SamePower DEF ChanPowers
    <2>3. ChanSum(b, input, chan)' = Total(ChanPowers(b, input, chan)')
      BY <2>1
    <2> QED
      BY <2>2, <2>3, ChanSumIs
  <1> QED
    BY <1>1, <1>2

LEMMA SameRows ==
  ASSUME Same
  PROVE  /\ \A b : Detections(b)' = Detections(b)
         /\ \A p \in Places : Row(p)' = Row(p)
  <1>1. \A p \in Places : Detected(p)' <=> Detected(p)
    BY SamePower, SameSums DEF Detected
  <1>2. \A b : Detections(b)' = Detections(b)
    BY <1>1, SameSizes DEF Detections
  <1>3. \A p \in Places : Row(p)' = Row(p)
    BY SamePower, SameSums DEF Row, Same
  <1> QED
    BY <1>2, <1>3

LEMMA SameRight ==
  ASSUME Same, NEW b
  PROVE  /\ \A n, hs : RightHits(b, n, hs) => RightHits(b, n, hs)'
         /\ \A x, y : RightPowers(b, x, y) => RightPowers(b, x, y)'
         /\ \A rs : RightRows(b, rs) => RightRows(b, rs)'
         /\ \A rs : FullRows(b, rs) => FullRows(b, rs)'
  <1>1. Detections(b)' = Detections(b) /\ \A p \in Detections(b) : p \in Places /\ Row(p)' = Row(p)
    BY SameRows DEF Detections
  <1>2. \A n, hs : RightHits(b, n, hs) => RightHits(b, n, hs)'
    <2> SUFFICES ASSUME NEW n, NEW hs, RightHits(b, n, hs) PROVE RightHits(b, n, hs)'
      OBVIOUS
    <2> DEFINE D == Detections(b)
    <2>1. PICK q \in [1 .. n -> D] :
            /\ \A i \in 1 .. n, j \in 1 .. n : q[i] = q[j] => i = j
            /\ \A i \in 1 .. n : hs[i] = Row(q[i])
            /\ Cardinality(D) <= maxhits => \A p \in D : \E i \in 1 .. n : q[i] = p
      BY DEF RightHits
    <2>2. n = IF Cardinality(D) > maxhits THEN maxhits ELSE Cardinality(D)
      BY DEF RightHits
    <2>3. D' = D /\ maxhits' = maxhits
      BY <1>1 DEF Same
    <2>4. \A i \in 1 .. n : hs[i] = Row(q[i])'
      BY <1>1, <2>1
    <2> HIDE DEF D
    <2>5. /\ n = IF Cardinality(D') > maxhits' THEN maxhits' ELSE Cardinality(D')
          /\ q \in [1 .. n -> D']
          /\ Cardinality(D') <= maxhits' => \A p \in D' : \E i \in 1 .. n : q[i] = p
      BY <2>1, <2>2, <2>3
    <2> QED
      BY <2>1, <2>4, <2>5 DEF RightHits, D
  <1>3. \A x, y : RightPowers(b, x, y) => RightPowers(b, x, y)'
    BY SameSums, SameSizes DEF RightPowers
  <1>4. \A rs : RightRows(b, rs) => RightRows(b, rs)'
    BY <1>1, SameSizes DEF RightRows
  <1>5. \A rs : FullRows(b, rs) => FullRows(b, rs)'
    BY <1>1, SameSizes DEF FullRows, Same
  <1> QED
    BY <1>2, <1>3, <1>4, <1>5

-----------------------------------------------------------------------------
(* Hits: the invariant.                                                    *)

\* An output block with n hits of each beam, and what they were found in.
IsBlock(x) ==
  /\ x = [nhits |-> x.nhits, hits |-> x.hits, cc_pwrs_x |-> x.cc_pwrs_x, cc_pwrs_y |-> x.cc_pwrs_y]
  /\ x.nhits = [b \in BorsIds |-> x.nhits[b]]
  /\ x.hits = [b \in BorsIds |-> x.hits[b]]
  /\ x.cc_pwrs_x = [b \in BorsIds |-> x.cc_pwrs_x[b]]
  /\ x.cc_pwrs_y = [b \in BorsIds |-> x.cc_pwrs_y[b]]
  /\ \A b \in BorsIds : DOMAIN x.hits[b] = 1 .. MAXHITS

HitsTyped ==
  /\ build \in Builds /\ maxhits \in MaxHitsKeys
  /\ lines \subseteq Places
  /\ stage \in {"next", "gpu", "write"}
  /\ stage = "gpu" => bors \in BorsIds
  /\ IsBlock(block)

RightBeam(b, x) ==
  /\ RightHits(b, x.nhits[b], x.hits[b])
  /\ build = "DIBAS" => RightPowers(b, x.cc_pwrs_x[b], x.cc_pwrs_y[b])

\* The beams that the GPU thread is done with are right.
BeamsDone ==
  /\ stage = "gpu" /\ nchan # 0 => \A b \in 0 .. bors-1 : RightBeam(b, block)
  /\ stage = "write" /\ nchan # 0 => \A b \in BorsIds : RightBeam(b, block)

HitsInv ==
  /\ HitsTyped /\ BeamsDone
  /\ RowsAreDetections /\ NothingLostBelowLimit /\ CcPowersArePerPol

LEMMA TypedBuild ==
  ASSUME HitsTyped
  PROVE  AnyBuild /\ maxhits \in 1 .. MAXHITS /\ MAXHITS \in Nat \ {0} /\ N_BORS \in Nat \ {0}
  <1>1. AnyBuild /\ maxhits \in 1 .. MAXHITS /\ MAXHITS \in Nat \ {0}
    BY BuildAssumption, MaxHitsAssumption DEF HitsTyped, AnyBuild
  <1> QED
    BY <1>1, DataSizes

LEMMA NothingWritten ==
  ~Written => RowsAreDetections /\ NothingLostBelowLimit /\ CcPowersArePerPol
  BY DEF RowsAreDetections, NothingLostBelowLimit, CcPowersArePerPol

LEMMA FreshBlock ==
  ASSUME NEW n, NEW hit
  PROVE  IsBlock(OutputBlock(n, hit))
  BY DEF IsBlock, OutputBlock

LEMMA HitsInvInit ==
  ASSUME HitsInit
  PROVE  HitsInv
  <1>1. ~Written
    BY DEF HitsInit, Written
  <1>2. IsBlock(block)
    BY FreshBlock DEF HitsInit, Cleared
  <1>3. HitsTyped
    BY <1>2 DEF HitsInit, HitsTyped
  <1>4. BeamsDone
    BY DEF HitsInit, BeamsDone
  <1> QED
    BY <1>1, <1>3, <1>4, NothingWritten DEF HitsInv

LEMMA SameBuild ==
  ASSUME build' = build
  PROVE  BorsIds' = BorsIds /\ Places' = Places /\ Chans' = Chans
  BY DEF N_POLS_PER_BEAM, N_CC, N_BORS, BorsIds, Inputs, Chans, Places

LEMMA NextBlockInv ==
  ASSUME HitsInv, NextBlock
  PROVE  HitsInv'
  <1>1. AnyBuild /\ N_BORS \in Nat \ {0}
    BY TypedBuild DEF HitsInv
  <1>2. /\ build' = build /\ maxhits' = maxhits /\ stage' = "gpu" /\ bors' = 0 /\ hdus' = <<>>
        /\ lines' \in Lines /\ block' \in {Cleared, OutputBlock(maxhits, Old)}
    BY DEF NextBlock
  <1>3. Written' = FALSE
    BY <1>2 DEF Written
  <1>4. lines' \subseteq Places
    <2>1. lines' = {} \/ \E place \in [1 .. MaxLines -> Places] :
                           lines' = {place[n] : n \in 1 .. MaxLines}
      BY <1>2 DEF Lines
    <2> QED
      BY <2>1
  <1>5. IsBlock(block)'
    <2>1. IsBlock(Cleared) /\ IsBlock(OutputBlock(maxhits, Old))
      BY FreshBlock DEF Cleared
    <2>2. IsBlock(block')
      BY <1>2, <2>1
    <2> QED
      BY <1>2, <2>2, SameBuild DEF IsBlock
  <1>6. 0 \in BorsIds /\ BorsIds' = BorsIds /\ Places' = Places
    BY <1>1, <1>2, SameBuild DEF BorsIds
  <1>7. HitsTyped'
    BY <1>2, <1>4, <1>5, <1>6 DEF HitsTyped, HitsInv
  <1>8. BeamsDone'
    BY <1>2 DEF BeamsDone
  <1>9. (RowsAreDetections /\ NothingLostBelowLimit /\ CcPowersArePerPol)'
    BY <1>3 DEF RowsAreDetections, NothingLostBelowLimit, CcPowersArePerPol
  <1> QED
    BY <1>7, <1>8, <1>9 DEF HitsInv

LEMMA SpectroscopyInv ==
  ASSUME HitsInv, Spectroscopy
  PROVE  HitsInv'
  <1>1. AnyBuild /\ maxhits \in 1 .. MAXHITS /\ N_BORS \in Nat \ {0} /\ HitsTyped
    BY TypedBuild DEF HitsInv
  <1>2. /\ stage = "gpu" /\ nchan # 0 /\ spectroscopy(bors) /\ bors' = bors + 1
        /\ stage' = IF bors' < N_BORS THEN "gpu" ELSE "write"
        /\ build' = build /\ maxhits' = maxhits /\ sid_pol' = sid_pol /\ lines' = lines
        /\ nchan' = nchan
    BY DEF Spectroscopy
  <1>3. Same /\ BorsIds' = BorsIds /\ Places' = Places
    BY <1>2, SameBuild DEF Same
  <1>4. bors \in BorsIds /\ bors \in 0 .. N_BORS-1 /\ lines \subseteq Places /\ IsBlock(block)
    BY <1>1, <1>2 DEF HitsTyped, BorsIds
  <1> DEFINE pow == Pow(bors)
             base == compute_baseline(pow)
             indices == find_hits(pow, base)
             hits == [i \in 1 .. Len(indices) |-> Hit(bors, pow, base, indices[i])]
             sums == reduce_power_spectra(pow)
             array == block.hits[bors]
  <1>5. block' = LET arrays == [block EXCEPT !.nhits[bors] = Len(hits),
                                             !.hits[bors] = Overwrite(@, hits)]
                 IN  IF build = "FAST" THEN arrays
                     ELSE [arrays EXCEPT !.cc_pwrs_x[bors] = polX(sums),
                                         !.cc_pwrs_y[bors] = polY(sums)]
    BY <1>2 DEF spectroscopy, Pow
  <1>6. DOMAIN array = 1 .. MAXHITS
    BY <1>4 DEF IsBlock
  <1>7. RightHits(bors, Len(hits), Overwrite(array, hits))
    BY <1>1, <1>4, <1>6, HitsRight
  <1>8. build = "DIBAS" => RightPowers(bors, polX(sums), polY(sums))
    BY <1>1, <1>4, PowersRight
  <1> HIDE DEF pow, base, indices, hits, sums
  <1>9. DOMAIN Overwrite(array, hits) = 1 .. MAXHITS
    BY <1>6 DEF Overwrite
  <1>10. /\ block' = [nhits |-> block'.nhits, hits |-> block'.hits,
                      cc_pwrs_x |-> block'.cc_pwrs_x, cc_pwrs_y |-> block'.cc_pwrs_y]
         /\ block'.nhits = [block.nhits EXCEPT ![bors] = Len(hits)]
         /\ block'.hits = [block.hits EXCEPT ![bors] = Overwrite(array, hits)]
         /\ block'.cc_pwrs_x = IF build = "FAST" THEN block.cc_pwrs_x
                               ELSE [block.cc_pwrs_x EXCEPT ![bors] = polX(sums)]
         /\ block'.cc_pwrs_y = IF build = "FAST" THEN block.cc_pwrs_y
                               ELSE [block.cc_pwrs_y EXCEPT ![bors] = polY(sums)]
    <2>1. block = [nhits |-> block.nhits, hits |-> block.hits,
                   cc_pwrs_x |-> block.cc_pwrs_x, cc_pwrs_y |-> block.cc_pwrs_y]
      BY <1>4 DEF IsBlock
    <2>2. CASE build = "FAST"
      BY <1>5, <2>1, <2>2
    <2>3. CASE build # "FAST"
      BY <1>5, <2>1, <2>3
    <2> QED
      BY <2>2, <2>3
  <1>11. IsBlock(block')
    <2>1. /\ block.nhits = [b \in BorsIds |-> block.nhits[b]]
          /\ block.hits = [b \in BorsIds |-> block.hits[b]]
          /\ block.cc_pwrs_x = [b \in BorsIds |-> block.cc_pwrs_x[b]]
          /\ block.cc_pwrs_y = [b \in BorsIds |-> block.cc_pwrs_y[b]]
          /\ \A b \in BorsIds : DOMAIN block.hits[b] = 1 .. MAXHITS
      BY <1>4 DEF IsBlock
    <2>2. /\ block'.nhits = [b \in BorsIds |-> block'.nhits[b]]
          /\ block'.hits = [b \in BorsIds |-> block'.hits[b]]
          /\ block'.cc_pwrs_x = [b \in BorsIds |-> block'.cc_pwrs_x[b]]
          /\ block'.cc_pwrs_y = [b \in BorsIds |-> block'.cc_pwrs_y[b]]
      BY <1>10, <2>1
    <2>3. \A b \in BorsIds : DOMAIN block'.hits[b] = 1 .. MAXHITS
      <3> SUFFICES ASSUME NEW b \in BorsIds PROVE DOMAIN block'.hits[b] = 1 .. MAXHITS
        OBVIOUS
      <3>1. block'.hits[b] = IF b = bors THEN Overwrite(array, hits) ELSE block.hits[b]
        <4> HIDE DEF array
        <4> QED
          BY <1>10, <2>1
      <3> HIDE DEF array
      <3> QED
        BY <1>9, <2>1, <3>1
    <2> QED
      BY <1>10, <2>2, <2>3 DEF IsBlock
  <1>12. ASSUME NEW b \in 0 .. bors PROVE RightBeam(b, block)'
    <2>1. b \in BorsIds
      BY <1>1, <1>4 DEF BorsIds
    <2>2. /\ DOMAIN block.nhits = BorsIds /\ DOMAIN block.hits = BorsIds
          /\ DOMAIN block.cc_pwrs_x = BorsIds /\ DOMAIN block.cc_pwrs_y = BorsIds
      BY <1>4 DEF IsBlock
    <2>3. CASE b = bors
      <3>1. block'.nhits[b] = Len(hits) /\ block'.hits[b] = Overwrite(array, hits)
        <4> HIDE DEF array
        <4> QED
          BY <1>10, <2>1, <2>2, <2>3
      <3>2. build = "DIBAS" => block'.cc_pwrs_x[b] = polX(sums) /\ block'.cc_pwrs_y[b] = polY(sums)
        BY <1>10, <2>1, <2>2, <2>3
      <3> HIDE DEF array
      <3>3. RightHits(b, block'.nhits[b], block'.hits[b])
        BY <1>7, <2>3, <3>1
      <3>4. build = "DIBAS" => RightPowers(b, block'.cc_pwrs_x[b], block'.cc_pwrs_y[b])
        BY <1>8, <2>3, <3>2
      <3>5. RightHits(b, block.nhits[b], block.hits[b])'
        BY <1>3, <3>3, SameRight
      <3>6. build = "DIBAS" => RightPowers(b, block.cc_pwrs_x[b], block.cc_pwrs_y[b])'
        BY <1>3, <3>4, SameRight
      <3> QED
        BY <1>2, <3>5, <3>6 DEF RightBeam
    <2>4. CASE b # bors
      <3>1. b \in 0 .. bors-1
        BY <1>4, <2>4
      <3>2. RightBeam(b, block)
        BY <1>2, <3>1 DEF HitsInv, BeamsDone
      <3>3. block'.nhits[b] = block.nhits[b] /\ block'.hits[b] = block.hits[b]
        <4> HIDE DEF array
        <4> QED
          BY <1>10, <2>1, <2>2, <2>4
      <3>4. block'.cc_pwrs_x[b] = block.cc_pwrs_x[b] /\ block'.cc_pwrs_y[b] = block.cc_pwrs_y[b]
        BY <1>10, <2>1, <2>2, <2>4
      <3>5. RightHits(b, block.nhits[b], block.hits[b])'
        <4>1. RightHits(b, block'.nhits[b], block'.hits[b])
          BY <3>2, <3>3 DEF RightBeam
        <4> QED
          BY <1>3, <4>1, SameRight
      <3>6. build = "DIBAS" => RightPowers(b, block.cc_pwrs_x[b], block.cc_pwrs_y[b])'
        <4>1. build = "DIBAS" => RightPowers(b, block'.cc_pwrs_x[b], block'.cc_pwrs_y[b])
          BY <3>2, <3>4 DEF RightBeam
        <4> QED
          BY <1>3, <4>1, SameRight
      <3> QED
        BY <1>2, <3>5, <3>6 DEF RightBeam
    <2> QED
      BY <2>3, <2>4
  <1>13. HitsTyped'
    <2>1. IsBlock(block)'
      BY <1>3, <1>11 DEF IsBlock
    <2>2. stage' = "gpu" => bors' \in BorsIds
      BY <1>1, <1>2, <1>4 DEF BorsIds
    <2>3. stage' \in {"next", "gpu", "write"}
      BY <1>2
    <2> QED
      BY <1>1, <1>2, <1>3, <1>4, <2>1, <2>2, <2>3 DEF HitsTyped
  <1>14. BeamsDone'
    <2>1. CASE bors' < N_BORS
      <3>1. stage' = "gpu" /\ bors' - 1 = bors
        BY <1>2, <1>4, <2>1
      <3> QED
        BY <1>12, <3>1 DEF BeamsDone
    <2>2. CASE ~(bors' < N_BORS)
      <3>1. stage' = "write" /\ bors = N_BORS - 1
        BY <1>1, <1>2, <1>4, <2>2
      <3>2. BorsIds' = 0 .. bors
        BY <1>3, <3>1 DEF BorsIds
      <3> QED
        BY <1>12, <3>1, <3>2 DEF BeamsDone
    <2> QED
      BY <2>1, <2>2
  <1>15. (RowsAreDetections /\ NothingLostBelowLimit /\ CcPowersArePerPol)'
    <2>1. stage' # "next"
      BY <1>2
    <2>2. Written' = FALSE
      BY <2>1 DEF Written
    <2> QED
      BY <2>2 DEF RowsAreDetections, NothingLostBelowLimit, CcPowersArePerPol
  <1> QED
    BY <1>13, <1>14, <1>15 DEF HitsInv

LEMMA NoSpectroscopyInv ==
  ASSUME HitsInv, NoSpectroscopy
  PROVE  HitsInv'
  <1>1. /\ stage' = "write" /\ nchan' = 0 /\ build' = build /\ maxhits' = maxhits
        /\ lines' = lines /\ block' = block
    BY DEF NoSpectroscopy
  <1>2. BorsIds' = BorsIds /\ Places' = Places
    BY <1>1, SameBuild
  <1>3. IsBlock(block)'
    BY <1>1, <1>2 DEF HitsInv, HitsTyped, IsBlock
  <1>4. HitsTyped'
    BY <1>1, <1>2, <1>3 DEF HitsInv, HitsTyped
  <1>5. BeamsDone'
    BY <1>1 DEF BeamsDone
  <1>6. Written' = FALSE
    BY <1>1 DEF Written
  <1>7. (RowsAreDetections /\ NothingLostBelowLimit /\ CcPowersArePerPol)'
    BY <1>6 DEF RowsAreDetections, NothingLostBelowLimit, CcPowersArePerPol
  <1> QED
    BY <1>4, <1>5, <1>7 DEF HitsInv

\* Where the table of an input is.
LEMMA TableAt ==
  ASSUME AnyBuild, NEW b \in BorsIds, NEW input \in Inputs
  PROVE  write_hits[b * N_POLS_PER_BEAM + input + 1]
           = [borspol |-> b * N_POLS_PER_BEAM + input,
              NHITS |-> Len(Rows(b, input)), rows |-> Rows(b, input)]
  <1> DEFINE P == N_POLS_PER_BEAM
             k == b * P + input + 1
  <1>1. P \in {1, 2} /\ input \in 0 .. P-1 /\ b \in 0 .. N_BORS-1 /\ N_BORS \in Nat \ {0}
    BY DataSizes DEF Inputs, BorsIds
  <1>2. (k-1) \div P = b /\ (k-1) % P = input /\ k - 1 = b * P + input /\ k \in 1 .. N_BORS * P
    <2>1. CASE P = 1
      <3>1. k - 1 = b /\ input = 0
        BY <1>1, <2>1
      <3> HIDE DEF k
      <3>2. k \in Int /\ (k-1) \div 1 = b /\ (k-1) % 1 = 0
        BY <1>1, <3>1 DEF k
      <3> QED
        BY <1>1, <2>1, <3>1, <3>2
    <2>2. CASE P = 2
      <3>1. k - 1 = 2 * b + input /\ b * P = 2 * b /\ N_BORS * P = 2 * N_BORS /\ k \in Int
        BY <1>1, <2>2
      <3> HIDE DEF k
      <3>2. (2 * b + input) \div 2 = b /\ (2 * b + input) % 2 = input
        BY <1>1, <2>2
      <3>3. k \in 1 .. 2 * N_BORS
        BY <1>1, <2>2, <3>1
      <3> QED
        BY <2>2, <3>1, <3>2, <3>3
    <2> QED
      BY <1>1, <2>1, <2>2
  <1> HIDE DEF k
  <1>3. write_hits[k] =
          LET x == (k-1) \div P
              y == (k-1) % P
          IN  [borspol |-> k-1, NHITS |-> Len(Rows(x, y)), rows |-> Rows(x, y)]
    BY <1>2 DEF write_hits
  <1>4. write_hits[k] = [borspol |-> b * P + input, NHITS |-> Len(Rows(b, input)),
                         rows |-> Rows(b, input)]
    BY <1>2, <1>3
  <1> QED
    BY <1>4 DEF k

LEMMA PowersAt ==
  ASSUME AnyBuild, NEW b \in BorsIds, NEW chan \in Chans
  PROVE  write_ccpwrs[b * N_CC + chan]
           = [POLX |-> block.cc_pwrs_x[b][chan], POLY |-> block.cc_pwrs_y[b][chan]]
  <1> DEFINE n == N_CC
             k == b * n + chan
  <1>1. n \in Nat \ {0} /\ chan \in 0 .. n-1 /\ b \in 0 .. N_BORS-1 /\ N_BORS \in Nat \ {0}
    BY DataSizes DEF Chans, BorsIds
  <1> HIDE DEF n
  <1>2. k = (n * b) + chan /\ k \in Int
    BY <1>1
  <1>3. k \div n = b /\ k % n = chan
    BY <1>1, <1>2, DivModUnique
  <1>4. k \in 0 .. N_BORS * n - 1
    <2>1. n * b >= 0 /\ n * b <= n * (N_BORS - 1) /\ n * b \in Int
      BY <1>1
    <2>2. n * (N_BORS - 1) = N_BORS * n - n /\ N_BORS * n \in Int
      BY <1>1
    <2> HIDE DEF k
    <2> QED
      BY <1>1, <1>2, <2>1, <2>2
  <1> HIDE DEF k
  <1>5. write_ccpwrs[k] = [POLX |-> block.cc_pwrs_x[k \div n][k % n],
                           POLY |-> block.cc_pwrs_y[k \div n][k % n]]
    BY <1>4 DEF write_ccpwrs, n
  <1>6. write_ccpwrs[k] = [POLX |-> block.cc_pwrs_x[b][chan], POLY |-> block.cc_pwrs_y[b][chan]]
    BY <1>3, <1>5
  <1> QED
    BY <1>6 DEF k, n

LEMMA WriteTablesInv ==
  ASSUME HitsInv, WriteTables
  PROVE  HitsInv'
  <1>1. AnyBuild /\ maxhits \in Nat /\ HitsTyped /\ lines \subseteq Places
    BY TypedBuild DEF HitsInv, HitsTyped
  <1>2. /\ stage = "write" /\ stage' = "next" /\ hdus' = write_hits /\ block' = Cleared
        /\ ccpwrs' = IF build = "FAST" THEN <<>> ELSE write_ccpwrs
        /\ build' = build /\ maxhits' = maxhits /\ sid_pol' = sid_pol /\ lines' = lines
        /\ nchan' = nchan
    BY DEF WriteTables
  <1>3. Same /\ BorsIds' = BorsIds /\ Places' = Places /\ Chans' = Chans /\ Inputs' = Inputs
        /\ N_POLS_PER_BEAM' = N_POLS_PER_BEAM /\ N_CC' = N_CC
    <2>1. Same
      BY <1>2 DEF Same
    <2> QED
      BY <2>1, SameSizes
  <1>4. HitsTyped'
    <2>1. IsBlock(Cleared)
      BY FreshBlock DEF Cleared
    <2>2. IsBlock(block)'
      BY <1>2, <1>3, <2>1 DEF IsBlock
    <2> QED
      BY <1>1, <1>2, <1>3, <2>2 DEF HitsTyped
  <1>5. BeamsDone'
    BY <1>2 DEF BeamsDone
  <1>6. CASE nchan = 0
    <2>1. Written' = FALSE
      BY <1>2, <1>6 DEF Written
    <2>2. (RowsAreDetections /\ NothingLostBelowLimit /\ CcPowersArePerPol)'
      BY <2>1 DEF RowsAreDetections, NothingLostBelowLimit, CcPowersArePerPol
    <2> QED
      BY <1>4, <1>5, <2>2 DEF HitsInv
  <1>7. CASE nchan # 0
    <2>1. \A b \in BorsIds : RightBeam(b, block)
      BY <1>2, <1>7 DEF HitsInv, BeamsDone
    <2>2. ASSUME NEW b \in BorsIds
          PROVE  \E r : /\ r = [input \in Inputs |-> Rows(b, input)]
                        /\ RightRows(b, r)' /\ FullRows(b, r)'
      <3>1. PICK r : r = [input \in Inputs |-> Rows(b, input)]
        OBVIOUS
      <3>2. RightRows(b, r) /\ FullRows(b, r)
        <4>1. RightHits(b, block.nhits[b], block.hits[b])
          BY <2>1 DEF RightBeam
        <4> QED
          BY <1>1, <3>1, <4>1, RowsRight
      <3>3. RightRows(b, r)' /\ FullRows(b, r)'
        BY <1>3, <3>2, SameRight
      <3> QED
        BY <3>1, <3>3
    <2>3. ASSUME NEW b \in BorsIds, NEW r, r = [x \in Inputs |-> Rows(b, x)], NEW input \in Inputs
          PROVE  RowsOf(b, input)' = RowSet(r[input]) /\ Table(b, input).NHITS' = Len(r[input])
      <3>1. Table(b, input)' = write_hits[b * N_POLS_PER_BEAM + input + 1]
        BY <1>2, <1>3 DEF Table
      <3>2. Table(b, input)' = [borspol |-> b * N_POLS_PER_BEAM + input,
                                NHITS |-> Len(r[input]), rows |-> r[input]]
        BY <1>1, <2>3, <3>1, TableAt
      <3>3. Table(b, input)'.rows = r[input] /\ Table(b, input)'.NHITS = Len(r[input])
        BY <3>2
      <3>4. RowsOf(b, input)' = {Table(b, input)'.rows[i] : i \in 1 .. Len(Table(b, input)'.rows)}
        BY DEF RowsOf
      <3> QED
        BY <3>3, <3>4 DEF RowSet
    <2>4. RowsAreDetections'
      <3> SUFFICES ASSUME NEW b \in BorsIds, NEW input \in Inputs
                   PROVE  (/\ RowsOf(b, input) \subseteq
                                {Row(p) : p \in {q \in Detections(b) : q.input = input /\ q.fine # 0}}
                           /\ Cardinality(RowsOf(b, input)) = Table(b, input).NHITS)'
        BY <1>3 DEF RowsAreDetections
      <3>1. PICK r : r = [x \in Inputs |-> Rows(b, x)] /\ RightRows(b, r)'
        BY <2>2
      <3>2. RowsOf(b, input)' = RowSet(r[input]) /\ Table(b, input).NHITS' = Len(r[input])
        BY <2>3, <3>1
      <3>3. (/\ RowSet(r[input]) \subseteq
                  {Row(p) : p \in {q \in Detections(b) : q.input = input /\ q.fine # 0}}
             /\ Cardinality(RowSet(r[input])) = Len(r[input]))'
        BY <1>3, <3>1 DEF RightRows
      <3> QED
        BY <3>2, <3>3
    <2>5. NothingLostBelowLimit'
      <3> SUFFICES ASSUME NEW b \in BorsIds
                   PROVE  (LET found == Detections(b)
                               kept  == UNION {RowsOf(b, input) : input \in Inputs}
                               dc    == {p \in found : p.fine = 0}
                           IN  IF Cardinality(found) <= maxhits
                               THEN kept = {Row(p) : p \in found \ dc}
                               ELSE Cardinality(kept) >= maxhits - Cardinality(dc))'
        BY <1>3 DEF NothingLostBelowLimit
      <3>1. PICK r : r = [x \in Inputs |-> Rows(b, x)] /\ FullRows(b, r)'
        BY <2>2
      <3>2. \A input \in Inputs : RowsOf(b, input)' = RowSet(r[input])
        BY <2>3, <3>1
      <3>3. (UNION {RowsOf(b, input) : input \in Inputs})'
              = (UNION {RowSet(r[input]) : input \in Inputs})'
        BY <1>3, <3>2
      <3> QED
        BY <3>1, <3>3 DEF FullRows
    <2>6. CcPowersArePerPol'
      <3> SUFFICES ASSUME build = "DIBAS", NEW b \in BorsIds, NEW chan \in Chans
                   PROVE  (ccpwrs[b * N_CC + chan] = [POLX |-> ChanSum(b, 0, chan),
                                                      POLY |-> ChanSum(b, 1, chan)])'
        BY <1>2, <1>3 DEF CcPowersArePerPol, ChanSum
      <3>1. RightPowers(b, block.cc_pwrs_x[b], block.cc_pwrs_y[b])
        BY <2>1 DEF RightBeam
      <3>2. ccpwrs'[b * N_CC + chan] = [POLX |-> ChanSum(b, 0, chan), POLY |-> ChanSum(b, 1, chan)]
        <4>1. ccpwrs' = write_ccpwrs
          BY <1>2
        <4> QED
          BY <1>1, <3>1, <4>1, PowersAt DEF RightPowers
      <3>3. ChanSum(b, 0, chan)' = ChanSum(b, 0, chan) /\ ChanSum(b, 1, chan)' = ChanSum(b, 1, chan)
        BY <1>3, SameSums
      <3> QED
        BY <1>3, <3>2, <3>3
    <2> QED
      BY <1>4, <1>5, <2>4, <2>5, <2>6 DEF HitsInv
  <1> QED
    BY <1>6, <1>7

LEMMA HitsInvStep ==
  ASSUME HitsInv, [HitsNext]_hits_vars
  PROVE  HitsInv'
  <1>1. CASE UNCHANGED hits_vars
    <2>1. /\ build' = build /\ maxhits' = maxhits /\ sid_pol' = sid_pol /\ lines' = lines
          /\ nchan' = nchan /\ stage' = stage /\ bors' = bors /\ block' = block
          /\ ccpwrs' = ccpwrs /\ hdus' = hdus
      BY <1>1 DEF hits_vars
    <2>2. /\ Same /\ BorsIds' = BorsIds /\ Places' = Places /\ Chans' = Chans /\ Inputs' = Inputs
          /\ N_POLS_PER_BEAM' = N_POLS_PER_BEAM /\ N_CC' = N_CC
      <3>1. Same
        BY <2>1 DEF Same
      <3> QED
        BY <3>1, SameSizes
    <2>3. HitsTyped'
      <3>1. IsBlock(block)'
        BY <2>1, <2>2 DEF HitsInv, HitsTyped, IsBlock
      <3> QED
        BY <2>1, <2>2, <3>1 DEF HitsInv, HitsTyped
    <2>4. BeamsDone'
      <3>1. \A b : RightBeam(b, block) => RightBeam(b, block)'
        <4> SUFFICES ASSUME NEW b, RightBeam(b, block) PROVE RightBeam(b, block)'
          OBVIOUS
        <4>1. RightHits(b, block'.nhits[b], block'.hits[b])
          BY <2>1 DEF RightBeam
        <4>2. build = "DIBAS" => RightPowers(b, block'.cc_pwrs_x[b], block'.cc_pwrs_y[b])
          BY <2>1 DEF RightBeam
        <4>3. RightHits(b, block.nhits[b], block.hits[b])'
          BY <2>2, <4>1, SameRight
        <4>4. build = "DIBAS" => RightPowers(b, block.cc_pwrs_x[b], block.cc_pwrs_y[b])'
          BY <2>2, <4>2, SameRight
        <4> QED
          BY <2>1, <4>3, <4>4 DEF RightBeam
      <3> QED
        BY <2>1, <2>2, <3>1 DEF HitsInv, BeamsDone
    <2>5. /\ Written' <=> Written
          /\ \A b, input : RowsOf(b, input)' = RowsOf(b, input) /\ Table(b, input)' = Table(b, input)
          /\ \A b : Detections(b)' = Detections(b) /\ \A p \in Detections(b) : Row(p)' = Row(p)
      <3>1. \A b, input : Table(b, input)' = Table(b, input)
        BY <2>1, <2>2 DEF Table
      <3>2. \A b, input : RowsOf(b, input)' = RowsOf(b, input)
        BY <3>1 DEF RowsOf
      <3>3. \A b : \A p \in Detections(b) : p \in Places
        BY DEF Detections
      <3> QED
        BY <2>1, <2>2, <3>1, <3>2, <3>3, SameRows DEF Written
    <2>6. RowsAreDetections'
      BY <2>2, <2>5 DEF HitsInv, RowsAreDetections
    <2>7. NothingLostBelowLimit'
      <3> SUFFICES ASSUME Written, NEW b \in BorsIds
                   PROVE  (LET found == Detections(b)
                               kept  == UNION {RowsOf(b, input) : input \in Inputs}
                               dc    == {p \in found : p.fine = 0}
                           IN  IF Cardinality(found) <= maxhits
                               THEN kept = {Row(p) : p \in found \ dc}
                               ELSE Cardinality(kept) >= maxhits - Cardinality(dc))'
        BY <2>2, <2>5 DEF NothingLostBelowLimit
      <3> DEFINE D == Detections(b)
                 kept == UNION {RowsOf(b, input) : input \in Inputs}
                 dc == {p \in D : p.fine = 0}
                 all == {Row(p) : p \in D \ dc}
      <3>1. IF Cardinality(D) <= maxhits THEN kept = all
            ELSE Cardinality(kept) >= maxhits - Cardinality(dc)
        BY DEF HitsInv, NothingLostBelowLimit
      <3>2. D' = D
        BY <2>5
      <3>3. kept' = kept
        BY <2>2, <2>5
      <3>4. dc' = dc
        BY <3>2
      <3>5. all' = all
        <4>1. \A p \in D : Row(p)' = Row(p)
          BY <2>5
        <4> HIDE DEF D
        <4> QED
          BY <3>2, <4>1
      <3> HIDE DEF D, kept, dc, all
      <3>6. IF Cardinality(D') <= maxhits' THEN kept' = all'
            ELSE Cardinality(kept') >= maxhits' - Cardinality(dc')
        BY <2>1, <3>1, <3>2, <3>3, <3>4, <3>5
      <3> QED
        BY <3>6 DEF D, kept, dc, all
    <2>8. CcPowersArePerPol'
      <3> SUFFICES ASSUME Written, build = "DIBAS", NEW b \in BorsIds, NEW chan \in Chans
                   PROVE  (ccpwrs[b * N_CC + chan] = [POLX |-> ChanSum(b, 0, chan),
                                                      POLY |-> ChanSum(b, 1, chan)])'
        BY <2>1, <2>2, <2>5 DEF CcPowersArePerPol, ChanSum
      <3>1. ccpwrs[b * N_CC + chan] = [POLX |-> ChanSum(b, 0, chan), POLY |-> ChanSum(b, 1, chan)]
        BY DEF HitsInv, CcPowersArePerPol, ChanSum
      <3>2. ChanSum(b, 0, chan)' = ChanSum(b, 0, chan) /\ ChanSum(b, 1, chan)' = ChanSum(b, 1, chan)
        BY <2>2, SameSums
      <3> QED
        BY <2>1, <2>2, <3>1, <3>2
    <2> QED
      BY <2>3, <2>4, <2>6, <2>7, <2>8 DEF HitsInv
  <1> QED
    BY <1>1, NextBlockInv, SpectroscopyInv, NoSpectroscopyInv, WriteTablesInv DEF HitsNext

\* The invariant behind the theorems below: between the beams of a block, those
\* that the GPU thread is done with have their hits and their powers in the
\* output block, and what it finds there of an earlier block never counts.
THEOREM HitsInvHolds == HitsSpec => []HitsInv
  <1>1. HitsInit => HitsInv
    BY HitsInvInit
  <1>2. HitsInv /\ [HitsNext]_hits_vars => HitsInv'
    BY HitsInvStep
  <1> QED
    BY <1>1, <1>2, PTL DEF HitsSpec

\* The rows of the hit tables are detections of the block, in the table's beam
\* and polarisation and with their own powers, each once: find_hits(),
\* write_hits().
THEOREM RowsHold == HitsSpec => []RowsAreDetections
  <1>1. HitsInv => RowsAreDetections
    BY DEF HitsInv
  <1> QED
    BY <1>1, HitsInvHolds, PTL

\* No detection is lost below the limit, and above it the tables are filled.
THEOREM NothingLostHolds == HitsSpec => []NothingLostBelowLimit
  <1>1. HitsInv => NothingLostBelowLimit
    BY DEF HitsInv
  <1> QED
    BY <1>1, HitsInvHolds, PTL

\* The columns of CCPWRS are the polarisations, in the DIBAS build.
THEOREM CcPowersHold == HitsSpec => []CcPowersArePerPol
  <1>1. HitsInv => CcPowersArePerPol
    BY DEF HitsInv
  <1> QED
    BY <1>1, HitsInvHolds, PTL
=============================================================================
