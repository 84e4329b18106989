------------------------------- MODULE ObsGBT -------------------------------
(***************************************************************************)
(* The observatory's status at Green Bank on its way to the output files.  *)
(* The daemon (src/src/s6_observatory_gbt.c) takes turns: it polls a mysql *)
(* table and reads the CLEO socket, and copies both into redis.  For every *)
(* block of hits the output thread reads redis key by key                  *)
(* (src/src/s6_obs_data_gbt.cpp), decides whether either source stands     *)
(* still, whether the operator has switched recording off, and whether a   *)
(* new file is due, and tells redis the name of a new file.                *)
(*                                                                         *)
(* Of the hundreds of keys those that decide something are kept: the MJD   *)
(* of each source, as an age; IFV1TNCI, the circuit in use; and WEBCNTRL.  *)
(* RUNALWYS is set and the test mode off; what they change is in module    *)
(* Etfits.                                                                 *)
(***************************************************************************)
EXTENDS Integers

CONSTANTS
  MysqlTolerance, CleoTolerance,   \* mjd lags allowed, in ticks of the clock
  Circuits,                        \* what IFV1TNCI may be
  MaxChanges,                      \* bound: operators' acts, and faults
  MaxErrors                        \* bound: commands to redis that fail

ASSUME ToleranceAssumption == MysqlTolerance \in Nat /\ CleoTolerance \in Nat
ASSUME BoundAssumption     == MaxChanges \in Nat /\ MaxErrors \in Nat

Sources == {"mysql", "cleo"}
Tolerance(s) == IF s = "mysql" THEN MysqlTolerance ELSE CleoTolerance
TooOld(s) == Tolerance(s) + 1
Unset == -1                          \* a key that redis does not have
NoCircuit == "none"
LagCountTolerance == 2               \* .._mjd_long_lag_count_tolerance

\* What one recv from the socket brings: lines of the heartbeat and of the
\* circuit, or no known line, which is also how the end of the connection looks.
Messages == SUBSET {"Thump", "IFV1TNCI"}

VARIABLES
  (* the observatory *)
  circuit,      \* the circuit in use
  running,      \* the sources that still send
  row,          \* the mysql row: is it new to the daemon, and then the age of its MJD
  errors,       \* commands to redis that failed
  changes,
  (* the daemon *)
  daemon,       \* "connect", "mysql" or "cleo", what it does next, or "dead"
  (* redis *)
  MJD,          \* MJD[s]: the age of MJD and of Thump, or Unset
  IFV1TNCI, WEBCNTRL,
  (* the output thread *)
  pc,           \* the command of the query that is next, or where the block is
  lag_count,    \* lag_count[s]: .._mjd_long_lag_count
  gbtstatus,    \* [IFV1TNCI, WEBCNTRL] as read last
  idle,         \* idle_redis_error: the query failed
  prior_receiver,
  file,         \* [open, circuit]: etf's file, circuit being that of its blocks
  announced,    \* current_filename is the file's name
  late          \* history: blocks recorded by good queries since the switch is off

observatory == <<circuit, running, row, changes>>
keys == <<MJD, IFV1TNCI, WEBCNTRL>>
output == <<prior_receiver, file, announced, late>>
query == <<lag_count, gbtstatus, idle, errors>>
vars == <<observatory, daemon, keys, pc, query, output>>

Init ==
  /\ circuit \in Circuits
  /\ running = Sources
  /\ row = [age |-> 0, new |-> TRUE]
  /\ errors = 0
  /\ changes = 0
  /\ daemon = "connect"
  /\ MJD = [s \in Sources |-> Unset]
  /\ IFV1TNCI = NoCircuit
  /\ WEBCNTRL = 1
  /\ pc = "mysql"
  /\ lag_count = [s \in Sources |-> 0]
  /\ gbtstatus = [IFV1TNCI |-> NoCircuit, WEBCNTRL |-> 0]
  /\ idle = FALSE
  /\ prior_receiver = NoCircuit
  /\ file = [open |-> FALSE, circuit |-> NoCircuit]
  /\ announced = TRUE
  /\ late = 0

-----------------------------------------------------------------------------
(* The observatory, its operators and the clock (external).                *)

May == changes < MaxChanges /\ changes' = changes + 1

ChangeCircuit ==
  /\ May
  /\ circuit' \in Circuits \ {circuit}
  /\ UNCHANGED <<running, row, daemon, keys, pc, query, output>>

\* The web switch; the history counts what is recorded after it.
Switch ==
  /\ May
  /\ WEBCNTRL' = 1 - WEBCNTRL
  /\ late' = 0
  /\ UNCHANGED <<circuit, running, row, daemon, MJD, IFV1TNCI, pc,
                 query, prior_receiver, file, announced>>

GoSilent(s) ==
  /\ s \in running
  /\ May
  /\ running' = running \ {s}
  /\ UNCHANGED <<circuit, row, daemon, keys, pc, query, output>>

UpdateRow ==
  /\ "mysql" \in running
  /\ row' = [age |-> 0, new |-> TRUE]
  /\ UNCHANGED <<circuit, running, changes, daemon, keys, pc, query, output>>

OlderBy1(age, s) == IF age \in {Unset, TooOld(s)} THEN age ELSE age + 1

Tick ==
  /\ row' = IF row.new THEN [row EXCEPT !.age = OlderBy1(@, "mysql")] ELSE row
  /\ MJD' = [s \in Sources |-> OlderBy1(MJD[s], s)]
  /\ UNCHANGED <<circuit, running, changes, daemon, IFV1TNCI, WEBCNTRL, pc,
                 query, output>>

-----------------------------------------------------------------------------
(* The daemon.  A row that is not new sends it back to the top of its loop; *)
(* the socket blocks it, as O_NONBLOCK was set on another descriptor.       *)

ConnectCleo ==
  /\ daemon = "connect"
  /\ daemon' = "mysql"
  /\ UNCHANGED <<observatory, keys, pc, query, output>>

PollMysql ==
  /\ daemon = "mysql"
  /\ row.new
  /\ row' = [age |-> 0, new |-> FALSE]
  /\ MJD' = [MJD EXCEPT !["mysql"] = row.age]
  /\ daemon' = "cleo"
  /\ UNCHANGED <<circuit, running, changes,
                 IFV1TNCI, WEBCNTRL, pc, query, output>>

\* A heartbeat may have waited in the socket for any time (age).
RecvCleo(lines, age) ==
  /\ daemon = "cleo"
  /\ "cleo" \in running
  /\ MJD' = IF "Thump" \in lines THEN [MJD EXCEPT !["cleo"] = age] ELSE MJD
  /\ IFV1TNCI' = IF "IFV1TNCI" \in lines THEN circuit ELSE IFV1TNCI
  /\ daemon' = IF lines = {} THEN "connect" ELSE "mysql"
  /\ UNCHANGED <<circuit, running, row, changes, WEBCNTRL, pc, query, output>>

\* recv returns an error, each a fault of the connection, and is taken for
\* "nothing right now".
RecvFails ==
  /\ daemon = "cleo"
  /\ May
  /\ daemon' = "mysql"
  /\ UNCHANGED <<circuit, running, row, keys, pc, query, output>>

\* It exits when it cannot connect or mysql fails.  Started again, it takes
\* the row for new, though it be the one in redis.
DaemonDies ==
  /\ daemon # "dead"
  /\ May
  /\ daemon' = "dead"
  /\ UNCHANGED <<circuit, running, row, keys, pc, query, output>>

DaemonRestarts ==
  /\ daemon = "dead"
  /\ May
  /\ daemon' = "connect"
  /\ row' = IF row.new THEN row ELSE [age |-> MJD["mysql"], new |-> TRUE]
  /\ UNCHANGED <<circuit, running, keys, pc, query, output>>

-----------------------------------------------------------------------------
(* The output thread's query, get_obs_gbt_info_from_redis.  ok is FALSE    *)
(* for a command that fails; a failed connection is like a failure of the  *)
(* first command.                                                          *)

Command(ok) ==
  /\ ok \/ errors < MaxErrors
  /\ errors' = IF ok THEN errors ELSE errors + 1

\* Mutant: an error does not keep the keys after the switch from being read.
Fail_GoesOn ==
  /\ idle' = TRUE
  /\ pc' = "ADC"
  /\ gbtstatus' = [gbtstatus EXCEPT !.WEBCNTRL = 1]

\* After the first error no other key is read, but WEBCNTRL gets its default.
Fail ==
  /\ idle' = TRUE
  /\ pc' = "block"
  /\ gbtstatus' = [gbtstatus EXCEPT !.WEBCNTRL = 1]

Lags(s) == MJD[s] > Tolerance(s)

\* Mutant: an error is followed by a new count.
Count_Forgets(s) == (lag_count[s] + 1) % (LagCountTolerance + 2)

\* Occurrences of a long lag; past the tolerance they are one.
Count(s) == IF lag_count[s] > LagCountTolerance THEN lag_count[s] ELSE lag_count[s] + 1

IsStatic(s) == Lags(s) /\ Count(s) > LagCountTolerance

\* A lag is tolerated twice in a row.  An error of the first check is also
\* taken for "all good" by the second.
CheckLag(s, ok, next) ==
  /\ pc = s
  /\ Command(ok)
  /\ LET read == ok /\ MJD[s] # Unset
     IN  /\ lag_count' = [lag_count EXCEPT
              ![s] = IF read /\ Lags(s) THEN Count(s) ELSE 0,
              !["cleo"] = IF s = "mysql" THEN (IF read /\ ~IsStatic(s) THEN @ ELSE 0)
                          ELSE IF read /\ Lags(s) THEN Count(s) ELSE 0]
         /\ IF read /\ ~IsStatic(s)
              THEN pc' = next /\ UNCHANGED <<gbtstatus, idle>>
              ELSE Fail
  /\ UNCHANGED <<observatory, daemon, keys, output>>

\* The keys of the mysql row and of CLEO, hundreds of them, one after the other;
\* an error ends it at any of them, and IFV1TNCI is the one that decides anything.
ReadCircuit(ok) ==
  /\ pc = "IFV1TNCI"
  /\ Command(ok)
  /\ IF ok /\ IFV1TNCI # NoCircuit
       THEN /\ gbtstatus' = [gbtstatus EXCEPT !.IFV1TNCI = IFV1TNCI]
            /\ pc' = "WEBCNTRL"
            /\ UNCHANGED idle
       ELSE Fail
  /\ UNCHANGED <<observatory, daemon, keys, lag_count, output>>

\* Mutant: "default to on" comes after the key is read.
SwitchRead_Default == 1
SwitchRead == WEBCNTRL

\* The keys after the switch are those of a script that samples the ADCs: an
\* error there (rest) leaves what was read of the switch.
ReadSwitch(ok, rest) ==
  /\ pc = "WEBCNTRL"
  /\ Command(ok /\ rest)
  /\ IF ok
       THEN /\ gbtstatus' = [gbtstatus EXCEPT !.WEBCNTRL = SwitchRead]
            /\ pc' = "block"
            /\ idle' = ~rest
       ELSE Fail
  /\ UNCHANGED <<observatory, daemon, keys, lag_count, output>>

-----------------------------------------------------------------------------
(* The output thread's block.                                              *)

\* Mutant: only the switch is looked at.
ChangesFile_SwitchOnly == gbtstatus.WEBCNTRL = 0
ChangesFile ==
  \/ gbtstatus.IFV1TNCI # prior_receiver
  \/ gbtstatus.WEBCNTRL = 0

Closed == [open |-> FALSE, circuit |-> NoCircuit]

\* The block goes to the file, a new one if none is open (with another name, if
\* it is not created within the same second).
WriteBlock ==
  LET kept == IF ChangesFile THEN Closed ELSE file
      writes == gbtstatus.WEBCNTRL # 0
  IN  /\ pc = "block"
      /\ prior_receiver' = gbtstatus.IFV1TNCI
      /\ file' = IF writes /\ ~kept.open
                   THEN [open |-> TRUE, circuit |-> gbtstatus.IFV1TNCI] ELSE kept
      /\ announced' = (announced /\ ~(writes /\ ~kept.open))
      /\ late' = IF writes /\ ~idle /\ WEBCNTRL = 0 /\ late < 2 THEN late + 1 ELSE late
      /\ pc' = IF announced' THEN "mysql" ELSE "announce"
      /\ UNCHANGED <<observatory, daemon, keys, query>>

\* put_obs_gbt_info_to_redis, for a new file name: without a connection the
\* thread ends, but whether the name is set is not looked at.
Announce(connected, set) ==
  /\ pc = "announce"
  /\ Command(connected /\ set)
  /\ announced' = TRUE
  /\ pc' = IF connected THEN "mysql" ELSE "exited"
  /\ UNCHANGED <<observatory, daemon, keys, lag_count, gbtstatus, idle,
                 prior_receiver, file, late>>

OutputThread ==
  \/ \E ok \in BOOLEAN :
       \/ CheckLag("mysql", ok, "cleo") \/ CheckLag("cleo", ok, "IFV1TNCI")
       \/ ReadCircuit(ok) \/ (\E rest \in BOOLEAN : ReadSwitch(ok, rest))
       \/ (\E set \in BOOLEAN : Announce(ok, set))
  \/ WriteBlock

Next ==
  \/ ChangeCircuit
  \/ Switch
  \/ \E s \in Sources : GoSilent(s)
  \/ UpdateRow
  \/ Tick
  \/ ConnectCleo
  \/ PollMysql
  \/ \E lines \in Messages, age \in 0 .. TooOld("cleo") : RecvCleo(lines, age)
  \/ RecvFails
  \/ DaemonDies
  \/ DaemonRestarts
  \/ OutputThread

\* Blocks keep coming to the output thread, and time passes.
Spec == Init /\ [][Next]_vars /\ WF_vars(OutputThread) /\ WF_vars(Tick)

-----------------------------------------------------------------------------
(* Properties.                                                             *)

\* The variables keep to their types.
TypeOK ==
  /\ circuit \in Circuits /\ running \subseteq Sources
  /\ row \in [age : 0 .. TooOld("mysql"), new : BOOLEAN]
  /\ errors \in 0 .. MaxErrors /\ changes \in 0 .. MaxChanges
  /\ daemon \in {"connect", "mysql", "cleo", "dead"}
  /\ \A s \in Sources : MJD[s] \in {Unset} \cup 0 .. TooOld(s)
  /\ IFV1TNCI \in Circuits \cup {NoCircuit} /\ WEBCNTRL \in {0, 1}
  /\ announced \in BOOLEAN
  /\ pc \in {"mysql", "cleo", "IFV1TNCI", "WEBCNTRL", "block", "announce", "exited"}
  /\ lag_count \in [Sources -> 0 .. LagCountTolerance + 1]
  /\ gbtstatus \in [IFV1TNCI : Circuits \cup {NoCircuit}, WEBCNTRL : {0, 1}]
  /\ prior_receiver \in Circuits \cup {NoCircuit}
  /\ file \in [open : BOOLEAN, circuit : Circuits \cup {NoCircuit}]
  /\ idle \in BOOLEAN /\ late \in 0 .. 2

\* A file holds the blocks of one circuit only, even though a query that fails
\* half way leaves half of what it read and the block is recorded all the same.
FileIsOfCircuit ==
  file.open /\ pc \in {"announce", "mysql"} => file.circuit = gbtstatus.IFV1TNCI

\* "Web based operator off/on switch": once it is off, no more than the block
\* of the query under way is recorded, as long as queries succeed.  (A query
\* that fails before it reads the switch takes it for on.)
OffTakesEffect == late <= 1

\* When a source falls silent for good, or the daemon dies, every query ends
\* in an error, and this although each source's silence blocks the copying of
\* the other, once no command to redis fails any more (each failure restarts
\* the count).
StaticIsNoticed ==
  <>[](running # Sources \/ daemon = "dead") => <>[](idle \/ pc = "exited")
=============================================================================
