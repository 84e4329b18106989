-------------------------------- MODULE ObsAO --------------------------------
(***************************************************************************)
(* How the receiver in focus at Arecibo reaches the output thread: the     *)
(* observatory daemon (src/src/s6_observatory_ao.c) copies each block of   *)
(* the telescope's status (AGC, PNT, ...) into redis as it arrives, and    *)
(* the output thread queries redis for every block of hits                 *)
(* (src/src/s6_obs_data.cpp), one command per group, and decides from ages *)
(* and values which receiver it records.  The two run at the same time and *)
(* nothing ties the groups of one query together.                          *)
(*                                                                         *)
(* Times are kept as ages, up to the first that is too old, and of AGCTIME *)
(* whether it moved since the reader last saw it: nothing else is used.    *)
(* The daemon's options for replay, test and files, and AGCLST, which the  *)
(* reader asks for and this daemon never writes, are left out; the groups  *)
(* the scripts write are one read (AuxOk).                                 *)
(***************************************************************************)
EXTENDS Integers

CONSTANTS
  Groups,              \* the groups of status looked at (an instance may have
                       \*   fewer than AllGroups)
  ScramLagTolerance,   \* in seconds
  Settings,            \* the settings of the telescope: the conditions that hold
  MaxChanges           \* bound: changes of the setting, groups falling silent
                       \*   and restarts of the daemon

\* What decides on the receiver, by the group that reports it: for ALFA, for
\* 327 MHz, and the gregorian dome as the signal's source.
Conditions(g) ==
  CASE g = "ALFASHM" -> {"bias"}
    [] g = "IF1"     -> {"syn1_327"}
    [] g = "IF2"     -> {"alfon", "syn2_327", "gregorian"}
    [] g = "TT"      -> {"turret_alfa", "turret_327"}
    [] OTHER         -> {}

AllGroups == {"AGC", "PNT", "ALFASHM", "IF1", "IF2", "TT"}
Dated == Groups \ {"PNT"}              \* the groups whose age is looked at
Deriving == Groups \cap {"PNT", "AGC", "ALFASHM"}
AllConditions == UNION {Conditions(g) : g \in Groups}

ASSUME GroupAssumption   == Groups \subseteq AllGroups /\ "AGC" \in Groups
ASSUME SettingAssumption == Settings \subseteq SUBSET AllConditions
ASSUME BoundAssumption   == ScramLagTolerance \in Nat /\ MaxChanges \in Nat

\* The reader's commands, one per group and one for what is derived, and the
\* order in which it sends them.
Commands == Groups \cup {"DERIVED"}
Place == [AGC |-> 1, PNT |-> 2, ALFASHM |-> 3, IF1 |-> 4, IF2 |-> 5, TT |-> 6,
          DERIVED |-> 7]
LastPlace == Place["DERIVED"]
StaticLimit == 2                  \* no_time_change_limit
TooOld == ScramLagTolerance + 1
NotSet == [age |-> TooOld, holds |-> {}]

VARIABLES
  tel,        \* the telescope's setting
  silent,     \* the groups it sends no more
  changes,
  since,      \* history: ticks since a condition last held
  (* the daemon *)
  daemon,     \* "read", "derive" or "dead"
  got,        \* got_pnt, got_agc, got_alfashm
  (* redis *)
  isset,      \* the keys that exist
  redis,      \* redis[g]: age of its xxxSTIME, and the conditions it reports
  moved,      \* AGCTIME differs from prior_agc_time
  (* the output thread *)
  pos,        \* the place of the query's last command; 0 between queries
  scram,      \* what the query read so far
  no_time_change_count,
  receiver,   \* as of the last good query
  idle,       \* idle_redis_error: the last query failed
  stale,      \* history: queries answered since AGCTIME moved in redis
  exited      \* the program ended

telescope == <<tel, silent, changes, since>>
database == <<isset, redis, moved>>
reader == <<pos, scram, no_time_change_count, receiver, idle, exited>>
vars == <<telescope, daemon, got, database, reader, stale>>

Older(age) == IF age = TooOld THEN TooOld ELSE age + 1

Init ==
  /\ tel \in Settings
  /\ silent = {}
  /\ changes = 0
  /\ since = [c \in AllConditions |-> IF c \in tel THEN 0 ELSE TooOld]
  /\ daemon = "read"
  /\ got = {}
  /\ isset = {}
  /\ redis = [g \in Dated |-> NotSet]
  /\ moved = FALSE
  /\ pos = 0
  /\ scram = [g \in Dated |-> NotSet]
  /\ no_time_change_count = 0
  /\ receiver = "none"
  /\ idle = FALSE
  /\ stale = 0
  /\ exited = FALSE

-----------------------------------------------------------------------------
(* The telescope and the clock (external).                                 *)

Move ==
  /\ changes < MaxChanges
  /\ changes' = changes + 1
  /\ tel' \in Settings \ {tel}
  /\ since' = [c \in AllConditions |-> IF c \in tel' THEN 0 ELSE since[c]]
  /\ UNCHANGED <<silent, daemon, got, database, reader, stale>>

FallSilent(g) ==
  /\ changes < MaxChanges
  /\ changes' = changes + 1
  /\ silent' = silent \cup {g}
  /\ UNCHANGED <<tel, since, daemon, got, database, reader, stale>>

\* A group that is sent is sent every second, and a daemon that runs keeps up.
Tick ==
  /\ daemon = "dead" \/ \A g \in Dated \ silent : redis[g].age = 0
  /\ since' = [c \in AllConditions |-> IF c \in tel THEN 0 ELSE Older(since[c])]
  /\ redis' = [g \in Dated |-> [redis[g] EXCEPT !.age = Older(@)]]
  /\ scram' = [g \in Dated |-> [scram[g] EXCEPT !.age = Older(@)]]
  /\ UNCHANGED <<tel, silent, changes, daemon, got, isset, moved, pos,
                 no_time_change_count, receiver, idle, exited, stale>>

-----------------------------------------------------------------------------
(* The daemon.                                                             *)

Stored(g) == [age |-> 0, holds |-> tel \cap Conditions(g)]

\* One block of status is read and its group set; an AGC block brings another
\* AGCTIME unless the encoders stand still.
read_scram(g) ==
  /\ daemon = "read"
  /\ g \notin silent
  /\ isset' = isset \cup {g}
  /\ redis' = IF g \in Dated THEN [redis EXCEPT ![g] = Stored(g)] ELSE redis
  /\ \/ UNCHANGED <<moved, stale>>
     \/ g = "AGC" /\ moved' = TRUE /\ stale' = 0
  /\ got' = got \cup ({g} \cap Deriving)
  /\ daemon' = IF got' = Deriving /\ "DERIVED" \notin isset THEN "derive" ELSE "read"
  /\ UNCHANGED <<telescope, reader>>

\* A second command sets what is derived from the three of them.  (Only that
\* the key exists is kept, so setting it again is no step here.)
Derive ==
  /\ daemon = "derive"
  /\ isset' = isset \cup {"DERIVED"}
  /\ daemon' = "read"
  /\ UNCHANGED <<telescope, got, redis, moved, reader, stale>>

\* "bad scram read": the daemon exits; or it is killed between its commands.
DaemonDies ==
  /\ daemon # "dead"
  /\ daemon' = "dead"
  /\ UNCHANGED <<telescope, got, database, reader, stale>>

\* Started again it knows of no group; redis still has them all.
DaemonRestarts ==
  /\ daemon = "dead"
  /\ changes < MaxChanges
  /\ changes' = changes + 1
  /\ daemon' = "read"
  /\ got' = {}
  /\ UNCHANGED <<tel, silent, since, database, reader, stale>>

-----------------------------------------------------------------------------
(* The output thread's query, get_obs_info_from_redis.                     *)

\* The query ends in an error: the receiver stays what it was, and the only
\* effect is the idle flag.
Fail ==
  /\ pos' = 0
  /\ scram' = [g \in Dated |-> NotSet]
  /\ idle' = TRUE
  /\ UNCHANGED <<receiver, stale>>

\* No connection, or no reply in time: exit(1), or a null reply used.
Exit ==
  /\ ~exited
  /\ exited' = TRUE
  /\ pos' = 0
  /\ scram' = [g \in Dated |-> NotSet]
  /\ no_time_change_count' = 0
  /\ receiver' = "none"
  /\ idle' = FALSE
  /\ stale' = 0
  /\ UNCHANGED <<telescope, daemon, got, database>>

\* Mutant: an error of this command is taken for a change of AGCTIME.
CountStatic_ErrorResets(ok) == IF ok /\ ~moved THEN no_time_change_count + 1 ELSE 0

\* "make sure redis is being updated": the consecutive queries that found the
\* AGCTIME of the one before.  After an error scram still has that one.
CountStatic(ok) ==
  IF ~ok \/ ~moved THEN no_time_change_count + 1 ELSE 0

\* Mutant: one more is allowed.
IsStatic_Late(count) == count > StaticLimit
IsStatic(count) == count >= StaticLimit

Smaller(i, j) == IF i < j THEN i ELSE j

\* The first command of a query; ok is FALSE for an error reply.
ReadAGC(ok) ==
  LET good == ok /\ "AGC" \in isset
      count == CountStatic(good)
  IN  /\ pos = 0
      /\ ~exited
      /\ no_time_change_count' = Smaller(count, StaticLimit + 1)
      /\ moved' = (moved /\ ~good)
      /\ IF good /\ ~IsStatic(count)
           THEN /\ pos' = 1
                /\ scram' = [scram EXCEPT !["AGC"] = redis["AGC"]]
                /\ UNCHANGED <<receiver, idle, stale>>
           ELSE Fail
      /\ UNCHANGED <<telescope, daemon, got, isset, redis, exited>>

IsNext(g) ==
  /\ Place[g] > pos
  /\ \A h \in Commands : Place[h] > pos => Place[h] >= Place[g]

\* The next command, skipped like all after it when one has failed.
ReadNext(g, ok) ==
  /\ pos # 0
  /\ IsNext(g)
  /\ IF ok /\ g \in isset
       THEN /\ pos' = Place[g]
            /\ scram' = IF g \in Dated THEN [scram EXCEPT ![g] = redis[g]] ELSE scram
            /\ UNCHANGED <<receiver, idle, stale>>
       ELSE Fail
  /\ UNCHANGED <<telescope, daemon, got, database, no_time_change_count, exited>>

Holds(conditions) == conditions \cap AllConditions \subseteq UNION {scram[g].holds : g \in Dated}

\* Mutant: the ages are not looked at.
is_alfa_enabled_AnyAge == Holds({"bias", "alfon", "turret_alfa"})

is_alfa_enabled ==
  /\ \A g \in Dated : scram[g].age <= ScramLagTolerance
  /\ Holds({"bias", "alfon", "turret_alfa"})

is_327_enabled == Holds({"turret_327", "syn1_327", "syn2_327"})
is_source_gregorian == Holds({"gregorian"})

Receiver ==
  IF is_source_gregorian /\ is_alfa_enabled THEN "ALFA"
  ELSE IF is_source_gregorian /\ is_327_enabled THEN "327MHz" ELSE "none"

\* The groups of the scripts are read, and the receiver is decided.
Answer(AuxOk) ==
  /\ pos = LastPlace
  /\ IF AuxOk
       THEN /\ receiver' = Receiver
            /\ idle' = FALSE
            /\ stale' = Smaller(stale + 1, StaticLimit + 2)
            /\ pos' = 0
            /\ scram' = [g \in Dated |-> NotSet]
       ELSE Fail
  /\ UNCHANGED <<telescope, daemon, got, database, no_time_change_count, exited>>

Query ==
  \E ok \in BOOLEAN : \/ ReadAGC(ok)
                     \/ \E g \in Commands : ReadNext(g, ok)
                     \/ Answer(ok)

Next ==
  \/ Move
  \/ \E g \in Groups : FallSilent(g) \/ read_scram(g)
  \/ Tick
  \/ Derive
  \/ DaemonDies
  \/ DaemonRestarts
  \/ Exit
  \/ Query

\* The output thread queries for every block, and blocks keep coming.
Spec == Init /\ [][Next]_vars /\ WF_vars(Query)

-----------------------------------------------------------------------------
Entries == [age : 0 .. TooOld, holds : SUBSET AllConditions]

\* The variables keep to their types.
TypeOK ==
  /\ tel \in Settings /\ silent \subseteq Groups /\ changes \in 0 .. MaxChanges
  /\ since \in [AllConditions -> 0 .. TooOld]
  /\ daemon \in {"read", "derive", "dead"}
  /\ got \subseteq Deriving
  /\ stale \in 0 .. StaticLimit + 2
  /\ isset \subseteq Groups \cup {"DERIVED"}
  /\ redis \in [Dated -> Entries] /\ scram \in [Dated -> Entries]
  /\ moved \in BOOLEAN
  /\ pos \in 0 .. LastPlace
  /\ no_time_change_count \in 0 .. StaticLimit + 1
  /\ receiver \in {"none", "ALFA", "327MHz"}
  /\ idle \in BOOLEAN /\ exited \in BOOLEAN

\* When the answer is ALFA every condition for it has held at the
\* telescope within the tolerance, whatever died, fell silent or moved in the
\* meantime (though not all of them at once: the groups are of different
\* moments; and for 327 MHz nothing bounds the age).
AlfaIsRecent ==
  [][pos = LastPlace /\ pos' = 0 /\ ~idle' /\ ~exited' /\ receiver' = "ALFA" =>
       \A c \in {"bias", "alfon", "turret_alfa", "gregorian"} \cap AllConditions :
         since[c] <= ScramLagTolerance]_vars

\* Once AGCTIME stands still in redis no more than StaticLimit answers are
\* given, and that of the query under way, through errors and restarts of the
\* daemon, which leaves its last values in redis.
StaleAnswersBounded == stale <= StaticLimit + 1

\* "redis database is static": a daemon that is gone for good leads to nothing
\* but errors, however complete what it left in redis is.
DeadDaemonIsNoticed == <>[](daemon = "dead") => <>[](idle \/ exited)
=============================================================================
