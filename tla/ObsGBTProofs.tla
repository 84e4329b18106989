---------------------------- MODULE ObsGBTProofs ----------------------------
(***************************************************************************)
(* What ObsGBT keeps true for all circuits and tolerances, and any number  *)
(* of operators' acts and failed commands: every file is of one circuit,   *)
(* and the switch takes effect with the next query that succeeds.          *)
(***************************************************************************)
EXTENDS ObsGBT, TLAPS

\* The file and the circuit that decides when it ends: prior_receiver is what
\* the last query left in gbtstatus, and the circuit of the file's blocks.
FileInv ==
  /\ file.open => file.circuit = prior_receiver
  /\ pc \in {"announce", "mysql"} => prior_receiver = gbtstatus.IFV1TNCI

\* The switch: once a block was recorded too late, a good query that has come
\* to its end has read the switch after it went off.
SwitchInv ==
  /\ late <= 1
  /\ WEBCNTRL = 0 /\ late = 1 /\ pc = "block" /\ ~idle => gbtstatus.WEBCNTRL = 0

\* A row that was copied is in redis.
RowInv ==
  /\ MJD \in [Sources -> Int]
  /\ ~row.new => MJD["mysql"] # Unset

GbtInv == TypeOK /\ RowInv /\ FileInv /\ SwitchInv

-----------------------------------------------------------------------------
(* The initial states, and the clock's arithmetic.                         *)

LEMMA Tolerances ==
  /\ \A s \in Sources : Tolerance(s) \in Nat /\ TooOld(s) = Tolerance(s) + 1
  /\ Unset \in Int /\ \A s \in Sources : Unset \notin 0 .. TooOld(s)
  /\ "mysql" \in Sources /\ "cleo" \in Sources
  BY ToleranceAssumption DEF Sources, Tolerance, TooOld, Unset

LEMMA InitInv == Init => GbtInv
  <1> SUFFICES ASSUME Init PROVE GbtInv
    OBVIOUS
  <1>1. TypeOK
    <2>1. row \in [age : 0 .. TooOld("mysql"), new : BOOLEAN]
      BY Tolerances DEF Init
    <2>2. /\ errors \in 0 .. MaxErrors /\ changes \in 0 .. MaxChanges
          /\ circuit \in Circuits /\ running \subseteq Sources
      BY BoundAssumption DEF Init
    <2>3. /\ lag_count \in [Sources -> 0 .. LagCountTolerance + 1]
          /\ late \in 0 .. 2
      BY DEF Init, LagCountTolerance
    <2>4. /\ announced \in BOOLEAN /\ idle \in BOOLEAN
          /\ file \in [open : BOOLEAN, circuit : Circuits \cup {NoCircuit}]
          /\ gbtstatus \in [IFV1TNCI : Circuits \cup {NoCircuit}, WEBCNTRL : {0, 1}]
      BY DEF Init
    <2>5. QED
      BY <2>1, <2>2, <2>3, <2>4 DEF Init, TypeOK
  <1>2. RowInv /\ FileInv /\ SwitchInv
    BY Tolerances DEF Init, RowInv, FileInv, SwitchInv
  <1>3. QED
    BY <1>1, <1>2 DEF GbtInv

\* An age grows by a tick up to a bound; a key that is not there has none.
LEMMA Ages ==
  ASSUME NEW s \in Sources, NEW age \in {Unset} \cup 0 .. TooOld(s)
  PROVE  /\ OlderBy1(age, s) \in {Unset} \cup 0 .. TooOld(s)
         /\ age # Unset => OlderBy1(age, s) \in 0 .. TooOld(s)
         /\ OlderBy1(age, s) = Unset <=> age = Unset
         /\ age \in Int
  BY Tolerances DEF OlderBy1, Unset

-----------------------------------------------------------------------------
(* The observatory and the daemon.                                         *)

\* What the output thread keeps for itself.
own == <<pc, query, output>>

LEMMA OwnKeeps ==
  ASSUME FileInv, SwitchInv, UNCHANGED <<own, WEBCNTRL>>
  PROVE  FileInv' /\ SwitchInv'
  BY DEF FileInv, SwitchInv, own, query, output

\* The types of what is the output thread's own, and of the rest.
OwnType ==
  /\ errors \in 0 .. MaxErrors
  /\ announced \in BOOLEAN
  /\ pc \in {"mysql", "cleo", "IFV1TNCI", "WEBCNTRL", "block", "announce", "exited"}
  /\ lag_count \in [Sources -> 0 .. LagCountTolerance + 1]
  /\ gbtstatus \in [IFV1TNCI : Circuits \cup {NoCircuit}, WEBCNTRL : {0, 1}]
  /\ prior_receiver \in Circuits \cup {NoCircuit}
  /\ file \in [open : BOOLEAN, circuit : Circuits \cup {NoCircuit}]
  /\ idle \in BOOLEAN
  /\ late \in 0 .. 2

OtherType ==
  /\ circuit \in Circuits
  /\ running \subseteq Sources
  /\ row \in [age : 0 .. TooOld("mysql"), new : BOOLEAN]
  /\ changes \in 0 .. MaxChanges
  /\ daemon \in {"connect", "mysql", "cleo", "dead"}
  /\ \A s \in Sources : MJD[s] \in {Unset} \cup 0 .. TooOld(s)
  /\ IFV1TNCI \in Circuits \cup {NoCircuit}
  /\ WEBCNTRL \in {0, 1}

LEMMA TypeSplits == TypeOK <=> OwnType /\ OtherType
  BY DEF TypeOK, OwnType, OtherType

LEMMA OwnTypeKeeps ==
  ASSUME OwnType, UNCHANGED own
  PROVE  OwnType'
  BY DEF OwnType, own, query, output

LEMMA ObservatoryStep ==
  ASSUME OtherType, RowInv,
         \/ ChangeCircuit
         \/ \E s \in Sources : GoSilent(s)
         \/ UpdateRow
         \/ Tick
  PROVE  OtherType' /\ RowInv' /\ UNCHANGED <<own, WEBCNTRL>>
  <1>1. CASE ChangeCircuit
    BY <1>1, BoundAssumption
       DEF ChangeCircuit, May, OtherType, RowInv, own, keys, Sources
  <1>2. ASSUME NEW s \in Sources, GoSilent(s)
        PROVE  OtherType' /\ RowInv' /\ UNCHANGED <<own, WEBCNTRL>>
    BY <1>2, BoundAssumption DEF GoSilent, May, OtherType, RowInv, own, keys
  <1>3. CASE UpdateRow
    BY <1>3, Tolerances DEF UpdateRow, OtherType, RowInv, own, keys
  <1>4. CASE Tick
    <2>1. /\ row' = IF row.new THEN [row EXCEPT !.age = OlderBy1(@, "mysql")] ELSE row
          /\ MJD' = [s \in Sources |-> OlderBy1(MJD[s], s)]
          /\ UNCHANGED <<circuit, running, changes, daemon, IFV1TNCI, WEBCNTRL, own>>
      BY <1>4 DEF Tick, own
    <2>2. OlderBy1(row.age, "mysql") \in 0 .. TooOld("mysql")
      <3>1. row.age \in 0 .. TooOld("mysql")
        BY DEF OtherType
      <3>2. QED
        BY <3>1, Ages, Tolerances
    <2>3. row' \in [age : 0 .. TooOld("mysql"), new : BOOLEAN] /\ row'.new = row.new
      BY <2>1, <2>2 DEF OtherType
    <2>4. ASSUME NEW s \in Sources
          PROVE  /\ OlderBy1(MJD[s], s) \in {Unset} \cup 0 .. TooOld(s)
                 /\ OlderBy1(MJD[s], s) \in Int
                 /\ OlderBy1(MJD[s], s) = Unset => MJD[s] = Unset
      <3>1. MJD[s] \in {Unset} \cup 0 .. TooOld(s)
        BY DEF OtherType
      <3> DEFINE older == OlderBy1(MJD[s], s)
      <3>2. older \in {Unset} \cup 0 .. TooOld(s) /\ (older = Unset => MJD[s] = Unset)
        BY <3>1, Ages
      <3> HIDE DEF older
      <3>3. older \in Int
        BY <3>2, Tolerances
      <3>4. QED
        BY <3>2, <3>3 DEF older
    <2>5. OtherType'
      <3>1. \A s \in Sources : MJD'[s] \in {Unset} \cup 0 .. TooOld(s)
        BY <2>1, <2>4
      <3>2. QED
        BY <2>1, <2>3, <3>1 DEF OtherType
    <2>6. RowInv'
      <3>1. MJD' \in [Sources -> Int]
        BY <2>1, <2>4
      <3>2. MJD'["mysql"] = Unset => MJD["mysql"] = Unset
        BY <2>1, <2>4, Tolerances
      <3>3. QED
        BY <2>3, <3>1, <3>2 DEF RowInv
    <2>7. QED
      BY <2>1, <2>5, <2>6
  <1>5. QED
    BY <1>1, <1>2, <1>3, <1>4

LEMMA DaemonStep ==
  ASSUME OtherType, RowInv,
         \/ ConnectCleo
         \/ PollMysql
         \/ \E lines \in Messages, age \in 0 .. TooOld("cleo") : RecvCleo(lines, age)
         \/ RecvFails
         \/ DaemonDies
         \/ DaemonRestarts
  PROVE  OtherType' /\ RowInv' /\ UNCHANGED <<own, WEBCNTRL>>
  <1>1. CASE ConnectCleo
    BY <1>1 DEF ConnectCleo, OtherType, RowInv, own, keys, observatory
  <1>2. CASE PollMysql
    <2>1. /\ row' = [age |-> 0, new |-> FALSE]
          /\ MJD' = [MJD EXCEPT !["mysql"] = row.age]
          /\ daemon' = "cleo"
          /\ UNCHANGED <<circuit, running, changes, IFV1TNCI, WEBCNTRL, own>>
      BY <1>2 DEF PollMysql, own
    <2>2. row.age \in 0 .. TooOld("mysql") /\ row.age \in Int /\ row.age # Unset
      BY Tolerances DEF OtherType
    <2>3. /\ MJD' \in [Sources -> Int]
          /\ MJD'["mysql"] = row.age
          /\ \A s \in Sources : s # "mysql" => MJD'[s] = MJD[s]
      BY <2>1, <2>2, Tolerances DEF RowInv
    <2>4. OtherType'
      <3>1. \A s \in Sources : MJD'[s] \in {Unset} \cup 0 .. TooOld(s)
        BY <2>2, <2>3 DEF OtherType
      <3>2. row' \in [age : 0 .. TooOld("mysql"), new : BOOLEAN]
        BY <2>1, Tolerances
      <3>3. QED
        BY <2>1, <3>1, <3>2 DEF OtherType
    <2>5. RowInv'
      BY <2>2, <2>3 DEF RowInv
    <2>6. QED
      BY <2>1, <2>4, <2>5
  <1>3. ASSUME NEW lines \in Messages, NEW age \in 0 .. TooOld("cleo"), RecvCleo(lines, age)
        PROVE  OtherType' /\ RowInv' /\ UNCHANGED <<own, WEBCNTRL>>
    <2>1. /\ MJD' = IF "Thump" \in lines THEN [MJD EXCEPT !["cleo"] = age] ELSE MJD
          /\ IFV1TNCI' \in {circuit, IFV1TNCI}
          /\ daemon' \in {"connect", "mysql"}
          /\ UNCHANGED <<circuit, running, row, changes, WEBCNTRL, own>>
      BY <1>3 DEF RecvCleo, own
    <2>2. /\ MJD' \in [Sources -> Int]
          /\ MJD'["cleo"] \in {age, MJD["cleo"]}
          /\ MJD'["mysql"] = MJD["mysql"]
      BY <2>1, Tolerances DEF RowInv
    <2>3. \A s \in Sources : MJD'[s] \in {Unset} \cup 0 .. TooOld(s)
      BY <2>2 DEF OtherType, Sources
    <2>4. OtherType'
      BY <2>1, <2>3 DEF OtherType
    <2>5. RowInv'
      BY <2>1, <2>2 DEF RowInv
    <2>6. QED
      BY <2>1, <2>4, <2>5
  <1>0. CASE RecvFails
    BY <1>0, BoundAssumption DEF RecvFails, May, OtherType, RowInv, own, keys
  <1>4. CASE DaemonDies
    BY <1>4, BoundAssumption DEF DaemonDies, May, OtherType, RowInv, own, keys
  <1>5. CASE DaemonRestarts
    <2>1. /\ row' = IF row.new THEN row ELSE [age |-> MJD["mysql"], new |-> TRUE]
          /\ daemon' = "connect"
          /\ changes < MaxChanges /\ changes' = changes + 1
          /\ UNCHANGED <<circuit, running, MJD, IFV1TNCI, WEBCNTRL, own>>
      BY <1>5 DEF DaemonRestarts, May, own, keys
    <2>2. ~row.new => MJD["mysql"] \in 0 .. TooOld("mysql")
      BY Tolerances DEF OtherType, RowInv
    <2>3. row' \in [age : 0 .. TooOld("mysql"), new : BOOLEAN] /\ row'.new
      BY <2>1, <2>2 DEF OtherType
    <2>4. changes' \in 0 .. MaxChanges
      BY <2>1, BoundAssumption DEF OtherType
    <2>5. OtherType'
      BY <2>1, <2>3, <2>4 DEF OtherType
    <2>6. RowInv'
      BY <2>1, <2>3 DEF RowInv
    <2>7. QED
      BY <2>1, <2>5, <2>6
  <1>6. QED
    BY <1>0, <1>1, <1>2, <1>3, <1>4, <1>5

LEMMA SwitchStep ==
  ASSUME GbtInv, Switch
  PROVE  GbtInv'
  <1> USE DEF GbtInv
  <1>1. OwnType'
    BY TypeSplits DEF OwnType, Switch, query
  <1>2. OtherType'
    BY TypeSplits, BoundAssumption DEF OtherType, Switch, May
  <1>3. RowInv'
    BY DEF RowInv, Switch
  <1>4. FileInv'
    BY DEF FileInv, Switch, query
  <1>5. SwitchInv'
    BY DEF SwitchInv, Switch
  <1>6. TypeOK'
    BY <1>1, <1>2, TypeSplits DEF TypeOK, OwnType, OtherType
  <1>7. QED
    BY <1>3, <1>4, <1>5, <1>6

-----------------------------------------------------------------------------
(* The query.  Wherever it ends, gbtstatus has a circuit and a switch, and *)
(* no file is touched before the block.                                    *)

\* What a command of the query leaves alone.
others == <<observatory, daemon, keys>>

LEMMA OthersKeep ==
  ASSUME OtherType, RowInv, UNCHANGED others
  PROVE  OtherType' /\ RowInv'
  BY DEF OtherType, RowInv, others, observatory, keys

LEMMA CommandType ==
  ASSUME errors \in 0 .. MaxErrors, NEW ok \in BOOLEAN, Command(ok)
  PROVE  errors' \in 0 .. MaxErrors
  BY BoundAssumption DEF Command

LEMMA CountType ==
  ASSUME OwnType, NEW s \in Sources
  PROVE  Count(s) \in 0 .. LagCountTolerance + 1
  BY DEF OwnType, Count, LagCountTolerance

\* A step of the query before its end: what follows concerns the output
\* thread's own state only.
QueryStep ==
  /\ pc \in {"mysql", "cleo", "IFV1TNCI", "WEBCNTRL"}
  /\ pc' \in {"cleo", "IFV1TNCI", "WEBCNTRL", "block"}
  /\ errors' \in 0 .. MaxErrors
  /\ lag_count' \in [Sources -> 0 .. LagCountTolerance + 1]
  /\ gbtstatus' \in [IFV1TNCI : Circuits \cup {NoCircuit}, WEBCNTRL : {0, 1}]
  /\ idle' \in BOOLEAN
  /\ pc' = "block" => idle' \/ gbtstatus'.WEBCNTRL = WEBCNTRL
  /\ UNCHANGED <<others, output>>

LEMMA QueryStepInv ==
  ASSUME GbtInv, QueryStep
  PROVE  GbtInv'
  <1> USE DEF GbtInv
  <1>1. OwnType'
    BY TypeSplits DEF OwnType, QueryStep, output
  <1>2. OtherType' /\ RowInv'
    BY TypeSplits, OthersKeep DEF QueryStep
  <1>3. FileInv'
    BY DEF FileInv, QueryStep, output
  <1>4. SwitchInv'
    BY DEF SwitchInv, QueryStep, output, others, keys
  <1>5. TypeOK'
    BY <1>1, <1>2 DEF TypeOK, OwnType, OtherType
  <1>6. QED
    BY <1>2, <1>3, <1>4, <1>5

\* A query that fails: the switch is taken for on, the circuit stays.
LEMMA FailStep ==
  ASSUME OwnType, Fail
  PROVE  /\ pc' = "block" /\ idle'
         /\ gbtstatus' \in [IFV1TNCI : Circuits \cup {NoCircuit}, WEBCNTRL : {0, 1}]
  BY DEF OwnType, Fail

LEMMA CheckLagStep ==
  ASSUME OwnType, NEW s \in Sources, NEW ok \in BOOLEAN,
         NEW next \in {"cleo", "IFV1TNCI"}, CheckLag(s, ok, next)
  PROVE  QueryStep
  <1> DEFINE read == ok /\ MJD[s] # Unset
  <1>1. /\ pc = s /\ Command(ok) /\ UNCHANGED <<others, output>>
        /\ lag_count' = [lag_count EXCEPT
              ![s] = IF read /\ Lags(s) THEN Count(s) ELSE 0,
              !["cleo"] = IF s = "mysql" THEN (IF read /\ ~IsStatic(s) THEN @ ELSE 0)
                          ELSE IF read /\ Lags(s) THEN Count(s) ELSE 0]
        /\ IF read /\ ~IsStatic(s)
             THEN pc' = next /\ UNCHANGED <<gbtstatus, idle>>
             ELSE Fail
    BY DEF CheckLag, others
  <1> HIDE DEF read
  <1>2. errors' \in 0 .. MaxErrors
    BY <1>1, CommandType DEF OwnType
  <1>3. lag_count' \in [Sources -> 0 .. LagCountTolerance + 1]
    <2>1. Count(s) \in 0 .. LagCountTolerance + 1 /\ 0 \in 0 .. LagCountTolerance + 1
      BY CountType DEF LagCountTolerance
    <2>2. QED
      BY <1>1, <2>1 DEF OwnType, Sources
  <1>4. pc \in {"mysql", "cleo"}
    BY <1>1 DEF Sources
  <1>5. CASE read /\ ~IsStatic(s)
    BY <1>1, <1>2, <1>3, <1>4, <1>5 DEF QueryStep, OwnType
  <1>6. CASE ~(read /\ ~IsStatic(s))
    <2>1. /\ pc' = "block" /\ idle'
          /\ gbtstatus' \in [IFV1TNCI : Circuits \cup {NoCircuit}, WEBCNTRL : {0, 1}]
      BY <1>1, <1>6, FailStep
    <2>2. idle' \in BOOLEAN
      BY <1>1, <1>6 DEF Fail
    <2>3. QED
      BY <1>1, <1>2, <1>3, <1>4, <2>1, <2>2 DEF QueryStep
  <1>7. QED
    BY <1>5, <1>6

LEMMA ReadCircuitStep ==
  ASSUME OwnType, OtherType, NEW ok \in BOOLEAN, ReadCircuit(ok)
  PROVE  QueryStep
  <1>1. /\ pc = "IFV1TNCI" /\ Command(ok) /\ UNCHANGED <<others, output, lag_count>>
    BY DEF ReadCircuit, others
  <1>2. errors' \in 0 .. MaxErrors
    BY <1>1, CommandType DEF OwnType
  <1>3. lag_count' \in [Sources -> 0 .. LagCountTolerance + 1]
    BY <1>1 DEF OwnType
  <1>4. CASE ok /\ IFV1TNCI # NoCircuit
    <2>1. /\ gbtstatus' = [gbtstatus EXCEPT !.IFV1TNCI = IFV1TNCI]
          /\ pc' = "WEBCNTRL" /\ idle' = idle
      BY <1>4 DEF ReadCircuit
    <2>2. gbtstatus' \in [IFV1TNCI : Circuits \cup {NoCircuit}, WEBCNTRL : {0, 1}]
      BY <2>1 DEF OwnType, OtherType
    <2>3. idle' \in BOOLEAN
      BY <2>1 DEF OwnType
    <2>4. QED
      BY <1>1, <1>2, <1>3, <2>1, <2>2, <2>3 DEF QueryStep
  <1>5. CASE ~(ok /\ IFV1TNCI # NoCircuit)
    <2>1. Fail
      BY <1>5 DEF ReadCircuit
    <2>2. idle' \in BOOLEAN
      BY <2>1 DEF Fail
    <2>3. QED
      BY <1>1, <1>2, <1>3, <2>1, <2>2, FailStep DEF QueryStep
  <1>6. QED
    BY <1>4, <1>5

LEMMA ReadSwitchStep ==
  ASSUME OwnType, OtherType, NEW ok \in BOOLEAN, NEW rest \in BOOLEAN, ReadSwitch(ok, rest)
  PROVE  QueryStep
  <1>1. /\ pc = "WEBCNTRL" /\ Command(ok /\ rest) /\ UNCHANGED <<others, output, lag_count>>
    BY DEF ReadSwitch, others
  <1>2. errors' \in 0 .. MaxErrors
    BY <1>1, BoundAssumption DEF OwnType, Command
  <1>3. lag_count' \in [Sources -> 0 .. LagCountTolerance + 1]
    BY <1>1 DEF OwnType
  <1>4. CASE ok
    <2>1. /\ gbtstatus' = [gbtstatus EXCEPT !.WEBCNTRL = WEBCNTRL]
          /\ pc' = "block" /\ idle' = ~rest
      BY <1>4 DEF ReadSwitch, SwitchRead
    <2>2. /\ gbtstatus' \in [IFV1TNCI : Circuits \cup {NoCircuit}, WEBCNTRL : {0, 1}]
          /\ gbtstatus'.WEBCNTRL = WEBCNTRL
      BY <2>1 DEF OwnType, OtherType
    <2>3. idle' \in BOOLEAN
      BY <2>1
    <2>4. QED
      BY <1>1, <1>2, <1>3, <2>1, <2>2, <2>3 DEF QueryStep
  <1>5. CASE ~ok
    <2>1. Fail
      BY <1>5 DEF ReadSwitch
    <2>2. idle' \in BOOLEAN
      BY <2>1 DEF Fail
    <2>3. QED
      BY <1>1, <1>2, <1>3, <2>1, <2>2, FailStep DEF QueryStep
  <1>6. QED
    BY <1>4, <1>5

-----------------------------------------------------------------------------
(* The block.                                                              *)

LEMMA WriteBlockStep ==
  ASSUME GbtInv, WriteBlock
  PROVE  GbtInv'
  <1> USE DEF GbtInv
  <1> DEFINE kept == IF ChangesFile THEN Closed ELSE file
             writes == gbtstatus.WEBCNTRL # 0
  <1>1. /\ pc = "block"
        /\ prior_receiver' = gbtstatus.IFV1TNCI
        /\ file' = IF writes /\ ~kept.open
                     THEN [open |-> TRUE, circuit |-> gbtstatus.IFV1TNCI] ELSE kept
        /\ announced' \in BOOLEAN
        /\ late' = IF writes /\ ~idle /\ WEBCNTRL = 0 /\ late < 2 THEN late + 1 ELSE late
        /\ pc' \in {"mysql", "announce"}
        /\ UNCHANGED <<others, query>>
    BY DEF WriteBlock, others
  <1>2. /\ late \in 0 .. 2
        /\ gbtstatus \in [IFV1TNCI : Circuits \cup {NoCircuit}, WEBCNTRL : {0, 1}]
        /\ file \in [open : BOOLEAN, circuit : Circuits \cup {NoCircuit}]
    BY DEF TypeOK
  <1>3. /\ kept \in [open : BOOLEAN, circuit : Circuits \cup {NoCircuit}]
        /\ kept.open => kept.circuit = gbtstatus.IFV1TNCI
    BY <1>2 DEF Closed, ChangesFile, FileInv
  <1> HIDE DEF kept
  <1>4. /\ file' \in [open : BOOLEAN, circuit : Circuits \cup {NoCircuit}]
        /\ file'.open => file'.circuit = gbtstatus.IFV1TNCI
    <2>1. CASE writes /\ ~kept.open
      BY <1>1, <1>2, <2>1
    <2>2. CASE ~(writes /\ ~kept.open)
      BY <1>1, <1>3, <2>2
    <2>3. QED
      BY <2>1, <2>2
  <1>5. FileInv'
    BY <1>1, <1>4 DEF FileInv, query
  <1>6. late' \in 0 .. 1
    <2>1. CASE writes /\ ~idle /\ WEBCNTRL = 0
      <3>1. late # 1
        BY <1>1, <2>1 DEF SwitchInv
      <3>2. late = 0
        BY <1>2, <3>1 DEF SwitchInv
      <3>3. QED
        BY <1>1, <2>1, <3>2
    <2>2. CASE ~(writes /\ ~idle /\ WEBCNTRL = 0)
      BY <1>1, <1>2, <2>2 DEF SwitchInv
    <2>3. QED
      BY <2>1, <2>2
  <1>7. SwitchInv'
    BY <1>1, <1>6 DEF SwitchInv
  <1>8. OtherType' /\ RowInv'
    BY <1>1, TypeSplits, OthersKeep
  <1>9. OwnType'
    <2>1. OwnType
      BY TypeSplits
    <2>2. UNCHANGED <<lag_count, gbtstatus, idle, errors>>
      BY <1>1 DEF query
    <2>3. QED
      BY <1>1, <1>2, <1>4, <1>6, <2>1, <2>2 DEF OwnType
  <1>10. TypeOK'
    BY <1>8, <1>9 DEF TypeOK, OwnType, OtherType
  <1>11. QED
    BY <1>5, <1>7, <1>8, <1>10

LEMMA AnnounceStep ==
  ASSUME GbtInv, NEW connected \in BOOLEAN, NEW set \in BOOLEAN, Announce(connected, set)
  PROVE  GbtInv'
  <1> USE DEF GbtInv
  <1>1. /\ pc = "announce" /\ Command(connected /\ set)
        /\ announced' = TRUE
        /\ pc' \in {"mysql", "exited"}
        /\ UNCHANGED <<others, lag_count, gbtstatus, idle, prior_receiver, file, late>>
    BY DEF Announce, others
  <1>2. errors' \in 0 .. MaxErrors
    BY <1>1, BoundAssumption DEF TypeOK, Command
  <1>3. announced' \in BOOLEAN
    BY <1>1
  <1>4. OwnType'
    BY <1>1, <1>2, <1>3, TypeSplits DEF OwnType
  <1>5. OtherType' /\ RowInv'
    BY <1>1, TypeSplits, OthersKeep
  <1>6. FileInv'
    BY <1>1 DEF FileInv
  <1>7. SwitchInv'
    BY <1>1 DEF SwitchInv
  <1>8. TypeOK'
    BY <1>4, <1>5 DEF TypeOK, OwnType, OtherType
  <1>9. QED
    BY <1>5, <1>6, <1>7, <1>8

-----------------------------------------------------------------------------
(* The theorems.                                                           *)

LEMMA StepInv == GbtInv /\ [Next]_vars => GbtInv'
  <1> SUFFICES ASSUME GbtInv, [Next]_vars PROVE GbtInv'
    OBVIOUS
  <1>1. OwnType /\ OtherType /\ RowInv /\ FileInv /\ SwitchInv
    BY TypeSplits DEF GbtInv
  <1>2. ASSUME OtherType', RowInv', UNCHANGED <<own, WEBCNTRL>> PROVE GbtInv'
    <2>1. OwnType' /\ FileInv' /\ SwitchInv'
      BY <1>1, <1>2, OwnTypeKeeps, OwnKeeps
    <2>2. TypeOK'
      BY <1>2, <2>1 DEF TypeOK, OwnType, OtherType
    <2>3. QED
      BY <1>2, <2>1, <2>2 DEF GbtInv
  <1>3. CASE ChangeCircuit \/ (\E s \in Sources : GoSilent(s)) \/ UpdateRow \/ Tick
    BY <1>1, <1>2, <1>3, ObservatoryStep
  <1>4. CASE \/ ConnectCleo \/ PollMysql \/ RecvFails \/ DaemonDies \/ DaemonRestarts
             \/ \E lines \in Messages, age \in 0 .. TooOld("cleo") : RecvCleo(lines, age)
    BY <1>1, <1>2, <1>4, DaemonStep
  <1>5. CASE Switch
    BY <1>5, SwitchStep
  <1>6. CASE OutputThread
    <2>1. ASSUME NEW ok \in BOOLEAN, CheckLag("mysql", ok, "cleo") PROVE GbtInv'
      BY <1>1, <2>1, CheckLagStep, QueryStepInv, Tolerances
    <2>2. ASSUME NEW ok \in BOOLEAN, CheckLag("cleo", ok, "IFV1TNCI") PROVE GbtInv'
      BY <1>1, <2>2, CheckLagStep, QueryStepInv, Tolerances
    <2>3. ASSUME NEW ok \in BOOLEAN, ReadCircuit(ok) PROVE GbtInv'
      BY <1>1, <2>3, ReadCircuitStep, QueryStepInv
    <2>4. ASSUME NEW ok \in BOOLEAN, NEW rest \in BOOLEAN, ReadSwitch(ok, rest) PROVE GbtInv'
      BY <1>1, <2>4, ReadSwitchStep, QueryStepInv
    <2>5. ASSUME NEW ok \in BOOLEAN, NEW set \in BOOLEAN, Announce(ok, set) PROVE GbtInv'
      BY <2>5, AnnounceStep
    <2>6. CASE WriteBlock
      BY <2>6, WriteBlockStep
    <2>7. QED
      BY <1>6, <2>1, <2>2, <2>3, <2>4, <2>5, <2>6 DEF OutputThread
  <1>7. CASE UNCHANGED vars
    BY <1>1, <1>2, <1>7 DEF vars, own, OtherType, RowInv, observatory, keys
  <1>8. QED
    BY <1>3, <1>4, <1>5, <1>6, <1>7 DEF Next

LEMMA Invariance == Spec => []GbtInv
  BY InitInv, StepInv, PTL DEF Spec

\* Whatever sources fall silent, daemons die and commands fail, ages, counters
\* and what the query reads keep to their types: in particular a row that is
\* sent to redis again has an age.
THEOREM GbtTypeCorrect == Spec => []TypeOK
  <1>1. GbtInv => TypeOK
    BY DEF GbtInv
  <1>2. QED
    BY <1>1, Invariance, PTL

\* No file mixes the blocks of two circuits, wherever the queries fail.
THEOREM FilesOfOneCircuit == Spec => []FileIsOfCircuit
  <1>1. GbtInv => FileIsOfCircuit
    BY DEF GbtInv, FileInv, FileIsOfCircuit
  <1>2. QED
    BY <1>1, Invariance, PTL

\* After the operator's switch goes off good queries let through at most one
\* more block, the one whose query was under way.
THEOREM OffHolds == Spec => []OffTakesEffect
  <1>1. GbtInv => OffTakesEffect
    BY DEF GbtInv, SwitchInv, OffTakesEffect
  <1>2. QED
    BY <1>1, Invariance, PTL
=============================================================================
