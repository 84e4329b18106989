----------------------------- MODULE ObsAOProofs -----------------------------
(***************************************************************************)
(* Theorems about module ObsAO: the types, how many answers a database     *)
(* that stands still can give, and how recent the evidence for ALFA is.    *)
(***************************************************************************)
EXTENDS ObsAO, TLAPS

\* A condition that an entry reports has held since the entry was made: it
\* cannot have ended longer ago than the entry is old.
Evidence(entry) == \A c \in entry.holds : since[c] <= entry.age

\* So do all entries in redis and in what the query has read, although they
\* were made, and read, at different moments.
EvidenceInv ==
  /\ TypeOK
  /\ \A c \in tel : since[c] = 0
  /\ \A g \in Dated : Evidence(redis[g]) /\ Evidence(scram[g])

\* The query under way is an answer still to be given.  When AGCTIME has moved
\* and the reader has not seen it, at most one answer, that of the query it
\* moved in, was given since; when the reader has seen it, one more than its
\* count of standing times; and a query that goes on has counted at most one.
StaleInv ==
  /\ TypeOK
  /\ pos = 0 => /\ moved => stale <= 1
                /\ stale <= no_time_change_count + 2
                /\ stale <= StaticLimit + 1
  /\ pos # 0 => /\ moved => stale = 0
                /\ stale <= no_time_change_count + 1
                /\ stale <= StaticLimit

-----------------------------------------------------------------------------
(* The types.                                                              *)

LEMMA Ages ==
  /\ ScramLagTolerance \in Nat /\ TooOld = ScramLagTolerance + 1
  /\ \A age \in 0 .. TooOld : Older(age) \in 0 .. TooOld
  /\ \A a, b \in 0 .. TooOld : a <= b => Older(a) <= Older(b)
  BY BoundAssumption DEF TooOld, Older

LEMMA EntryTypes ==
  /\ [g \in Dated |-> NotSet] \in [Dated -> Entries]
  /\ \A g \in Groups : Conditions(g) \subseteq AllConditions
  /\ \A g \in Groups : tel \in Settings => Stored(g) \in Entries
  /\ \A entry \in Entries : [entry EXCEPT !.age = Older(@)] \in Entries
  <1>1. NotSet \in Entries
    BY Ages DEF NotSet, Entries
  <1>2. \A g \in Groups : Conditions(g) \subseteq AllConditions
    BY DEF AllConditions
  <1>3. \A g \in Groups : tel \in Settings => Stored(g) \in Entries
    BY <1>2, Ages DEF Stored, Entries
  <1>4. \A entry \in Entries : [entry EXCEPT !.age = Older(@)] \in Entries
    BY Ages DEF Entries
  <1> QED
    BY <1>1, <1>2, <1>3, <1>4

LEMMA GroupTypes ==
  /\ Dated \subseteq Groups /\ "AGC" \in Dated
  /\ \A g \in Commands : Place[g] \in 1 .. LastPlace
  /\ LastPlace = 7
  BY GroupAssumption DEF Dated, Commands, Place, LastPlace, AllGroups

LEMMA TypeInit == Init => TypeOK
  <1> SUFFICES ASSUME Init PROVE TypeOK
    OBVIOUS
  <1>1. since \in [AllConditions -> 0 .. TooOld]
    BY Ages DEF Init
  <1>2. redis \in [Dated -> Entries] /\ scram \in [Dated -> Entries]
    BY EntryTypes DEF Init
  <1>3. /\ changes \in 0 .. MaxChanges /\ stale \in 0 .. StaticLimit + 2
        /\ pos \in 0 .. LastPlace /\ no_time_change_count \in 0 .. StaticLimit + 1
    BY GroupTypes, BoundAssumption DEF Init, StaticLimit
  <1> QED
    BY <1>1, <1>2, <1>3 DEF Init, TypeOK

LEMMA TypeStep == TypeOK /\ [Next]_vars => TypeOK'
  <1> SUFFICES ASSUME TypeOK, [Next]_vars PROVE TypeOK'
    OBVIOUS
  <1> USE DEF TypeOK, telescope, database, reader
  <1>1. CASE Move
    <2>1. since' \in [AllConditions -> 0 .. TooOld]
      BY <1>1, Ages DEF Move
    <2> QED
      BY <1>1, <2>1, BoundAssumption DEF Move
  <1>2. ASSUME NEW g \in Groups, FallSilent(g) PROVE TypeOK'
    BY <1>2, BoundAssumption DEF FallSilent
  <1>3. ASSUME NEW g \in Groups, read_scram(g) PROVE TypeOK'
    <2>1. redis' \in [Dated -> Entries]
      BY <1>3, EntryTypes DEF read_scram
    <2>2. moved' \in BOOLEAN /\ stale' \in 0 .. StaticLimit + 2
      <3>1. CASE UNCHANGED <<moved, stale>>
        BY <3>1
      <3>2. CASE moved' = TRUE /\ stale' = 0
        BY <3>2 DEF StaticLimit
      <3> QED
        BY <1>3, <3>1, <3>2 DEF read_scram
    <2>3. isset' \subseteq Groups \cup {"DERIVED"} /\ got' \subseteq Deriving
      BY <1>3 DEF read_scram
    <2>4. daemon' \in {"read", "derive", "dead"}
      BY <1>3 DEF read_scram
    <2>5. UNCHANGED <<telescope, reader>>
      BY <1>3 DEF read_scram
    <2> QED
      BY <2>1, <2>2, <2>3, <2>4, <2>5
  <1>4. CASE Tick
    <2>1. since' \in [AllConditions -> 0 .. TooOld]
      BY <1>4, Ages DEF Tick
    <2>2. redis' \in [Dated -> Entries] /\ scram' \in [Dated -> Entries]
      BY <1>4, EntryTypes DEF Tick
    <2> QED
      BY <1>4, <2>1, <2>2 DEF Tick
  <1>5. CASE Derive \/ DaemonDies
    BY <1>5 DEF Derive, DaemonDies
  <1>6. CASE DaemonRestarts
    BY <1>6, BoundAssumption DEF DaemonRestarts
  <1>7. CASE Exit
    <2>1. scram' \in [Dated -> Entries]
      BY <1>7, EntryTypes DEF Exit
    <2>2. /\ pos' \in 0 .. LastPlace /\ no_time_change_count' \in 0 .. StaticLimit + 1
          /\ stale' \in 0 .. StaticLimit + 2
      BY <1>7, GroupTypes DEF Exit, StaticLimit
    <2> QED
      BY <1>7, <2>1, <2>2 DEF Exit
  <1>8. ASSUME Fail PROVE /\ pos' = 0 /\ scram' \in [Dated -> Entries] /\ idle' \in BOOLEAN
                          /\ UNCHANGED <<receiver, stale>>
    BY <1>8, EntryTypes DEF Fail
  <1>9. ASSUME NEW ok \in BOOLEAN, ReadAGC(ok) PROVE TypeOK'
    <2>1. no_time_change_count' \in 0 .. StaticLimit + 1
      BY <1>9 DEF ReadAGC, CountStatic, Smaller, StaticLimit
    <2>2. moved' \in BOOLEAN
      BY <1>9 DEF ReadAGC
    <2>3. /\ pos' \in 0 .. LastPlace /\ scram' \in [Dated -> Entries] /\ idle' \in BOOLEAN
          /\ UNCHANGED <<receiver, stale>>
      BY <1>8, <1>9, GroupTypes DEF ReadAGC
    <2>4. UNCHANGED <<telescope, daemon, got, isset, redis, exited>>
      BY <1>9 DEF ReadAGC
    <2> QED
      BY <2>1, <2>2, <2>3, <2>4
  <1>10. ASSUME NEW g \in Commands, NEW ok \in BOOLEAN, ReadNext(g, ok) PROVE TypeOK'
    <2>1. /\ pos' \in 0 .. LastPlace /\ scram' \in [Dated -> Entries] /\ idle' \in BOOLEAN
          /\ UNCHANGED <<receiver, stale>>
      BY <1>8, <1>10, GroupTypes DEF ReadNext
    <2>2. UNCHANGED <<telescope, daemon, got, database, no_time_change_count, exited>>
      BY <1>10 DEF ReadNext
    <2> QED
      BY <2>1, <2>2
  <1>11. ASSUME NEW ok \in BOOLEAN, Answer(ok) PROVE TypeOK'
    <2>1. Receiver \in {"none", "ALFA", "327MHz"}
      BY DEF Receiver
    <2>2. Smaller(stale + 1, StaticLimit + 2) \in 0 .. StaticLimit + 2
      BY DEF Smaller, StaticLimit
    <2>3. /\ pos' \in 0 .. LastPlace /\ scram' \in [Dated -> Entries] /\ idle' \in BOOLEAN
          /\ receiver' \in {"none", "ALFA", "327MHz"} /\ stale' \in 0 .. StaticLimit + 2
      <3>1. CASE ok
        <4>1. /\ pos' = 0 /\ scram' = [h \in Dated |-> NotSet]
              /\ receiver' = Receiver /\ stale' = Smaller(stale + 1, StaticLimit + 2)
          BY <1>11, <3>1 DEF Answer
        <4>2. idle' \in BOOLEAN
          BY <1>11, <3>1 DEF Answer
        <4>3. pos' \in 0 .. LastPlace
          BY <4>1, GroupTypes
        <4>4. scram' \in [Dated -> Entries]
          BY <4>1, EntryTypes
        <4> QED
          BY <2>1, <2>2, <4>1, <4>2, <4>3, <4>4
      <3>2. CASE ~ok
        <4>1. Fail
          BY <1>11, <3>2 DEF Answer
        <4>2. /\ pos' = 0 /\ scram' \in [Dated -> Entries] /\ idle' \in BOOLEAN
              /\ receiver' = receiver /\ stale' = stale
          BY <1>8, <4>1
        <4> QED
          BY <4>2, GroupTypes
      <3> QED
        BY <3>1, <3>2
    <2>4. UNCHANGED <<telescope, daemon, got, database, no_time_change_count, exited>>
      BY <1>11 DEF Answer
    <2> QED
      BY <2>3, <2>4
  <1>12. CASE UNCHANGED vars
    BY <1>12 DEF vars
  <1> QED
    BY <1>1, <1>2, <1>3, <1>4, <1>5, <1>6, <1>7, <1>9, <1>10, <1>11, <1>12
       DEF Next, Query

-----------------------------------------------------------------------------
(* Evidence.                                                               *)

LEMMA EvidenceStep == EvidenceInv /\ [Next]_vars => EvidenceInv'
  <1> SUFFICES ASSUME EvidenceInv, [Next]_vars PROVE EvidenceInv'
    OBVIOUS
  <1>1. TypeOK /\ TypeOK'
    BY TypeStep DEF EvidenceInv
  <1>2. \A g \in Dated : /\ redis[g] \in Entries /\ scram[g] \in Entries
                         /\ Evidence(redis[g]) /\ Evidence(scram[g])
    BY <1>1 DEF TypeOK, EvidenceInv
  <1>3. /\ since \in [AllConditions -> 0 .. TooOld]
        /\ since' \in [AllConditions -> 0 .. TooOld]
        /\ TooOld \in Nat /\ tel \subseteq AllConditions /\ tel' \subseteq AllConditions
    BY <1>1, Ages, SettingAssumption DEF TypeOK
  <1>4. \A c \in tel : since[c] = 0
    BY DEF EvidenceInv
  <1>5. CASE Move
    <2>1. /\ redis' = redis /\ scram' = scram
          /\ \A c \in AllConditions : since'[c] <= since[c]
          /\ \A c \in tel' : since'[c] = 0
      BY <1>3, <1>5 DEF Move, database, reader
    <2>2. \A entry \in Entries : Evidence(entry) => Evidence(entry)'
      BY <1>3, <2>1 DEF Evidence, Entries
    <2> QED
      BY <1>1, <1>2, <2>1, <2>2 DEF EvidenceInv, Evidence
  <1>6. CASE Tick
    <2>1. /\ \A c \in AllConditions : since'[c] <= Older(since[c])
          /\ \A c \in tel' : since'[c] = 0
          /\ redis' = [g \in Dated |-> [redis[g] EXCEPT !.age = Older(@)]]
          /\ scram' = [g \in Dated |-> [scram[g] EXCEPT !.age = Older(@)]]
      BY <1>3, <1>6, Ages DEF Tick
    <2>2. \A entry \in Entries :
            Evidence(entry) => \A c \in entry.holds : since'[c] <= Older(entry.age)
      <3> SUFFICES ASSUME NEW entry \in Entries, Evidence(entry), NEW c \in entry.holds
                   PROVE  since'[c] <= Older(entry.age)
        OBVIOUS
      <3>1. c \in AllConditions /\ since[c] <= entry.age /\ entry.age \in 0 .. TooOld
        BY DEF Evidence, Entries
      <3>2. Older(since[c]) <= Older(entry.age)
        BY <1>3, <3>1, Ages
      <3> QED
        BY <1>3, <2>1, <3>1, <3>2, Ages
    <2>3. \A g \in Dated : /\ redis'[g].age = Older(redis[g].age)
                           /\ redis'[g].holds = redis[g].holds
                           /\ scram'[g].age = Older(scram[g].age)
                           /\ scram'[g].holds = scram[g].holds
      BY <1>2, <2>1 DEF Entries
    <2>4. \A g \in Dated : Evidence(redis[g])' /\ Evidence(scram[g])'
      BY <1>2, <2>2, <2>3 DEF Evidence
    <2> QED
      BY <1>1, <2>1, <2>4 DEF EvidenceInv
  <1>7. ASSUME NEW h \in Groups, read_scram(h) PROVE EvidenceInv'
    <2>1. /\ scram' = scram /\ since' = since /\ tel' = tel
          /\ \A g \in Dated : redis'[g] \in {redis[g], Stored(h)}
      BY <1>1, <1>7 DEF read_scram, telescope, reader, TypeOK
    <2>2. Evidence(Stored(h))
      BY <1>4 DEF Evidence, Stored
    <2>3. \A entry : Evidence(entry)' <=> Evidence(entry)
      BY <2>1 DEF Evidence
    <2>4. \A g \in Dated : Evidence(redis[g])' /\ Evidence(scram[g])'
      BY <1>2, <2>1, <2>2 DEF Evidence
    <2> QED
      BY <1>1, <1>4, <2>1, <2>4 DEF EvidenceInv
  <1>8. ASSUME /\ UNCHANGED <<tel, since, redis>>
               /\ \A g \in Dated : scram'[g] \in {scram[g], redis[g], NotSet}
        PROVE  EvidenceInv'
    <2>1. Evidence(NotSet)
      BY DEF Evidence, NotSet
    <2>2. \A g \in Dated : Evidence(redis[g])' /\ Evidence(scram[g])'
      BY <1>2, <1>8, <2>1 DEF Evidence
    <2> QED
      BY <1>1, <1>4, <1>8, <2>2 DEF EvidenceInv
  <1>9. ASSUME Fail, UNCHANGED <<tel, since, redis>> PROVE EvidenceInv'
    BY <1>8, <1>9 DEF Fail
  <1>10. ASSUME NEW ok \in BOOLEAN, ReadAGC(ok) PROVE EvidenceInv'
    <2>1. UNCHANGED <<tel, since, redis>>
      BY <1>10 DEF ReadAGC, telescope
    <2>2. Fail \/ scram' = [scram EXCEPT !["AGC"] = redis["AGC"]]
      BY <1>10 DEF ReadAGC
    <2>3. scram' = [scram EXCEPT !["AGC"] = redis["AGC"]]
            => \A g \in Dated : scram'[g] \in {scram[g], redis[g], NotSet}
      BY <1>1 DEF TypeOK
    <2> QED
      BY <1>8, <1>9, <2>1, <2>2, <2>3
  <1>11. ASSUME NEW h \in Commands, NEW ok \in BOOLEAN, ReadNext(h, ok) PROVE EvidenceInv'
    <2>1. UNCHANGED <<tel, since, redis>>
      BY <1>11 DEF ReadNext, telescope, database
    <2>2. Fail \/ \A g \in Dated : scram'[g] \in {scram[g], redis[g], NotSet}
      BY <1>1, <1>11 DEF ReadNext, TypeOK
    <2> QED
      BY <1>8, <1>9, <2>1, <2>2
  <1>12. ASSUME NEW ok \in BOOLEAN, Answer(ok) PROVE EvidenceInv'
    <2>1. UNCHANGED <<tel, since, redis>>
      BY <1>12 DEF Answer, telescope, database
    <2>2. Fail \/ \A g \in Dated : scram'[g] \in {scram[g], redis[g], NotSet}
      BY <1>12 DEF Answer
    <2> QED
      BY <1>8, <1>9, <2>1, <2>2
  <1>13. CASE Exit
    BY <1>8, <1>13 DEF Exit, telescope, database
  <1>14. ASSUME UNCHANGED <<tel, since, redis, scram>> PROVE EvidenceInv'
    BY <1>8, <1>14
  <1> QED
    BY <1>5, <1>6, <1>7, <1>10, <1>11, <1>12, <1>13, <1>14
       DEF Next, Query, FallSilent, Derive, DaemonDies, DaemonRestarts, vars,
           telescope, database, reader

LEMMA EvidenceInit == Init => EvidenceInv
  <1> SUFFICES ASSUME Init PROVE EvidenceInv
    OBVIOUS
  <1>1. TypeOK
    BY TypeInit
  <1>2. \A c \in tel : since[c] = 0
    BY SettingAssumption DEF Init
  <1>3. \A g \in Dated : Evidence(redis[g]) /\ Evidence(scram[g])
    BY DEF Init, Evidence, NotSet
  <1> QED
    BY <1>1, <1>2, <1>3 DEF EvidenceInv

\* A step that AlfaIsRecent speaks of.
GivesAlfa == pos = LastPlace /\ pos' = 0 /\ ~idle' /\ ~exited' /\ receiver' = "ALFA"

\* Only a good answer is one: every other step that ends a query sets the
\* idle flag or exits.
LEMMA OnlyAnswersGive == TypeOK /\ [Next]_vars /\ GivesAlfa => Receiver = "ALFA"
  <1> SUFFICES ASSUME TypeOK, [Next]_vars, GivesAlfa PROVE Receiver = "ALFA"
    OBVIOUS
  <1>1. pos = 7 /\ pos' = 0 /\ ~idle' /\ ~exited' /\ receiver' = "ALFA"
    BY GroupTypes DEF GivesAlfa
  <1>2. ~Exit /\ ~Fail
    BY <1>1 DEF Exit, Fail
  <1>3. \A ok \in BOOLEAN : ~ReadAGC(ok)
    BY <1>1 DEF ReadAGC
  <1>4. \A ok \in BOOLEAN, g \in Commands : ~ReadNext(g, ok)
    BY <1>1, GroupTypes DEF ReadNext, IsNext
  <1>5. Query
    BY <1>1, <1>2 DEF Next, Move, FallSilent, read_scram, Tick, Derive, DaemonDies,
                      DaemonRestarts, reader, vars
  <1>6. PICK ok \in BOOLEAN : Answer(ok)
    BY <1>3, <1>4, <1>5 DEF Query
  <1> QED
    BY <1>1, <1>2, <1>6 DEF Answer

LEMMA RecentStep ==
  EvidenceInv /\ [Next]_vars /\ GivesAlfa =>
    \A c \in {"bias", "alfon", "turret_alfa", "gregorian"} \cap AllConditions :
      since[c] <= ScramLagTolerance
  <1> SUFFICES ASSUME EvidenceInv, [Next]_vars, GivesAlfa,
                      NEW c \in {"bias", "alfon", "turret_alfa", "gregorian"} \cap AllConditions
               PROVE  since[c] <= ScramLagTolerance
    OBVIOUS
  <1>1. is_source_gregorian /\ is_alfa_enabled
    BY OnlyAnswersGive DEF EvidenceInv, Receiver
  <1>2. c \in UNION {scram[g].holds : g \in Dated}
    BY <1>1 DEF is_source_gregorian, is_alfa_enabled, Holds
  <1>3. PICK g \in Dated : c \in scram[g].holds
    BY <1>2
  <1>4. scram[g].age <= ScramLagTolerance /\ since[c] <= scram[g].age
    BY <1>1, <1>3 DEF is_alfa_enabled, EvidenceInv, Evidence
  <1>5. scram[g].age \in Nat /\ since[c] \in Nat
    BY Ages DEF EvidenceInv, TypeOK, Entries
  <1> QED
    BY <1>4, <1>5, Ages

-----------------------------------------------------------------------------
(* Answers from a database that stands still.                              *)

LEMMA StaleInit == Init => StaleInv
  BY TypeInit DEF Init, StaleInv, StaticLimit

LEMMA StaleStep == StaleInv /\ [Next]_vars => StaleInv'
  <1> SUFFICES ASSUME StaleInv, [Next]_vars PROVE StaleInv'
    OBVIOUS
  <1>1. TypeOK /\ TypeOK'
    BY TypeStep DEF StaleInv
  <1>2. /\ pos \in Nat /\ stale \in Nat /\ no_time_change_count \in 0 .. 3
        /\ pos' \in Nat /\ stale' \in Nat /\ no_time_change_count' \in Nat
        /\ pos = 0 => stale <= no_time_change_count + 2 /\ stale <= 3
        /\ pos # 0 => stale <= no_time_change_count + 1 /\ stale <= 2
    BY <1>1, GroupTypes DEF StaleInv, TypeOK, StaticLimit
  <1>0. PICK count \in Nat : count = no_time_change_count'
    BY <1>2
  <1>3. moved => IF pos = 0 THEN stale <= 1 ELSE stale = 0
    BY DEF StaleInv
  \* What is left to show of a step that leaves a query under way, or none.
  <1>4. ASSUME pos' = 0, moved' => stale' <= 1,
               stale' <= count + 2, stale' <= 3
        PROVE  StaleInv'
    BY <1>0, <1>1, <1>4 DEF StaleInv, StaticLimit
  <1>5. ASSUME pos' # 0, moved' => stale' = 0,
               stale' <= count + 1, stale' <= 2
        PROVE  StaleInv'
    BY <1>0, <1>1, <1>5 DEF StaleInv, StaticLimit
  <1>6. ASSUME UNCHANGED <<moved, pos, no_time_change_count, stale>> PROVE StaleInv'
    BY <1>1, <1>6 DEF StaleInv
  <1>7. ASSUME NEW g \in Groups, read_scram(g) PROVE StaleInv'
    <2>1. UNCHANGED <<pos, no_time_change_count>>
      BY <1>7 DEF read_scram, reader
    <2>2. CASE UNCHANGED <<moved, stale>>
      BY <1>6, <2>1, <2>2
    <2>3. CASE moved' = TRUE /\ stale' = 0
      <3>1. stale' <= count + 1 /\ stale' <= 2
        BY <2>3
      <3>2. stale' <= count + 2 /\ stale' <= 3 /\ stale' <= 1
        BY <2>3
      <3> QED
        BY <1>4, <1>5, <2>3, <3>1, <3>2
    <2> QED
      BY <1>7, <2>2, <2>3 DEF read_scram
  <1>8. CASE Exit
    <2>1. stale' <= count + 2 /\ stale' <= 3
      BY <1>0, <1>8 DEF Exit
    <2> QED
      BY <1>4, <1>8, <2>1 DEF Exit
  <1>9. ASSUME NEW ok \in BOOLEAN, ReadAGC(ok) PROVE StaleInv'
    <2> DEFINE good == ok /\ "AGC" \in isset
    <2>1. pos = 0 /\ (moved => stale <= 1)
      BY <1>3, <1>9 DEF ReadAGC
    <2>2. /\ no_time_change_count' = Smaller(CountStatic(good), StaticLimit + 1)
          /\ moved' = (moved /\ ~good)
          /\ (good /\ ~IsStatic(CountStatic(good)) /\ pos' = 1 /\ stale' = stale) \/ Fail
      BY <1>9 DEF ReadAGC
    <2>3. ASSUME ~good \/ ~moved
          PROVE  no_time_change_count' = Smaller(no_time_change_count + 1, 3)
      BY <2>2, <2>3 DEF CountStatic, StaticLimit
    <2>4. CASE Fail
      <3>1. pos' = 0 /\ stale' = stale
        BY <2>4 DEF Fail
      <3>2. CASE good /\ moved
        <4>1. ~moved' /\ stale <= 1
          BY <2>1, <2>2, <3>2
        <4>2. stale' <= count + 2 /\ stale' <= 3
          BY <1>2, <3>1, <4>1
        <4> QED
          BY <1>4, <2>1, <3>1, <4>1, <4>2
      <3>3. CASE ~good \/ ~moved
        <4>1. count >= no_time_change_count
          BY <1>0, <1>2, <2>3, <3>3 DEF Smaller
        <4>2. stale' <= count + 2 /\ stale' <= 3
          <5>1. stale <= no_time_change_count + 2 /\ stale <= 3
            BY <1>2, <2>1
          <5>2. no_time_change_count \in Nat /\ stale \in Nat
            BY <1>2
          <5> QED
            BY <3>1, <4>1, <5>1, <5>2
        <4>3. moved' => stale' <= 1
          BY <2>1, <2>2, <3>1
        <4> QED
          BY <1>4, <3>1, <4>2, <4>3
      <3> QED
        BY <3>2, <3>3
    <2>5. CASE good /\ ~IsStatic(CountStatic(good)) /\ pos' = 1 /\ stale' = stale
      <3>1. ~moved'
        BY <2>2, <2>5
      <3>2. stale' <= count + 1 /\ stale' <= 2
        <4>1. CASE moved
          <5>1. stale <= 1 /\ stale \in Nat /\ stale' = stale
            BY <1>2, <2>1, <2>5, <4>1
          <5> QED
            BY <5>1
        <4>2. CASE ~moved
          <5>1. ~(no_time_change_count + 1 >= 2)
            BY <2>5, <4>2 DEF IsStatic, CountStatic, StaticLimit
          <5>2. count = 1
            BY <1>0, <1>2, <2>3, <4>2, <5>1 DEF Smaller
          <5> QED
            BY <1>0, <1>2, <2>1, <2>5, <5>1, <5>2
        <4> QED
          BY <4>1, <4>2
      <3> QED
        BY <1>5, <2>5, <3>1, <3>2
    <2> QED
      BY <2>2, <2>4, <2>5
  \* The other steps of the query leave what was counted.
  <1>10. ASSUME pos # 0, Fail, UNCHANGED <<moved, no_time_change_count>> PROVE StaleInv'
    <2>1. pos' = 0 /\ stale' = stale
      BY <1>10 DEF Fail
    <2>2. moved' => stale' <= 1
      BY <1>3, <1>10, <2>1
    <2>3. stale' <= count + 2 /\ stale' <= 3
      BY <1>0, <1>2, <1>10, <2>1
    <2> QED
      BY <1>4, <2>1, <2>2, <2>3
  <1>11. ASSUME NEW g \in Commands, NEW ok \in BOOLEAN, ReadNext(g, ok) PROVE StaleInv'
    <2>1. pos # 0 /\ UNCHANGED <<moved, no_time_change_count>>
      BY <1>11 DEF ReadNext, database
    <2>2. Fail \/ (pos' = Place[g] /\ stale' = stale)
      BY <1>11 DEF ReadNext
    <2>3. CASE pos' = Place[g] /\ stale' = stale
      <3>1. pos' # 0
        BY <2>3, GroupTypes
      <3>2. moved' => stale' = 0
        BY <1>3, <2>1, <2>3
      <3>3. stale' <= count + 1 /\ stale' <= 2
        BY <1>0, <1>2, <2>1, <2>3
      <3> QED
        BY <1>5, <3>1, <3>2, <3>3
    <2> QED
      BY <1>10, <2>1, <2>2, <2>3
  <1>12. ASSUME NEW ok \in BOOLEAN, Answer(ok) PROVE StaleInv'
    <2>1. pos # 0 /\ UNCHANGED <<moved, no_time_change_count>>
      BY <1>12, GroupTypes DEF Answer, database
    <2>2. Fail \/ (pos' = 0 /\ stale' = Smaller(stale + 1, StaticLimit + 2))
      BY <1>12 DEF Answer
    <2>3. CASE pos' = 0 /\ stale' = Smaller(stale + 1, StaticLimit + 2)
      <3>1. stale' = stale + 1
        BY <1>2, <2>1, <2>3 DEF Smaller, StaticLimit
      <3>2. moved' => stale' <= 1
        BY <1>3, <2>1, <3>1
      <3>3. stale' <= count + 2 /\ stale' <= 3
        BY <1>0, <1>2, <2>1, <3>1
      <3> QED
        BY <1>4, <2>3, <3>2, <3>3
    <2> QED
      BY <1>10, <2>1, <2>2, <2>3
  <1> QED
    BY <1>6, <1>7, <1>8, <1>9, <1>11, <1>12
       DEF Next, Query, Move, Tick, FallSilent, Derive, DaemonDies, DaemonRestarts, vars,
           telescope, database, reader

-----------------------------------------------------------------------------
(* The theorems.                                                           *)

LEMMA TypeInvariance == Spec => []TypeOK
  BY TypeInit, TypeStep, PTL DEF Spec

\* The variables of the telescope, the daemon, redis and the query keep to
\* their types, for every set of groups, every tolerance and every bound.
THEOREM ObsTypeCorrect == Spec => []TypeOK
  BY TypeInvariance

\* When the answer is ALFA, every condition for it has held at the telescope
\* within the tolerance, whatever moved, fell silent or died while the groups
\* were stored and read one by one.
THEOREM AlfaFromRecentEvidence == Spec => AlfaIsRecent
  <1>1. Init => EvidenceInv
    BY EvidenceInit
  <1>2. EvidenceInv /\ [Next]_vars => EvidenceInv'
    BY EvidenceStep
  <1>3. EvidenceInv /\ [Next]_vars =>
          [pos = LastPlace /\ pos' = 0 /\ ~idle' /\ ~exited' /\ receiver' = "ALFA" =>
             \A c \in {"bias", "alfon", "turret_alfa", "gregorian"} \cap AllConditions :
               since[c] <= ScramLagTolerance]_vars
    BY RecentStep DEF GivesAlfa
  <1> QED
    BY <1>1, <1>2, <1>3, PTL DEF Spec, AlfaIsRecent

\* A database whose AGCTIME stands still gives no more than one answer above
\* the limit, whatever errors come between the queries and however often the
\* daemon is restarted.
THEOREM StaleAnswersHold == Spec => []StaleAnswersBounded
  <1>1. StaleInv => StaleAnswersBounded
    BY DEF StaleInv, TypeOK, StaleAnswersBounded, StaticLimit
  <1> QED
    BY StaleInit, StaleStep, <1>1, PTL DEF Spec
=============================================================================
