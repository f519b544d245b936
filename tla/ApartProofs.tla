------------------------------ MODULE ApartProofs ------------------------------
(***************************************************************************)
(* The parts of Apart, for any constants: a retried call ends in time with *)
(* a result that holds; no request made for a recorded backup deletes it;  *)
(* durations are read as their format says, and the moments they give move *)
(* on with the clock; alembic's version is never ahead of the schema.      *)
(***************************************************************************)
EXTENDS Apart, Integers, Sequences, TLAPS

\* A step is one of its part, and lets the others stand still.
LEMMA StepOfPart ==
  ASSUME [PartNext]_partVars
  PROVE  /\ [Next]_vars
         /\ [Policy!Next]_(Policy!vars)
         /\ [Time!Tick]_(Time!vars)
         /\ UNCHANGED part
         /\ part # "duration" => UNCHANGED duration
         /\ \/ UNCHANGED migration
            \/ part = "commands" /\ Commands!Next
            \/ part = "upgrades" /\ Upgrades!Next
BY DEF PartNext, OnUpgrades, partVars, vars, policy, duration, migration,
   Policy!vars, Time!vars

-----------------------------------------------------------------------------
(* A call of OpenstackSDK.                                                 *)

LEMMA CallInit == Init => Inductive
BY CallAssumption
DEF Init, Inductive, TypeOK, ResultHolds, EndsInTime, Longest, Shorter, Done

\* What a request, carried out or not, leaves as it was or makes true.
LEMMA AnswerOK ==
  ASSUME Inductive, phase = "send",
         NEW answer \in {"ok", "404", "error", "exception"}, Arrives(answer)
  PROVE  /\ backup' \in {"absent", "available", "deleting", "gone"}
         /\ made' \in Nat
         /\ op = "create_backup" => made' <= 1
         /\ op # "create_backup" => made' = 0
         /\ op = "get_backup" /\ answer = "404" => backup' = "gone"
         /\ op = "delete_backup" /\ answer \in {"ok", "404"}
              => backup' \in {"deleting", "gone"}
         /\ op = "create_backup" => answer # "404"
BY DEF Inductive, TypeOK, Arrives, Carry

LEMMA CallNext ==
  ASSUME Inductive, [Next]_vars
  PROVE  Inductive'
<1> USE CallAssumption
    DEF Inductive, TypeOK, ResultHolds, EndsInTime, Longest, Done
<1>1. CASE Attempt
  <2>1. PICK answer \in {"ok", "404", "error", "exception"}, d \in 1 .. Slowest :
          /\ Arrives(answer)
          /\ elapsed' = elapsed + d
          /\ phase' = IF Retried(answer, elapsed + d) THEN "wait" ELSE Ends(answer)
    BY <1>1 DEF Attempt
  <2>2. phase = "send" /\ UNCHANGED <<op, interval>>
    BY <1>1 DEF Attempt
  <2>3. elapsed' \in Nat /\ elapsed' < Longest
    BY <2>1, <2>2
  <2>4. CASE Retried(answer, elapsed + d)
    BY <2>1, <2>2, <2>3, <2>4, AnswerOK DEF Retried
  <2>5. CASE ~Retried(answer, elapsed + d)
    BY <2>1, <2>2, <2>3, <2>5, AnswerOK DEF Ends
  <2> QED BY <2>4, <2>5
<1>2. CASE Wait
  BY <1>2 DEF Wait, Shorter
<1>3. CASE CinderDeletes
  BY <1>3 DEF CinderDeletes
<1>4. CASE UNCHANGED vars
  BY <1>4 DEF vars
<1> QED BY <1>1, <1>2, <1>3, <1>4 DEF Next
\* A call takes at most the timeout, one more wait and one more request.
THEOREM CallEnds == PartSpec => []EndsInTime
<1>1. PartInit => Inductive
  BY CallInit DEF PartInit
<1>2. Inductive /\ [PartNext]_partVars => Inductive'
  BY StepOfPart, CallNext
<1>3. Inductive => EndsInTime
  BY DEF Inductive
<1> QED BY <1>1, <1>2, <1>3, PTL DEF PartSpec, Parts

\* What the callers conclude from a result is so, whatever answers were lost.
THEOREM ResultsHold == PartSpec => []ResultHolds
<1>1. PartInit => Inductive
  BY CallInit DEF PartInit
<1>2. Inductive /\ [PartNext]_partVars => Inductive'
  BY StepOfPart, CallNext
<1>3. Inductive => ResultHolds
  BY DEF Inductive
<1> QED BY <1>1, <1>2, <1>3, PTL DEF PartSpec, Parts

\* A call creates at most one backup.
THEOREM NeverTwice == PartSpec => []CreatedOnce
<1>1. PartInit => Inductive
  BY CallInit DEF PartInit
<1>2. Inductive /\ [PartNext]_partVars => Inductive'
  BY StepOfPart, CallNext
<1>3. Inductive => CreatedOnce
  BY DEF Inductive, TypeOK, CreatedOnce
<1> QED BY <1>1, <1>2, <1>3, PTL DEF PartSpec, Parts

-----------------------------------------------------------------------------
(* The policy API.                                                         *)

LEMMA PolicyInit == Policy!Init => Policy!Inductive
BY DEF Policy!Init, Policy!Inductive, Policy!TypeOK

LEMMA PolicyNext ==
  ASSUME Policy!Inductive, [Policy!Next]_(Policy!vars)
  PROVE  Policy!Inductive'
<1> USE DEF Policy!Inductive, Policy!TypeOK
<1>1. ASSUME NEW r \in Request, Policy!Ask(r) PROVE Policy!Inductive'
  BY <1>1 DEF Policy!Ask, Policy!staffeln, Policy!service
<1>2. ASSUME NEW r \in Request, Policy!BackupId(r) PROVE Policy!Inductive'
  BY <1>2 DEF Policy!BackupId, Policy!Found, Policy!staffeln, Policy!service
<1>3. ASSUME NEW r \in Request, Policy!CinderTakes(r) PROVE Policy!Inductive'
  BY <1>3 DEF Policy!CinderTakes, Policy!staffeln, Policy!service
<1>4. CASE Policy!CinderWorks
  BY <1>4 DEF Policy!CinderWorks, Policy!staffeln, Policy!requests, Policy!service
<1>5. CASE Policy!Record \/ Policy!Complete \/ Policy!GiveUp
  BY <1>5 DEF Policy!Record, Policy!Complete, Policy!GiveUp, Policy!requests,
      Policy!service
<1>6. CASE Policy!Lose \/ Policy!Purge
  BY <1>6 DEF Policy!Lose, Policy!Purge, Policy!requests, Policy!service
<1>7. CASE Policy!Expire
  BY <1>7 DEF Policy!Expire, Policy!staffeln, Policy!requests, Policy!service
<1>8. CASE Policy!Forget
  BY <1>8 DEF Policy!Forget, Policy!requests, Policy!service
<1>9. CASE Policy!Outage \/ Policy!AskHealth \/ Policy!Health
  BY <1>9 DEF Policy!Outage, Policy!AskHealth, Policy!Health, Policy!staffeln,
      Policy!requests, Policy!service
<1>10. CASE UNCHANGED Policy!vars
  BY <1>10 DEF Policy!vars, Policy!staffeln, Policy!requests, Policy!service
<1> QED
  BY <1>1, <1>2, <1>3, <1>4, <1>5, <1>6, <1>7, <1>8, <1>9, <1>10 DEF Policy!Next


\* README.md:154-155, for any number of requests, and although Cinder refuses
\* or fails deletions and the database comes and goes.
THEOREM RecordProtects == PartSpec => KeptOnceRecorded
<1>1. Policy!Inductive /\ [PartNext]_partVars
        => [\A r \in marked \ blind : ~Policy!Deletes(r)]_(Policy!vars)
  <2> SUFFICES ASSUME Policy!Inductive, Policy!Next
               PROVE  \A r \in marked \ blind : ~Policy!Deletes(r)
    BY StepOfPart
  <2> QED
    BY DEF Policy!Inductive, Policy!TypeOK, Policy!Deletes, Policy!Next,
        Policy!CinderWorks, Policy!Record, Policy!Complete, Policy!GiveUp,
        Policy!Lose, Policy!Purge, Policy!Expire, Policy!Forget, Policy!Ask,
        Policy!BackupId, Policy!CinderTakes, Policy!staffeln, Policy!requests,
        Policy!service, Policy!Outage, Policy!AskHealth, Policy!Health
<1>2. PartInit => Policy!Inductive
  BY PolicyInit DEF PartInit
<1>3. Policy!Inductive /\ [PartNext]_partVars => Policy!Inductive'
  BY StepOfPart, PolicyNext DEF Policy!vars
<1> QED
  BY <1>1, <1>2, <1>3, PTL DEF PartSpec, Parts, KeptOnceRecorded,
      Policy!KeptOnceRecorded

-----------------------------------------------------------------------------
(* The migration of the schema.                                            *)

\* What a revision adds is among the items.
LEMMA RevisionItems ==
  /\ Commands!LastRev = 4
  /\ \A r \in 1 .. 4 :
       /\ Len(Commands!Revisions[r]) \in 0 .. 2
       /\ Commands!ToSet(Commands!Revisions[r]) \subseteq Commands!Items
  /\ \A t \in Commands!Tables : Commands!Model(t) \subseteq Commands!Items
BY DEF Commands!LastRev, Commands!Revisions, Commands!Items, Commands!Tables,
   Commands!Model, Commands!ToSet

LEMMA RevisionAdds ==
  \A r \in 1 .. 4 :
    \A x : x \in Commands!ToSet(Commands!Revisions[r])
      <=> \E i \in 1 .. Len(Commands!Revisions[r]) : x = Commands!Revisions[r][i]
BY DEF Commands!Revisions, Commands!ToSet

\* The steps of upgrades are those of commands.
LEMMA UpgradesAreCommands ==
  ASSUME Upgrades!Next
  PROVE  \E h \in Host : Upgrades!Upgrade(h) \/ Commands!Step(h)
<1>1. ASSUME NEW h \in Host, Upgrades!CreateTable(h)
      PROVE  Commands!CreateTable(h)
  BY <1>1 DEF Upgrades!CreateTable, Commands!CreateTable, Upgrades!Ends, Commands!Ends,
     Upgrades!Idle, Commands!Idle, Upgrades!Model, Commands!Model
<1>2. ASSUME NEW h \in Host, Upgrades!Apply(h) PROVE Commands!Apply(h)
  BY <1>2 DEF Upgrades!Apply, Commands!Apply, Upgrades!Ends, Commands!Ends,
     Upgrades!Idle, Commands!Idle, Upgrades!Rev, Commands!Rev, Upgrades!Needs,
     Commands!Needs, Upgrades!Model, Commands!Model, Upgrades!Tables, Commands!Tables,
     Upgrades!Revisions, Commands!Revisions
<1>3. ASSUME NEW h \in Host, Upgrades!Stamp(h) PROVE Commands!Stamp(h)
  BY <1>3 DEF Upgrades!Stamp, Commands!Stamp, Upgrades!Ends, Commands!Ends,
     Upgrades!Idle, Commands!Idle, Upgrades!Rev, Commands!Rev,
     Upgrades!Revisions, Commands!Revisions
<1>4. ASSUME NEW h \in Host, Upgrades!UpgradeDone(h) PROVE Commands!UpgradeDone(h)
  BY <1>4 DEF Upgrades!UpgradeDone, Commands!UpgradeDone, Upgrades!Ends, Commands!Ends,
     Upgrades!Idle, Commands!Idle
<1> QED
  BY <1>1, <1>2, <1>3, <1>4 DEF Upgrades!Next, Upgrades!CreateSchema, Upgrades!Crash,
     Upgrades!Step, Commands!Step

LEMMA UpToItems ==
  /\ \A v \in 0 .. 4 : Commands!UpTo(v) \subseteq Commands!Items
  /\ \A u \in 0 .. 4 : \A v \in 0 .. u : Commands!UpTo(v) \subseteq Commands!UpTo(u)
  /\ \A v \in 1 .. 4 :
       Commands!UpTo(v) = Commands!UpTo(v - 1) \cup Commands!ToSet(Commands!Revisions[v])
  /\ Commands!UpTo(0) = {}
<1>1. \A v \in 0 .. 4 : \A x : x \in Commands!UpTo(v) <=>
        \E r \in 1 .. v : x \in Commands!ToSet(Commands!Revisions[r])
  BY DEF Commands!UpTo
<1>2. \A v \in 0 .. 4 : Commands!UpTo(v) \subseteq Commands!Items
  BY <1>1, RevisionItems
<1>3. ASSUME NEW u \in 0 .. 4, NEW v \in 0 .. u
      PROVE  Commands!UpTo(v) \subseteq Commands!UpTo(u)
  BY <1>1
<1>4. ASSUME NEW v \in 1 .. 4
      PROVE  Commands!UpTo(v)
               = Commands!UpTo(v - 1) \cup Commands!ToSet(Commands!Revisions[v])
  <2>1. \A r \in Int : r \in 1 .. v <=> r \in 1 .. v - 1 \/ r = v
    OBVIOUS
  <2> QED BY <1>1, <2>1
<1>5. Commands!UpTo(0) = {}
  BY <1>1
<1> QED BY <1>2, <1>3, <1>4, <1>5

\* A revision that has run has added what it adds.
LEMMA RevisionRun ==
  ASSUME NEW r \in 1 .. 4, Commands!UpTo(r - 1) \subseteq schema,
         \A i \in 1 .. Len(Commands!Revisions[r]) : Commands!Revisions[r][i] \in schema
  PROVE  Commands!UpTo(r) \subseteq schema
<1>1. \A x : x \in Commands!ToSet(Commands!Revisions[r]) => x \in schema
  <2> SUFFICES ASSUME NEW x \in Commands!ToSet(Commands!Revisions[r])
               PROVE  x \in schema
    OBVIOUS
  <2>1. PICK i \in 1 .. Len(Commands!Revisions[r]) : x = Commands!Revisions[r][i]
    BY ONLY RevisionAdds, r \in 1 .. 4, x \in Commands!ToSet(Commands!Revisions[r])
  <2> QED BY <2>1
<1>2. Commands!ToSet(Commands!Revisions[r]) \subseteq schema
  BY <1>1, Zenon
<1>3. Commands!UpTo(r) = Commands!UpTo(r - 1) \cup Commands!ToSet(Commands!Revisions[r])
  BY UpToItems
<1> QED BY <1>2, <1>3, Zenon

LEMMA SchemaInit ==
  ASSUME Commands!Init \/ Upgrades!Init
  PROVE  Commands!Inductive
<1>1. \E u, v \in 0 .. 4 :
        /\ v <= u /\ version = v
        /\ \/ schema = {} /\ v = 0
           \/ schema = {"queue_data", "backup_data"} \cup Commands!UpTo(u)
  <2>1. CASE Commands!Init
    <3>1. PICK i \in Installed :
            IF i = << >> THEN schema = {} /\ version = 0
            ELSE /\ version = i[1]
                 /\ schema = {"queue_data", "backup_data"} \cup Commands!UpTo(i[2])
      BY <2>1 DEF Commands!Init
    <3>2. i = << >> \/ i \in {w \in (0 .. 4) \X (0 .. 4) : w[1] <= w[2]}
      BY ApartAssumption, RevisionItems DEF Commands!MigrationAssumption
    <3> QED BY <3>1, <3>2
  <2>2. CASE Upgrades!Init
    <3>1. PICK v \in 0 .. 4 :
            version = v /\ schema = {"queue_data", "backup_data"} \cup Upgrades!UpTo(v)
      BY <2>2 DEF Upgrades!Init
    <3>2. Upgrades!UpTo(v) = Commands!UpTo(v)
      BY DEF Upgrades!UpTo, Commands!UpTo, Upgrades!Revisions, Commands!Revisions,
         Upgrades!ToSet, Commands!ToSet
    <3> QED BY <3>1, <3>2
  <2> QED BY <2>1, <2>2
<1>2. Commands!UpTo(version) \subseteq schema /\ schema \subseteq Commands!Items
  BY <1>1, UpToItems, RevisionItems DEF Commands!Items, Commands!Tables
<1>3. /\ pc = [h \in Host |-> "none"] /\ todo = [h \in Host |-> {}]
      /\ at = [h \in Host |-> Commands!Idle] /\ failed = [h \in Host |-> FALSE]
  BY DEF Commands!Init, Upgrades!Init, Commands!Idle, Upgrades!Idle
<1> QED
  BY <1>1, <1>2, <1>3, RevisionItems
  DEF Commands!Inductive, Commands!VersionTells, Commands!TypeOK, Commands!Idle

\* What a host that ends or is idle needs: it is not upgrading.
LEMMA EndsOK ==
  ASSUME Commands!Inductive, NEW h \in Host, NEW raised \in BOOLEAN,
         Commands!Ends(h, raised), UNCHANGED <<schema, version>>
  PROVE  Commands!Inductive'
BY RevisionItems
DEF Commands!Inductive, Commands!VersionTells, Commands!TypeOK, Commands!Ends,
    Commands!Idle, Commands!UpTo, Commands!Rev

LEMMA BeginOK ==
  ASSUME Commands!Inductive, NEW h \in Host,
         \/ Commands!CreateSchema(h) \/ Commands!Upgrade(h) \/ Upgrades!Upgrade(h)
  PROVE  Commands!Inductive'
<1> USE RevisionItems
    DEF Commands!Inductive, Commands!VersionTells, Commands!TypeOK, Commands!Rev
<1>1. CASE Commands!CreateSchema(h)
  BY <1>1 DEF Commands!CreateSchema, Commands!UpTo
<1>2. CASE Commands!Upgrade(h) \/ Upgrades!Upgrade(h)
  <2>1. PICK r \in 0 .. 4 :
          at' = [at EXCEPT ![h] = [rev |-> version + 1, done |-> 0, to |-> r]]
    BY <1>2, ApartAssumption
    DEF Commands!Upgrade, Upgrades!Upgrade, Commands!MigrationAssumption
  <2>2. pc' = [pc EXCEPT ![h] = "upgrade"] /\ UNCHANGED <<schema, version, todo, failed>>
    BY <1>2 DEF Commands!Upgrade, Upgrades!Upgrade
  <2>3. \A v : Commands!UpTo(v)' = Commands!UpTo(v)
    BY DEF Commands!UpTo
  <2>4. Commands!TypeOK'
    BY <2>1, <2>2
  <2>5. ASSUME NEW g \in Host, g # h, pc'[g] = "upgrade"
        PROVE  at'[g] = at[g] /\ pc[g] = "upgrade"
    BY <2>1, <2>2, <2>5
  <2>6. at'[h].rev - 1 = version /\ at'[h].done = 0
    BY <2>1
  <2> QED BY <2>1, <2>2, <2>4, <2>5, <2>6
<1> QED BY <1>1, <1>2

LEMMA CreateTableOK ==
  ASSUME Commands!Inductive, NEW h \in Host, Commands!CreateTable(h)
  PROVE  Commands!Inductive'
<1>1. CASE Commands!Ends(h, FALSE) /\ UNCHANGED schema
  BY <1>1, EndsOK DEF Commands!CreateTable
<1>2. CASE Commands!Ends(h, TRUE) /\ UNCHANGED schema
  BY <1>2, EndsOK DEF Commands!CreateTable
<1>3. ASSUME NEW t \in todo[h], schema' = schema \cup Commands!Model(t),
             todo' = [todo EXCEPT ![h] = @ \ {t}], UNCHANGED <<pc, at, failed, version>>
      PROVE  Commands!Inductive'
  BY <1>3, RevisionItems
  DEF Commands!Inductive, Commands!VersionTells, Commands!TypeOK, Commands!Rev,
      Commands!UpTo
<1> QED BY <1>1, <1>2, <1>3 DEF Commands!CreateTable

LEMMA ApplyOK ==
  ASSUME Commands!Inductive, NEW h \in Host, Commands!Apply(h)
  PROVE  Commands!Inductive'
<1> DEFINE x == Commands!Rev(h)[at[h].done + 1]
<1>1. CASE Commands!Ends(h, TRUE) /\ UNCHANGED schema
  BY <1>1, EndsOK DEF Commands!Apply
<1>2. CASE /\ schema' = schema \cup {x}
           /\ at' = [at EXCEPT ![h].done = @ + 1]
           /\ UNCHANGED <<pc, todo, failed>>
  <2> USE RevisionItems
      DEF Commands!Inductive, Commands!VersionTells, Commands!TypeOK
  <2>1. /\ pc[h] = "upgrade" /\ at[h].rev <= 4 /\ at[h].rev \in 1 .. 4
        /\ at[h].done \in 0 .. 1 /\ at[h].done < Len(Commands!Rev(h))
        /\ version' = version
    <3>1. at[h].rev \in 1 .. 5 /\ at[h].done \in 0 .. 2 /\ at[h].to \in 0 .. 4
      OBVIOUS
    <3>2. pc[h] = "upgrade" /\ at[h].rev <= at[h].to /\ version' = version
      BY DEF Commands!Apply
    <3>3. at[h].done < Len(Commands!Rev(h)) /\ Len(Commands!Rev(h)) \in 0 .. 2
      BY <3>1, <3>2 DEF Commands!Apply, Commands!Rev
    <3> DEFINE length == Len(Commands!Rev(h))
    <3> HIDE DEF length
    <3>4. at[h].rev <= 4 /\ at[h].rev \in 1 .. 4
      BY ONLY <3>1, <3>2
    <3>5. at[h].done < length /\ length \in 0 .. 2
      BY <3>3 DEF length
    <3>6. at[h].done \in 0 .. 1
      BY ONLY <3>1, <3>5
    <3> QED BY <3>2, <3>3, <3>4, <3>6
  <2>2. x \in Commands!Items
    <3>1. at[h].done + 1 \in 1 .. Len(Commands!Revisions[at[h].rev])
      BY <2>1 DEF Commands!Rev
    <3>2. x \in Commands!ToSet(Commands!Revisions[at[h].rev])
      BY <2>1, <3>1, RevisionAdds DEF Commands!Rev
    <3> QED BY <2>1, <3>2
  <2>3. /\ at' \in [Host -> [rev: 1 .. 5, done: 0 .. 2, to: 0 .. 4]]
        /\ \A g \in Host : at'[g].rev = at[g].rev
        /\ \A g \in Host \ {h} : at'[g] = at[g]
        /\ at'[h].done = at[h].done + 1
    <3>1. at \in [Host -> [rev: 1 .. 5, done: 0 .. 2, to: 0 .. 4]]
      OBVIOUS
    <3> QED BY ONLY <1>2, <2>1, <3>1, h \in Host
  <2> HIDE DEF x
  <2>4. Commands!TypeOK'
    BY <1>2, <2>1, <2>2, <2>3
  <2>5. \A v : Commands!UpTo(v)' = Commands!UpTo(v)
    BY DEF Commands!UpTo
  <2>6. \A g \in Host : Commands!Rev(g)' = Commands!Rev(g)
    BY <2>3 DEF Commands!Rev
  <2>7. ASSUME NEW i \in 1 .. at'[h].done PROVE Commands!Rev(h)[i] \in schema'
    <3>1. i = at[h].done + 1 \/ i \in 1 .. at[h].done
      BY <2>1, <2>3
    <3>2. Commands!Rev(h)[at[h].done + 1] \in schema'
      BY <1>2 DEF x
    <3> QED BY <1>2, <2>1, <3>1, <3>2
  <2>8. ASSUME NEW g \in Host, pc'[g] = "upgrade"
        PROVE  /\ Commands!UpTo(at'[g].rev - 1) \subseteq schema'
               /\ at'[g].rev <= Commands!LastRev =>
                    \A i \in 1 .. at'[g].done : Commands!Rev(g)[i] \in schema'
    BY <1>2, <2>3, <2>7, <2>8
  <2>9. Commands!UpTo(version') \subseteq schema'
    BY <1>2, <2>1
  <2> QED BY <2>4, <2>5, <2>6, <2>8, <2>9
<1> QED BY <1>1, <1>2 DEF Commands!Apply

LEMMA StampOK ==
  ASSUME Commands!Inductive, NEW h \in Host, Commands!Stamp(h)
  PROVE  Commands!Inductive'
<1>1. CASE Commands!Ends(h, TRUE) /\ UNCHANGED version
  BY <1>1, EndsOK DEF Commands!Stamp
<1>2. CASE /\ version' = at[h].rev
           /\ at' = [at EXCEPT ![h] = [rev |-> @.rev + 1, done |-> 0, to |-> @.to]]
           /\ UNCHANGED <<pc, todo, failed>>
  <2> USE RevisionItems
      DEF Commands!Inductive, Commands!VersionTells, Commands!TypeOK
  <2>1. /\ pc[h] = "upgrade" /\ at[h].rev <= 4 /\ at[h].rev \in 1 .. 4
        /\ at[h].done = Len(Commands!Rev(h)) /\ schema' = schema
    BY DEF Commands!Stamp
  <2>2. Commands!Rev(h) = Commands!Revisions[at[h].rev]
    BY DEF Commands!Rev
  <2>3. /\ at' \in [Host -> [rev: 1 .. 5, done: 0 .. 2, to: 0 .. 4]]
        /\ \A g \in Host \ {h} : at'[g] = at[g]
        /\ at'[h].rev = at[h].rev + 1 /\ at'[h].done = 0
    BY <1>2, <2>1
  <2>4. Commands!TypeOK'
    BY <1>2, <2>1, <2>3
  <2>5. Commands!UpTo(at[h].rev) \subseteq schema
    <3>1. \A i \in 1 .. Len(Commands!Revisions[at[h].rev]) :
            Commands!Revisions[at[h].rev][i] \in schema
      BY <2>1, <2>2
    <3>2. Commands!UpTo(at[h].rev - 1) \subseteq schema
      BY <2>1
    <3> QED BY <2>1, <3>1, <3>2, RevisionRun
  <2>6. \A g \in Host \ {h} : Commands!Rev(g)' = Commands!Rev(g)
    BY <2>3 DEF Commands!Rev
  <2>7. \A v : Commands!UpTo(v)' = Commands!UpTo(v)
    BY DEF Commands!UpTo
  <2>8. at'[h].rev - 1 = at[h].rev
    BY <2>1, <2>3
  <2> QED BY <1>2, <2>1, <2>3, <2>4, <2>5, <2>6, <2>7, <2>8
<1> QED BY <1>1, <1>2 DEF Commands!Stamp

LEMMA SchemaNext ==
  ASSUME Commands!Inductive, [PartNext]_partVars
  PROVE  Commands!Inductive'
<1>1. CASE UNCHANGED migration
  BY <1>1 DEF migration, Commands!Inductive, Commands!VersionTells, Commands!TypeOK,
     Commands!UpTo, Commands!Rev
<1>2. ASSUME NEW h \in Host, Commands!Step(h)
      PROVE  Commands!Inductive'
  <2>1. CASE Commands!UpgradeDone(h)
    BY <2>1, EndsOK DEF Commands!UpgradeDone
  <2> QED
    BY <1>2, <2>1, CreateTableOK, ApplyOK, StampOK DEF Commands!Step
<1>3. ASSUME NEW h \in Host, Commands!Crash(h)
      PROVE  Commands!Inductive'
  BY <1>3, EndsOK DEF Commands!Crash
<1>4. CASE Commands!Next
  BY <1>2, <1>3, <1>4, BeginOK DEF Commands!Next
<1>5. CASE Upgrades!Next
  BY <1>2, <1>5, BeginOK, UpgradesAreCommands
<1> QED BY <1>1, <1>4, <1>5, StepOfPart

\* The version that alembic keeps is never ahead of the tables and columns, for
\* any number of hosts, whatever they run and wherever they are killed.
THEOREM VersionIsTrue == PartSpec => []VersionTells
<1>1. PartInit => Commands!Inductive
  BY SchemaInit DEF PartInit
<1>2. Commands!Inductive /\ [PartNext]_partVars => Commands!Inductive'
  BY SchemaNext
<1>3. Commands!Inductive => VersionTells
  BY DEF Commands!Inductive, VersionTells
<1> QED BY <1>1, <1>2, <1>3, PTL DEF PartSpec, Parts

-----------------------------------------------------------------------------
(* How a duration is read.                                                 *)

\* The place of a unit in the format.
Index(x) == CHOOSE k \in 1 .. 7 : Time!Units[k] = x

LEMMA UnitIndex ==
  /\ \A x \in Time!UnitSet : Index(x) \in 1 .. 7 /\ Time!Units[Index(x)] = x
  /\ \A k \in 1 .. 7 : Time!Units[k] \in Time!UnitSet /\ Index(Time!Units[k]) = k
<1>1. \A x \in Time!UnitSet : \E k \in 1 .. 7 : Time!Units[k] = x
  BY DEF Time!UnitSet, Time!Units, Time!ToSet
<1>2. \A k \in 1 .. 7 : Time!Units[k] \in Time!UnitSet
  BY DEF Time!UnitSet, Time!Units, Time!ToSet
<1>3. \A k, l \in 1 .. 7 : Time!Units[k] = Time!Units[l] => k = l
  BY DEF Time!Units
<1> QED BY <1>1, <1>2, <1>3 DEF Index

\* The first i pieces are numbers with different units in their order.
Ordered(s, i) ==
  \A j \in 1 .. i :
    /\ s[j].n # Time!NoNumber /\ s[j].text \in Time!UnitSet
    /\ \A l \in 1 .. j - 1 : Index(s[l].text) < Index(s[j].text)

\* The default is not one of those that are written.
AnyPiece ==
  [n: Nat \cup {Time!NoNumber}, text: Time!UnitSet \cup {Time!Other, Time!Nothing}]

LEMMA FollowsIsOrdered ==
  ASSUME NEW s \in Seq(AnyPiece)
  PROVE  Time!Follows(s, Time!Units) <=> s # << >> /\ Ordered(s, Len(s))
<1>1. ASSUME Time!Follows(s, Time!Units)
      PROVE  s # << >> /\ Ordered(s, Len(s))
  <2>1. s # << >>
    BY <1>1 DEF Time!Follows
  <2>2. PICK f \in [DOMAIN s -> DOMAIN Time!Units] :
          /\ \A i, j \in DOMAIN s : i < j => f[i] < f[j]
          /\ \A i \in DOMAIN s : s[i].n # Time!NoNumber /\ s[i].text = Time!Units[f[i]]
    BY <1>1 DEF Time!Follows
  <2>3. DOMAIN Time!Units = 1 .. 7 /\ DOMAIN s = 1 .. Len(s)
    BY DEF Time!Units
  <2>4. \A i \in 1 .. Len(s) :
          f[i] \in 1 .. 7 /\ s[i].text \in Time!UnitSet /\ Index(s[i].text) = f[i]
    BY <2>2, <2>3, UnitIndex
  <2> QED BY <2>1, <2>2, <2>3, <2>4 DEF Ordered
<1>2. ASSUME s # << >>, Ordered(s, Len(s))
      PROVE  Time!Follows(s, Time!Units)
  <2> DEFINE f == [i \in DOMAIN s |-> Index(s[i].text)]
  <2>1. DOMAIN Time!Units = 1 .. 7 /\ DOMAIN s = 1 .. Len(s)
    BY DEF Time!Units
  <2>2. f \in [DOMAIN s -> DOMAIN Time!Units]
    BY <1>2, <2>1, UnitIndex DEF Ordered
  <2>3. \A i, j \in DOMAIN s : i < j => f[i] < f[j]
    BY <1>2, <2>1 DEF Ordered
  <2>4. \A i \in DOMAIN s : s[i].n # Time!NoNumber /\ s[i].text = Time!Units[f[i]]
    BY <1>2, <2>1, UnitIndex DEF Ordered
  <2> QED BY <1>2, <2>2, <2>3, <2>4 DEF Time!Follows
<1> QED BY <1>1, <1>2

\* What has been read of s once the first k groups have been tried: i pieces,
\* and no piece is left that they should have read.
ReadTo(s, m, k, i) ==
  /\ i \in 0 .. Len(s)
  /\ m.rest \in Seq(AnyPiece) /\ Len(m.rest) = Len(s) - i
  /\ \A j \in 1 .. Len(m.rest) : m.rest[j] = s[i + j]
  /\ m.dict \in [Time!UnitSet -> Nat]
  /\ Ordered(s, i)
  /\ \A j \in 1 .. i : Index(s[j].text) <= k /\ m.dict[s[j].text] = s[j].n
  /\ Ordered(s, Len(s)) => \A j \in i + 1 .. Len(s) : Index(s[j].text) > k

LEMMA GroupReads ==
  ASSUME NEW s \in Seq(AnyPiece), NEW m, NEW k \in 1 .. 7, NEW i,
         ReadTo(s, m, k - 1, i)
  PROVE  \E l : ReadTo(s, Time!Group(m, Time!Units[k]), k, l)
<1> DEFINE u == Time!Units[k]
<1>1. u \in Time!UnitSet /\ Index(u) = k
  BY UnitIndex
<1>2. i \in 0 .. Len(s) /\ Len(s) \in Nat
  BY DEF ReadTo
<1> HIDE DEF u
<1>3. CASE m.rest # << >> /\ Head(m.rest).n # Time!NoNumber /\ Head(m.rest).text = u
  <2> DEFINE n == Head(m.rest).n
             g == [rest |-> Tail(m.rest), dict |-> [m.dict EXCEPT ![u] = n]]
  <2>1. Time!Group(m, u) = g
    BY <1>3 DEF Time!Group
  <2>2. i + 1 \in 1 .. Len(s) /\ Head(m.rest) = s[i + 1] /\ s[i + 1] \in AnyPiece
    BY <1>3 DEF ReadTo
  <2>3. n \in Nat
    BY <1>3, <2>2 DEF AnyPiece
  <2>4. g.rest = Tail(m.rest) /\ g.dict = [m.dict EXCEPT ![u] = n]
    OBVIOUS
  <2>5. n = s[i + 1].n /\ s[i + 1].text = u /\ s[i + 1].n # Time!NoNumber
    BY <1>3, <2>2
  <2> HIDE DEF n, g
  <2>6. /\ g.rest \in Seq(AnyPiece) /\ Len(g.rest) = Len(s) - (i + 1)
        /\ \A j \in 1 .. Len(g.rest) : g.rest[j] = s[(i + 1) + j]
    BY <1>2, <1>3, <2>4 DEF ReadTo
  <2>7. g.dict \in [Time!UnitSet -> Nat]
    BY <1>1, <2>3, <2>4 DEF ReadTo
  <2>8. \A j \in 1 .. i : s[j].text \in Time!UnitSet /\ Index(s[j].text) <= k - 1
    BY DEF ReadTo, Ordered
  <2>9. Ordered(s, i + 1)
    <3>1. \A j \in 1 .. i + 1 : j \in 1 .. i \/ j = i + 1
      BY <1>2
    <3>2. Ordered(s, i)
      BY DEF ReadTo
    <3>3. \A l \in 1 .. (i + 1) - 1 : Index(s[l].text) < Index(s[i + 1].text)
      <4> SUFFICES ASSUME NEW l \in 1 .. i
                   PROVE  Index(s[l].text) < Index(s[i + 1].text)
        BY <1>2
      <4>1. Index(s[l].text) \in 1 .. 7 /\ Index(s[l].text) <= k - 1
        BY <2>8, UnitIndex
      <4>2. Index(s[i + 1].text) = k
        BY <1>1, <2>5
      <4> QED BY <4>1, <4>2
    <3> QED BY <1>1, <2>5, <3>1, <3>2, <3>3 DEF Ordered
  <2>10. ASSUME NEW j \in 1 .. i + 1
         PROVE  Index(s[j].text) <= k /\ g.dict[s[j].text] = s[j].n
    <3>1. CASE j = i + 1
      BY <1>1, <2>4, <2>5, <3>1 DEF ReadTo
    <3>2. CASE j \in 1 .. i
      <4>1. s[j].text # u /\ Index(s[j].text) <= k
        BY <1>1, <2>8, <3>2, UnitIndex
      <4> QED BY <2>4, <2>8, <3>2, <4>1 DEF ReadTo
    <3> QED BY <1>2, <3>1, <3>2
  <2>11. ASSUME Ordered(s, Len(s)), NEW j \in i + 2 .. Len(s)
         PROVE  Index(s[j].text) > k
    BY <1>1, <1>2, <2>5, <2>11, UnitIndex DEF Ordered
  <2>12. i + 1 \in 0 .. Len(s)
    BY <2>2
  <2>13. ReadTo(s, g, k, i + 1)
    BY <1>2, <2>6, <2>7, <2>9, <2>10, <2>11, <2>12 DEF ReadTo
  <2> QED BY <2>1, <2>13 DEF u
<1>4. CASE ~(m.rest # << >> /\ Head(m.rest).n # Time!NoNumber /\ Head(m.rest).text = u)
  <2>1. Time!Group(m, u) = m
    BY <1>4 DEF Time!Group
  <2>2. ASSUME Ordered(s, Len(s)), NEW j \in i + 1 .. Len(s)
        PROVE  Index(s[j].text) > k
    <3>1. Index(s[i + 1].text) \in Nat /\ Index(s[i + 1].text) > k - 1
      <4>1. i + 1 \in 1 .. Len(s) /\ i + 1 \in i + 1 .. Len(s)
        BY <1>2, <2>2
      <4>2. s[i + 1].text \in Time!UnitSet
        BY <2>2, <4>1 DEF Ordered
      <4>3. Index(s[i + 1].text) > k - 1
        BY <2>2, <4>1 DEF ReadTo
      <4> QED BY <4>2, <4>3, UnitIndex
    <3>2. s[i + 1].text # u
      <4>1. i + 1 \in 1 .. Len(s) /\ 1 \in 1 .. Len(m.rest)
        BY <1>2, <2>2 DEF ReadTo
      <4>2. m.rest # << >> /\ Head(m.rest) = s[i + 1]
        BY <4>1 DEF ReadTo
      <4>3. s[i + 1].n # Time!NoNumber
        BY <2>2, <4>1 DEF Ordered
      <4> QED BY <1>4, <4>2, <4>3
    <3>3. Index(s[i + 1].text) # k
      BY <1>1, <1>2, <2>2, <3>2, UnitIndex DEF Ordered, u
    <3>4. j # i + 1 => Index(s[i + 1].text) < Index(s[j].text)
      BY <1>2, <2>2 DEF Ordered
    <3>5. Index(s[j].text) \in Nat
      BY <1>2, <2>2, UnitIndex DEF Ordered
    <3> QED BY <3>1, <3>3, <3>4, <3>5
  <2>3. ReadTo(s, m, k, i)
    <3>1. \A j \in 1 .. i : s[j].text \in Time!UnitSet
      BY DEF ReadTo, Ordered
    <3>2. ASSUME NEW j \in 1 .. i PROVE Index(s[j].text) <= k
      <4>1. Index(s[j].text) \in 1 .. 7 /\ Index(s[j].text) <= k - 1
        BY <3>1, UnitIndex DEF ReadTo
      <4> QED BY <4>1
    <3> QED BY <2>2, <3>2 DEF ReadTo
  <2> QED BY <2>1, <2>3 DEF u
<1> QED BY <1>3, <1>4

\* The whole expression.
LEMMA MatchReads ==
  ASSUME NEW s \in Seq(AnyPiece)
  PROVE  \E i : ReadTo(s, Time!Match(s), 7, i)
<1>0. ReadTo(s, Time!Unread(s), 0, 0)
  BY UnitIndex DEF ReadTo, Time!Unread, Ordered
<1>1. ASSUME NEW m, NEW k \in 0 .. 6, \E i : ReadTo(s, m, k, i)
      PROVE  \E i : ReadTo(s, Time!Group(m, Time!Units[k + 1]), k + 1, i)
  <2>1. k + 1 \in 1 .. 7 /\ (k + 1) - 1 = k
    OBVIOUS
  <2>2. PICK i : ReadTo(s, m, k, i)
    BY <1>1
  <2> QED BY <2>1, <2>2, GroupReads
<1>2. /\ Time!Units[0 + 1] = "y" /\ Time!Units[1 + 1] = "mon" /\ Time!Units[2 + 1] = "w"
      /\ Time!Units[3 + 1] = "d" /\ Time!Units[4 + 1] = "h" /\ Time!Units[5 + 1] = "min"
      /\ Time!Units[6 + 1] = "s"
  BY DEF Time!Units
<1> DEFINE y   == Time!Group(Time!Unread(s), "y")
           mon == Time!Group(y, "mon")
           w   == Time!Group(mon, "w")
           d   == Time!Group(w, "d")
           h   == Time!Group(d, "h")
           min == Time!Group(h, "min")
<1>3. \E i : ReadTo(s, y, 0 + 1, i)
  BY <1>0, <1>1, <1>2
<1> HIDE DEF y
<1>4. \E i : ReadTo(s, mon, 1 + 1, i)
  BY <1>1, <1>2, <1>3
<1> HIDE DEF mon
<1>5. \E i : ReadTo(s, w, 2 + 1, i)
  BY <1>1, <1>2, <1>4
<1> HIDE DEF w
<1>6. \E i : ReadTo(s, d, 3 + 1, i)
  BY <1>1, <1>2, <1>5
<1> HIDE DEF d
<1>7. \E i : ReadTo(s, h, 4 + 1, i)
  BY <1>1, <1>2, <1>6
<1> HIDE DEF h
<1>8. \E i : ReadTo(s, min, 5 + 1, i)
  BY <1>1, <1>2, <1>7
<1> HIDE DEF min
<1>9. \E i : ReadTo(s, Time!Group(min, "s"), 6 + 1, i)
  BY <1>1, <1>2, <1>8
<1>10. Time!Match(s) = Time!Group(min, "s")
  BY DEF Time!Match, Time!Date, y, mon, w, d, h, min
<1> QED BY <1>9, <1>10

LEMMA WrittenIsSeq ==
  ASSUME NEW s \in Time!Written
  PROVE  s \in Seq(AnyPiece)
<1>1. Time!Piece \subseteq AnyPiece
  BY ApartAssumption DEF Time!DurationAssumption, Time!Piece, AnyPiece
<1> QED
  BY <1>1, ApartAssumption DEF Time!DurationAssumption, Time!Written, Time!SeqOf

\* What parse_timedelta_string makes of any sequence of pieces.
LEMMA ParseReads ==
  ASSUME NEW s \in Seq(AnyPiece)
  PROVE  /\ Time!Parse(s) # Time!None <=> Time!Follows(s, Time!Units)
         /\ Time!Parse(s) # Time!None =>
              /\ Time!Parse(s) = Time!Match(s).dict
              /\ Time!Parse(s) \in [Time!UnitSet -> Nat]
              /\ \A i \in DOMAIN s : Time!Parse(s)[s[i].text] = s[i].n
<1> DEFINE m == Time!Match(s)
<1>1. PICK i : ReadTo(s, m, 7, i)
  BY MatchReads
<1> HIDE DEF m
<1>2. m.rest = << >> <=> i = Len(s)
  BY <1>1 DEF ReadTo
<1>3. i = Len(s) <=> Ordered(s, Len(s))
  <2>1. ASSUME Ordered(s, Len(s)), i # Len(s) PROVE FALSE
    <3>1. i + 1 \in 1 .. Len(s) /\ i + 1 \in i + 1 .. Len(s)
      BY <1>1, <2>1 DEF ReadTo
    <3>2. Index(s[i + 1].text) > 7
      BY <1>1, <2>1, <3>1 DEF ReadTo
    <3>3. Index(s[i + 1].text) \in 1 .. 7
      BY <2>1, <3>1, UnitIndex DEF Ordered
    <3> QED BY <3>2, <3>3
  <2> QED BY <1>1, <2>1 DEF ReadTo
<1>4. m.dict \in [Time!UnitSet -> Nat] /\ m.dict # Time!None
  <2>1. m.dict \in [Time!UnitSet -> Nat]
    BY <1>1 DEF ReadTo
  <2>2. "y" \in DOMAIN m.dict
    BY <2>1 DEF Time!UnitSet, Time!Units, Time!ToSet
  <2> QED BY <2>1, <2>2 DEF Time!None
<1>5. Time!Parse(s) = IF m.rest = << >> /\ s # << >> THEN m.dict ELSE Time!None
  BY DEF Time!Parse, Time!FullMatch, m
<1>6. Time!Parse(s) # Time!None <=> Time!Follows(s, Time!Units)
  BY <1>2, <1>3, <1>4, <1>5, FollowsIsOrdered
<1>7. ASSUME Time!Parse(s) # Time!None
      PROVE  Time!Parse(s) = m.dict /\ \A j \in DOMAIN s : m.dict[s[j].text] = s[j].n
  BY <1>1, <1>2, <1>5, <1>7 DEF ReadTo
<1> QED BY <1>4, <1>6, <1>7 DEF m

-----------------------------------------------------------------------------
(* The calendar.                                                           *)

\* The leap days before a year, counted from the year 1.
LeapDays(y) == (y - 1) \div 4 - (y - 1) \div 100 + (y - 1) \div 400

\* The day before the first one of a month.
Eve(y, m) == Time!DayNumber(y, m, 0)

LEMMA LeapYears ==
  ASSUME NEW y \in Int
  PROVE  /\ LeapDays(y) \in Int
         /\ LeapDays(y + 1) = LeapDays(y) + (IF Time!Leap(y) THEN 1 ELSE 0)
BY DEF LeapDays, Time!Leap

LEMMA LeapYearsApart ==
  ASSUME NEW y \in Int, NEW z \in Int, y <= z
  PROVE  /\ LeapDays(y) - 2 <= LeapDays(z)
         /\ LeapDays(z) <= LeapDays(y) + 7 * (z - y)
BY DEF LeapDays

LEMMA MonthLength ==
  ASSUME NEW y \in Int, NEW m \in 1 .. 12
  PROVE  Time!MonthDays(y, m) \in 28 .. 31
BY DEF Time!MonthDays

LEMMA EveIsInt ==
  ASSUME NEW y \in Int, NEW m \in 1 .. 12
  PROVE  Eve(y, m) \in Int
BY DEF Eve, Time!DayNumber, Time!DaysBefore

LEMMA EveAndDay ==
  ASSUME NEW y \in Int, NEW m \in 1 .. 12, NEW d \in Int
  PROVE  Time!DayNumber(y, m, d) = Eve(y, m) + d
BY DEF Eve, Time!DayNumber, Time!DaysBefore

LEMMA NextMonth ==
  ASSUME NEW y \in Int, NEW m \in 1 .. 11
  PROVE  Eve(y, m + 1) = Eve(y, m) + Time!MonthDays(y, m)
BY DEF Eve, Time!DayNumber, Time!DaysBefore, Time!MonthDays

LEMMA NextYear ==
  ASSUME NEW y \in Int
  PROVE  Eve(y + 1, 1) = Eve(y, 12) + Time!MonthDays(y, 12)
BY LeapYears DEF LeapDays, Eve, Time!DayNumber, Time!DaysBefore, Time!MonthDays

\* So many days are k months, whichever they are.
LEMMA MonthsApart ==
  ASSUME NEW y \in Int, NEW m \in 1 .. 12, NEW z \in Int, NEW n \in 1 .. 12,
         NEW k \in Nat, 12 * z + n = 12 * y + m + k
  PROVE  28 * k <= Eve(z, n) - Eve(y, m) /\ Eve(z, n) - Eve(y, m) <= 31 * k
<1> DEFINE leap == IF Time!Leap(y) THEN 1 ELSE 0
<1>1. /\ Eve(y, m) = 365 * (y - 1) + LeapDays(y) + Time!DaysBefore(y, m)
      /\ Eve(z, n) = 365 * (z - 1) + LeapDays(z) + Time!DaysBefore(z, n)
  BY DEF Eve, LeapDays, Time!DayNumber, Time!DaysBefore
<1>2. y <= z
  OBVIOUS
<1>3. CASE z = y
  <2>1. n = m + k
    BY <1>3
  <2>2. /\ 28 * k <= Time!DaysBefore(y, n) - Time!DaysBefore(y, m)
        /\ Time!DaysBefore(y, n) - Time!DaysBefore(y, m) <= 31 * k
    BY <2>1 DEF Time!DaysBefore
  <2> QED
    BY <1>1, <1>3, <2>2, LeapYears DEF Time!DaysBefore
<1>4. CASE z > y
  <2>1. /\ LeapDays(y) + leap - 2 <= LeapDays(z)
        /\ LeapDays(z) <= LeapDays(y) + leap + 7 * (z - y - 1)
    <3>1. LeapDays(y + 1) = LeapDays(y) + leap /\ LeapDays(y) \in Int
      BY LeapYears
    <3>2. /\ LeapDays(y + 1) - 2 <= LeapDays(z)
          /\ LeapDays(z) <= LeapDays(y + 1) + 7 * (z - (y + 1))
      BY <1>4, LeapYearsApart
    <3>3. leap \in 0 .. 1
      OBVIOUS
    <3> HIDE DEF leap
    <3> QED BY <3>1, <3>2, <3>3
  <2>2. /\ 31 * (m - 1) - 7 <= Time!DaysBefore(y, m) - leap
        /\ Time!DaysBefore(y, m) - leap <= 28 * (m - 1) + 26
    BY DEF Time!DaysBefore, leap
  <2>3. /\ 28 * (n - 1) <= Time!DaysBefore(z, n)
        /\ Time!DaysBefore(z, n) <= 31 * (n - 1)
    BY DEF Time!DaysBefore
  <2>4. leap \in 0 .. 1 /\ Time!DaysBefore(y, m) \in Int /\ Time!DaysBefore(z, n) \in Int
        /\ LeapDays(y) \in Int /\ LeapDays(z) \in Int
    BY LeapYears DEF Time!DaysBefore, leap
  <2> HIDE DEF leap
  <2>5. k = 12 * (z - y) + n - m
    OBVIOUS
  <2> QED
    BY <1>1, <1>4, <2>1, <2>2, <2>3, <2>4, <2>5
<1> QED BY <1>2, <1>3, <1>4

Valid(y, m, d) == y \in Nat \ {0} /\ m \in 1 .. 12 /\ d \in 1 .. Time!MonthDays(y, m)

LEMMA YearIsInt ==
  ASSUME NEW y, NEW m, NEW d, Valid(y, m, d)
  PROVE  y \in Int /\ m \in 1 .. 12
BY DEF Valid

\* The first day of all is that of the year 1.
LEMMA DayIsPositive ==
  ASSUME NEW y, NEW m, NEW d, Valid(y, m, d)
  PROVE  /\ Time!DayNumber(y, m, d) = Eve(y, m) + d
         /\ Time!DayNumber(y, m, d) \in Nat \ {0}
<1>1. y \in Int /\ m \in 1 .. 12
  BY YearIsInt
<1>2. Time!MonthDays(y, m) \in 28 .. 31 /\ Eve(y, m) \in Int
  BY <1>1, MonthLength, EveIsInt
<1>3. d \in Int /\ d >= 1
  BY <1>2 DEF Valid
<1>4. Time!DayNumber(y, m, d) = Eve(y, m) + d
  BY <1>1, <1>3, EveAndDay
<1>5. Eve(1, 1) = 0
  BY DEF Eve, Time!DayNumber, Time!DaysBefore
<1>6. PICK k \in Nat : 12 * y + m = 12 * 1 + 1 + k
  <2>1. 12 * y + m - 13 \in Nat
    BY <1>1 DEF Valid
  <2> QED BY <1>1, <2>1
<1>7. 28 * k <= Eve(y, m) - Eve(1, 1)
  <2>1. 1 \in Int /\ 1 \in 1 .. 12
    OBVIOUS
  <2> QED BY <1>1, <1>6, <2>1, MonthsApart
<1> QED BY <1>2, <1>3, <1>4, <1>5, <1>7

-----------------------------------------------------------------------------
(* The moment so long ago.                                                 *)

\* k months before a date: the year, the month and the day.
AgoIndex(y, m, k)  == 12 * y + m - 1 - k
AgoYear(y, m, k)   == AgoIndex(y, m, k) \div 12
AgoMonth(y, m, k)  == (AgoIndex(y, m, k) % 12) + 1
AgoDay(y, m, d, k) ==
  Time!DayNumber(AgoYear(y, m, k), AgoMonth(y, m, k),
                 Time!ClippedDay(AgoYear(y, m, k), AgoMonth(y, m, k), d))

LEMMA TimeagoIs ==
  ASSUME NEW t, NEW p
  PROVE  Time!Timeago(t, p) =
           LET k   == Time!MonthsOf(p)
               sec == t.sec - Time!SecsOf(p)
               day == AgoDay(t.year, t.month, t.day, k) - Time!DaysOf(p) + (sec \div Time!DaySecs)
           IN  IF AgoYear(t.year, t.month, k) < 1 \/ day < 1 THEN Time!None
               ELSE [day |-> day, sec |-> sec % Time!DaySecs]
BY DEF Time!Timeago, AgoIndex, AgoYear, AgoMonth, AgoDay

LEMMA AgoTyped ==
  ASSUME NEW y \in Int, NEW m \in 1 .. 12, NEW k \in Nat
  PROVE  /\ AgoYear(y, m, k) \in Int /\ AgoMonth(y, m, k) \in 1 .. 12
         /\ 12 * y + m = 12 * AgoYear(y, m, k) + AgoMonth(y, m, k) + k
BY DEF AgoIndex, AgoYear, AgoMonth

\* Between 28 and 31 days for each month, and before the year 1 the days are
\* not positive.
LEMMA AgoBounds ==
  ASSUME NEW year, NEW month, NEW day, Valid(year, month, day), NEW k \in Nat
  PROVE  /\ AgoDay(year, month, day, k) \in Int /\ AgoYear(year, month, k) \in Int
         /\ 28 * k <= Time!DayNumber(year, month, day) - AgoDay(year, month, day, k)
         /\ Time!DayNumber(year, month, day) - AgoDay(year, month, day, k) <= 31 * k
         /\ AgoDay(year, month, day, k) >= 1 => AgoYear(year, month, k) >= 1
<1> DEFINE y == AgoYear(year, month, k)
           m == AgoMonth(year, month, k)
           clipped == Time!ClippedDay(y, m, day)
           date == Time!DayNumber(year, month, day)
           ago  == AgoDay(year, month, day, k)
<1>1. /\ y \in Int /\ m \in 1 .. 12 /\ 12 * year + month = 12 * y + m + k
      /\ year \in Int /\ month \in 1 .. 12
  <2>1. year \in Int /\ month \in 1 .. 12
    BY YearIsInt
  <2> QED BY <2>1, AgoTyped
<1>2. ago = Time!DayNumber(y, m, clipped)
  BY DEF AgoDay
<1> HIDE DEF y, m
<1>3. /\ day \in 1 .. 31 /\ date = Eve(year, month) + day
      /\ Eve(year, month) \in Int /\ Eve(y, m) \in Int
      /\ Time!MonthDays(y, m) \in 28 .. 31
  <2>1. day \in 1 .. 31
    BY <1>1, MonthLength DEF Valid
  <2>2. day \in Int /\ Time!MonthDays(y, m) \in 28 .. 31
    BY <1>1, <2>1, MonthLength
  <2>3. date = Eve(year, month) + day
    BY <1>1, <2>2, EveAndDay
  <2>4. Eve(year, month) \in Int /\ Eve(y, m) \in Int
    BY <1>1, EveIsInt
  <2> QED BY <2>1, <2>2, <2>3, <2>4
<1>4. clipped <= Time!MonthDays(y, m) /\ clipped <= day /\ clipped \in Nat
      /\ (day <= Time!MonthDays(y, m) => clipped = day)
      /\ (day > Time!MonthDays(y, m) => clipped = Time!MonthDays(y, m))
  BY <1>3 DEF Time!ClippedDay
<1> HIDE DEF clipped, date, ago
<1>5. ago = Eve(y, m) + clipped
  BY <1>1, <1>2, <1>4, EveAndDay
<1>6. /\ 28 * k <= Eve(year, month) - Eve(y, m)
      /\ Eve(year, month) - Eve(y, m) <= 31 * k
  BY <1>1, MonthsApart
<1>7. PICK z \in Int, n \in 1 .. 12 :
        12 * z + n = 12 * y + m + 1 /\ Eve(z, n) = Eve(y, m) + Time!MonthDays(y, m)
  <2>1. CASE m < 12
    <3>1. m + 1 \in 1 .. 12 /\ m \in 1 .. 11
      BY <1>1, <2>1
    <3> QED BY <1>1, <3>1, NextMonth
  <2>2. CASE m = 12
    <3>1. y + 1 \in Int /\ 1 \in 1 .. 12
      BY <1>1
    <3> QED BY <1>1, <2>2, <3>1, NextYear
  <2> QED BY <1>1, <2>1, <2>2
<1>8. date - ago <= 31 * k
  <2>1. CASE k = 0
    <3>1. year = y /\ month = m
      BY <1>1, <2>1
    <3>2. day <= Time!MonthDays(y, m)
      BY <1>3, <3>1 DEF Valid
    <3> QED BY <1>3, <1>4, <1>5, <2>1, <3>1, <3>2
  <2>2. CASE k > 0
    <3>1. k - 1 \in Nat /\ 12 * year + month = 12 * z + n + (k - 1)
      BY <1>1, <1>7, <2>2
    <3>2. Eve(year, month) - Eve(z, n) <= 31 * (k - 1)
      BY <1>1, <3>1, MonthsApart
    <3> QED BY <1>3, <1>4, <1>5, <1>7, <2>2, <3>2
  <2> QED BY <2>1, <2>2
<1>9. ASSUME y < 1 PROVE ago < 1
  <2>1. Eve(1, 1) = 0
    BY DEF Eve, Time!DayNumber, Time!DaysBefore
  <2>2. PICK j \in Nat : 12 * 1 + 1 = 12 * z + n + j
    <3>1. 13 - 12 * z - n \in Nat
      BY <1>1, <1>7, <1>9
    <3> QED BY <3>1
  <2>3. 28 * j <= Eve(1, 1) - Eve(z, n)
    <3>1. 1 \in Int /\ 1 \in 1 .. 12
      OBVIOUS
    <3> QED BY <2>2, <3>1, MonthsApart
  <2> QED BY <1>3, <1>4, <1>5, <1>7, <2>1, <2>3
<1>10. 28 * k <= date - ago /\ ago \in Int
  BY <1>3, <1>4, <1>5, <1>6
<1> QED BY <1>1, <1>8, <1>9, <1>10 DEF y, date, ago

LEMMA DurationNumbers ==
  ASSUME NEW p \in [Time!UnitSet -> Nat]
  PROVE  Time!MonthsOf(p) \in Nat /\ Time!DaysOf(p) \in Nat /\ Time!SecsOf(p) \in Nat
<1>1. /\ p["y"] \in Nat /\ p["mon"] \in Nat /\ p["w"] \in Nat /\ p["d"] \in Nat
      /\ p["h"] \in Nat /\ p["min"] \in Nat /\ p["s"] \in Nat
  BY DEF Time!UnitSet, Time!Units, Time!ToSet
<1> QED BY <1>1 DEF Time!MonthsOf, Time!DaysOf, Time!SecsOf

LEMMA MomentIs ==
  ASSUME NEW t, Time!IsMoment(t)
  PROVE  /\ Valid(t.year, t.month, t.day) /\ t.sec \in Nat /\ t.sec < Time!DaySecs
         /\ Time!Moment(t) =
              [day |-> Time!DayNumber(t.year, t.month, t.day), sec |-> t.sec]
<1>1. Valid(t.year, t.month, t.day)
  <2>1. /\ t.year \in Nat \ {0} /\ t.month \in 1 .. 12 /\ t.day \in Nat \ {0}
        /\ t.day <= Time!MonthDays(t.year, t.month)
    BY DEF Time!IsMoment
  <2>2. Time!MonthDays(t.year, t.month) \in 28 .. 31
    BY <2>1, MonthLength
  <2> QED BY <2>1, <2>2 DEF Valid
<1> QED BY <1>1 DEF Time!IsMoment, Time!Moment

LEMMA SomeMoment ==
  ASSUME NEW d, NEW s
  PROVE  [day |-> d, sec |-> s] # Time!None
<1>1. "day" \in DOMAIN [day |-> d, sec |-> s] /\ "day" \notin DOMAIN << >>
  OBVIOUS
<1> QED BY <1>1 DEF Time!None

-----------------------------------------------------------------------------
(* The timeout of a cycle.                                                 *)

\* The days that some seconds take away from a moment within a day.
LEMMA DaysOfSecs ==
  ASSUME NEW s \in Nat, NEW sec \in Nat, sec < Time!DaySecs
  PROVE  /\ s \div Time!DaySecs \in Nat
         /\ (sec - s) \div Time!DaySecs \in Int
         /\ (sec - s) \div Time!DaySecs <= 0 - (s \div Time!DaySecs)
         /\ (sec - s) \div Time!DaySecs >= 0 - (s \div Time!DaySecs) - 1
BY SMT DEF Time!DaySecs

LEMMA CutOK ==
  ASSUME NEW t, Time!IsMoment(t), NEW b, Time!IsMoment(b),
         NEW p \in [Time!UnitSet -> Nat]
  PROVE  LET rto     == Time!Timeago(t, p)
             cut     == rto # Time!None /\ ~Time!Before(rto, Time!Moment(b))
             passed  == Time!Moment(t).day - Time!Moment(b).day
         IN  /\ cut => passed >= Time!Least(p)
             /\ passed > Time!Most(p) => cut
<1> DEFINE k     == Time!MonthsOf(p)
           d     == Time!DaysOf(p)
           s     == Time!SecsOf(p)
           date  == Time!DayNumber(t.year, t.month, t.day)
           first == Time!DayNumber(b.year, b.month, b.day)
           ago   == AgoDay(t.year, t.month, t.day, k)
           less  == (t.sec - s) \div Time!DaySecs
           most  == s \div Time!DaySecs
           day   == ago - d + less
           rto   == Time!Timeago(t, p)
<1>1. k \in Nat /\ d \in Nat /\ s \in Nat
  BY DurationNumbers
<1>2. /\ Time!Moment(t) = [day |-> date, sec |-> t.sec] /\ t.sec \in Nat /\ t.sec < Time!DaySecs
      /\ Time!Moment(b) = [day |-> first, sec |-> b.sec]
      /\ Valid(t.year, t.month, t.day) /\ Valid(b.year, b.month, b.day)
  BY MomentIs
<1>3. date \in Nat \ {0} /\ first \in Nat \ {0}
  BY <1>2, DayIsPositive
<1>4. /\ ago \in Int /\ AgoYear(t.year, t.month, k) \in Int
      /\ 28 * k <= date - ago /\ date - ago <= 31 * k
      /\ ago >= 1 => AgoYear(t.year, t.month, k) >= 1
  BY <1>1, <1>2, AgoBounds
<1>5. rto = IF AgoYear(t.year, t.month, k) < 1 \/ day < 1 THEN Time!None
            ELSE [day |-> day, sec |-> (t.sec - s) % Time!DaySecs]
  BY TimeagoIs
<1>6. /\ Time!Least(p) = 28 * k + d + most
      /\ Time!Most(p) = 31 * k + d + most + 1
  BY DEF Time!Least, Time!Most, most
<1>7. Time!Moment(t).day = date /\ Time!Moment(b).day = first
  BY <1>2
<1>8. most \in Nat /\ less \in Int /\ less <= 0 - most /\ less >= 0 - most - 1
  BY <1>1, <1>2, DaysOfSecs
<1> HIDE DEF k, d, s, date, first, ago, less, most, rto
<1>9. /\ day \in Int /\ (day >= 1 => ago >= 1)
      /\ day >= first => date - first >= 28 * k + d + most
      /\ date - first > 31 * k + d + most + 1 => day > first
  BY <1>1, <1>3, <1>4, <1>8
<1> HIDE DEF day
<1>10. ASSUME rto # Time!None, ~Time!Before(rto, Time!Moment(b))
       PROVE  date - first >= 28 * k + d + most
  <2>1. rto.day = day
    BY <1>5, <1>10
  <2>2. ~(day < first)
    BY <1>7, <1>10, <2>1 DEF Time!Before
  <2> QED BY <1>1, <1>3, <1>8, <1>9, <2>2
<1>11. ASSUME date - first > 31 * k + d + most + 1
       PROVE  rto # Time!None /\ ~Time!Before(rto, Time!Moment(b))
  <2>1. day > first /\ day >= 1
    BY <1>1, <1>3, <1>8, <1>9, <1>11
  <2>2. rto = [day |-> day, sec |-> (t.sec - s) % Time!DaySecs]
    BY <1>4, <1>5, <1>9, <2>1
  <2>3. rto # Time!None
    BY <2>2, SomeMoment
  <2>4. ~(day < first) /\ day # first
    BY <1>3, <1>9, <2>1
  <2>5. rto.day = day
    BY <2>2
  <2> QED BY <1>7, <2>3, <2>4, <2>5 DEF Time!Before
<1> QED BY <1>6, <1>7, <1>10, <1>11 DEF rto

-----------------------------------------------------------------------------
(* The clock.                                                              *)

\* The day after a date.
DayAfter(y, m, d, z, n, e) ==
  \/ z = y /\ n = m /\ e = d + 1
  \/ d = Time!MonthDays(y, m) /\ e = 1 /\ 12 * z + n = 12 * y + m + 1

LEMMA ClockMoves ==
  ASSUME NEW t, Time!IsMoment(t), NEW u,
         u = IF t.sec < Time!HalfDay THEN [t EXCEPT !.sec = @ + Time!HalfDay] ELSE Time!NextDay(t)
  PROVE  /\ Time!IsMoment(u)
         /\ \/ /\ u.year = t.year /\ u.month = t.month /\ u.day = t.day
               /\ u.sec = t.sec + Time!HalfDay
            \/ /\ DayAfter(t.year, t.month, t.day, u.year, u.month, u.day)
               /\ u.sec = t.sec - Time!HalfDay
<1> DEFINE y == t.year
           m == t.month
           d == t.day
<1>1. /\ Valid(y, m, d) /\ y \in Nat \ {0} /\ m \in 1 .. 12 /\ d \in Nat \ {0}
      /\ d <= Time!MonthDays(y, m) /\ t.sec \in Nat /\ t.sec < Time!DaySecs
      /\ t = [year |-> y, month |-> m, day |-> d, sec |-> t.sec]
  BY MomentIs DEF Time!IsMoment
<1>2. Time!MonthDays(y, m) \in 28 .. 31
  BY <1>1, MonthLength
<1>3. CASE t.sec < Time!HalfDay
  <2>1. u = [year |-> y, month |-> m, day |-> d, sec |-> t.sec + Time!HalfDay]
    BY <1>1, <1>3
  <2>2. t.sec + Time!HalfDay \in Nat /\ t.sec + Time!HalfDay < Time!DaySecs
    BY <1>1, <1>3, SMT DEF Time!HalfDay, Time!DaySecs
  <2> QED BY <1>1, <2>1, <2>2 DEF Time!IsMoment
<1>4. CASE ~(t.sec < Time!HalfDay)
  <2> DEFINE sec == t.sec - Time!HalfDay
  <2>1. sec \in Nat /\ sec < Time!DaySecs
    BY <1>1, <1>4, SMT DEF Time!HalfDay, Time!DaySecs
  <2>2. u = Time!NextDay(t)
    BY <1>4
  <2>3. CASE d < Time!MonthDays(y, m)
    <3>1. u = [year |-> y, month |-> m, day |-> d + 1, sec |-> sec]
      BY <1>1, <2>2, <2>3 DEF Time!NextDay
    <3> HIDE DEF sec
    <3>2. d + 1 \in Nat \ {0} /\ d + 1 <= Time!MonthDays(y, m)
      BY <1>1, <1>2, <2>3
    <3> QED BY <1>1, <2>1, <3>1, <3>2 DEF Time!IsMoment, DayAfter, sec
  <2>4. CASE ~(d < Time!MonthDays(y, m)) /\ m < 12
    <3>1. u = [year |-> y, month |-> m + 1, day |-> 1, sec |-> sec]
      BY <1>1, <2>2, <2>4 DEF Time!NextDay
    <3>2. d = Time!MonthDays(y, m) /\ y \in Int /\ m + 1 \in 1 .. 12
      BY <1>1, <1>2, <2>4
    <3>3. Time!MonthDays(y, m + 1) \in 28 .. 31
      BY <3>2, MonthLength
    <3>4. 12 * y + (m + 1) = 12 * y + m + 1 /\ 1 <= Time!MonthDays(y, m + 1)
      BY <1>1, <3>2, <3>3
    <3> HIDE DEF sec, y, m, d
    <3> QED BY <1>1, <2>1, <3>1, <3>2, <3>4 DEF Time!IsMoment, DayAfter, sec, y, m, d
  <2>5. CASE ~(d < Time!MonthDays(y, m)) /\ ~(m < 12)
    <3>1. u = [year |-> y + 1, month |-> 1, day |-> 1, sec |-> sec]
      BY <1>1, <2>2, <2>5 DEF Time!NextDay
    <3>2. d = Time!MonthDays(y, m) /\ y + 1 \in Nat \ {0} /\ m = 12
      BY <1>1, <1>2, <2>5
    <3>3. 1 \in 1 .. 12 /\ y + 1 \in Int
      BY <3>2
    <3>4. Time!MonthDays(y + 1, 1) \in 28 .. 31
      BY <3>3, MonthLength
    <3>5. 12 * (y + 1) + 1 = 12 * y + m + 1 /\ 1 <= Time!MonthDays(y + 1, 1)
      BY <1>1, <3>2, <3>4
    <3> QED BY <1>1, <2>1, <3>1, <3>2, <3>3, <3>5 DEF Time!IsMoment, DayAfter
  <2> QED BY <2>3, <2>4, <2>5
<1> QED BY <1>3, <1>4

LEMMA TypedTime ==
  /\ Time!Init => Time!TypeOK
  /\ Time!TypeOK /\ [PartNext]_partVars => Time!TypeOK'
<1>1. Time!Init => Time!TypeOK
  BY ApartAssumption DEF Time!DurationAssumption, Time!Init, Time!TypeOK
<1>2. ASSUME Time!TypeOK, [PartNext]_partVars PROVE Time!TypeOK'
  <2>1. CASE Time!Tick
    <3>1. Time!IsMoment(now)
      BY <1>2 DEF Time!TypeOK
    <3>2. Time!IsMoment(now')
      BY <2>1, <3>1, ClockMoves DEF Time!Tick
    <3> QED BY <1>2, <2>1, <3>2 DEF Time!Tick, Time!TypeOK, Time!IsMoment
  <2>2. CASE UNCHANGED Time!vars
    BY <1>2, <2>2 DEF Time!vars, Time!TypeOK, Time!IsMoment
  <2> QED BY <1>2, <2>1, <2>2, StepOfPart
<1> QED BY <1>1, <1>2

\* time.py:10-15: whatever numbers are written, the regular expression reads
\* exactly the format, and each number with its unit.
THEOREM FormatRead == PartSpec => []ParsesFormat
<1>1. Time!TypeOK => ParsesFormat
  BY WrittenIsSeq, ParseReads DEF Time!TypeOK, ParsesFormat, Time!ParsesFormat
<1>2. PartInit => Time!TypeOK
  BY TypedTime DEF PartInit
<1>3. Time!TypeOK /\ [PartNext]_partVars => Time!TypeOK'
  BY TypedTime
<1> QED BY <1>1, <1>2, <1>3, PTL DEF PartSpec, Parts

\* What is compared with the beginning of a cycle can be read.
LEMMA EffectiveReads ==
  ASSUME NEW s \in Seq(AnyPiece)
  PROVE  /\ Time!Parse(Time!Effective(s)) # Time!None
         /\ Time!Parse(Time!Effective(s)) \in [Time!UnitSet -> Nat]
<1>1. CASE Time!Parse(s) # Time!None
  BY <1>1, ParseReads DEF Time!Effective
<1>2. CASE Time!Parse(s) = Time!None
  <2>1. Time!Effective(s) = Time!DefaultTimeout
    BY <1>2 DEF Time!Effective
  <2>2. "min" \in Time!UnitSet /\ Time!NoNumber # 5
    BY DEF Time!UnitSet, Time!Units, Time!ToSet, Time!NoNumber
  <2>3. Time!DefaultTimeout \in Seq(AnyPiece) /\ Time!DefaultTimeout # << >>
    BY <2>2 DEF Time!DefaultTimeout, AnyPiece
  <2>4. Ordered(Time!DefaultTimeout, Len(Time!DefaultTimeout))
    BY <2>2 DEF Ordered, Time!DefaultTimeout
  <2> QED BY <2>1, <2>3, <2>4, FollowsIsOrdered, ParseReads
<1> QED BY <1>1, <1>2

\* manager.py:80-110: whatever is written and whenever a cycle began, it is not
\* cut before its time is over, and it is cut when that is over.
THEOREM CyclesAreCut == PartSpec => []CutInTime
<1>1. ASSUME Time!TypeOK PROVE Time!CutInTime
  <2> DEFINE p == Time!Parse(Time!Effective(setting))
  <2>1. p # Time!None /\ p \in [Time!UnitSet -> Nat]
    BY <1>1, WrittenIsSeq, EffectiveReads DEF Time!TypeOK
  <2>2. Time!TimeFromStr(now, Time!Effective(setting)) = Time!Timeago(now, p)
    BY <2>1 DEF Time!TimeFromStr
  <2>3. Time!IsMoment(now) /\ Time!IsMoment(begin)
    BY <1>1 DEF Time!TypeOK
  <2> DEFINE rto == Time!Timeago(now, p)
             cut == rto # Time!None /\ ~Time!Before(rto, Time!Moment(begin))
  <2>4. Time!CycleTimeout(now, setting) = cut
    BY <2>2 DEF Time!CycleTimeout
  <2> HIDE DEF p
  <2>5. /\ cut => Time!Elapsed >= Time!Least(p)
        /\ Time!Elapsed > Time!Most(p) => cut
    BY <2>1, <2>3, CutOK DEF Time!Elapsed
  <2> HIDE DEF cut
  <2> QED BY <2>4, <2>5 DEF Time!CutInTime, p
<1>2. PartInit => Time!TypeOK
  BY TypedTime DEF PartInit
<1>3. Time!TypeOK /\ [PartNext]_partVars => Time!TypeOK'
  BY TypedTime
<1> QED BY <1>1, <1>2, <1>3, PTL DEF PartSpec, Parts, CutInTime

\* The date so many months before does not go back with the date; with no months
\* it moves on with it.
LEMMA AgoMovesOn ==
  ASSUME NEW y, NEW m, NEW d, Valid(y, m, d), NEW z, NEW n, NEW e, Valid(z, n, e),
         DayAfter(y, m, d, z, n, e), NEW k \in Nat
  PROVE  /\ AgoYear(y, m, k) <= AgoYear(z, n, k)
         /\ AgoDay(y, m, d, k) <= AgoDay(z, n, e, k)
         /\ k = 0 => AgoDay(z, n, e, k) = AgoDay(y, m, d, k) + 1
<1> DEFINE y1 == AgoYear(y, m, k)
           m1 == AgoMonth(y, m, k)
           d1 == Time!ClippedDay(y1, m1, d)
           y2 == AgoYear(z, n, k)
           m2 == AgoMonth(z, n, k)
           d2 == Time!ClippedDay(y2, m2, e)
<1>1. y \in Int /\ m \in 1 .. 12 /\ z \in Int /\ n \in 1 .. 12
  BY YearIsInt
<1>2. /\ y1 \in Int /\ m1 \in 1 .. 12 /\ 12 * y + m = 12 * y1 + m1 + k
      /\ y2 \in Int /\ m2 \in 1 .. 12 /\ 12 * z + n = 12 * y2 + m2 + k
  BY <1>1, AgoTyped
<1>3. AgoDay(y, m, d, k) = Time!DayNumber(y1, m1, d1) /\ AgoDay(z, n, e, k) = Time!DayNumber(y2, m2, d2)
  BY DEF AgoDay
<1> HIDE DEF y1, m1, y2, m2
<1>4. /\ Time!MonthDays(y, m) \in 28 .. 31 /\ Time!MonthDays(z, n) \in 28 .. 31
      /\ Time!MonthDays(y1, m1) \in 28 .. 31 /\ Time!MonthDays(y2, m2) \in 28 .. 31
  BY <1>1, <1>2, MonthLength
<1>5. d \in 1 .. Time!MonthDays(y, m) /\ e \in 1 .. Time!MonthDays(z, n)
  BY DEF Valid
<1>6. /\ d1 \in Int /\ d2 \in Int
      /\ d1 <= d /\ d1 <= Time!MonthDays(y1, m1)
      /\ d <= Time!MonthDays(y1, m1) => d1 = d
      /\ d > Time!MonthDays(y1, m1) => d1 = Time!MonthDays(y1, m1)
      /\ e <= Time!MonthDays(y2, m2) => d2 = e
      /\ e > Time!MonthDays(y2, m2) => d2 = Time!MonthDays(y2, m2)
  BY <1>4, <1>5 DEF Time!ClippedDay
<1> HIDE DEF d1, d2
<1>7. /\ AgoDay(y, m, d, k) = Eve(y1, m1) + d1 /\ AgoDay(z, n, e, k) = Eve(y2, m2) + d2
      /\ Eve(y1, m1) \in Int /\ Eve(y2, m2) \in Int
  BY <1>2, <1>3, <1>6, EveAndDay, EveIsInt
<1>8. k = 0 => y1 = y /\ m1 = m /\ y2 = z /\ m2 = n
  BY <1>1, <1>2
<1>9. CASE z = y /\ n = m /\ e = d + 1
  <2>1. y1 = y2 /\ m1 = m2
    BY <1>1, <1>2, <1>9
  <2>2. d1 <= d2
    BY <1>4, <1>5, <1>6, <1>9, <2>1
  <2>3. k = 0 => d1 = d /\ d2 = e
    BY <1>4, <1>5, <1>6, <1>8
  <2> QED BY <1>2, <1>5, <1>6, <1>7, <1>9, <2>1, <2>2, <2>3 DEF y1, y2
<1>10. CASE d = Time!MonthDays(y, m) /\ e = 1 /\ 12 * z + n = 12 * y + m + 1
  <2>1. 12 * y2 + m2 = 12 * y1 + m1 + 1
    BY <1>1, <1>2, <1>10
  <2>2. y1 <= y2
    BY <1>2, <2>1
  <2>3. Eve(y2, m2) = Eve(y1, m1) + Time!MonthDays(y1, m1)
    <3>1. CASE m1 < 12
      <4>1. y2 = y1 /\ m2 = m1 + 1 /\ m1 \in 1 .. 11
        BY <1>2, <2>1, <3>1
      <4> QED BY <1>2, <4>1, NextMonth
    <3>2. CASE m1 = 12
      <4>1. y2 = y1 + 1 /\ m2 = 1
        BY <1>2, <2>1, <3>2
      <4> QED BY <1>2, <3>2, <4>1, NextYear
    <3> QED BY <1>2, <3>1, <3>2
  <2>4. d2 = 1
    BY <1>4, <1>6, <1>10
  <2>5. k = 0 => d1 = Time!MonthDays(y1, m1)
    BY <1>4, <1>6, <1>8, <1>10
  <2> QED BY <1>4, <1>6, <1>7, <2>2, <2>3, <2>4, <2>5 DEF y1, y2
<1> QED BY <1>9, <1>10 DEF DayAfter

\* Half a day on the line of time.
LEMMA HalfADay ==
  ASSUME NEW x \in Int, NEW y \in Int
  PROVE  /\ x \div Time!DaySecs \in Int /\ y \div Time!DaySecs \in Int
         /\ x % Time!DaySecs \in Nat /\ y % Time!DaySecs \in Nat
         /\ y = x + Time!HalfDay =>
              \/ x \div Time!DaySecs < y \div Time!DaySecs
              \/ x \div Time!DaySecs = y \div Time!DaySecs /\ x % Time!DaySecs < y % Time!DaySecs
         /\ y = x - Time!HalfDay =>
              \/ x \div Time!DaySecs < y \div Time!DaySecs + 1
              \/ /\ x \div Time!DaySecs = y \div Time!DaySecs + 1
                 /\ x % Time!DaySecs < y % Time!DaySecs
BY SMT DEF Time!DaySecs, Time!HalfDay

\* manager.py:328-349: for whatever is written, the threshold of what
\* is kept never goes back by a day, nor at all unless months are counted, and it
\* does not stop being one.
THEOREM ThresholdsAdvance == PartSpec => ThresholdAdvances
<1>1. ASSUME Time!TypeOK, [PartNext]_partVars
      PROVE  [LET old == Time!TimeFromStr(now, setting)
                  new == Time!TimeFromStr(now', setting)
                  p   == Time!Parse(setting)
              IN /\ old # Time!None /\ (old.day = 1 => Time!MonthsOf(p) = 0) => new # Time!None
                 /\ old # Time!None /\ new # Time!None =>
                      /\ Time!Before(old, [new EXCEPT !.day = @ + 1])
                      /\ Time!MonthsOf(p) = 0 => Time!Before(old, new)]_(Time!vars)
  <2> DEFINE old == Time!TimeFromStr(now, setting)
             new == Time!TimeFromStr(now', setting)
             p   == Time!Parse(setting)
  <2> SUFFICES ASSUME Time!Tick, old # Time!None
               PROVE  /\ (old.day = 1 => Time!MonthsOf(p) = 0) => new # Time!None
                      /\ new # Time!None =>
                           /\ Time!Before(old, [new EXCEPT !.day = @ + 1])
                           /\ Time!MonthsOf(p) = 0 => Time!Before(old, new)
    BY <1>1, StepOfPart
  <2>1. /\ p \in [Time!UnitSet -> Nat] /\ old = Time!Timeago(now, p) /\ new = Time!Timeago(now', p)
    <3>1. p # Time!None
      BY DEF Time!TimeFromStr
    <3> QED BY <1>1, <3>1, WrittenIsSeq, ParseReads DEF Time!TypeOK, Time!TimeFromStr
  <2>2. /\ Time!IsMoment(now) /\ Time!IsMoment(now')
        /\ \/ /\ now'.year = now.year /\ now'.month = now.month /\ now'.day = now.day
              /\ now'.sec = now.sec + Time!HalfDay
           \/ /\ DayAfter(now.year, now.month, now.day, now'.year, now'.month, now'.day)
              /\ now'.sec = now.sec - Time!HalfDay
    BY <1>1, ClockMoves DEF Time!TypeOK, Time!Tick
  <2> HIDE DEF p, old, new
  <2> DEFINE k    == Time!MonthsOf(p)
             d    == Time!DaysOf(p)
             s    == Time!SecsOf(p)
             x    == now.sec - s
             y    == now'.sec - s
             qx   == x \div Time!DaySecs
             qy   == y \div Time!DaySecs
             rx   == x % Time!DaySecs
             ry   == y % Time!DaySecs
             ago  == AgoDay(now.year, now.month, now.day, k)
             next == AgoDay(now'.year, now'.month, now'.day, k)
             from == AgoYear(now.year, now.month, k)
             to   == AgoYear(now'.year, now'.month, k)
  <2>3. /\ old = IF from < 1 \/ ago - d + qx < 1 THEN Time!None
                 ELSE [day |-> ago - d + qx, sec |-> rx]
        /\ new = IF to < 1 \/ next - d + qy < 1 THEN Time!None
                 ELSE [day |-> next - d + qy, sec |-> ry]
    BY <2>1, TimeagoIs
  <2>4. k \in Nat /\ d \in Nat /\ s \in Nat
    BY <2>1, DurationNumbers
  <2>5. /\ Valid(now.year, now.month, now.day) /\ now.sec \in Nat
        /\ Valid(now'.year, now'.month, now'.day) /\ now'.sec \in Nat
    BY <2>2, MomentIs
  <2>6. ago \in Int /\ next \in Int /\ from \in Int /\ to \in Int
    BY <2>4, <2>5, AgoBounds
  <2>7. \/ ago = next /\ from = to /\ now'.sec = now.sec + Time!HalfDay
        \/ /\ from <= to /\ ago <= next /\ (k = 0 => next = ago + 1)
           /\ now'.sec = now.sec - Time!HalfDay
    <3>1. CASE /\ now'.year = now.year /\ now'.month = now.month /\ now'.day = now.day
               /\ now'.sec = now.sec + Time!HalfDay
      BY <3>1
    <3>2. CASE /\ DayAfter(now.year, now.month, now.day, now'.year, now'.month, now'.day)
               /\ now'.sec = now.sec - Time!HalfDay
      <4>1. from <= to /\ ago <= next /\ (k = 0 => next = ago + 1)
        BY <2>4, <2>5, <3>2, AgoMovesOn
      <4> QED BY <3>2, <4>1
    <3> QED BY <2>2, <3>1, <3>2
  <2>8. /\ qx \in Int /\ qy \in Int /\ rx \in Nat /\ ry \in Nat
        /\ y = x + Time!HalfDay => qx < qy \/ (qx = qy /\ rx < ry)
        /\ y = x - Time!HalfDay => qx < qy + 1 \/ (qx = qy + 1 /\ rx < ry)
    <3>1. x \in Int /\ y \in Int
      BY <2>4, <2>5
    <3> HIDE DEF x, y
    <3> QED BY <3>1, HalfADay
  <2>9. \/ ago = next /\ from = to /\ (qx < qy \/ (qx = qy /\ rx < ry))
        \/ /\ from <= to /\ ago <= next /\ (k = 0 => next = ago + 1)
           /\ qx < qy + 1 \/ (qx = qy + 1 /\ rx < ry)
    <3>1. Time!HalfDay \in Nat
      BY DEF Time!HalfDay
    <3>2. now'.sec = now.sec + Time!HalfDay => y = x + Time!HalfDay
      BY <2>4, <2>5, <3>1
    <3>3. now'.sec = now.sec - Time!HalfDay => y = x - Time!HalfDay
      BY <2>4, <2>5, <3>1
    <3> HIDE DEF x, y, qx, qy, rx, ry, ago, next, from, to, k
    <3> QED BY <2>7, <2>8, <3>2, <3>3
  <2> HIDE DEF k, d, s, x, y, qx, qy, rx, ry, ago, next, from, to
  <2> DEFINE u == ago - d + qx
             v == next - d + qy
  <2>10. /\ u \in Int /\ v \in Int
         /\ u < v + 1 \/ (u = v + 1 /\ rx < ry)
         /\ k = 0 => u < v \/ (u = v /\ rx < ry)
    BY <2>4, <2>6, <2>8, <2>9
  <2>11. from >= 1 /\ u >= 1 /\ old = [day |-> u, sec |-> rx]
    BY <2>3, <2>6, <2>10
  <2>12. to >= 1
    BY <2>6, <2>9, <2>11
  <2>13. new # Time!None => new = [day |-> v, sec |-> ry]
    BY <2>3
  <2>14. (u = 1 => k = 0) => v >= 1
    BY <2>8, <2>10, <2>11
  <2>15. ASSUME old.day = 1 => k = 0 PROVE new # Time!None
    <3>1. v >= 1
      BY <2>11, <2>14, <2>15
    <3>2. new = [day |-> v, sec |-> ry]
      BY <2>3, <2>6, <2>10, <2>12, <3>1
    <3> QED BY <3>2, SomeMoment
  <2>16. ASSUME new # Time!None
         PROVE  /\ Time!Before(old, [new EXCEPT !.day = @ + 1])
                /\ k = 0 => Time!Before(old, new)
    <3> HIDE DEF u, v
    <3>1. [new EXCEPT !.day = @ + 1] = [day |-> v + 1, sec |-> ry]
      BY <2>13, <2>16
    <3> QED BY <2>10, <2>11, <2>13, <2>16, <3>1 DEF Time!Before
  <2> QED BY <2>15, <2>16 DEF k
<1>2. PartInit => Time!TypeOK
  BY TypedTime DEF PartInit
<1>3. Time!TypeOK /\ [PartNext]_partVars => Time!TypeOK'
  BY TypedTime
<1> QED
  BY <1>1, <1>2, <1>3, PTL DEF PartSpec, Parts, ThresholdAdvances, Time!ThresholdAdvances
================================================================================
