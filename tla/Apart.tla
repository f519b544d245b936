--------------------------------- MODULE Apart ---------------------------------
(***************************************************************************)
(* Four parts that share no state with the others: a call of OpenstackSDK, *)
(* the policy API, a written duration, and the migration of the schema,    *)
(* which is watched twice, with every command and with upgrades only.  A   *)
(* behaviour is about one of them, and the others stay as they are.        *)
(***************************************************************************)
EXTENDS OpenstackCall

CONSTANTS
  Request, PolicyFaults,                       \* as in PolicyApi
  Number, MaxPieces, Starts, Days,             \* as in Duration
  Host, Command, Target, Installed, Faults     \* as in Migration

VARIABLES
  part,                                                  \* the one watched
  stored, task, recorded, request, marked, blind, up, probe,   \* PolicyApi
  setting, begin, now,                                   \* Duration
  schema, version, pc, todo, at, failed                  \* Migration

policy    == <<stored, task, recorded, request, marked, blind, up, probe>>
duration  == <<setting, begin, now>>
migration == <<schema, version, pc, todo, at, failed>>
partVars  == <<part, vars, policy, duration, migration>>

Policy   == INSTANCE PolicyApi WITH backup <- stored, Faults <- PolicyFaults
Time     == INSTANCE Duration
Commands == INSTANCE Migration
Upgrades ==
  INSTANCE Migration WITH
    Command <- {"upgrade"}, Target <- {4},
    Installed <- {<<v, v>> : v \in 0 .. 4}, Faults <- {}

ASSUME ApartAssumption == Time!DurationAssumption /\ Commands!MigrationAssumption

PartInit ==
  /\ part \in {"call", "policy", "duration", "commands", "upgrades"}
  /\ Init
  /\ part # "call" => op = "create_backup"
  /\ Policy!Init
  /\ Time!Init
  /\ part # "duration" => setting = << >> /\ begin = CHOOSE t \in Starts : TRUE
  /\ IF part = "upgrades" THEN Upgrades!Init ELSE Commands!Init
  /\ part \notin {"commands", "upgrades"} => schema = {}

OnUpgrades == part = "upgrades" /\ UNCHANGED <<part, vars, policy, duration>>

PartNext ==
  \/ part = "call" /\ Next /\ UNCHANGED <<part, policy, duration, migration>>
  \/ part = "policy" /\ Policy!Next /\ UNCHANGED <<part, vars, duration, migration>>
  \/ part = "duration" /\ Time!Tick /\ UNCHANGED <<part, vars, policy, migration>>
  \/ part = "commands" /\ Commands!Next /\ UNCHANGED <<part, vars, policy, duration>>
  \/ OnUpgrades /\ Upgrades!Next

Parts == PartInit /\ [][PartNext]_partVars

PartSpec == Parts /\ \A h \in Host : WF_partVars(OnUpgrades /\ Upgrades!Step(h))

-----------------------------------------------------------------------------
\* README.md:154: a request made when the backup has its record, and answered
\* while the database can be read, never deletes the backup.
KeptOnceRecorded == Policy!KeptOnceRecorded

\* time.py:10-15: the regular expression reads exactly the format, each number
\* with its unit.
ParsesFormat == part = "duration" => Time!ParsesFormat

\* README.md:53-55: a cycle is cut when its time is over and not before.
CutInTime == part = "duration" => Time!CutInTime

\* manager.py:328-349: the retention threshold moves on with the clock.
ThresholdAdvances == Time!ThresholdAdvances

\* migration.py:34-53: alembic's version is never ahead of the schema.
VersionTells == Commands!VersionTells

\* env.py:40-51: upgrades that run at the same time make one another fail, but
\* in the end the database is upgraded.
UpgradeCompletes == part = "upgrades" => Upgrades!UpgradeCompletes
=============================================================================
