------------------------------- MODULE Migration -------------------------------
(***************************************************************************)
(* staffeln-db-manage on several hosts, against one MySQL database:        *)
(* create_schema makes the tables that are missing as the models have them *)
(* now, upgrade runs the alembic revisions after the one on record.  Each  *)
(* statement that changes the schema commits on its own, and nothing keeps *)
(* two commands apart.                                                     *)
(***************************************************************************)
EXTENDS Naturals, Sequences, SequencesExt

CONSTANTS
  Host,
  Command,   \* the commands in use: "create_schema", "upgrade"
  Target,    \* the revisions that upgrade may be told to stop at, the head too
  Installed, \* the databases there are at first: <<v, u>> for one at revision v,
             \* 0 being before the first, whose tables a release as of revision
             \* u has made, and << >> for one without tables
  Faults     \* {"crash"} when commands may be killed

\* What upgrade() of each revision adds, in the order of down_revision.
Revisions ==
  << <<"queue_data.volume_name", "queue_data.instance_name">>,   \* 041d9a0f1159
     <<"backup_data.incremental", "queue_data.incremental">>,    \* ebdbed01e9a7
     <<"queue_data.reason">>,                                    \* 2b2b9df199bd
     <<"report_timestamp">> >>                                   \* 5b2e78435231

LastRev == Len(Revisions)

\* The tables of the models, with the columns the revisions know of.
Tables == {"queue_data", "backup_data", "report_timestamp"}
Model(t) ==
  CASE t = "queue_data"       -> {t, "queue_data.volume_name", "queue_data.instance_name",
                                  "queue_data.incremental", "queue_data.reason"}
    [] t = "backup_data"      -> {t, "backup_data.incremental"}
    [] t = "report_timestamp" -> {t}

VARIABLES
  schema,   \* the tables and columns there are
  version,  \* the row of alembic_version, 0 when there is none
  pc,       \* the command of each host: none, create_schema, upgrade
  todo,     \* the tables it has found missing
  at,       \* the revision it runs, how many of its statements are done, and
            \* the revision it is to stop at
  failed    \* the last command of the host ended in an exception

MigrationAssumption ==
  /\ Target \subseteq 0 .. LastRev
  /\ Installed \subseteq {<< >>} \cup {w \in (0 .. LastRev) \X (0 .. LastRev) : w[1] <= w[2]}

vars == <<schema, version, pc, todo, at, failed>>

Items   == Tables \cup UNION {ToSet(Revisions[r]) : r \in 1 .. LastRev}
UpTo(v) == UNION {ToSet(Revisions[r]) : r \in 1 .. v}

TypeOK ==
  /\ schema \subseteq Items /\ version \in 0 .. LastRev
  /\ pc \in [Host -> {"none", "create_schema", "upgrade"}]
  /\ todo \in [Host -> SUBSET Tables]
  /\ at \in [Host -> [rev: 1 .. LastRev + 1, done: 0 .. 2, to: 0 .. LastRev]]
  /\ failed \in [Host -> BOOLEAN]

Idle == [rev |-> 1, done |-> 0, to |-> 0]

Init ==
  /\ \E i \in Installed :
       IF i = << >> THEN schema = {} /\ version = 0
       ELSE version = i[1] /\ schema = {"queue_data", "backup_data"} \cup UpTo(i[2])
  /\ pc = [h \in Host |-> "none"] /\ todo = [h \in Host |-> {}]
  /\ at = [h \in Host |-> Idle] /\ failed = [h \in Host |-> FALSE]

Ends(h, raised) ==
  /\ pc' = [pc EXCEPT ![h] = "none"] /\ todo' = [todo EXCEPT ![h] = {}]
  /\ at' = [at EXCEPT ![h] = Idle] /\ failed' = [failed EXCEPT ![h] = raised]

-----------------------------------------------------------------------------
\* create_all looks for all tables before it creates the first one.
CreateSchema(h) ==
  /\ pc[h] = "none" /\ "create_schema" \in Command
  /\ pc' = [pc EXCEPT ![h] = "create_schema"]
  /\ todo' = [todo EXCEPT ![h] = Tables \ schema]
  /\ UNCHANGED <<schema, version, at, failed>>

CreateTable(h) ==
  /\ pc[h] = "create_schema"
  /\ \/ /\ todo[h] = {} /\ Ends(h, FALSE) /\ UNCHANGED schema
     \/ \E t \in todo[h] :
          IF t \in schema THEN Ends(h, TRUE) /\ UNCHANGED schema
          ELSE /\ schema' = schema \cup Model(t)
               /\ todo' = [todo EXCEPT ![h] = @ \ {t}]
               /\ UNCHANGED <<pc, at, failed>>
  /\ UNCHANGED version

\* alembic reads the version once and runs every revision after it, up to the
\* one it is given or the head.
Upgrade(h) ==
  /\ pc[h] = "none" /\ "upgrade" \in Command
  /\ pc' = [pc EXCEPT ![h] = "upgrade"]
  /\ \E r \in Target :
       at' = [at EXCEPT ![h] = [rev |-> version + 1, done |-> 0, to |-> r]]
  /\ UNCHANGED <<schema, version, todo, failed>>

Rev(h) == Revisions[at[h].rev]

\* The table a statement needs.
Needs(x) ==
  IF \E t \in Tables : x = t THEN {}
  ELSE {t \in Tables : x \in Model(t)}

\* One op.add_column or op.create_table, which raises when its column or table
\* is there already, or the table it alters is not.
Apply(h) ==
  /\ pc[h] = "upgrade" /\ at[h].rev <= at[h].to /\ at[h].done < Len(Rev(h))
  /\ LET x == Rev(h)[at[h].done + 1] IN
       IF x \notin schema /\ Needs(x) \subseteq schema
         THEN /\ schema' = schema \cup {x}
              /\ at' = [at EXCEPT ![h].done = @ + 1]
              /\ UNCHANGED <<pc, todo, failed>>
         ELSE Ends(h, TRUE) /\ UNCHANGED schema
  /\ UNCHANGED version

\* Mutant of Stamp: only one revision is run.
StampOnce(h) ==
  /\ pc[h] = "upgrade" /\ at[h].rev <= at[h].to /\ at[h].done = Len(Rev(h))
  /\ version' = IF version = at[h].rev - 1 THEN at[h].rev ELSE version
  /\ Ends(h, version # at[h].rev - 1)
  /\ UNCHANGED schema

\* Mutant of Stamp: the version moves on before the last statement of a revision.
StampEarly(h) ==
  /\ pc[h] = "upgrade" /\ at[h].rev <= at[h].to /\ at[h].done + 1 >= Len(Rev(h))
  /\ IF version = at[h].rev - 1
       THEN /\ version' = at[h].rev
            /\ at' = [at EXCEPT ![h] = [rev |-> @.rev + 1, done |-> 0, to |-> @.to]]
            /\ UNCHANGED <<pc, todo, failed>>
       ELSE Ends(h, TRUE) /\ UNCHANGED version
  /\ UNCHANGED schema

\* The version moves on when a revision has run, and from the one before only.
Stamp(h) ==
  /\ pc[h] = "upgrade" /\ at[h].rev <= at[h].to /\ at[h].done = Len(Rev(h))
  /\ IF version = at[h].rev - 1
       THEN /\ version' = at[h].rev
            /\ at' = [at EXCEPT ![h] = [rev |-> @.rev + 1, done |-> 0, to |-> @.to]]
            /\ UNCHANGED <<pc, todo, failed>>
       ELSE Ends(h, TRUE) /\ UNCHANGED version
  /\ UNCHANGED schema

UpgradeDone(h) ==
  /\ pc[h] = "upgrade" /\ at[h].rev > at[h].to /\ Ends(h, FALSE)
  /\ UNCHANGED <<schema, version>>

Crash(h) ==
  /\ "crash" \in Faults /\ pc[h] # "none" /\ Ends(h, TRUE)
  /\ UNCHANGED <<schema, version>>

Step(h) == CreateTable(h) \/ Apply(h) \/ Stamp(h) \/ UpgradeDone(h)

Next == \E h \in Host : CreateSchema(h) \/ Upgrade(h) \/ Step(h) \/ Crash(h)

Spec == Init /\ [][Next]_vars

-----------------------------------------------------------------------------
\* The version on record is never ahead of the schema, however commands overlap
\* and wherever they are killed: a database that alembic takes for upgraded has
\* the columns the services use.
VersionTells == TypeOK /\ UpTo(version) \subseteq schema

\* The invariant behind it: an upgrade starts from a version that tells the
\* truth, and what it has added stays.
Inductive ==
  /\ VersionTells
  /\ \A h \in Host : pc[h] = "upgrade" =>
       /\ UpTo(at[h].rev - 1) \subseteq schema
       /\ at[h].rev <= LastRev => \A i \in 1 .. at[h].done : Rev(h)[i] \in schema

\* Upgrades to the same revision that run at the same time make one another
\* fail, but not all of them: in the end the database is upgraded.
UpgradeCompletes ==
  \A h \in Host, r \in Target :
    pc[h] = "upgrade" /\ at[h].to = r ~> version >= r

\* "Can be used for initial installation" says create_schema of itself, and
\* alembic/README:3 "Upgrade can be performed by: staffeln-dbmanage upgrade": where
\* the tables are there, an upgrade succeeds.
UpgradeSucceeds ==
  [][\A h \in Host :
       pc[h] = "upgrade" /\ pc'[h] = "none" /\ Tables \subseteq schema
         => ~failed'[h]]_vars
=============================================================================
