---------------------------- MODULE RotationProofs ----------------------------
(***************************************************************************)
(* No ended backup is in Cinder without a record: the job removes a record *)
(* only after Cinder has answered that the backup is gone, and Cinder does *)
(* not bring a backup back.                                                *)
(***************************************************************************)
EXTENDS Rotation, TLAPS

USE RotationAssumption

LEMMA Ages == /\ 0 \in Age /\ NoRow \notin Age
              /\ \A a \in Age : Older(a) \in Age
BY DEF Age, Older

LEMMA InitOK == Init => Inductive
BY DEF Init, Inductive, TypeOK, RecordedWhileInCinder, Ended, InCinder, Recorded, Backup

LEMMA NextOK ==
  ASSUME Inductive, [Next]_vars
  PROVE  Inductive'
<1>0. TypeOK BY DEF Inductive
<1> USE DEF Inductive, TypeOK, RecordedWhileInCinder, Ended, InCinder, Recorded
<1>1. ASSUME NEW b \in Backup, Complete(b) PROVE Inductive'
  <2>1. /\ cinder[b] = "creating"
        /\ cinder' \in {[cinder EXCEPT ![b] = "available"],
                        [cinder EXCEPT ![b] = "deleting"]}
        /\ record' = [record EXCEPT ![b] = 0]
        /\ UNCHANGED <<parent, instance, pc, map, todo, visited, hand>>
    BY <1>1 DEF Complete, VolumeBackup, job
  <2> QED BY <1>0, <2>1, Ages
<1>13. ASSUME NEW b \in Backup, Create(b) PROVE Inductive'
  <2>1. /\ cinder[b] = "absent"
        /\ cinder' = [cinder EXCEPT ![b] = "creating"]
        /\ UNCHANGED <<instance, record, pc, map, todo, visited, hand>>
    BY <1>13 DEF Create, NextId, job
  <2>2. parent' \in [Backup -> Backup \cup {0}]
    BY <1>0, <1>13 DEF Create
  <2> QED BY <1>0, <2>1, <2>2
<1>2. ASSUME NEW b \in Backup, CinderDeletes(b) PROVE Inductive'
  BY <1>0, <1>2 DEF CinderDeletes, job
<1>3. CASE Tick
  BY <1>0, <1>3, Ages DEF Tick, backups, job
<1>4. CASE Start
  BY <1>0, <1>4 DEF Start, Goto, backups
<1>5. CASE Collect
  <2>1. /\ map' \subseteq Instance
        /\ \/ pc' = "projects" /\ UNCHANGED <<todo, visited, hand>>
           \/ pc' = "rest" /\ todo' = {} /\ visited' = {} /\ hand' = 0
        /\ UNCHANGED <<backups, record>>
    BY <1>0, <1>5 DEF Collect, Goto, Rest
  <2> QED BY <1>0, <2>1 DEF backups
<1>6. CASE ListProjects
  BY <1>0, <1>6 DEF ListProjects, Goto, Rest, backups
<1>7. CASE ListBackups
  BY <1>0, <1>7 DEF ListBackups, Goto, backups
<1>8. CASE Visit
  BY <1>0, <1>8 DEF Visit, First, Goto, Rest, backups
<1>9. CASE Get
  BY <1>0, <1>9 DEF Get, Goto, backups
<1>10. CASE Delete
  BY <1>0, <1>10 DEF Delete, Deletable, Goto
<1>11. CASE Remove
  BY <1>0, <1>11 DEF Remove, Goto, backups
<1>12. CASE UNCHANGED vars
  BY <1>0, <1>12 DEF vars, backups, job
<1> QED
  BY <1>1, <1>2, <1>3, <1>4, <1>5, <1>6, <1>7, <1>8, <1>9, <1>10, <1>11, <1>12,
     <1>13
  DEF Next, Rotate

\* The job removes only records of backups that have left Cinder.
THEOREM AlwaysInductive == Spec => []Inductive
BY InitOK, NextOK, PTL DEF Spec

\* README.md:85-86, for any instances, backups and retentions, whatever request
\* is refused or fails.
THEOREM RecordsKept == Spec => []RecordedWhileInCinder
<1>1. Inductive => RecordedWhileInCinder
  BY DEF Inductive
<1> QED BY <1>1, InitOK, NextOK, PTL DEF Spec

-----------------------------------------------------------------------------
\* What the job knows of the backup it is about to delete: it has expired by the
\* retention its instance asks for.
Chosen ==
  Recorded(hand) /\ Retention(hand) \in Nat /\ record[hand] > Retention(hand)

Ripe ==
  /\ Inductive
  /\ pc \in {"rest", "collect", "projects", "list"} => hand = 0
  /\ \A b \in todo : Recorded(b) /\ b # hand
  /\ pc \in {"get", "delete"} => Chosen

\* The job has had the retentions of all instances.
MapRead ==
  pc \in {"rest", "collect"} \/ map = {i \in Instance : Custom[i] # Unset}

LEMMA ZeroIsNoBackup == 0 \notin Backup
BY DEF Backup

\* A backup that the job judges is older than its retention, as the time is
\* not behind UTC.
LEMMA JudgedExpired ==
  ASSUME Zone \in Nat, TypeOK, NEW b \in Backup, Recorded(b),
         map = {i \in Instance : Custom[i] # Unset},
         Known(b) # Empty, IsRetention(b)
  PROVE  Retention(b) \in Nat /\ record[b] > Retention(b)
<1>1. record[b] \in Age /\ instance[b] \in Instance
  BY DEF TypeOK, Recorded
<1>2. Known(b) = Retention(b)
  BY <1>1 DEF Known, Retention
<1>3. Known(b) \in Usable
  BY <1>1 DEF Known
<1> QED BY <1>1, <1>2, <1>3 DEF IsRetention, Usable, Age

LEMMA OlderExpired ==
  ASSUME NEW a \in Age, NEW r \in Nat, a > r
  PROVE  Older(a) \in Age /\ Older(a) > r
BY DEF Age, Older

LEMMA MapReadNext ==
  ASSUME "servers" \notin Faults, MapRead, [Next]_vars
  PROVE  MapRead'
<1>1. CASE Collect
  BY <1>1 DEF Collect, Goto, Rest, MapRead
<1>2. CASE Start \/ ListProjects \/ ListBackups \/ Visit \/ Get \/ Delete \/ Remove
  BY <1>2 DEF Start, ListProjects, ListBackups, Visit, Get, Delete, Remove, Goto,
              Rest, MapRead
<1>3. CASE Tick \/ (\E b \in Backup : Create(b) \/ Complete(b) \/ CinderDeletes(b))
           \/ UNCHANGED vars
  BY <1>3 DEF Tick, Create, Complete, CinderDeletes, job, vars, MapRead
<1> QED BY <1>1, <1>2, <1>3 DEF Next, Rotate

LEMMA RipeNext ==
  ASSUME Zone \in Nat, MapRead, Ripe, [Next]_vars
  PROVE  Ripe'
<1>0. /\ Inductive /\ Inductive' /\ TypeOK /\ TypeOK'
  BY NextOK DEF Ripe, Inductive
<1> USE DEF Goto, Recorded
<1>1. ASSUME NEW b \in Backup, Complete(b) PROVE Ripe'
  <2>1. /\ record' = [record EXCEPT ![b] = 0] /\ cinder[b] = "creating"
        /\ UNCHANGED <<instance, pc, map, todo, visited, hand>>
    BY <1>1 DEF Complete, VolumeBackup, job
  <2>2. b \notin todo /\ (pc \in {"get", "delete"} => b # hand)
    BY <1>0, <2>1 DEF Inductive, TypeOK
  <2> QED BY <1>0, <2>1, <2>2, Ages
          DEF Ripe, Chosen, Retention, Inductive, TypeOK
<1>2. ASSUME NEW b \in Backup, CinderDeletes(b) PROVE Ripe'
  BY <1>0, <1>2 DEF CinderDeletes, job, Ripe, Chosen, Retention
<1>11. ASSUME NEW b \in Backup, Create(b) PROVE Ripe'
  BY <1>0, <1>11 DEF Create, job, Ripe, Chosen, Retention
<1>3. CASE Tick
  <2>1. UNCHANGED <<instance, pc, map, todo, visited, hand>>
    BY <1>3 DEF Tick, backups, job
  <2>2. ASSUME NEW b \in Backup, Recorded(b)
        PROVE  Recorded(b)' /\ record'[b] = Older(record[b]) /\ record[b] \in Age
    BY <1>0, <1>3, <2>2, Ages DEF Tick, TypeOK
  <2>3. pc \in {"get", "delete"} => Chosen'
    <3>1. SUFFICES ASSUME pc \in {"get", "delete"} PROVE Chosen'
      OBVIOUS
    <3>2. hand \in Backup /\ Chosen
      BY <1>0, <3>1 DEF Ripe, Inductive
    <3>3. Retention(hand)' = Retention(hand)
      BY <2>1 DEF Retention
    <3>4. record'[hand] > Retention(hand)
      BY <2>2, <3>2, OlderExpired DEF Chosen
    <3> QED BY <2>1, <2>2, <3>2, <3>3, <3>4 DEF Chosen
  <2>4. \A b \in todo : Recorded(b)'
    BY <1>0, <2>2 DEF Ripe, TypeOK
  <2> QED BY <1>0, <2>1, <2>3, <2>4 DEF Ripe
<1>4. CASE Start \/ Collect \/ ListProjects
  BY <1>0, <1>4 DEF Start, Collect, ListProjects, Rest, Ripe
<1>5. CASE ListBackups
  BY <1>0, <1>5, ZeroIsNoBackup DEF ListBackups, Ripe
<1>6. CASE Visit
  <2>1. CASE Rest
    BY <1>0, <1>6, <2>1 DEF Rest, Ripe
  <2>2. ASSUME NEW b \in Backup, First(b), Known(b) # Empty,
               todo' = todo \ {b}, UNCHANGED <<backups, record, map>>,
               IF IsRetention(b) THEN hand' = b /\ pc' = "get"
                                 ELSE UNCHANGED <<hand, pc>>
        PROVE  Ripe'
    <3>1. Recorded(b) /\ map = {i \in Instance : Custom[i] # Unset}
      BY <1>6, <2>2 DEF Visit, First, Ripe, MapRead
    <3>2. CASE IsRetention(b)
      <4>1. Retention(b) \in Nat /\ record[b] > Retention(b)
        BY <1>0, <2>2, <3>1, <3>2, JudgedExpired
      <4> QED BY <1>0, <2>2, <3>1, <3>2, <4>1
              DEF Ripe, Chosen, Retention, backups
    <3>3. CASE ~IsRetention(b)
      BY <1>0, <1>6, <2>2, <3>3 DEF Visit, Ripe
    <3> QED BY <3>2, <3>3
  <2> QED BY <1>6, <2>1, <2>2 DEF Visit
<1>7. CASE Get
  BY <1>0, <1>7 DEF Get, Ripe, Chosen, Retention, backups
<1>8. CASE Delete
  BY <1>0, <1>8 DEF Delete, Ripe
<1>9. CASE Remove
  BY <1>0, <1>9 DEF Remove, Ripe, TypeOK
<1>10. CASE UNCHANGED vars
  BY <1>0, <1>10 DEF vars, backups, job, Ripe, Chosen, Retention
<1> QED
  BY <1>1, <1>2, <1>3, <1>4, <1>5, <1>6, <1>7, <1>8, <1>9, <1>10, <1>11
  DEF Next, Rotate

\* Only Delete asks Cinder for a deletion of a backup with a record.
LEMMA WhoAsks ==
  ASSUME Inductive, Next, NEW b \in Backup, DeletionAsked(b)
  PROVE  b = hand /\ pc = "delete"
<1>0. TypeOK BY DEF Inductive
<1>1. ASSUME NEW c \in Backup, Complete(c) PROVE FALSE
  <2>1. cinder[c] = "creating" /\ \A d \in Backup \ {c} : cinder'[d] = cinder[d]
    BY <1>0, <1>1 DEF Complete, TypeOK
  <2> QED BY <2>1 DEF DeletionAsked, Inductive
<1>5. ASSUME NEW c \in Backup, Create(c) PROVE FALSE
  BY <1>0, <1>5 DEF Create, DeletionAsked, TypeOK
<1>2. ASSUME NEW c \in Backup, CinderDeletes(c) PROVE FALSE
  BY <1>0, <1>2 DEF CinderDeletes, DeletionAsked, TypeOK
<1>3. CASE Tick \/ Start \/ Collect \/ ListProjects \/ ListBackups \/ Visit \/ Get
           \/ Remove
  BY <1>3 DEF Tick, Start, Collect, ListProjects, ListBackups, Visit, Get, Remove,
              backups, DeletionAsked
<1>4. CASE Delete
  BY <1>0, <1>4 DEF Delete, DeletionAsked, TypeOK
<1> QED BY <1>1, <1>2, <1>3, <1>4, <1>5 DEF Next, Rotate

LEMMA RipeInit == Init => Ripe /\ MapRead
BY InitOK DEF Init, Ripe, MapRead, Chosen

\* README.md:79-80, for any retentions, instances and backups, as long as the
\* list of servers can be fetched and the conductors' time is not behind UTC: no
\* backup is deleted before the retention that its instance asks for has passed.
THEOREM UnexpiredKept ==
  ASSUME "servers" \notin Faults, Zone \in Nat
  PROVE  Spec => KeepsUnexpired
<1>1. MapRead /\ Ripe /\ [Next]_vars => (MapRead /\ Ripe)'
  BY MapReadNext, RipeNext
<1>2. Ripe /\ [Next]_vars =>
        [\A b \in Backup : DeletionAsked(b) => record[b] > Retention(b)]_vars
  BY WhoAsks DEF Ripe, Chosen
<1> QED BY <1>1, <1>2, RipeInit, PTL DEF Spec, KeepsUnexpired

-----------------------------------------------------------------------------
\* No newer backup of its volume is left when one is about to be deleted.
InOrder ==
  pc \in {"get", "delete"} =>
    \A c \in todo : instance[c] = instance[hand] => c <= hand

LEMMA InOrderNext ==
  ASSUME InOrder, [Next]_vars
  PROVE  InOrder'
<1> USE DEF Goto, Rest, InOrder
<1>1. CASE Visit
  BY <1>1 DEF Visit, First, backups
<1>2. CASE Start \/ Collect \/ ListProjects \/ ListBackups
  BY <1>2 DEF Start, Collect, ListProjects, ListBackups
<1>3. CASE Get \/ Delete \/ Remove
  BY <1>3 DEF Get, Delete, Remove, backups
<1>4. CASE Tick \/ (\E b \in Backup : Create(b) \/ Complete(b) \/ CinderDeletes(b))
           \/ UNCHANGED vars
  BY <1>4 DEF Tick, Create, Complete, CinderDeletes, job, backups, vars
<1> QED BY <1>1, <1>2, <1>3, <1>4 DEF Next, Rotate

\* README.md:88, for any retentions, instances and backups, whatever request
\* fails: a newer expired backup of the same volume is visited before.
THEOREM NewestGoesFirst == Spec => NewestFirst
<1>1. Inductive /\ InOrder /\ [Next]_vars =>
        [\A b, c \in Backup :
           /\ DeletionAsked(b)
           /\ instance[c] = instance[b] /\ c > b /\ c \in todo
           => ~IsRetention(c)]_vars
  BY WhoAsks DEF InOrder, Backup
<1>2. Init => InOrder
  BY DEF Init, InOrder
<1> QED BY <1>1, <1>2, InitOK, NextOK, InOrderNext, PTL DEF Spec, NewestFirst

=============================================================================
