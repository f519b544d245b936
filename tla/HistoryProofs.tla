----------------------------- MODULE HistoryProofs -----------------------------
(***************************************************************************)
(* Every step of the planner, the workers and the job is one of Rotation.  *)
(* The order of the backups is kept because what a chain has in Cinder is  *)
(* not taken out of its middle: the newest available backup has between it *)
(* and its full one just those that are available, so that when all rows   *)
(* have their backup the rows tell how deep it is.                         *)
(***************************************************************************)
EXTENDS History, FiniteSetTheorems, TLAPS

USE HistoryAssumption

\* One step of History at a time.
LEMMA StepIsRotation ==
  ASSUME [Next]_vars
  PROVE  [Rotation!Next]_(Rotation!vars)
<1> USE DEF vars, backups, job, Rotation!vars, Rotation!backups, Rotation!job
<1>1. CASE Plan
  BY <1>1 DEF Plan
<1>2. CASE \E t \in Task : Start(t) \/ Complete(t)
  BY <1>2 DEF Start, Complete, Rotation!Next, Backup
<1>3. CASE Rotate \/ Environment
  BY <1>3 DEF Rotate, Environment, Rotation!Next, Backup
<1>4. CASE UNCHANGED vars
  BY <1>4
<1> QED BY <1>1, <1>2, <1>3, <1>4 DEF Next

\* README.md:82, for any depth, interval, retention and number of backups: the
\* planner and the workers only let backups come in as Rotation expects.
THEOREM RotationImplemented == Spec => IsRotation
<1>1. Init => Rotation!Init
  BY DEF Init
<1> QED BY <1>1, StepIsRotation, PTL DEF Spec, IsRotation, Rotation!Spec

-----------------------------------------------------------------------------
(* The backups and rows, as in RotationProofs.                             *)

LEMMA RotationInit == Rotation!Init => Rotation!Inductive
BY DEF Rotation!Init, Rotation!Inductive, Rotation!TypeOK, Rotation!RecordedWhileInCinder,
   Rotation!Ended, Rotation!InCinder, Rotation!Recorded, Rotation!Backup

LEMMA Ages ==
  /\ 0 \in Rotation!Age /\ NoRow \notin Rotation!Age
  /\ \A a \in Rotation!Age : Rotation!Older(a) \in Rotation!Age
BY DEF Rotation!Age, Rotation!Older

\* What a step does to the backups and their rows.
Stands == UNCHANGED <<cinder, parent, record>>
Creates(b) ==
  /\ cinder[b] = "absent" /\ cinder' = [cinder EXCEPT ![b] = "creating"]
  /\ \A c \in Backup : c < b => cinder[c] \notin {"absent", "creating"}
  /\ \/ parent' = parent
     \/ \E c \in Backup :
          /\ cinder[c] = "available" /\ \A d \in Backup : cinder[d] = "available" => d <= c
          /\ parent' = [parent EXCEPT ![b] = c]
  /\ UNCHANGED record
Records(b) ==
  /\ cinder[b] = "creating" /\ UNCHANGED parent
  /\ \E s \in {"available", "deleting"} : cinder' = [cinder EXCEPT ![b] = s]
  /\ record' = [record EXCEPT ![b] = 0]
Leaves(b) ==
  /\ cinder[b] = "deleting" /\ UNCHANGED <<parent, record>>
  /\ \E s \in {"gone", "error"} : cinder' = [cinder EXCEPT ![b] = s]
Asked(b) ==
  /\ cinder[b] \in {"available", "error"} /\ UNCHANGED <<parent, record>>
  /\ \A c \in Backup : parent[c] = b => ~Rotation!InCinder(c)
  /\ cinder' = [cinder EXCEPT ![b] = "deleting"]
Forgets(b) ==
  cinder[b] = "gone" /\ record' = [record EXCEPT ![b] = NoRow] /\ UNCHANGED <<cinder, parent>>
GetOlder ==
  /\ UNCHANGED <<cinder, parent>>
  /\ record' = [b \in Backup |-> IF Recorded(b) THEN Rotation!Older(record[b]) ELSE NoRow]

LEMMA Effects ==
  ASSUME Rotation!Inductive, [Rotation!Next]_(Rotation!vars)
  PROVE  \/ Stands \/ GetOlder
         \/ \E b \in Backup : Creates(b) \/ Records(b) \/ Leaves(b) \/ Asked(b) \/ Forgets(b)
<1>0. Backup = Rotation!Backup /\ Backup = 1 .. MaxBackups
  BY DEF Backup, Rotation!Backup
<1>1. ASSUME NEW b \in Backup, Rotation!Create(b) PROVE Creates(b)
  BY <1>0, <1>1 DEF Rotation!Create, Rotation!NextId, Rotation!Idle, Rotation!Latest, Creates
<1>2. ASSUME NEW b \in Backup, Rotation!Complete(b) PROVE Records(b)
  BY <1>0, <1>2 DEF Rotation!Complete, Rotation!VolumeBackup, Records
<1>3. ASSUME NEW b \in Backup, Rotation!CinderDeletes(b) PROVE Leaves(b)
  BY <1>0, <1>3 DEF Rotation!CinderDeletes, Leaves
<1>4. CASE Rotation!Tick
  BY <1>0, <1>4 DEF Rotation!Tick, Rotation!backups, Rotation!Recorded, Recorded, GetOlder
<1>5. CASE Rotation!Start \/ Rotation!Collect \/ Rotation!ListProjects \/ Rotation!ListBackups
           \/ Rotation!Visit \/ Rotation!Get
  BY <1>5 DEF Rotation!Start, Rotation!Collect, Rotation!ListProjects, Rotation!ListBackups,
              Rotation!Visit, Rotation!Get, Rotation!backups, Stands
<1>6. CASE Rotation!Delete
  BY <1>0, <1>6 DEF Rotation!Delete, Rotation!Deletable, Rotation!Inductive, Stands, Asked
<1>7. CASE Rotation!Remove
  BY <1>0, <1>7 DEF Rotation!Remove, Rotation!Inductive, Rotation!backups, Forgets
<1>8. CASE UNCHANGED Rotation!vars
  BY <1>8 DEF Rotation!vars, Rotation!backups, Stands
<1> QED
  BY <1>0, <1>1, <1>2, <1>3, <1>4, <1>5, <1>6, <1>7, <1>8 DEF Rotation!Next, Rotation!Rotate

LEMMA RotationNext ==
  ASSUME Rotation!Inductive, [Rotation!Next]_(Rotation!vars)
  PROVE  Rotation!Inductive'
<1>0. /\ Rotation!TypeOK /\ \A i \in {Volume} : i = Volume
      /\ [b \in 1 .. MaxBackups |-> Volume] \in [Rotation!Backup -> {Volume}]
  BY DEF Rotation!Inductive, Rotation!Backup
<1> USE DEF Rotation!Inductive, Rotation!TypeOK, Rotation!RecordedWhileInCinder, Rotation!Ended,
            Rotation!InCinder, Rotation!Recorded
<1>1. ASSUME NEW b \in Rotation!Backup, Rotation!Complete(b) PROVE Rotation!Inductive'
  <2>1. /\ cinder[b] = "creating"
        /\ cinder' \in {[cinder EXCEPT ![b] = "available"], [cinder EXCEPT ![b] = "deleting"]}
        /\ record' = [record EXCEPT ![b] = 0]
        /\ UNCHANGED <<parent, at, map, todo, visited, hand>>
    BY <1>1 DEF Rotation!Complete, Rotation!VolumeBackup, Rotation!job
  <2> QED BY <1>0, <2>1, Ages
<1>2. ASSUME NEW b \in Rotation!Backup, Rotation!Create(b) PROVE Rotation!Inductive'
  <2>1. /\ cinder[b] = "absent"
        /\ cinder' = [cinder EXCEPT ![b] = "creating"]
        /\ UNCHANGED <<record, at, map, todo, visited, hand>>
    BY <1>2 DEF Rotation!Create, Rotation!NextId, Rotation!job
  <2>2. parent' \in [Rotation!Backup -> Rotation!Backup \cup {0}]
    BY <1>0, <1>2 DEF Rotation!Create
  <2> QED BY <1>0, <2>1, <2>2
<1>3. ASSUME NEW b \in Rotation!Backup, Rotation!CinderDeletes(b) PROVE Rotation!Inductive'
  BY <1>0, <1>3 DEF Rotation!CinderDeletes, Rotation!job
<1>4. CASE Rotation!Tick
  BY <1>0, <1>4, Ages DEF Rotation!Tick, Rotation!backups, Rotation!job
<1>5. CASE Rotation!Start
  BY <1>0, <1>5 DEF Rotation!Start, Rotation!Goto, Rotation!backups
<1>6. CASE Rotation!Collect
  <2>1. /\ map' \subseteq {Volume}
        /\ \/ at' = "projects" /\ UNCHANGED <<todo, visited, hand>>
           \/ at' = "rest" /\ todo' = {} /\ visited' = {} /\ hand' = 0
        /\ UNCHANGED <<cinder, parent, record>>
    BY <1>0, <1>6 DEF Rotation!Collect, Rotation!Goto, Rotation!Rest, Rotation!backups
  <2> QED BY <1>0, <2>1
<1>7. CASE Rotation!ListProjects
  BY <1>0, <1>7 DEF Rotation!ListProjects, Rotation!Goto, Rotation!Rest, Rotation!backups
<1>8. CASE Rotation!ListBackups
  BY <1>0, <1>8 DEF Rotation!ListBackups, Rotation!Goto, Rotation!backups
<1>9. CASE Rotation!Visit
  BY <1>0, <1>9 DEF Rotation!Visit, Rotation!First, Rotation!Goto, Rotation!Rest, Rotation!backups
<1>10. CASE Rotation!Get
  BY <1>0, <1>10 DEF Rotation!Get, Rotation!Goto, Rotation!backups
<1>11. CASE Rotation!Delete
  BY <1>0, <1>11 DEF Rotation!Delete, Rotation!Deletable, Rotation!Goto
<1>12. CASE Rotation!Remove
  BY <1>0, <1>12 DEF Rotation!Remove, Rotation!Goto, Rotation!backups
<1>13. CASE UNCHANGED Rotation!vars
  BY <1>0, <1>13 DEF Rotation!vars, Rotation!backups, Rotation!job
<1> QED
  BY <1>1, <1>2, <1>3, <1>4, <1>5, <1>6, <1>7, <1>8, <1>9, <1>10, <1>11, <1>12, <1>13
  DEF Rotation!Next, Rotation!Rotate

-----------------------------------------------------------------------------
(* How deep a backup is, where p says what each one is built upon.  The    *)
(* function is known because backups come one after the other, so that it  *)
(* only grows by the depth of the last one.                                *)

Solves(f, p)  == f = [b \in Backup |-> IF p[b] = 0 THEN 0 ELSE 1 + f[p[b]]]
IsDepth(F, p) == F \in [Backup -> Nat] /\ \A f : Solves(f, p) <=> f = F
DepthKnown(p) == \E F : IsDepth(F, p)

LEMMA DepthSolves ==
  ASSUME DepthKnown(parent)
  PROVE  IsDepth(Rotation!Depth, parent)
<1>1. PICK F : IsDepth(F, parent)
  BY DEF DepthKnown
<1>2. Rotation!Depth = CHOOSE f : Solves(f, parent)
  BY DEF Rotation!Depth, Solves, Backup
<1>3. (CHOOSE f : Solves(f, parent)) = F
  BY <1>1 DEF IsDepth
<1> QED BY <1>1, <1>2, <1>3

LEMMA DepthSolvesNext ==
  ASSUME NEW F, IsDepth(F, parent')
  PROVE  Rotation!Depth' = F
<1>1. Rotation!Depth' = CHOOSE f : Solves(f, parent')
  BY DEF Rotation!Depth, Solves, Backup
<1>2. (CHOOSE f : Solves(f, parent')) = F
  BY DEF IsDepth
<1> QED BY <1>1, <1>2

LEMMA ZeroIsNoBackup == 0 \notin Backup
BY DEF Backup, Rotation!Backup

LEMMA FullOnesAreKnown ==
  ASSUME NEW p, \A b \in Backup : p[b] = 0
  PROVE  DepthKnown(p)
<1> DEFINE F == [b \in Backup |-> 0]
<1>1. IsDepth(F, p)
  BY DEF IsDepth, Solves
<1> QED BY <1>1 DEF DepthKnown

\* The first backup upon another that none is built upon itself.
LEMMA DepthGrows ==
  ASSUME NEW p \in [Backup -> Backup \cup {0}], NEW F, IsDepth(F, p),
         NEW b \in Backup, p[b] = 0, \A d \in Backup : p[d] # b,
         NEW c \in Backup, c # b
  PROVE  IsDepth([F EXCEPT ![b] = 1 + F[c]], [p EXCEPT ![b] = c])
<1> DEFINE q == [p EXCEPT ![b] = c]
           G == [F EXCEPT ![b] = 1 + F[c]]
<1>0. F \in [Backup -> Nat] /\ \A f : Solves(f, p) <=> f = F
  BY DEF IsDepth
<1>1. Solves(F, p)
  BY <1>0
<1>2. G \in [Backup -> Nat]
  BY <1>0
<1>3. /\ q \in [Backup -> Backup \cup {0}] /\ q[b] = c
      /\ \A d \in Backup \ {b} : q[d] = p[d]
      /\ G[b] = 1 + F[c] /\ \A d \in Backup \ {b} : G[d] = F[d]
      /\ \A d \in Backup \ {b} : p[d] # 0 => p[d] \in Backup \ {b}
  BY <1>0
<1> HIDE DEF q, G
<1>4. \A d \in Backup : F[d] = IF p[d] = 0 THEN 0 ELSE 1 + F[p[d]]
  BY <1>1 DEF Solves
<1>5. Solves(G, q)
  <2>1. ASSUME NEW d \in Backup PROVE G[d] = IF q[d] = 0 THEN 0 ELSE 1 + G[q[d]]
    <3>1. CASE d = b
      BY <1>3, <3>1, ZeroIsNoBackup
    <3>2. CASE d # b
      BY <1>3, <1>4, <3>2
    <3> QED BY <3>1, <3>2
  <2> QED BY <1>2, <2>1 DEF Solves
<1>6. ASSUME NEW f, Solves(f, q) PROVE f = G
  <2>1. f = [d \in Backup |-> IF q[d] = 0 THEN 0 ELSE 1 + f[q[d]]]
    BY <1>6 DEF Solves
  <2> DEFINE g == [f EXCEPT ![b] = 0]
  <2>2. /\ g = [d \in Backup |-> IF d = b THEN 0 ELSE f[d]]
        /\ \A d \in Backup : f[d] = IF q[d] = 0 THEN 0 ELSE 1 + f[q[d]]
    BY <2>1
  <2>3. g[b] = 0 /\ \A d \in Backup \ {b} : g[d] = f[d]
    BY <2>2
  <2> HIDE DEF g
  <2>4. ASSUME NEW d \in Backup PROVE g[d] = IF p[d] = 0 THEN 0 ELSE 1 + g[p[d]]
    BY <1>3, <2>2, <2>3
  <2>5. Solves(g, p)
    BY <2>2, <2>4 DEF Solves
  <2>6. g = F
    BY <1>0, <2>5
  <2>7. ASSUME NEW d \in Backup PROVE f[d] = G[d]
    BY <1>3, <2>2, <2>3, <2>6, ZeroIsNoBackup
  <2>8. G = [d \in Backup |-> G[d]] /\ f = [d \in Backup |-> f[d]]
    BY <1>2, <2>1
  <2> QED BY <2>7, <2>8
<1> QED BY <1>2, <1>5, <1>6 DEF IsDepth, q, G

-----------------------------------------------------------------------------
(* The rows by their age.                                                  *)

LEMMA Above ==
  ASSUME NEW R \in SUBSET Nat, NEW b \in R, NEW c \in R, b < c
  PROVE  /\ {x \in R : x > c} \in SUBSET {x \in R : x > b}
         /\ c \in {x \in R : x > b} /\ c \notin {x \in R : x > c}
<1>1. b \in Nat /\ c \in Nat
  OBVIOUS
<1>2. ASSUME NEW x \in R, x > c PROVE x > b
  <2>1. x \in Nat
    OBVIOUS
  <2> QED BY <1>1, <1>2, <2>1
<1>3. \A x \in R : x > c => x > b
  BY <1>2
<1>4. c > b /\ ~(c > c)
  BY <1>1
<1> QED BY ONLY <1>3, <1>4, c \in R

\* In a finite set of numbers there is one with any number of greater ones.
LEMMA Ranks ==
  ASSUME NEW R \in SUBSET Nat, IsFiniteSet(R), NEW j \in 0 .. Cardinality(R) - 1
  PROVE  \E b \in R : Cardinality({c \in R : c > b}) = j
<1> DEFINE above(b) == {c \in R : c > b}
           n == Cardinality(R)
           f == [b \in R |-> Cardinality(above(b))]
<1>1. n \in Nat
  BY FS_CardinalityType
<1>2. ASSUME NEW b \in R
      PROVE  IsFiniteSet(above(b)) /\ Cardinality(above(b)) \in 0 .. n - 1
  <2>1. /\ IsFiniteSet(R \ {b}) /\ Cardinality(R \ {b}) = n - 1
    BY FS_RemoveElement
  <2>2. above(b) \in SUBSET (R \ {b})
    OBVIOUS
  <2>3. IsFiniteSet(above(b)) /\ Cardinality(above(b)) <= n - 1
    BY <2>1, <2>2, FS_Subset
  <2>4. Cardinality(above(b)) \in Nat
    BY <2>3, FS_CardinalityType
  <2> HIDE DEF above, n
  <2> QED BY <1>1, <2>3, <2>4
<1>3. ASSUME NEW b \in R, NEW c \in R, b < c
      PROVE  Cardinality(above(b)) # Cardinality(above(c))
  <2>1. above(c) \in SUBSET above(b) /\ c \in above(b) /\ c \notin above(c)
    BY <1>3, Above
  <2>2. IsFiniteSet(above(b))
    BY <1>2
  <2> HIDE DEF above
  <2> QED BY <2>1, <2>2, FS_Subset
<1>4. f \in [R -> 0 .. n - 1]
  BY <1>2
<1>5. ASSUME NEW b \in R, NEW c \in R, f[b] = f[c] PROVE b = c
  <2>1. b \in Nat /\ c \in Nat /\ (b = c \/ b < c \/ c < b)
    OBVIOUS
  <2> HIDE DEF above
  <2> QED BY <1>3, <1>5, <2>1
<1>6. f \in Injection(R, 0 .. n - 1)
  BY <1>4, <1>5 DEF Injection, IsInjective
<1>7. IsFiniteSet(0 .. n - 1) /\ Cardinality(0 .. n - 1) = n
  <2>1. 0 \in Int /\ n - 1 \in Int
    BY <1>1
  <2>2. IsFiniteSet(0 .. n - 1) /\ Cardinality(0 .. n - 1) = IF 0 > n - 1 THEN 0 ELSE (n - 1) - 0 + 1
    BY <2>1, FS_Interval
  <2> HIDE DEF n
  <2> QED BY <1>1, <2>2
<1>8. f \in Surjection(R, 0 .. n - 1)
  BY <1>6, <1>7, FS_Injection
<1>9. PICK b \in R : f[b] = j
  BY <1>8 DEF Surjection
<1> QED BY <1>9

LEMMA BackupsFinite ==
  /\ Backup \subseteq Nat /\ IsFiniteSet(Backup)
  /\ \A S : S \subseteq Backup => IsFiniteSet(S) /\ Cardinality(S) \in Nat
<1>1. Backup \subseteq Nat /\ IsFiniteSet(Backup)
  <2>1. 1 \in Int /\ MaxBackups \in Int
    OBVIOUS
  <2> QED BY <2>1, FS_Interval DEF Backup, Rotation!Backup
<1> QED BY <1>1, FS_Subset, FS_CardinalityType

\* One of the last full_backup_depth rows is of a full backup.
Rows == {b \in Backup : Recorded(b)}
FullAmongLast == \E b \in Rows : Cardinality(Younger(b)) < FullDepth /\ parent[b] = 0

\* That is what _is_incremental looks for in what get_backups returns.
LEMMA IncrementalIs == Chain!Incremental <=> FullAmongLast
<1> DEFINE size == Cardinality(Rows)
           rows == IF size < FullDepth THEN size ELSE FullDepth
           Row(i) == CHOOSE b \in Rows : Cardinality(Younger(b)) = rows - i
<1>1. /\ Rows \in SUBSET Nat /\ IsFiniteSet(Rows) /\ size \in Nat
      /\ \A b \in Rows : Younger(b) = {c \in Rows : c > b} /\ Cardinality(Younger(b)) \in Nat
  BY BackupsFinite DEF Rows, Younger
<1>2. ASSUME NEW b \in Rows PROVE Cardinality(Younger(b)) < size
  <2>1. IsFiniteSet(Rows \ {b}) /\ Cardinality(Rows \ {b}) = size - 1
    BY <1>1, FS_RemoveElement
  <2>2. Younger(b) \in SUBSET (Rows \ {b})
    BY <1>1
  <2> QED BY <1>1, <2>1, <2>2, FS_Subset
<1> HIDE DEF size
<1>3. rows \in Nat /\ rows <= size /\ rows <= FullDepth
  BY <1>1
<1>4. LastRows = [i \in 1 .. rows |-> [incremental |-> parent[Row(i)] # 0, completed |-> TRUE]]
  BY DEF LastRows, Rows, size
<1>5. ASSUME NEW i \in 1 .. rows
      PROVE  Row(i) \in Rows /\ Cardinality(Younger(Row(i))) = rows - i
  <2>1. rows - i \in 0 .. size - 1
    BY <1>1, <1>3
  <2>2. \E b \in Rows : Cardinality({c \in Rows : c > b}) = rows - i
    BY <1>1, <2>1, Ranks DEF size
  <2> HIDE DEF rows
  <2> QED BY <1>1, <2>2
<1>6. ASSUME NEW b \in Rows, NEW c \in Rows, Cardinality(Younger(b)) = Cardinality(Younger(c))
      PROVE  b = c
  <2>1. ASSUME NEW d \in Rows, NEW e \in Rows, d < e
        PROVE  Cardinality(Younger(d)) # Cardinality(Younger(e))
    <3>1. Younger(e) \in SUBSET Younger(d) /\ e \in Younger(d) /\ e \notin Younger(e)
      BY <1>1, <2>1, Above
    <3>2. IsFiniteSet(Younger(d))
      BY <1>1, FS_Subset
    <3> QED BY <3>1, <3>2, FS_Subset
  <2>2. b \in Nat /\ c \in Nat /\ (b = c \/ b < c \/ c < b)
    BY <1>1
  <2> QED BY <1>6, <2>1, <2>2
<1>7. Chain!Incremental <=> \E i \in 1 .. rows : parent[Row(i)] = 0
  <2>1. DOMAIN LastRows = 1 .. rows
    BY <1>4
  <2>2. \A i \in 1 .. rows : LastRows[i].incremental <=> parent[Row(i)] # 0
    BY <1>4
  <2> HIDE DEF rows, Row
  <2> QED BY <2>1, <2>2 DEF Chain!Incremental
<1> HIDE DEF Row
<1>8. ASSUME NEW i \in 1 .. rows, parent[Row(i)] = 0 PROVE FullAmongLast
  <2>1. rows - i < FullDepth
    BY <1>3
  <2> QED BY <1>5, <1>8, <2>1 DEF FullAmongLast
<1>9. ASSUME FullAmongLast PROVE \E i \in 1 .. rows : parent[Row(i)] = 0
  <2>1. PICK b \in Rows : Cardinality(Younger(b)) < FullDepth /\ parent[b] = 0
    BY <1>9 DEF FullAmongLast
  <2>2. Cardinality(Younger(b)) < size /\ Cardinality(Younger(b)) \in Nat
    BY <1>1, <1>2
  <2>3. Cardinality(Younger(b)) < rows
    BY <2>1, <2>2
  <2> DEFINE i == rows - Cardinality(Younger(b))
  <2>4. i \in 1 .. rows /\ rows - i = Cardinality(Younger(b))
    BY <1>3, <2>2, <2>3
  <2> HIDE DEF i, rows
  <2>5. Row(i) \in Rows /\ Cardinality(Younger(Row(i))) = Cardinality(Younger(b))
    BY <1>5, <2>4
  <2>6. Row(i) = b
    BY <1>6, <2>5
  <2> QED BY <2>1, <2>4, <2>6
<1> QED BY <1>7, <1>8, <1>9

-----------------------------------------------------------------------------
\* The backups come one after the other, each upon an earlier one.
Arrivals ==
  /\ \A b \in Backup : cinder[b] = "absent" => parent[b] = 0
  /\ \A b, c \in Backup : parent[c] = b => cinder[b] # "absent"
  /\ \A b, c \in Backup :
       b < c /\ cinder[b] \in {"absent", "creating"} => cinder[c] = "absent"

\* The available backups from a full one r up to b are those b is built upon, and
\* each but b has one of them built upon it.
Between(r, b) == {c \in Backup : r < c /\ c <= b /\ (c = b \/ cinder[c] = "available")}
LinkedFrom(r, b) ==
  /\ r <= b /\ parent[r] = 0 /\ (r = b \/ cinder[r] = "available")
  /\ \A c \in Between(r, b) : parent[c] # 0
  /\ \A c \in {r} \cup Between(r, b) : c = b \/ \E d \in Between(r, b) : c < d /\ parent[d] = c
  /\ Rotation!Depth[b] = Cardinality(Between(r, b))

Linked == \A b \in Backup : Rotation!InCinder(b) => \E r \in Backup : LinkedFrom(r, b)

Chained == Rotation!Inductive /\ Arrivals /\ DepthKnown(parent) /\ Linked

LEMMA Typed ==
  ASSUME Rotation!Inductive
  PROVE  /\ cinder \in [Backup -> {"absent", "creating", "available", "error", "deleting", "gone"}]
         /\ parent \in [Backup -> Backup \cup {0}]
         /\ record \in [Backup -> Rotation!Age \cup {NoRow}]
         /\ \A b \in Backup : cinder[b] = "available" => Recorded(b)
         /\ \A b \in Backup : Recorded(b) => cinder[b] \notin {"absent", "creating"}
BY DEF Rotation!Inductive, Rotation!TypeOK, Rotation!RecordedWhileInCinder, Rotation!Ended,
       Rotation!InCinder, Rotation!Recorded, Recorded, Backup

LEMMA ChainedInit == Rotation!Init => Chained
<1> SUFFICES ASSUME Rotation!Init PROVE Chained
  OBVIOUS
<1>1. \A b \in Backup : cinder[b] = "absent" /\ parent[b] = 0
  BY DEF Rotation!Init, Backup
<1>2. Arrivals /\ Linked
  BY <1>1, ZeroIsNoBackup DEF Arrivals, Linked, Rotation!InCinder
<1> QED BY <1>1, <1>2, RotationInit, FullOnesAreKnown DEF Chained

LEMMA ArrivalsNext ==
  ASSUME Chained, [Rotation!Next]_(Rotation!vars)
  PROVE  Arrivals'
<1>0. /\ Rotation!Inductive /\ Arrivals
      /\ cinder \in [Backup -> {"absent", "creating", "available", "error", "deleting", "gone"}]
      /\ parent \in [Backup -> Backup \cup {0}]
      /\ Backup \subseteq Nat
  BY Typed, BackupsFinite DEF Chained
<1>1. ASSUME NEW b \in Backup, Creates(b) PROVE Arrivals'
  <2>1. /\ \A c \in Backup : (cinder'[c] = "absent" <=> c # b /\ cinder[c] = "absent")
        /\ \A c \in Backup : cinder'[c] = "creating" <=> c = b \/ cinder[c] = "creating"
    BY <1>0, <1>1 DEF Creates
  <2>2. ASSUME NEW c \in Backup, cinder'[c] = "absent" PROVE parent'[c] = 0
    BY <1>0, <1>1, <2>1, <2>2 DEF Creates, Arrivals
  <2>3. ASSUME NEW c \in Backup, NEW d \in Backup, parent'[d] = c PROVE cinder'[c] # "absent"
    <3>1. CASE parent[d] = c
      BY <1>0, <2>1, <3>1 DEF Arrivals
    <3>2. CASE parent[d] # c
      BY <1>0, <1>1, <2>1, <2>3, <3>2 DEF Creates
    <3> QED BY <3>1, <3>2
  <2>4. ASSUME NEW c \in Backup, NEW d \in Backup, c < d, cinder'[c] \in {"absent", "creating"}
        PROVE  cinder'[d] = "absent"
    <3>1. c \in Nat /\ d \in Nat /\ b \in Nat
      BY <1>0
    <3>2. CASE c = b
      <4>1. cinder[d] = "absent" /\ d # b
        BY <1>1, <2>4, <3>1, <3>2 DEF Creates, Arrivals, Chained
      <4> QED BY <2>1, <4>1
    <3>3. CASE c # b
      <4>1. cinder[c] \in {"absent", "creating"}
        BY <2>1, <2>4, <3>3
      <4>2. cinder[d] = "absent"
        BY <1>0, <2>4, <4>1 DEF Arrivals
      <4>3. d # b
        BY <1>1, <2>4, <4>1 DEF Creates
      <4> QED BY <2>1, <4>2, <4>3
    <3> QED BY <3>2, <3>3
  <2> QED BY <2>2, <2>3, <2>4 DEF Arrivals
<1>2. ASSUME parent' = parent,
             \A c \in Backup : /\ cinder'[c] = "absent" <=> cinder[c] = "absent"
                               /\ cinder'[c] = "creating" => cinder[c] = "creating"
      PROVE  Arrivals'
  BY <1>0, <1>2 DEF Arrivals
<1>3. ASSUME NEW b \in Backup, Records(b) \/ Leaves(b) \/ Asked(b) PROVE Arrivals'
  BY <1>0, <1>2, <1>3 DEF Records, Leaves, Asked
<1>4. ASSUME NEW b \in Backup, Forgets(b) PROVE Arrivals'
  BY <1>2, <1>4 DEF Forgets
<1>5. CASE Stands \/ GetOlder
  BY <1>2, <1>5 DEF Stands, GetOlder
<1> QED BY <1>0, <1>1, <1>3, <1>4, <1>5, Effects

\* A backup is as deep as it was unless it is new.
LEMMA DepthNext ==
  ASSUME Chained, [Rotation!Next]_(Rotation!vars)
  PROVE  /\ DepthKnown(parent')
         /\ parent' = parent => Rotation!Depth' = Rotation!Depth
         /\ \A b, c \in Backup :
              /\ Creates(b) /\ cinder[c] = "available" /\ parent' = [parent EXCEPT ![b] = c]
              => /\ parent[b] = 0 /\ c # b
                 /\ Rotation!Depth' = [Rotation!Depth EXCEPT ![b] = 1 + Rotation!Depth[c]]
<1>0. /\ Rotation!Inductive /\ Arrivals /\ DepthKnown(parent)
      /\ parent \in [Backup -> Backup \cup {0}]
  BY Typed DEF Chained
<1>1. parent' = parent => DepthKnown(parent') /\ Rotation!Depth' = Rotation!Depth
  BY <1>0 DEF Rotation!Depth
<1>2. ASSUME NEW b \in Backup, NEW c \in Backup, Creates(b), cinder[c] = "available",
             parent' = [parent EXCEPT ![b] = c]
      PROVE  /\ DepthKnown(parent') /\ parent[b] = 0 /\ c # b
             /\ Rotation!Depth' = [Rotation!Depth EXCEPT ![b] = 1 + Rotation!Depth[c]]
  <2>1. parent[b] = 0 /\ c # b /\ \A d \in Backup : parent[d] # b
    BY <1>0, <1>2 DEF Creates, Arrivals
  <2>2. IsDepth(Rotation!Depth, parent)
    BY <1>0, DepthSolves
  <2>3. IsDepth([Rotation!Depth EXCEPT ![b] = 1 + Rotation!Depth[c]], parent')
    BY <1>0, <1>2, <2>1, <2>2, DepthGrows
  <2>4. DepthKnown(parent')
    BY <2>3 DEF DepthKnown
  <2> QED BY <2>1, <2>3, <2>4, DepthSolvesNext
<1>3. ASSUME NEW b \in Backup, Creates(b) PROVE DepthKnown(parent')
  BY <1>1, <1>2, <1>3 DEF Creates
<1>4. DepthKnown(parent')
  <2>1. Stands \/ GetOlder \/ (\E b \in Backup : Records(b) \/ Leaves(b) \/ Asked(b) \/ Forgets(b))
          => parent' = parent
    BY DEF Stands, GetOlder, Records, Leaves, Asked, Forgets
  <2> QED BY <1>0, <1>1, <1>3, <2>1, Effects
<1> QED BY <1>1, <1>2, <1>4

\* A link is as it was while the backups from the full one on are.
LEMMA LinkStays ==
  ASSUME NEW r \in Backup, NEW b \in Backup, LinkedFrom(r, b),
         \A c \in Backup : c <= b => parent'[c] = parent[c],
         Rotation!Depth'[b] = Rotation!Depth[b],
         \A c \in Backup :
           r <= c /\ c < b => (cinder'[c] = "available" <=> cinder[c] = "available")
  PROVE  LinkedFrom(r, b)'
<1>0. Backup' = Backup /\ Backup \subseteq Nat
  BY BackupsFinite DEF Backup, Rotation!Backup
<1>1. Between(r, b)' = Between(r, b)
  <2>1. ASSUME NEW c \in Backup
        PROVE  r < c /\ c <= b /\ (c = b \/ cinder'[c] = "available")
               <=> r < c /\ c <= b /\ (c = b \/ cinder[c] = "available")
    BY <1>0
  <2> QED BY <1>0, <2>1 DEF Between
<1>2. Between(r, b) \subseteq Backup /\ \A c \in Between(r, b) : c <= b
  BY DEF Between
<1>3. /\ \A c \in Between(r, b) : parent'[c] = parent[c]
      /\ parent'[r] = parent[r]
  BY <1>2 DEF LinkedFrom
<1>4. r = b \/ cinder'[r] = "available"
  BY <1>0 DEF LinkedFrom
<1> QED BY <1>0, <1>1, <1>3, <1>4 DEF LinkedFrom

LEMMA DepthOfFull ==
  ASSUME NEW b \in Backup, DepthKnown(parent), parent[b] = 0
  PROVE  Rotation!Depth[b] = 0
<1>1. Solves(Rotation!Depth, parent)
  BY DepthSolves DEF IsDepth
<1> QED BY <1>1 DEF Solves

\* A new backup is linked.
LEMMA NewIsLinked ==
  ASSUME Chained, [Rotation!Next]_(Rotation!vars), NEW b \in Backup, Creates(b)
  PROVE  \E r \in Backup : LinkedFrom(r, b)'
<1>0. /\ Rotation!Inductive /\ Arrivals /\ DepthKnown(parent) /\ Linked
      /\ cinder \in [Backup -> {"absent", "creating", "available", "error", "deleting", "gone"}]
      /\ parent \in [Backup -> Backup \cup {0}]
      /\ Backup \subseteq Nat /\ Backup' = Backup
  BY Typed, BackupsFinite DEF Chained, Backup, Rotation!Backup
<1>1. parent[b] = 0 /\ cinder' = [cinder EXCEPT ![b] = "creating"] /\ cinder[b] = "absent"
  BY <1>0 DEF Creates, Arrivals
<1>2. CASE parent' = parent
  <2>1. Between(b, b)' = {}
    <3>1. \A c \in Backup : ~(b < c /\ c <= b)
      BY <1>0
    <3> QED BY <1>0, <3>1 DEF Between
  <2>2. Rotation!Depth'[b] = 0
    BY <1>0, <1>1, <1>2, DepthNext, DepthOfFull
  <2>3. b <= b
    BY <1>0
  <2> QED BY <1>1, <1>2, <2>1, <2>2, <2>3, FS_EmptySet DEF LinkedFrom
<1>3. ASSUME NEW c \in Backup, cinder[c] = "available",
             \A d \in Backup : cinder[d] = "available" => d <= c,
             parent' = [parent EXCEPT ![b] = c]
      PROVE  \E r \in Backup : LinkedFrom(r, b)'
  <2>1. PICK r \in Backup : LinkedFrom(r, c)
    BY <1>0, <1>3 DEF Linked, Rotation!InCinder
  <2>2. c < b
    <3>1. ~(b < c) /\ c # b
      BY <1>0, <1>1, <1>3 DEF Arrivals
    <3> QED BY <1>0, <3>1
  <2>3. r \in Nat /\ c \in Nat /\ b \in Nat /\ r <= c /\ cinder[r] = "available"
    BY <1>0, <1>3, <2>1 DEF LinkedFrom
  <2>4. Between(r, b)' = Between(r, c) \cup {b}
    <3>1. ASSUME NEW d \in Backup
          PROVE  r < d /\ d <= b /\ (d = b \/ cinder'[d] = "available")
                 <=> d = b \/ (r < d /\ d <= c /\ (d = c \/ cinder[d] = "available"))
      <4>1. d \in Nat
        BY <1>0
      <4>2. d # b => cinder'[d] = cinder[d]
        BY <1>0, <1>1
      <4>3. cinder[d] = "available" => d <= c
        BY <1>3
      <4> QED BY <1>3, <2>2, <2>3, <4>1, <4>2, <4>3
    <3> QED BY <1>0, <3>1 DEF Between
  <2> DEFINE B == Between(r, c)
  <2>5. /\ B \subseteq Backup \ {b} /\ IsFiniteSet(B) /\ r \notin B
        /\ Cardinality(B) \in Nat
    <3>1. \A d \in Backup : r < d /\ d <= c => d # b /\ d # r
      BY <1>0, <2>2, <2>3
    <3>2. B \subseteq Backup \ {b} /\ r \notin B
      BY <3>1 DEF Between
    <3> QED BY <3>2, BackupsFinite
  <2>6. /\ parent[r] = 0 /\ \A d \in B : parent[d] # 0
        /\ \A d \in {r} \cup B : d = c \/ \E e \in B : d < e /\ parent[e] = d
        /\ Rotation!Depth[c] = Cardinality(B)
    BY <2>1 DEF LinkedFrom
  <2> HIDE DEF B
  <2>7. Rotation!Depth'[b] = Cardinality(B \cup {b})
    <3>1. Rotation!Depth' = [Rotation!Depth EXCEPT ![b] = 1 + Rotation!Depth[c]]
      BY <1>3, DepthNext
    <3>2. Rotation!Depth \in [Backup -> Nat]
      BY <1>0, DepthSolves DEF IsDepth
    <3>3. Cardinality(B \cup {b}) = Cardinality(B) + 1
      BY <2>5, FS_AddElement
    <3> QED BY <2>5, <2>6, <3>1, <3>2, <3>3
  <2>8. /\ parent'[b] = c /\ c # 0 /\ parent'[r] = parent[r]
        /\ \A d \in B : parent'[d] = parent[d]
    BY <1>0, <1>3, <2>2, <2>3, <2>5, ZeroIsNoBackup
  <2>9. cinder'[r] = "available" /\ r <= b
    BY <1>0, <1>1, <2>2, <2>3
  <2>10. \A d \in {r} \cup (B \cup {b}) :
           d = b \/ \E e \in B \cup {b} : d < e /\ parent'[e] = d
    BY <2>2, <2>6, <2>8
  <2>11. LinkedFrom(r, b)'
    <3>1. \A d \in B \cup {b} : parent'[d] # 0
      BY <2>6, <2>8
    <3>2. r <= b /\ parent'[r] = 0 /\ Between(r, b)' = B \cup {b}
      BY <2>4, <2>6, <2>8, <2>9 DEF B
    <3> QED BY <2>7, <2>9, <2>10, <3>1, <3>2 DEF LinkedFrom
  <2> QED BY <2>11
<1> QED BY <1>2, <1>3 DEF Creates

LEMMA LinkedNext ==
  ASSUME Chained, [Rotation!Next]_(Rotation!vars)
  PROVE  Linked'
<1>0. /\ Rotation!Inductive /\ Arrivals /\ DepthKnown(parent) /\ Linked
      /\ cinder \in [Backup -> {"absent", "creating", "available", "error", "deleting", "gone"}]
      /\ parent \in [Backup -> Backup \cup {0}]
      /\ Backup \subseteq Nat /\ Backup' = Backup
  BY Typed, BackupsFinite DEF Chained, Backup, Rotation!Backup
<1>1. ASSUME NEW b \in Backup, Creates(b) PROVE Linked'
  <2>1. ASSUME NEW c \in Backup, Rotation!InCinder(c)', c # b
        PROVE  \E r \in Backup : LinkedFrom(r, c)'
    <3>1. Rotation!InCinder(c)
      BY <1>0, <1>1, <2>1 DEF Creates, Rotation!InCinder
    <3>2. PICK r \in Backup : LinkedFrom(r, c)
      BY <1>0, <3>1 DEF Linked
    <3>3. c < b
      <4>1. ~(b < c)
        BY <1>0, <1>1, <3>1 DEF Creates, Arrivals, Rotation!InCinder
      <4> QED BY <1>0, <2>1, <4>1
    <3>4. /\ \A d \in Backup : d # b => cinder'[d] = cinder[d] /\ parent'[d] = parent[d]
          /\ \A d \in Backup : d <= c => d # b
      BY <1>0, <1>1, <3>3 DEF Creates
    <3>5. Rotation!Depth'[c] = Rotation!Depth[c]
      <4>1. Rotation!Depth \in [Backup -> Nat]
        BY <1>0, DepthSolves DEF IsDepth
      <4>2. CASE parent' = parent
        BY <4>2, DepthNext
      <4>3. ASSUME NEW d \in Backup, cinder[d] = "available",
                   parent' = [parent EXCEPT ![b] = d]
            PROVE  Rotation!Depth'[c] = Rotation!Depth[c]
        <5>1. Rotation!Depth' = [Rotation!Depth EXCEPT ![b] = 1 + Rotation!Depth[d]]
          BY <1>1, <4>3, DepthNext
        <5> QED BY <2>1, <4>1, <5>1
      <4> QED BY <1>1, <4>2, <4>3 DEF Creates
    <3>6. \A d \in Backup : r <= d /\ d < c => d # b
      BY <1>0, <3>3
    <3> QED BY <3>2, <3>4, <3>5, <3>6, LinkStays
  <2> QED BY <1>0, <1>1, <2>1, NewIsLinked DEF Linked
<1>2. ASSUME parent' = parent,
             \A b \in Backup : Rotation!InCinder(b)' => Rotation!InCinder(b),
             \A b, r, c \in Backup :
               Rotation!InCinder(b)' /\ LinkedFrom(r, b) /\ r <= c /\ c < b
                 => (cinder'[c] = "available" <=> cinder[c] = "available")
      PROVE  Linked'
  <2>1. ASSUME NEW b \in Backup, Rotation!InCinder(b)'
        PROVE  \E r \in Backup : LinkedFrom(r, b)'
    <3>1. PICK r \in Backup : LinkedFrom(r, b)
      BY <1>0, <1>2, <2>1 DEF Linked
    <3>2. Rotation!Depth'[b] = Rotation!Depth[b]
      BY <1>2, DepthNext
    <3> QED BY <1>2, <2>1, <3>1, <3>2, LinkStays
  <2> QED BY <1>0, <2>1 DEF Linked
<1>3. ASSUME NEW b \in Backup, Records(b) PROVE Linked'
  <2>1. \A c \in Backup : Rotation!InCinder(c)' => Rotation!InCinder(c)
    BY <1>0, <1>3 DEF Records, Rotation!InCinder
  <2>2. \A c \in Backup : b < c => cinder[c] = "absent"
    BY <1>0, <1>3 DEF Records, Arrivals
  <2>3. \A c, d \in Backup : Rotation!InCinder(c)' /\ d < c => cinder'[d] = cinder[d]
    BY <1>0, <1>3, <2>1, <2>2 DEF Records, Rotation!InCinder
  <2> QED BY <1>2, <1>3, <2>1, <2>3 DEF Records
<1>4. ASSUME NEW b \in Backup, Leaves(b) PROVE Linked'
  <2>1. \A c \in Backup : Rotation!InCinder(c)' => Rotation!InCinder(c)
    BY <1>0, <1>4 DEF Leaves, Rotation!InCinder
  <2>2. \A c \in Backup : cinder'[c] = "available" <=> cinder[c] = "available"
    BY <1>0, <1>4 DEF Leaves
  <2> QED BY <1>2, <1>4, <2>1, <2>2 DEF Leaves
<1>5. ASSUME NEW b \in Backup, Asked(b) PROVE Linked'
  <2>1. \A c \in Backup : Rotation!InCinder(c)' => Rotation!InCinder(c)
    BY <1>0, <1>5 DEF Asked, Rotation!InCinder
  <2>2. ASSUME NEW c \in Backup, NEW r \in Backup, NEW d \in Backup,
               Rotation!InCinder(c)', LinkedFrom(r, c), r <= d, d < c
        PROVE  cinder'[d] = "available" <=> cinder[d] = "available"
    <3>1. CASE d = b /\ cinder[d] = "available"
      <4>1. d # c /\ d \in {r} \cup Between(r, c)
        <5>1. r \in Nat /\ d \in Nat /\ c \in Nat
          BY <1>0
        <5>2. d # c /\ (r = d \/ (r < d /\ d <= c))
          BY <2>2, <5>1
        <5> QED BY <3>1, <5>2 DEF Between
      <4>2. PICK e \in Between(r, c) : parent[e] = d
        BY <2>2, <4>1 DEF LinkedFrom
      <4>3. e \in Backup /\ Rotation!InCinder(e)
        <5>1. e \in Backup /\ (e = c \/ cinder[e] = "available")
          BY <4>2 DEF Between
        <5> QED BY <2>1, <2>2, <5>1 DEF Rotation!InCinder
      <4> QED BY <1>5, <3>1, <4>2, <4>3 DEF Asked
    <3>2. CASE d # b \/ cinder[d] # "available"
      BY <1>0, <1>5, <3>2 DEF Asked
    <3> QED BY <3>1, <3>2
  <2> QED BY <1>2, <1>5, <2>1, <2>2 DEF Asked
<1>6. ASSUME cinder' = cinder, parent' = parent PROVE Linked'
  BY <1>2, <1>6 DEF Rotation!InCinder
<1>7. ASSUME NEW b \in Backup, Forgets(b) PROVE Linked'
  BY <1>6, <1>7 DEF Forgets
<1>8. CASE Stands \/ GetOlder
  BY <1>6, <1>8 DEF Stands, GetOlder
<1> QED BY <1>0, <1>1, <1>3, <1>4, <1>5, <1>7, <1>8, Effects

LEMMA ChainedNext ==
  ASSUME Chained, [Rotation!Next]_(Rotation!vars)
  PROVE  Chained'
BY RotationNext, ArrivalsNext, DepthNext, LinkedNext DEF Chained

LEMMA NewestIs ==
  ASSUME NEW S \in SUBSET Backup, S # {}
  PROVE  Newest(S) \in S /\ \A c \in S : c <= Newest(S)
<1>1. S \in SUBSET Nat /\ IsFiniteSet(S) /\ Cardinality(S) \in Nat /\ Cardinality(S) # 0
  BY BackupsFinite, FS_EmptySet
<1>2. 0 \in 0 .. Cardinality(S) - 1
  BY <1>1
<1>3. PICK b \in S : Cardinality({c \in S : c > b}) = 0
  BY <1>1, <1>2, Ranks
<1>4. {c \in S : c > b} = {}
  <2>1. IsFiniteSet({c \in S : c > b})
    BY BackupsFinite
  <2> QED BY <1>3, <2>1, FS_EmptySet
<1>5. \A c \in S : c <= b
  <2>1. \A c \in S : ~(c > b) /\ c \in Nat /\ b \in Nat
    BY <1>1, <1>4
  <2> QED BY <2>1
<1> QED BY <1>3, <1>5 DEF Newest

\* While all rows have their backup, they tell what Cinder builds upon.
LEMMA RowsTell ==
  ASSUME Chained, \A b \in Backup : Recorded(b) => b \in Available
  PROVE  Run \in 0 .. FullDepth - 1 <=> FullAmongLast
<1>0. /\ Rotation!Inductive /\ DepthKnown(parent) /\ Linked
      /\ \A b \in Backup : cinder[b] = "available" => Recorded(b)
      /\ Backup \subseteq Nat
  BY Typed, BackupsFinite DEF Chained
<1>1. Rows = Available
  BY <1>0 DEF Rows, Available
<1>2. CASE Available = {}
  <2>1. Run = -1 /\ ~FullAmongLast
    BY <1>1, <1>2 DEF Run, FullAmongLast
  <2> QED BY <2>1
<1>3. CASE Available # {}
  <2> DEFINE n == Newest(Available)
  <2>1. n \in Backup /\ cinder[n] = "available" /\ \A c \in Available : c <= n
    BY <1>3, NewestIs DEF Available
  <2> HIDE DEF n
  <2>2. PICK r \in Backup : LinkedFrom(r, n)
    BY <1>0, <2>1 DEF Linked, Rotation!InCinder
  <2>3. r \in Rows /\ parent[r] = 0
    BY <1>1, <2>1, <2>2 DEF LinkedFrom, Available
  <2>4. Younger(r) = Between(r, n)
    <3>1. ASSUME NEW c \in Backup
          PROVE  Recorded(c) /\ c > r <=> r < c /\ c <= n /\ (c = n \/ cinder[c] = "available")
      <4>1. Recorded(c) <=> cinder[c] = "available"
        BY <1>0 DEF Available
      <4>2. c \in Nat /\ r \in Nat /\ n \in Nat
        BY <1>0, <2>1
      <4> QED BY <2>1, <4>1, <4>2 DEF Available
    <3> QED BY <3>1 DEF Younger, Between
  <2> DEFINE depth == Rotation!Depth[n]
  <2>5. depth = Cardinality(Younger(r)) /\ depth \in Nat
    <3>1. Younger(r) \subseteq Backup
      BY DEF Younger
    <3> QED BY <2>2, <2>4, <3>1, BackupsFinite DEF LinkedFrom
  <2>6. Run = IF depth > FullDepth THEN FullDepth + 1 ELSE depth
    BY <1>3 DEF Run, n
  <2> HIDE DEF depth
  <2>7. Run \in 0 .. FullDepth - 1 <=> depth < FullDepth
    BY <2>5, <2>6
  <2>8. ASSUME NEW b \in Rows, parent[b] = 0
        PROVE  Cardinality(Younger(b)) \in Nat /\ depth <= Cardinality(Younger(b))
    <3>1. b \in Backup /\ cinder[b] = "available"
      BY <1>1, <2>8 DEF Available
    <3>2. b <= r
      <4>1. b \notin Between(r, n)
        BY <2>2, <2>8 DEF LinkedFrom
      <4>2. b <= n
        BY <1>1, <2>1, <2>8
      <4> QED BY <1>0, <3>1, <4>1, <4>2 DEF Between
    <3>3. Younger(r) \subseteq Younger(b)
      <4>1. \A c \in Backup : c > r => c > b
        BY <1>0, <3>1, <3>2
      <4> QED BY <4>1 DEF Younger
    <3>4. IsFiniteSet(Younger(b)) /\ Cardinality(Younger(b)) \in Nat
      <4>1. Younger(b) \subseteq Backup
        BY DEF Younger
      <4> QED BY <4>1, BackupsFinite
    <3> QED BY <2>5, <3>3, <3>4, FS_Subset
  <2>9. ASSUME FullAmongLast PROVE depth < FullDepth
    <3>1. PICK b \in Rows : Cardinality(Younger(b)) < FullDepth /\ parent[b] = 0
      BY <2>9 DEF FullAmongLast
    <3>2. Cardinality(Younger(b)) \in Nat /\ depth <= Cardinality(Younger(b))
      BY <2>8, <3>1
    <3> QED BY <2>5, <3>1, <3>2
  <2> QED BY <2>3, <2>5, <2>7, <2>9 DEF FullAmongLast
<1> QED BY <1>2, <1>3

TaskRow == [status: {"FREE", "PLANNED", "INIT", "WIP"}, incremental: BOOLEAN, fresh: BOOLEAN]

\* What is fresh has the method that the rows ask for.
MethodKept ==
  /\ task \in [Task -> TaskRow] /\ method \in BOOLEAN /\ fresh \in BOOLEAN
  /\ pc = "insert" /\ fresh => method = FullAmongLast
  /\ \A t \in Task :
       task[t].status \in {"PLANNED", "INIT"} /\ task[t].fresh
         => task[t].incremental = FullAmongLast

LEMMA MethodInit == Init => MethodKept
<1> SUFFICES ASSUME Init PROVE MethodKept
  OBVIOUS
<1>1. [status |-> "FREE", incremental |-> FALSE, fresh |-> FALSE] \in TaskRow
  BY DEF TaskRow
<1> QED BY <1>1 DEF Init, Chain!Init, Chain!FreeRow, MethodKept

LEMMA FullStays ==
  ASSUME \A b \in Backup :
           (record'[b] # NoRow <=> Recorded(b)) /\ (Recorded(b) => parent'[b] = parent[b])
  PROVE  FullAmongLast' <=> FullAmongLast
<1>0. Backup' = Backup
  BY DEF Backup, Rotation!Backup
<1>1. Rows' = Rows
  BY <1>0 DEF Rows, Recorded
<1>2. ASSUME NEW b \in Backup PROVE Younger(b)' = Younger(b)
  BY <1>0 DEF Younger, Recorded
<1>3. \A b \in Rows : b \in Backup /\ parent'[b] = parent[b]
  BY DEF Rows
<1> QED BY <1>1, <1>2, <1>3 DEF FullAmongLast

\* A task of a volume whose rows are what they were.
LEMMA MethodStays ==
  ASSUME MethodKept, task' \in [Task -> TaskRow], method' \in BOOLEAN, fresh' \in BOOLEAN,
         FullAmongLast' <=> FullAmongLast,
         pc' = "insert" /\ fresh' => pc = "insert" /\ fresh /\ method' = method,
         \A t \in Task :
           task'[t].status \in {"PLANNED", "INIT"} /\ task'[t].fresh
             => \/ /\ task[t].status \in {"PLANNED", "INIT"} /\ task[t].fresh
                   /\ task'[t].incremental = task[t].incremental
                \/ pc = "insert" /\ fresh /\ task'[t].incremental = method
  PROVE  MethodKept'
BY DEF MethodKept

\* A row that changes its status, or is closed.
LEMMA StatusSet ==
  ASSUME MethodKept, NEW t \in Task, NEW s \in {"INIT", "WIP"},
         Chain!SetStatus(t, s) \/ Chain!Close(t), s = "INIT" => task[t].status = "PLANNED"
  PROVE  /\ task' \in [Task -> TaskRow]
         /\ \A u \in Task :
              task'[u].status \in {"PLANNED", "INIT"} /\ task'[u].fresh
                => /\ task[u].status \in {"PLANNED", "INIT"} /\ task[u].fresh
                   /\ task'[u].incremental = task[u].incremental
<1> DEFINE row == [task[t] EXCEPT !.status = s]
<1>1. task \in [Task -> TaskRow] /\ task[t] \in TaskRow
  BY DEF MethodKept
<1>2. /\ row \in TaskRow /\ row.status = s /\ row.fresh = task[t].fresh
      /\ row.incremental = task[t].incremental
  BY <1>1 DEF TaskRow
<1>3. Chain!FreeRow \in TaskRow /\ Chain!FreeRow.status = "FREE"
  BY DEF Chain!FreeRow, TaskRow
<1>4. task' = [task EXCEPT ![t] = row] \/ task' = [task EXCEPT ![t] = Chain!FreeRow]
  BY DEF Chain!SetStatus, Chain!Close
<1> HIDE DEF row
<1>5. CASE task' = [task EXCEPT ![t] = row]
  BY <1>1, <1>2, <1>5
<1>6. CASE task' = [task EXCEPT ![t] = Chain!FreeRow]
  BY <1>1, <1>3, <1>6
<1> QED BY <1>4, <1>5, <1>6

\* Nothing is fresh after a row has come or gone.
LEMMA Stale ==
  ASSUME NEW T \in SUBSET Task, MethodKept,
         task' = [t \in Task |-> IF t \in T THEN Chain!FreeRow
                                            ELSE [task[t] EXCEPT !.fresh = FALSE]]
  PROVE  task' \in [Task -> TaskRow] /\ \A t \in Task : ~task'[t].fresh
<1>1. \A t \in Task : /\ [task[t] EXCEPT !.fresh = FALSE] \in TaskRow
                       /\ ~[task[t] EXCEPT !.fresh = FALSE].fresh
  BY DEF MethodKept, TaskRow
<1>2. Chain!FreeRow \in TaskRow /\ ~Chain!FreeRow.fresh
  BY DEF Chain!FreeRow, TaskRow
<1> QED BY <1>1, <1>2

LEMMA MethodNext ==
  ASSUME Rotation!Inductive, MethodKept, [Next]_vars
  PROVE  MethodKept'
<1>0. /\ task \in [Task -> TaskRow] /\ method \in BOOLEAN /\ fresh \in BOOLEAN
      /\ record \in [Backup -> Rotation!Age \cup {NoRow}]
      /\ cinder \in [Backup -> {"absent", "creating", "available", "error", "deleting", "gone"}]
      /\ parent \in [Backup -> Backup \cup {0}]
      /\ \A b \in Backup : Recorded(b) => cinder[b] \notin {"absent", "creating"}
  BY Typed DEF MethodKept
<1>1. parent' = parent /\ record' = record => (FullAmongLast' <=> FullAmongLast)
  BY FullStays DEF Recorded
<1>2. CASE Plan
  <2>0. FullAmongLast' <=> FullAmongLast
    BY <1>1, <1>2 DEF Plan, backups
  <2>1. CASE Chain!ReadWip \/ Chain!ReadPlanned \/ Chain!IsRequired
    <3>1. UNCHANGED <<task, method>> /\ pc' # "insert" /\ fresh' \in BOOLEAN
      BY <1>0, <2>1 DEF Chain!ReadWip, Chain!ReadPlanned, Chain!IsRequired
    <3> QED BY <1>0, <2>0, <3>1, MethodStays
  <2>2. CASE Chain!DecideMethod
    <3>1. /\ task' = task /\ fresh' \in BOOLEAN /\ method' \in BOOLEAN
          /\ fresh' => (method' <=> Chain!Incremental)
      BY <1>0, <2>2 DEF Chain!DecideMethod, Chain!Incremental
    <3>2. fresh' => (method' <=> FullAmongLast)
      BY <3>1, IncrementalIs
    <3>3. FullAmongLast \in BOOLEAN /\ FullAmongLast' \in BOOLEAN
      BY DEF FullAmongLast
    <3> QED BY <1>0, <2>0, <3>1, <3>2, <3>3 DEF MethodKept
  <2>3. CASE Chain!Insert
    <3> DEFINE row == [status |-> "PLANNED", incremental |-> method, fresh |-> fresh]
    <3>1. /\ row \in TaskRow /\ row.incremental = method /\ row.fresh = fresh
      BY <1>0 DEF TaskRow
    <3>2. /\ pc = "insert" /\ pc' = "rest" /\ UNCHANGED <<method, fresh>>
          /\ task' = task \/ \E t \in Task : task' = [task EXCEPT ![t] = row]
      BY <2>3 DEF Chain!Insert, Chain!InStatus
    <3> HIDE DEF row
    <3>3. CASE task' = task
      BY <1>0, <2>0, <3>2, <3>3, MethodStays
    <3>4. ASSUME NEW t \in Task, task' = [task EXCEPT ![t] = row] PROVE MethodKept'
      <4>1. task' \in [Task -> TaskRow] /\ task'[t] = row /\ \A u \in Task \ {t} : task'[u] = task[u]
        BY <1>0, <3>1, <3>4
      <4> QED BY <1>0, <2>0, <3>1, <3>2, <4>1, MethodStays
    <3> QED BY <3>2, <3>3, <3>4
  <2>4. ASSUME NEW t \in Task, Chain!Claim(t) PROVE MethodKept'
    <3>1. /\ task[t].status = "PLANNED" /\ Chain!SetStatus(t, "INIT")
          /\ UNCHANGED <<pc, method, fresh>>
      BY <2>4 DEF Chain!Claim, Chain!puller
    <3> QED BY <1>0, <2>0, <3>1, StatusSet, MethodStays
  <2> QED BY <1>2, <2>1, <2>2, <2>3, <2>4 DEF Plan
<1>3. ASSUME NEW t \in Task, Start(t) PROVE MethodKept'
  <2>1. /\ Chain!SetStatus(t, "WIP") \/ Chain!Close(t)
        /\ UNCHANGED <<pc, method, fresh>>
    BY <1>3 DEF Start, Chain!StartBackup, Chain!puller
  <2>2. /\ record' = record
        /\ \A b \in Backup : Recorded(b) => parent'[b] = parent[b]
    <3>1. ASSUME NEW b \in Backup, Rotation!Create(b)
          PROVE  /\ record' = record
                 /\ \A c \in Backup : Recorded(c) => parent'[c] = parent[c]
      <4>1. cinder[b] = "absent"
        BY <1>0, <3>1 DEF Rotation!Create, Rotation!NextId
      <4>2. \A c \in Backup : Recorded(c) => c # b
        BY <1>0, <4>1
      <4> QED BY <1>0, <3>1, <4>2 DEF Rotation!Create
    <3> QED BY <1>3, <3>1 DEF Start, backups
  <2>3. FullAmongLast' <=> FullAmongLast
    BY <2>2, FullStays DEF Recorded
  <2> QED BY <1>0, <2>1, <2>3, StatusSet, MethodStays
<1>4. ASSUME NEW t \in Task, Complete(t) PROVE MethodKept'
  <2>1. /\ task' = [u \in Task |-> IF u \in {t} THEN Chain!FreeRow
                                               ELSE [task[u] EXCEPT !.fresh = FALSE]]
        /\ fresh' = FALSE /\ method' = method
    BY <1>4 DEF Complete, Chain!Complete, Chain!VolumeBackup, Chain!puller
  <2>2. task' \in [Task -> TaskRow] /\ \A u \in Task : ~task'[u].fresh
    BY <2>1, Stale
  <2> QED BY <1>0, <2>1, <2>2 DEF MethodKept
<1>5. CASE Rotate
  <2>1. CASE cinder' = cinder /\ record' = record
    <3>1. parent' = parent
      BY <1>5 DEF Rotate, Rotation!Rotate, Rotation!Start, Rotation!Collect,
                  Rotation!ListProjects, Rotation!ListBackups, Rotation!Visit, Rotation!Get,
                  Rotation!Delete, Rotation!Remove, Rotation!backups
    <3> QED BY <1>0, <1>1, <1>5, <2>1, <3>1, MethodStays DEF Rotate
  <2>2. CASE ~(cinder' = cinder /\ record' = record)
    <3>1. /\ task' = [t \in Task |-> [task[t] EXCEPT !.fresh = FALSE]]
          /\ fresh' = FALSE /\ method' = method
      BY <1>5, <2>2 DEF Rotate
    <3> DEFINE none == {}
    <3>2. /\ none \in SUBSET Task
          /\ task' = [t \in Task |-> IF t \in none THEN Chain!FreeRow
                                                ELSE [task[t] EXCEPT !.fresh = FALSE]]
      BY <3>1
    <3> HIDE DEF none
    <3>3. task' \in [Task -> TaskRow] /\ \A t \in Task : ~task'[t].fresh
      BY <3>2, Stale
    <3> QED BY <1>0, <3>1, <3>3 DEF MethodKept
  <2> QED BY <2>1, <2>2
<1>6. CASE Environment
  <2>1. UNCHANGED <<task, pc, method, fresh>>
    BY <1>6 DEF Environment, planner
  <2>2. /\ parent' = parent
        /\ \A b \in Backup : record'[b] # NoRow <=> Recorded(b)
    <3>1. CASE Rotation!Tick
      BY <1>0, <3>1, Ages DEF Rotation!Tick, Rotation!backups, Rotation!Recorded, Recorded, Backup
    <3>2. ASSUME NEW b \in Backup, Rotation!CinderDeletes(b)
          PROVE  parent' = parent /\ record' = record
      BY <3>2 DEF Rotation!CinderDeletes
    <3> QED BY <1>6, <3>1, <3>2 DEF Environment, Recorded
  <2>3. FullAmongLast' <=> FullAmongLast
    BY <2>2, FullStays
  <2> QED BY <1>0, <2>1, <2>3, MethodStays
<1>7. CASE UNCHANGED vars
  BY <1>0, <1>1, <1>7, MethodStays DEF vars, planner, backups
<1> QED BY <1>2, <1>3, <1>4, <1>5, <1>6, <1>7 DEF Next

\* README.md:82, for any depth, number of backups and retention, and whatever the
\* job has deleted: a task that is fresh starts a full backup just when the newest
\* available one is as deep as full_backup_depth, or there is none, while all rows
\* have their backup.
THEOREM OrderIsKept == Spec => OrderKept
<1>1. Init => Chained /\ MethodKept
  BY ChainedInit, MethodInit DEF Init
<1>2. Chained /\ MethodKept /\ [Next]_vars => (Chained /\ MethodKept)'
  BY StepIsRotation, ChainedNext, MethodNext DEF Chained
<1>3. Chained /\ MethodKept /\ [Next]_vars =>
        [\A t \in Task :
           /\ Chain!Starts(t) /\ task[t].fresh
           /\ \A b \in Backup : Recorded(b) => b \in Available
           => (task[t].incremental <=> Run \in 0 .. FullDepth - 1)]_vars
  <2> SUFFICES ASSUME Chained, MethodKept, NEW t \in Task, Chain!Starts(t), task[t].fresh,
                      \A b \in Backup : Recorded(b) => b \in Available
               PROVE  task[t].incremental <=> Run \in 0 .. FullDepth - 1
    OBVIOUS
  <2>1. task[t].status = "INIT"
    BY DEF Chain!Starts
  <2>2. task[t].incremental = FullAmongLast
    BY <2>1 DEF MethodKept
  <2> QED BY <2>2, RowsTell
<1> QED BY <1>1, <1>2, <1>3, PTL DEF Spec, OrderKept

================================================================================
