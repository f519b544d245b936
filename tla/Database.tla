------------------------------- MODULE Database -------------------------------
(***************************************************************************)
(* The objects of staffeln/objects over db/sqlalchemy/api.py, for one      *)
(* table: copies of rows that processes read, change and save, each save   *)
(* and each deletion being a transaction of two statements between which   *)
(* those of others run.  What the queries raise is caught by the functions *)
(* of Connection, most of which then return None.                          *)
(***************************************************************************)
EXTENDS Naturals, Functions, FiniteSetsExt

CONSTANTS
  Object,   \* the copies of rows, in whatever process
  Column, Value,
  MaxId,    \* bound: ids ever given to a row
  Sqlite,   \* CONF.database.connection is SQLite, else MySQL with InnoDB
  Faults    \* what may fail, a subset of FaultKinds

\* A process dies; a statement or a commit ends in an exception.
FaultKinds == {"crash", "db"}
Nobody     == "nobody"

ASSUME DatabaseAssumption ==
  /\ MaxId \in Nat /\ Sqlite \in BOOLEAN
  /\ Faults \subseteq FaultKinds /\ Nobody \notin Object

Id     == 1 .. MaxId
Absent == << >>   \* no row, which has no columns
Row    == [Column -> Value]

VARIABLES
  unique,   \* backup_id is unique, as in backup_data
  rows,     \* the table
  born,     \* how many rows have had each id so far
  locked,   \* the transaction that has a row locked
  obj,      \* the copies: id, values, changed fields
  seen,     \* which of the rows with its id each is a copy of
  ref,      \* the row that a transaction has loaded
  pc,       \* where the transaction about each copy is
  result    \* how the last call on each copy ended, unless it was changed since

vars == <<unique, rows, born, locked, obj, seen, ref, pc, result>>
tx   == <<locked, ref, pc>>

\* An object has no values before it is created or read.
Copy == [id: Id \cup {0}, val: Row \cup {Absent}, dirty: SUBSET Column]

TypeOK ==
  /\ unique \in BOOLEAN
  /\ rows   \in [Id -> Row \cup {Absent}]
  /\ born   \in [Id -> Nat]
  /\ locked \in [Id -> Object \cup {Nobody}]
  /\ obj    \in [Object -> Copy]
  /\ seen   \in [Object -> Nat]
  /\ ref    \in [Object -> Row \cup {Absent}]
  /\ pc     \in [Object -> {"idle", "select", "update", "delete"}]
  /\ result \in [Object -> {"none", "ok", "raised"}]

\* The copy of a row that _from_db_object makes: every field, none changed.
FromDb(i, row) == [id |-> i, val |-> row, dirty |-> {}]

Init ==
  /\ unique \in BOOLEAN
  /\ rows   = [i \in Id |-> Absent]
  /\ born   = [i \in Id |-> 0]
  /\ locked = [i \in Id |-> Nobody]
  /\ obj    = [o \in Object |-> FromDb(0, Absent)]
  /\ seen   = [o \in Object |-> 0]
  /\ ref    = [o \in Object |-> Absent]
  /\ pc     = [o \in Object |-> "idle"]
  /\ result = [o \in Object |-> "none"]

RowOf(o)    == obj[o].id
Ends(o, r)  == result' = [result EXCEPT ![o] = r]
Goto(o, s)  == pc' = [pc EXCEPT ![o] = s]
InsertAt(i, row) ==
  /\ rows' = [rows EXCEPT ![i] = row]
  /\ born' = [born EXCEPT ![i] = @ + 1]

-----------------------------------------------------------------------------
(* Queries.                                                                *)

\* A query that finds nothing, or whose exception is swallowed, gives None.
NotFound(i) == rows[i] = Absent \/ "db" \in Faults

\* _from_db_object raises on None.
GetById(o, i) ==
  /\ pc[o] = "idle"
  /\ \/ /\ rows[i] # Absent /\ Ends(o, "ok")
        /\ obj' = [obj EXCEPT ![o] = FromDb(i, rows[i])]
        /\ seen' = [seen EXCEPT ![o] = born[i]]
     \/ NotFound(i) /\ Ends(o, "raised") /\ UNCHANGED <<obj, seen>>
  /\ UNCHANGED <<unique, rows, born, tx>>

\* A list is one query, whose filters compare columns; its copies replace some
\* that are not in use any more.
Matching(c, v) == {i \in Id : rows[i] # Absent /\ rows[i][c] = v}

List(c, v) ==
  /\ \E f \in [Matching(c, v) -> {o \in Object : pc[o] = "idle"}] :
       LET got(o) == \E i \in DOMAIN f : f[i] = o
           id(o)  == CHOOSE i \in DOMAIN f : f[i] = o
       IN /\ IsInjective(f)
          /\ obj'    = [o \in Object |-> IF got(o) THEN FromDb(id(o), rows[id(o)]) ELSE obj[o]]
          /\ seen'   = [o \in Object |-> IF got(o) THEN born[id(o)] ELSE seen[o]]
          /\ result' = [o \in Object |-> IF got(o) THEN "ok" ELSE result[o]]
  /\ UNCHANGED <<unique, rows, born, tx>>

\* Setting a field marks it as changed, whatever its value was.
SetField(o, c, v) ==
  /\ pc[o] = "idle" /\ RowOf(o) # 0
  /\ obj' = [obj EXCEPT ![o].val[c] = v, ![o].dirty = @ \cup {c}]
  /\ Ends(o, "none") /\ UNCHANGED <<unique, rows, born, seen, tx>>

-----------------------------------------------------------------------------
(* Create.                                                                 *)

\* Mutant of NewId: the table forgets the ids of the rows it has lost.
NewIdAgain == Max({0} \cup {i \in Id : rows[i] # Absent}) + 1

\* InnoDB never gives an id again; SQLite gives the one after the largest in use.
NewId == Max({0} \cup {i \in Id : IF Sqlite THEN rows[i] # Absent ELSE born[i] > 0}) + 1

\* Connection.create_backup logs a duplicate and then returns a result that was
\* never assigned, which raises.  With "db" the row may be there all the same.
Duplicate(row) ==
  unique /\ \E i \in Id : rows[i] # Absent /\ rows[i]["backup_id"] = row["backup_id"]

Create(o, row) ==
  /\ pc[o] = "idle" /\ NewId \in Id
  /\ \/ /\ ~Duplicate(row) /\ InsertAt(NewId, row)
        /\ obj' = [obj EXCEPT ![o] = FromDb(NewId, row)]
        /\ seen' = [seen EXCEPT ![o] = born[NewId] + 1]
        /\ Ends(o, "ok")
     \/ /\ \/ /\ Duplicate(row) \/ "db" \in Faults
              /\ UNCHANGED <<rows, born>>
           \/ "db" \in Faults /\ ~Duplicate(row) /\ InsertAt(NewId, row)
        /\ Ends(o, "raised") /\ UNCHANGED <<obj, seen>>
  /\ UNCHANGED <<unique, tx>>

-----------------------------------------------------------------------------
(* Save and delete.  Volume.save reads a field that Volume does not have,  *)
(* and is not used.                                                        *)

\* Mutant of CanLock: a deletion need not wait.
CanLockAlways(o) == Sqlite \/ pc[o] = "delete" \/ locked[RowOf(o)] = Nobody

CanLock(o) == Sqlite \/ locked[RowOf(o)] = Nobody

Close(o) ==
  /\ Goto(o, "idle") /\ ref' = [ref EXCEPT ![o] = Absent]
  /\ locked' = [i \in Id |-> IF locked[i] = o THEN Nobody ELSE locked[i]]

Save(o) ==
  /\ pc[o] = "idle" /\ RowOf(o) # 0 /\ ~unique
  /\ Goto(o, "select") /\ Ends(o, "none")
  /\ UNCHANGED <<unique, rows, born, locked, obj, seen, ref>>

\* Mutant of SelectForUpdate: without with_for_update().
SelectOnly(o) ==
  /\ pc[o] = "select"
  /\ \/ /\ rows[RowOf(o)] # Absent /\ ref' = [ref EXCEPT ![o] = rows[RowOf(o)]]
        /\ Goto(o, "update") /\ UNCHANGED <<locked, result>>
     \/ NotFound(RowOf(o)) /\ Close(o) /\ Ends(o, "raised")
  /\ UNCHANGED <<unique, rows, born, obj, seen>>

\* SELECT ... FOR UPDATE, which SQLite does without the lock.  When there is no
\* row, _update uses a name it has not assigned; update_queue catches that and
\* returns None, upon which save raises with its changes still marked.
SelectForUpdate(o) ==
  /\ pc[o] = "select"
  /\ \/ /\ rows[RowOf(o)] # Absent /\ CanLock(o)
        /\ ref' = [ref EXCEPT ![o] = rows[RowOf(o)]]
        /\ locked' = IF Sqlite THEN locked ELSE [locked EXCEPT ![RowOf(o)] = o]
        /\ Goto(o, "update") /\ UNCHANGED result
     \/ NotFound(RowOf(o)) /\ Close(o) /\ Ends(o, "raised")
  /\ UNCHANGED <<unique, rows, born, obj, seen>>

\* The UPDATE has the columns that differ from what was loaded, and none when
\* there is no such column; the loaded row with the changes becomes the copy.
Loaded(o)  == [c \in Column |-> IF c \in obj[o].dirty THEN obj[o].val[c] ELSE ref[o][c]]
Written(o) == {c \in Column : Loaded(o)[c] # ref[o][c]}

WriteRow(o) ==
  rows' = IF Written(o) = {} THEN rows
          ELSE [rows EXCEPT ![RowOf(o)] = [c \in Column |->
                  IF c \in Written(o) THEN obj[o].val[c] ELSE @[c]]]

\* SQLAlchemy raises when its UPDATE finds no row.  With "db" the exception may
\* come before or after the commit.
UpdateRow(o) ==
  /\ pc[o] = "update" /\ Close(o)
  /\ \/ /\ rows[RowOf(o)] # Absent \/ Written(o) = {}
        /\ WriteRow(o) /\ Ends(o, "ok")
        /\ obj' = [obj EXCEPT ![o].val = Loaded(o), ![o].dirty = {}]
     \/ /\ rows[RowOf(o)] = Absent /\ Written(o) # {}
        /\ Ends(o, "raised") /\ UNCHANGED <<rows, obj>>
     \/ /\ "db" \in Faults /\ rows[RowOf(o)] # Absent
        /\ UNCHANGED rows \/ WriteRow(o)
        /\ Ends(o, "raised") /\ UNCHANGED obj
  /\ UNCHANGED <<unique, born, seen>>

\* The row is loaded without a lock.  No exception of a deletion gets out.
Delete(o) ==
  /\ pc[o] = "idle" /\ RowOf(o) # 0
  /\ \/ rows[RowOf(o)] # Absent /\ Goto(o, "delete") /\ Ends(o, "none")
     \/ NotFound(RowOf(o)) /\ Ends(o, "ok") /\ UNCHANGED pc
  /\ UNCHANGED <<unique, rows, born, locked, obj, seen, ref>>

DeleteRow(o) ==
  /\ pc[o] = "delete" /\ CanLock(o)
  /\ \/ rows' = [rows EXCEPT ![RowOf(o)] = Absent]
     \/ "db" \in Faults /\ UNCHANGED rows
  /\ Close(o) /\ Ends(o, "ok")
  /\ UNCHANGED <<unique, born, obj, seen>>

\* The process dies; the server rolls its transaction back.
Crash(o) ==
  /\ "crash" \in Faults /\ RowOf(o) # 0
  /\ obj' = [obj EXCEPT ![o] = FromDb(0, Absent)]
  /\ seen' = [seen EXCEPT ![o] = 0]
  /\ Close(o) /\ Ends(o, "none")
  /\ UNCHANGED <<unique, rows, born>>

Next ==
  \/ \E c \in Column, v \in Value : List(c, v)
  \/ \E o \in Object :
       \/ \E i \in Id : GetById(o, i)
       \/ \E c \in Column, v \in Value : SetField(o, c, v)
       \/ \E row \in Row : Create(o, row)
       \/ Save(o) \/ SelectForUpdate(o) \/ UpdateRow(o)
       \/ Delete(o) \/ DeleteRow(o) \/ Crash(o)

Spec == Init /\ [][Next]_vars

-----------------------------------------------------------------------------
\* The types, and why the two statements act as one: until its transaction ends
\* the row that a save has loaded stays as it was loaded, except on SQLite.
Consistent ==
  /\ TypeOK
  /\ \A o \in Object : pc[o] = "update" /\ ~Sqlite =>
       locked[RowOf(o)] = o /\ rows[RowOf(o)] = ref[o] /\ ref[o] # Absent
  /\ \A i \in Id : locked[i] # Nobody => pc[locked[i]] = "update" /\ RowOf(locked[i]) = i

Store == INSTANCE RowStore WITH table <- rows, copy <- obj

\* Two statements and the columns that changed do what a save promises: it
\* takes effect at one moment, undoes no column that another copy has saved,
\* and never brings a deleted row back.
IsRowStore == Store!Spec

\* A row is changed or deleted through copies of itself only, not through one
\* of an earlier row that has been purged and whose id it has got.
SavesItsOwnRow ==
  [][\A i \in Id : rows[i] # Absent /\ rows'[i] # rows[i] =>
       \E o \in Object : RowOf(o) = i /\ pc[o] \in {"update", "delete"} /\ pc'[o] = "idle"
                         /\ seen[o] = born[i]]_vars
=============================================================================
