------------------------------- MODULE RowStore -------------------------------
(***************************************************************************)
(* What the conductor expects of the objects of staffeln/objects: copies   *)
(* of rows, each of which is saved or deleted at one moment.  A save puts  *)
(* the columns its own copy has set into the row as it is then, leaves the *)
(* others as it finds them, brings the copy up to date, and raises when    *)
(* there is no such row.  Conductor!Save is a step of this kind.           *)
(***************************************************************************)
EXTENDS Naturals

CONSTANTS
  Object,   \* the copies of rows, in whatever process
  Column,
  Value,
  Id        \* the ids of rows

Absent == << >>   \* no row, which has no columns
Row    == [Column -> Value]

VARIABLES
  table,    \* the rows
  copy,     \* the id and the values of each copy, and the columns it has set
  result    \* how the last call on each copy ended, unless it was changed since

vars == <<table, copy, result>>

\* An object that has not been read or created.
Blank == [id |-> 0, val |-> Absent, dirty |-> {}]

Init ==
  /\ table = [i \in Id |-> Absent]
  /\ copy = [o \in Object |-> Blank]
  /\ result = [o \in Object |-> "none"]

\* The row with the columns that the copy has set.
Merged(o) ==
  [c \in Column |-> IF c \in copy[o].dirty THEN copy[o].val[c] ELSE table[copy[o].id][c]]

Ends(o, r) == result' = [result EXCEPT ![o] = r]

Read(o, i) ==
  /\ table[i] # Absent
  /\ copy' = [copy EXCEPT ![o] = [id |-> i, val |-> table[i], dirty |-> {}]]
  /\ Ends(o, "ok") /\ UNCHANGED table

ReadAll ==
  /\ \E f \in [Object -> Id \cup {0}] :
       /\ \A o \in Object : f[o] # 0 => table[f[o]] # Absent
       /\ copy' = [o \in Object |->
                     IF f[o] = 0 THEN copy[o]
                     ELSE [id |-> f[o], val |-> table[f[o]], dirty |-> {}]]
       /\ result' = [o \in Object |-> IF f[o] = 0 THEN result[o] ELSE "ok"]
  /\ UNCHANGED table

Assign(o) ==
  /\ copy[o].id # 0
  /\ UNCHANGED table /\ Ends(o, "none")
  /\ \E c \in Column, v \in Value :
       copy' = [copy EXCEPT ![o].val[c] = v, ![o].dirty = @ \cup {c}]

Create(o) ==
  \E i \in Id, row \in Row :
    /\ table[i] = Absent /\ table' = [table EXCEPT ![i] = row]
    /\ \/ /\ copy' = [copy EXCEPT ![o] = [id |-> i, val |-> row, dirty |-> {}]]
          /\ Ends(o, "ok")
       \/ UNCHANGED copy /\ Ends(o, "raised")

Save(o) ==
  /\ copy[o].id # 0 /\ table[copy[o].id] # Absent
  /\ table' = [table EXCEPT ![copy[o].id] = Merged(o)]
  /\ \/ copy' = [copy EXCEPT ![o].val = Merged(o), ![o].dirty = {}] /\ Ends(o, "ok")
     \/ UNCHANGED copy /\ Ends(o, "raised")

\* A deletion never complains.
Delete(o) ==
  /\ copy[o].id # 0 /\ Ends(o, "ok") /\ UNCHANGED copy
  /\ table' = [table EXCEPT ![copy[o].id] = Absent] \/ UNCHANGED table

Raise(o) == Ends(o, "raised") /\ UNCHANGED <<table, copy>>

Begin(o) == Ends(o, "none") /\ UNCHANGED <<table, copy>>

Forget(o) ==
  /\ copy' = [copy EXCEPT ![o] = Blank]
  /\ Ends(o, "none") /\ UNCHANGED table

Next ==
  \/ \E o \in Object :
       \/ Assign(o) \/ Create(o) \/ Save(o) \/ Delete(o)
       \/ Begin(o) \/ Raise(o) \/ Forget(o)
       \/ \E i \in Id : Read(o, i)
  \/ ReadAll

Spec == Init /\ [][Next]_vars
=============================================================================
