---------------------------- MODULE DatabaseProofs ----------------------------
(***************************************************************************)
(* With InnoDB the objects of staffeln/objects are a RowStore, for any     *)
(* number of copies, rows and columns, whatever fails.  A save has its row *)
(* locked between its two statements (Consistent), so that they act as     *)
(* one; and a row's id is never another row's (IdsOnce), so that a copy is *)
(* of the row that has its id or of none.  SQLite has neither.             *)
(***************************************************************************)
EXTENDS Database, WellFoundedInduction, TLAPS

USE DatabaseAssumption

-----------------------------------------------------------------------------
(* Ids.                                                                    *)

\* A set of natural numbers up to n has a largest one, which Max gives.
LEMMA MaxBound ==
  ASSUME NEW n \in Nat, NEW S, S \subseteq 0 .. n, S # {}
  PROVE  Max(S) \in S /\ \A x \in S : Max(S) >= x
<1> DEFINE R == OpToRel(<, Nat)
           T == {y \in 0 .. n : n - y \in S}
<1>0. \A a, b \in Nat : a < b => <<a, b>> \in R
  BY DEF OpToRel
<1>1. IsWellFoundedOn(R, Nat)
  BY NatLessThanWellFounded
<1>2. T \subseteq Nat
  OBVIOUS
<1>3. T # {}
  <2>1. PICK x \in S : TRUE OBVIOUS
  <2>2. n - x \in T BY <2>1
  <2> QED BY <2>2
<1>4. PICK y \in T : \A z \in T : ~ (<<z, y>> \in R)
  <2> HIDE DEF R, T
  <2> QED BY <1>1, <1>2, <1>3, WFMin
<1>5. n - y \in S /\ \A x \in S : n - y >= x
  <2>1. y \in 0 .. n /\ n - y \in S OBVIOUS
  <2>2. SUFFICES ASSUME NEW x \in S, x > n - y PROVE FALSE
    BY <2>1
  <2>3. n - x \in T /\ n - x < y
    BY <2>1, <2>2
  <2> QED BY <1>0, <1>2, <1>4, <2>3
<1> QED BY <1>5 DEF Max

\* The id of a new row, when InnoDB has one left, is one that no row has had.
LEMMA NewIdIsNew ==
  ASSUME TypeOK, ~Sqlite
  PROVE  NewId \in Nat \ {0} /\ (NewId \in Id => born[NewId] = 0)
<1> DEFINE S == {0} \cup {i \in Id : born[i] > 0}
<1>1. NewId = Max(S) + 1
  BY DEF NewId
<1>2. S \subseteq 0 .. MaxId /\ S # {}
  BY DEF Id
<1>3. Max(S) \in S /\ \A x \in S : Max(S) >= x
  <2> HIDE DEF S
  <2> QED BY <1>2, MaxBound
<1>4. Max(S) \in Nat
  BY <1>2, <1>3
<1>5. ASSUME NewId \in Id PROVE born[NewId] = 0
  <2>1. NewId \notin S
    BY <1>1, <1>3, <1>4
  <2>2. ~(born[NewId] > 0)
    BY <1>5, <2>1
  <2> QED BY <1>5, <2>2 DEF TypeOK
<1> QED BY <1>1, <1>4, <1>5

\* Transactions are about a row, and of every id there has been one row, which is
\* the one that the copies with this id are of.
IdsOnce ==
  /\ \A o \in Object : pc[o] # "idle" => RowOf(o) # 0
  /\ \A o \in Object : RowOf(o) # 0 =>
       obj[o].val \in Row /\ seen[o] = 1 /\ born[RowOf(o)] = 1
  /\ \A i \in Id : rows[i] # Absent => born[i] = 1

Safe == Consistent /\ IdsOnce

-----------------------------------------------------------------------------
(* The invariant.                                                          *)

\* What the transactions about all copies have in common.
Transactions ==
  /\ \A o \in Object : pc[o] = "update" =>
       locked[RowOf(o)] = o /\ rows[RowOf(o)] = ref[o] /\ ref[o] # Absent
  /\ \A i \in Id : locked[i] # Nobody => pc[locked[i]] = "update" /\ RowOf(locked[i]) = i

LEMMA SafeParts ==
  ASSUME ~Sqlite
  PROVE  /\ Safe <=> TypeOK /\ Transactions /\ IdsOnce
         /\ (Safe <=> TypeOK /\ Transactions /\ IdsOnce)'
BY DEF Safe, Consistent, Transactions

LEMMA InitSafe == Init => Safe
BY DEF Init, Safe, Consistent, TypeOK, IdsOnce, RowOf, FromDb, Copy

LEMMA FoundTyped ==
  ASSUME TypeOK, NEW i \in Id, rows[i] # Absent
  PROVE  rows[i] \in Row
BY DEF TypeOK

LEMMA CopyOfRow ==
  ASSUME NEW i \in Id, NEW row \in Row
  PROVE  /\ FromDb(i, row) \in Copy
         /\ FromDb(i, row).id = i /\ FromDb(i, row).val = row /\ i # 0
BY DEF FromDb, Copy, Id

\* A step that reads rows into copies that no transaction is about.
Fresh(o) ==
  /\ pc[o] = "idle"
  /\ \E i \in Id : /\ rows[i] # Absent
                   /\ obj'[o] = FromDb(i, rows[i]) /\ seen'[o] = born[i]

Kept(o) == obj'[o] = obj[o] /\ seen'[o] = seen[o]

LEMMA FreshOrKept ==
  ASSUME ~Sqlite, Safe,
         UNCHANGED <<unique, rows, born, locked, ref, pc>>,
         result' \in [Object -> {"none", "ok", "raised"}],
         obj' = [o \in Object |-> obj'[o]], seen' = [o \in Object |-> seen'[o]],
         \A o \in Object : Kept(o) \/ Fresh(o)
  PROVE  Safe'
<1>1. TypeOK /\ Transactions /\ IdsOnce BY SafeParts
<1>2. ASSUME NEW o \in Object, Kept(o)
      PROVE  /\ obj'[o] \in Copy /\ seen'[o] \in Nat
             /\ RowOf(o)' # 0 =>
                  obj'[o].val \in Row /\ seen'[o] = 1 /\ born[RowOf(o)'] = 1
             /\ RowOf(o)' = RowOf(o)
  BY <1>1, <1>2 DEF TypeOK, Kept, IdsOnce, RowOf
<1>3. ASSUME NEW o \in Object, Fresh(o)
      PROVE  /\ obj'[o] \in Copy /\ seen'[o] \in Nat
             /\ RowOf(o)' # 0 =>
                  obj'[o].val \in Row /\ seen'[o] = 1 /\ born[RowOf(o)'] = 1
             /\ pc[o] = "idle"
  <2>1. PICK i \in Id : /\ rows[i] # Absent
                        /\ obj'[o] = FromDb(i, rows[i]) /\ seen'[o] = born[i]
    BY <1>3 DEF Fresh
  <2>2. rows[i] \in Row /\ born[i] = 1
    BY <1>1, <2>1, FoundTyped DEF IdsOnce
  <2> QED BY <1>3, <2>1, <2>2, CopyOfRow DEF Fresh, RowOf
<1>4. TypeOK'
  <2>1. obj' \in [Object -> Copy] /\ seen' \in [Object -> Nat]
    BY <1>2, <1>3
  <2> QED BY <1>1, <2>1 DEF TypeOK
<1>5. \A o \in Object : pc[o] # "idle" => RowOf(o)' = RowOf(o)
  BY <1>2, <1>3
<1>6. Transactions'
  <2>1. \A o \in Object : pc'[o] = "update" => RowOf(o)' = RowOf(o)
    BY <1>5
  <2>2. \A i \in Id : locked[i] # Nobody => locked[i] \in Object
    BY <1>1 DEF TypeOK
  <2> QED BY <1>1, <2>1, <2>2 DEF Transactions
<1>7. IdsOnce'
  BY <1>1, <1>2, <1>3, <1>5 DEF IdsOnce
<1> QED BY <1>4, <1>6, <1>7, SafeParts

LEMMA GetByIdSafe ==
  ASSUME ~Sqlite, Safe, NEW o \in Object, NEW i \in Id, GetById(o, i)
  PROVE  Safe'
<1>1. TypeOK BY SafeParts
<1>2. /\ UNCHANGED <<unique, rows, born, locked, ref, pc>>
      /\ result' \in [Object -> {"none", "ok", "raised"}]
      /\ obj' = [p \in Object |-> obj'[p]] /\ seen' = [p \in Object |-> seen'[p]]
  BY <1>1 DEF TypeOK, GetById, Ends, tx
<1>3. \A p \in Object : Kept(p) \/ Fresh(p)
  BY <1>1 DEF TypeOK, GetById, Kept, Fresh
<1> QED BY <1>2, <1>3, FreshOrKept

LEMMA ListSafe ==
  ASSUME ~Sqlite, Safe, NEW c \in Column, NEW v \in Value, List(c, v)
  PROVE  Safe'
<1>1. TypeOK BY SafeParts
<1>2. PICK f \in [Matching(c, v) -> {o \in Object : pc[o] = "idle"}] :
        /\ obj'    = [o \in Object |-> IF \E i \in DOMAIN f : f[i] = o
             THEN FromDb(CHOOSE i \in DOMAIN f : f[i] = o,
                         rows[CHOOSE i \in DOMAIN f : f[i] = o])
             ELSE obj[o]]
        /\ seen'   = [o \in Object |-> IF \E i \in DOMAIN f : f[i] = o
             THEN born[CHOOSE i \in DOMAIN f : f[i] = o] ELSE seen[o]]
        /\ result' = [o \in Object |-> IF \E i \in DOMAIN f : f[i] = o
             THEN "ok" ELSE result[o]]
  BY DEF List
<1>3. UNCHANGED <<unique, rows, born, locked, ref, pc>>
  BY DEF List, tx
<1>4. DOMAIN f = {i \in Id : rows[i] # Absent /\ rows[i][c] = v}
  BY DEF Matching
<1>5. ASSUME NEW o \in Object PROVE Kept(o) \/ Fresh(o)
  <2>1. CASE \E i \in DOMAIN f : f[i] = o
    <3>1. PICK i \in DOMAIN f : i = (CHOOSE j \in DOMAIN f : f[j] = o) /\ f[i] = o
      BY <2>1
    <3>2. i \in Id /\ rows[i] # Absent /\ pc[o] = "idle"
      BY <1>4, <3>1
    <3>3. obj'[o] = FromDb(i, rows[i]) /\ seen'[o] = born[i]
      BY <1>2, <2>1, <3>1
    <3> QED BY <3>2, <3>3 DEF Fresh
  <2>2. CASE ~ \E i \in DOMAIN f : f[i] = o
    BY <1>2, <2>2 DEF Kept
  <2> QED BY <2>1, <2>2
<1>6. result' \in [Object -> {"none", "ok", "raised"}]
  BY <1>1, <1>2 DEF TypeOK
<1>7. obj' = [o \in Object |-> obj'[o]] /\ seen' = [o \in Object |-> seen'[o]]
  BY <1>2
<1> QED BY <1>3, <1>5, <1>6, <1>7, FreshOrKept

LEMMA ChangedCopy ==
  ASSUME NEW r \in Copy, NEW c, NEW v
  PROVE  [r EXCEPT !.val[c] = v, !.dirty = @ \cup {c}] =
           [id |-> r.id, val |-> [r.val EXCEPT ![c] = v], dirty |-> r.dirty \cup {c}]
<1> DEFINE s == [id |-> r.id, val |-> [r.val EXCEPT ![c] = v], dirty |-> r.dirty]
<1>1. r = [id |-> r.id, val |-> r.val, dirty |-> r.dirty]
  BY DEF Copy
<1>2. [r EXCEPT !.val[c] = v, !.dirty = @ \cup {c}] =
        [[r EXCEPT !.val[c] = v] EXCEPT !.dirty = @ \cup {c}]
  BY <1>1
<1>3. [r EXCEPT !.val[c] = v] = s
  BY <1>1
<1>4. [s EXCEPT !.dirty = @ \cup {c}] =
        [id |-> r.id, val |-> [r.val EXCEPT ![c] = v], dirty |-> r.dirty \cup {c}]
  OBVIOUS
<1> HIDE DEF s
<1> QED BY <1>2, <1>3, <1>4, Zenon

LEMMA SetFieldSafe ==
  ASSUME ~Sqlite, Safe, NEW o \in Object, NEW c \in Column, NEW v \in Value,
         SetField(o, c, v)
  PROVE  Safe'
<1>1. TypeOK /\ Transactions /\ IdsOnce BY SafeParts
<1>2. obj[o].val \in Row /\ obj[o] \in Copy
  BY <1>1 DEF IdsOnce, SetField, TypeOK
<1> DEFINE new == [obj[o] EXCEPT !.val[c] = v, !.dirty = @ \cup {c}]
<1>3. obj' = [obj EXCEPT ![o] = new]
  BY <1>1 DEF SetField, TypeOK
<1>4. new.id = obj[o].id /\ new.val \in Row /\ new \in Copy
  <2>1. new = [id |-> obj[o].id, val |-> [obj[o].val EXCEPT ![c] = v],
               dirty |-> obj[o].dirty \cup {c}]
    BY <1>2, ChangedCopy
  <2>2. [obj[o].val EXCEPT ![c] = v] \in Row
    BY <1>2 DEF Row
  <2>3. obj[o].id \in Id \cup {0} /\ obj[o].dirty \cup {c} \in SUBSET Column
    BY <1>2 DEF Copy
  <2> QED BY <2>1, <2>2, <2>3 DEF Copy
<1> HIDE DEF new
<1>5. UNCHANGED <<unique, rows, born, seen, locked, ref, pc>> /\ pc[o] = "idle"
  BY DEF SetField, tx
<1>6. TypeOK'
  BY <1>1, <1>3, <1>4, <1>5 DEF TypeOK, SetField, Ends
<1>7. \A p \in Object : RowOf(p)' = RowOf(p) /\ (p # o => obj'[p] = obj[p])
  BY <1>1, <1>3, <1>4 DEF RowOf, TypeOK
<1>8. Transactions'
  <2>1. \A i \in Id : locked[i] # Nobody => locked[i] \in Object
    BY <1>1 DEF TypeOK
  <2> QED BY <1>1, <1>5, <1>7, <2>1 DEF Transactions
<1>9. IdsOnce'
  <2>1. obj'[o].val \in Row
    BY <1>1, <1>3, <1>4 DEF TypeOK
  <2> QED BY <1>1, <1>5, <1>7, <2>1 DEF IdsOnce
<1> QED BY <1>6, <1>8, <1>9, SafeParts

LEMMA CreateSafe ==
  ASSUME ~Sqlite, Safe, NEW o \in Object, NEW row \in Row, Create(o, row)
  PROVE  Safe'
<1>1. TypeOK /\ Transactions /\ IdsOnce BY SafeParts
<1> DEFINE n == NewId
<1>2. n \in Id /\ born[n] = 0
  BY <1>1, NewIdIsNew DEF Create
<1>3. rows[n] = Absent
  BY <1>1, <1>2 DEF IdsOnce
<1>4. \/ UNCHANGED <<rows, born, obj, seen>>
      \/ /\ rows' = [rows EXCEPT ![n] = row] /\ born' = [born EXCEPT ![n] = 1]
         /\ \/ UNCHANGED <<obj, seen>>
            \/ obj' = [obj EXCEPT ![o] = FromDb(n, row)] /\ seen' = [seen EXCEPT ![o] = 1]
  BY <1>1, <1>2 DEF Create, InsertAt, TypeOK
<1>5. /\ pc[o] = "idle" /\ UNCHANGED <<unique, locked, ref, pc>>
      /\ result' \in [Object -> {"none", "ok", "raised"}]
  BY <1>1 DEF Create, tx, Ends, TypeOK
<1> HIDE DEF n
<1>6. CASE UNCHANGED <<rows, born, obj, seen>>
  <2>1. TypeOK' BY <1>1, <1>5, <1>6 DEF TypeOK
  <2>2. Transactions' /\ IdsOnce'
    BY <1>1, <1>5, <1>6 DEF Transactions, IdsOnce, RowOf
  <2> QED BY <2>1, <2>2, SafeParts
<1>7. CASE rows' = [rows EXCEPT ![n] = row] /\ born' = [born EXCEPT ![n] = 1]
  <2>1. \/ UNCHANGED <<obj, seen>>
        \/ obj' = [obj EXCEPT ![o] = FromDb(n, row)] /\ seen' = [seen EXCEPT ![o] = 1]
    BY <1>4
  <2>2. FromDb(n, row) \in Copy /\ FromDb(n, row).id = n /\ FromDb(n, row).val = row /\ n # 0
    BY <1>2, CopyOfRow
  <2>3. TypeOK'
    BY <1>1, <1>2, <1>5, <1>7, <2>1, <2>2 DEF TypeOK
  <2>4. \A p \in Object : p # o => obj'[p] = obj[p] /\ seen'[p] = seen[p]
    BY <1>1, <2>1 DEF TypeOK
  <2>5. \A i \in Id : i # n => rows'[i] = rows[i] /\ born'[i] = born[i]
    BY <1>1, <1>7 DEF TypeOK
  <2>6. rows'[n] = row /\ born'[n] = 1
    BY <1>1, <1>2, <1>7 DEF TypeOK
  <2>7. \A p \in Object : RowOf(p) \in Id \cup {0} /\ RowOf(p) # n
    BY <1>1, <1>2, <2>2 DEF TypeOK, Copy, IdsOnce, RowOf
  <2>8. Transactions'
    <3>1. \A i \in Id : locked[i] # Nobody => locked[i] \in Object
      BY <1>1 DEF TypeOK
    <3>2. \A p \in Object : pc[p] = "update" =>
            p # o /\ RowOf(p)' = RowOf(p) /\ rows'[RowOf(p)] = rows[RowOf(p)]
      BY <1>1, <1>5, <2>4, <2>5, <2>7 DEF IdsOnce, RowOf
    <3> QED BY <1>1, <1>5, <3>1, <3>2 DEF Transactions
  <2>9. IdsOnce'
    <3>1. ASSUME NEW p \in Object, RowOf(p)' # 0
          PROVE  obj'[p].val \in Row /\ seen'[p] = 1 /\ born'[RowOf(p)'] = 1
      <4>1. CASE obj'[p] = obj[p] /\ seen'[p] = seen[p]
        BY <1>1, <2>5, <2>7, <3>1, <4>1 DEF RowOf, IdsOnce
      <4>2. CASE obj'[p] = FromDb(n, row) /\ seen'[p] = 1
        BY <2>2, <2>6, <4>2 DEF RowOf
      <4> QED BY <1>1, <2>1, <4>1, <4>2 DEF TypeOK
    <3>2. \A p \in Object : pc[p] # "idle" => RowOf(p)' # 0
      BY <1>1, <1>5, <2>4 DEF IdsOnce, RowOf
    <3> QED BY <1>1, <1>2, <1>5, <2>5, <2>6, <3>1, <3>2 DEF IdsOnce
  <2> QED BY <2>3, <2>8, <2>9, SafeParts
<1> QED BY <1>4, <1>6, <1>7

\* A transaction ends: its locks are gone, and those of the others are not.
LEMMA CloseEnds ==
  ASSUME ~Sqlite, Safe, NEW o \in Object, Close(o), NEW r \in {"none", "ok", "raised"},
         Ends(o, r), unique' = unique
  PROVE  /\ pc' = [pc EXCEPT ![o] = "idle"]
         /\ pc' \in [Object -> {"idle", "select", "update", "delete"}]
         /\ locked' \in [Id -> Object \cup {Nobody}]
         /\ ref' \in [Object -> Row \cup {Absent}]
         /\ result' \in [Object -> {"none", "ok", "raised"}]
         /\ \A p \in Object \ {o} : pc'[p] = pc[p] /\ ref'[p] = ref[p]
         /\ \A i \in Id : locked'[i] # Nobody =>
              locked'[i] = locked[i] /\ locked[i] \in Object \ {o}
         /\ \A i \in Id : locked[i] # o => locked'[i] = locked[i]
BY SafeParts DEF TypeOK, Close, Goto, Ends

\* What is left to show of a step that ends a transaction.
LEMMA EndSafe ==
  ASSUME ~Sqlite, Safe, NEW o \in Object, Close(o), NEW r \in {"none", "ok", "raised"},
         Ends(o, r), unique' = unique, born' = born,
         rows' \in [Id -> Row \cup {Absent}],
         \A i \in Id : rows'[i] # rows[i] => i = RowOf(o) /\ locked[i] \in {o, Nobody},
         \A i \in Id : rows[i] = Absent => rows'[i] = Absent,
         obj' \in [Object -> Copy], seen' \in [Object -> Nat],
         \A p \in Object \ {o} : Kept(p),
         RowOf(o)' # 0 => RowOf(o)' = RowOf(o) /\ obj'[o].val \in Row /\ seen'[o] = seen[o]
  PROVE  Safe'
<1>1. TypeOK /\ Transactions /\ IdsOnce BY SafeParts
<1>2. TypeOK'
  BY <1>1, CloseEnds DEF TypeOK
<1>3. \A p \in Object \ {o} : RowOf(p)' = RowOf(p) /\ obj'[p] = obj[p]
  BY DEF Kept, RowOf
<1>4. Transactions'
  <2>1. ASSUME NEW p \in Object, pc'[p] = "update"
        PROVE  /\ p # o /\ pc[p] = "update" /\ locked[RowOf(p)] = p
               /\ RowOf(p) \in Id /\ rows[RowOf(p)] = ref[p] /\ ref[p] # Absent
    <3>1. p # o /\ pc[p] = "update"
      BY <1>1, <2>1, CloseEnds DEF TypeOK
    <3> QED BY <1>1, <3>1 DEF Transactions, IdsOnce, TypeOK, Copy, RowOf
  <2>2. ASSUME NEW p \in Object, pc'[p] = "update"
        PROVE  locked'[RowOf(p)'] = p /\ rows'[RowOf(p)'] = ref'[p] /\ ref'[p] # Absent
    BY <1>3, <2>1, <2>2, CloseEnds
  <2>3. ASSUME NEW i \in Id, locked'[i] # Nobody
        PROVE  pc'[locked'[i]] = "update" /\ obj'[locked'[i]].id = i
    <3>1. locked'[i] = locked[i] /\ locked[i] \in Object \ {o}
      BY <2>3, CloseEnds
    <3>2. pc[locked[i]] = "update" /\ RowOf(locked[i]) = i
      BY <1>1, <2>3, <3>1 DEF Transactions
    <3>3. pc'[locked[i]] = pc[locked[i]]
      BY <3>1, CloseEnds
    <3> QED BY <1>3, <3>1, <3>2, <3>3 DEF RowOf
  <2> QED BY <2>2, <2>3 DEF Transactions, RowOf
<1>5. IdsOnce'
  <2>1. ASSUME NEW p \in Object
        PROVE  /\ pc'[p] # "idle" => RowOf(p)' # 0
               /\ RowOf(p)' # 0 =>
                    obj'[p].val \in Row /\ seen'[p] = 1 /\ born'[RowOf(p)'] = 1
    <3>1. CASE p = o
      BY <1>1, <3>1, CloseEnds DEF TypeOK, IdsOnce
    <3>2. CASE p # o
      BY <1>1, <1>3, <3>2, CloseEnds DEF IdsOnce, Kept
    <3> QED BY <3>1, <3>2
  <2> QED BY <1>1, <2>1 DEF IdsOnce
<1> QED BY <1>2, <1>4, <1>5, SafeParts

\* A transaction begins, or nothing but the result changes.
LEMMA BeginSafe ==
  ASSUME ~Sqlite, Safe, NEW o \in Object, NEW s \in {"select", "delete", "idle"},
         pc[o] = "idle", s # "idle" => RowOf(o) # 0, pc' = [pc EXCEPT ![o] = s],
         NEW r \in {"none", "ok", "raised"}, Ends(o, r),
         UNCHANGED <<unique, rows, born, locked, obj, seen, ref>>
  PROVE  Safe'
<1>1. TypeOK /\ Transactions /\ IdsOnce BY SafeParts
<1>2. TypeOK'
  BY <1>1 DEF TypeOK, Ends
<1>3. \A p \in Object : (pc'[p] = "update" <=> pc[p] = "update") /\ RowOf(p)' = RowOf(p)
  BY <1>1 DEF TypeOK, RowOf
<1>4. Transactions'
  <2>1. \A i \in Id : locked[i] # Nobody => locked[i] \in Object
    BY <1>1 DEF TypeOK
  <2> QED BY <1>1, <1>3, <2>1 DEF Transactions
<1>5. IdsOnce'
  BY <1>1, <1>3 DEF IdsOnce, TypeOK
<1> QED BY <1>2, <1>4, <1>5, SafeParts

LEMMA RowIsId ==
  ASSUME TypeOK, NEW o \in Object, RowOf(o) # 0
  PROVE  RowOf(o) \in Id
BY DEF TypeOK, Copy, RowOf

LEMMA SaveSafe ==
  ASSUME ~Sqlite, Safe, NEW o \in Object, Save(o)
  PROVE  Safe'
<1>1. pc' = [pc EXCEPT ![o] = "select"] /\ Ends(o, "none") /\ pc[o] = "idle"
  BY DEF Save, Goto
<1> QED BY <1>1, BeginSafe DEF Save

LEMMA DeleteSafe ==
  ASSUME ~Sqlite, Safe, NEW o \in Object, Delete(o)
  PROVE  Safe'
<1>1. CASE Goto(o, "delete") /\ Ends(o, "none")
  BY <1>1, BeginSafe DEF Delete, Goto
<1>2. CASE UNCHANGED pc /\ Ends(o, "ok")
  <2>1. pc' = [pc EXCEPT ![o] = "idle"]
    BY <1>2, SafeParts DEF TypeOK, Delete
  <2> QED BY <1>2, <2>1, BeginSafe DEF Delete
<1> QED BY <1>1, <1>2 DEF Delete

LEMMA SelectSafe ==
  ASSUME ~Sqlite, Safe, NEW o \in Object, SelectForUpdate(o)
  PROVE  Safe'
<1>1. TypeOK /\ Transactions /\ IdsOnce BY SafeParts
<1>2. RowOf(o) # 0 /\ RowOf(o) \in Id
  BY <1>1, RowIsId DEF SelectForUpdate, IdsOnce
<1>3. CASE /\ rows[RowOf(o)] # Absent /\ CanLock(o)
           /\ ref' = [ref EXCEPT ![o] = rows[RowOf(o)]]
           /\ locked' = [locked EXCEPT ![RowOf(o)] = o]
           /\ Goto(o, "update") /\ UNCHANGED result
  <2>1. UNCHANGED <<unique, rows, born, obj, seen>> /\ locked[RowOf(o)] = Nobody
    BY <1>3 DEF SelectForUpdate, CanLock
  <2>2. TypeOK'
    BY <1>1, <1>2, <1>3, <2>1 DEF TypeOK, Goto
  <2>3. \A p \in Object : RowOf(p)' = RowOf(p)
    BY <2>1 DEF RowOf
  <2>4. /\ pc'[o] = "update" /\ ref'[o] = rows[RowOf(o)] /\ locked'[RowOf(o)] = o
        /\ \A p \in Object \ {o} : pc'[p] = pc[p] /\ ref'[p] = ref[p]
        /\ \A i \in Id \ {RowOf(o)} : locked'[i] = locked[i]
    BY <1>1, <1>2, <1>3 DEF TypeOK, Goto
  <2>5. ASSUME NEW p \in Object, pc'[p] = "update"
        PROVE  locked'[RowOf(p)] = p /\ rows[RowOf(p)] = ref'[p] /\ ref'[p] # Absent
    <3>1. CASE p = o
      BY <1>3, <2>4, <3>1
    <3>2. CASE p # o
      <4>1. pc[p] = "update" /\ RowOf(p) \in Id /\ locked[RowOf(p)] = p
        BY <1>1, <2>4, <2>5, <3>2, RowIsId DEF Transactions, IdsOnce
      <4>2. RowOf(p) # RowOf(o)
        BY <2>1, <4>1
      <4> QED BY <1>1, <2>4, <3>2, <4>1, <4>2 DEF Transactions
    <3> QED BY <3>1, <3>2
  <2>6. ASSUME NEW i \in Id, locked'[i] # Nobody
        PROVE  pc'[locked'[i]] = "update" /\ RowOf(locked'[i]) = i
    <3>1. CASE i = RowOf(o)
      BY <2>4, <3>1
    <3>2. CASE i # RowOf(o)
      <4>1. locked'[i] = locked[i] /\ locked[i] \in Object
        BY <1>1, <2>4, <2>6, <3>2 DEF TypeOK
      <4>2. pc[locked[i]] = "update" /\ RowOf(locked[i]) = i
        BY <1>1, <2>6, <4>1 DEF Transactions
      <4> QED BY <2>4, <3>2, <4>1, <4>2
    <3> QED BY <3>1, <3>2
  <2>7. Transactions'
    BY <2>1, <2>5, <2>6 DEF Transactions, RowOf
  <2>8. IdsOnce'
    BY <1>1, <1>2, <2>1, <2>3, <2>4 DEF IdsOnce
  <2> QED BY <2>2, <2>7, <2>8, SafeParts
<1>4. CASE Close(o) /\ Ends(o, "raised")
  <2>1. UNCHANGED <<unique, rows, born, obj, seen>>
    BY DEF SelectForUpdate
  <2>2. /\ rows' \in [Id -> Row \cup {Absent}] /\ obj' \in [Object -> Copy]
        /\ seen' \in [Object -> Nat] /\ RowOf(o)' = RowOf(o) /\ obj'[o].val \in Row
    BY <1>1, <1>2, <2>1 DEF TypeOK, RowOf, IdsOnce
  <2> QED BY <1>4, <2>1, <2>2, EndSafe DEF Kept
<1> QED BY <1>3, <1>4 DEF SelectForUpdate

\* A save that updates its row writes the row that it has loaded, and the copy.
LEMMA LoadedTyped ==
  ASSUME ~Sqlite, Safe, NEW o \in Object, pc[o] = "update"
  PROVE  /\ RowOf(o) \in Id /\ locked[RowOf(o)] = o
         /\ ref[o] = rows[RowOf(o)] /\ rows[RowOf(o)] # Absent
         /\ obj[o].val \in Row /\ Loaded(o) \in Row
         /\ WriteRow(o) => rows' = [rows EXCEPT ![RowOf(o)] = Loaded(o)]
<1>1. TypeOK /\ Transactions /\ IdsOnce BY SafeParts
<1>2. /\ RowOf(o) \in Id /\ locked[RowOf(o)] = o /\ obj[o].val \in Row
      /\ ref[o] = rows[RowOf(o)] /\ rows[RowOf(o)] # Absent
  BY <1>1, RowIsId DEF Transactions, IdsOnce
<1>3. ref[o] \in Row
  BY <1>1, <1>2, FoundTyped
<1>4. Loaded(o) \in Row
  BY <1>2, <1>3 DEF Loaded, Row
<1>5. ASSUME WriteRow(o) PROVE rows' = [rows EXCEPT ![RowOf(o)] = Loaded(o)]
  <2>1. CASE Written(o) = {}
    <3>1. \A c \in Column : Loaded(o)[c] = ref[o][c]
      BY <2>1 DEF Written
    <3>2. Loaded(o) = ref[o]
      BY <1>3, <1>4, <3>1 DEF Row
    <3> QED BY <1>1, <1>2, <1>5, <2>1, <3>2 DEF WriteRow, TypeOK
  <2>2. CASE Written(o) # {}
    <3>1. [c \in Column |-> IF c \in Written(o) THEN obj[o].val[c] ELSE rows[RowOf(o)][c]]
            = Loaded(o)
      BY <1>2 DEF Loaded, Written
    <3> QED BY <1>5, <2>2, <3>1 DEF WriteRow
  <2> QED BY <2>1, <2>2
<1> QED BY <1>2, <1>4, <1>5

LEMMA UpdatedCopy ==
  ASSUME TypeOK, NEW o \in Object, NEW row \in Row,
         obj' = [obj EXCEPT ![o].val = row, ![o].dirty = {}]
  PROVE  /\ obj'[o] \in Copy /\ obj'[o].val = row /\ RowOf(o)' = RowOf(o)
         /\ obj' \in [Object -> Copy]
         /\ \A p \in Object \ {o} : obj'[p] = obj[p]
<1>1. PICK r \in Copy : r = obj[o]
  BY DEF TypeOK
<1> DEFINE s == [id |-> r.id, val |-> row, dirty |-> r.dirty]
           t == [id |-> r.id, val |-> row, dirty |-> {}]
<1>2. /\ obj'[o] = [[r EXCEPT !.val = row] EXCEPT !.dirty = {}]
      /\ obj' \in [Object -> {obj'[p] : p \in Object}]
      /\ \A p \in Object \ {o} : obj'[p] = obj[p]
  BY <1>1 DEF TypeOK
<1>3. r = [id |-> r.id, val |-> r.val, dirty |-> r.dirty] /\ r.id \in Id \cup {0}
  BY DEF Copy
<1>4. [r EXCEPT !.val = row] = s
  BY <1>3
<1>5. [s EXCEPT !.dirty = {}] = t
  OBVIOUS
<1>6. t \in Copy /\ t.id = r.id /\ t.val = row
  BY <1>3 DEF Copy
<1> HIDE DEF s, t
<1>7. obj'[o] = t
  BY <1>2, <1>4, <1>5, Zenon
<1> QED BY <1>1, <1>2, <1>6, <1>7 DEF TypeOK, RowOf

LEMMA UpdateSafe ==
  ASSUME ~Sqlite, Safe, NEW o \in Object, UpdateRow(o)
  PROVE  Safe'
<1>1. TypeOK /\ Transactions /\ IdsOnce BY SafeParts
<1>2. /\ RowOf(o) \in Id /\ locked[RowOf(o)] = o /\ obj[o].val \in Row
      /\ rows[RowOf(o)] # Absent /\ Loaded(o) \in Row
  BY LoadedTyped DEF UpdateRow
<1>3. rows' = rows \/ rows' = [rows EXCEPT ![RowOf(o)] = Loaded(o)]
  BY LoadedTyped DEF UpdateRow
<1>4. /\ rows' \in [Id -> Row \cup {Absent}]
      /\ \A i \in Id : rows'[i] # rows[i] => i = RowOf(o) /\ locked[i] \in {o, Nobody}
      /\ \A i \in Id : rows[i] = Absent => rows'[i] = Absent
  BY <1>1, <1>2, <1>3 DEF TypeOK
<1>5. /\ \/ obj' = [obj EXCEPT ![o].val = Loaded(o), ![o].dirty = {}]
         \/ obj' = obj
      /\ UNCHANGED <<unique, born, seen>> /\ Close(o)
      /\ Ends(o, "ok") \/ Ends(o, "raised")
  BY DEF UpdateRow
<1>6. /\ obj' \in [Object -> Copy] /\ obj'[o].val \in Row /\ RowOf(o)' = RowOf(o)
      /\ \A p \in Object \ {o} : obj'[p] = obj[p]
  BY <1>1, <1>2, <1>5, UpdatedCopy DEF TypeOK, RowOf
<1> QED BY <1>1, <1>4, <1>5, <1>6, EndSafe DEF Kept, TypeOK

LEMMA DeleteRowSafe ==
  ASSUME ~Sqlite, Safe, NEW o \in Object, DeleteRow(o)
  PROVE  Safe'
<1>1. TypeOK /\ Transactions /\ IdsOnce BY SafeParts
<1>2. RowOf(o) \in Id /\ RowOf(o) # 0 /\ locked[RowOf(o)] = Nobody
  BY <1>1, RowIsId DEF DeleteRow, IdsOnce, CanLock
<1>3. rows' = rows \/ rows' = [rows EXCEPT ![RowOf(o)] = Absent]
  BY DEF DeleteRow
<1>4. /\ rows' \in [Id -> Row \cup {Absent}]
      /\ \A i \in Id : rows'[i] # rows[i] => i = RowOf(o) /\ locked[i] \in {o, Nobody}
      /\ \A i \in Id : rows[i] = Absent => rows'[i] = Absent
  BY <1>1, <1>2, <1>3 DEF TypeOK
<1>5. UNCHANGED <<unique, born, obj, seen>> /\ Close(o) /\ Ends(o, "ok")
  BY DEF DeleteRow
<1>6. /\ obj' \in [Object -> Copy] /\ obj'[o].val \in Row /\ RowOf(o)' = RowOf(o)
      /\ seen' \in [Object -> Nat]
  BY <1>1, <1>2, <1>5 DEF TypeOK, RowOf, IdsOnce
<1> QED BY <1>4, <1>5, <1>6, EndSafe DEF Kept

LEMMA CrashSafe ==
  ASSUME ~Sqlite, Safe, NEW o \in Object, Crash(o)
  PROVE  Safe'
<1>1. TypeOK /\ Transactions /\ IdsOnce BY SafeParts
<1>2. /\ obj' = [obj EXCEPT ![o] = FromDb(0, Absent)] /\ seen' = [seen EXCEPT ![o] = 0]
      /\ UNCHANGED <<unique, rows, born>> /\ Close(o) /\ Ends(o, "none")
  BY DEF Crash
<1>3. FromDb(0, Absent) \in Copy /\ FromDb(0, Absent).id = 0
  BY DEF FromDb, Copy
<1>4. /\ obj' \in [Object -> Copy] /\ RowOf(o)' = 0 /\ seen' \in [Object -> Nat]
      /\ rows' \in [Id -> Row \cup {Absent}]
      /\ \A p \in Object \ {o} : Kept(p)
  BY <1>1, <1>2, <1>3 DEF TypeOK, RowOf, Kept
<1> QED BY <1>2, <1>4, EndSafe

LEMMA NextSafe ==
  ASSUME ~Sqlite, Safe, [Next]_vars
  PROVE  Safe'
<1>1. CASE UNCHANGED vars
  <2>1. TypeOK' /\ Transactions' /\ IdsOnce'
    BY <1>1, SafeParts DEF vars, tx, TypeOK, Transactions, IdsOnce, RowOf
  <2> QED BY <2>1, SafeParts
<1> QED BY <1>1, GetByIdSafe, ListSafe, SetFieldSafe, CreateSafe, SaveSafe, SelectSafe,
           UpdateSafe, DeleteSafe, DeleteRowSafe, CrashSafe DEF Next

\* models.py and api.py, with InnoDB: between its two statements a save has its
\* row to itself, for any number of copies, rows and columns.
THEOREM AlwaysConsistent ==
  ASSUME ~Sqlite
  PROVE  Spec => []Consistent
<1>1. Safe /\ [Next]_vars => Safe'
  BY NextSafe
<1>2. Safe => Consistent
  BY DEF Safe
<1> QED BY <1>1, <1>2, InitSafe, PTL DEF Spec

-----------------------------------------------------------------------------
(* The refinement.                                                         *)

LEMMA ReadMaps ==
  ASSUME ~Sqlite, Safe, NEW o \in Object, NEW i \in Id, GetById(o, i)
  PROVE  [Store!Next]_(Store!vars)
<1>1. CASE /\ rows[i] # Absent /\ Ends(o, "ok")
           /\ obj' = [obj EXCEPT ![o] = FromDb(i, rows[i])]
  <2>1. Store!Read(o, i)
    BY <1>1 DEF Store!Read, Store!Absent, Absent, GetById, FromDb, Ends, Store!Ends
  <2> QED BY <2>1 DEF Store!Next
<1>2. CASE Ends(o, "raised") /\ UNCHANGED <<obj, seen>>
  <2>1. Store!Raise(o)
    BY <1>2 DEF Store!Raise, GetById, Ends, Store!Ends
  <2> QED BY <2>1 DEF Store!Next
<1> QED BY <1>1, <1>2 DEF GetById

LEMMA ListMaps ==
  ASSUME ~Sqlite, Safe, NEW c \in Column, NEW v \in Value, List(c, v)
  PROVE  [Store!Next]_(Store!vars)
<1>1. PICK f \in [Matching(c, v) -> {o \in Object : pc[o] = "idle"}] :
        /\ obj'    = [o \in Object |-> IF \E i \in DOMAIN f : f[i] = o
             THEN FromDb(CHOOSE i \in DOMAIN f : f[i] = o,
                         rows[CHOOSE i \in DOMAIN f : f[i] = o])
             ELSE obj[o]]
        /\ result' = [o \in Object |-> IF \E i \in DOMAIN f : f[i] = o
             THEN "ok" ELSE result[o]]
  BY DEF List
<1> DEFINE id(o) == CHOOSE i \in DOMAIN f : f[i] = o
           g == [o \in Object |-> IF \E i \in DOMAIN f : f[i] = o THEN id(o) ELSE 0]
<1>2. DOMAIN f = {i \in Id : rows[i] # Absent /\ rows[i][c] = v}
  BY DEF Matching
<1>3. ASSUME NEW o \in Object, \E i \in DOMAIN f : f[i] = o
      PROVE  id(o) \in Id /\ rows[id(o)] # Absent /\ id(o) # 0
  <2>1. id(o) \in DOMAIN f
    BY <1>3
  <2>2. id(o) \in Id /\ rows[id(o)] # Absent
    BY <1>2, <2>1
  <2> HIDE DEF id
  <2> QED BY <2>2 DEF Id
<1>4. /\ obj' = [o \in Object |-> IF g[o] = 0 THEN obj[o] ELSE FromDb(g[o], rows[g[o]])]
      /\ result' = [o \in Object |-> IF g[o] = 0 THEN result[o] ELSE "ok"]
  <2> HIDE DEF id
  <2>1. \A o \in Object : g[o] = 0 <=> ~ \E i \in DOMAIN f : f[i] = o
    BY <1>3
  <2>2. \A o \in Object : g[o] # 0 => g[o] = id(o)
    OBVIOUS
  <2>3. /\ obj' = [o \in Object |-> IF \E i \in DOMAIN f : f[i] = o
             THEN FromDb(id(o), rows[id(o)]) ELSE obj[o]]
    BY <1>1 DEF id
  <2> HIDE DEF g
  <2> QED BY <1>1, <2>1, <2>2, <2>3
<1>5. g \in [Object -> Id \cup {0}] /\ \A o \in Object : g[o] # 0 => rows[g[o]] # Absent
  <2> HIDE DEF id
  <2> QED BY <1>3
<1>6. Store!ReadAll
  <2> HIDE DEF g
  <2> QED BY <1>4, <1>5 DEF Store!ReadAll, Store!Absent, Absent, FromDb, List
<1> QED BY <1>6 DEF Store!Next

LEMMA CreateMaps ==
  ASSUME ~Sqlite, Safe, NEW o \in Object, NEW row \in Row, Create(o, row)
  PROVE  [Store!Next]_(Store!vars)
<1>1. TypeOK /\ IdsOnce BY SafeParts
<1>2. NewId \in Id /\ rows[NewId] = Absent
  BY <1>1, NewIdIsNew DEF Create, IdsOnce
<1>3. row \in Store!Row
  BY DEF Row, Store!Row
<1>4. CASE InsertAt(NewId, row) /\ obj' = [obj EXCEPT ![o] = FromDb(NewId, row)] /\ Ends(o, "ok")
  <2>1. Store!Create(o)
    BY <1>2, <1>3, <1>4 DEF Store!Create, Store!Absent, Absent, InsertAt, FromDb, Ends,
                             Store!Ends
  <2> QED BY <2>1 DEF Store!Next
<1>5. CASE InsertAt(NewId, row) /\ UNCHANGED obj /\ Ends(o, "raised")
  <2>1. Store!Create(o)
    BY <1>2, <1>3, <1>5 DEF Store!Create, Store!Absent, Absent, InsertAt, Ends, Store!Ends
  <2> QED BY <2>1 DEF Store!Next
<1>6. CASE UNCHANGED <<rows, obj>> /\ Ends(o, "raised")
  <2>1. Store!Raise(o)
    BY <1>6 DEF Store!Raise, Ends, Store!Ends
  <2> QED BY <2>1 DEF Store!Next
<1> QED BY <1>4, <1>5, <1>6 DEF Create

LEMMA UpdateMaps ==
  ASSUME ~Sqlite, Safe, NEW o \in Object, UpdateRow(o)
  PROVE  [Store!Next]_(Store!vars)
<1>1. TypeOK /\ IdsOnce BY SafeParts
<1>2. /\ RowOf(o) \in Id /\ RowOf(o) # 0
      /\ ref[o] = rows[RowOf(o)] /\ rows[RowOf(o)] # Absent
      /\ WriteRow(o) => rows' = [rows EXCEPT ![RowOf(o)] = Loaded(o)]
  BY LoadedTyped DEF UpdateRow, Id
<1>3. Loaded(o) = Store!Merged(o)
  BY <1>2 DEF Loaded, Store!Merged, RowOf
<1>4. CASE UNCHANGED <<rows, obj>> /\ Ends(o, "raised")
  <2>1. Store!Raise(o)
    BY <1>4 DEF Store!Raise, Ends, Store!Ends
  <2> QED BY <2>1 DEF Store!Next
<1>5. CASE /\ WriteRow(o)
           /\ \/ obj' = [obj EXCEPT ![o].val = Loaded(o), ![o].dirty = {}] /\ Ends(o, "ok")
              \/ UNCHANGED obj /\ Ends(o, "raised")
  <2>1. Store!Save(o)
    BY <1>2, <1>3, <1>5 DEF Store!Save, Store!Absent, Absent, Ends, Store!Ends, RowOf
  <2> QED BY <2>1 DEF Store!Next
<1> QED BY <1>2, <1>4, <1>5 DEF UpdateRow

\* The other steps change at most a row that they delete.
LEMMA OtherMaps ==
  ASSUME ~Sqlite, Safe, NEW o \in Object,
         \/ \E c \in Column, v \in Value : SetField(o, c, v)
         \/ Save(o) \/ SelectForUpdate(o) \/ Delete(o) \/ DeleteRow(o) \/ Crash(o)
  PROVE  [Store!Next]_(Store!vars)
<1>1. TypeOK /\ IdsOnce BY SafeParts
<1>2. ASSUME NEW c \in Column, NEW v \in Value, SetField(o, c, v)
      PROVE  Store!Assign(o)
  BY <1>2 DEF Store!Assign, SetField, RowOf, Ends, Store!Ends
<1>3. CASE Save(o)
  <2>1. Store!Begin(o)
    BY <1>3 DEF Store!Begin, Save, Ends, Store!Ends
  <2> QED BY <2>1 DEF Store!Next
<1>4. CASE SelectForUpdate(o)
  <2>1. Store!Raise(o) \/ UNCHANGED Store!vars
    BY <1>4 DEF Store!Raise, SelectForUpdate, Ends, Store!Ends, Store!vars
  <2> QED BY <2>1 DEF Store!Next
<1>5. CASE Delete(o)
  <2>1. Store!Begin(o) \/ Store!Delete(o)
    BY <1>5 DEF Store!Begin, Store!Delete, Delete, Ends, Store!Ends, RowOf
  <2> QED BY <2>1 DEF Store!Next
<1>6. CASE DeleteRow(o)
  <2>1. RowOf(o) # 0
    BY <1>1, <1>6 DEF IdsOnce, DeleteRow
  <2>2. Store!Delete(o)
    BY <1>6, <2>1 DEF Store!Delete, DeleteRow, Ends, Store!Ends, RowOf, Store!Absent, Absent
  <2> QED BY <2>2 DEF Store!Next
<1>7. CASE Crash(o)
  <2>1. Store!Forget(o)
    BY <1>7 DEF Store!Forget, Store!Blank, Crash, FromDb, Ends, Store!Ends, Store!Absent,
                Absent
  <2> QED BY <2>1 DEF Store!Next
<1> QED BY <1>2, <1>3, <1>4, <1>5, <1>6, <1>7 DEF Store!Next

\* base.py, the objects and api.py, with InnoDB: whatever fails, a save takes
\* effect at one moment, undoes no column that another copy has saved, and
\* brings no deleted row back.
THEOREM DatabaseIsRowStore ==
  ASSUME ~Sqlite
  PROVE  Spec => IsRowStore
<1>1. Init => Store!Init
  BY DEF Init, Store!Init, Store!Blank, FromDb, Store!Absent, Absent
<1>2. Safe /\ [Next]_vars => Safe'
  BY NextSafe
<1>3. Safe /\ [Next]_vars => [Store!Next]_(Store!vars)
  <2> SUFFICES ASSUME Safe, [Next]_vars PROVE [Store!Next]_(Store!vars)
    OBVIOUS
  <2>1. CASE UNCHANGED vars
    BY <2>1 DEF vars, Store!vars
  <2> QED BY <2>1, ReadMaps, ListMaps, CreateMaps, UpdateMaps, OtherMaps DEF Next
<1> QED BY <1>1, <1>2, <1>3, InitSafe, PTL DEF Spec, IsRowStore, Store!Spec

-----------------------------------------------------------------------------
\* With InnoDB, whose ids are not given again, a row is changed and deleted
\* through copies of itself only.
THEOREM SavesTheRowItRead ==
  ASSUME ~Sqlite
  PROVE  Spec => SavesItsOwnRow
<1> DEFINE Own(i, o) == /\ RowOf(o) = i /\ pc[o] \in {"update", "delete"} /\ pc'[o] = "idle"
                        /\ seen[o] = born[i]
<1>1. Safe /\ [Next]_vars => Safe'
  BY NextSafe
<1>2. ASSUME Safe, Next, NEW i \in Id, rows[i] # Absent, rows'[i] # rows[i]
      PROVE  \E o \in Object : Own(i, o)
  <2>1. TypeOK /\ IdsOnce BY <1>2, SafeParts
  <2>2. ASSUME NEW o \in Object, NEW row \in Row, Create(o, row) PROVE FALSE
    <3>1. NewId \in Id /\ rows[NewId] = Absent
      BY <2>1, <2>2, NewIdIsNew DEF Create, IdsOnce
    <3>2. rows' = rows \/ rows' = [rows EXCEPT ![NewId] = row]
      BY <2>2 DEF Create, InsertAt
    <3> QED BY <1>2, <2>1, <3>1, <3>2 DEF TypeOK
  <2>3. ASSUME NEW o \in Object, UpdateRow(o) \/ DeleteRow(o)
        PROVE  Own(i, o)
    <3>1. pc[o] \in {"update", "delete"} /\ pc' = [pc EXCEPT ![o] = "idle"]
      BY <2>3 DEF UpdateRow, DeleteRow, Close, Goto
    <3>2. pc'[o] = "idle" /\ RowOf(o) # 0 /\ RowOf(o) \in Id
      BY <2>1, <3>1, RowIsId DEF TypeOK, IdsOnce
    <3>3. \/ rows' = rows
          \/ \E row : rows' = [rows EXCEPT ![RowOf(o)] = row]
      BY <1>2, <2>3, LoadedTyped DEF UpdateRow, DeleteRow
    <3>4. RowOf(o) = i
      BY <1>2, <2>1, <3>2, <3>3 DEF TypeOK
    <3>5. seen[o] = born[i]
      BY <2>1, <3>2, <3>4 DEF IdsOnce
    <3> QED BY <3>1, <3>2, <3>4, <3>5
  <2>4. \/ \E o \in Object : UpdateRow(o) \/ DeleteRow(o)
        \/ \E o \in Object, row \in Row : Create(o, row)
    BY <1>2 DEF Next, List, GetById, SetField, Save, SelectForUpdate, Delete, Crash
  <2> QED BY <2>2, <2>3, <2>4
<1>3. Safe /\ [Next]_vars =>
        [\A i \in Id : rows[i] # Absent /\ rows'[i] # rows[i] =>
           \E o \in Object : RowOf(o) = i /\ pc[o] \in {"update", "delete"} /\ pc'[o] = "idle"
                             /\ seen[o] = born[i]]_vars
  BY <1>2
<1> QED BY <1>1, <1>3, InitSafe, PTL DEF Spec, SavesItsOwnRow
=============================================================================
