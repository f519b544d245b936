--------------------------- MODULE BackupChainProofs ---------------------------
(***************************************************************************)
(* A task that is still fresh was planned when the youngest row was old    *)
(* enough, and only a new row makes the youngest one younger.  Its method  *)
(* is the one the last rows ask for, which tell the length of the run as   *)
(* far as they reach.                                                      *)
(***************************************************************************)
EXTENDS BackupChain, TLAPS

USE ChainAssumption

LEMMA OldEnough == /\ OldAge \in Nat /\ OldAge >= MinInterval
                   /\ Zone \in Nat /\ ~Young /\ youngest \in Nat => youngest >= MinInterval
BY DEF OldAge, Young

\* What the puller and the tasks it has planned know of the interval.
Waited == youngest >= MinInterval

Due ==
  /\ youngest \in Nat
  /\ pc \in {"required", "insert"} /\ fresh => Waited
  /\ \A t \in Task :
       task[t].status \in {"PLANNED", "INIT"} /\ task[t].fresh => Waited

\* The part of the type invariant the argument needs.
TaskRow == [status: {"FREE", "PLANNED", "INIT", "WIP"},
            incremental: BOOLEAN, fresh: BOOLEAN]

RowsTyped ==
  task \in [Task -> TaskRow] /\ method \in BOOLEAN /\ fresh \in BOOLEAN

LEMMA FreeRowTyped == FreeRow \in TaskRow /\ FreeRow.status = "FREE"
BY DEF FreeRow, TaskRow

LEMMA InitOK == Init => RowsTyped /\ Due
<1> SUFFICES ASSUME Init PROVE RowsTyped /\ Due
  OBVIOUS
<1>1. \A t \in Task : task[t] = FreeRow BY DEF Init
<1> QED BY <1>1, FreeRowTyped, OldEnough DEF Init, RowsTyped, Due, Waited

\* Setting the status of a row changes nothing else of it.
LEMMA SetStatusTyped ==
  ASSUME RowsTyped, NEW t \in Task, NEW s \in {"INIT", "WIP"}, SetStatus(t, s)
  PROVE  /\ task' \in [Task -> TaskRow]
         /\ \A u \in Task : task'[u].fresh = task[u].fresh
         /\ \A u \in Task \ {t} : task'[u] = task[u]
         /\ task'[t].status = s
<1>1. task' = [task EXCEPT ![t] = [task[t] EXCEPT !.status = s]]
  BY DEF SetStatus
<1>2. task[t] \in TaskRow
  BY DEF RowsTyped
<1>3. /\ [task[t] EXCEPT !.status = s] \in TaskRow
      /\ [task[t] EXCEPT !.status = s].status = s
      /\ [task[t] EXCEPT !.status = s].fresh = task[t].fresh
  BY <1>2 DEF TaskRow
<1> QED BY <1>1, <1>3 DEF RowsTyped

LEMMA RowsTypedNext ==
  ASSUME RowsTyped, [Next]_vars
  PROVE  RowsTyped'
<1>1. CASE ReadWip \/ ReadPlanned \/ Tick
  BY <1>1 DEF ReadWip, ReadPlanned, Tick, puller, RowsTyped
<1>2. CASE IsRequired \/ DecideMethod
  BY <1>2 DEF IsRequired, DecideMethod, Incremental, RowsTyped
<1>3. CASE Insert
  <2>1. [status |-> "PLANNED", incremental |-> method, fresh |-> fresh] \in TaskRow
    BY DEF RowsTyped, TaskRow
  <2> QED BY <1>3, <2>1 DEF Insert, InStatus, RowsTyped
<1>4. ASSUME NEW t \in Task, Claim(t) \/ StartBackup(t) PROVE RowsTyped'
  BY <1>4, SetStatusTyped, FreeRowTyped
  DEF Claim, StartBackup, Close, puller, RowsTyped
<1>5. ASSUME NEW t \in Task, Complete(t) \/ Fail(t) PROVE RowsTyped'
  <2>1. \A u \in Task : [task[u] EXCEPT !.fresh = FALSE] \in TaskRow
    BY DEF RowsTyped, TaskRow
  <2> QED BY <1>5, <2>1, FreeRowTyped
          DEF Complete, Fail, VolumeBackup, Close, puller, RowsTyped
<1>6. CASE UNCHANGED vars
  BY <1>6 DEF vars, RowsTyped
<1> QED BY <1>1, <1>2, <1>3, <1>4, <1>5, <1>6 DEF Next

LEMMA DueNext ==
  ASSUME Zone \in Nat, RowsTyped, Due, [Next]_vars
  PROVE  Due'
<1>1. CASE ReadWip \/ ReadPlanned
  BY <1>1 DEF ReadWip, ReadPlanned, Due, Waited
<1>2. CASE IsRequired \/ DecideMethod
  BY <1>2, OldEnough DEF IsRequired, DecideMethod, Due, Waited
<1>3. CASE Insert
  BY <1>3 DEF Insert, InStatus, RowsTyped, Due, Waited
<1>4. CASE Tick
  BY <1>4 DEF Tick, puller, Due, Waited
<1>5. ASSUME NEW t \in Task, Claim(t) \/ StartBackup(t) PROVE Due'
  BY <1>5, SetStatusTyped, FreeRowTyped
  DEF Claim, StartBackup, Close, puller, RowsTyped, Due, Waited
<1>6. ASSUME NEW t \in Task, VolumeBackup(t, TRUE) \/ VolumeBackup(t, FALSE)
      PROVE  Due'
  <2>1. \A u \in Task : ~[task[u] EXCEPT !.fresh = FALSE].fresh
    BY DEF RowsTyped, TaskRow
  <2>2. youngest' = 0 /\ fresh' = FALSE
    BY <1>6 DEF VolumeBackup
  <2>3. ASSUME NEW u \in Task
        PROVE  task'[u].status = "FREE" \/ ~task'[u].fresh
    BY <1>6, <2>1, FreeRowTyped DEF VolumeBackup
  <2> QED BY <2>2, <2>3 DEF Due
<1>7. ASSUME NEW t \in Task, Close(t), UNCHANGED <<youngest, fresh, pc>>
      PROVE  Due'
  BY <1>7, FreeRowTyped DEF Close, RowsTyped, Due, Waited
<1>8. ASSUME NEW t \in Task, Complete(t) \/ Fail(t) PROVE Due'
  BY <1>6, <1>7, <1>8 DEF Complete, Fail, puller
<1>9. CASE UNCHANGED vars
  BY <1>9 DEF vars, Due, Waited
<1> QED BY <1>1, <1>2, <1>3, <1>4, <1>5, <1>8, <1>9 DEF Next

\* README.md:66-67, for any backup_min_interval, any number of rows and
\* conductors and every failure: a backup starts within the interval only when
\* a row has come since its task was planned, or backup_data could not be read.
\* The conductors' time must not be behind UTC.
THEOREM IntervalIsKept ==
  ASSUME Zone \in Nat
  PROVE  Spec => IntervalKept
<1>1. Due /\ [Next]_vars => [\A t \in Task :
        Starts(t) /\ task[t].fresh => youngest >= MinInterval]_vars
  BY DEF Due, Waited, Starts
<1>2. RowsTyped /\ Due /\ [Next]_vars => (RowsTyped /\ Due)'
  BY RowsTypedNext, DueNext
<1> QED BY <1>1, <1>2, InitOK, PTL DEF Spec, IntervalKept

-----------------------------------------------------------------------------
(* The order of full and incremental backups.  A history is read from its  *)
(* end: row 0 is the youngest.                                             *)

Back(h, n) == h[Len(h) - n]

\* The n youngest rows are of completed incremental backups.
IncrementalSince(h, n) ==
  \A d \in 0 .. n - 1 : Back(h, d).incremental /\ Back(h, d).completed

FullAt(h, n) == ~Back(h, n).incremental /\ Back(h, n).completed

\* What a history h says of a run m, which looks further back.
Tells(h, m) ==
  /\ \A n \in 0 .. Len(h) - 1 : IncrementalSince(h, n) /\ FullAt(h, n) => m = n
  /\ \A n \in 0 .. Len(h) : IncrementalSince(h, n) => m = NoFull \/ m >= n
  /\ Len(h) < FullDepth /\ m # NoFull => \E n \in 0 .. Len(h) - 1 : FullAt(h, n)
  /\ (\E n \in 0 .. Len(h) - 1 : ~Back(h, n).incremental)
       => \E n \in 0 .. Len(h) - 1 :
            ~Back(h, n).incremental /\ \A d \in 0 .. n - 1 : Back(h, d).incremental

Histories == {h \in Seq(Row) : Len(h) <= FullDepth}
Runs      == NoFull .. FullDepth + 1

\* What get_backups returns after one more row.
LEMMA WindowSlides ==
  ASSUME NEW h \in Histories, NEW r \in Row, NEW w, w = Window(Append(h, r))
  PROVE  /\ w \in Histories
         /\ FullDepth = 0 => Len(w) = 0
         /\ FullDepth > 0 =>
              /\ Len(w) = IF Len(h) < FullDepth THEN Len(h) + 1 ELSE FullDepth
              /\ Back(w, 0) = r
              /\ \A n \in 1 .. Len(w) - 1 : Back(w, n) = Back(h, n - 1)
<1> DEFINE a == Append(h, r)
<1>1. /\ a \in Seq(Row) /\ Len(a) = Len(h) + 1 /\ a[Len(h) + 1] = r
      /\ \A i \in 1 .. Len(h) : a[i] = h[i]
  BY DEF Histories
<1>2. Len(h) \in Nat /\ Len(h) <= FullDepth
  BY DEF Histories
<1>3. /\ Tail(a) \in Seq(Row) /\ Len(Tail(a)) = Len(h)
      /\ \A i \in 1 .. Len(h) : Tail(a)[i] = a[i + 1]
  BY <1>1, <1>2
<1> HIDE DEF a
<1>4. w = IF Len(a) > FullDepth THEN Tail(a) ELSE a
  BY DEF Window, a
<1>5. CASE Len(h) < FullDepth
  BY <1>1, <1>2, <1>4, <1>5 DEF Back, Histories
<1>6. CASE Len(h) = FullDepth
  <2>1. w = Tail(a)
    BY <1>1, <1>4, <1>6
  <2>2. ASSUME NEW n \in 1 .. Len(h) - 1 PROVE Back(w, n) = Back(h, n - 1)
    <3>1. Tail(a)[Len(h) - n] = a[Len(h) - n + 1]
      BY <1>2, <1>3
    <3>2. a[Len(h) - n + 1] = h[Len(h) - n + 1]
      BY <1>1, <1>2
    <3> QED BY <1>2, <1>3, <2>1, <3>1, <3>2 DEF Back
  <2> QED BY <1>1, <1>2, <1>3, <1>6, <2>1, <2>2 DEF Back, Histories
<1> QED BY <1>2, <1>5, <1>6

\* The run after a row r.
RunAfter(m, r) ==
  IF ~r.completed THEN m
  ELSE IF ~r.incremental THEN 0
  ELSE IF m <= FullDepth THEN m + 1 ELSE m

LEMMA RowAdded ==
  ASSUME NEW h \in Histories, NEW m \in Runs, Tells(h, m), NEW r \in Row,
         r.incremental /\ r.completed => m # NoFull
  PROVE  /\ Window(Append(h, r)) \in Histories /\ RunAfter(m, r) \in Runs
         /\ Tells(Window(Append(h, r)), RunAfter(m, r))
<1> DEFINE w  == Window(Append(h, r))
           m2 == RunAfter(m, r)
<1>1. /\ w \in Histories
      /\ FullDepth = 0 => Len(w) = 0
      /\ FullDepth > 0 =>
           /\ Len(w) = IF Len(h) < FullDepth THEN Len(h) + 1 ELSE FullDepth
           /\ Back(w, 0) = r
           /\ \A n \in 1 .. Len(w) - 1 : Back(w, n) = Back(h, n - 1)
  BY WindowSlides
<1>2. r.incremental \in BOOLEAN /\ r.completed \in BOOLEAN
  BY DEF Row
<1>3. m2 \in Runs
  BY <1>2 DEF RunAfter, Runs, NoFull
<1>4. m2 = RunAfter(m, r)
  OBVIOUS
<1> HIDE DEF w, m2
<1>5. Len(w) \in Nat /\ Len(h) \in Nat /\ Len(h) <= FullDepth
  BY <1>1 DEF Histories
<1>6. CASE FullDepth = 0
  <2>1. Len(w) = 0 BY <1>1, <1>6
  <2> QED BY <1>1, <1>3, <1>6, <2>1 DEF Tells, Runs, NoFull, w, m2
<1>7. CASE FullDepth > 0
  <2>0. /\ Len(w) = IF Len(h) < FullDepth THEN Len(h) + 1 ELSE FullDepth
        /\ Back(w, 0) = r
        /\ \A n \in 1 .. Len(w) - 1 : Back(w, n) = Back(h, n - 1)
    BY <1>1, <1>7
  <2>1. ASSUME NEW n \in Nat, n >= 1, n <= Len(w), IncrementalSince(w, n)
        PROVE  r.incremental /\ r.completed /\ IncrementalSince(h, n - 1)
    <3>1. Back(w, 0).incremental /\ Back(w, 0).completed
      BY <2>1 DEF IncrementalSince
    <3>2. ASSUME NEW d \in 0 .. (n - 1) - 1
          PROVE  Back(h, d).incremental /\ Back(h, d).completed
      <4>1. d + 1 \in 1 .. Len(w) - 1 /\ d + 1 \in 0 .. n - 1
        BY <1>5, <2>1
      <4>2. Back(w, d + 1) = Back(h, d)
        BY <2>0, <4>1
      <4> QED BY <2>1, <4>1, <4>2 DEF IncrementalSince
    <3> QED BY <2>0, <3>1, <3>2 DEF IncrementalSince
  <2>2. ASSUME NEW n \in 0 .. Len(w) - 1, IncrementalSince(w, n), FullAt(w, n)
        PROVE  m2 = n
    <3>1. CASE n = 0
      BY <1>4, <2>0, <2>2, <3>1 DEF FullAt, RunAfter
    <3>2. CASE n >= 1
      <4>1. r.incremental /\ r.completed /\ IncrementalSince(h, n - 1)
        BY <1>5, <2>1, <2>2, <3>2
      <4>2. Back(w, n) = Back(h, n - 1) /\ n - 1 \in 0 .. Len(h) - 1
        BY <1>5, <2>0, <3>2
      <4>3. m = n - 1
        BY <2>2, <4>1, <4>2 DEF FullAt, Tells
      <4> QED BY <1>4, <1>5, <3>2, <4>1, <4>2, <4>3 DEF RunAfter
    <3> QED BY <3>1, <3>2
  <2>3. ASSUME NEW n \in 0 .. Len(w), IncrementalSince(w, n)
        PROVE  m2 = NoFull \/ m2 >= n
    <3>1. CASE n = 0
      BY <1>3, <3>1 DEF Runs, NoFull
    <3>2. CASE n >= 1
      <4>1. r.incremental /\ r.completed /\ IncrementalSince(h, n - 1)
        BY <1>5, <2>1, <2>3, <3>2
      <4>2. n - 1 \in 0 .. Len(h) /\ n <= FullDepth
        BY <1>5, <2>0, <3>2
      <4>3. m = NoFull \/ m >= n - 1
        BY <4>1, <4>2 DEF Tells
      <4> QED BY <1>4, <3>2, <4>1, <4>2, <4>3 DEF RunAfter, Runs, NoFull
    <3> QED BY <1>5, <3>1, <3>2
  <2>4. ASSUME Len(w) < FullDepth, m2 # NoFull
        PROVE  \E n \in 0 .. Len(w) - 1 : FullAt(w, n)
    <3>1. CASE ~r.incremental /\ r.completed
      <4>1. 0 \in 0 .. Len(w) - 1 BY <1>5, <1>7, <2>0
      <4> QED BY <2>0, <3>1, <4>1 DEF FullAt
    <3>2. CASE r.incremental \/ ~r.completed
      <4>1. Len(h) < FullDepth /\ m # NoFull
        BY <1>2, <1>4, <1>5, <2>0, <2>4, <3>2 DEF RunAfter
      <4>2. PICK n \in 0 .. Len(h) - 1 : FullAt(h, n)
        BY <4>1 DEF Tells
      <4>3. n + 1 \in 1 .. Len(w) - 1 /\ Back(w, n + 1) = Back(h, n)
        BY <1>5, <2>0, <4>1
      <4> QED BY <1>5, <4>2, <4>3 DEF FullAt
    <3> QED BY <1>2, <3>1, <3>2
  <2>5. ASSUME NEW k \in 0 .. Len(w) - 1, ~Back(w, k).incremental
        PROVE  \E n \in 0 .. Len(w) - 1 :
                 ~Back(w, n).incremental /\ \A d \in 0 .. n - 1 : Back(w, d).incremental
    <3>1. CASE ~r.incremental
      <4>1. 0 \in 0 .. Len(w) - 1 BY <1>5, <2>0
      <4> QED BY <2>0, <3>1, <4>1
    <3>2. CASE r.incremental
      <4>1. k \in 1 .. Len(w) - 1 /\ k - 1 \in 0 .. Len(h) - 1
        BY <1>5, <2>0, <2>5, <3>2
      <4>2. ~Back(h, k - 1).incremental
        BY <2>0, <2>5, <4>1
      <4>3. PICK n \in 0 .. Len(h) - 1 :
              ~Back(h, n).incremental /\ \A d \in 0 .. n - 1 : Back(h, d).incremental
        BY <4>1, <4>2 DEF Tells
      <4>4. n <= k - 1
        BY <4>1, <4>2, <4>3
      <4>5. n + 1 \in 1 .. Len(w) - 1 /\ Back(w, n + 1) = Back(h, n)
        BY <1>5, <2>0, <4>1, <4>4
      <4>6. ASSUME NEW d \in 0 .. n PROVE Back(w, d).incremental
        <5>1. CASE d = 0 BY <2>0, <3>2, <5>1
        <5>2. CASE d >= 1
          <6>1. d \in 1 .. Len(w) - 1 /\ d - 1 \in 0 .. n - 1
            BY <1>5, <4>5, <5>2
          <6> QED BY <2>0, <4>3, <6>1
        <5> QED BY <5>1, <5>2
      <4> QED BY <1>5, <4>3, <4>5, <4>6
    <3> QED BY <1>2, <3>1, <3>2
  <2>6. Tells(w, m2)
    BY <2>2, <2>3, <2>4, <2>5 DEF Tells
  <2> QED BY <1>1, <1>3, <2>6 DEF w, m2
<1> QED BY <1>6, <1>7, ChainAssumption

\* The method is decided by what the history tells.
LEMMA MethodIsOrder ==
  ASSUME history \in Histories, run \in Runs, Tells(history, run),
         \A i \in DOMAIN history : history[i].completed
  PROVE  Incremental <=> run \in 0 .. FullDepth - 1
<1>1. Len(history) \in Nat /\ Len(history) <= FullDepth
      /\ DOMAIN history = 1 .. Len(history)
  BY DEF Histories
<1>2. \A n \in 0 .. Len(history) - 1 :
        Len(history) - n \in DOMAIN history /\ Back(history, n).completed
  BY <1>1 DEF Back
<1>3. ASSUME Incremental PROVE run \in 0 .. FullDepth - 1
  <2>1. PICK i \in DOMAIN history : ~history[i].incremental
    BY <1>3 DEF Incremental
  <2>2. Len(history) - i \in 0 .. Len(history) - 1
        /\ ~Back(history, Len(history) - i).incremental
    BY <1>1, <2>1 DEF Back
  <2>3. PICK n \in 0 .. Len(history) - 1 :
          ~Back(history, n).incremental
          /\ \A d \in 0 .. n - 1 : Back(history, d).incremental
    BY <2>2 DEF Tells
  <2>4. IncrementalSince(history, n) /\ FullAt(history, n)
    BY <1>1, <1>2, <2>3 DEF IncrementalSince, FullAt
  <2>5. run = n
    BY <2>4 DEF Tells
  <2> QED BY <1>1, <2>5
<1>4. ASSUME ~Incremental, run \in 0 .. FullDepth - 1 PROVE FALSE
  <2>1. \A n \in 0 .. Len(history) - 1 : Back(history, n).incremental
    BY <1>2, <1>4 DEF Incremental, Back
  <2>2. IncrementalSince(history, Len(history))
    BY <1>1, <1>2, <2>1 DEF IncrementalSince
  <2>3. run = NoFull \/ run >= Len(history)
    BY <1>1, <2>2 DEF Tells
  <2>4. Len(history) < FullDepth /\ run # NoFull
    BY <1>1, <1>4, <2>3 DEF NoFull
  <2> QED BY <2>1, <2>4 DEF Tells, FullAt
<1> QED BY <1>3, <1>4

\* What is fresh has the method that the history asks for, and an incremental
\* backup is only done upon a full one.
MethodKept ==
  /\ history \in Histories /\ run \in Runs /\ Tells(history, run)
  /\ pc = "insert" /\ fresh => method = Incremental
  /\ \A t \in Task :
       /\ task[t].status \in {"PLANNED", "INIT"} /\ task[t].fresh
            => task[t].incremental = Incremental
       /\ task[t].status = "WIP" /\ task[t].incremental => run # NoFull

LEMMA MethodInit == Init => MethodKept
<1> SUFFICES ASSUME Init PROVE MethodKept
  OBVIOUS
<1>1. history \in Seq(Row) /\ Len(history) = 0 /\ run = NoFull
  BY DEF Init
<1>2. \A t \in Task : task[t].status = "FREE"
  BY FreeRowTyped DEF Init
<1> QED BY <1>1, <1>2 DEF Init, MethodKept, Histories, Runs, Tells, NoFull

LEMMA MethodKeptNext ==
  ASSUME RowsTyped, MethodKept, [Next]_vars
  PROVE  MethodKept'
<1>1. ASSUME UNCHANGED <<history, run>>
      PROVE  /\ Incremental' = Incremental
             /\ history' \in Histories /\ run' \in Runs /\ Tells(history, run)'
  BY <1>1 DEF Incremental, MethodKept, Tells, IncrementalSince, FullAt, Back
<1>2. CASE ReadWip \/ ReadPlanned \/ IsRequired \/ Tick
  <2>1. /\ UNCHANGED <<history, run, task>>
        /\ pc' = "insert" => pc = "insert" /\ UNCHANGED <<fresh, method>>
    BY <1>2 DEF ReadWip, ReadPlanned, IsRequired, Tick, puller
  <2> QED BY <1>1, <2>1 DEF MethodKept
<1>3. CASE DecideMethod
  <2>1. /\ UNCHANGED <<history, run, task>>
        /\ fresh' => method' = Incremental
    BY <1>3 DEF DecideMethod
  <2> QED BY <1>1, <2>1 DEF MethodKept
<1>4. CASE Insert
  <2>1. UNCHANGED <<history, run>> /\ pc = "insert" /\ pc' = "rest"
    BY <1>4 DEF Insert
  <2>2. ASSUME NEW t \in Task
        PROVE  task'[t] = task[t] \/ task'[t] = [status |-> "PLANNED",
                                                 incremental |-> method, fresh |-> fresh]
    BY <1>4, <2>2 DEF Insert, InStatus, RowsTyped
  <2> QED BY <1>1, <2>1, <2>2 DEF MethodKept
<1>5. ASSUME NEW t \in Task, Claim(t) \/ StartBackup(t) PROVE MethodKept'
  <2>1. UNCHANGED <<history, run, pc, method, fresh>>
    BY <1>5 DEF Claim, StartBackup, puller
  <2>2. ASSUME NEW u \in Task
        PROVE  \/ task'[u] = task[u] \/ task'[u] = FreeRow
               \/ /\ task[u].status \in {"PLANNED", "INIT"} /\ task'[u].fresh = task[u].fresh
                  /\ task'[u].incremental = task[u].incremental
                  /\ task'[u].status = "INIT"
               \/ /\ task'[u].status = "WIP"
                  /\ task'[u].incremental = task[u].incremental
                  /\ ~(task[u].incremental /\ run = NoFull)
    <3>1. task[t] \in TaskRow /\ task[u] \in TaskRow
      BY DEF RowsTyped
    <3> QED BY <1>5, <3>1 DEF Claim, StartBackup, SetStatus, Close, RowsTyped, TaskRow
  <2> QED BY <1>1, <2>1, <2>2, FreeRowTyped DEF MethodKept
<1>6. ASSUME NEW t \in Task, Complete(t) \/ Fail(t), UNCHANGED <<history, run>>,
             Close(t), UNCHANGED fresh
      PROVE  MethodKept'
  <2>1. UNCHANGED <<pc, method>>
    BY <1>6 DEF Complete, Fail, puller
  <2>2. \A u \in Task : task'[u] = task[u] \/ task'[u] = FreeRow
    BY <1>6 DEF Close, RowsTyped
  <2> QED BY <1>1, <1>6, <2>1, <2>2, FreeRowTyped DEF MethodKept
<1>7. ASSUME NEW t \in Task, NEW done \in BOOLEAN, VolumeBackup(t, done),
             task[t].status = "WIP", UNCHANGED puller,
             run' = RunAfter(run, [incremental |-> task[t].incremental,
                                   completed |-> done])
      PROVE  MethodKept'
  <2> DEFINE r == [incremental |-> task[t].incremental, completed |-> done]
  <2>1. r \in Row /\ r.incremental = task[t].incremental /\ r.completed = done
    BY DEF RowsTyped, TaskRow, Row
  <2>2. history' = Window(Append(history, r)) /\ run' = RunAfter(run, r)
    BY <1>7 DEF VolumeBackup
  <2>3. r.incremental => run # NoFull
    BY <1>7, <2>1 DEF MethodKept
  <2> HIDE DEF r
  <2>4. history' \in Histories /\ run' \in Runs /\ Tells(history', run')
    BY <2>1, <2>2, <2>3, RowAdded DEF MethodKept
  <2>5. run # NoFull => run' # NoFull
    BY <2>2 DEF RunAfter, MethodKept, Runs, NoFull
  <2>6. ASSUME NEW u \in Task
        PROVE  \/ task'[u].status = "FREE"
               \/ /\ ~task'[u].fresh /\ task'[u].status = task[u].status
                  /\ task'[u].incremental = task[u].incremental
    <3>1. task[u] \in TaskRow BY DEF RowsTyped
    <3> QED BY <1>7, <3>1, FreeRowTyped DEF VolumeBackup, TaskRow
  <2>7. ~fresh' BY <1>7 DEF VolumeBackup
  <2> QED BY <2>4, <2>5, <2>6, <2>7
          DEF MethodKept, Tells, IncrementalSince, FullAt, Back
<1>8. ASSUME NEW t \in Task, Complete(t) PROVE MethodKept'
  BY <1>7, <1>8 DEF Complete, RunAfter
<1>9. ASSUME NEW t \in Task, Fail(t) PROVE MethodKept'
  BY <1>6, <1>7, <1>9 DEF Fail, RunAfter
<1>10. CASE UNCHANGED vars
  BY <1>1, <1>10 DEF vars, MethodKept
<1> QED BY <1>2, <1>3, <1>4, <1>5, <1>8, <1>9, <1>10 DEF Next

\* README.md:42, for any full_backup_depth, any number of rows and conductors and
\* every failure: as long as the last rows are of completed backups and no row
\* has come since the task was planned, a full backup is followed by
\* full_backup_depth incremental ones and then by a full one.
THEOREM OrderIsHonoured == Spec => OrderHonoured
<1>1. MethodKept /\ [Next]_vars =>
        [\A t \in Task :
           /\ Starts(t) /\ task[t].fresh
           /\ \A i \in DOMAIN history : history[i].completed
           => (task[t].incremental <=> run \in 0 .. FullDepth - 1)]_vars
  BY MethodIsOrder DEF MethodKept, Starts
<1>2. RowsTyped /\ MethodKept /\ [Next]_vars => (RowsTyped /\ MethodKept)'
  BY RowsTypedNext, MethodKeptNext
<1> QED BY <1>1, <1>2, InitOK, MethodInit, PTL DEF Spec, OrderHonoured
PullerTyped ==
  /\ youngest \in 0 .. OldAge /\ busy \in BOOLEAN
  /\ pc \in {"rest", "wip", "planned", "required", "method", "insert"}

LEMMA PullerTypedNext ==
  ASSUME PullerTyped, [Next]_vars
  PROVE  PullerTyped'
<1>0. OldAge \in Nat BY OldEnough
<1>1. CASE ReadWip \/ ReadPlanned \/ IsRequired \/ DecideMethod \/ Insert
  BY <1>1 DEF ReadWip, ReadPlanned, IsRequired, DecideMethod, Insert, PullerTyped
<1>2. CASE Tick
  BY <1>0, <1>2 DEF Tick, puller, PullerTyped
<1>3. ASSUME NEW t \in Task, Claim(t) \/ StartBackup(t) \/ Complete(t) \/ Fail(t)
      PROVE  PullerTyped'
  BY <1>0, <1>3 DEF Claim, StartBackup, Complete, Fail, VolumeBackup, puller, PullerTyped
<1>4. CASE UNCHANGED vars
  BY <1>4 DEF vars, PullerTyped
<1> QED BY <1>1, <1>2, <1>3, <1>4 DEF Next

\* The history never holds more rows than full_backup_depth, nor the run more
\* than one backup too many.
THEOREM TypeCorrect == Spec => []TypeOK
<1>1. RowsTyped /\ MethodKept /\ PullerTyped => TypeOK
  BY DEF RowsTyped, TaskRow, MethodKept, Histories, Runs, PullerTyped, TypeOK
<1>2. RowsTyped /\ MethodKept /\ PullerTyped /\ [Next]_vars
        => (RowsTyped /\ MethodKept /\ PullerTyped)'
  BY RowsTypedNext, MethodKeptNext, PullerTypedNext
<1>3. Init => PullerTyped
  <2>1. OldAge \in Nat BY OldEnough
  <2>2. OldAge \in 0 .. OldAge BY <2>1
  <2> QED BY <2>2 DEF Init, PullerTyped
<1> QED BY <1>1, <1>2, <1>3, InitOK, MethodInit, PTL DEF Spec

-----------------------------------------------------------------------------
(* Chains when no backup fails.                                            *)

Completed == \A i \in DOMAIN history : history[i].completed

LEMMA CompletedNext ==
  ASSUME "backup" \notin Faults, RowsTyped, MethodKept, Completed, [Next]_vars
  PROVE  Completed'
<1>1. CASE UNCHANGED history
  BY <1>1 DEF Completed
<1>2. ASSUME NEW t \in Task, VolumeBackup(t, TRUE) PROVE Completed'
  <2> DEFINE r == [incremental |-> task[t].incremental, completed |-> TRUE]
             a == Append(history, r)
  <2>1. history \in Seq(Row) /\ r \in Row /\ r.completed
    BY DEF RowsTyped, TaskRow, MethodKept, Histories, Row
  <2> HIDE DEF r
  <2>2. a \in Seq(Row) /\ Len(a) = Len(history) + 1 /\ \A i \in DOMAIN a : a[i].completed
    BY <2>1 DEF Completed
  <2> HIDE DEF a
  <2>3. Tail(a) \in Seq(Row) /\ \A i \in DOMAIN Tail(a) : Tail(a)[i].completed
    <3>1. Len(history) \in Nat
      BY <2>1
    <3>2. Len(Tail(a)) = Len(history) /\ \A i \in 1 .. Len(history) : Tail(a)[i] = a[i + 1]
      BY <2>2, <3>1
    <3>3. Tail(a) \in Seq(Row) /\ DOMAIN Tail(a) = 1 .. Len(history) /\ DOMAIN a = 1 .. Len(history) + 1
      BY <2>2, <3>1, <3>2
    <3> QED BY <2>2, <3>1, <3>2, <3>3
  <2>4. history' = a \/ history' = Tail(a)
    BY <1>2 DEF VolumeBackup, Window, r, a
  <2> QED BY <2>2, <2>3, <2>4 DEF Completed
<1>3. UNCHANGED history \/ \E t \in Task : VolumeBackup(t, TRUE)
  BY DEF Next, vars, ReadWip, ReadPlanned, IsRequired, DecideMethod, Insert, Tick,
         Claim, StartBackup, Complete, Fail
<1> QED BY <1>1, <1>2, <1>3

\* What is to be incremental has a backup to build upon.
Based ==
  /\ pc = "insert" /\ method => run # NoFull
  /\ \A t \in Task : task[t].status # "FREE" /\ task[t].incremental => run # NoFull

\* What a step does to the method of an open task.
LEMMA MethodOf ==
  ASSUME RowsTyped, [Next]_vars, NEW t \in Task, task'[t].status # "FREE"
  PROVE  \/ task[t].status # "FREE" /\ task'[t].incremental = task[t].incremental
         \/ Insert /\ pc = "insert" /\ task'[t].incremental = method
<1>0. \A u \in Task : task[u] \in TaskRow
  BY DEF RowsTyped
<1>1. CASE Insert
  BY <1>0, <1>1 DEF Insert, InStatus, RowsTyped
<1>2. ASSUME NEW u \in Task, Claim(u) \/ StartBackup(u)
      PROVE  task[t].status # "FREE" /\ task'[t].incremental = task[t].incremental
  <2>1. CASE Close(u)
    BY <1>0, <1>2, <2>1, FreeRowTyped DEF Close, RowsTyped
  <2>2. ASSUME NEW x \in {"INIT", "WIP"}, SetStatus(u, x), task[u].status # "FREE"
        PROVE  task[t].status # "FREE" /\ task'[t].incremental = task[t].incremental
    <3>1. /\ task' = [task EXCEPT ![u] = [task[u] EXCEPT !.status = x]]
          /\ [task[u] EXCEPT !.status = x].incremental = task[u].incremental
      BY <1>0, <2>2 DEF SetStatus, TaskRow
    <3> QED BY <2>2, <3>1 DEF RowsTyped
  <2>3. task[u].status # "FREE"
    BY <1>2 DEF Claim, StartBackup
  <2> QED BY <1>2, <2>1, <2>2, <2>3 DEF Claim, StartBackup
<1>3. ASSUME NEW u \in Task, Close(u) \/ VolumeBackup(u, TRUE) \/ VolumeBackup(u, FALSE)
      PROVE  task[t].status # "FREE" /\ task'[t].incremental = task[t].incremental
  <2>1. /\ [task[t] EXCEPT !.fresh = FALSE].status = task[t].status
        /\ [task[t] EXCEPT !.fresh = FALSE].incremental = task[t].incremental
    BY <1>0 DEF TaskRow
  <2> QED BY <1>0, <1>3, <2>1, FreeRowTyped DEF Close, VolumeBackup, RowsTyped
<1>4. CASE UNCHANGED task
  BY <1>4
<1> QED BY <1>1, <1>2, <1>3, <1>4 DEF Next, vars, ReadWip, ReadPlanned, IsRequired,
        DecideMethod, Tick, Complete, Fail

LEMMA BasedNext ==
  ASSUME "backup" \notin Faults, RowsTyped, MethodKept, Completed, Based, [Next]_vars
  PROVE  Based'
<1>1. Incremental => run # NoFull
  BY MethodIsOrder DEF MethodKept, Completed, NoFull
<1>2. run # NoFull => run' # NoFull
  <2>1. UNCHANGED run \/ \E t \in Task : Complete(t)
    BY DEF Next, vars, ReadWip, ReadPlanned, IsRequired, DecideMethod, Insert, Tick,
           Claim, StartBackup, Fail
  <2>2. run \in NoFull .. FullDepth + 1
    BY DEF MethodKept, Runs
  <2>3. ASSUME NEW t \in Task, Complete(t), run # NoFull PROVE run' # NoFull
    <3>1. run \in Nat
      BY <2>2, <2>3 DEF NoFull
    <3>2. run' \in Nat
      BY <2>3, <3>1 DEF Complete
    <3> QED BY <3>2 DEF NoFull
  <2> QED BY <2>1, <2>3
<1>3. ASSUME pc' = "insert", method' PROVE run' # NoFull
  <2>1. CASE DecideMethod
    BY <1>1, <1>2, <1>3, <2>1 DEF DecideMethod
  <2>2. CASE ~DecideMethod
    <3>1. pc = "insert" /\ method' = method
      BY <1>3, <2>2 DEF Next, vars, puller, ReadWip, ReadPlanned, IsRequired, Insert, Tick,
                        Claim, StartBackup, Complete, Fail
    <3> QED BY <1>2, <1>3, <3>1 DEF Based
  <2> QED BY <2>1, <2>2
<1>4. ASSUME NEW t \in Task, task'[t].status # "FREE", task'[t].incremental PROVE run' # NoFull
  BY <1>2, <1>4, MethodOf DEF Based
<1> QED BY <1>3, <1>4 DEF Based

LEMMA BasedInit == Init => Completed /\ Based
<1> SUFFICES ASSUME Init PROVE Completed /\ Based
  OBVIOUS
<1>1. \A t \in Task : task[t].status = "FREE"
  BY FreeRowTyped DEF Init
<1> QED BY <1>1 DEF Init, Completed, Based

\* backup.py:599, for any number of rows and conductors: unless a backup has
\* failed or was cancelled, a task that asks for an incremental backup finds one to
\* build upon.
THEOREM BaseIsThere ==
  ASSUME "backup" \notin Faults
  PROVE  Spec => HasBase
<1>1. Based /\ [Next]_vars => [\A t \in Task :
        task[t].status = "INIT" /\ task[t].incremental /\ task'[t] # task[t]
          => run # NoFull]_vars
  BY DEF Based
<1>2. RowsTyped /\ MethodKept /\ Completed /\ Based /\ [Next]_vars
        => (RowsTyped /\ MethodKept /\ Completed /\ Based)'
  BY RowsTypedNext, MethodKeptNext, CompletedNext, BasedNext
<1> QED BY <1>1, <1>2, InitOK, MethodInit, BasedInit, PTL DEF Spec, HasBase

-----------------------------------------------------------------------------
(* A conductor that works alone.                                           *)

\* It has one open task at a time, and sees it when it plans.
OneOpen ==
  /\ \A t, u \in Task : task[t].status # "FREE" /\ task[u].status # "FREE" => t = u
  /\ pc # "rest" => InStatus("INIT") = {}
  /\ pc # "rest" /\ ~busy => InStatus("WIP") = {}
  /\ pc \in {"planned", "required", "insert"} /\ ~busy => InStatus("PLANNED") = {}

\* What is to be incremental is so by the rows there are.
Bounded ==
  /\ pc = "insert" /\ method => Incremental
  /\ \A t \in Task : task[t].status # "FREE" /\ task[t].incremental => Incremental
  /\ run <= FullDepth

LEMMA OneOpenNext ==
  ASSUME "others" \notin Faults, RowsTyped, OneOpen, [Next]_vars
  PROVE  OneOpen'
<1>0. /\ task \in [Task -> TaskRow]
      /\ \A t \in Task : task[t].status \in {"FREE", "PLANNED", "INIT", "WIP"}
  BY DEF RowsTyped, TaskRow
<1>1. CASE ReadWip \/ ReadPlanned \/ IsRequired \/ DecideMethod \/ Tick
  BY <1>1 DEF ReadWip, ReadPlanned, IsRequired, DecideMethod, Tick, puller, OneOpen, InStatus
<1>2. CASE Insert
  <2>1. CASE busy
    BY <1>2, <2>1 DEF Insert, OneOpen, InStatus
  <2>2. CASE ~busy
    <3>1. \A t \in Task : task[t].status = "FREE"
      BY <1>0, <1>2, <2>2 DEF Insert, OneOpen, InStatus
    <3>2. PICK t \in Task :
            task' = [task EXCEPT ![t] = [status |-> "PLANNED", incremental |-> method,
                                         fresh |-> fresh]]
      BY <1>2, <2>2 DEF Insert, InStatus
    <3>3. pc' = "rest" /\ \A u \in Task \ {t} : task'[u] = task[u]
      BY <1>0, <1>2, <3>2 DEF Insert
    <3> QED BY <3>1, <3>3 DEF OneOpen
  <2> QED BY <2>1, <2>2
<1>3. ASSUME pc = "rest", pc' = pc,
             \A u \in Task : task'[u].status # "FREE" => task[u].status # "FREE"
      PROVE  OneOpen'
  BY <1>3 DEF OneOpen
<1>4. ASSUME NEW t \in Task, Claim(t) \/ StartBackup(t) \/ Complete(t) \/ Fail(t)
      PROVE  OneOpen'
  <2>1. pc = "rest" /\ pc' = pc
    BY <1>4 DEF Claim, StartBackup, Complete, Fail, Working, puller
  <2>2. \A u \in Task : task'[u].status # "FREE" => task[u].status # "FREE"
    <3>1. ~Insert
      BY <2>1 DEF Insert
    <3>2. Next
      BY <1>4 DEF Next
    <3> QED BY <3>1, <3>2, MethodOf
  <2> QED BY <1>3, <2>1, <2>2
<1>5. CASE UNCHANGED vars
  BY <1>5 DEF vars, OneOpen, InStatus
<1> QED BY <1>1, <1>2, <1>4, <1>5 DEF Next

LEMMA BoundedNext ==
  ASSUME Faults \cap {"others", "backup"} = {},
         RowsTyped, MethodKept, Completed, OneOpen, Bounded, [Next]_vars
  PROVE  Bounded'
<1>0. "others" \notin Faults /\ "backup" \notin Faults /\ run \in Runs
  BY DEF MethodKept
<1>1. Incremental => run \in 0 .. FullDepth - 1
  BY MethodIsOrder DEF MethodKept, Completed
<1>2. CASE UNCHANGED <<history, run>>
  <2>1. Incremental' = Incremental
    BY <1>2 DEF Incremental
  <2>2. ASSUME pc' = "insert", method' PROVE Incremental
    <3>1. CASE DecideMethod
      BY <2>2, <3>1 DEF DecideMethod
    <3>2. CASE ~DecideMethod
      <4>1. pc = "insert" /\ method' = method
        BY <2>2, <3>2 DEF Next, vars, puller, ReadWip, ReadPlanned, IsRequired, Insert, Tick,
                          Claim, StartBackup, Complete, Fail
      <4> QED BY <2>2, <4>1 DEF Bounded
    <3> QED BY <3>1, <3>2
  <2>3. ASSUME NEW t \in Task, task'[t].status # "FREE", task'[t].incremental
        PROVE  Incremental
    BY <2>3, MethodOf DEF Bounded
  <2> QED BY <1>2, <2>1, <2>2, <2>3 DEF Bounded
<1>3. ASSUME NEW t \in Task, Complete(t) PROVE Bounded'
  <2>1. /\ pc' = "rest" /\ task[t].status = "WIP"
        /\ task' = [u \in Task |-> IF u = t THEN FreeRow ELSE [task[u] EXCEPT !.fresh = FALSE]]
    BY <1>0, <1>3 DEF Complete, VolumeBackup, Working, puller
  <2>2. ASSUME NEW u \in Task PROVE task'[u].status = "FREE"
    <3>1. CASE u = t
      BY <2>1, <3>1, FreeRowTyped
    <3>2. CASE u # t
      <4>1. task[u] \in TaskRow /\ task[u].status = "FREE"
        BY <2>1, <3>2 DEF RowsTyped, OneOpen
      <4>2. [task[u] EXCEPT !.fresh = FALSE].status = task[u].status
        BY <4>1 DEF TaskRow
      <4> QED BY <2>1, <3>2, <4>1, <4>2
    <3> QED BY <3>1, <3>2
  <2>3. run' <= FullDepth
    <3>1. CASE task[t].incremental
      <4>1. run \in 0 .. FullDepth - 1
        BY <1>1, <2>1, <3>1 DEF Bounded
      <4>2. run' = run + 1
        BY <1>3, <3>1, <4>1 DEF Complete
      <4> QED BY <4>1, <4>2
    <3>2. CASE ~task[t].incremental
      BY <1>3, <3>2 DEF Complete
    <3> QED BY <3>1, <3>2
  <2> QED BY <2>1, <2>2, <2>3 DEF Bounded
<1>4. UNCHANGED <<history, run>> \/ \E t \in Task : Complete(t)
  BY <1>0 DEF Next, vars, ReadWip, ReadPlanned, IsRequired, DecideMethod, Insert, Tick,
         Claim, StartBackup, Fail
<1> QED BY <1>2, <1>3, <1>4

LEMMA AloneInit == Init => OneOpen /\ Bounded
<1> SUFFICES ASSUME Init PROVE OneOpen /\ Bounded
  OBVIOUS
<1>1. \A t \in Task : task[t].status = "FREE"
  BY FreeRowTyped DEF Init
<1>2. run <= FullDepth
  <2>1. run \in NoFull .. 0
    BY DEF Init, NoFull
  <2> QED BY <2>1 DEF NoFull
<1> QED BY <1>1, <1>2 DEF Init, OneOpen, Bounded

\* README.md:49-51, for any full_backup_depth: a conductor that works alone does
\* not add more incremental backups to a full one than that, unless a backup has
\* failed or was cancelled, whatever Cinder refuses and whatever cannot be read.
THEOREM DepthIsKept ==
  ASSUME Faults \cap {"others", "backup"} = {}
  PROVE  Spec => []DepthKept
<1>1. Bounded => DepthKept
  BY DEF Bounded, DepthKept
<1>2. RowsTyped /\ MethodKept /\ Completed /\ OneOpen /\ Bounded /\ [Next]_vars
        => (RowsTyped /\ MethodKept /\ Completed /\ OneOpen /\ Bounded)'
  BY RowsTypedNext, MethodKeptNext, CompletedNext, OneOpenNext, BoundedNext
<1> QED BY <1>1, <1>2, InitOK, MethodInit, BasedInit, AloneInit, PTL DEF Spec
=============================================================================
