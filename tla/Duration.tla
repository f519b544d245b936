------------------------------- MODULE Duration -------------------------------
(***************************************************************************)
(* The durations of the settings and of instance metadata: how             *)
(* common/time.py reads them, and the moment that far before now, which    *)
(* the timeout of a backup cycle and the retention of backups are compared *)
(* with.  Months and years are those of the calendar.                      *)
(***************************************************************************)
EXTENDS Integers, SequencesExt

CONSTANTS
  Number,     \* the numbers written in durations
  MaxPieces,  \* bound: pieces of a duration
  Starts,     \* bound: when the watch starts, a set of moments
  Days        \* bound: how many days it takes

\* A written duration is a sequence of pieces, each some digits and the text
\* that follows them; text that is not a unit is Other.  Only the first piece
\* may have no digits, and only the last no text.
Units    == <<"y", "mon", "w", "d", "h", "min", "s">>
UnitSet  == ToSet(Units)
NoNumber == -1
Other    == "m"
Nothing  == ""

Piece   == [n: Number \cup {NoNumber}, text: UnitSet \cup {Other, Nothing}]
Written == {s \in SeqOf(Piece, MaxPieces) :
              \A i \in DOMAIN s : /\ s[i].n = NoNumber => i = 1 /\ s[i].text # Nothing
                                  /\ s[i].text = Nothing => i = Len(s)}

VARIABLES
  setting,  \* what is written
  begin,    \* when the cycle began
  now

vars == <<setting, begin, now>>

-----------------------------------------------------------------------------
(* parse_timedelta_string.                                                 *)

None == << >>   \* the result of a duration that cannot be read

\* One optional group of the regular expression.
Group(m, u) ==
  IF m.rest # << >> /\ Head(m.rest).n # NoNumber /\ Head(m.rest).text = u
    THEN [rest |-> Tail(m.rest), dict |-> [m.dict EXCEPT ![u] = Head(m.rest).n]]
    ELSE m

\* All of them, in the order of Units.
Unread(s)    == [rest |-> s, dict |-> [u \in UnitSet |-> 0]]
Date(s)      == Group(Group(Group(Group(Unread(s), "y"), "mon"), "w"), "d")
Match(s)     == Group(Group(Group(Date(s), "h"), "min"), "s")
FullMatch(s) == Match(s).rest = << >>

\* Mutant of Parse: a duration of zeros is taken for an empty one.
ParseNoZero(s) ==
  IF FullMatch(s) /\ \E u \in UnitSet : Match(s).dict[u] > 0 THEN Match(s).dict ELSE None

\* A number of zero is given, as the string of its digits is not empty.
Parse(s) == IF FullMatch(s) /\ s # << >> THEN Match(s).dict ELSE None

-----------------------------------------------------------------------------
(* timeago, with the arithmetic of relativedelta and datetime.             *)

Leap(y) == y % 4 = 0 /\ (y % 100 # 0 \/ y % 400 = 0)
MonthDays(y, m) ==
  IF m = 2 /\ Leap(y) THEN 29 ELSE <<31, 28, 31, 30, 31, 30, 31, 31, 30, 31, 30, 31>>[m]
DaysBefore(y, m) ==
  <<0, 31, 59, 90, 120, 151, 181, 212, 243, 273, 304, 334>>[m] + (IF m > 2 /\ Leap(y) THEN 1 ELSE 0)
DayNumber(y, m, d) ==
  365 * (y - 1) + (y - 1) \div 4 - (y - 1) \div 100 + (y - 1) \div 400 + DaysBefore(y, m) + d

\* A moment on the line of time, and the order of moments.
Moment(t)    == [day |-> DayNumber(t.year, t.month, t.day), sec |-> t.sec]
Before(p, q) == p.day < q.day \/ (p.day = q.day /\ p.sec < q.sec)

\* Mutant of ClippedDay: the 31st of a shorter month runs into the next one.
SameDay(y, m, d) == d

\* A day that the month does not have becomes its last one.
ClippedDay(y, m, d) == IF d < MonthDays(y, m) THEN d ELSE MonthDays(y, m)

DaySecs == 86400
HalfDay == 43200

MonthsOf(p) == 12 * p["y"] + p["mon"]
DaysOf(p)   == 7 * p["w"] + p["d"]
SecsOf(p)   == 3600 * p["h"] + 60 * p["min"] + p["s"]

\* Mutant of Timeago: weeks are left out of what is subtracted.
TimeagoNoWeeks(t, p) ==
  LET index == 12 * t.year + t.month - 1 - MonthsOf(p)
      y     == index \div 12
      m     == (index % 12) + 1
      sec   == t.sec - SecsOf(p)
      day   == DayNumber(y, m, ClippedDay(y, m, t.day)) - p["d"] + (sec \div DaySecs)
  IN IF y < 1 \/ day < 1 THEN None ELSE [day |-> day, sec |-> sec % DaySecs]

\* datetime raises when that is before the year 1.
Timeago(t, p) ==
  LET index == 12 * t.year + t.month - 1 - MonthsOf(p)
      y     == index \div 12
      m     == (index % 12) + 1
      sec   == t.sec - SecsOf(p)
      day   == DayNumber(y, m, ClippedDay(y, m, t.day)) - DaysOf(p) + (sec \div DaySecs)
  IN IF y < 1 \/ day < 1 THEN None ELSE [day |-> day, sec |-> sec % DaySecs]

\* A moment as datetime.utcnow() gives it.
IsMoment(t) ==
  /\ t \in [year: Nat \ {0}, month: 1 .. 12, day: Nat \ {0}, sec: Nat]
  /\ t.day <= MonthDays(t.year, t.month) /\ t.sec < DaySecs

DurationAssumption ==
  Number \subseteq Nat /\ MaxPieces \in Nat /\ \A t \in Starts : IsMoment(t)

TypeOK == setting \in Written /\ IsMoment(begin) /\ IsMoment(now)

-----------------------------------------------------------------------------
(* Who asks.                                                               *)

\* get_time_from_str; None stands for its None and for an exception.
TimeFromStr(t, s) == IF Parse(s) = None THEN None ELSE Timeago(t, Parse(s))

\* A duration that collect_instance_retention_map lets through.
Accepted(s) == FullMatch(s)

\* _backup_cycle_timeout: an invalid duration is replaced by the default.
DefaultTimeout == <<[n |-> 5, text |-> "min"]>>
Effective(s)   == IF Parse(s) = None THEN DefaultTimeout ELSE s
CycleTimeout(t, s) ==
  LET rto == TimeFromStr(t, Effective(s)) IN rto # None /\ ~Before(rto, Moment(begin))

-----------------------------------------------------------------------------
Init == setting \in Written /\ begin \in Starts /\ now = begin

NextDay(t) ==
  IF t.day < MonthDays(t.year, t.month) THEN [t EXCEPT !.day = @ + 1, !.sec = @ - HalfDay]
  ELSE IF t.month < 12 THEN [t EXCEPT !.month = @ + 1, !.day = 1, !.sec = @ - HalfDay]
  ELSE [t EXCEPT !.year = @ + 1, !.month = 1, !.day = 1, !.sec = @ - HalfDay]

Tick ==
  /\ Moment(now).day < Moment(begin).day + Days
  /\ now' = IF now.sec < HalfDay THEN [now EXCEPT !.sec = @ + HalfDay] ELSE NextDay(now)
  /\ UNCHANGED <<setting, begin>>

Spec == Init /\ [][Tick]_vars

-----------------------------------------------------------------------------
\* The format of conf/conductor.py:63: numbers with different units, from years
\* down to seconds.
Follows(s, units) ==
  /\ s # << >>
  /\ \E f \in [DOMAIN s -> DOMAIN units] :
       /\ \A i, j \in DOMAIN s : i < j => f[i] < f[j]
       /\ \A i \in DOMAIN s : s[i].n # NoNumber /\ s[i].text = units[f[i]]

\* The regular expression with its optional and reluctant groups reads exactly
\* that, each number with its unit.
ParsesFormat ==
  /\ Parse(setting) # None <=> Follows(setting, Units)
  /\ Parse(setting) # None =>
       \A i \in DOMAIN setting : Parse(setting)[setting[i].text] = setting[i].n

\* The time between the fewest and the most days that a duration can have.
Elapsed == Moment(now).day - Moment(begin).day
Least(p) == 28 * MonthsOf(p) + DaysOf(p) + SecsOf(p) \div DaySecs
Most(p)  == 31 * MonthsOf(p) + DaysOf(p) + SecsOf(p) \div DaySecs + 1

\* A cycle is cut when its time is over, however the months fall and whatever
\* is written, and not before; README.md:53-55.
CutInTime ==
  LET p == Parse(Effective(setting)) IN
    /\ CycleTimeout(now, setting) => Elapsed >= Least(p)
    /\ Elapsed > Most(p) => CycleTimeout(now, setting)

\* The retention threshold moves on with the clock, so that what has expired
\* stays expired; when the day is missing from the month it is put back, by
\* less than a day, which only the first day of all does not have.
ThresholdAdvances ==
  [][LET old == TimeFromStr(now, setting)
         new == TimeFromStr(now', setting)
         p   == Parse(setting)
     IN /\ old # None /\ (old.day = 1 => MonthsOf(p) = 0) => new # None
        /\ old # None /\ new # None =>
             /\ Before(old, [new EXCEPT !.day = @ + 1])
             /\ MonthsOf(p) = 0 => Before(old, new)]_vars

\* The format that manager.py:89, manager.py:334 and backup.py:512 tell the user
\* to follow, <YEARS>y<MONTHS>m<WEEKS>w<DAYS>d<HOURS>h<MINUTES>min<SECONDS>s, and
\* that of the example at time.py:19, is one that can be read.
AdviceHelps ==
  Follows(setting, <<"y", "m", "w", "d", "h", "min", "s">>) => Parse(setting) # None

\* A duration of an instance that was let through has a threshold.
AcceptedIsUsable == Accepted(setting) => TimeFromStr(now, setting) # None
=============================================================================
