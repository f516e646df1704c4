------------------------------ MODULE Calendar ------------------------------
(***************************************************************************)
(* parse_date and timegm: from a date and time of day in a time zone, RFC  *)
(* 3339, to the time_t of <published> and <updated>.  The code computes    *)
(* the number of days from closed formulas; here dates are walked through  *)
(* by a calendar that knows only the lengths of the months, and the same   *)
(* instant is written in one zone after another.                           *)
(*                                                                         *)
(* Time is in minutes; seconds are a term of a sum and left out.           *)
(***************************************************************************)
EXTENDS Integers, FiniteSets

CONSTANTS
  Years,      \* the years TLC walks through
  ZoneStep,   \* the distance in minutes of the zones TLC tries
  MaxZone,    \* the zone furthest from UTC, in minutes
  TimeMin, TimeMax   \* what time_t holds

OneDay == 1440

ASSUME CalendarAssumption ==
  /\ Years \subseteq Nat \ {0}
  /\ ZoneStep \in 1 .. OneDay - 1
  /\ MaxZone \in 0 .. OneDay - 1
  /\ TimeMin \in Int /\ TimeMax \in Nat
  /\ TimeMin < - OneDay /\ TimeMax > OneDay

VARIABLES
  tm,       \* the local time that is written: year, mon, mday, hour, min
  zone,     \* minutes east of UTC
  form,     \* how the zone is written: "offset", "bare" for Z, for none and for
            \* one that cannot be read (all taken for UTC), or "unreadable" for
            \* text that strptime or the check of its length refuses
  instant   \* the minute that is meant, counted by the calendar

dateVars == <<tm, zone, form, instant>>

-----------------------------------------------------------------------------
\* Division of C, which truncates.
Quot(a, b) == IF a >= 0 THEN a \div b ELSE - ((- a) \div b)

count_leap_year(y) == Quot(y - 1, 4) - Quot(y - 1, 100) + Quot(y - 1, 400)

is_leap_year(y) == y % 4 = 0 /\ (y % 100 # 0 \/ y % 400 = 0)

daysum == [m \in 0 .. 11 |->
  CASE m = 0 -> 0   [] m = 1 -> 31  [] m = 2 -> 59   [] m = 3 -> 90
    [] m = 4 -> 120 [] m = 5 -> 151 [] m = 6 -> 181  [] m = 7 -> 212
    [] m = 8 -> 243 [] m = 9 -> 273 [] m = 10 -> 304 [] m = 11 -> 334]

\* The days of timegm.
Days(d) ==
  (d.year - 1970) * 365 + (count_leap_year(d.year) - count_leap_year(1970))
    + daysum[d.mon] + d.mday - 1
    + IF d.mon >= 2 /\ is_leap_year(d.year) THEN 1 ELSE 0

\* Minutes since 1970, of a local time as if it were UTC.
Local(d) == Days(d) * OneDay + d.hour * 60 + d.min

\* Mutation: 64 bits are cut without a look.
timegm_unchecked(d) == Local(d)

\* my_timegm; timegm gives -1 when time_t is too narrow.
timegm(d) == IF TimeMin <= Local(d) /\ Local(d) <= TimeMax THEN Local(d) ELSE - 1

\* What time_t makes of a sum that is less than a day out of its range.
WrapTime(n) ==
  IF n > TimeMax THEN n - (TimeMax - TimeMin + 1)
  ELSE IF n < TimeMin THEN n + (TimeMax - TimeMin + 1) ELSE n

\* The time zone as it is written, and read by the second strptime.
Abs(z) == IF z >= 0 THEN z ELSE - z
ZoneHour(z) == Abs(z) \div 60
ZoneMin(z) == Abs(z) % 60

\* Mutation: the time east of UTC is added.
SignEastAdds(z) == IF z >= 0 THEN 1 ELSE - 1

\* sign: -1 for "+", 1 for "-".
Sign(z) == IF z >= 0 THEN - 1 ELSE 1

\* The offset is added to what timegm gave, its -1 included.
parse_date ==
  CASE form = "unreadable" -> 0
    [] form = "bare"       -> timegm(tm)
    [] form = "offset"     ->
         WrapTime(timegm(tm) + Sign(zone) * (ZoneHour(zone) * 60 + ZoneMin(zone)))

-----------------------------------------------------------------------------
\* The calendar.
Date(y, mo, d, h, mi) ==
  [year |-> y, mon |-> mo, mday |-> d, hour |-> h, min |-> mi]

LeapYear(y) ==
  IF y % 100 = 0 THEN y % 400 = 0 ELSE y % 4 = 0

MonthLength(y, m) ==
  CASE m \in {3, 5, 8, 10} -> 30
    [] m = 1 -> IF LeapYear(y) THEN 29 ELSE 28
    [] OTHER -> 31

NextDay(d) ==
  IF d.mday < MonthLength(d.year, d.mon)
  THEN Date(d.year, d.mon, d.mday + 1, d.hour, d.min)
  ELSE IF d.mon < 11 THEN Date(d.year, d.mon + 1, 1, d.hour, d.min)
  ELSE Date(d.year + 1, 0, 1, d.hour, d.min)

\* Minute n of the day of d.
AtMinute(d, n) == Date(d.year, d.mon, d.mday, n \div 60, n % 60)

\* The local time k minutes later, k less than a day.
Later(d, k) ==
  LET n == d.hour * 60 + d.min + k
  IN IF n >= OneDay THEN AtMinute(NextDay(d), n - OneDay) ELSE AtMinute(d, n)

\* The same time of the next day, in the same zone.
Tomorrow ==
  /\ form = "offset"
  /\ tm.year \in Years
  /\ tm' = NextDay(tm)
  /\ instant' = instant + OneDay
  /\ UNCHANGED <<zone, form>>

\* The same instant in a zone further east.
East ==
  /\ form = "offset"
  /\ zone + ZoneStep <= MaxZone
  /\ tm' = Later(tm, ZoneStep)
  /\ zone' = zone + ZoneStep
  /\ UNCHANGED <<form, instant>>

\* The same instant written without an offset, in UTC.
Bare ==
  /\ form = "offset" /\ zone = 0
  /\ form' = "bare"
  /\ UNCHANGED <<tm, zone, instant>>

\* A date that cannot be read.
Garble ==
  /\ form = "offset"
  /\ form' = "unreadable"
  /\ UNCHANGED <<tm, zone, instant>>

DateInit ==
  /\ \E y \in Years : tm = Date(y, 0, 1, 0, 0)
  /\ zone = - MaxZone
  /\ form = "offset"
  /\ instant = Local(tm) - zone

DateNext == Tomorrow \/ East \/ Bare \/ Garble

DateSpec == DateInit /\ [][DateNext]_dateVars

-----------------------------------------------------------------------------
(***************************************************************************)
(* Properties.                                                             *)
(***************************************************************************)
Months == 0 .. 11
MonthDays == 1 .. 31
Hours == 0 .. 23
Minutes == 0 .. 59
Dates == [year : Nat \ {0}, mon : Months, mday : MonthDays, hour : Hours, min : Minutes]

DateTypeOK ==
  /\ tm \in Dates
  /\ tm.mday <= MonthLength(tm.year, tm.mon)
  /\ zone \in - MaxZone .. MaxZone
  /\ form \in {"offset", "bare", "unreadable"}
  /\ instant \in Int
  /\ parse_date \in TimeMin .. TimeMax

\* A date is read as the instant it means: over the ends of months, years and
\* centuries, and in whatever zone it is written, as long as time_t holds both
\* the instant and the local time.
InTime(n) == TimeMin <= n /\ n <= TimeMax

InstantRead ==
  (form # "unreadable" /\ InTime(Local(tm)) /\ InTime(instant)) => parse_date = instant

\* The count starts with 1970: the minutes of its first day are counted from 0,
\* in every zone.
CountFromEpoch ==
  (tm.year = 1970 /\ tm.mon = 0 /\ tm.mday = 1) =>
    instant = tm.hour * 60 + tm.min - zone

\* parse_date reads dates as instants, counted from the epoch.
DatesRead == InstantRead /\ CountFromEpoch

=============================================================================
