------------------------------ MODULE Calendar ------------------------------
(***************************************************************************)
(* The functions of clock.cpp that turn a count of seconds into a date and *)
(* back, and the one that steps a date field by field.                     *)
(*                                                                         *)
(* Years and months are the real ones.  How many hours a day has, and so   *)
(* on down, is a parameter.  An Epoch is 32 bits, which last until         *)
(* February 2106; the setter's years end in 2099, and no width is kept.    *)
(***************************************************************************)
EXTENDS Integers

CONSTANTS
  Hours, Minutes, Seconds,  \* in a day, an hour, a minute: 24, 60, 60
  kMinYear, kMaxYear        \* 2024, 2099

ASSUME CalendarAssumption ==
  /\ Hours \in Nat \ {0} /\ Minutes \in Nat \ {0} /\ Seconds \in Nat \ {0}
  /\ kMinYear \in Nat /\ kMaxYear \in Nat
  /\ 1970 < kMinYear /\ kMinYear <= kMaxYear

-----------------------------------------------------------------------------
(* The calendar. *)

IsLeapYear(y) == (y % 4 = 0 /\ y % 100 # 0) \/ y % 400 = 0

DaysInMonth(y, m) ==
  CASE m = 2 -> IF IsLeapYear(y) THEN 29 ELSE 28
    [] m \in {4, 6, 9, 11} -> 30
    [] OTHER -> 31

(* Days before a year of an era that begins in March, and before a month.  *)
YearStart(yoe)  == 365 * yoe + yoe \div 4 - yoe \div 100
MonthStart(mp) == (153 * mp + 2) \div 5

(* For a date from the year 1 on; none before 1970 gets here.              *)
DaysFromCivil(y, m, d) ==
  LET year == IF m <= 2 THEN y - 1 ELSE y
      mp   == IF m <= 2 THEN m + 9 ELSE m - 3
  IN  146097 * (year \div 400) + YearStart(year % 400) + MonthStart(mp) + d - 1 - 719468

(* The year of an era a day of it is in. *)
YearOf(doe) == (doe - doe \div 1460 + doe \div 36524 - doe \div 146096) \div 365

CivilFromDays(days) ==
  LET z    == days + 719468
      doe  == z % 146097
      yoe  == YearOf(doe)
      doy  == doe - YearStart(yoe)
      mp   == (5 * doy + 2) \div 153
      late == mp >= 10
  IN  [year  |-> 400 * (z \div 146097) + yoe + (IF late THEN 1 ELSE 0),
       month |-> IF late THEN mp - 9 ELSE mp + 3,
       day   |-> doy - MonthStart(mp) + 1]

(* The time of day. *)
HourSeconds == Minutes * Seconds
DaySeconds  == Hours * HourSeconds

BreakDown(e) ==
  LET civil == CivilFromDays(e \div DaySeconds)
      rem   == e % DaySeconds
  IN  [year   |-> civil.year, month |-> civil.month, day |-> civil.day,
       hour   |-> rem \div HourSeconds,
       minute |-> (rem % HourSeconds) \div Seconds,
       second |-> (rem % HourSeconds) % Seconds]

Make_DropSecond(dt) ==
  DaysFromCivil(dt.year, dt.month, dt.day) * DaySeconds
    + dt.hour * HourSeconds + dt.minute * Seconds

(* Before 1970 is no time at all. *)
Make(dt) ==
  LET days == DaysFromCivil(dt.year, dt.month, dt.day)
  IN  IF days < 0 THEN 0
      ELSE days * DaySeconds + dt.hour * HourSeconds + dt.minute * Seconds + dt.second

-----------------------------------------------------------------------------
(* stepDateField(). *)

StepWrapped(v, delta, lo, hi) == lo + ((v - lo + delta) % (hi - lo + 1))

Fields == {"year", "month", "day", "hour", "minute"}

Moved(dt, field, delta) ==
  CASE field = "year"   -> [dt EXCEPT !.year = StepWrapped(@, delta, kMinYear, kMaxYear)]
    [] field = "month"  -> [dt EXCEPT !.month = StepWrapped(@, delta, 1, 12)]
    [] field = "day"    -> [dt EXCEPT !.day = StepWrapped(@, delta, 1,
                                                DaysInMonth(dt.year, dt.month))]
    [] field = "hour"   -> [dt EXCEPT !.hour = StepWrapped(@, delta, 0, Hours - 1)]
    [] field = "minute" -> [dt EXCEPT !.minute = StepWrapped(@, delta, 0, Minutes - 1)]

(* A day past the end of its month is the last one of it. *)
StepDateField(dt, field, delta) ==
  LET moved == Moved(dt, field, delta)
      last  == DaysInMonth(moved.year, moved.month)
  IN  [moved EXCEPT !.day = IF @ > last THEN last ELSE @, !.second = 0]

-----------------------------------------------------------------------------
(* What a date is, and the next one by the lengths of the months. *)

RealDate(dt) ==
  /\ dt = [year |-> dt.year, month |-> dt.month, day |-> dt.day,
           hour |-> dt.hour, minute |-> dt.minute, second |-> dt.second]
  /\ dt.year \in Nat /\ dt.year >= 1970
  /\ dt.month \in 1 .. 12 /\ dt.day \in 1 .. DaysInMonth(dt.year, dt.month)
  /\ dt.hour \in 0 .. Hours - 1 /\ dt.minute \in 0 .. Minutes - 1
  /\ dt.second \in 0 .. Seconds - 1

NextDay(dt) ==
  IF dt.day < DaysInMonth(dt.year, dt.month) THEN [dt EXCEPT !.day = @ + 1]
  ELSE IF dt.month < 12 THEN [dt EXCEPT !.day = 1, !.month = @ + 1]
  ELSE [dt EXCEPT !.day = 1, !.month = 1, !.year = @ + 1]

=============================================================================
