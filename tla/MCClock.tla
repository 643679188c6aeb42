------------------------------ MODULE MCClock ------------------------------
(***************************************************************************)
(* A counter that wraps every 7 ms and a second of 2, which does not       *)
(* divide it, as 1000 does not divide 2^32: the seconds fall differently   *)
(* on each side of a wrap.  A day is two minutes of two seconds.  A person *)
(* sets the clock to the first of January or, an arrow back, to the last,  *)
(* or to what it says already.  The run ends after 12 ms: a wrap, six      *)
(* seconds, a midnight wherever the day began, and a month's end.          *)
(***************************************************************************)
EXTENDS DayLog

On(y, m, d) ==
  [year |-> y, month |-> m, day |-> d, hour |-> 0, minute |-> 0, second |-> 0]

TheArrows == {<<"day", -1>>}
TheEpochs == {Make(On(2024, 1, 31))}

(***************************************************************************)
(* The calendar by itself, day by day over the years of the setter and     *)
(* some it does not offer, 2100 among them, which is no leap year: a date  *)
(* is what its seconds stand for, the day after follows, and an arrow      *)
(* leaves a real date and is undone by the other one, but for a day that   *)
(* the month or year stepped through does not have.                        *)
(***************************************************************************)
Dates == {On(y, m, d) : y \in 2022 .. 2101, m \in 1 .. 12, d \in 1 .. 31}

ASSUME
  \A dt \in {x \in Dates : x.day <= DaysInMonth(x.year, x.month)} :
    /\ BreakDown(Make(dt)) = dt
    /\ Make(NextDay(dt)) = Make(dt) + DaySeconds
    /\ \A field \in Fields, delta \in {-1, 1} :
         LET over == StepDateField(dt, field, delta)
         IN  /\ RealDate(over)
             /\ dt.year \in kMinYear .. kMaxYear =>
                  StepDateField(over, field, -delta)
                    = [dt EXCEPT !.day = IF field \in {"year", "month"} THEN over.day ELSE @]

=============================================================================
