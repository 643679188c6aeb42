------------------------------ MODULE DayLog ------------------------------
(***************************************************************************)
(* Today's high and low against a clock that a person may set to any day:  *)
(* serviceLog() and startDay() of env_sensors.cpp, in the passes of the    *)
(* main loop that look at the time.                                        *)
(*                                                                         *)
(* A day's high and low is the set of minutes whose reading went into it;  *)
(* which sensor a slot's belong to is EnvSensors' concern.  The day file   *)
(* is compiled out on this board.                                          *)
(***************************************************************************)
EXTENDS WallClock

CONSTANT
  NoMinute     \* lastLoggedMinute_ = 0xFFFF

ASSUME DayAssumption == NoMinute \notin Nat

(* In seconds. *)
Minute == Seconds
Day    == DaySeconds

VARIABLES
  dayStarted, logDay, lastMinute,
  today        \* the minutes behind today's high and low, as <<day, minute>>

dayVars == <<dayStarted, logDay, lastMinute, today>>
vars == <<clockVars, dayVars>>

dayIndex(e)    == e \div Day
minuteOfDay(e) == (e % Day) \div Minute

DayInit ==
  /\ Init
  /\ dayStarted = FALSE /\ logDay = 0 /\ lastMinute = NoMinute
  /\ today = {}

(* startDay() without the reset of the minute it logged last. *)
ServiceLog_KeepMinute(e) ==
  LET newDay == ~dayStarted \/ dayIndex(e) # logDay
  IN /\ dayStarted' = TRUE
     /\ logDay' = dayIndex(e)
     /\ lastMinute' = minuteOfDay(e)
     /\ today' = (IF newDay THEN {} ELSE today) \cup
                 (IF minuteOfDay(e) = lastMinute
                    THEN {} ELSE {<<dayIndex(e), minuteOfDay(e)>>})

(* A day that is not the one being kept starts over; a minute is observed  *)
(* once, unless the day has just started.                                  *)
ServiceLog(e) ==
  LET newDay == ~dayStarted \/ dayIndex(e) # logDay
  IN /\ dayStarted' = TRUE
     /\ logDay' = dayIndex(e)
     /\ lastMinute' = minuteOfDay(e)
     /\ today' = (IF newDay THEN {} ELSE today) \cup
                 (IF ~newDay /\ minuteOfDay(e) = lastMinute
                    THEN {} ELSE {<<dayIndex(e), minuteOfDay(e)>>})

(* The sensors' loop comes after the clock's and the settings', and looks  *)
(* at the time on the same pass as the settings do.                        *)
LogPass ==
  /\ LoopPass
  /\ IF gate' = 0 /\ set THEN ServiceLog(epoch') ELSE UNCHANGED dayVars

LosePower ==
  /\ PowerCut
  /\ dayStarted' = FALSE /\ logDay' = 0 /\ lastMinute' = NoMinute
  /\ today' = {}

DayNext ==
  \/ LogPass
  \/ LosePower
  \/ (TimePasses \/ PowerOn \/ Begin \/ Setter) /\ UNCHANGED dayVars

DaySpec == DayInit /\ [][DayNext]_vars

-----------------------------------------------------------------------------
TypeOK ==
  /\ ClockTypeOK
  /\ dayStarted \in BOOLEAN /\ logDay \in Nat
  /\ lastMinute \in (0 .. Day \div Minute - 1) \cup {NoMinute}
  /\ today \subseteq Nat \X (0 .. Day \div Minute - 1)

(* Today's high and low are of one day, the one being kept, and the minute *)
(* the log takes for done is in them, wherever the person moves the clock  *)
(* (env_sensors.cpp:283-286).                                              *)
DayIsWhole ==
  dayStarted =>
    /\ <<logDay, lastMinute>> \in today
    /\ \A minute \in today : minute[1] = logDay

=============================================================================
