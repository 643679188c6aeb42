----------------------------- MODULE WallClock -----------------------------
(***************************************************************************)
(* The wall clock of a board without one: seconds counted out of a         *)
(* millisecond counter that wraps, saved to flash now and then, restored   *)
(* as a guess after a power cut, and right only once a person enters it.   *)
(* clock.cpp and the clock half of settings.cpp, with the setter of ui.cpp.*)
(*                                                                         *)
(* Time is counted in milliseconds of the model.  One action is every      *)
(* 256th pass of the main loop, the only ones that look at the clock.      *)
(* The dates of the setter are Calendar's.                                 *)
(***************************************************************************)
EXTENDS Calendar

CONSTANTS
  Wrap,        \* millis() counts modulo this: 2^32
  Second,      \* 1000
  TickGap,     \* longest time between two ticks of the clock, setup() included
  SaveGates,   \* ticks between two looks at the saved clock: 4096 / 256
  SaveEvery,   \* kClockSaveMs
  Arrows,      \* bound: the arrows of the setter a person presses
  Epochs,      \* bound: the dates a person steps it to, in seconds
  NoEdit,      \* the setter is closed
  MaxTime      \* bound: how long the model runs

ASSUME ClockAssumption ==
  /\ {Wrap, Second, TickGap, SaveGates, SaveEvery} \subseteq Nat \ {0}
  /\ Second + TickGap <= Wrap
  /\ SaveEvery + SaveGates * TickGap <= Wrap
  /\ Arrows \subseteq Fields \X {-1, 1}
  /\ Epochs \subseteq Nat \ {0}
  /\ MaxTime \in Nat

VARIABLES
  phase,        \* "off", "booting" until Settings::begin(), then "on"
  ms,           \* millis()
  epoch, lastMs, set, approximate,      \* Clock
  open, lastSaveMs, gate,               \* Settings: open_, lastClockSaveMs_, tick_
  nvs,          \* the saved clock, 0 when there is none
  edit,         \* g_clockEdit, while the setter is open
  now,          \* the time it is, power or no power: nothing in the code sees it
  quiet,        \* how long since the last tick
  entered       \* the last time a person entered, and when that was

counted == <<epoch, lastMs, set, approximate>>
saving  == <<open, lastSaveMs, gate, nvs>>
clockVars == <<phase, ms, counted, saving, edit, now, quiet, entered>>

Millis == 0 .. Wrap - 1

(* uint32_t subtraction: what has gone by since the counter read `then`. *)
Since(then) == (ms - then) % Wrap

Init ==
  /\ phase = "off" /\ ms = 0 /\ now = 0 /\ quiet = 0
  /\ epoch = 0 /\ lastMs = 0 /\ set = FALSE /\ approximate = FALSE
  /\ open = FALSE /\ lastSaveMs = 0 /\ gate = 0 /\ nvs = 0
  /\ edit = NoEdit
  /\ entered = [epoch |-> 0, at |-> 0]

-----------------------------------------------------------------------------
(* Time and power. *)

(* A running loop comes around within TickGap. *)
TimePasses ==
  /\ now < MaxTime
  /\ phase = "on" => quiet < TickGap
  /\ now' = now + 1
  /\ ms' = IF phase = "off" THEN ms ELSE (ms + 1) % Wrap
  /\ quiet' = IF phase = "on" THEN quiet + 1 ELSE quiet
  /\ UNCHANGED <<phase, counted, saving, edit, entered>>

PowerOn ==
  /\ phase = "off"
  /\ phase' = "booting"
  /\ UNCHANGED <<ms, counted, saving, edit, now, quiet, entered>>

(* What is in RAM goes; what is saved stays. *)
PowerCut ==
  /\ phase # "off"
  /\ phase' = "off" /\ ms' = 0 /\ quiet' = 0
  /\ epoch' = 0 /\ lastMs' = 0 /\ set' = FALSE /\ approximate' = FALSE
  /\ open' = FALSE /\ lastSaveMs' = 0 /\ gate' = 0
  /\ edit' = NoEdit
  /\ UNCHANGED <<nvs, now, entered>>

(* Clock::set(). *)
SetClock(e, guess) ==
  /\ epoch' = e
  /\ lastMs' = ms
  /\ set' = TRUE
  /\ approximate' = guess

(* Settings::begin(): without NVS it returns before it looks for a clock. *)
Begin ==
  /\ phase = "booting"
  /\ phase' = "on"
  /\ \E opens \in BOOLEAN :
       /\ open' = opens
       /\ IF opens /\ nvs > 0
            THEN SetClock(nvs, TRUE) /\ lastSaveMs' = ms
            ELSE UNCHANGED <<counted, lastSaveMs>>
  /\ UNCHANGED <<ms, gate, nvs, edit, now, quiet, entered>>

-----------------------------------------------------------------------------
(* The main loop. *)

(* A remainder reset to the counter would lose up to a second a tick. *)
Tick_DropRemainder ==
  LET secs == Since(lastMs) \div Second
  IN IF set /\ secs > 0
       THEN epoch' = epoch + secs /\ lastMs' = ms
       ELSE UNCHANGED <<epoch, lastMs>>

(* Clock::tick(): whole seconds leave the counter, the rest stays in it. *)
Tick ==
  LET secs == Since(lastMs) \div Second
  IN IF set /\ secs > 0
       THEN /\ epoch' = epoch + secs
            /\ lastMs' = (lastMs + secs * Second) % Wrap
       ELSE UNCHANGED <<epoch, lastMs>>

(* A deadline compared as a number would not come around after the wrap. *)
SaveDue_ByDeadline == set /\ ms >= lastSaveMs + SaveEvery

SaveDue == set /\ Since(lastSaveMs) >= SaveEvery

(* saveClock() writes what the tick before it in the same pass has left. *)
SaveClock(e) == nvs' = IF open THEN e ELSE nvs

(* Clock::tick(), and on every SaveGates-th of these passes Settings::loop(). *)
LoopPass ==
  /\ phase = "on"
  /\ Tick
  /\ gate' = (gate + 1) % SaveGates
  /\ IF gate' = 0 /\ SaveDue
       THEN lastSaveMs' = ms /\ SaveClock(epoch')
       ELSE UNCHANGED <<lastSaveMs, nvs>>
  /\ quiet' = 0
  /\ UNCHANGED <<phase, ms, set, approximate, open, edit, now, entered>>

-----------------------------------------------------------------------------
(* The setter, in the same loop. *)

Default ==
  [year |-> kMinYear, month |-> 1, day |-> 1, hour |-> Hours \div 2, minute |-> 0, second |-> 0]

(* setClockCb() seeds it from the clock, a restored one too. *)
OpenSetter ==
  /\ phase = "on" /\ edit = NoEdit
  /\ edit' = IF set THEN BreakDown(epoch) ELSE Default
  /\ UNCHANGED <<phase, ms, counted, saving, now, quiet, entered>>

(* clockStepCb(). *)
StepField ==
  /\ edit # NoEdit
  /\ \E arrow \in Arrows : edit' = StepDateField(edit, arrow[1], arrow[2])
  /\ Make(edit') \in Epochs
  /\ UNCHANGED <<phase, ms, counted, saving, now, quiet, entered>>

(* clockApplyCb() and Settings::setClock(): what is shown is what the      *)
(* person says it is.                                                      *)
Apply ==
  /\ edit # NoEdit
  /\ SetClock(Make(edit), FALSE)
  /\ lastSaveMs' = ms
  /\ SaveClock(Make(edit))
  /\ entered' = [epoch |-> Make(edit), at |-> now]
  /\ edit' = NoEdit
  /\ UNCHANGED <<phase, ms, open, gate, now, quiet>>

Cancel ==
  /\ edit # NoEdit
  /\ edit' = NoEdit
  /\ UNCHANGED <<phase, ms, counted, saving, now, quiet, entered>>

-----------------------------------------------------------------------------
Setter == OpenSetter \/ StepField \/ Apply \/ Cancel
Power  == PowerOn \/ PowerCut \/ Begin

Next == TimePasses \/ Power \/ LoopPass \/ Setter

Spec == Init /\ [][Next]_clockVars

-----------------------------------------------------------------------------
(* The bound of a counter is the time the model runs. *)
ClockTypeOK ==
  /\ phase \in {"off", "booting", "on"}
  /\ ms \in Millis /\ lastMs \in Millis /\ lastSaveMs \in Millis
  /\ epoch \in Nat /\ nvs \in Nat
  /\ set \in BOOLEAN /\ approximate \in BOOLEAN /\ open \in BOOLEAN
  /\ gate \in 0 .. SaveGates - 1
  /\ edit = NoEdit \/ RealDate(edit)
  /\ now \in Nat /\ quiet \in 0 .. TickGap
  /\ entered \in [epoch : Nat, at : Nat]

(* A clock that does not say it is a guess is what the person entered plus *)
(* the time since, power cuts and wraps of the counter included, to the    *)
(* second it is in (clock.h:16-20, clock.h:65-70).                         *)
HonestClock ==
  set /\ ~approximate =>
    LET late == (now - entered.at) - Second * (epoch - entered.epoch)
    IN 0 <= late /\ late < Second + quiet

(* What a power cut can cost: the saved clock is behind the running one by *)
(* no more than the interval it is saved at, give or take the passes the   *)
(* loop looks at it on (settings.h:83-88).                                 *)
CutCostsAtMost ==
  set /\ open =>
    /\ 0 < nvs /\ nvs <= epoch
    /\ Second * (epoch - nvs) < SaveEvery + SaveGates * TickGap + Second

(* Whatever arrows were pressed, the setter holds a date its month and     *)
(* year have, which the seconds made of it stand for and no other.  The    *)
(* date a clock shows stands for its second, and a day of seconds on is    *)
(* the next date: the era arithmetic agrees with the table of the months   *)
(* (clock.cpp:6-32, 92-96, 115-147, clock.h:50-54).                        *)
DatesAreReal ==
  /\ edit # NoEdit => RealDate(edit) /\ BreakDown(Make(edit)) = edit
  /\ set => LET shown == BreakDown(epoch)
            IN  /\ RealDate(shown) /\ Make(shown) = epoch
                /\ BreakDown(epoch + DaySeconds) = NextDay(shown)

=============================================================================
