----------------------------- MODULE EnvSensors -----------------------------
(***************************************************************************)
(* The environment sensors (integrations/env_sensors.{h,cpp}): the NimBLE  *)
(* host task binds a slot to each broadcaster it hears and reuses the      *)
(* quietest one when the table is full; the main loop, told by a flag that *)
(* a slot became another sensor, empties the trend behind it and loads its *)
(* name, samples it and renames it.                                        *)
(*                                                                         *)
(* Nothing locks a slot, so one action is one step of either side.  A      *)
(* reading is the address it came from; a name is one the crew gave.       *)
(***************************************************************************)
EXTENDS History, SequencesExt

CONSTANTS
  Macs,           \* the broadcasters in range
  NoMac,          \* the empty string
  NSlots,         \* kMaxEnvSensors
  Names, NoName,  \* what the crew may call a sensor, and nothing
  Zero            \* the 0.0 of a slot just wiped, which nobody sent

ASSUME EnvSensorsAssumption ==
  /\ NoMac \notin Macs /\ NoName \notin Names
  /\ NSlots \in Nat \ {0}
  /\ {Gap, Zero} \cap (Macs \cup {NoMac}) = {} /\ Gap # Zero

VARIABLES
  mac,            \* the address in each slot
  flag,           \* needsNameLoad
  reading,        \* tempC, or Zero while haveTemp is not set
  bound,          \* bound_: how many slots are in use
  quiet,          \* the slots heard, by lastHeardMs
  host,           \* where the host task is in onAdvertisement()
  hearing,        \* the address it is hearing
  at,             \* the slot it is at
  open,           \* NVS could be opened
  saved,          \* the names in NVS
  customName,
  history,        \* history_
  extremes,       \* extremes_: whose readings made today's high and low
  loop,           \* where the main loop is
  cursor,         \* the slot it is at
  key,            \* the address it looks up or renames
  given,          \* the new name
  have            \* it found the slot fresh, with a reading

slotVars == << mac, flag, reading, bound, quiet >>
hostVars == << host, hearing, at >>
nameVars == << open, saved, customName >>
pastVars == << history, extremes >>
loopVars == << loop, cursor, key, given, have >>
vars     == << slotVars, hostVars, nameVars, pastVars, loopVars >>

Slots == 1 .. NSlots

Init ==
  /\ mac = [s \in Slots |-> NoMac] /\ flag = [s \in Slots |-> FALSE]
  /\ reading = [s \in Slots |-> Zero] /\ bound = 0 /\ quiet = << >>
  /\ host = "idle" /\ hearing = NoMac /\ at = 1
  /\ open \in BOOLEAN /\ saved \in [Macs -> IF open THEN Names \cup {NoName} ELSE {NoName}]
  /\ customName = [s \in Slots |-> NoName]
  /\ history = [s \in Slots |-> NewHistory] /\ extremes = [s \in Slots |-> {}]
  /\ loop = "ui" /\ cursor = 1 /\ key = NoMac /\ given = NoName /\ have = FALSE

-----------------------------------------------------------------------------
(* The NimBLE host task: onAdvertisement(), findOrBind() inlined. *)

Holding(m) == {s \in 1 .. bound : mac[s] = m}

(* A slot of its own, a free one, or the one that has been quiet longest. *)
Hear(m) ==
  /\ host = "idle"
  /\ hearing' = m
  /\ \/ /\ at' \in Holding(m) /\ \A s \in Holding(m) : at' <= s
        /\ host' = "merge"
     \/ /\ Holding(m) = {}
        /\ at' = IF bound < NSlots THEN bound + 1 ELSE Head(quiet)
        /\ host' = "wipe"
  /\ UNCHANGED << slotVars, nameVars, pastVars, loopVars >>

(* s = EnvSensor{}: the flag and the name go too. *)
Wipe ==
  /\ host = "wipe"
  /\ mac' = [mac EXCEPT ![at] = NoMac]
  /\ flag' = [flag EXCEPT ![at] = FALSE]
  /\ reading' = [reading EXCEPT ![at] = Zero]
  /\ customName' = [customName EXCEPT ![at] = NoName]
  /\ host' = "address"
  /\ UNCHANGED << bound, quiet, hearing, at, open, saved, pastVars, loopVars >>

Rebind ==
  /\ host = "address"
  /\ mac' = [mac EXCEPT ![at] = hearing]
  /\ host' = "raise"
  /\ UNCHANGED << flag, reading, bound, quiet, hearing, at, nameVars, pastVars, loopVars >>

Raise ==
  /\ host = "raise"
  /\ flag' = [flag EXCEPT ![at] = TRUE]
  /\ host' = "publish"
  /\ UNCHANGED << mac, reading, bound, quiet, hearing, at, nameVars, pastVars, loopVars >>

(* Past the barrier, bound_ hands a new slot to readers. *)
Publish ==
  /\ host = "publish"
  /\ bound' = IF at = bound + 1 THEN at ELSE bound
  /\ host' = "merge"
  /\ UNCHANGED << mac, flag, reading, quiet, hearing, at, nameVars, pastVars, loopVars >>

(* Merge rather than replace: a battery frame carries no temperature. *)
Merge ==
  /\ host = "merge"
  /\ \E haveTemp \in BOOLEAN :
       reading' = IF haveTemp THEN [reading EXCEPT ![at] = hearing] ELSE reading
  /\ host' = "heard"
  /\ UNCHANGED << mac, flag, bound, quiet, hearing, at, nameVars, pastVars, loopVars >>

(* lastHeardMs, published last. *)
Heard ==
  /\ host = "heard"
  /\ quiet' = Append(RemoveFirst(quiet, at), at)
  /\ host' = "idle" /\ hearing' = NoMac
  /\ UNCHANGED << mac, flag, reading, bound, at, nameVars, pastVars, loopVars >>

-----------------------------------------------------------------------------
(* The main loop: EnvSensors::loop(), first the slots just bound ... *)

NextSlot == cursor' = cursor + 1

(* if (!needsNameLoad) continue; past the last slot, most passes return. *)
CheckFlag ==
  /\ loop = "flags"
  /\ IF cursor > bound
     THEN loop' \in {"ui", "sample"} /\ cursor' = 1
     ELSE IF flag[cursor] THEN loop' = "lower" /\ UNCHANGED cursor
                          ELSE NextSlot /\ UNCHANGED loop
  /\ UNCHANGED << slotVars, hostVars, nameVars, pastVars, key, given, have >>

(* Lowered first, so that a rebind from here on raises it again. *)
LowerFlag ==
  /\ loop = "lower"
  /\ flag' = [flag EXCEPT ![cursor] = FALSE]
  /\ loop' = "clear"
  /\ UNCHANGED << mac, reading, bound, quiet, hostVars, nameVars, pastVars >>
  /\ UNCHANGED << cursor, key, given, have >>

ClearPast_TrendOnly ==
  /\ loop = "clear"
  /\ history' = [history EXCEPT ![cursor] = Cleared(@)]
  /\ key' = mac[cursor]
  /\ loop' = "load"
  /\ UNCHANGED << slotVars, hostVars, nameVars, extremes, cursor, given, have >>

(* The trend and the extremes start over, in nobody else's sight; then     *)
(* sensorName() makes a key of the address ...                             *)
ClearPast ==
  /\ loop = "clear"
  /\ history' = [history EXCEPT ![cursor] = Cleared(@)]
  /\ extremes' = [extremes EXCEPT ![cursor] = {}]
  /\ key' = mac[cursor]
  /\ loop' = "load"
  /\ UNCHANGED << slotVars, hostVars, nameVars, cursor, given, have >>

Stored(m) == IF m \in Macs THEN saved[m] ELSE NoName

LoadName_AndLower ==
  /\ loop = "load"
  /\ customName' = [customName EXCEPT ![cursor] = Stored(key)]
  /\ flag' = [flag EXCEPT ![cursor] = FALSE]
  /\ key' = NoMac /\ loop' = "flags" /\ NextSlot
  /\ UNCHANGED << mac, reading, bound, quiet, hostVars, open, saved, pastVars, given, have >>

(* ... and the name under it in NVS is the slot's. *)
LoadName ==
  /\ loop = "load"
  /\ customName' = [customName EXCEPT ![cursor] = Stored(key)]
  /\ key' = NoMac /\ loop' = "flags" /\ NextSlot
  /\ UNCHANGED << slotVars, hostVars, open, saved, pastVars, given, have >>

(* ... then, a few times a second, the samples: is the slot fresh ... *)
CheckSlot(from, to, after) ==
  /\ loop = from
  /\ IF cursor > bound
     THEN loop' = after /\ cursor' = 1 /\ UNCHANGED have
     ELSE /\ \E fresh \in BOOLEAN : have' = (fresh /\ reading[cursor] # Zero)
          /\ loop' = to /\ UNCHANGED cursor
  /\ UNCHANGED << slotVars, hostVars, nameVars, pastVars, key, given >>

CheckSample  == CheckSlot("sample", "record", "log")
CheckExtreme == CheckSlot("observe", "fold", "ui")

(* ... and record what it says by then, or a gap; unless it is too soon. *)
Record ==
  /\ loop = "record"
  /\ \/ history' = [history EXCEPT ![cursor] =
                      Recorded(@, IF have THEN reading[cursor] ELSE Gap)]
     \/ UNCHANGED history
  /\ loop' = "sample" /\ NextSlot /\ have' = FALSE
  /\ UNCHANGED << slotVars, hostVars, nameVars, extremes, key, given >>

(* serviceLog(): nothing without a clock or within the same minute, the    *)
(* extremes of every slot start over on another day.                       *)
ServiceLog ==
  /\ loop = "log"
  /\ \/ loop' = "ui" /\ UNCHANGED extremes
     \/ loop' = "observe" /\ extremes' \in {extremes, [s \in Slots |-> {}]}
  /\ UNCHANGED << slotVars, hostVars, nameVars, history, cursor, key, given, have >>

(* observeMinute(). *)
Observe ==
  /\ loop = "fold"
  /\ extremes' = IF have THEN [extremes EXCEPT ![cursor] = @ \cup {reading[cursor]}]
                         ELSE extremes
  /\ loop' = "observe" /\ NextSlot /\ have' = FALSE
  /\ UNCHANGED << slotVars, hostVars, nameVars, history, key, given >>

-----------------------------------------------------------------------------
(* The main loop: the Climate page. *)

NoRename ==
  /\ loop = "ui"
  /\ loop' = "flags" /\ cursor' = 1
  /\ UNCHANGED << slotVars, hostVars, nameVars, pastVars, key, given, have >>

(* rename(): NVS first ... *)
Rename(m, name) ==
  /\ loop = "ui"
  /\ saved' = IF open THEN [saved EXCEPT ![m] = name] ELSE saved
  /\ key' = m /\ given' = name
  /\ loop' = "find" /\ cursor' = 1
  /\ UNCHANGED << slotVars, hostVars, open, customName, pastVars, have >>

(* ... then the first slot with that address ... *)
FindRenamed ==
  /\ loop = "find"
  /\ IF cursor > bound
     THEN loop' = "flags" /\ cursor' = 1 /\ key' = NoMac /\ given' = NoName
     ELSE IF mac[cursor] = key
     THEN loop' = "write" /\ UNCHANGED << cursor, key, given >>
     ELSE NextSlot /\ UNCHANGED << loop, key, given >>
  /\ UNCHANGED << slotVars, hostVars, nameVars, pastVars, have >>

(* ... whoever it belongs to by now. *)
WriteRenamed ==
  /\ loop = "write"
  /\ customName' = [customName EXCEPT ![cursor] = given]
  /\ loop' = "flags" /\ cursor' = 1 /\ key' = NoMac /\ given' = NoName
  /\ UNCHANGED << slotVars, hostVars, open, saved, pastVars, have >>

-----------------------------------------------------------------------------
Host ==
  \/ \E m \in Macs : Hear(m)
  \/ Wipe \/ Rebind \/ Raise \/ Publish \/ Merge \/ Heard

Pass ==
  \/ CheckFlag \/ LowerFlag \/ ClearPast \/ LoadName
  \/ CheckSample \/ Record \/ ServiceLog \/ CheckExtreme \/ Observe

Ui ==
  \/ NoRename \/ FindRenamed \/ WriteRenamed
  \/ \E m \in Macs, name \in Names \cup {NoName} : Rename(m, name)

Next == Host \/ Pass \/ Ui

Spec == Init /\ [][Next]_vars

-----------------------------------------------------------------------------
Samples == Macs \cup {Gap, Zero}

TypeOK ==
  /\ mac \in [Slots -> Macs \cup {NoMac}] /\ flag \in [Slots -> BOOLEAN]
  /\ reading \in [Slots -> Macs \cup {Zero}]
  /\ bound \in 0 .. NSlots
  /\ quiet \in Seq(Slots) /\ Len(quiet) <= NSlots
  /\ host \in {"idle", "wipe", "address", "raise", "publish", "merge", "heard"}
  /\ hearing \in Macs \cup {NoMac} /\ at \in Slots
  /\ open \in BOOLEAN /\ saved \in [Macs -> Names \cup {NoName}]
  /\ customName \in [Slots -> Names \cup {NoName}]
  /\ \A s \in Slots :
       /\ history[s].ring \in [Cells -> Samples]
       /\ history[s].head \in Cells /\ history[s].count \in 0 .. KSamples
  /\ extremes \in [Slots -> SUBSET (Macs \cup {Zero})]
  /\ loop \in {"ui", "find", "write", "flags", "lower", "clear", "load",
              "sample", "record", "log", "observe", "fold"}
  /\ cursor \in 1 .. NSlots + 1
  /\ key \in Macs \cup {NoMac} /\ given \in Names \cup {NoName} /\ have \in BOOLEAN

(* The host task is not making the slot another sensor's, and the main     *)
(* loop has dealt with the last time it did.                               *)
Rebinding(s) == host \in {"address", "raise"} /\ at = s
Settled(s) ==
  /\ s <= bound /\ ~flag[s] /\ ~Rebinding(s)
  /\ ~(loop = "clear" /\ cursor = s)

(***************************************************************************)
(* The Climate page implements its abstract promise: the trend of a row is *)
(* the window of the last samples its own sensor sent, with gaps and never *)
(* a value nobody sent or another sensor's, however rebinding interleaves  *)
(* with sampling (env_sensors.h:99-103, ARCHITECTURE.md:112-130).          *)
(***************************************************************************)
Page == INSTANCE Climate WITH
          Rows <- Slots, Window <- KSamples,
          sensor <- [s \in Slots |-> IF Settled(s) THEN mac[s] ELSE NoMac],
          trend <- [s \in Slots |-> IF Settled(s) THEN Contents(history[s]) ELSE << >>]

ImplementsClimate == Page!Spec

(***************************************************************************)
(* Today's high and low of a row were read off its own sensor: a slot that *)
(* became another one starts its day over (env_sensors.cpp:220-234).       *)
(***************************************************************************)
ExtremesAreOwn == \A s \in Slots : Settled(s) => extremes[s] \subseteq {mac[s]}

(***************************************************************************)
(* Between two passes a settled row has the name the crew gave its sensor, *)
(* although the name is loaded and renamed on the main loop while the host *)
(* task may be giving the slot to somebody else.                           *)
(***************************************************************************)
NamesFollow ==
  loop = "ui" /\ open => \A s \in Slots : Settled(s) => customName[s] = Stored(mac[s])

=============================================================================
