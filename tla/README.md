# Verification of camper-control

TLA+ models of the firmware of a camper van's control panel (ESP32-S3, two
cores, NimBLE), checked with TLC and, for the parts marked below, proved with
TLAPS for every value of the constants. Paths are relative to the repository.

The panel shows a battery (a JBD BMS over BLE), temperature sensors that
broadcast, and light fixtures it connects to; it raises alarms, remembers what
it is paired with, and broadcasts its readings to a phone.

## The system

Four contexts share memory without locks; everything hard about this program
comes from there.

| context | core | what it runs |
| --- | --- | --- |
| main loop | 1 | `loop()`: clock, `Settings::loop`, `Hub::loop` (each integration's `loop`), the button, the alarm output, the pages |
| BMS task | 0 | `JbdBms::service` every 10 ms: drives the scanner, connects, attaches, evaluates alarms |
| lighting task | 0 | `Lighting::service` every 20 ms: writes and polls fixtures, one connect attempt a pass |
| NimBLE host task | 0 | advertisements, connects and disconnects, notifications |

Flash may only be written on the main loop, so the tasks hand over what must
be saved through a flag: an address buffer (BMS), `needsCommit` (lights),
`needsNameLoad` (sensors). The power can go at any moment.

| component | state | operations | talks to |
| --- | --- | --- | --- |
| alarm table `core/alarms` | slots, count, mute | raise, clear, clearPrefix, any, worst, silence, shouldSound | written by the BMS task, read by main loop and pages |
| settings `core/settings` | NVS copies, one handover slot | begin, loop, remember, forget, sensor and light names | every integration |
| BLE client `lib/BleSerialClient` | target, found address, attempts, `bleConnected` | bleLoop, host callbacks, write/flush | scanner, BMS integration |
| scanner `BleScanner` | pause mask, window, gap | loop, pause, resume, scanning | both connectors, three listeners |
| byte ring `ByteRingBuffer` | buffer, head, tail | add, pop, clear, getLength | filled and cleared by the host task, emptied by the BMS task |
| protocol library `lib/OverkillSolarBMS` | receiver, last replies, `m_param_success`, factory mode | main_task, queries, getters and setters, get_params, set_params | client, BMS integration |
| BMS integration `bms_jbd` | attached, cells, thresholds | service, refresh, evaluateAlarms | client, library, alarms, settings, entities |
| lighting `integrations/lighting` | slot table, wanted and confirmed state | bind, connect, serviceLink, onNotify, loop, page commands | scanner, settings, registry |
| sensors `integrations/env_sensors` | slots, trends, extremes, names | onAdvertisement, loop, rename | scanner, settings, history |
| history ring `core/history` | ring, head, count | record, clear, read | sensors, graphs |
| clock and calendar `core/clock` | epoch, mark of the last tick, whether it is a guess | tick, set, breakDown, make, stepDateField | settings, the clock page, sensors |
| decoders, datalog, units, registry | small and mostly pure | | everyone |
| entities `core/entity` | value and stamp of each reading | set, stale | written by the BMS task, read by pages and broadcast |
| phone broadcast `ble_broadcast`, encoder `bthome_encode` | the frame being built, whether it advertises | begin, loop, publish, add... | entities, the controller |
| system page, UI, display | read-mostly | | registry |

What makes each correct, and what a test would hardly reach, is listed at its
line in `PROJECT.json` under `hazards`.

## Modules

| module | models | kind |
| --- | --- | --- |
| `AlarmPanel` | what the alarm table promises: a set of active alarms, a mute only a noticed alarm switches on | abstract |
| `Alarms` | the table, one store or one slot read per step, with the BMS task and the main loop | component |
| `AlarmsProofs` | proofs about `Alarms` | proofs |
| `Settings` | the saved BMS address, its handover slot, NVS and the power | component |
| `BmsLink` | `Settings` with the BLE client and attach/detach: which battery the panel is on | composition |
| `BmsLinkProofs` | proofs about both | proofs |
| `BmsSession` | passes of `JbdBms::service()` over the library: queries, limits, `refresh()`, the pack's own fault | component |
| `BmsSessionProofs` | proofs about `BmsSession` | proofs |
| `JbdWire` | the receiver and `write()` of the library over `BleSerialClient` and the ring both tasks use | component |
| `JbdRegisters` | every register: its getter, its setter, whether its reply is passed on | functions |
| `JbdParams` | `JbdRegisters` with the parameter calls, factory mode, retries and the pack's EEPROM | component |
| `JbdProofs` | proofs about `JbdParams` and `JbdWire` | proofs |
| `Broadcast` | the battery's readings, `refresh()` on one core and `publish()` on the other, the encoder | composition |
| `BroadcastProofs` | proofs about `Broadcast` | proofs |
| `BleScanner` | the calls of the shared scanner, as operators | component |
| `Radio` | `BleScanner` with the two connecting tasks, the host task and the timers | composition |
| `LightSlots` | which lamp sits in which slot, and what NVS says of it | component |
| `LightLink` | one fixture's requests, frames, notifications and the page | component |
| `LightingProofs` | proofs about `Radio`, `LightSlots` and `LightLink` | proofs |
| `History` | the ring, as operators, and the window it should be | functions |
| `Calendar` | seconds to a date and back, and the arrows that step one | functions |
| `WallClock` | the clock, its hourly save and restore, its setter, and time itself | component |
| `DayLog` | `WallClock` with the day a sensor's high and low belong to | composition |
| `ClockProofs` | proofs about the three of them | proofs |
| `Climate` | what the Climate page promises of a row | abstract |
| `EnvSensors` | `History` with the slots, the host task, the main loop and renaming | composition |
| `EnvSensorsProofs` | proofs about `History` and `EnvSensors` | proofs |
| `MC*` | constants for TLC | configuration |

A value is abstracted to what a property tells apart. A MAC address is a model
value; where a copy can tear (`Settings`) it has two halves. A sensor's reading
is the address it came from, so "somebody else's reading" is visible. A colour
is what goes over the air, colour and brightness multiplied; the two stores
behind it are read one after the other by the code and as one here. The
millisecond counter is counted, and wraps, in `WallClock` only; everywhere else
a timer is a flag that becomes due at some later step.

Definitions named `X_Something` beside a definition `X` are the same operation
with one plausible mistake in it; nothing uses them in the specifications. They
are how each property is shown to notice something.

### Alarms

`raise()` is `RaiseFind`, `FillSlot`, `Publish` and one `Store` for each of its
unordered stores; `clear()` is `ClearOne` and `Unmute`, because the mute is
lifted by a scan of its own; `clearPrefix()` is `DropSlot` and `DropDone`. An
evaluation visits the ids in the code's order with an arbitrary set of faults.
The main loop's `any()` and `worstAlarm()` walk one slot a step. `Evaluate` is
always possible while attached, which assumes the BMS keeps answering
(`dataValid()`).

### Settings and BmsLink

`rememberBmsMacFromTask()` is `HandOver`, `FillFront`, `FillBack`, `RaiseFlag`;
`Settings::loop()` is `Poll`, `CopyFront`, `CopyBack`, `LowerFlag`, `Commit`.
`BmsLink` gives the writer its caller: one pass of `JbdBms::service()` is
`SkipConnect` or the connect, then `Detach`, `Keep` or `Attach` with the
handover. `FillFront(still)` takes the caller's string as it is by then, since
`onDisconnect()` may have cleared it. Settings pages run between passes of
`Settings::loop()`, on the same core. Forget empties the saved address only: the
client stays pinned until the next boot, and an attach before that saves the
address again.

### BmsSession

One pass is `Attach`, `Detach`, `Keep` or `Idle`, then `Query` and its attempts, the
cells, at most one limit with the factory mode it enters, and `Refresh` or
`RefreshNothing`. Whether an interval of `service()` is up is a choice (`NoQuery`,
`NoLimit`, `NoRefresh`). A reply is what it answers and the register it is of, a
reading the link it came over, a limit the register it was read off: "the limit
of another pack", "of another register" and "made of no reply" are then visible.
The pack is external. A *prompt* one answers all and in time; any other answers
late, or never, or restarts. A reply counts for whatever is asked by then, as in
the library. Left out: the cell voltages (`valid` says there are some), what
`evaluateAlarms()` compares, which `Alarms` takes as any set of faults, and a
register that really holds 0.

### JbdWire

The bytes, the receiver's eight states, the checksum and the ring are the
code's; in the run the frames are few and short. A frame carries whatever checksum the pack
sent, right or wrong, and at most the 64 bytes of data `m_rx_data` has room for
(the longer ones, of which the library keeps only a part, are left out). `notifyCallback()` is
`Notify`, one byte a step, so that an answer may come in any number of notifications with reads
between them; `add()` and `clear()` are steps of
the host task. Two history variables say what the bytes are: `origin` keeps, beside each cell of the
ring, the frame and the place in it the cell's byte came of, and an entry of `handled` names
the frame its last byte came of. `pop()` is `PopLoad` and `PopStore`, whose store may be of the
tail read before or read anew, and a `clear()` may fall between them: both are
outcomes of the unsynchronised read-modify-write of the code. `flush()` is
`Flush`, which looks at the link, and `WriteValue`. A link that goes and comes between two
looks of `service()` is not noticed there, and the receiver goes on where it was.
`Room` is what the 4096 bytes of the ring stand for: answers are read every 10 ms
and never fill it. The host task's own steps are assumed atomic against each
other, as NimBLE calls them one by one.

### JbdRegisters and JbdParams

A call is a run of exchanges; in each the pack may miss the request, and the
answer may be late, lost or a refusal. `Answered` is what the wait makes of the frames that
came: the first that counts ends it, the last decides `m_rx_status` and the
word. The pack is external: parameters are served in factory mode only, and
leaving it with 0x0000 keeps the changes or `forgets` them, since the two
comments of the library disagree (bms2.cpp:725 and 1379). The arithmetic of a
register is its own getter's and setter's. `Undone` says which values a getter makes
again of what the setter made of them. It leaves out the temperatures (offsets
273.15 and 271.15), the delays (two nibbles written, two bytes read), 0x23 (read
times ten, written as it is), a discharge limit of 0 (read as 655.36 A), the discharge rate 0x14, and
whatever the register's 16 bits, or the byte of 0x2F, have no room for. `write_float_param()` cuts
`value / 0.1f` off in single precision, so that a rate is written as set or a tenth short: 1.3 %
as 12. `LosesTenth` is which, 9829 of the 65536, and `SetIsRead` says of 0x14 that it
is read as set or a tenth less. The condition is derived in the comment, and was compared with
the single precision division for each of the 65536, outside TLC. (What `get_0x14` returns is the word times
`0.1f`, within a rounding of the tenths, and is written as it was read.) `ParamsAssumption` has what is set
fit a word once it is scaled, since converting a larger float to `uint16_t` is
undefined in the code. `Routed` leaves out 0x15 and 0x2C, whose
replies the receiver skips, so that they always time out. `Saves` has the two
setters that ignore their `save`.
`SetIsWhole` and `SetIsRead` are about calls in which every answer came in its own wait
(`onTime`): with a late one the library writes and reads something else, and
nothing in it could tell. A late refusal is the worst: a write's retry leaves factory mode with a
save (bms2.cpp:1524), and half an image is in the EEPROM. `onTime` begins anew with every call, so
that both properties hold of calls answered in time whatever became of those before them.

### Broadcast

`NumericEntity::set()` is `SetValue` and `MarkUpdated`, and `freshNumeric()` is
`Look` and `FindStale` or `FindFresh`, then `Read`: the cores really run at once. `FindStale`
includes a stamp written after `millis()` was read, for which the unsigned
difference says stale. A value is the refresh it is of and whether it fits its
field; a frame remembers, for the properties, which refreshes had ended when it was begun and
whether one ran meanwhile. `Age` makes one refresh's readings stale, for good:
after 49 days of silence they would look fresh again for 15 seconds.

### Radio

`BleScanner` is used by both tasks exactly where the code calls it. The check of
`BleScanner::loop()` and the start it leads to are two steps, and so are the bit
and the stop of `pause()`. A connect attempt that is not there to succeed fails
at some later step; a scan asked to stop ends at some later step.

### LightSlots and LightLink

`bind()` is three steps, since each of its last two stores is what another task
acts on. `GiveUp` assumes what the timers guarantee: four attempts, 1.2 s
apart, take longer than the quarter second after which the main loop commits a
bind. `LightLink` follows one fixture, with `dirty` lowered before what it
stands for is read, and a world that takes the link away, lights the lamp from
another phone while we are not connected, and delays notifications.
`NeverFlashes` is the code's sentence with the exception it needs: a colour and
an "on" requested while a push is between its two writes do light the lamp in
the colour before, and the request that is still dirty corrects it.

### History, Climate and EnvSensors

The host task's `findOrBind()` is `Hear`, `Wipe`, `Rebind`, `Raise`, `Publish`,
then `Merge` and `Heard`; the main loop's walk over the slots is `CheckFlag`
to `LoadName`, sampling is `CheckSample` and `Record`, the day `CheckExtreme`
and `Observe`. The freshness of a slot and its value are read in two steps, as
the code does. A row is *settled* when the main loop has dealt with the last
rebind of its slot; the refinement maps every other row to one about no sensor.

### WallClock and DayLog

`LoopPass` is every 256th pass of `loop()`: `Clock::tick()`, and on every
`SaveGates`-th of these, with the counters of `main.cpp` and `settings.cpp` in
step, the look at the saved clock and, in `LogPass`, `serviceLog()` with
`startDay()`. `TickGap` is the longest the loop takes between two ticks, `setup()`
included. `Begin` is the clock's part of `Settings::begin()`, which may fail to open
NVS; without it nothing is restored and nothing is saved. The setter seeds itself
from the clock, an approximate one too, and `Apply` takes what it shows for what
the person means. The time it really is (`now`) runs on while the power is off and
is read by the properties only. A day's high and low is the set of minutes whose
reading went into it; the rebind of a slot, which starts them over, is in
`EnvSensors`.

### Calendar

`DaysFromCivil`, `CivilFromDays` and `DaysInMonth` are the functions of `clock.cpp` for dates from
1970 on: an epoch is unsigned and `make()` returns nothing earlier, so the branches for
negative eras are never taken. `StepDateField` is the whole function, its clamp and its zeroed
seconds included; it is what `StepField` of `WallClock` presses, and `Make` and `BreakDown` are what the
setter is applied and seeded with. The lengths of an hour and a day are parameters because
the calendar needs nothing of them but that a date has a time of day. An epoch has 32 bits, which last
until February 2106. The setter's years end in 2099, so nothing a person enters needs the
width, and none is kept.

## What the runs show

| run | question | bounds | result |
| --- | --- | --- | --- |
| `alarms` | does the table lose, duplicate or keep an alarm, and does the sound follow it? | 3 ids, 3 slots: one alarm swapped for another before or behind a reader, and a full table | holds, about 244,000 states |
| `bms_link` | does the panel stay with one battery, through retries, lost links, Forget and power cuts? | 2 packs, 2 attempts | holds, about 44,000 states |
| `bms_ghost` | is a lost battery always let go of? (`BleSerialClient.cpp:51-52`) | as above | violated: `bleConnected` set after the link dropped |
| `bms_data` | is what is shown, alarmed about and judged by this pack's own? | 2 links, 2 limits (a scaled one, the discharge one), 2 attempts, 2 replies under way | holds, about 380,000 states |
| `params` | is an image written whole or not at all, and is what was set read back? | 2 calls, 5 registers of which 2 are an image, 2 attempts, 1 late frame | holds, about 596,000 states |
| `serial` | do frames and requests stay whole and on their own link? | 4 frames (start bytes in the data, a wrong sum, a refusal, no data), a ring of 12, 2 links, bytes one by one | holds, about 3.1 million states |
| `broadcast` | is a frame current, complete, and gone when the pack is? | 2 refreshes, a current that may not fit | holds, about 739,000 states |
| `radio` | do two connectors and the scanner share one radio? | 2 fixtures, 2 attempts: one retried, one gives up | holds, about 64,000 states |
| `light_slots` | is what is saved what is bound, and no lamp left out? | 2 lamps, 2 slots, which is enough for two slots with one address | holds, about 12,000 states |
| `light_link` | does the page tell the truth about a lamp? | 2 colours, 2 notifications under way | holds, about 392,000 states |
| `clock` | does a clock nobody marked as a guess tell the truth, does a cut cost more than promised, is today one day, and is every date real and its own? | a counter of 7, a second of 2, saves every 3, days of 4 seconds, set to either end of January, 12 ms in all: a wrap, six seconds, a midnight; the calendar itself every day from 2022 to 2101, every arrow | holds, about 2.2 million states |
| `sensors` | does a row belong to the sensor it names? | 1 slot, 3 sensors (symmetric), a ring of 2: every rebind is an eviction | holds, about 4.5 million states |

`bms_ghost` costs the crew something: the battery page is frozen until a reboot.

### Disagreements

Where the code does not do what it or its documents say, the sentence is stated as a
property. One is a run, `bms_ghost`. The others stand in their modules, and TLC
refutes each when it is added to the configuration named here, as an INVARIANT unless marked; the last column is
what it shows.

| property | configuration | the sentence | what happens |
| --- | --- | --- | --- |
| `BmsLink.SavedSurvives` (PROPERTY) | `MCBmsLink.cfg` | "The address of the last BMS we successfully talked to. Empty until one connects" (settings.h:28-29) | a link lost while its address is handed over empties the caller's string after it was checked, and the empty one is committed over the saved one |
| `Alarms.NextFaultHeard` (PROPERTY) | `MCAlarms.cfg` | "so the next fault still gets your attention" (alarms.h:34-35) | a press whose `any()` scan outlives the last alarm mutes a quiet panel, and the next fault is raised muted; while the link is up the next evaluation heals it |
| `Radio.ConnectsInSilence` | `MCRadio.cfg` | pause, wait for `scanning()` to go false, connect (BleScanner.h:56-59) | the scanner checks its mask, a fixture pauses it and starts to connect, and the scan starts all the same |
| `LightSlots.SlotKeepsLamp` (PROPERTY) | `MCLightSlots.cfg` | "it comes back as the same light" (lighting.cpp:285-286) | a lamp whose slot gave up takes the first free slot, and that slot's saved address is overwritten |
| `BmsSession.UnansweredKeepsFallback` | `MCBmsData.cfg` | "A zero means the BMS did not answer ... so we keep the fallback" (bms_jbd.cpp:137-138) | the discharge getter makes 655.36 A of a timeout (bms2.cpp:1062-1065), and that becomes the limit |
| `Broadcast.CurrentRecovered` | `MCBroadcast.cfg` | power over voltage "recovers the identical number" (ble_broadcast.cpp:113-117) | a refresh between the two readings pairs one's voltage with the other's power |

Bounds. Ids, addresses, lamps and sensors are distinguished only by equality,
so two or three of each reach every way they can collide. Attempt limits are 2
where the code has 4: one failure that retries and one that gives up. `MaxAir`
is 2: one notification ahead of another. The clock's constants keep what matters
of the real ones: a second that does not divide the counter, and a save interval
and a tick gap that fit in it; `MaxTime` ends the run after a wrap. What a person can set the clock to is
bounded by `Arrows` and `Epochs`, to a date at each end of a month; the other arrows and dates are in an
assumption of `MCClock`, where they cost no states. In `bms_data` two links are enough for the last pack's replies to meet the next pack,
two limits for one's reply to be taken for the other's. In `params` the image has
a 0, which is also what a read that timed out leaves, so that a write can be skipped by mistake; a late call
before one in time is among its two, one between a set and a get takes a third, for which there is
the theorem. In `serial` the frames wrap in the ring, and a start byte inside the data is where a
receiver out of step could begin. In `broadcast` a second refresh may run into a
frame built of the first, and may come when the first has gone stale. One slot is enough for `EnvSensors`
because slots share nothing but the choice of the one to evict, which is
modelled in full and, with several slots, beyond TLC's reach.

Fairness. Tasks and the main loop run for ever on their own cores
(`taskLoop()`, `loop()`), so each has weak fairness as a whole, never per
action. A timer that was set becomes due; a scan that was asked to stop, or
whose window is over, ends; a `disconnect()` asked for is reported. Links,
packs, lamps that are off, and people promise nothing, with two exceptions that
are named where they are used: a controller with a link answers a query
(`LightLink`), and a lamp with power advertises again and again
(`LightSlots`, strong fairness, since the host task is not always free).
In `bms_data` each interval of `service()` comes up again and again (strong fairness:
they are looked at once a pass), and a pack is assumed to answer only where a property says so; in `params`
a call runs on until it returns; in `broadcast` the loop runs, a refresh that has begun
ends and time passes, but the pack owes nothing.
Deadlock is checked except where the system may stop: calls and frames
are counted in `params` and `serial`, and in `broadcast` a radio that failed, or a
silent pack, really is the end.

## What is proved

All for every value of the constants, from the named assumptions in the modules.

- `AlarmsProofs`: `TypeCorrect`, `PublishedSlots`, `FaultsShown`, `Refinement`.
  `AlarmsAssumption` says the ids fit the table and are visited once each.
  That published slots are whole needs what the unpublished one holds while it
  waits for `count_++`: a fresh, inactive entry for the id the writer is at, which
  has no other slot. `FaultsShown` strengthens "between evaluations" to "up to the
  id it is at": every id before it in the order is active exactly when this
  evaluation saw its fault, plus where the writer stands inside a raise, an unmute
  or a clear (`clearPrefix` has left every slot behind it inactive). That a full table
  never drops an alarm needs a count: published slots hold distinct ids, so a
  full table already has every id. `Refinement` maps the reader's program
  counter to "an alarm was noticed".
- `BmsLinkProofs`: `NeverTorn`, `LinkTypeCorrect`, `LinkImplementsSettings`,
  `StaysPinned`. `NeverTorn` is proved of `Settings` alone, from an invariant
  that says who owns the buffer: the writer while the flag is down, the reader
  while it is up. It carries over to the composition because every step of
  `BmsLink` is a step of `Settings` or leaves it alone. `StaysPinned` follows an
  address through the five places it can be in.
- `ClockProofs`, of `WallClock`: `ClockTypeCorrect`, `Honest`, `CutsAreCheap`, for every counter
  in which a second and a tick gap, and a save interval and its checks, fit. The
  invariant adds what is left in the counter: the clock plus `Since(lastMs)` is
  exact, a tick moves whole seconds from one to the other, and what the save is
  behind plus that remainder is what has gone by since the save, to a second.
  Counting modulo the counter is reduced once (`OneMore`, `MarkMoved`) to two
  facts: a millisecond more is a millisecond more since, and moving the mark up
  takes that much off.
- `ClockProofs`, of `DayLog`: `DayLogImplementsClock`, so that what is proved of the clock holds
  in the composition (`HonestWithDays`), `DayTypeCorrect`, and `DayStaysWhole`, which is inductive as
  it stands.
- `ClockProofs`, of `Calendar`: `DatesAndSeconds`, `NextDayIs`, `ArrowUndone`, for every day from 1970
  on, any range of years and days of any length, and from them `DatesStayReal` of the composition, where
  the invariant is that the setter, when open, holds a real date. The lemmas
  go part by part, each small enough for the solver: the year of a day of an era
  (`YearFits`, `YearBack`), its last day being a leap day (`LeapDay`, `LeapOfEra`), the month of a
  day of a year (`MonthFits`, `MonthBack`), from which `CivilOfDay` and `DayOfCivil` take
  a day to its date and back; and dividing by units of unknown size (`Split`, `Joined`), from which
  `BreakDownReal` and `MakeBack` do the same for seconds. `NextDayIs` compares the arithmetic with the
  table of month lengths at the end of a month, a February and a year (`MonthOn`, `YearOn`).
- `BroadcastProofs`: `BroadcastTypeCorrect`, `Current`, `FreshSent`, for every number of
  refreshes and any set of readings that may not fit. The invariant of `Current`
  says how far behind a refresh a value and its stamp may be (those before the
  reading it is at are new, those after are of the refresh before, and a stamp never outruns its value), and
  that whatever was found fresh was stamped by a refresh that its value is no older
  than. `FreshSent` rests on the length of the frame being a function of which readings it has, so
  that the largest fits both the payload and the advertisement.
- `BmsSessionProofs`: `SessionTypeCorrect`, `PublishesItsOwn`, `LimitsInPlace`, for every
  number of attempts, limits, links and replies under way. What `refresh()` publishes
  is this link's, since an attach asks before anything is shown and a query forgets
  what was read (`OwnInfo`). `PromptLimitsAreOwn` speaks of the state all limits are
  read in and is far from inductive: on a link that is answered in time the one reply
  under way is to what is asked, and nothing is refused (`OneReply`), so the pack never
  leaves factory mode; if the library is right about that in the end it was right all
  along (`Trusted`), and the query before the reads has forgiven what failed earlier, so that
  each limit read so far is in its place (`LimitsSoFar`).
- `JbdProofs`, of `JbdParams`: `ParamsTypeCorrect`, `ImageIsWhole`, `SetIsReadBack`,
  for every image, set of registers, number of attempts and of late frames. All rest on what an
  exchange comes to when no frame is left over from another: the wait ends
  with its own answer or with none (`OneAnswer`, `AskInTime`), so that no refusal is ever acted on
  (`Unrefused`). `ImageSoFar` follows an image register by register: until something fails,
  those behind are as they should be and those ahead are still as they were
  read, which is why one that need not be written may be passed over; and the EEPROM is left alone until the one
  commit. `Kept` says the pack holds what each register was last set to in time, whatever calls
went wrong since (one only ever touches its own register),
  `Returned` that a getter's value is of the register as it is, and `GetUndoesSet` that the
  conversions undo each other for every value of `Undone` (`PercentKept`: for 0x14, but for a tenth).
- `JbdProofs`, of `JbdWire`: `WireTypeCorrect`, `EveryFrameHandled`,
  `StartedLinkInOrder`, for every size of the ring, number of links, and frames the pack may
  send (`WireAssumption`: bytes, a 16-bit sum, at most 64 of data). The argument goes along the
  line. The ring never fills, and holds a run of this link's bytes without a gap: each
  cell's byte is the one its `origin` says, and the next cell's follows it (`RingHolds`). A `pop()` that
  has loaded a byte while the link is up holds the oldest, and no more is read than there is
  (`Reads`), so the `clear()` under a `pop()` does harm only once the link is gone. A link
  the library has not been started on has brought nothing yet (`Unstarted`), because the pack only answers; an
  attach therefore starts from an empty ring and a receiver that waits. From then on the
  receiver is exactly where the next byte to be read belongs in its frame, and the
  frames before that one, the sound ones and no others, have been handled (`Follows`). That one
  byte takes the receiver one place on is `Parses`, proved for each part of a frame; what a frame sums to
  stays opaque, since the receiver only compares it.
- `JbdProofs`, of `JbdWire`: `WholeRequests`, for every length of a request. What is
  written of one is in the transmit buffer as long as its link is up, and no link comes up
  while one is being written, since the same task connects (`RequestSoFar`).
- `LightingProofs`, of `Radio`: `RadioTypeCorrect`, `LightBitHeld`, `BmsHasSilence`, for every number of
  fixtures and of attempts. Both safety invariants are inductive as they stand:
  a bit of the mask has one owner, so that no `resume()` takes it from another, and
  only the task that runs `BleScanner::loop()` starts a scan. The light's connect has
  no such theorem, since the code breaks it (`ConnectsInSilence`, Disagreements).
- `LightingProofs`, of `LightLink`: `FixtureTypeCorrect`, `PageTellsTheTruth`,
  `ColourBeforeLight`, for every set of colours and number of notifications
  under way. `QuietIsTrue` speaks of a link on which nothing is under way, so the invariant says of
  a link on which something is what the page will say once it has come: the last frame
  in the air, or the answer still owed, tells of the switch as the lamp has it
  (`SwitchTold`) and of the colour (`ColourTold`), and once all is heard, the
  light is called ours exactly when it matches what was asked for (`Compared`). `ColourBeforeLight` is an action property: between
  the two writes of a push the lamp has the colour asked for (`ColourFirst`).
- `LightingProofs`, of `LightSlots`: `SlotsTypeCorrect`, `SlotIsSaved`, for every number of slots and
  set of lamps. `SavedIsBound` is not inductive alone: `setLightMac()` skips the write
  when its copy has the address already, which is right only because copy and NVS are the same
  whenever NVS is open (`CopyIsSaved`). With that, a bind makes its slot busy before
  anything differs, and the commit that ends it stores the address the slot has.
- `EnvSensorsProofs`: `RingIsWindow`, `SensorsTypeCorrect`, `ExtremesOwned`,
  `NamesFollowed`, `SlotsImplementClimate`, for every number of slots, set of sensors and
  capacity of the ring, where TLC has one slot. The invariant has three parts.
  What the host task keeps: every slot in use has an address and no two have one, and each reading
  is of the slot's address or nobody's (`Hosting`, `Addresses`). What the main loop has in
  hand: if the row is still settled, the reading found fresh, the name looked up and the name given are
  its sensor's (`Fresh`, `Load`, `Write`), each of which a rebind between two steps
  would break if it did not unsettle the row first. And what a settled row shows: its name is the
  one in NVS unless the loop is on its way to it (`Named`), its day its sensor's. The
  refinement goes step by step: `Wipe` vacates the row of `Climate`, `LowerFlag` leaves it
  vacant, `ClearPast` occupies it, `Record` samples it, all else stutters.
  `RingIsWindow`: recording into the ring is appending to the window of
  the last `KSamples` samples, before it wraps, when it wraps and after.

Only model-checked: liveness everywhere (fairness and ENABLED are beyond the
proof system), and `OwnFramesInOrder` of `JbdWire` on a link the library was not
started on, one that came and went between two looks of `service()`. On every other link it is
proved (`StartedLinkInOrder`). On these the receiver may start in the middle of a frame, and for
arbitrary frames the sentence is not even true: what an earlier link left in the receiver and the bytes of
this one can be chosen to make a frame with a right sum between them. The run shows it for its frames.

No run lists a type invariant: each module's is proved instead, for every value of the constants
(`LinkTypeCorrect`, which bounds the retries of the battery link, `WireTypeCorrect` and so on).

## What is not modelled

- Values: voltages, temperatures, formatting, thresholds, quantisation.
- Of the protocol library: the MOSFET control (0xE1), the pack's name, the counters of
  faults and errors, the range checks of the calibrations, and everything printed.
- What an alarm compares (`evaluateAlarms()`), and the cell table of the page.
- Bytes of the advertisements of sensors and lights, which are decoded by pure functions.
- The wrap of the counter anywhere but in `WallClock`.
- The 32-bit end of the epoch in 2106, and the text of a date or a duration.
- The day files: compiled out on this board (`decisions/0014`).
- Drawing, navigation, drivers, the Android companion.
- The advertised name of a sensor, and a reboot in `EnvSensors`: slots are not
  saved, so a reboot is its initial state.

## Plan

In the order of what matters to the system. Done: the first seven.

1. `Alarms` with `AlarmPanel`: the lock-free table.
2. `Settings` and `BmsLink`: the battery, its handover and the power.
3. `BleScanner` and `Radio`: the radio everybody shares.
4. `LightSlots` and `LightLink`: fixtures.
5. `History`, `Climate` and `EnvSensors`: sensors.
6. `JbdWire`, `JbdRegisters`, `JbdParams`, `BmsSession` and `Broadcast`: from the pack's
   bytes to the phone.
7. `Calendar`, `WallClock` and `DayLog`: the clock over wraps, cuts and people, and its dates.
   Left: the retry gap of a timer across the wrap.
8. The screen: the timeout, and the tap that wakes without clicking.
9. Day files and codecs as functions against references.
10. Proofs: every safety invariant and action property the runs check has a theorem but
    `OwnFramesInOrder` on links that go unnoticed. Left: that the slot that is evicted is the one quiet
    longest; that `BmsSession` sees of the library what `JbdParams` does; which frames cannot be
    mistaken by a receiver that starts in the middle of one.
