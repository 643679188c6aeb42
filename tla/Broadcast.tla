------------------------------ MODULE Broadcast ------------------------------
(***************************************************************************)
(* The phone broadcast: what the BMS task writes into the battery's        *)
(* readings on one core, and what the loop's publish() makes of them on    *)
(* the other, one reading at a time: a BTHome frame, in a legacy           *)
(* advertisement of 31 bytes.                                              *)
(*                                                                         *)
(* A value is the number of the refresh it came from and whether it fits   *)
(* its field; the value of the packet id is left out.  Time is the step    *)
(* Age, which makes a reading stale, without the wrap of millis().         *)
(***************************************************************************)
EXTENDS Integers, Sequences, SequencesExt

CONSTANTS
  MaxRefreshes,    \* refreshes before the pack falls silent for good
  TooWide          \* readings whose values may not fit their field

(* The readings in the order refresh() sets them. *)
Refreshed == << "voltage", "current", "power", "soc", "temperature" >>

Readings == ToSet(Refreshed)

ASSUME BroadcastAssumption ==
  MaxRefreshes \in Nat /\ TooWide \subseteq Readings

VARIABLES
  value,           \* value_ of each reading: its refresh, and whether it fits
  stamp,           \* updatedMs_: the refresh that last stamped it, 0 for never
  aged,            \* refreshes up to this are CFG_STALE_AFTER_MS ago
  refreshes,       \* how many refresh() there have been, this one included
  step,            \* which reading it sets, 0 between two
  stamping,        \* its value is set, its stamp not yet
  wide,            \* the readings too wide this time
  mode,            \* "boot", then advertising_ or what setLink(Fault) says
  fields,          \* fields_
  link,            \* setLink()
  pc, at,          \* what publish() is doing, with which reading
  saw,             \* the stamp stale() has looked at
  builder,         \* builder_
  since, quiet,    \* history: refreshes before it began, none while it runs
  due,             \* history: what it found fresh, and fitting
  air              \* the advertising data the controller has

entities == << value, stamp, aged >>
bms      == << refreshes, step, stamping, wide >>
panel    == << mode, fields, link >>
build    == << pc, at, saw, builder, since, quiet, due >>
vars     == << entities, bms, panel, build, air >>

-----------------------------------------------------------------------------
(* BtHomeBuilder. *)

(* The readings in the order publish() adds them. *)
Added_CurrentFirst == << "soc", "temperature", "voltage", "current", "power" >>
Added == << "soc", "temperature", "voltage", "power", "current" >>

ObjectId == [soc |-> 1, temperature |-> 2, voltage |-> 12, power |-> 92,
             current |-> 93]

Bytes == [soc |-> 1, temperature |-> 2, voltage |-> 2, power |-> 4,
          current |-> 2]

kMaxPayload == 22

(* reset() and addPacketId(): the info byte, and object 0 of one byte. *)
Reset == [len |-> 3, lastId |-> 0, put |-> << >>]

Room(b, f) == /\ ObjectId[f] > b.lastId
              /\ b.len + 1 + Bytes[f] <= kMaxPayload

(* An add of a value that fits its field; one that does not adds nothing. *)
Put(b, f, v, vouched) ==
  IF v.fits /\ Room(b, f)
  THEN [len |-> b.len + 1 + Bytes[f], lastId |-> ObjectId[f],
        put |-> Append(b.put, [field |-> f, of |-> v.of, vouched |-> vouched])]
  ELSE b

(* setAdvertisementData(): the name "CC1", and the service data with its  *)
(* UUID, each behind a length and a type.                                  *)
Accepted(b) == 2 + 3 + 2 + 2 + b.len <= 31

-----------------------------------------------------------------------------

Unset == [of |-> 0, fits |-> TRUE]

Init ==
  /\ value = [f \in Readings |-> Unset] /\ stamp = [f \in Readings |-> 0]
  /\ aged = 0
  /\ refreshes = 0 /\ step = 0 /\ stamping = FALSE /\ wide = {}
  /\ mode = "boot" /\ fields = 0 /\ link = "Offline"
  /\ pc = "idle" /\ at = 0 /\ saw = 0 /\ builder = Reset
  /\ since = 0 /\ quiet = TRUE /\ due = {}
  /\ air = [put |-> << >>, since |-> 0, quiet |-> TRUE]

-----------------------------------------------------------------------------
(* The BMS task: refresh(), with cells in the pack's answer. *)

StartRefresh ==
  /\ step = 0 /\ refreshes < MaxRefreshes
  /\ refreshes' = refreshes + 1 /\ step' = 1 /\ wide' \in SUBSET TooWide
  /\ quiet' = (pc \in {"idle", "start"})
  /\ UNCHANGED << entities, stamping, panel, pc, at, saw, builder, since, due, air >>

(* set(): the value, *)
SetValue_KeepsWide ==
  /\ step > 0 /\ ~ stamping
  /\ LET f == Refreshed[step] IN
       value' = IF f \in wide THEN value
                ELSE [value EXCEPT ![f] = [of |-> refreshes, fits |-> TRUE]]
  /\ stamping' = TRUE
  /\ UNCHANGED << stamp, aged, refreshes, step, wide, panel, build, air >>

SetValue ==
  /\ step > 0 /\ ~ stamping
  /\ LET f == Refreshed[step] IN
       value' = [value EXCEPT ![f] = [of |-> refreshes, fits |-> f \notin wide]]
  /\ stamping' = TRUE
  /\ UNCHANGED << stamp, aged, refreshes, step, wide, panel, build, air >>

(* then markUpdated(). *)
MarkUpdated ==
  /\ step > 0 /\ stamping
  /\ stamp' = [stamp EXCEPT ![Refreshed[step]] = refreshes]
  /\ stamping' = FALSE
  /\ IF step = Len(Refreshed) THEN step' = 0 /\ wide' = {}
                              ELSE step' = step + 1 /\ UNCHANGED wide
  /\ UNCHANGED << value, aged, refreshes, panel, build, air >>

(* The refreshes that have ended. *)
Done == IF step = 0 THEN refreshes ELSE refreshes - 1

(* Fifteen seconds after it ran, what is left of a refresh goes stale: the *)
(* stamps of one are microseconds apart.                                   *)
Age ==
  /\ aged < Done
  /\ aged' = aged + 1
  /\ UNCHANGED << value, stamp, bms, panel, build, air >>

-----------------------------------------------------------------------------
(* publish(). *)

(* No NimBLE, or no advertiser. *)
NoRadio ==
  /\ mode = "boot" /\ pc = "idle"
  /\ mode' = "fault" /\ link' = "Fault"
  /\ UNCHANGED << entities, bms, fields, build, air >>

(* In begin(), and then every CFG_BLE_BROADCAST_REFRESH_MS. *)
StartPublish ==
  /\ mode # "fault" /\ pc = "idle"
  /\ pc' = "find" /\ at' = 1 /\ builder' = Reset
  /\ since' = Done /\ quiet' = (step = 0) /\ due' = {}
  /\ UNCHANGED << entities, bms, panel, saw, air >>

Field == Added[at]

Onward == /\ saw' = 0
          /\ IF at = Len(Added) THEN pc' = "send" /\ UNCHANGED at
                                ELSE pc' = "find" /\ at' = at + 1

(* freshNumeric(): stale() asks everUpdated() and the time, *)
Look ==
  /\ pc = "find"
  /\ IF stamp[Field] = 0 THEN Onward
                         ELSE pc' = "judge" /\ saw' = stamp[Field] /\ UNCHANGED at
  /\ UNCHANGED << entities, bms, panel, builder, since, quiet, due, air >>

(* and subtracts updatedMs_, which may have passed that time since: the    *)
(* unsigned difference then says stale.                                    *)
FindStale ==
  /\ pc = "judge"
  /\ stamp[Field] <= aged \/ stamp[Field] # saw
  /\ Onward
  /\ UNCHANGED << entities, bms, panel, builder, since, quiet, due, air >>

FindFresh ==
  /\ pc = "judge"
  /\ stamp[Field] > aged
  /\ pc' = "read" /\ saw' = stamp[Field]
  /\ UNCHANGED << entities, bms, panel, at, builder, since, quiet, due, air >>

(* value(), and the add. *)
Read ==
  /\ pc = "read"
  /\ builder' = Put(builder, Field, value[Field], saw)
  /\ due' = IF value[Field].fits THEN due \union {Field} ELSE due
  /\ Onward
  /\ UNCHANGED << entities, bms, panel, since, quiet, air >>

LinkOf(count) == IF count > 0 THEN "Online" ELSE "Searching"

(* The count, the link in loop() that changes with it, and publish() ends. *)
Ends(count) ==
  /\ fields' = count
  /\ link' = IF mode = "on" /\ count # fields THEN LinkOf(count) ELSE link
  /\ pc' = IF mode = "on" THEN "idle" ELSE "start"
  /\ at' = 0 /\ builder' = Reset /\ since' = 0 /\ quiet' = TRUE
  /\ UNCHANGED << entities, bms, mode, saw, due >>

Frame == [put |-> builder.put, since |-> since, quiet |-> quiet]

Sent == IF Accepted(builder) THEN Len(builder.put) ELSE 0

Send_KeepsLast ==
  /\ pc = "send"
  /\ air' = IF Sent > 0 THEN Frame ELSE air
  /\ Ends(Sent)

(* The frame goes to the controller or, too long for it, nowhere. *)
Send ==
  /\ pc = "send"
  /\ air' = IF Accepted(builder) THEN Frame ELSE air
  /\ Ends(Sent)

(* The rest of begin(). *)
Start ==
  /\ pc = "start"
  /\ mode' = "on" /\ link' = LinkOf(fields) /\ pc' = "idle"
  /\ UNCHANGED << entities, bms, fields, at, saw, builder, since, quiet, due, air >>

StartRefused ==
  /\ pc = "start"
  /\ mode' = "fault" /\ link' = "Fault" /\ pc' = "idle"
  /\ UNCHANGED << entities, bms, fields, at, saw, builder, since, quiet, due, air >>

-----------------------------------------------------------------------------

BmsTask == StartRefresh \/ SetValue \/ MarkUpdated

Publish == StartPublish \/ Look \/ FindStale \/ FindFresh \/ Read \/ Send

Begin == NoRadio \/ Start \/ StartRefused

Next == BmsTask \/ Publish \/ Begin \/ Age

(* The loop runs, a refresh that has begun ends, and time passes; nothing  *)
(* says that the pack answers again.                                       *)
Fairness == /\ WF_vars(Publish) /\ WF_vars(Start \/ StartRefused)
            /\ WF_vars(SetValue \/ MarkUpdated)
            /\ WF_vars(Age)

Spec == Init /\ [][Next]_vars /\ Fairness

-----------------------------------------------------------------------------

(* Type correctness. *)
TypeOK ==
  /\ value \in [Readings -> [of : 0 .. MaxRefreshes, fits : BOOLEAN]]
  /\ stamp \in [Readings -> 0 .. MaxRefreshes] /\ aged \in 0 .. MaxRefreshes
  /\ refreshes \in 0 .. MaxRefreshes /\ step \in 0 .. 5
  /\ stamping \in BOOLEAN /\ wide \subseteq Readings
  /\ mode \in {"boot", "on", "fault"} /\ fields \in 0 .. 5
  /\ link \in {"Offline", "Searching", "Online", "Fault"}
  /\ pc \in {"idle", "find", "judge", "read", "send", "start"} /\ at \in 0 .. 5
  /\ saw \in 0 .. MaxRefreshes
  /\ since \in 0 .. MaxRefreshes /\ quiet \in BOOLEAN /\ due \subseteq Readings

(* A reading on the air is at least as new as the stamp publish() found    *)
(* fresh for it, and when no refresh ran meanwhile every reading is of the *)
(* last one, so that power over voltage is the current: set() stores the   *)
(* value before the stamp (entity.cpp:29-32), freshNumeric() asks in the   *)
(* opposite order.                                                         *)
FrameIsCurrent ==
  \A e \in ToSet(air.put) : /\ e.vouched <= e.of
                            /\ air.since <= e.of
                            /\ air.quiet => e.of = air.since

(* Every reading that publish() found fresh and that fits its field is on  *)
(* the air once it has ended: ids ascend, the payload has room and the     *)
(* controller takes the advertisement (ICD.md:105-125).                    *)
FreshIsSent ==
  mode = "on" /\ pc = "idle" =>
    /\ {e.field : e \in ToSet(air.put)} = due
    /\ fields = Len(air.put)

(* Once the pack is silent for good the phones are told of no reading, and *)
(* the panel does not say Online (ICD.md:78-82, ble_broadcast.cpp:178-184).*)
SilenceClears ==
  <>[] (mode = "on" => air.put = << >> /\ link = "Searching")

(* "a reader that wants current at any magnitude divides power by voltage, *)
(* which recovers the identical number" (ble_broadcast.cpp:113-117).  It   *)
(* does not hold of a frame built while refresh() runs on the other core.  *)
CurrentRecovered ==
  \A e, g \in ToSet(air.put) :
    e.field = "voltage" /\ g.field = "power" => e.of = g.of

=============================================================================
