------------------------------- MODULE Alarms -------------------------------
(***************************************************************************)
(* The alarm table (core/alarms.{h,cpp}) between the BMS task, its only    *)
(* writer (evaluateAlarms and publishOffline of integrations/bms_jbd.cpp), *)
(* and the main loop, which reads it and silences it (serviceButton and    *)
(* serviceAlarmOutput of main.cpp, the banner tap of ui.cpp).              *)
(*                                                                         *)
(* Nothing locks the table.  One action is one access another core can see *)
(* between: a store of the writer, or one slot of a reader's scan.  The    *)
(* stores raise() makes to a published slot have no barrier between them,  *)
(* so they land in either order.                                           *)
(***************************************************************************)
EXTENDS Naturals

CONSTANTS
  Ids,        \* the ids evaluateAlarms() raises and clears
  N,          \* how many there are
  Order,      \* the order evaluateAlarms() visits them in
  SevOf,      \* the severity each is raised with
  KMax,       \* Alarms::kMax, the slots of the table
  NoId        \* the null id of a slot nobody has filled

Info     == 0
Warning  == 1
Critical == 2
Severity == Info .. Critical

(* The code has 11 ids for 16 slots; ids are literals, one slot each.      *)
ASSUME AlarmsAssumption ==
  /\ N \in Nat \ {0} /\ KMax \in Nat /\ N <= KMax
  /\ NoId \notin Ids
  /\ Order \in [1 .. N -> Ids]
  /\ \A id \in Ids : \E k \in 1 .. N : Order[k] = id
  /\ \A j, k \in 1 .. N : Order[j] = Order[k] => j = k
  /\ SevOf \in [Ids -> {Warning, Critical}]

VARIABLES
  table,      \* table_: the slots
  count,      \* count_: how many of them are published
  silenced,   \* silenced_
  attached,   \* the BMS task holds a link, so it evaluates (bmsAttached_)
  bpc,        \* where the BMS task is
  bad,        \* the faults the running (or last) evaluation saw
  step,       \* the id it is at: Order[step]
  at,         \* the slot it is writing
  todo,       \* the stores of raise() that have not landed
  mpc,        \* where the main loop is
  cursor,     \* the slot its scan is at
  best,       \* the worst severity the scan has met
  sounding    \* serviceAlarmOutput()'s last decision

tableVars == << table, count >>
bmsVars   == << attached, bpc, bad, step, at, todo >>
mainVars  == << mpc, cursor, best, sounding >>
vars      == << tableVars, silenced, bmsVars, mainVars >>

Slots     == 1 .. KMax
Published == 1 .. count
Fresh(id) == [id |-> id, sev |-> Info, active |-> FALSE]

ActiveIds == {table[i].id : i \in {j \in Published : table[j].active}}
AnyActive == \E i \in Published : table[i].active
SlotOf(id) == {i \in Published : table[i].id = id}

Init ==
  /\ table = [i \in Slots |-> Fresh(NoId)]
  /\ count = 0
  /\ silenced = FALSE
  /\ attached = FALSE
  /\ bpc = "idle" /\ bad = {} /\ step = 1 /\ at = 1 /\ todo = {}
  /\ mpc = "button" /\ cursor = 1 /\ best = Info /\ sounding = FALSE

-----------------------------------------------------------------------------
(* The BMS task. *)

(* service(): the link came up, or went down and publishOffline() drops    *)
(* every "bms." alarm - which is every id there is.                        *)
Attach ==
  /\ bpc = "idle" /\ ~attached
  /\ attached' = TRUE
  /\ UNCHANGED << tableVars, silenced, bpc, bad, step, at, todo, mainVars >>

Detach ==
  /\ bpc = "idle" /\ attached
  /\ attached' = FALSE
  /\ bad' = {}
  /\ bpc' = "drop" /\ at' = 1
  /\ UNCHANGED << tableVars, silenced, step, todo, mainVars >>

(* refresh() then evaluateAlarms(): any set of faults may be present. *)
Evaluate ==
  /\ bpc = "idle" /\ attached
  /\ \E faults \in SUBSET Ids : bad' = faults
  /\ step' = 1
  /\ bpc' = "next"
  /\ UNCHANGED << tableVars, silenced, attached, at, todo, mainVars >>

(* On to the next id of evaluateAlarms(), or out of it. *)
Advance ==
  IF step = N THEN bpc' = "idle" /\ UNCHANGED step
              ELSE bpc' = "next" /\ step' = step + 1

TableFull == count >= KMax

FillSlot_CountFirst(id) ==
  /\ count' = count + 1
  /\ bpc' = "publish"
  /\ UNCHANGED << table, step, at, todo >>

(* findOrCreate(): fill the slot past the published ones. *)
FillSlot(id) ==
  /\ table' = [table EXCEPT ![count + 1] = Fresh(id)]
  /\ bpc' = "publish"
  /\ UNCHANGED << count, step, at, todo >>

(* raise(): find the id's slot, or make one; a full table drops the alarm. *)
RaiseFind ==
  /\ bpc = "next" /\ Order[step] \in bad
  /\ \/ \E i \in SlotOf(Order[step]) :
          /\ at' = i
          /\ todo' = {"sev", "active"}
          /\ bpc' = "store"
          /\ UNCHANGED << table, count, step >>
     \/ /\ SlotOf(Order[step]) = {}
        /\ IF TableFull THEN Advance /\ UNCHANGED << table, count, at, todo >>
                        ELSE FillSlot(Order[step])
  /\ UNCHANGED << silenced, attached, bad, mainVars >>

(* findOrCreate(), past the barrier: count_++ hands the slot to readers. *)
Publish ==
  /\ bpc = "publish"
  /\ count' = count + 1
  /\ at' = count + 1
  /\ todo' = {"sev", "active"}
  /\ bpc' = "store"
  /\ UNCHANGED << table, silenced, attached, bad, step, mainVars >>

(* raise(): one of its stores to the slot lands. *)
Store(f) ==
  /\ bpc = "store" /\ f \in todo
  /\ table' = [table EXCEPT ![at] =
       [id     |-> @.id,
        sev    |-> IF f = "sev" THEN SevOf[@.id] ELSE @.sev,
        active |-> @.active \/ f = "active"]]
  /\ todo' = todo \ {f}
  /\ IF todo = {f} THEN Advance ELSE UNCHANGED << bpc, step >>
  /\ UNCHANGED << count, silenced, attached, bad, at, mainVars >>

ClearOne_OnlyIfActive ==
  /\ bpc = "next" /\ Order[step] \notin bad
  /\ IF Order[step] \in ActiveIds
     THEN /\ table' = [i \in Slots |->
               IF i \in SlotOf(Order[step]) THEN [table[i] EXCEPT !.active = FALSE]
                                            ELSE table[i]]
          /\ bpc' = "unmute" /\ UNCHANGED step
     ELSE Advance /\ UNCHANGED table
  /\ UNCHANGED << count, silenced, attached, bad, at, todo, mainVars >>

(* clear(): the id's slot, if it has one, goes inactive. *)
ClearOne ==
  /\ bpc = "next" /\ Order[step] \notin bad
  /\ table' = [i \in Slots |->
       IF i \in SlotOf(Order[step]) THEN [table[i] EXCEPT !.active = FALSE]
                                    ELSE table[i]]
  /\ bpc' = "unmute"
  /\ UNCHANGED << count, silenced, attached, bad, step, at, todo, mainVars >>

LiftMute_Always == silenced' = FALSE

(* The last line of clear() and clearPrefix(): if (!any()) silenced_ = false *)
LiftMute == silenced' = (silenced /\ AnyActive)

Unmute ==
  /\ bpc = "unmute"
  /\ LiftMute
  /\ Advance
  /\ UNCHANGED << tableVars, attached, bad, at, todo, mainVars >>

(* clearPrefix(): one slot after the other, then the mute. *)
DropSlot ==
  /\ bpc = "drop" /\ at <= count
  /\ table' = [table EXCEPT ![at].active = FALSE]
  /\ at' = at + 1
  /\ UNCHANGED << count, silenced, attached, bpc, bad, step, todo, mainVars >>

DropDone_OneShort ==
  /\ bpc = "drop" /\ at >= count
  /\ LiftMute
  /\ bpc' = "idle"
  /\ UNCHANGED << tableVars, attached, bad, step, at, todo, mainVars >>

DropDone ==
  /\ bpc = "drop" /\ at > count
  /\ LiftMute
  /\ bpc' = "idle"
  /\ UNCHANGED << tableVars, attached, bad, step, at, todo, mainVars >>

BmsWork ==
  \/ Evaluate
  \/ RaiseFind
  \/ Publish
  \/ \E f \in {"sev", "active"} : Store(f)
  \/ ClearOne
  \/ Unmute
  \/ DropSlot
  \/ DropDone

-----------------------------------------------------------------------------
(* The main loop. *)

(* serviceButton() / headerEventCb(): a press starts the any() scan. *)
Button(pressed) ==
  /\ mpc = "button"
  /\ mpc' = IF pressed THEN "scan" ELSE "sound"
  /\ cursor' = 1
  /\ UNCHANGED << tableVars, silenced, bmsVars, best, sounding >>

(* any(), one slot at a time. *)
ScanAny ==
  /\ mpc = "scan"
  /\ IF cursor > count THEN mpc' = "sound" /\ UNCHANGED cursor
     ELSE IF table[cursor].active THEN mpc' = "silence" /\ UNCHANGED cursor
     ELSE cursor' = cursor + 1 /\ UNCHANGED mpc
  /\ UNCHANGED << tableVars, silenced, bmsVars, best, sounding >>

(* ... and silence(), whatever the table holds by now. *)
Silence ==
  /\ mpc = "silence"
  /\ silenced' = TRUE
  /\ mpc' = "sound"
  /\ UNCHANGED << tableVars, bmsVars, cursor, best, sounding >>

(* shouldSound(): silenced_ first ... *)
SoundMuted ==
  /\ mpc = "sound"
  /\ IF silenced THEN sounding' = FALSE /\ mpc' = "button"
                 ELSE mpc' = "worst" /\ UNCHANGED sounding
  /\ cursor' = 1 /\ best' = Info
  /\ UNCHANGED << tableVars, silenced, bmsVars >>

Audible_CriticalOnly(sev) == sev > Warning

Audible(sev) == sev >= Warning

(* ... then worstAlarm(), one slot at a time, and the output follows. *)
SoundWorst ==
  /\ mpc = "worst"
  /\ IF cursor > count
     THEN /\ sounding' = Audible(best)
          /\ mpc' = "button"
          /\ UNCHANGED << cursor, best >>
     ELSE /\ best' = IF table[cursor].active /\ table[cursor].sev > best
                     THEN table[cursor].sev ELSE best
          /\ cursor' = cursor + 1
          /\ UNCHANGED << mpc, sounding >>
  /\ UNCHANGED << tableVars, silenced, bmsVars >>

MainWork ==
  \/ \E pressed \in BOOLEAN : Button(pressed)
  \/ ScanAny
  \/ Silence
  \/ SoundMuted
  \/ SoundWorst

-----------------------------------------------------------------------------
Next == Attach \/ Detach \/ BmsWork \/ MainWork

(* Both loops run for ever; the link and the crew do as they like. *)
Fairness == WF_vars(BmsWork) /\ WF_vars(MainWork)

Spec     == Init /\ [][Next]_vars
FairSpec == Spec /\ Fairness

-----------------------------------------------------------------------------
TypeOK ==
  /\ table \in [Slots -> [id : Ids \cup {NoId}, sev : Severity, active : BOOLEAN]]
  /\ count \in 0 .. KMax
  /\ silenced \in BOOLEAN
  /\ attached \in BOOLEAN
  /\ bpc \in {"idle", "next", "publish", "store", "unmute", "drop"}
  /\ bad \in SUBSET Ids
  /\ step \in 1 .. N
  /\ at \in 1 .. KMax + 1
  /\ todo \in SUBSET {"sev", "active"}
  /\ mpc \in {"button", "scan", "silence", "sound", "worst"}
  /\ cursor \in 1 .. KMax + 1
  /\ best \in Severity
  /\ sounding \in BOOLEAN

(***************************************************************************)
(* A reader never reaches a slot whose id is not there yet, and no id is   *)
(* ever given a second slot - without which clear() would leave the copy   *)
(* it does not find active for ever (findOrCreate, alarms.cpp:11-31).      *)
(***************************************************************************)
SlotsPublishedWhole ==
  /\ \A i \in Published : table[i].id # NoId
  /\ \A i, j \in Published : table[i].id = table[j].id => i = j

(***************************************************************************)
(* Between evaluations the table says exactly what the last one saw: no    *)
(* fault lost to a half-done raise, none left over from a link that went   *)
(* down (evaluateAlarms and publishOffline, bms_jbd.cpp).                  *)
(***************************************************************************)
PanelMatchesFaults == bpc = "idle" => ActiveIds = bad

(***************************************************************************)
(* The table implements the abstract panel: alarms come and go one at a    *)
(* time, only an alarm seen active can be silenced, and the mute survives  *)
(* until every alarm is gone (alarms.h:34-35).                             *)
(***************************************************************************)
Panel == INSTANCE AlarmPanel
           WITH active <- ActiveIds, noticed <- (mpc = "silence"), muted <- silenced

ImplementsPanel == Panel!Spec

(***************************************************************************)
(* An alarm that stays up, unsilenced, ends up sounding for good; and with *)
(* every alarm gone, or silenced, the output ends up quiet for good        *)
(* (shouldSound and serviceAlarmOutput).                                   *)
(***************************************************************************)
SoundSettles ==
  /\ \A i \in Slots :
       <>[](i \in Published /\ table[i].active /\ ~silenced) => <>[]sounding
  /\ <>[](silenced \/ ActiveIds = {}) => <>[]~sounding

(***************************************************************************)
(* A press that lands after the last alarm went away does not mute the     *)
(* panel for ever: while the link is up and nothing is wrong, clear() of   *)
(* an alarm that was not even active lifts the mute (alarms.cpp:53).       *)
(***************************************************************************)
QuietUnmutes == <>[](attached /\ bad = {}) => <>[]~silenced

(***************************************************************************)
(* "Auto-unmutes once everything clears, so the next fault still gets your *)
(* attention" (alarms.h:34-35): the first alarm after a quiet panel is     *)
(* never raised muted.                                                     *)
(***************************************************************************)
NextFaultHeard ==
  [][ActiveIds = {} /\ ActiveIds' # {} => ~silenced']_vars

=============================================================================
