------------------------------ MODULE Settings ------------------------------
(***************************************************************************)
(* The saved BMS address (core/settings.{h,cpp}): a task that may not      *)
(* write flash leaves an address in a handover slot, the main loop picks   *)
(* it up and commits it, and a person can make the board forget it.        *)
(*                                                                         *)
(* An address is copied a character at a time with nothing locked, so it   *)
(* has two halves here, and an address is whole when they agree.  The      *)
(* power can go at any moment; flash is all that outlives it.              *)
(***************************************************************************)

CONSTANTS
  Macs,       \* the addresses a BMS can have
  NoMac       \* the empty string

ASSUME SettingsAssumption == NoMac \notin Macs

VARIABLES
  up,         \* the board has power and begin() has run
  open,       \* open_: this boot could open NVS
  flash,      \* what NVS holds under "bms_mac"
  bmsMac,     \* bmsMac_: the main loop's copy
  pending,    \* pendingMac_
  buf,        \* pendingMacBuf_
  wpc,        \* where the task is in rememberBmsMacFromTask()
  handed,     \* the address it was called with
  lpc,        \* where the main loop is in Settings::loop()
  got         \* its local copy of the buffer

writerVars == << wpc, handed >>
loopVars   == << lpc, got >>
savedVars  == << open, flash, bmsMac >>
vars == << up, savedVars, pending, buf, writerVars, loopVars >>

MacOrNone == Macs \cup {NoMac}
Address   == [front : MacOrNone, back : MacOrNone]
Whole(m)  == [front |-> m, back |-> m]
Empty     == Whole(NoMac)

Init ==
  /\ up = FALSE /\ open = FALSE
  /\ flash = Empty /\ bmsMac = Empty
  /\ pending = FALSE /\ buf = Empty
  /\ wpc = "idle" /\ handed = NoMac
  /\ lpc = "poll" /\ got = Empty

-----------------------------------------------------------------------------
(* Power. *)

(* begin(): take the address from NVS; without NVS, run without one. *)
Boot ==
  /\ ~up
  /\ up' = TRUE
  /\ \E ok \in BOOLEAN :
       /\ open' = ok
       /\ bmsMac' = IF ok THEN flash ELSE Empty
  /\ UNCHANGED << flash, pending, buf, writerVars, loopVars >>

(* The power goes, between any two steps. *)
PowerCut ==
  /\ up
  /\ up' = FALSE /\ open' = FALSE
  /\ bmsMac' = Empty
  /\ pending' = FALSE /\ buf' = Empty
  /\ wpc' = "idle" /\ handed' = NoMac
  /\ lpc' = "poll" /\ got' = Empty
  /\ UNCHANGED flash

-----------------------------------------------------------------------------
(* The task: rememberBmsMacFromTask(mac). *)

(* An empty address, or one while a handover is in flight, is dropped. *)
HandOver(mac) ==
  /\ up /\ wpc = "idle"
  /\ IF mac = NoMac \/ pending
     THEN UNCHANGED writerVars
     ELSE wpc' = "front" /\ handed' = mac
  /\ UNCHANGED << up, savedVars, pending, buf, loopVars >>

(* strncpy().  The caller's string is not the writer's own: emptied after  *)
(* the check above and before the copy reaches it, it is copied empty.     *)
FillFront(still) ==
  /\ wpc = "front"
  /\ handed' = IF still THEN handed ELSE NoMac
  /\ buf' = [buf EXCEPT !.front = handed']
  /\ wpc' = "back"
  /\ UNCHANGED << up, savedVars, pending, loopVars >>

FillBack ==
  /\ wpc = "back"
  /\ buf' = [buf EXCEPT !.back = handed]
  /\ wpc' = "raise"
  /\ UNCHANGED << up, savedVars, pending, handed, loopVars >>

(* Past the barrier: pendingMac_ = true. *)
RaiseFlag ==
  /\ wpc = "raise"
  /\ pending' = TRUE
  /\ wpc' = "idle" /\ handed' = NoMac
  /\ UNCHANGED << up, savedVars, buf, loopVars >>

-----------------------------------------------------------------------------
(* The main loop: Settings::loop() and the Settings page. *)

Poll_DropFirst ==
  /\ lpc = "poll" /\ up /\ pending
  /\ lpc' = "front"
  /\ pending' = FALSE
  /\ UNCHANGED << up, savedVars, buf, writerVars, got >>

(* if (!pendingMac_) return. *)
Poll ==
  /\ lpc = "poll" /\ up /\ pending
  /\ lpc' = "front"
  /\ UNCHANGED << up, savedVars, pending, buf, writerVars, got >>

CopyFront ==
  /\ lpc = "front"
  /\ got' = [got EXCEPT !.front = buf.front]
  /\ lpc' = "back"
  /\ UNCHANGED << up, savedVars, pending, buf, writerVars >>

CopyBack ==
  /\ lpc = "back"
  /\ got' = [got EXCEPT !.back = buf.back]
  /\ lpc' = "lower"
  /\ UNCHANGED << up, savedVars, pending, buf, writerVars >>

(* Copied first, then the flag: the task may write the buffer from here on. *)
LowerFlag ==
  /\ lpc = "lower"
  /\ pending' = FALSE
  /\ lpc' = "commit"
  /\ UNCHANGED << up, savedVars, buf, writerVars, got >>

Commit_OnlyOnce ==
  /\ lpc = "commit"
  /\ IF bmsMac # Empty
     THEN UNCHANGED << bmsMac, flash >>
     ELSE bmsMac' = got /\ flash' = IF open THEN got ELSE flash
  /\ lpc' = "poll" /\ got' = Empty
  /\ UNCHANGED << up, open, pending, buf, writerVars >>

(* No flash write for the address it already has. *)
Commit ==
  /\ lpc = "commit"
  /\ IF got = bmsMac
     THEN UNCHANGED << bmsMac, flash >>
     ELSE bmsMac' = got /\ flash' = IF open THEN got ELSE flash
  /\ lpc' = "poll" /\ got' = Empty
  /\ UNCHANGED << up, open, pending, buf, writerVars >>

(* clearBmsMac(), from clearBmsCb() of the Settings page. *)
Forget ==
  /\ up /\ lpc = "poll"
  /\ bmsMac' = Empty
  /\ flash' = IF open THEN Empty ELSE flash
  /\ UNCHANGED << up, open, pending, buf, writerVars, loopVars >>

-----------------------------------------------------------------------------
Writer == (\E still \in BOOLEAN : FillFront(still)) \/ FillBack \/ RaiseFlag
Loop   == Poll \/ CopyFront \/ CopyBack \/ LowerFlag \/ Commit
Power  == Boot \/ PowerCut

Next == Power \/ (\E mac \in MacOrNone : HandOver(mac)) \/ Writer \/ Loop \/ Forget

Spec == Init /\ [][Next]_vars

-----------------------------------------------------------------------------
TypeOK ==
  /\ up \in BOOLEAN /\ open \in BOOLEAN
  /\ flash \in Address /\ bmsMac \in Address
  /\ pending \in BOOLEAN /\ buf \in Address
  /\ wpc \in {"idle", "front", "back", "raise"}
  /\ handed \in MacOrNone
  /\ lpc \in {"poll", "front", "back", "lower", "commit"}
  /\ got \in Address

(***************************************************************************)
(* "We never read a half-written address" (settings.cpp:155-156): neither  *)
(* the copy the loop takes off the slot nor what it saves is ever made of  *)
(* two addresses, although nothing locks the buffer.                       *)
(***************************************************************************)
IsWhole(a) == a.front = a.back

AddressesWhole ==
  /\ lpc \in {"lower", "commit"} => IsWhole(got)
  /\ IsWhole(bmsMac) /\ IsWhole(flash)

=============================================================================
