----------------------------- MODULE BmsSession -----------------------------
(***************************************************************************)
(* What the panel believes of the battery it is attached to: the passes of *)
(* JbdBms::service() over the Overkill Solar library, whose queries and    *)
(* parameter reads block the BMS task until a reply or a timeout.          *)
(*                                                                         *)
(* A pack answers late, or not at all, and a late reply is taken for the   *)
(* answer to whatever is asked by then.  Links come and go under all of    *)
(* this; how they do is module BmsLink's.  A reading is modelled by the    *)
(* link it came over, a limit by the register it was read off.             *)
(***************************************************************************)
EXTENDS Naturals, Sequences

CONSTANTS
  Limits,          \* how the limit of each paramStep_ is worked out of a reply
  QueryAttempts,   \* requests per query_0x03_basic_info()
  ReadAttempts,    \* requests per read_int_param()
  MaxConns,        \* links in a behaviour
  MaxInFlight      \* replies under way, or in receiveBuffer, at once

ASSUME SessionAssumption ==
  /\ Limits \in Seq({"scaled", "plain", "discharge"})
  /\ QueryAttempts \in Nat \ {0} /\ ReadAttempts \in Nat \ {0}
  /\ MaxConns \in Nat \ {0} /\ MaxInFlight \in Nat \ {0}

VARIABLES
  conn,            \* which link this is, 0 before the first
  linked,          \* bleConnected
  prompt,          \* the pack answers everything in time
  open,            \* the pack is in factory mode
  fault,           \* the pack protects itself against something
  air,             \* the replies under way and those not read yet
  info,            \* m_0x03_basic_info: the link it came over and its fault bit
  paramOk,         \* m_param_success
  inFactory,       \* m_in_factory_mode
  pc,              \* where the BMS task is in service()
  got,             \* a reply came since: m_last_..._timestamp > t0
  refused,         \* and m_rx_status is not 0x00
  attempt,         \* which attempt this is
  resp,            \* what a read has got: the register it is of, 0 for none
  attached,        \* bmsAttached_
  began,           \* the link bms_.begin() was called on
  queried,         \* a query has been made since
  paramStep,       \* paramStep_, counted from 1
  limit,           \* packOverV_ ... dischargeOverA_: the register each is of
  link,            \* link(), what the header says
  shown,           \* the link the entities' readings came over
  valid,           \* dataValid(): cells_.count > 0
  alarm            \* a bms. alarm stands for the pack's own protection

pack == << prompt, open, fault, air >>
lib  == << info, paramOk, inFactory >>
wait == << got, refused, attempt, resp >>
work == << attached, began, queried, paramStep, limit >>
face == << link, shown, valid, alarm >>
vars == << conn, linked, pack, lib, pc, wait, work, face >>

-----------------------------------------------------------------------------
Steps  == 1 .. Len(Limits)
NoInfo == [conn |-> 0, fault |-> FALSE]

(* A limit as it was before the attach: the fallback, or an earlier pack's. *)
Before == Len(Limits) + 1

paramsRead == paramStep > Len(Limits)

Init ==
  /\ conn = 0 /\ linked = FALSE
  /\ prompt = FALSE /\ open = FALSE /\ fault = FALSE /\ air = <<>>
  /\ info = NoInfo /\ paramOk = TRUE /\ inFactory = FALSE
  /\ pc = "top" /\ got = FALSE /\ refused = FALSE /\ attempt = 1 /\ resp = 0
  /\ attached = FALSE /\ began = 0 /\ queried = FALSE
  /\ paramStep = 1 /\ limit = [i \in Steps |-> Before]
  /\ link = "searching" /\ shown = 0 /\ valid = FALSE /\ alarm = FALSE

-----------------------------------------------------------------------------
(* The pack and the link. *)

(* bleLoop() found a pack, this one or another; the buffer starts empty. *)
Connect ==
  /\ pc = "top" /\ ~linked /\ conn < MaxConns
  /\ conn' = conn + 1 /\ linked' = TRUE /\ air' = <<>>
  /\ prompt' \in BOOLEAN /\ fault' \in BOOLEAN
  /\ open' \in {FALSE, open}
  /\ UNCHANGED << lib, pc, wait, work, face >>

(* onDisconnect(), at any point of a pass. *)
Disconnect ==
  /\ linked
  /\ linked' = FALSE /\ air' = <<>>
  /\ UNCHANGED << conn, prompt, open, fault, lib, pc, wait, work, face >>

(* A pack in trouble resets itself. *)
LeavesFactory ==
  /\ linked /\ ~prompt /\ open
  /\ open' = FALSE
  /\ UNCHANGED << conn, linked, prompt, fault, air, lib, pc, wait, work, face >>

-----------------------------------------------------------------------------
(* Requests and replies. *)

Asking == {"info", "cells", "enter", "read", "exit"}

(* A parameter is refused outside factory mode. *)
Reply(of) ==
  [of |-> IF of = "read" /\ ~open THEN "refused" ELSE of,
   reg |-> IF of = "read" THEN paramStep ELSE 0]

(* write(): the pack acts on the request and answers it, or never sees it. *)
Send(of) ==
  \/ /\ linked /\ Len(air) < MaxInFlight
     /\ air' = Append(air, Reply(of))
     /\ open' = (of = "enter" \/ (open /\ of # "exit"))
  \/ /\ linked /\ prompt => Len(air) = MaxInFlight
     /\ UNCHANGED << air, open >>

(* The n-th time the same thing is asked for, or another one. *)
Try(of, n) ==
  /\ Send(of)
  /\ pc' = of /\ attempt' = n
  /\ got' = FALSE /\ refused' = FALSE
  /\ resp' = IF of = "read" THEN 0 ELSE resp

Goto(where) ==
  /\ pc' = where
  /\ got' = FALSE /\ refused' = FALSE /\ attempt' = 1 /\ resp' = 0
  /\ UNCHANGED << air, open >>

(* Which replies end which wait: any parameter's ends a read. *)
Counts(frame) == frame.of = pc

(* serial_rx_task() on the next frame.  One that is refused is dropped,    *)
(* and leaves its status behind.  A query does not count what it reads in  *)
(* the millisecond it was sent in, which only a late reply can be.         *)
Receive ==
  /\ air # <<>> /\ pc \in Asking \cup {"work"}
  /\ LET frame == Head(air) IN
       /\ \/ got' = (got \/ Counts(frame))
          \/ pc \in {"info", "cells"} /\ ~prompt /\ UNCHANGED got
       /\ refused' = (got' /\ frame.of = "refused")
       /\ info' = IF frame.of = "info" THEN [conn |-> conn, fault |-> fault] ELSE info
       /\ resp' = IF frame.of = "read" /\ pc = "read" THEN frame.reg ELSE resp
  /\ air' = Tail(air)
  /\ UNCHANGED << conn, linked, prompt, open, fault, paramOk, inFactory >>
  /\ UNCHANGED << pc, attempt, work, face >>

(* A wait ends without a reply when it has lasted too long; a prompt       *)
(* pack's reply is there by then.                                          *)
TimedOut == ~got /\ (linked /\ prompt => air = <<>>)
Ended    == got \/ TimedOut

-----------------------------------------------------------------------------
(* service(): attach, detach ... *)

(* bms_.begin() restarts the receiver and the timers and clears nothing. *)
Attach ==
  /\ pc = "top" /\ linked /\ ~attached
  /\ attached' = TRUE /\ began' = conn /\ queried' = FALSE
  /\ paramStep' = 1 /\ limit' = [i \in Steps |-> Before]
  /\ link' = "connecting"
  /\ Goto("work")
  /\ UNCHANGED << conn, linked, prompt, fault, lib, shown, valid, alarm >>

Detach ==
  /\ pc = "top" /\ ~linked /\ attached
  /\ attached' = FALSE /\ paramStep' = 1
  /\ valid' = FALSE /\ alarm' = FALSE
  /\ link' = "searching"
  /\ UNCHANGED << conn, linked, pack, lib, pc, wait, began, queried, limit, shown >>

Keep ==
  /\ pc = "top" /\ linked /\ attached
  /\ Goto("work")
  /\ UNCHANGED << conn, linked, prompt, fault, lib, work, face >>

(* Not attached: nothing to do. *)
Idle == pc = "top" /\ ~linked /\ ~attached /\ UNCHANGED vars

-----------------------------------------------------------------------------
(* ... main_task(), which asks when a second has passed ... *)

Query_KeepInfo ==
  /\ pc = "work"
  /\ queried' = TRUE
  /\ Try("info", 1)
  /\ UNCHANGED << conn, linked, prompt, fault, lib, face >>
  /\ UNCHANGED << attached, began, paramStep, limit >>

(* What was read last is cleared once, before the first request. *)
Query ==
  /\ pc = "work"
  /\ queried' = TRUE /\ info' = NoInfo
  /\ Try("info", 1)
  /\ UNCHANGED << conn, linked, prompt, fault, paramOk, inFactory, face >>
  /\ UNCHANGED << attached, began, paramStep, limit >>

NoQuery ==
  /\ pc = "work"
  /\ Goto("params")
  /\ UNCHANGED << conn, linked, prompt, fault, lib, work, face >>

(* An attempt stands if nothing has failed since the last one, which a     *)
(* parameter or the cell voltages may have; the last leaves all forgiven.  *)
InfoStands ==
  /\ pc = "info" /\ got /\ paramOk
  /\ Try("cells", 1)
  /\ UNCHANGED << conn, linked, prompt, fault, lib, work, face >>

InfoAgain_KeepFailure ==
  /\ pc = "info" /\ Ended /\ ~(got /\ paramOk)
  /\ IF attempt < QueryAttempts THEN Try("info", attempt + 1) ELSE Try("cells", 1)
  /\ UNCHANGED << conn, linked, prompt, fault, lib, work, face >>

InfoAgain ==
  /\ pc = "info" /\ Ended /\ ~(got /\ paramOk)
  /\ paramOk' = TRUE
  /\ IF attempt < QueryAttempts THEN Try("info", attempt + 1) ELSE Try("cells", 1)
  /\ UNCHANGED << conn, linked, prompt, fault, info, inFactory, work, face >>

CellsDone ==
  /\ pc = "cells" /\ Ended
  /\ paramOk' = (paramOk /\ got)
  /\ Goto("params")
  /\ UNCHANGED << conn, linked, prompt, fault, info, inFactory, work, face >>

-----------------------------------------------------------------------------
(* ... readNextProtectionParam(), one limit a pass ... *)

ReadLimit ==
  /\ pc = "params" /\ queried /\ ~paramsRead
  /\ Try(IF inFactory THEN "read" ELSE "enter", 1)
  /\ UNCHANGED << conn, linked, prompt, fault, lib, work, face >>

(* All are read, or it is too early for the first. *)
NoLimit ==
  /\ pc = "params" /\ (paramsRead \/ paramStep = 1)
  /\ Goto("refresh")
  /\ UNCHANGED << conn, linked, prompt, fault, lib, work, face >>

(* enter_factory_mode(), whose failure the read does not look at. *)
Entered ==
  /\ pc = "enter" /\ Ended /\ attempt <= ReadAttempts
  /\ inFactory' = (inFactory \/ (got /\ ~refused))
  /\ Try("read", attempt)
  /\ UNCHANGED << conn, linked, prompt, fault, info, paramOk, work, face >>

(* The getters: a scaled one answers 0 once anything has failed, and the   *)
(* discharge one makes 655.36 A of a 0.  A limit is not replaced by 0.     *)
Stored(kind, ok) ==
  IF kind = "discharge" \/ (resp # 0 /\ (kind = "scaled" => ok))
  THEN resp
  ELSE limit[paramStep]

StoreLimit(success) ==
  /\ paramOk' = (paramOk /\ success)
  /\ limit' = [limit EXCEPT ![paramStep] = Stored(Limits[paramStep], paramOk')]
  /\ paramStep' = paramStep + 1
  /\ Goto("refresh")
  /\ UNCHANGED << conn, linked, prompt, fault, info, attached, began, queried, face >>

LimitRead ==
  /\ pc = "read" /\ got /\ ~refused
  /\ StoreLimit(TRUE)
  /\ UNCHANGED inFactory

ReadAgain_Uncounted ==
  /\ pc = "read" /\ TimedOut /\ attempt < ReadAttempts
  /\ Try("read", attempt)
  /\ UNCHANGED << conn, linked, prompt, fault, lib, work, face >>

ReadAgain ==
  /\ pc = "read" /\ TimedOut /\ attempt < ReadAttempts
  /\ Try("read", attempt + 1)
  /\ UNCHANGED << conn, linked, prompt, fault, lib, work, face >>

ReadFails ==
  /\ pc = "read" /\ TimedOut /\ attempt = ReadAttempts
  /\ StoreLimit(FALSE)
  /\ UNCHANGED inFactory

(* A reply and a refusal in one call: exit_factory_mode(false) ... *)
Refused ==
  /\ pc = "read" /\ got /\ refused
  /\ Try("exit", attempt + 1)
  /\ UNCHANGED << conn, linked, prompt, fault, lib, work, face >>

(* ... and enter_factory_mode() again, for the next attempt ... *)
Exited ==
  /\ pc = "exit" /\ Ended
  /\ inFactory' = (inFactory /\ ~(got /\ ~refused))
  /\ Try("enter", attempt)
  /\ UNCHANGED << conn, linked, prompt, fault, info, paramOk, work, face >>

(* ... or for none: resp is what the last one left. *)
GivenUp ==
  /\ pc = "enter" /\ Ended /\ attempt > ReadAttempts
  /\ inFactory' = (inFactory \/ (got /\ ~refused))
  /\ StoreLimit(FALSE)

-----------------------------------------------------------------------------
(* ... refresh() and evaluateAlarms(), when half a second has passed. *)

Refresh ==
  /\ pc = "refresh" /\ info # NoInfo
  /\ link' = "online" /\ shown' = info.conn /\ valid' = TRUE
  /\ alarm' = info.fault
  /\ Goto("top")
  /\ UNCHANGED << conn, linked, prompt, fault, lib, work >>

(* Nothing to publish: what is on the screen stays, and grows old.  The    *)
(* alarms are judged all the same, if there have been cells.               *)
RefreshNothing ==
  /\ pc = "refresh" /\ info = NoInfo
  /\ alarm' = (alarm /\ ~valid)
  /\ Goto("top")
  /\ UNCHANGED << conn, linked, prompt, fault, lib, work, link, shown, valid >>

NoRefresh ==
  /\ pc = "refresh"
  /\ Goto("top")
  /\ UNCHANGED << conn, linked, prompt, fault, lib, work, face >>

-----------------------------------------------------------------------------
Radio == Connect \/ Disconnect \/ LeavesFactory

Pass ==
  \/ Attach \/ Detach \/ Keep \/ Idle
  \/ Query \/ NoQuery \/ InfoStands \/ InfoAgain \/ CellsDone
  \/ ReadLimit \/ NoLimit \/ Entered \/ LimitRead \/ ReadAgain \/ ReadFails
  \/ Refused \/ Exited \/ GivenUp
  \/ Refresh \/ RefreshNothing \/ NoRefresh

Next == Radio \/ Receive \/ Pass

(* The task runs on, what arrives is read, and each interval of service()  *)
(* is up again and again while the passes go on.                           *)
Fairness ==
  /\ WF_vars(Receive) /\ WF_vars(Pass)
  /\ SF_vars(Query) /\ SF_vars(ReadLimit)
  /\ SF_vars(Refresh \/ RefreshNothing)

Spec     == Init /\ [][Next]_vars
FairSpec == Spec /\ Fairness

-----------------------------------------------------------------------------
TypeOK ==
  /\ conn \in 0 .. MaxConns /\ linked \in BOOLEAN
  /\ prompt \in BOOLEAN /\ open \in BOOLEAN /\ fault \in BOOLEAN
  /\ air \in Seq([of : Asking \cup {"refused"}, reg : 0 .. Len(Limits)])
  /\ Len(air) <= MaxInFlight
  /\ info \in [conn : 0 .. MaxConns, fault : BOOLEAN]
  /\ paramOk \in BOOLEAN /\ inFactory \in BOOLEAN
  /\ pc \in Asking \cup {"top", "work", "params", "refresh"}
  /\ got \in BOOLEAN /\ refused \in BOOLEAN
  /\ attempt \in 1 .. IF pc = "info" THEN QueryAttempts ELSE ReadAttempts + 1
  /\ resp \in 0 .. Len(Limits)
  /\ attached \in BOOLEAN /\ began \in 0 .. MaxConns /\ queried \in BOOLEAN
  /\ paramStep \in 1 .. Len(Limits) + 1
  /\ limit \in [Steps -> 0 .. Before]
  /\ link \in {"searching", "connecting", "online"}
  /\ shown \in 0 .. MaxConns /\ valid \in BOOLEAN /\ alarm \in BOOLEAN

(***************************************************************************)
(* Once the pack has been asked, what is published was read over the link  *)
(* the library was started on: a query that fails leaves nothing of an     *)
(* earlier pack behind (bms2.cpp:1251-1265, bms_jbd.cpp:173-174).          *)
(***************************************************************************)
AskedThenOwn ==
  [][Refresh /\ queried /\ began = conn => shown' = conn]_vars

(***************************************************************************)
(* The readings of a pack that sends no more replies go stale for good,    *)
(* however late its last ones came: no refresh publishes them any more     *)
(* (bms2.cpp:1251-1265, bms_jbd.cpp:172-174, entity.h:32-34).              *)
(***************************************************************************)
SilenceGoesStale ==
  <>[][Len(air') <= Len(air)]_vars => <>[][~Refresh]_vars

(***************************************************************************)
(* A pack that answers in time and keeps protecting itself is alarmed      *)
(* about, and stays so while it does: through the passes that read limits, *)
(* and whatever late replies and failed reads came before                  *)
(* (bms_jbd.cpp:123-133, 277-298).                                         *)
(***************************************************************************)
FaultSounds == <>[](linked /\ prompt /\ fault) => <>[]alarm

(***************************************************************************)
(* The limits read off a pack that answers in time are each its own and in *)
(* its own place, none skipped and none left of an earlier link, unless    *)
(* the library takes a pack for being in factory mode that is not: any     *)
(* parameter's reply ends any read, and a failure anywhere else makes a    *)
(* getter answer 0 (bms_jbd.cpp:136-170, bms2.cpp:1463-1472, 1577-1617).   *)
(***************************************************************************)
PromptLimitsAreOwn ==
  linked /\ prompt /\ began = conn /\ paramsRead /\ (inFactory => open) =>
    \A i \in Steps : limit[i] = i

(***************************************************************************)
(* "A zero means the BMS did not answer (the library returns 0 on          *)
(* timeout), so we keep the fallback" (bms_jbd.cpp:137-138): no limit is   *)
(* made of a reply that never came.                                        *)
(***************************************************************************)
UnansweredKeepsFallback == \A i \in Steps : limit[i] # 0

=============================================================================
