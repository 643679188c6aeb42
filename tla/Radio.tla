------------------------------- MODULE Radio -------------------------------
(***************************************************************************)
(* Sharing the radio: the BMS task, which drives the scanner and connects  *)
(* to the battery (BleSerialClient::bleLoop), and the lighting task, which *)
(* connects to the light fixtures one attempt a pass (serviceConnects of   *)
(* integrations/lighting.cpp), with the NimBLE host task delivering        *)
(* advertisements between any two of their steps.                          *)
(*                                                                         *)
(* Which battery and which slot is left to BmsLink and Lighting.  Time is  *)
(* a flag per timer: a retry or a gap is over at some later moment.        *)
(***************************************************************************)
EXTENDS BleScanner, Naturals

CONSTANTS
  bms, light,     \* the owners
  NFixtures,      \* kMaxFixtures
  MaxAttempts     \* kMaxConnectAttempts, the same on both sides

ASSUME RadioAssumption ==
  /\ Owners = {bms, light} /\ bms # light
  /\ NFixtures \in Nat \ {0} /\ MaxAttempts \in Nat \ {0}

VARIABLES
  bpc,            \* the BMS task: in BleScanner::loop() or in bleLoop()
  doConnect,      \* a battery was heard and is to be connected to
  bmsDue,         \* nextConnectMs is past
  bmsTries,       \* connectAttempts
  linked,         \* bleConnected
  lpc,            \* the lighting task, in serviceConnects()
  slot,           \* the fixture it is connecting
  cursor,         \* connectCursor_
  have,           \* haveAddress of each fixture
  online,         \* connected
  due,            \* nextConnectMs is past
  tries           \* connectAttempts

bmsVars   == << bpc, doConnect, bmsDue, bmsTries, linked >>
lightVars == << lpc, slot, cursor, have, online, due, tries >>
vars      == << scannerVars, bmsVars, lightVars >>

Fixtures == 0 .. NFixtures - 1

Init ==
  /\ ScannerInit
  /\ bpc = "loop" /\ doConnect = FALSE /\ bmsDue = TRUE /\ bmsTries = 0 /\ linked = FALSE
  /\ lpc = "pick" /\ slot = 0 /\ cursor = 0
  /\ have \in [Fixtures -> BOOLEAN]       \* some slots are remembered from NVS
  /\ online = [f \in Fixtures |-> FALSE]
  /\ due = [f \in Fixtures |-> TRUE]
  /\ tries = [f \in Fixtures |-> 0]

Connecting(owner) == IF owner = bms THEN bpc = "connect" ELSE lpc = "connect"

-----------------------------------------------------------------------------
(* The BMS task: BleScanner::loop(), its check and its start apart ... *)

ScanLoop ==
  /\ bpc = "loop"
  /\ bpc' = IF MayStart THEN "start" ELSE "client"
  /\ UNCHANGED << scannerVars, doConnect, bmsDue, bmsTries, linked, lightVars >>

ScanStart ==
  /\ bpc = "start"
  /\ StartWindow(\E o \in Owners : Connecting(o))
  /\ bpc' = "client"
  /\ UNCHANGED << pauseMask, doConnect, bmsDue, bmsTries, linked, lightVars >>

(* ... and bleLoop(): with nothing to do, or in a retry gap, let go; the   *)
(* flag is read before the bit is cleared.                                 *)
BmsRest ==
  /\ bpc = "client" /\ ~(doConnect /\ bmsDue)
  /\ bpc' = "rest"
  /\ UNCHANGED << scannerVars, doConnect, bmsDue, bmsTries, linked, lightVars >>

BmsLetGo ==
  /\ bpc = "rest"
  /\ Resume(bms)
  /\ bpc' = "loop"
  /\ UNCHANGED << scan, gap, doConnect, bmsDue, bmsTries, linked, lightVars >>

BmsHold_NotAgain ==
  /\ bpc = "client" /\ doConnect /\ bmsDue
  /\ bpc' = "wait"
  /\ UNCHANGED << scannerVars, doConnect, bmsDue, bmsTries, linked, lightVars >>

(* A connect is due: pause() ... *)
BmsHold ==
  /\ bpc = "client" /\ doConnect /\ bmsDue
  /\ Hold(bms)
  /\ bpc' = "stop"
  /\ UNCHANGED << scan, gap, doConnect, bmsDue, bmsTries, linked, lightVars >>

BmsStop ==
  /\ bpc = "stop"
  /\ StopWindow
  /\ bpc' = "wait"
  /\ UNCHANGED << pauseMask, gap, doConnect, bmsDue, bmsTries, linked, lightVars >>

BmsWait_Not ==
  /\ bpc = "wait"
  /\ bpc' = "connect"
  /\ UNCHANGED << scannerVars, doConnect, bmsDue, bmsTries, linked, lightVars >>

(* ... and come back next pass while the scan is still up. *)
BmsWait ==
  /\ bpc = "wait"
  /\ bpc' = IF Scanning THEN "loop" ELSE "connect"
  /\ UNCHANGED << scannerVars, doConnect, bmsDue, bmsTries, linked, lightVars >>

(* connect() is back with a link; the services are still to be found.  The *)
(* onDisconnect() of a link that failed there may be outstanding: then     *)
(* connect() fails.                                                        *)
BmsLinked ==
  /\ bpc = "connect" /\ ~Scanning /\ ~linked
  /\ linked' = TRUE
  /\ bpc' = "discover"
  /\ UNCHANGED << scannerVars, doConnect, bmsDue, bmsTries, lightVars >>

BmsConnected ==
  /\ bpc = "discover"
  /\ linked' = TRUE
  /\ doConnect' = FALSE /\ bmsTries' = 0
  /\ Resume(bms)
  /\ bpc' = "loop"
  /\ UNCHANGED << scan, gap, bmsDue, lightVars >>

BmsFails_Forever ==
  /\ bpc \in {"connect", "discover"}
  /\ bmsDue' = FALSE
  /\ bpc' = "loop"
  /\ UNCHANGED << scannerVars, doConnect, bmsTries, linked, lightVars >>

(* A failed attempt is retried after a gap; the last one gives up. *)
BmsFails ==
  /\ bpc \in {"connect", "discover"}
  /\ IF bmsTries + 1 < MaxAttempts
     THEN /\ bmsTries' = bmsTries + 1 /\ bmsDue' = FALSE
          /\ UNCHANGED << doConnect, pauseMask >>
     ELSE /\ bmsTries' = 0 /\ doConnect' = FALSE
          /\ Resume(bms)
          /\ UNCHANGED bmsDue
  /\ bpc' = "loop"
  /\ UNCHANGED << scan, gap, linked, lightVars >>

-----------------------------------------------------------------------------
(* The lighting task: serviceConnects(). *)

Wants(f) == have[f] /\ ~online[f] /\ due[f]

(* The first fixture from the cursor on that wants a connect. *)
Turn(f) ==
  /\ Wants(f)
  /\ \A n \in 0 .. NFixtures - 1 :
       (\A m \in 0 .. n : (cursor + m) % NFixtures # f) => ~Wants((cursor + n) % NFixtures)

LightPick(f) ==
  /\ lpc = "pick" /\ Turn(f)
  /\ slot' = f
  /\ cursor' = (f + 1) % NFixtures
  /\ Hold(light)
  /\ lpc' = "stop"
  /\ UNCHANGED << scan, gap, bmsVars, have, online, due, tries >>

(* Nobody wanted the radio this pass. *)
LightLetGo ==
  /\ lpc = "pick" /\ \A f \in Fixtures : ~Wants(f)
  /\ Resume(light)
  /\ UNCHANGED << scan, gap, bmsVars, lightVars >>

LightStop ==
  /\ lpc = "stop"
  /\ StopWindow
  /\ lpc' = "wait"
  /\ UNCHANGED << pauseMask, gap, bmsVars, slot, cursor, have, online, due, tries >>

LightWait ==
  /\ lpc = "wait"
  /\ lpc' = IF Scanning THEN "pick" ELSE "ready"
  /\ UNCHANGED << scannerVars, bmsVars, slot, cursor, have, online, due, tries >>

LightConnect ==
  /\ lpc = "ready"
  /\ lpc' = "connect"
  /\ UNCHANGED << scannerVars, bmsVars, slot, cursor, have, online, due, tries >>

(* NimBLE connects only with the scan down. *)
LightConnected ==
  /\ lpc = "connect" /\ ~Scanning
  /\ online' = [online EXCEPT ![slot] = TRUE]
  /\ Resume(light)
  /\ lpc' = "pick"
  /\ UNCHANGED << scan, gap, bmsVars, slot, cursor, have, due, tries >>

LightFails ==
  /\ lpc = "connect"
  /\ IF tries[slot] + 1 >= MaxAttempts
     THEN tries' = [tries EXCEPT ![slot] = 0] /\ have' = [have EXCEPT ![slot] = FALSE]
     ELSE tries' = [tries EXCEPT ![slot] = @ + 1] /\ UNCHANGED have
  /\ due' = [due EXCEPT ![slot] = FALSE]
  /\ Resume(light)
  /\ lpc' = "pick"
  /\ UNCHANGED << scan, gap, bmsVars, slot, cursor, online >>

(* serviceLink(): a write failed, so the fixture is gone. *)
LightDrop(f) ==
  /\ lpc = "pick" /\ online[f]
  /\ online' = [online EXCEPT ![f] = FALSE]
  /\ UNCHANGED << scannerVars, bmsVars, lpc, slot, cursor, have, due, tries >>

-----------------------------------------------------------------------------
(* The NimBLE host task and the clock. *)

(* onAdvertisement() of the battery: connect to it, and pause() at once. *)
BmsHeard ==
  /\ Scanning /\ ~linked
  /\ doConnect' = TRUE
  /\ Hold(bms) /\ StopWindow
  /\ UNCHANGED << gap, bpc, bmsDue, bmsTries, linked, lightVars >>

(* onDisconnect(): let the scanner look again. *)
BmsDrop ==
  /\ linked
  /\ linked' = FALSE
  /\ Resume(bms)
  /\ UNCHANGED << scan, gap, bpc, doConnect, bmsDue, bmsTries, lightVars >>

(* Finder::onAdvertisement(): the fixture gets its slot back. *)
LightHeard(f) ==
  /\ Scanning /\ ~have[f]
  /\ have' = [have EXCEPT ![f] = TRUE]
  /\ UNCHANGED << scannerVars, bmsVars, lpc, slot, cursor, online, due, tries >>

BmsRetryDue ==
  /\ ~bmsDue
  /\ bmsDue' = TRUE
  /\ UNCHANGED << scannerVars, bpc, doConnect, bmsTries, linked, lightVars >>

LightRetryDue(f) ==
  /\ ~due[f]
  /\ due' = [due EXCEPT ![f] = TRUE]
  /\ UNCHANGED << scannerVars, bmsVars, lpc, slot, cursor, have, online, tries >>

-----------------------------------------------------------------------------
BmsPass ==
  \/ ScanLoop \/ ScanStart
  \/ BmsRest \/ BmsLetGo \/ BmsHold \/ BmsStop \/ BmsWait
  \/ BmsLinked \/ BmsConnected \/ BmsFails

LightPass ==
  \/ \E f \in Fixtures : LightPick(f)
  \/ LightLetGo \/ LightStop \/ LightWait \/ LightConnect
  \/ LightConnected \/ LightFails

Host ==
  \/ BmsHeard \/ BmsDrop
  \/ \E f \in Fixtures : LightHeard(f) \/ LightDrop(f)

ScanEnds == ScanEnd /\ UNCHANGED << bmsVars, lightVars >>
GapEnds  == GapOver /\ UNCHANGED << bmsVars, lightVars >>
Timers   == GapEnds \/ BmsRetryDue \/ \E f \in Fixtures : LightRetryDue(f)

Next == BmsPass \/ LightPass \/ Host \/ ScanEnds \/ Timers

(* Tasks are scheduled, a scan asked to stop or out of time ends, and time *)
(* passes.  Nobody need ever be heard, answer, or stay.                    *)
Fairness ==
  /\ WF_vars(BmsPass) /\ WF_vars(LightPass)
  /\ WF_vars(ScanEnds)
  /\ WF_vars(GapEnds) /\ WF_vars(BmsRetryDue)
  /\ \A f \in 0 .. NFixtures - 1 : WF_vars(LightRetryDue(f))

Spec     == Init /\ [][Next]_vars
FairSpec == Spec /\ Fairness

-----------------------------------------------------------------------------
TypeOK ==
  /\ ScannerTypeOK
  /\ bpc \in {"loop", "start", "client", "rest", "stop", "wait", "connect", "discover"}
  /\ doConnect \in BOOLEAN /\ bmsDue \in BOOLEAN /\ linked \in BOOLEAN
  /\ bmsTries \in 0 .. MaxAttempts - 1
  /\ lpc \in {"pick", "stop", "wait", "ready", "connect"}
  /\ slot \in Fixtures /\ cursor \in Fixtures
  /\ {have, online, due} \subseteq [Fixtures -> BOOLEAN]
  /\ tries \in [Fixtures -> 0 .. MaxAttempts - 1]

(***************************************************************************)
(* Nobody lets go of the scanner for the lights: their bit stays up from   *)
(* the pick to the end of the connect, although the BMS task resumes on    *)
(* every pass without tracking whether it had paused, and so does          *)
(* onDisconnect() (BleScanner.h:48-52, ARCHITECTURE.md:224-238).  The      *)
(* battery's own bit promises less: the onDisconnect() of a link that      *)
(* failed its discovery may clear it under the next attempt.               *)
(***************************************************************************)
LightHoldsScanner == lpc # "pick" => light \in pauseMask

(***************************************************************************)
(* The battery's connect has the radio to itself: the scan is down when it *)
(* starts and stays down until it returns (BleSerialClient.cpp:198-203).   *)
(* Only the task that connects could start one.                            *)
(***************************************************************************)
BmsConnectsInSilence == Connecting(bms) => scan = "off"

(***************************************************************************)
(* "A would-be connector calls pause(), waits for scanning() to go false"  *)
(* and connects with the scanner down (BleScanner.h:56-59), which "runs    *)
(* only when the mask is empty" (ARCHITECTURE.md:233-234).                 *)
(***************************************************************************)
ConnectsInSilence == \A o \in Owners : Connecting(o) => scan # "on"

(***************************************************************************)
(* A battery that was heard gets its connect attempt, whatever the lights  *)
(* do with the radio meanwhile: the pauses never cancel each other out.    *)
(***************************************************************************)
HeardIsTried == doConnect ~> bpc \in {"connect", "discover"}

(***************************************************************************)
(* Sensors never go deaf: unless a fixture keeps coming and going, the     *)
(* scanner always runs again, whatever fails to connect - both tasks give  *)
(* up and let go, and no bit of the mask is left behind.                   *)
(***************************************************************************)
ScanAlwaysReturns ==
  (\A f \in 0 .. NFixtures - 1 : <>[]online[f] \/ <>[]~online[f]) => []<>(scan = "on")

=============================================================================
