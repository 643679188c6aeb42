---------------------------- MODULE LightingProofs ----------------------------
(***************************************************************************)
(* The lights' share of the radio, one fixture under control and the table *)
(* of slots: three modules that have nothing in common but the fixture     *)
(* between them, and their proofs one after the other.                     *)
(*                                                                         *)
(* Radio.  What the shared scanner promises its connectors holds for every *)
(* number of fixtures and of attempts.  Both invariants are inductive as   *)
(* they stand, which is the point of the design: a bit of the mask has one *)
(* owner, so that no resume() can take it from another, and only the task  *)
(* that runs the scanner's loop() can start a scan, so that its own        *)
(* connects need no lock.                                                  *)
(*                                                                         *)
(* LightLink.  What the Lighting page says of a lamp is what the lamp      *)
(* does, and no lamp is lit in the colour of before, for every set of      *)
(* colours and however many notifications are under way.  QuietIsTrue says *)
(* nothing of what is in the air, so that it has to be strengthened: by    *)
(* what every frame under way, and the answer still owed, will make the    *)
(* page say.                                                               *)
(*                                                                         *)
(* LightSlots.  A slot, its row and the address saved for it agree once    *)
(* the main loop has come by, for every number of slots and whichever      *)
(* lamps there are.  SavedIsBound alone is not inductive: setLightMac()    *)
(* skips the write to NVS when its copy already has the address, which is  *)
(* right only because the copy and NVS are the same whenever NVS is open   *)
(* (CopyIsSaved).                                                          *)
(***************************************************************************)
EXTENDS Radio, LightLink, LightSlots, TLAPS


LEMMA FixturesExist ==
  /\ 0 \in Fixtures
  /\ \A f \in Fixtures : (f + 1) % NFixtures \in Fixtures
  <1>1. NFixtures \in Nat /\ NFixtures > 0
    BY RadioAssumption
  <1> QED
    BY <1>1 DEF Fixtures

(* A failed attempt leaves fewer than MaxAttempts counted. *)
LEMMA OneMoreTry ==
  /\ 0 \in 0 .. MaxAttempts - 1
  /\ \A n \in 0 .. MaxAttempts - 1 :
       n + 1 < MaxAttempts => n + 1 \in 0 .. MaxAttempts - 1
  BY RadioAssumption

-----------------------------------------------------------------------------
LEMMA InitTypes == Init => TypeOK
  <1> SUFFICES ASSUME Init
               PROVE  TypeOK
    OBVIOUS
  <1>1. ScannerTypeOK
    BY DEF Init, ScannerInit, ScannerTypeOK
  <1>2. bmsTries \in 0 .. MaxAttempts - 1
    BY OneMoreTry DEF Init
  <1>3. slot \in Fixtures /\ cursor \in Fixtures
    BY FixturesExist DEF Init
  <1>4. tries \in [Fixtures -> 0 .. MaxAttempts - 1]
    BY OneMoreTry DEF Init
  <1>5. {have, online, due} \subseteq [Fixtures -> BOOLEAN]
    BY DEF Init
  <1> QED
    BY <1>1, <1>2, <1>3, <1>4, <1>5 DEF Init, TypeOK

(* The BMS task keeps its counters and the scanner in bounds. *)
LEMMA BmsTypes == TypeOK /\ BmsPass => TypeOK'
  <1> SUFFICES ASSUME TypeOK, BmsPass
               PROVE  TypeOK'
    OBVIOUS
  <1> USE DEF TypeOK, ScannerTypeOK, scannerVars, lightVars
  <1>1. CASE ScanLoop
    BY <1>1 DEF ScanLoop
  <1>2. CASE ScanStart
    BY <1>2 DEF ScanStart, StartWindow
  <1>3. CASE BmsRest
    BY <1>3 DEF BmsRest
  <1>4. CASE BmsLetGo
    BY <1>4 DEF BmsLetGo, Resume
  <1>5. CASE BmsHold
    BY <1>5, RadioAssumption DEF BmsHold, Hold
  <1>6. CASE BmsStop
    BY <1>6 DEF BmsStop, StopWindow
  <1>7. CASE BmsWait
    BY <1>7 DEF BmsWait
  <1>8. CASE BmsLinked
    BY <1>8 DEF BmsLinked
  <1>9. CASE BmsConnected
    BY <1>9, OneMoreTry DEF BmsConnected, Resume
  <1>10. CASE BmsFails
    <2>1. CASE bmsTries + 1 < MaxAttempts
      BY <1>10, <2>1, OneMoreTry DEF BmsFails
    <2>2. CASE ~(bmsTries + 1 < MaxAttempts)
      BY <1>10, <2>2, OneMoreTry DEF BmsFails, Resume
    <2> QED
      BY <2>1, <2>2
  <1> QED
    BY <1>1, <1>2, <1>3, <1>4, <1>5, <1>6, <1>7, <1>8, <1>9, <1>10 DEF BmsPass

(* So does the lighting task, for each of its fixtures. *)
LEMMA LightTypes == TypeOK /\ LightPass => TypeOK'
  <1> SUFFICES ASSUME TypeOK, LightPass
               PROVE  TypeOK'
    OBVIOUS
  <1> USE DEF TypeOK, ScannerTypeOK, scannerVars, bmsVars
  <1>1. ASSUME NEW f \in Fixtures, LightPick(f)
        PROVE  TypeOK'
    BY <1>1, FixturesExist, RadioAssumption DEF LightPick, Hold
  <1>2. CASE LightLetGo
    BY <1>2 DEF LightLetGo, Resume, lightVars
  <1>3. CASE LightStop
    BY <1>3 DEF LightStop, StopWindow
  <1>4. CASE LightWait
    BY <1>4 DEF LightWait
  <1>5. CASE LightConnect
    BY <1>5 DEF LightConnect
  <1>6. CASE LightConnected
    BY <1>6 DEF LightConnected, Resume
  <1>7. CASE LightFails
    <2>1. tries' \in [Fixtures -> 0 .. MaxAttempts - 1]
      <3>1. tries[slot] \in 0 .. MaxAttempts - 1
        OBVIOUS
      <3>2. CASE tries[slot] + 1 >= MaxAttempts
        BY <1>7, <3>2, OneMoreTry DEF LightFails
      <3>3. CASE ~(tries[slot] + 1 >= MaxAttempts)
        <4>1. tries[slot] + 1 \in 0 .. MaxAttempts - 1
          BY <3>1, <3>3, OneMoreTry, RadioAssumption
        <4> QED
          BY <1>7, <3>3, <4>1 DEF LightFails
      <3> QED
        BY <3>2, <3>3
    <2>2. have' \in [Fixtures -> BOOLEAN] /\ due' \in [Fixtures -> BOOLEAN]
      BY <1>7 DEF LightFails
    <2> QED
      BY <1>7, <2>1, <2>2 DEF LightFails, Resume
  <1> QED
    BY <1>1, <1>2, <1>3, <1>4, <1>5, <1>6, <1>7 DEF LightPass

(* And so do the host task, the radio and the timers. *)
LEMMA OtherTypes == TypeOK /\ (Host \/ ScanEnds \/ Timers) => TypeOK'
  <1> SUFFICES ASSUME TypeOK, Host \/ ScanEnds \/ Timers
               PROVE  TypeOK'
    OBVIOUS
  <1> USE DEF TypeOK, ScannerTypeOK, scannerVars, bmsVars, lightVars
  <1>1. CASE BmsHeard
    BY <1>1, RadioAssumption DEF BmsHeard, Hold, StopWindow
  <1>2. CASE BmsDrop
    BY <1>2 DEF BmsDrop, Resume
  <1>3. ASSUME NEW f \in Fixtures, LightHeard(f) \/ LightDrop(f)
        PROVE  TypeOK'
    <2>1. have' \in [Fixtures -> BOOLEAN] /\ online' \in [Fixtures -> BOOLEAN]
      BY <1>3 DEF LightHeard, LightDrop
    <2>2. CASE LightHeard(f)
      BY <2>1, <2>2 DEF LightHeard
    <2>3. CASE LightDrop(f)
      BY <2>1, <2>3 DEF LightDrop
    <2> QED
      BY <1>3, <2>2, <2>3
  <1>4. CASE ScanEnds
    BY <1>4 DEF ScanEnds, ScanEnd
  <1>5. CASE GapEnds
    BY <1>5 DEF GapEnds, GapOver
  <1>6. CASE BmsRetryDue
    BY <1>6 DEF BmsRetryDue
  <1>7. ASSUME NEW f \in Fixtures, LightRetryDue(f)
        PROVE  TypeOK'
    BY <1>7 DEF LightRetryDue
  <1> QED
    BY <1>1, <1>2, <1>3, <1>4, <1>5, <1>6, <1>7 DEF Host, Timers

(***************************************************************************)
(* Type correctness of the radio and the tasks that share it; no more      *)
(* attempts are counted than kMaxConnectAttempts allows on either side     *)
(* (BleSerialClient.cpp:207-215, lighting.cpp:281-293).                    *)
(***************************************************************************)
THEOREM RadioTypeCorrect == Spec => []TypeOK
  <1>1. TypeOK /\ [Next]_vars => TypeOK'
    <2>1. TypeOK /\ Next => TypeOK'
      BY BmsTypes, LightTypes, OtherTypes DEF Next
    <2>2. TypeOK /\ UNCHANGED vars => TypeOK'
      BY DEF TypeOK, ScannerTypeOK, vars, scannerVars, bmsVars, lightVars
    <2> QED
      BY <2>1, <2>2
  <1> QED
    BY InitTypes, <1>1, PTL DEF Spec

-----------------------------------------------------------------------------
(* Only the lighting task takes the bit of the lights out of the mask, and *)
(* it does so on its way back to picking.                                  *)
LEMMA LightBitStays == LightHoldsScanner /\ [Next]_vars => LightHoldsScanner'
  <1> SUFFICES ASSUME LightHoldsScanner, [Next]_vars
               PROVE  LightHoldsScanner'
    OBVIOUS
  <1> USE DEF LightHoldsScanner
  <1>1. CASE BmsPass
    <2>1. lpc' = lpc
      BY <1>1 DEF BmsPass, ScanLoop, ScanStart, BmsRest, BmsLetGo, BmsHold,
                  BmsStop, BmsWait, BmsLinked, BmsConnected, BmsFails, lightVars
    <2>2. \/ pauseMask' = pauseMask
          \/ Hold(bms)
          \/ Resume(bms)
      BY <1>1 DEF BmsPass, ScanLoop, ScanStart, BmsRest, BmsLetGo, BmsHold,
                  BmsStop, BmsWait, BmsLinked, BmsConnected, BmsFails, scannerVars
    <2> QED
      BY <2>1, <2>2, RadioAssumption DEF Hold, Resume
  <1>2. CASE LightPass
    <2>1. ASSUME NEW f \in Fixtures, LightPick(f)
          PROVE  LightHoldsScanner'
      BY <2>1 DEF LightPick, Hold
    <2>2. CASE LightLetGo
      BY <2>2 DEF LightLetGo, lightVars
    <2>3. CASE LightStop \/ LightWait \/ LightConnect
      BY <2>3 DEF LightStop, LightWait, LightConnect, scannerVars
    <2>4. CASE LightConnected \/ LightFails
      BY <2>4 DEF LightConnected, LightFails
    <2> QED
      BY <1>2, <2>1, <2>2, <2>3, <2>4 DEF LightPass
  <1>3. CASE BmsHeard
    BY <1>3 DEF BmsHeard, Hold, lightVars
  <1>4. CASE BmsDrop
    BY <1>4, RadioAssumption DEF BmsDrop, Resume, lightVars
  <1>5. ASSUME NEW f \in Fixtures, LightHeard(f) \/ LightDrop(f)
        PROVE  LightHoldsScanner'
    BY <1>5 DEF LightHeard, LightDrop, scannerVars
  <1>6. CASE ScanEnds \/ Timers
    BY <1>6 DEF ScanEnds, ScanEnd, Timers, GapEnds, GapOver, BmsRetryDue,
                LightRetryDue, scannerVars, lightVars
  <1>7. CASE UNCHANGED vars
    BY <1>7 DEF vars, scannerVars, lightVars
  <1> QED
    BY <1>1, <1>2, <1>3, <1>4, <1>5, <1>6, <1>7 DEF Next, Host

(***************************************************************************)
(* Nobody lets go of the scanner for the lights, for every number of       *)
(* fixtures: neither a pass of the BMS task without work nor a battery     *)
(* that disconnects, which both resume without knowing whether they had    *)
(* paused (BleScanner.h:48-52).                                            *)
(***************************************************************************)
THEOREM LightBitHeld == Spec => []LightHoldsScanner
  <1>1. Init => LightHoldsScanner
    BY DEF Init, LightHoldsScanner
  <1> QED
    BY <1>1, LightBitStays, PTL DEF Spec

-----------------------------------------------------------------------------
(* A scan is started by the BMS task, which then is not in a connect, or   *)
(* stays down.                                                             *)
LEMMA SilenceStays ==
  BmsConnectsInSilence /\ [Next]_vars => BmsConnectsInSilence'
  <1> SUFFICES ASSUME BmsConnectsInSilence, [Next]_vars
               PROVE  BmsConnectsInSilence'
    OBVIOUS
  <1> USE DEF BmsConnectsInSilence, Connecting
  <1>1. CASE ScanLoop \/ ScanStart \/ BmsRest \/ BmsLetGo \/ BmsHold \/ BmsStop
    BY <1>1 DEF ScanLoop, ScanStart, BmsRest, BmsLetGo, BmsHold, BmsStop
  <1>2. CASE BmsWait
    BY <1>2 DEF BmsWait, Scanning, scannerVars
  <1>3. CASE BmsLinked \/ BmsConnected \/ BmsFails
    BY <1>3 DEF BmsLinked, BmsConnected, BmsFails
  <1>4. CASE LightPass
    <2>1. bpc' = bpc
      BY <1>4 DEF LightPass, LightPick, LightLetGo, LightStop, LightWait,
                  LightConnect, LightConnected, LightFails, bmsVars
    <2>2. scan' = scan \/ StopWindow
      BY <1>4 DEF LightPass, LightPick, LightLetGo, LightStop, LightWait,
                  LightConnect, LightConnected, LightFails, scannerVars
    <2> QED
      BY <2>1, <2>2 DEF StopWindow, Scanning
  <1>5. CASE Host
    BY <1>5 DEF Host, BmsHeard, BmsDrop, LightHeard, LightDrop, Scanning,
                scannerVars, bmsVars
  <1>6. CASE ScanEnds \/ Timers
    BY <1>6 DEF ScanEnds, ScanEnd, Timers, GapEnds, GapOver, BmsRetryDue,
                LightRetryDue, scannerVars, bmsVars
  <1>7. CASE UNCHANGED vars
    BY <1>7 DEF vars, scannerVars, bmsVars
  <1> QED
    BY <1>1, <1>2, <1>3, <1>4, <1>5, <1>6, <1>7 DEF Next, BmsPass

(***************************************************************************)
(* The battery's connect has the radio to itself, for every number of      *)
(* fixtures pausing and resuming beside it (BleSerialClient.cpp:198-203).  *)
(***************************************************************************)
THEOREM BmsHasSilence == Spec => []BmsConnectsInSilence
  <1>1. Init => BmsConnectsInSilence
    BY DEF Init, BmsConnectsInSilence, Connecting
  <1> QED
    BY <1>1, SilenceStays, PTL DEF Spec

-----------------------------------------------------------------------------
(* One fixture under control.                                             *)


Frames == [about : {"onoff", "colour"}, lamp : State]

FixtureTypes ==
  /\ want \in State /\ lamp \in State
  /\ ui \in {"idle", "mark"} /\ hpc \in {"idle", "compare"}
  /\ tpc \in {"idle", "met", "colour", "power", "query"}
  /\ dirty \in BOOLEAN /\ connected \in BOOLEAN /\ link \in BOOLEAN
  /\ shownOn \in BOOLEAN /\ ours \in BOOLEAN
  /\ reply \in {"none", "onoff", "colour"}
  /\ air \in Seq(Frames) /\ Len(air) <= MaxAir
  /\ confirmed \in Colours \cup {None}

(* Between the frames of a push that nothing overtook, the colour is there. *)
ColourFirst ==
  link /\ tpc = "power" /\ ~dirty /\ ui = "idle" => lamp.colour = want.colour

(* A push went through and nothing is asked for: no write is under way, so *)
(* that the lamp stays as it is.                                           *)
Steady == connected /\ link /\ ~dirty /\ ui = "idle" /\ tpc = "idle"

Latest(k) == \A n \in k + 1 .. Len(air) : air[n].about # air[k].about
NoneAbout(what) == \A k \in 1 .. Len(air) : air[k].about # what

(* The latest word of the switch, in the air or on the page, is the lamp's,*)
SwitchTold ==
  reply # "onoff" =>
    /\ \A k \in 1 .. Len(air) :
         air[k].about = "onoff" /\ Latest(k) => air[k].lamp.on = lamp.on
    /\ NoneAbout("onoff") => shownOn = lamp.on

(* and that of the colour,                                                 *)
ColourTold ==
  reply = "none" =>
    /\ \A k \in 1 .. Len(air) :
         air[k].about = "colour" /\ Latest(k) => air[k].lamp.colour = lamp.colour
    /\ NoneAbout("colour") => confirmed = lamp.colour

(* and once the last one is compared the swatch is claimed as it should be. *)
Compared == reply = "none" /\ air = << >> /\ hpc = "idle" => (ours <=> Matches)

FixtureInv == FixtureTypes /\ ColourFirst /\ (Steady => SwitchTold /\ ColourTold /\ Compared)

-----------------------------------------------------------------------------
LEMMA NothingInTheAir == << >> \in Seq(Frames) /\ Len(<< >>) <= MaxAir
  <1>1. Len(<< >>) = 0
    OBVIOUS
  <1>2. 0 <= MaxAir
    BY LightLinkAssumption
  <1> QED
    BY <1>1, <1>2

LEMMA InitFixtureInv == FixtureInit => FixtureInv
  <1> SUFFICES ASSUME FixtureInit
               PROVE  FixtureInv
    OBVIOUS
  <1>1. air \in Seq(Frames) /\ Len(air) <= MaxAir
    BY NothingInTheAir DEF FixtureInit
  <1>2. want \in State
    BY LightLinkAssumption DEF FixtureInit, State
  <1> QED
    BY <1>1, <1>2 DEF FixtureInit, FixtureInv, FixtureTypes, ColourFirst, Steady

LEMMA FixtureTypesNext == FixtureTypes /\ [FixtureNext]_fixtureVars => FixtureTypes'
  <1> SUFFICES ASSUME FixtureTypes, [FixtureNext]_fixtureVars
               PROVE  FixtureTypes'
    OBVIOUS
  <1> USE DEF FixtureTypes, page, task, radio, told
  <1>1. want.on \in BOOLEAN /\ want.colour \in Colours /\ Written \in State
    BY DEF State, Written
  <1>2. CASE Page
    BY <1>2 DEF Page, AskOn, AskColour, State
  <1>3. CASE MarkDirty
    BY <1>3 DEF MarkDirty
  <1>4. CASE Met \/ Push \/ Query \/ Poll
    BY <1>4 DEF Met, Push, Query, Poll
  <1>5. CASE WriteFrame
    BY <1>1, <1>5 DEF WriteFrame
  <1>6. CASE WriteFails
    BY <1>1, <1>6 DEF WriteFails
  <1>7. CASE Answer
    <2>1. [about |-> reply, lamp |-> lamp] \in Frames
      BY <1>7 DEF Answer, Frames
    <2>2. air' \in Seq(Frames) /\ Len(air') <= MaxAir
      BY <1>7, <2>1, LightLinkAssumption DEF Answer
    <2> QED
      BY <1>7, <2>2 DEF Answer
  <1>8. CASE Feed
    <2>1. Head(air) \in Frames /\ Tail(air) \in Seq(Frames) /\ Len(Tail(air)) <= MaxAir
      BY <1>8, LightLinkAssumption DEF Feed
    <2>2. Head(air).lamp.on \in BOOLEAN /\ Head(air).lamp.colour \in Colours
      BY <2>1 DEF Frames, State
    <2> QED
      BY <1>8, <2>1, <2>2 DEF Feed
  <1>9. CASE Compare
    BY <1>9 DEF Compare, Matches
  <1>10. CASE Connect
    BY <1>10 DEF Connect
  <1>11. CASE LinkGone
    <2>1. air' \in Seq(Frames) /\ Len(air') <= MaxAir
      BY <1>11, NothingInTheAir DEF LinkGone
    <2> QED
      BY <1>11, <2>1 DEF LinkGone
  <1>12. CASE OtherPhone \/ Rebind
    BY <1>12, LightLinkAssumption DEF OtherPhone, Rebind, State
  <1>13. CASE UNCHANGED fixtureVars
    BY <1>13 DEF fixtureVars
  <1> QED
    BY <1>2, <1>3, <1>4, <1>5, <1>6, <1>7, <1>8, <1>9, <1>10, <1>11, <1>12, <1>13
       DEF FixtureNext, Task, Notify, World

(* The colour goes first, and what is asked for after it raises dirty. *)
LEMMA ColourFirstNext == FixtureTypes /\ ColourFirst /\ [FixtureNext]_fixtureVars => ColourFirst'
  <1> SUFFICES ASSUME FixtureTypes, ColourFirst, [FixtureNext]_fixtureVars,
                      (link /\ tpc = "power" /\ ~dirty /\ ui = "idle")'
               PROVE  lamp'.colour = want'.colour
    BY DEF ColourFirst
  <1> USE DEF page, task, radio, told
  <1>1. CASE WriteFrame
    <2>1. tpc = "colour" /\ lamp' = [lamp EXCEPT !.colour = want.colour] /\ want' = want
      BY <1>1 DEF WriteFrame, Written
    <2> QED
      BY <2>1 DEF FixtureTypes, State
  <1>2. CASE Page \/ MarkDirty
    BY <1>2 DEF Page, AskOn, AskColour, MarkDirty
  <1>3. CASE Met \/ Push \/ Query \/ WriteFails \/ Poll
    BY <1>3 DEF Met, Push, Query, WriteFails, Poll
  <1>4. CASE Notify
    BY <1>4 DEF Notify, Answer, Feed, Compare, ColourFirst
  <1>5. CASE World
    BY <1>5 DEF World, Connect, LinkGone, OtherPhone, Rebind
  <1>6. CASE UNCHANGED fixtureVars
    BY <1>6 DEF fixtureVars, ColourFirst
  <1> QED
    BY <1>1, <1>2, <1>3, <1>4, <1>5, <1>6 DEF FixtureNext, Task

(* What is told of a steady lamp stays told, through a step that leaves it *)
(* steady: an answer, a frame fed or compared, or none of these.           *)
LEMMA AnswerTold ==
  ASSUME FixtureTypes, FixtureTypes', Steady, SwitchTold, ColourTold, Answer
  PROVE  SwitchTold' /\ ColourTold' /\ Compared'
  <1> DEFINE frame == [about |-> reply, lamp |-> lamp]
  <1>1. /\ air' = Append(air, frame) /\ reply # "none"
        /\ reply' = IF reply = "onoff" THEN "colour" ELSE "none"
        /\ UNCHANGED << lamp, shownOn, confirmed >>
    BY DEF Answer, told
  <1>2. air \in Seq(Frames) /\ Len(air) \in Nat
    BY DEF FixtureTypes
  <1>3. /\ Len(air') = Len(air) + 1 /\ air'[Len(air) + 1] = frame
        /\ \A k \in 1 .. Len(air) : air'[k] = air[k]
    BY <1>1, <1>2
  <1>4. \A k \in 1 .. Len(air') : k \in 1 .. Len(air) \/ k = Len(air) + 1
    BY <1>2, <1>3
  <1>5. frame.about = reply /\ frame.lamp = lamp
    OBVIOUS
  <1> HIDE DEF frame
  <1>6. Len(air) + 1 \in 1 .. Len(air')
    BY <1>2, <1>3
  <1>7. CASE reply = "onoff"
    <2>1. reply' = "colour"
      BY <1>1, <1>7
    <2>2. ASSUME NEW k \in 1 .. Len(air'), air'[k].about = "onoff", Latest(k)'
          PROVE  air'[k].lamp.on = lamp'.on
      <3>1. CASE k \in 1 .. Len(air)
        <4>1. Len(air) + 1 \in k + 1 .. Len(air')
          BY <1>2, <1>3, <3>1
        <4>2. air'[Len(air) + 1].about # air'[k].about
          BY <2>2, <4>1 DEF Latest
        <4> QED
          BY <1>3, <1>5, <1>7, <2>2, <4>2
      <3>2. CASE k = Len(air) + 1
        BY <1>1, <1>3, <1>5, <3>2
      <3> QED
        BY <1>4, <3>1, <3>2
    <2>3. ~NoneAbout("onoff")'
      BY <1>3, <1>5, <1>6, <1>7 DEF NoneAbout
    <2> QED
      BY <2>1, <2>2, <2>3 DEF SwitchTold, ColourTold, Compared
  <1>8. CASE reply = "colour"
    <2>1. reply' = "none"
      BY <1>1, <1>8
    <2>2. ASSUME NEW k \in 1 .. Len(air'), air'[k].about = "colour", Latest(k)'
          PROVE  air'[k].lamp.colour = lamp'.colour
      <3>1. CASE k \in 1 .. Len(air)
        <4>1. Len(air) + 1 \in k + 1 .. Len(air')
          BY <1>2, <1>3, <3>1
        <4>2. air'[Len(air) + 1].about # air'[k].about
          BY <2>2, <4>1 DEF Latest
        <4> QED
          BY <1>3, <1>5, <1>8, <2>2, <4>2
      <3>2. CASE k = Len(air) + 1
        BY <1>1, <1>3, <1>5, <3>2
      <3> QED
        BY <1>4, <3>1, <3>2
    <2>3. ~NoneAbout("colour")'
      BY <1>3, <1>5, <1>6, <1>8 DEF NoneAbout
    <2>4. ASSUME NEW k \in 1 .. Len(air'), air'[k].about = "onoff", Latest(k)'
          PROVE  air'[k].lamp.on = lamp'.on
      <3>1. k \in 1 .. Len(air)
        BY <1>3, <1>4, <1>5, <1>8, <2>4
      <3>2. Latest(k)
        <4>1. \A n \in k + 1 .. Len(air) : n \in k + 1 .. Len(air') /\ n \in 1 .. Len(air)
          BY <1>2, <1>3, <3>1
        <4> QED
          BY <1>3, <2>4, <3>1, <4>1 DEF Latest
      <3> QED
        BY <1>1, <1>3, <1>8, <2>4, <3>1, <3>2 DEF SwitchTold
    <2>5. NoneAbout("onoff")' => shownOn' = lamp'.on
      <3>1. NoneAbout("onoff")' => NoneAbout("onoff")
        <4>1. \A k \in 1 .. Len(air) : k \in 1 .. Len(air')
          BY <1>2, <1>3
        <4> QED
          BY <1>3, <4>1 DEF NoneAbout
      <3> QED
        BY <1>1, <1>8, <3>1 DEF SwitchTold
    <2>6. air' # << >>
      BY <1>2, <1>3
    <2> QED
      BY <2>1, <2>2, <2>3, <2>4, <2>5, <2>6 DEF SwitchTold, ColourTold, Compared
  <1> QED
    BY <1>1, <1>7, <1>8 DEF FixtureTypes

LEMMA FeedTold ==
  ASSUME FixtureTypes, FixtureTypes', Steady, SwitchTold, ColourTold, Feed
  PROVE  SwitchTold' /\ ColourTold' /\ Compared'
  <1>1. air' = Tail(air) /\ air # << >> /\ UNCHANGED << lamp, reply >> /\ hpc' = "compare"
    BY DEF Feed
  <1>2. air \in Seq(Frames) /\ Len(air) \in Nat /\ Len(air) >= 1
    BY <1>1 DEF FixtureTypes
  <1>3. /\ Len(air') = Len(air) - 1
        /\ \A k \in 1 .. Len(air') : air'[k] = air[k + 1] /\ k + 1 \in 1 .. Len(air)
    BY <1>1, <1>2
  <1>4. Head(air) = air[1] /\ 1 \in 1 .. Len(air)
    BY <1>1, <1>2
  <1>5. ASSUME NEW k \in 1 .. Len(air'), Latest(k)'
        PROVE  Latest(k + 1)
    <2>1. ASSUME NEW n \in (k + 1) + 1 .. Len(air)
          PROVE  air[n].about # air[k + 1].about
      <3>1. n - 1 \in k + 1 .. Len(air') /\ n - 1 \in 1 .. Len(air') /\ (n - 1) + 1 = n
        BY <1>2, <1>3
      <3> QED
        BY <1>3, <1>5, <3>1 DEF Latest
    <2> QED
      BY <2>1 DEF Latest
  <1>6. ASSUME NEW what, NoneAbout(what)'
        PROVE  (Latest(1) /\ air[1].about = what) \/ NoneAbout(what)
    <2>1. ASSUME NEW k \in 2 .. Len(air)
          PROVE  air[k].about # what
      <3>1. k - 1 \in 1 .. Len(air') /\ (k - 1) + 1 = k
        BY <1>2, <1>3
      <3> QED
        BY <1>3, <1>6, <3>1 DEF NoneAbout
    <2>2. CASE air[1].about = what
      BY <2>1, <2>2 DEF Latest
    <2>3. CASE air[1].about # what
      <3>1. \A k \in 1 .. Len(air) : k = 1 \/ k \in 2 .. Len(air)
        BY <1>2
      <3> QED
        BY <2>1, <2>3, <3>1 DEF NoneAbout
    <2> QED
      BY <2>2, <2>3
  <1>7. SwitchTold'
    <2> SUFFICES ASSUME reply' # "onoff"
                 PROVE  /\ \A k \in 1 .. Len(air') :
                             air'[k].about = "onoff" /\ Latest(k)' => air'[k].lamp.on = lamp'.on
                        /\ NoneAbout("onoff")' => shownOn' = lamp'.on
      BY DEF SwitchTold
    <2>1. ASSUME NEW k \in 1 .. Len(air'), air'[k].about = "onoff", Latest(k)'
          PROVE  air'[k].lamp.on = lamp'.on
      BY <1>1, <1>3, <1>5, <2>1 DEF SwitchTold
    <2>2. ASSUME NoneAbout("onoff")'
          PROVE  shownOn' = lamp'.on
      <3>1. CASE Latest(1) /\ air[1].about = "onoff"
        <4>1. shownOn' = air[1].lamp.on
          BY <1>4, <3>1 DEF Feed
        <4> QED
          BY <1>1, <1>4, <3>1, <4>1 DEF SwitchTold
      <3>2. CASE NoneAbout("onoff")
        <4>1. shownOn' = shownOn
          BY <1>4, <3>2 DEF Feed, NoneAbout
        <4> QED
          BY <1>1, <3>2, <4>1 DEF SwitchTold
      <3> QED
        BY <1>6, <2>2, <3>1, <3>2
    <2> QED
      BY <2>1, <2>2
  <1>8. ColourTold'
    <2> SUFFICES ASSUME reply' = "none"
                 PROVE  /\ \A k \in 1 .. Len(air') :
                             air'[k].about = "colour" /\ Latest(k)'
                               => air'[k].lamp.colour = lamp'.colour
                        /\ NoneAbout("colour")' => confirmed' = lamp'.colour
      BY DEF ColourTold
    <2>1. ASSUME NEW k \in 1 .. Len(air'), air'[k].about = "colour", Latest(k)'
          PROVE  air'[k].lamp.colour = lamp'.colour
      BY <1>1, <1>3, <1>5, <2>1 DEF ColourTold
    <2>2. ASSUME NoneAbout("colour")'
          PROVE  confirmed' = lamp'.colour
      <3>1. CASE Latest(1) /\ air[1].about = "colour"
        <4>1. confirmed' = air[1].lamp.colour
          BY <1>4, <3>1 DEF Feed
        <4> QED
          BY <1>1, <1>4, <3>1, <4>1 DEF ColourTold
      <3>2. CASE NoneAbout("colour")
        <4>1. air[1].about = "onoff"
          <5>1. air[1] \in Frames /\ air[1].about # "colour"
            BY <1>2, <1>4, <3>2 DEF NoneAbout
          <5> QED
            BY <5>1 DEF Frames
        <4>2. confirmed' = confirmed
          BY <1>4, <4>1 DEF Feed
        <4> QED
          BY <1>1, <3>2, <4>2 DEF ColourTold
      <3> QED
        BY <1>6, <2>2, <3>1, <3>2
    <2> QED
      BY <2>1, <2>2
  <1> QED
    BY <1>1, <1>7, <1>8 DEF Compared

(* A lamp is only ever steady because it was, or because it is asked. *)
LEMMA ToldNext ==
  FixtureInv /\ [FixtureNext]_fixtureVars /\ FixtureTypes' => (Steady' => SwitchTold' /\ ColourTold' /\ Compared')
  <1> SUFFICES ASSUME FixtureInv, [FixtureNext]_fixtureVars, FixtureTypes', Steady'
               PROVE  SwitchTold' /\ ColourTold' /\ Compared'
    OBVIOUS
  <1> USE DEF page, task, radio, told
  <1>1. FixtureTypes /\ (Steady => SwitchTold /\ ColourTold /\ Compared)
    BY DEF FixtureInv
  <1>2. CASE Query
    BY <1>2 DEF Query, SwitchTold, ColourTold, Compared
  <1>3. CASE Answer
    BY <1>1, <1>3, AnswerTold DEF Answer, Steady
  <1>4. CASE Feed
    BY <1>1, <1>4, FeedTold DEF Feed, Steady
  <1>5. CASE Compare
    <2>1. Steady /\ UNCHANGED << air, reply, lamp, shownOn, confirmed >>
      BY <1>5 DEF Compare, Steady
    <2>2. ours' = Matches' /\ Matches \in BOOLEAN
      BY <1>5 DEF Compare, Matches
    <2> QED
      BY <1>1, <2>1, <2>2
         DEF SwitchTold, ColourTold, Compared, NoneAbout, Latest
  <1>6. CASE UNCHANGED fixtureVars
    BY <1>1, <1>6
       DEF fixtureVars, Steady, SwitchTold, ColourTold, Compared, NoneAbout, Latest, Matches
  <1>7. CASE Page \/ MarkDirty
    BY <1>7 DEF Page, AskOn, AskColour, MarkDirty, Steady
  <1>8. CASE Met \/ Push \/ WriteFrame \/ WriteFails \/ Poll
    BY <1>8 DEF Met, Push, WriteFrame, WriteFails, Poll, Steady
  <1>9. CASE World
    BY <1>9 DEF World, Connect, LinkGone, OtherPhone, Rebind, Steady
  <1> QED
    BY <1>2, <1>3, <1>4, <1>5, <1>6, <1>7, <1>8, <1>9 DEF FixtureNext, Task, Notify

LEMMA FixtureInvNext == FixtureInv /\ [FixtureNext]_fixtureVars => FixtureInv'
  BY FixtureTypesNext, ColourFirstNext, ToldNext DEF FixtureInv

LEMMA FixtureInvariant == FixtureSpec => []FixtureInv
  BY InitFixtureInv, FixtureInvNext, PTL DEF FixtureSpec

(***************************************************************************)
(* One fixture under control is well typed: what its page wants, what it   *)
(* shows, and what the two tasks hold of it in between.                    *)
(***************************************************************************)
THEOREM FixtureTypeCorrect == FixtureSpec => []FixtureTypeOK
  <1>1. FixtureInv => FixtureTypeOK
    <2> SUFFICES ASSUME FixtureTypes
                 PROVE  FixtureTypeOK
      BY DEF FixtureInv
    <2>1. \A k \in 1 .. Len(air) : air[k].about \in {"onoff", "colour"} /\ air[k].lamp \in State
      <3>1. \A k \in 1 .. Len(air) : air[k] \in Frames
        BY DEF FixtureTypes
      <3> QED
        BY <3>1 DEF Frames
    <2> QED
      BY <2>1 DEF FixtureTypes, FixtureTypeOK
  <1> QED
    BY <1>1, FixtureInvariant, PTL

(***************************************************************************)
(* With nothing under way the switch says what the lamp does and the       *)
(* swatch is claimed exactly when it is lit, whatever requests, failed     *)
(* writes, lost links and late notifications came before                   *)
(* (lighting.cpp:301-319 and 381-406).                                     *)
(***************************************************************************)
THEOREM PageTellsTheTruth == FixtureSpec => []QuietIsTrue
  <1>1. FixtureInv => QuietIsTrue
    <2> SUFFICES ASSUME FixtureInv, Quiet
                 PROVE  shownOn = lamp.on /\ (ours <=> lamp.colour = want.colour)
      BY DEF QuietIsTrue
    <2>1. SwitchTold /\ ColourTold /\ Compared
      BY DEF FixtureInv, Quiet, Steady
    <2>2. NoneAbout("onoff") /\ NoneAbout("colour")
      BY DEF Quiet, NoneAbout
    <2>3. shownOn = lamp.on /\ confirmed = lamp.colour /\ (ours <=> Matches)
      BY <2>1, <2>2 DEF SwitchTold, ColourTold, Compared, Quiet
    <2>4. lamp.colour # None
      BY LightLinkAssumption DEF FixtureInv, FixtureTypes, State
    <2> QED
      BY <2>3, <2>4 DEF Matches
  <1> QED
    BY <1>1, FixtureInvariant, PTL

(***************************************************************************)
(* "A light turned on never flashes the previous colour"                   *)
(* (lighting.cpp:306-307): the step that lights a lamp finds the colour    *)
(* wanted already there, or a newer request still to be pushed.            *)
(***************************************************************************)
THEOREM ColourBeforeLight == FixtureSpec => NeverFlashes
  <1>1. FixtureInv /\ [FixtureNext]_fixtureVars =>
          [link /\ ~lamp.on /\ lamp'.on => lamp.colour = want.colour \/ dirty \/ ui = "mark"]_fixtureVars
    <2> SUFFICES ASSUME FixtureInv, FixtureNext, link, ~lamp.on, lamp'.on, ~dirty, ui # "mark"
                 PROVE  lamp.colour = want.colour
      OBVIOUS
    <2> USE DEF page, task, radio, told
    <2>1. ui = "idle" /\ lamp \in State
      BY DEF FixtureInv, FixtureTypes
    <2>2. tpc = "power"
      <3>1. CASE WriteFrame
        BY <2>1, <3>1 DEF WriteFrame, Written, State
      <3>2. CASE WriteFails
        BY <2>1, <3>2 DEF WriteFails, Written, State
      <3>3. CASE Page \/ MarkDirty
        BY <3>3 DEF Page, AskOn, AskColour, MarkDirty
      <3>4. CASE Met \/ Push \/ Query \/ Poll
        BY <3>4 DEF Met, Push, Query, Poll
      <3>5. CASE Notify
        BY <3>5 DEF Notify, Answer, Feed, Compare
      <3>6. CASE World
        BY <3>6 DEF World, Connect, LinkGone, OtherPhone, Rebind
      <3> QED
        BY <3>1, <3>2, <3>3, <3>4, <3>5, <3>6 DEF FixtureNext, Task
    <2> QED
      BY <2>1, <2>2 DEF FixtureInv, ColourFirst
  <1> QED
    BY <1>1, FixtureInvariant, PTL DEF FixtureSpec, NeverFlashes

-----------------------------------------------------------------------------
(* LightSlots.                                                             *)


CopyIsSaved == open => flash = lightMac

SlotsInv == SlotsTypeOK /\ CopyIsSaved /\ SavedIsBound

-----------------------------------------------------------------------------
LEMMA FirstSlot == 1 \in Slots
  BY LightSlotsAssumption DEF Slots

LEMMA InitSlotsInv == SlotsInit => SlotsInv
  BY FirstSlot DEF SlotsInit, SlotsInv, SlotsTypeOK, CopyIsSaved, SavedIsBound

LEMMA SlotsTypesNext == SlotsTypeOK /\ [SlotsNext]_slotsVars => SlotsTypeOK'
  <1> SUFFICES ASSUME SlotsTypeOK, [SlotsNext]_slotsVars
               PROVE  SlotsTypeOK'
    OBVIOUS
  <1> USE DEF SlotsTypeOK, saved
  <1>1. CASE Boot
    <2>1. lightMac' \in [Slots -> Lamps \cup {NoLamp}] /\ open' \in BOOLEAN
      BY <1>1 DEF Boot
    <2> QED
      BY <1>1, <2>1 DEF Boot
  <1>2. CASE PowerCut
    BY <1>2, FirstSlot DEF PowerCut
  <1>3. ASSUME NEW l \in Lamps, Bind(l)
        PROVE  SlotsTypeOK'
    BY <1>3 DEF Bind, Free
  <1>4. CASE Publish
    BY <1>4 DEF Publish
  <1>5. CASE AskCommit
    BY <1>5 DEF AskCommit
  <1>6. ASSUME NEW s \in Slots, ConnectSlot(s) \/ GiveUp(s) \/ Drop(s)
        PROVE  SlotsTypeOK'
    BY <1>6 DEF ConnectSlot, GiveUp, Drop
  <1>7. ASSUME NEW s \in Slots, Commit(s)
        PROVE  SlotsTypeOK'
    <2>1. mac[s] \in Lamps \cup {NoLamp}
      OBVIOUS
    <2>2. /\ lightMac' \in [Slots -> Lamps \cup {NoLamp}]
          /\ flash' \in [Slots -> Lamps \cup {NoLamp}]
      BY <1>7, <2>1 DEF Commit, Remember
    <2> QED
      BY <1>7, <2>2 DEF Commit
  <1>8. CASE ForgetAll
    BY <1>8 DEF ForgetAll, table
  <1>9. CASE UNCHANGED slotsVars
    BY <1>9 DEF slotsVars, table
  <1> QED
    BY <1>1, <1>2, <1>3, <1>4, <1>5, <1>6, <1>7, <1>8, <1>9
       DEF SlotsNext, SlotsHost, SlotsTask, SlotsMain

(* A boot that opens NVS reads it; what is stored or forgotten later goes  *)
(* to both.                                                                *)
LEMMA CopyNext == SlotsTypeOK /\ CopyIsSaved /\ [SlotsNext]_slotsVars => CopyIsSaved'
  <1> SUFFICES ASSUME SlotsTypeOK, CopyIsSaved, [SlotsNext]_slotsVars
               PROVE  CopyIsSaved'
    OBVIOUS
  <1> USE DEF CopyIsSaved
  <1>1. CASE Boot \/ PowerCut
    BY <1>1 DEF Boot, PowerCut
  <1>2. ASSUME NEW s \in Slots, Commit(s)
        PROVE  CopyIsSaved'
    <2>1. CASE open /\ mac[s] = lightMac[s]
      <3>1. lightMac' = lightMac
        BY <1>2, <2>1 DEF Commit, Remember, SlotsTypeOK
      <3> QED
        BY <1>2, <2>1, <3>1 DEF Commit, Remember
    <2>2. CASE open /\ mac[s] # lightMac[s]
      BY <1>2, <2>2 DEF Commit, Remember
    <2>3. CASE ~open
      BY <1>2, <2>3 DEF Commit
    <2> QED
      BY <2>1, <2>2, <2>3
  <1>3. CASE ForgetAll
    BY <1>3 DEF ForgetAll
  <1>4. CASE SlotsHost \/ SlotsTask \/ UNCHANGED slotsVars
    BY <1>4 DEF SlotsHost, Bind, Publish, AskCommit, SlotsTask, ConnectSlot, GiveUp, Drop,
                slotsVars, saved
  <1> QED
    BY <1>1, <1>2, <1>3, <1>4 DEF SlotsNext, SlotsMain

(* What the host task or the lighting task does to a slot makes it busy,   *)
(* or gives its address up; the commit that ends it stores the address.    *)
LEMMA SavedNext == SlotsInv /\ [SlotsNext]_slotsVars => SavedIsBound'
  <1> SUFFICES ASSUME SlotsInv, [SlotsNext]_slotsVars,
                      NEW s \in Slots, haveAddress'[s], ~Busy(s)'
               PROVE  /\ registered'[s]
                      /\ lightMac'[s] \in {mac'[s], NoLamp}
                      /\ open' => flash'[s] = lightMac'[s]
    BY DEF SavedIsBound, Busy
  <1> USE DEF SlotsInv, SlotsTypeOK, Busy, saved
  <1>1. haveAddress[s] /\ ~Busy(s) =>
          /\ registered[s]
          /\ lightMac[s] \in {mac[s], NoLamp}
          /\ open => flash[s] = lightMac[s]
    BY DEF SavedIsBound
  <1>2. open' => flash'[s] = lightMac'[s]
    BY CopyNext DEF CopyIsSaved
  <1>3. CASE Boot
    BY <1>2, <1>3 DEF Boot
  <1>4. CASE PowerCut
    BY <1>4 DEF PowerCut
  <1>5. ASSUME NEW l \in Lamps, Bind(l)
        PROVE  registered'[s] /\ lightMac'[s] \in {mac'[s], NoLamp}
    <2>1. at' # s /\ host = "idle"
      BY <1>5 DEF Bind
    <2>2. mac'[s] = mac[s]
      BY <1>5, <2>1 DEF Bind, Free
    <2> QED
      BY <1>1, <1>5, <2>1, <2>2 DEF Bind
  <1>6. CASE Publish \/ AskCommit
    <2>1. at # s
      BY <1>6 DEF Publish, AskCommit
    <2> QED
      BY <1>1, <1>2, <1>6, <2>1 DEF Publish, AskCommit
  <1>7. ASSUME NEW t \in Slots, ConnectSlot(t) \/ GiveUp(t) \/ Drop(t)
        PROVE  registered'[s] /\ lightMac'[s] \in {mac'[s], NoLamp}
    BY <1>1, <1>7 DEF ConnectSlot, GiveUp, Drop
  <1>8. ASSUME NEW t \in Slots, Commit(t)
        PROVE  registered'[s] /\ lightMac'[s] \in {mac'[s], NoLamp}
    BY <1>1, <1>8 DEF Commit, Remember
  <1>9. CASE ForgetAll
    BY <1>1, <1>2, <1>9 DEF ForgetAll, table
  <1>10. CASE UNCHANGED slotsVars
    BY <1>1, <1>2, <1>10 DEF slotsVars, table
  <1> QED
    BY <1>2, <1>3, <1>4, <1>5, <1>6, <1>7, <1>8, <1>9, <1>10
       DEF SlotsNext, SlotsHost, SlotsTask, SlotsMain

LEMMA SlotsInvariant == SlotsSpec => []SlotsInv
  <1>1. SlotsInv /\ [SlotsNext]_slotsVars => SlotsInv'
    BY SlotsTypesNext, CopyNext, SavedNext DEF SlotsInv
  <1> QED
    BY InitSlotsInv, <1>1, PTL DEF SlotsSpec

-----------------------------------------------------------------------------
(***************************************************************************)
(* Type correctness of the slot table and of what is saved for it.         *)
(***************************************************************************)
THEOREM SlotsTypeCorrect == SlotsSpec => []SlotsTypeOK
  <1>1. SlotsInv => SlotsTypeOK
    BY DEF SlotsInv
  <1> QED
    BY SlotsInvariant, <1>1, PTL

(***************************************************************************)
(* A slot that is bound and not under way is shown, and remembers the lamp *)
(* it holds or, after Forget, none: however binds, give-ups, commits and   *)
(* power cuts interleave (lighting.cpp:63-90 and 160-170,                  *)
(* settings.cpp:72-83).                                                    *)
(***************************************************************************)
THEOREM SlotIsSaved == SlotsSpec => []SavedIsBound
  <1>1. SlotsInv => SavedIsBound
    BY DEF SlotsInv
  <1> QED
    BY SlotsInvariant, <1>1, PTL

=============================================================================
