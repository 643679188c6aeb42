--------------------------- MODULE BmsLinkProofs ---------------------------
(***************************************************************************)
(* For every set of addresses: no address is ever made of two (Settings),  *)
(* the BMS link only ever uses the handover that way (BmsLink implements   *)
(* Settings), and a pinned panel knows no pack but its own.                *)
(***************************************************************************)
EXTENDS BmsLink, TLAPS

(***************************************************************************)
(* The flag says whose the buffer is: the task's while it is down, the     *)
(* loop's while it is up.  That is what keeps AddressesWhole, which speaks *)
(* of neither the flag nor the buffer, and so is not inductive.            *)
(***************************************************************************)
HandoverInv ==
  /\ TypeOK
  /\ AddressesWhole
  /\ wpc # "idle" => ~pending
  /\ lpc \in {"front", "back", "lower"} => pending
  /\ pending => IsWhole(buf)
  /\ wpc \in {"back", "raise"} => buf.front = handed
  /\ wpc = "raise" => buf.back = handed
  /\ lpc \in {"back", "lower"} => got.front = buf.front
  /\ lpc = "lower" => got.back = buf.back

(* An address is its two halves, and setting one leaves the other. *)
LEMMA Halves ==
  ASSUME NEW a \in Address, NEW m \in MacOrNone
  PROVE  /\ [a EXCEPT !.front = m] \in Address
         /\ [a EXCEPT !.front = m].front = m
         /\ [a EXCEPT !.front = m].back = a.back
         /\ [a EXCEPT !.back = m] \in Address
         /\ [a EXCEPT !.back = m].back = m
         /\ [a EXCEPT !.back = m].front = a.front
         /\ a.front \in MacOrNone /\ a.back \in MacOrNone
BY DEF Address

(* The empty address is one, and a whole one. *)
LEMMA EmptyWhole == Empty \in Address /\ IsWhole(Empty) /\ NoMac \in MacOrNone
BY DEF Empty, Whole, Address, MacOrNone, IsWhole

LEMMA HandoverInit == Init => HandoverInv
BY EmptyWhole DEF Init, HandoverInv, TypeOK, AddressesWhole

LEMMA HandoverStep == HandoverInv /\ [Next]_vars => HandoverInv'
<1> SUFFICES ASSUME HandoverInv, [Next]_vars PROVE HandoverInv'
  OBVIOUS
<1> USE EmptyWhole DEF HandoverInv, AddressesWhole, TypeOK
<1>1. CASE UNCHANGED vars
  BY <1>1 DEF vars, savedVars, writerVars, loopVars
<1>2. CASE Boot
  BY <1>2 DEF Boot, writerVars, loopVars
<1>3. CASE PowerCut
  BY <1>3 DEF PowerCut
<1>4. ASSUME NEW mac \in MacOrNone, HandOver(mac) PROVE HandoverInv'
  BY <1>4 DEF HandOver, savedVars, writerVars, loopVars
<1>5. ASSUME NEW still \in BOOLEAN, FillFront(still) PROVE HandoverInv'
  <2>1. handed' \in MacOrNone /\ buf' = [buf EXCEPT !.front = handed']
    BY <1>5 DEF FillFront
  <2>2. buf' \in Address /\ buf'.front = handed'
    BY <2>1, Halves
  <2> QED BY <1>5, <2>1, <2>2 DEF FillFront, savedVars, loopVars
<1>6. CASE FillBack
  <2>1. buf' \in Address /\ buf'.back = handed /\ buf'.front = buf.front
    BY <1>6, Halves DEF FillBack
  <2> QED BY <1>6, <2>1 DEF FillBack, savedVars, loopVars
<1>7. CASE RaiseFlag
  BY <1>7 DEF RaiseFlag, savedVars, loopVars, IsWhole
<1>8. CASE Poll
  BY <1>8 DEF Poll, savedVars, writerVars
<1>9. CASE CopyFront
  <2>1. buf.front \in MacOrNone
    BY Halves
  <2>2. got' \in Address /\ got'.front = buf.front
    BY <1>9, <2>1, Halves DEF CopyFront
  <2> QED BY <1>9, <2>2 DEF CopyFront, savedVars, writerVars
<1>10. CASE CopyBack
  <2>1. buf.back \in MacOrNone
    BY Halves
  <2>2. got' \in Address /\ got'.back = buf.back /\ got'.front = got.front
    BY <1>10, <2>1, Halves DEF CopyBack
  <2> QED BY <1>10, <2>2 DEF CopyBack, savedVars, writerVars, IsWhole
<1>11. CASE LowerFlag
  BY <1>11 DEF LowerFlag, savedVars, writerVars
<1>12. CASE Commit
  BY <1>12 DEF Commit, writerVars
<1>13. CASE Forget
  BY <1>13 DEF Forget, writerVars, loopVars
<1> QED
  BY <1>1, <1>2, <1>3, <1>4, <1>5, <1>6, <1>7, <1>8, <1>9, <1>10, <1>11, <1>12, <1>13
    DEF Next, Power, Writer, Loop

(***************************************************************************)
(* No half-written address is read off the slot, remembered or saved,      *)
(* whoever hands over what, wherever the power is cut.                     *)
(***************************************************************************)
THEOREM NeverTorn == Spec => []AddressesWhole
<1>1. HandoverInv => AddressesWhole
  BY DEF HandoverInv
<1> QED BY <1>1, HandoverInit, HandoverStep, PTL DEF Spec

-----------------------------------------------------------------------------
(* The BMS link uses the handover as Settings allows. *)

LEMMA LinkStepIsSettingsStep == LinkTypeOK /\ [LinkNext]_allVars => [Next]_vars
<1> SUFFICES ASSUME LinkTypeOK, LinkNext PROVE [Next]_vars
  BY DEF allVars
<1>1. CASE BootLink \/ PowerCutLink
  BY <1>1 DEF BootLink, PowerCutLink, Next, Power
<1>2. CASE Host
  BY <1>2 DEF Host, LinkDown, Hear
<1>3. CASE Remember
  BY <1>3 DEF Remember, Next, LinkTypeOK
<1>4. CASE Remembering
  <2>1. (peer # NoMac) \in BOOLEAN
    OBVIOUS
  <2> QED BY <1>4, <2>1 DEF Remembering, Next, Writer
<1>5. CASE Pass /\ ~Remember /\ ~Remembering
  BY <1>5 DEF Pass, SkipConnect, StartConnect, ConnectFails, LinkUp, Discovered, Ready,
    DiscoveryFails, Detach, Keep, Attach, Attached
<1>6. CASE MainLoop
  BY <1>6 DEF MainLoop, Next
<1> QED BY <1>1, <1>2, <1>3, <1>4, <1>5, <1>6 DEF LinkNext

(* The attempts still fit the counter when they start over, or go on. *)
LEMMA AttemptRange ==
  /\ 0 \in 0 .. MaxAttempts - 1
  /\ \A n \in 0 .. MaxAttempts - 1 :
       n + 1 < MaxAttempts => n + 1 \in 0 .. MaxAttempts - 1
BY BmsLinkAssumption

LEMMA LinkTypeInit == LinkInit => LinkTypeOK
<1> HAVE LinkInit
<1>1. TypeOK
  BY HandoverInit DEF LinkInit, HandoverInv
<1> QED BY <1>1, AttemptRange, EmptyWhole DEF LinkInit, LinkTypeOK

LEMMA LinkTypeStep == LinkTypeOK /\ TypeOK' /\ [LinkNext]_allVars => LinkTypeOK'
<1> SUFFICES ASSUME LinkTypeOK, TypeOK', [LinkNext]_allVars PROVE LinkTypeOK'
  OBVIOUS
<1> USE BmsLinkAssumption DEF LinkTypeOK
<1>1. CASE UNCHANGED allVars
  BY <1>1 DEF allVars, linkVars, clientVars
<1>2. CASE BootLink
  <2>1. target' \in MacOrNone
    BY <1>2, Halves DEF BootLink, SetTarget, TypeOK
  <2> QED BY <1>2, <2>1 DEF BootLink
<1>3. CASE PowerCutLink
  BY <1>3, EmptyWhole, AttemptRange DEF PowerCutLink
<1>4. CASE LinkDown
  BY <1>4, EmptyWhole DEF LinkDown
<1>5. ASSUME NEW mac \in Macs, Hear(mac) PROVE LinkTypeOK'
  BY <1>5 DEF Hear, MacOrNone
<1>6. ASSUME AttemptFailed PROVE attempts' \in 0 .. MaxAttempts - 1 /\ doConnect' \in BOOLEAN
  <2>1. CASE attempts + 1 < MaxAttempts
    BY <1>6, <2>1, AttemptRange DEF AttemptFailed
  <2>2. CASE ~(attempts + 1 < MaxAttempts)
    BY <1>6, <2>2, AttemptRange DEF AttemptFailed
  <2> QED BY <2>1, <2>2
<1>7. CASE ConnectFails
  BY <1>6, <1>7 DEF ConnectFails
<1>8. CASE DiscoveryFails
  BY <1>6, <1>8 DEF DiscoveryFails
<1>9. CASE SkipConnect \/ StartConnect \/ LinkUp \/ Discovered \/ Ready
  BY <1>9, AttemptRange DEF SkipConnect, StartConnect, LinkUp, Discovered, Ready, clientVars
<1>10. CASE Detach \/ Keep \/ Attach \/ Attached
  BY <1>10 DEF Detach, Keep, Attach, Attached, clientVars
<1>11. CASE Remember \/ Remembering
  BY <1>11 DEF Remember, Remembering, clientVars
<1>12. CASE MainLoop
  BY <1>12 DEF MainLoop, linkVars, clientVars
<1> QED
  BY <1>1, <1>2, <1>3, <1>4, <1>5, <1>7, <1>8, <1>9, <1>10, <1>11, <1>12
    DEF LinkNext, Host, Pass

LEMMA LinkTyped == LinkSpec => [](HandoverInv /\ LinkTypeOK)
<1>1. LinkInit => HandoverInv /\ LinkTypeOK
  BY HandoverInit, LinkTypeInit DEF LinkInit
<1>2. HandoverInv /\ LinkTypeOK /\ [LinkNext]_allVars => (HandoverInv /\ LinkTypeOK)'
  <2> HAVE HandoverInv /\ LinkTypeOK /\ [LinkNext]_allVars
  <2>1. HandoverInv'
    BY LinkStepIsSettingsStep, HandoverStep
  <2> QED BY <2>1, LinkTypeStep DEF HandoverInv
<1> QED BY <1>1, <1>2, PTL DEF LinkSpec

(* Every variable of the link keeps its type. *)
THEOREM LinkTypeCorrect == LinkSpec => []LinkTypeOK
BY LinkTyped, PTL

(***************************************************************************)
(* A link that comes and goes under the handover is one of the callers     *)
(* Settings is written for, so NeverTorn holds of the whole.               *)
(***************************************************************************)
THEOREM LinkImplementsSettings == LinkSpec => Spec
<1>1. LinkInit => Init
  BY DEF LinkInit
<1> QED BY <1>1, LinkTyped, LinkStepIsSettingsStep, PTL DEF LinkSpec, Spec

-----------------------------------------------------------------------------
(* Pinned for good. *)

Own == {target, NoMac}

(* Everything that may become a peer or a saved address on its way there.  *)
Pinned ==
  /\ found \in Own /\ peer \in Own /\ handed \in Own
  /\ buf.front \in Own /\ got.front \in Own /\ got.back \in Own
  /\ bmsMac.front \in Own
  /\ open => flash.front \in Own

Blank ==
  /\ found = NoMac /\ peer = NoMac /\ handed = NoMac
  /\ buf = Empty /\ got = Empty /\ bmsMac = Empty
  /\ open = FALSE /\ target = NoMac
  /\ linked = FALSE /\ pc = "client" /\ wpc = "idle" /\ lpc = "poll"

PinnedInv ==
  /\ target # NoMac => Pinned
  /\ ~up => Blank

(* A whole address is given by either half. *)
LEMMA WholeByHalf ==
  ASSUME NEW a \in Address, IsWhole(a)
  PROVE  a = Whole(a.front)
BY DEF Address, IsWhole, Whole

LEMMA PinnedInit == LinkInit => PinnedInv
BY DEF LinkInit, Init, PinnedInv, Blank

(* Nothing but Boot happens without power. *)
LEMMA PowerFirst ==
  ASSUME PinnedInv, LinkNext
  PROVE  up \/ BootLink
<1> SUFFICES ASSUME ~up PROVE BootLink
  OBVIOUS
<1>1. Blank
  BY DEF PinnedInv
<1> QED BY <1>1
  DEF Blank, LinkNext, PowerCutLink, PowerCut, Host, LinkDown, Hear, Pass, SkipConnect,
    StartConnect, ConnectFails, LinkUp, Discovered, Ready, DiscoveryFails, Detach, Keep, Attach,
    Remember, Remembering, Attached, MainLoop, Loop, Poll, CopyFront, CopyBack, LowerFlag,
    Commit, Forget

(* A step of a running board that leaves the pin and NVS alone keeps the   *)
(* invariant if every address it moves is one the pin allows.              *)
LEMMA SamePin ==
  ASSUME PinnedInv, up, UNCHANGED << target, up, open >>,
         target # NoMac /\ Pinned => Pinned'
  PROVE  PinnedInv'
BY DEF PinnedInv

LEMMA PinnedStep ==
  HandoverInv /\ LinkTypeOK /\ PinnedInv /\ [LinkNext]_allVars => PinnedInv'
<1> SUFFICES ASSUME HandoverInv, LinkTypeOK, PinnedInv, LinkNext
             PROVE  PinnedInv'
  <2>1. UNCHANGED allVars /\ PinnedInv => PinnedInv'
    BY DEF allVars, vars, linkVars, clientVars, savedVars, writerVars, loopVars,
      PinnedInv, Pinned, Own, Blank
  <2> QED BY <2>1
<1>1. CASE BootLink
  <2>1. Blank /\ bmsMac' = (IF open' THEN flash ELSE Empty) /\ up' = TRUE
    BY <1>1 DEF BootLink, Boot, PinnedInv
  <2>2. /\ UNCHANGED << flash, found, peer, handed, buf, got >>
        /\ target' = IF bmsMac' # Empty THEN bmsMac'.front ELSE CfgMac
    BY <1>1 DEF BootLink, SetTarget, Boot, writerVars, loopVars
  <2>3. Empty.front = NoMac /\ Empty.back = NoMac
    BY DEF Empty, Whole
  <2>4. bmsMac'.front \in Own'
    BY <2>2, <2>3 DEF Own
  <2>5. open' => flash'.front \in Own'
    BY <2>1, <2>2, <2>4
  <2> QED BY <2>1, <2>2, <2>3, <2>4, <2>5 DEF PinnedInv, Pinned, Blank, Own
<1>2. CASE PowerCutLink
  BY <1>2 DEF PowerCutLink, PowerCut, PinnedInv, Blank
<1>3. CASE ~BootLink /\ ~PowerCutLink
  <2> USE DEF Pinned, Own
  <2>1. up
    BY <1>3, PowerFirst
  <2>2. CASE LinkDown
    BY <2>1, <2>2, SamePin DEF LinkDown, vars, savedVars, writerVars, loopVars
  <2>3. ASSUME NEW mac \in Macs, Hear(mac) PROVE PinnedInv'
    BY <2>1, <2>3, SamePin DEF Hear, Matches, vars, savedVars, writerVars, loopVars
  <2>4. CASE LinkUp
    BY <2>1, <2>4, SamePin DEF LinkUp, vars, savedVars, writerVars, loopVars
  <2>5. CASE SkipConnect \/ StartConnect \/ ConnectFails \/ Discovered \/ Ready \/ DiscoveryFails
    <3>1. UNCHANGED << vars, target, found, peer >>
      BY <2>5 DEF SkipConnect, StartConnect, ConnectFails, Discovered, Ready, DiscoveryFails,
        clientVars
    <3> QED BY <2>1, <3>1, SamePin DEF vars, savedVars, writerVars, loopVars
  <2>6. CASE Detach \/ Keep \/ Attach \/ Attached
    <3>1. UNCHANGED << vars, target, found, peer >>
      BY <2>6 DEF Detach, Keep, Attach, Attached, clientVars
    <3> QED BY <2>1, <3>1, SamePin DEF vars, savedVars, writerVars, loopVars
  <2>7. CASE Remember
    <3>1. handed' \in {handed, peer} /\ UNCHANGED << up, savedVars, buf, got, clientVars >>
      BY <2>7 DEF Remember, HandOver, writerVars, loopVars
    <3> QED BY <2>1, <3>1, SamePin DEF savedVars, clientVars
  <2>8. CASE Remembering
    <3>1. UNCHANGED << up, savedVars, got, clientVars >>
      BY <2>8 DEF Remembering, FillFront, FillBack, RaiseFlag, loopVars
    <3>2. handed' \in {handed, NoMac} /\ buf'.front \in {buf.front, handed'}
      <4>1. /\ handed \in MacOrNone /\ buf \in Address /\ NoMac \in MacOrNone
        BY EmptyWhole DEF HandoverInv, TypeOK
      <4>2. CASE FillFront(peer # NoMac)
        BY <4>1, <4>2, Halves DEF FillFront
      <4>3. CASE FillBack
        BY <4>1, <4>3, Halves DEF FillBack
      <4>4. CASE RaiseFlag
        BY <4>4 DEF RaiseFlag
      <4> QED BY <2>8, <4>2, <4>3, <4>4 DEF Remembering
    <3> QED BY <2>1, <3>1, <3>2, SamePin DEF savedVars, clientVars
  <2>9. CASE MainLoop
    <3>1. UNCHANGED << up, open, buf, handed, target, found, peer >>
      BY <2>9 DEF MainLoop, Loop, Poll, CopyFront, CopyBack, LowerFlag, Commit, Forget,
        linkVars, clientVars, savedVars, writerVars
    <3>2. /\ got \in Address /\ buf \in Address
          /\ Empty.front = NoMac /\ Empty.back = NoMac
      BY DEF HandoverInv, TypeOK, Empty, Whole
    <3>3. CASE Poll \/ LowerFlag
      BY <2>1, <3>1, <3>3, SamePin DEF Poll, LowerFlag, savedVars
    <3>4. CASE CopyFront
      <4>1. got'.front = buf.front /\ got'.back = got.back
        BY <3>2, <3>4, Halves DEF CopyFront
      <4> QED BY <2>1, <3>1, <3>4, <4>1, SamePin DEF CopyFront, savedVars
    <3>5. CASE CopyBack
      <4>1. got'.back = buf.back /\ got'.front = got.front /\ buf.back = buf.front
        BY <3>2, <3>5, Halves DEF CopyBack, HandoverInv, IsWhole
      <4> QED BY <2>1, <3>1, <3>5, <4>1, SamePin DEF CopyBack, savedVars
    <3>6. CASE Commit
      BY <2>1, <3>1, <3>2, <3>6, SamePin DEF Commit
    <3>7. CASE Forget
      BY <2>1, <3>1, <3>2, <3>7, SamePin DEF Forget, loopVars
    <3> QED BY <2>9, <3>3, <3>4, <3>5, <3>6, <3>7 DEF MainLoop, Loop
  <2> QED
    BY <1>3, <2>2, <2>3, <2>4, <2>5, <2>6, <2>7, <2>8, <2>9 DEF LinkNext, Host, Pass
<1> QED BY <1>1, <1>2, <1>3

(***************************************************************************)
(* A panel that started with an address, saved or compiled in, never       *)
(* connects to another pack, and never remembers or saves another.         *)
(***************************************************************************)
THEOREM StaysPinned == LinkSpec => []PinnedPack
<1>1. HandoverInv /\ PinnedInv => PinnedPack
  <2> SUFFICES ASSUME HandoverInv, PinnedInv, target # NoMac
               PROVE  /\ {found, peer} \subseteq {target, NoMac}
                      /\ bmsMac \in {Whole(target), Empty}
                      /\ open => flash \in {Whole(target), Empty}
    BY DEF PinnedPack
  <2>1. Pinned
    BY DEF PinnedInv
  <2>2. bmsMac = Whole(bmsMac.front) /\ flash = Whole(flash.front)
    BY WholeByHalf DEF HandoverInv, TypeOK, AddressesWhole
  <2> QED BY <2>1, <2>2 DEF Pinned, Own, Empty
<1> QED BY <1>1, LinkTyped, PinnedInit, PinnedStep, PTL DEF LinkSpec

=============================================================================
