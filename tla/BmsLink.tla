------------------------------ MODULE BmsLink ------------------------------
(***************************************************************************)
(* Which battery the panel is attached to: BleSerialClient (hear a pack,   *)
(* connect, retry, give up), the attach and detach of JbdBms::service(),   *)
(* and the address handed to Settings on every attach.                     *)
(*                                                                         *)
(* Three contexts interleave: the NimBLE host task (Hear, LinkUp and       *)
(* LinkDown), the BMS task (one pass of service() after the other), and    *)
(* the main loop and the power of module Settings.  How the radio is       *)
(* shared with the scanner is module Radio's: here a connect may start     *)
(* whenever the client wants one.                                          *)
(***************************************************************************)
EXTENDS Settings, Naturals

CONSTANTS
  CfgMac,          \* CFG_BMS_MAC, the compile-time seed
  MaxAttempts      \* kMaxConnectAttempts

ASSUME BmsLinkAssumption ==
  /\ CfgMac \in MacOrNone
  /\ MaxAttempts \in Nat \ {0}

VARIABLES
  target,          \* targetAddress
  found,           \* foundAddress
  doConnect,       \* the pack found is to be connected to
  attempts,        \* connectAttempts
  linked,          \* NimBLE has a link to a pack
  bleConnected,    \* bleConnected, what the client believes
  closing,         \* disconnect() was asked for and has not happened yet
  peer,            \* peerAddress_
  attached,        \* bmsAttached_
  pc               \* where the BMS task is in service()

clientVars == << target, found, doConnect, attempts, linked, bleConnected, closing, peer >>
linkVars   == << clientVars, attached, pc >>
allVars    == << vars, linkVars >>

LinkInit ==
  /\ Init
  /\ target = NoMac /\ found = NoMac /\ doConnect = FALSE /\ attempts = 0
  /\ linked = FALSE /\ bleConnected = FALSE /\ closing = FALSE /\ peer = NoMac
  /\ attached = FALSE /\ pc = "client"

-----------------------------------------------------------------------------
(* Power, through setup(): JbdBms::begin() pins the client. *)

(* A remembered address wins over the compile-time one. *)
SetTarget == target' = IF bmsMac' # Empty THEN bmsMac'.front ELSE CfgMac

BootLink ==
  /\ Boot
  /\ SetTarget
  /\ UNCHANGED << found, doConnect, attempts, linked, bleConnected, closing, peer >>
  /\ UNCHANGED << attached, pc >>

PowerCutLink ==
  /\ PowerCut
  /\ target' = NoMac /\ found' = NoMac /\ doConnect' = FALSE /\ attempts' = 0
  /\ linked' = FALSE /\ bleConnected' = FALSE /\ closing' = FALSE /\ peer' = NoMac
  /\ attached' = FALSE /\ pc' = "client"

-----------------------------------------------------------------------------
(* The NimBLE host task. *)

Matches_Always(mac) == TRUE

(* An empty target means take the first. *)
Matches(mac) == target = NoMac \/ mac = target

(* onAdvertisement().  The scan is down while a connect is in progress. *)
Hear(mac) ==
  /\ up /\ pc \notin {"connect", "discover", "ready"}
  /\ ~bleConnected
  /\ IF Matches(mac) THEN found' = mac /\ doConnect' = TRUE
                     ELSE UNCHANGED << found, doConnect >>
  /\ UNCHANGED << vars, target, attempts, linked, bleConnected, closing, peer >>
  /\ UNCHANGED << attached, pc >>

(* onDisconnect(): the pack went, or the disconnect() asked for is done. *)
LinkDown ==
  /\ linked
  /\ linked' = FALSE /\ bleConnected' = FALSE /\ closing' = FALSE
  /\ peer' = NoMac
  /\ UNCHANGED << vars, target, found, doConnect, attempts, attached, pc >>

-----------------------------------------------------------------------------
(* The BMS task: bleLoop() ... *)

(* Nothing to connect to, or not yet. *)
SkipConnect ==
  /\ up /\ pc = "client"
  /\ pc' = "attach"
  /\ UNCHANGED << vars, clientVars, attached >>

StartConnect ==
  /\ up /\ pc = "client" /\ doConnect
  /\ pc' = "connect"
  /\ UNCHANGED << vars, clientVars, attached >>

(* A failed attempt keeps the address, until the last one. *)
AttemptFailed ==
  IF attempts + 1 < MaxAttempts
  THEN attempts' = attempts + 1 /\ UNCHANGED doConnect
  ELSE attempts' = 0 /\ doConnect' = FALSE

(* connect() failed: out of range, or the last link is not down yet. *)
ConnectFails ==
  /\ pc = "connect"
  /\ AttemptFailed
  /\ pc' = "attach"
  /\ UNCHANGED << vars, target, found, linked, bleConnected, closing, peer, attached >>

(* onConnect(), and connect() returns true. *)
LinkUp ==
  /\ pc = "connect" /\ ~linked
  /\ linked' = TRUE /\ bleConnected' = TRUE
  /\ peer' = found
  /\ pc' = "discover"
  /\ UNCHANGED << vars, target, found, doConnect, attempts, closing, attached >>

(* The service and both characteristics are there ... *)
Discovered ==
  /\ pc = "discover" /\ linked
  /\ pc' = "ready"
  /\ UNCHANGED << vars, clientVars, attached >>

(* ... and bleConnected = true, whatever onDisconnect() said meanwhile. *)
Ready ==
  /\ pc = "ready"
  /\ bleConnected' = TRUE
  /\ doConnect' = FALSE /\ attempts' = 0
  /\ pc' = "attach"
  /\ UNCHANGED << vars, target, found, linked, closing, peer, attached >>

(* One is not, or the link is gone already: disconnect(), which is done    *)
(* when the host says so.                                                  *)
DiscoveryFails ==
  /\ pc = "discover"
  /\ closing' = linked
  /\ AttemptFailed
  /\ pc' = "attach"
  /\ UNCHANGED << vars, target, found, linked, bleConnected, peer, attached >>

(* ... and the rest of service(). *)

Detach_Never ==
  /\ pc = "attach" /\ ~bleConnected /\ attached
  /\ pc' = "client"
  /\ UNCHANGED << vars, clientVars, attached >>

(* connected(), sampled once, against bmsAttached_. *)
Detach ==
  /\ pc = "attach" /\ ~bleConnected /\ attached
  /\ attached' = FALSE
  /\ pc' = "client"
  /\ UNCHANGED << vars, clientVars >>

Keep ==
  /\ pc = "attach" /\ bleConnected = attached
  /\ pc' = "client"
  /\ UNCHANGED << vars, clientVars, attached >>

Attach ==
  /\ pc = "attach" /\ bleConnected /\ ~attached
  /\ pc' = "remember"
  /\ UNCHANGED << vars, clientVars, attached >>

(* rememberBmsMacFromTask(peerAddress()), with whatever is there by now. *)
Remember ==
  /\ pc = "remember"
  /\ HandOver(peer)
  /\ pc' = IF wpc' = "idle" THEN "attached" ELSE "copying"
  /\ UNCHANGED << clientVars, attached >>

(* The copy reads peerAddress_ itself, which onDisconnect() may clear. *)
Remembering ==
  /\ pc = "copying"
  /\ FillFront(peer # NoMac) \/ FillBack \/ RaiseFlag
  /\ pc' = IF wpc' = "idle" THEN "attached" ELSE "copying"
  /\ UNCHANGED << clientVars, attached >>

Attached ==
  /\ pc = "attached"
  /\ attached' = TRUE
  /\ pc' = "client"
  /\ UNCHANGED << vars, clientVars >>

-----------------------------------------------------------------------------
Host == LinkDown \/ \E mac \in Macs : Hear(mac)

Pass ==
  \/ SkipConnect \/ StartConnect \/ ConnectFails \/ LinkUp
  \/ Discovered \/ Ready \/ DiscoveryFails
  \/ Detach \/ Keep \/ Attach \/ Remember \/ Remembering \/ Attached

MainLoop == (Loop \/ Forget) /\ UNCHANGED linkVars

LinkNext == BootLink \/ PowerCutLink \/ Host \/ Pass \/ MainLoop

(* Both loops keep running.  Packs, the power and people promise nothing,  *)
(* except that a disconnect() asked for is reported.                       *)
LinkFairness ==
  /\ WF_allVars(Pass)
  /\ WF_allVars(Loop /\ UNCHANGED linkVars)
  /\ WF_allVars(LinkDown /\ closing)

LinkSpec     == LinkInit /\ [][LinkNext]_allVars
LinkFairSpec == LinkSpec /\ LinkFairness

-----------------------------------------------------------------------------
LinkTypeOK ==
  /\ TypeOK
  /\ target \in MacOrNone /\ found \in MacOrNone /\ peer \in MacOrNone
  /\ doConnect \in BOOLEAN /\ attempts \in 0 .. MaxAttempts - 1
  /\ linked \in BOOLEAN /\ bleConnected \in BOOLEAN
  /\ closing \in BOOLEAN /\ attached \in BOOLEAN
  /\ pc \in {"client", "connect", "discover", "ready", "attach", "remember",
            "copying", "attached"}

(***************************************************************************)
(* While the client is pinned, no other pack is ever connected to, and no  *)
(* other address is remembered: the check on each advertisement, the link, *)
(* the handover and the flash agree on one pack from boot to boot          *)
(* (BleSerialClient.cpp:67-72, bms_jbd.cpp:50-56).                         *)
(***************************************************************************)
PinnedPack ==
  target # NoMac =>
    /\ {found, peer} \subseteq {target, NoMac}
    /\ bmsMac \in {Whole(target), Empty}
    /\ open => flash \in {Whole(target), Empty}

(***************************************************************************)
(* An address that made it into the handover slot is committed, unless the *)
(* power goes first: neither a Forget on the Settings page, nor a detach,  *)
(* nor the next attach loses it (settings.cpp:142-176).                    *)
(***************************************************************************)
HandoverCommitted ==
  \A mac \in Macs : pending /\ buf = Whole(mac) ~> bmsMac = Whole(mac) \/ ~up

(***************************************************************************)
(* A link that stays up ends up attached, and one that is reported gone    *)
(* and stays so ends up detached, although connected() is sampled once a   *)
(* pass and the link may change under the pass that attaches               *)
(* (bms_jbd.cpp:97-119).                                                   *)
(***************************************************************************)
AttachFollowsLink ==
  /\ <>[]linked        => <>[]attached
  /\ <>[]~bleConnected => <>[]~attached

(***************************************************************************)
(* "Let the scanner look again.  It is the only thing that will re-find    *)
(* the BMS now" (BleSerialClient.cpp:51-52): a panel whose battery is gone *)
(* for good does not stay attached to it, deaf to its advertisements.      *)
(***************************************************************************)
LostPackDetached == <>[]~linked => <>[]~attached

(***************************************************************************)
(* "The address of the last BMS we successfully talked to. Empty until one *)
(* connects" (settings.h:28-29): a commit never empties the address, that  *)
(* is what Forget is for.                                                  *)
(***************************************************************************)
SavedSurvives ==
  [][lpc = "commit" /\ bmsMac # Empty => bmsMac' # Empty \/ ~up']_allVars

=============================================================================
