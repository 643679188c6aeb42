----------------------------- MODULE LightSlots -----------------------------
(***************************************************************************)
(* Which lamp is "Light 2": the slot table of integrations/lighting.cpp    *)
(* (Finder, bind, begin, loop, the give-up of serviceConnects) and the     *)
(* addresses core/settings.cpp keeps for it in NVS.                        *)
(*                                                                         *)
(* bind() runs on the NimBLE host task, connects on the lighting task,     *)
(* commits and the Settings page on the main loop.  A bind is three steps, *)
(* because the flags it raises are what the other two act on.  How the     *)
(* radio is shared is module Radio's, what a link carries is LightLink's.  *)
(***************************************************************************)
EXTENDS Naturals

CONSTANTS
  Lamps,          \* the addresses of the fixtures in range
  NoLamp,         \* the empty string
  NSlots          \* kMaxFixtures

ASSUME LightSlotsAssumption ==
  /\ NoLamp \notin Lamps
  /\ NSlots \in Nat \ {0}

VARIABLES
  up,             \* the board has power and begin() has run
  open,           \* this boot could open NVS
  flash,          \* what NVS holds for each slot
  lightMac,       \* lightMac_: Settings' copy of it
  mac,            \* the address in each slot
  haveAddress,    \* it may be connected to
  needsCommit,
  registered,     \* the page shows the slot
  slotOnline,     \* connected
  host,           \* where the host task is in bind()
  at              \* the slot it is binding

saved     == << open, flash, lightMac >>
table     == << mac, haveAddress, needsCommit, registered, slotOnline >>
slotsVars == << up, saved, table, host, at >>

Slots == 1 .. NSlots
Free  == {s \in Slots : ~haveAddress[s]}

SlotsInit ==
  /\ up = FALSE /\ open = FALSE
  /\ flash = [s \in Slots |-> NoLamp] /\ lightMac = [s \in Slots |-> NoLamp]
  /\ mac = [s \in Slots |-> NoLamp]
  /\ haveAddress = [s \in Slots |-> FALSE] /\ needsCommit = [s \in Slots |-> FALSE]
  /\ registered = [s \in Slots |-> FALSE] /\ slotOnline = [s \in Slots |-> FALSE]
  /\ host = "idle" /\ at = 1

-----------------------------------------------------------------------------
(* Power. *)

(* Settings::begin() reads the slots, Lighting::begin() brings back bound  *)
(* and shown every one that was remembered.                                *)
Boot ==
  /\ ~up
  /\ up' = TRUE
  /\ \E ok \in BOOLEAN :
       /\ open' = ok
       /\ lightMac' = IF ok THEN flash ELSE lightMac
  /\ mac' = lightMac'
  /\ haveAddress' = [s \in Slots |-> lightMac'[s] # NoLamp]
  /\ registered' = haveAddress'
  /\ UNCHANGED << flash, needsCommit, slotOnline, host, at >>

PowerCut ==
  /\ up
  /\ up' = FALSE /\ open' = FALSE
  /\ lightMac' = [s \in Slots |-> NoLamp] /\ mac' = [s \in Slots |-> NoLamp]
  /\ haveAddress' = [s \in Slots |-> FALSE] /\ needsCommit' = [s \in Slots |-> FALSE]
  /\ registered' = [s \in Slots |-> FALSE] /\ slotOnline' = [s \in Slots |-> FALSE]
  /\ host' = "idle" /\ at' = 1
  /\ UNCHANGED flash

-----------------------------------------------------------------------------
(* The NimBLE host task: bind(), for every advertisement of a fixture. *)

Bound_GivenUpToo(lamp) == \E s \in Slots : mac[s] = lamp

(* A slot that gave up on the address it still holds does not count. *)
Bound(lamp) == \E s \in Slots : haveAddress[s] /\ mac[s] = lamp

(* The first slot that holds no address takes the lamp ... *)
Bind(lamp) ==
  /\ up /\ host = "idle"
  /\ ~Bound(lamp)
  /\ \E s \in Free :
       /\ \A t \in Free : s <= t
       /\ mac' = [mac EXCEPT ![s] = lamp]
       /\ at' = s
  /\ host' = "publish"
  /\ UNCHANGED << up, saved, haveAddress, needsCommit, registered, slotOnline >>

(* ... hands it to the lighting task ... *)
Publish ==
  /\ host = "publish"
  /\ haveAddress' = [haveAddress EXCEPT ![at] = TRUE]
  /\ host' = "commit"
  /\ UNCHANGED << up, saved, mac, needsCommit, registered, slotOnline, at >>

AskCommit_OnlyNew ==
  /\ host = "commit"
  /\ needsCommit' = [needsCommit EXCEPT ![at] = ~registered[at]]
  /\ host' = "idle"
  /\ UNCHANGED << up, saved, mac, haveAddress, registered, slotOnline, at >>

(* ... and asks the main loop to remember it. *)
AskCommit ==
  /\ host = "commit"
  /\ needsCommit' = [needsCommit EXCEPT ![at] = TRUE]
  /\ host' = "idle"
  /\ UNCHANGED << up, saved, mac, haveAddress, registered, slotOnline, at >>

-----------------------------------------------------------------------------
(* The lighting task: serviceConnects(). *)

(* NimBLE refuses a second link to a lamp that already has one. *)
ConnectSlot(s) ==
  /\ haveAddress[s] /\ ~slotOnline[s]
  /\ \A t \in Slots : slotOnline[t] => mac[t] # mac[s]
  /\ slotOnline' = [slotOnline EXCEPT ![s] = TRUE]
  /\ UNCHANGED << up, saved, mac, haveAddress, needsCommit, registered, host, at >>

(* The last attempt failed: search again, by letting go of the address.    *)
(* Timing assumption: kMaxConnectAttempts with kRetryScanMs between them   *)
(* last seconds, so the bind is over and loop() has come by, at ~4 Hz.     *)
GiveUp(s) ==
  /\ haveAddress[s] /\ ~slotOnline[s]
  /\ ~needsCommit[s] /\ ~(host = "commit" /\ at = s)
  /\ haveAddress' = [haveAddress EXCEPT ![s] = FALSE]
  /\ UNCHANGED << up, saved, mac, needsCommit, registered, slotOnline, host, at >>

(* A write failed. *)
Drop(s) ==
  /\ slotOnline[s]
  /\ slotOnline' = [slotOnline EXCEPT ![s] = FALSE]
  /\ UNCHANGED << up, saved, mac, haveAddress, needsCommit, registered, host, at >>

-----------------------------------------------------------------------------
(* The main loop. *)

Remember_OnlyEmpty(s) ==
  /\ lightMac' = IF lightMac[s] = NoLamp THEN [lightMac EXCEPT ![s] = mac[s]] ELSE lightMac
  /\ flash' = IF open /\ lightMac[s] = NoLamp THEN [flash EXCEPT ![s] = mac[s]] ELSE flash

(* setLightMac(): no flash write for the address it already has. *)
Remember(s) ==
  /\ lightMac' = [lightMac EXCEPT ![s] = mac[s]]
  /\ flash' = IF open /\ mac[s] # lightMac[s] THEN [flash EXCEPT ![s] = mac[s]] ELSE flash

(* Lighting::loop(): a slot that was bound is shown and remembered. *)
Commit(s) ==
  /\ needsCommit[s]
  /\ needsCommit' = [needsCommit EXCEPT ![s] = FALSE]
  /\ registered' = [registered EXCEPT ![s] = TRUE]
  /\ Remember(s)
  /\ UNCHANGED << up, open, mac, haveAddress, slotOnline, host, at >>

(* clearLightMacs(): forgets what is saved, "it takes effect at the next   *)
(* boot" (ui.cpp:352).                                                     *)
ForgetAll ==
  /\ up
  /\ lightMac' = [s \in Slots |-> NoLamp]
  /\ flash' = IF open THEN [s \in Slots |-> NoLamp] ELSE flash
  /\ UNCHANGED << up, open, table, host, at >>

-----------------------------------------------------------------------------
SlotsHost == (\E lamp \in Lamps : Bind(lamp)) \/ Publish \/ AskCommit
SlotsTask == \E s \in Slots : ConnectSlot(s) \/ GiveUp(s) \/ Drop(s)
SlotsMain == (\E s \in Slots : Commit(s)) \/ ForgetAll

SlotsNext == Boot \/ PowerCut \/ SlotsHost \/ SlotsTask \/ SlotsMain

(* A lamp with power advertises until it is bound; the tasks run; a slot   *)
(* that stays offline runs out of attempts.  Links promise nothing.        *)
SlotsFairness ==
  /\ \A lamp \in Lamps : SF_slotsVars(Bind(lamp))
  /\ WF_slotsVars(Publish) /\ WF_slotsVars(AskCommit)
  /\ \A s \in 1 .. NSlots : WF_slotsVars(GiveUp(s)) /\ WF_slotsVars(Commit(s))

SlotsSpec     == SlotsInit /\ [][SlotsNext]_slotsVars
FairSlotsSpec == SlotsSpec /\ SlotsFairness

-----------------------------------------------------------------------------
SlotsTypeOK ==
  /\ up \in BOOLEAN /\ open \in BOOLEAN
  /\ flash \in [Slots -> Lamps \cup {NoLamp}]
  /\ lightMac \in [Slots -> Lamps \cup {NoLamp}]
  /\ mac \in [Slots -> Lamps \cup {NoLamp}]
  /\ haveAddress \in [Slots -> BOOLEAN] /\ needsCommit \in [Slots -> BOOLEAN]
  /\ registered \in [Slots -> BOOLEAN] /\ slotOnline \in [Slots -> BOOLEAN]
  /\ host \in {"idle", "publish", "commit"} /\ at \in Slots

(***************************************************************************)
(* Once the main loop has come by, a row of the page and the address saved *)
(* for it are about the lamp the slot holds: a slot that was bound again   *)
(* to another lamp is never left remembering the last one                  *)
(* (lighting.cpp:63-90 and 160-170, settings.cpp:72-83).                   *)
(***************************************************************************)
Busy(s) == needsCommit[s] \/ (host # "idle" /\ at = s)

SavedIsBound ==
  \A s \in Slots : haveAddress[s] /\ ~Busy(s) =>
    /\ registered[s]
    /\ lightMac[s] \in {mac[s], NoLamp}
    /\ open => flash[s] = lightMac[s]

(***************************************************************************)
(* A lamp that was bound is remembered for its slot, unless the power goes *)
(* first: neither Forget nor a give-up in between loses the commit.        *)
(***************************************************************************)
BoundIsSaved ==
  \A s \in 1 .. NSlots, lamp \in Lamps :
    needsCommit[s] /\ mac[s] = lamp ~> lightMac[s] = lamp \/ ~up

(***************************************************************************)
(* No lamp is lost: with power on, links that settle and as many slots as  *)
(* lamps, every lamp has a slot again and again, even after two slots came *)
(* back from NVS with one address, or after its own slot gave up on it.    *)
(***************************************************************************)
EveryLampServed ==
  <>[]up /\ (\A s \in 1 .. NSlots : <>[]slotOnline[s] \/ <>[]~slotOnline[s]) =>
    \A lamp \in Lamps : []<>(\E s \in Slots : haveAddress[s] /\ mac[s] = lamp)

(***************************************************************************)
(* "The slot keeps its MAC in NVS, so it comes back as the same light"     *)
(* (lighting.cpp:285-286): only Forget changes what is saved for a slot.   *)
(***************************************************************************)
SlotKeepsLamp ==
  [][\A s \in Slots : flash[s] # NoLamp => flash'[s] \in {flash[s], NoLamp}]_slotsVars

=============================================================================
