------------------------------ MODULE LightLink ------------------------------
(***************************************************************************)
(* One light fixture under control: what the Lighting page asks for, what  *)
(* the lighting task writes to the controller, and what the controller's   *)
(* notifications make the page say (integrations/lighting.cpp from         *)
(* requestOn to publishOffline, core/sp107e.cpp).                          *)
(*                                                                         *)
(* The page stores what it wants and raises dirty, with nothing locked;    *)
(* the task lowers dirty and writes frame by frame; the NimBLE host task   *)
(* folds notifications in.  No callback reports a lost link: only a write  *)
(* that fails does.  A colour here is what goes over the air, colour and   *)
(* brightness already multiplied.                                          *)
(*                                                                         *)
(* FixtureInit, FixtureNext ... are called so because LightingProofs has   *)
(* this module and Radio side by side.                                     *)
(***************************************************************************)
EXTENDS Naturals, Sequences

CONSTANTS
  Colours,        \* the scaled colours
  Default,        \* defaultColour()
  None,           \* a field of confirmed that has not arrived
  MaxAir          \* bound: notifications under way at a time

ASSUME LightLinkAssumption ==
  /\ Default \in Colours /\ None \notin Colours
  /\ MaxAir \in Nat \ {0}

VARIABLES
  want,           \* wantOn and wantColour
  dirty,          \* the task is to push them
  ui,             \* the page: "mark" between a store and raising dirty
  tpc,            \* where the lighting task is with this fixture
  connected,      \* what it believes
  link,           \* whether there is a link
  lamp,           \* what the controller shows
  reply,          \* the frame it answers a query with next
  air,            \* notifications under way, oldest first
  hpc,            \* the host task: "compare" inside onNotify()
  confirmed,      \* the colour of confirmed, or None
  shownOn,        \* power_: what the page's switch says
  ours            \* colourIsOurs

page  == << want, ui >>
task  == << tpc, connected >>
radio == << link, lamp, reply, air >>
told  == << hpc, confirmed, shownOn, ours >>

fixtureVars == << page, dirty, task, radio, told >>

State == [on : BOOLEAN, colour : Colours]

FixtureInit ==
  /\ want = [on |-> FALSE, colour |-> Default] /\ dirty = TRUE /\ ui = "idle"
  /\ tpc = "idle" /\ connected = FALSE
  /\ link = FALSE /\ lamp \in State /\ reply = "none" /\ air = << >>
  /\ hpc = "idle" /\ confirmed = None /\ shownOn = FALSE /\ ours = FALSE

-----------------------------------------------------------------------------
(* The Lighting page, on the main loop: requestOn(), setColour() and       *)
(* setBrightness() store first and raise dirty after.                      *)

AskOn(on) ==
  /\ ui = "idle"
  /\ want' = [want EXCEPT !.on = on]
  /\ ui' = "mark"
  /\ UNCHANGED << dirty, task, radio, told >>

AskColour(colour) ==
  /\ ui = "idle"
  /\ want' = [want EXCEPT !.colour = colour]
  /\ ui' = "mark"
  /\ UNCHANGED << dirty, task, radio, told >>

MarkDirty ==
  /\ ui = "mark"
  /\ dirty' = TRUE
  /\ ui' = "idle"
  /\ UNCHANGED << want, task, radio, told >>

-----------------------------------------------------------------------------
(* The lighting task. *)

(* connectFixture(): up again ... *)
Connect ==
  /\ tpc = "idle" /\ ~connected /\ ~link /\ hpc = "idle"
  /\ link' = TRUE /\ connected' = TRUE
  /\ tpc' = "met"
  /\ UNCHANGED << page, dirty, lamp, reply, air, told >>

(* ... forget what the last link said, and push our state onto a fixture   *)
(* we just met.                                                            *)
Met ==
  /\ tpc = "met"
  /\ confirmed' = None /\ ours' = FALSE
  /\ dirty' = TRUE
  /\ tpc' = "idle"
  /\ UNCHANGED << page, connected, radio, hpc, shownOn >>

(* serviceLink(): dirty first, so that what is asked for from here on is   *)
(* pushed again ...                                                        *)
Push ==
  /\ tpc = "idle" /\ connected /\ dirty
  /\ dirty' = FALSE
  /\ tpc' = "colour"
  /\ UNCHANGED << page, connected, radio, told >>

Written_PowerFirst ==
  IF tpc = "power" THEN [lamp EXCEPT !.colour = want.colour]
                   ELSE [lamp EXCEPT !.on = want.on]

(* ... colour, then power, each as wanted by now ... *)
Written ==
  IF tpc = "colour" THEN [lamp EXCEPT !.colour = want.colour]
                    ELSE [lamp EXCEPT !.on = want.on]

WriteFrame_ClearAfter ==
  /\ tpc \in {"colour", "power"} /\ link
  /\ lamp' = Written
  /\ tpc' = IF tpc = "colour" THEN "power" ELSE "query"
  /\ dirty' = FALSE
  /\ UNCHANGED << page, connected, link, reply, air, told >>

WriteFrame_NoQuery ==
  /\ tpc \in {"colour", "power"} /\ link
  /\ lamp' = Written
  /\ tpc' = IF tpc = "colour" THEN "power" ELSE "idle"
  /\ UNCHANGED << page, dirty, connected, link, reply, air, told >>

WriteFrame ==
  /\ tpc \in {"colour", "power"} /\ link
  /\ lamp' = Written
  /\ tpc' = IF tpc = "colour" THEN "power" ELSE "query"
  /\ UNCHANGED << page, dirty, connected, link, reply, air, told >>

(* ... and a query, which the controller answers with two notifications.   *)
Query ==
  /\ tpc = "query" /\ link
  /\ reply' = "onoff"
  /\ tpc' = "idle"
  /\ UNCHANGED << page, dirty, connected, link, lamp, air, told >>

(* send(): a write that is not answered, though it may have arrived, drops *)
(* the link; publishOffline() takes back what the last one confirmed.      *)
WriteFails ==
  /\ tpc \in {"colour", "power", "query"}
  /\ lamp' \in IF link /\ tpc # "query" THEN {lamp, Written} ELSE {lamp}
  /\ connected' = FALSE
  /\ confirmed' = None /\ ours' = FALSE
  /\ tpc' = "idle"
  /\ UNCHANGED << page, dirty, link, reply, air, hpc, shownOn >>

PollDue_OnceConfirmed == ~dirty /\ confirmed = None

PollDue == ~dirty

(* Nothing to push, and kPollMs have passed.  Timing assumption: the last  *)
(* answer is over, which takes a few hundred ms (sp107e.h:91-95).          *)
Poll ==
  /\ tpc = "idle" /\ connected /\ PollDue
  /\ reply = "none"
  /\ tpc' = "query"
  /\ UNCHANGED << page, dirty, connected, radio, told >>

-----------------------------------------------------------------------------
(* The controller, and whoever else reaches it while we do not. *)

(* It sends the two frames of an answer one after the other, each with     *)
(* what it shows by then.                                                  *)
Answer ==
  /\ link /\ reply # "none" /\ Len(air) < MaxAir
  /\ air' = Append(air, [about |-> reply, lamp |-> lamp])
  /\ reply' = IF reply = "onoff" THEN "colour" ELSE "none"
  /\ UNCHANGED << page, dirty, task, link, lamp, told >>

(* Out of range, off at the wall, or a disconnect() is done. *)
LinkGone ==
  /\ link
  /\ link' = FALSE
  /\ reply' = "none" /\ air' = << >>
  /\ UNCHANGED << page, dirty, task, lamp, told >>

(* The vendor's app, which a link of ours keeps out. *)
OtherPhone ==
  /\ ~link
  /\ lamp' \in State
  /\ UNCHANGED << page, dirty, task, link, reply, air, told >>

(* bind() finds it again and starts over with the default colour. *)
Rebind ==
  /\ ~connected /\ tpc = "idle"
  /\ want' = [want EXCEPT !.colour = Default]
  /\ UNCHANGED << ui, dirty, task, radio, told >>

-----------------------------------------------------------------------------
(* The NimBLE host task: onNotify(). *)

(* sp107eFeed() merges one frame; the switch moves on what was confirmed.  *)
Feed ==
  /\ hpc = "idle" /\ air # << >>
  /\ IF Head(air).about = "onoff"
     THEN shownOn' = Head(air).lamp.on /\ UNCHANGED confirmed
     ELSE confirmed' = Head(air).lamp.colour /\ UNCHANGED shownOn
  /\ air' = Tail(air)
  /\ hpc' = "compare"
  /\ UNCHANGED << page, dirty, task, link, lamp, reply, ours >>

(* sp107eColourMatches(): not before the colour frame has arrived. *)
Matches == confirmed # None /\ confirmed = want.colour

(* Then, is the colour the one we asked for? *)
Compare ==
  /\ hpc = "compare"
  /\ ours' = Matches
  /\ hpc' = "idle"
  /\ UNCHANGED << page, dirty, task, radio, confirmed, shownOn >>

-----------------------------------------------------------------------------
Page  == (\E on \in BOOLEAN : AskOn(on)) \/ (\E c \in Colours : AskColour(c))
Task  == Met \/ Push \/ WriteFrame \/ Query \/ WriteFails \/ Poll
Notify == Answer \/ Feed \/ Compare
World == Connect \/ LinkGone \/ OtherPhone \/ Rebind

FixtureNext == Page \/ MarkDirty \/ Task \/ Notify \/ World

(* The loops run, and a controller that is there answers. *)
FixtureFairness ==
  /\ WF_fixtureVars(MarkDirty) /\ WF_fixtureVars(Task)
  /\ WF_fixtureVars(Answer) /\ WF_fixtureVars(Feed \/ Compare)

FixtureSpec     == FixtureInit /\ [][FixtureNext]_fixtureVars
FairFixtureSpec == FixtureSpec /\ FixtureFairness

-----------------------------------------------------------------------------
FixtureTypeOK ==
  /\ want \in State /\ lamp \in State
  /\ ui \in {"idle", "mark"} /\ hpc \in {"idle", "compare"}
  /\ tpc \in {"idle", "met", "colour", "power", "query"}
  /\ {dirty, connected, link, shownOn, ours} \subseteq BOOLEAN
  /\ reply \in {"none", "onoff", "colour"}
  /\ Len(air) <= MaxAir
  /\ \A i \in 1 .. Len(air) : air[i].about \in {"onoff", "colour"} /\ air[i].lamp \in State
  /\ confirmed \in Colours \cup {None}

(***************************************************************************)
(* "A light turned on never flashes the previous colour"                   *)
(* (lighting.cpp:306-307): when we light a lamp it shows the colour wanted *)
(* at that moment, or a newer request is still to be pushed.               *)
(***************************************************************************)
NeverFlashes ==
  [][link /\ ~lamp.on /\ lamp'.on =>
       lamp.colour = want.colour \/ dirty \/ ui = "mark"]_fixtureVars

(***************************************************************************)
(* With nothing under way, the page tells the truth: the switch says what  *)
(* the lamp does, and the swatch is claimed exactly when it is the one     *)
(* that is lit - whatever was asked, written, failed or notified in which  *)
(* order before (lighting.cpp:301-319 and 381-406).                        *)
(***************************************************************************)
Quiet ==
  /\ connected /\ link /\ ~dirty
  /\ ui = "idle" /\ tpc = "idle" /\ hpc = "idle" /\ reply = "none" /\ air = << >>

QuietIsTrue == Quiet => shownOn = lamp.on /\ (ours <=> lamp.colour = want.colour)

(***************************************************************************)
(* What is asked for gets there: on a link that holds, the lamp ends up    *)
(* with the last request, and the page says so, although dirty is lowered  *)
(* before what it stands for is read.                                      *)
(***************************************************************************)
RequestsLand ==
  \A on \in BOOLEAN, c \in Colours :
    <>[](connected /\ link /\ ui = "idle" /\ want = [on |-> on, colour |-> c])
      => <>[](lamp = want /\ shownOn = on /\ ours)

(***************************************************************************)
(* A lost link is noticed although nothing reports it: the poll writes,    *)
(* and the write fails.                                                    *)
(***************************************************************************)
LossNoticed == ~link /\ connected ~> ~connected

=============================================================================
