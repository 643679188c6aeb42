----------------------------- MODULE AlarmPanel -----------------------------
(***************************************************************************)
(* What the alarm table promises to whoever listens to it, with the table, *)
(* its slots and the two threads that touch it taken away: a set of active *)
(* alarms and a mute that only a noticed alarm can switch on.              *)
(*                                                                         *)
(* Alarms implements this with a fixed table that one task writes slot by  *)
(* slot while another reads it (Alarms!Panel is the refinement mapping).   *)
(***************************************************************************)

CONSTANT Ids            \* the alarm ids the integrations raise

VARIABLES
  active,               \* the ids whose fault is raised
  noticed,              \* a crew member saw an alarm and has not muted yet
  muted                 \* the audible part is off

vars == << active, noticed, muted >>

Init ==
  /\ active = {}
  /\ noticed = FALSE
  /\ muted = FALSE

Raise(id) ==
  /\ active' = active \cup {id}
  /\ UNCHANGED << noticed, muted >>

Clear(id) ==
  /\ active' = active \ {id}
  /\ UNCHANGED << noticed, muted >>

(* The mute is lifted only once every alarm is gone. *)
Unmute ==
  /\ active = {}
  /\ muted' = FALSE
  /\ UNCHANGED << active, noticed >>

(* Only an alarm that is active can be noticed, and only then silenced. *)
Notice ==
  /\ active # {}
  /\ noticed' = TRUE
  /\ UNCHANGED << active, muted >>

Silence ==
  /\ noticed
  /\ noticed' = FALSE
  /\ muted' = TRUE
  /\ UNCHANGED active

Next ==
  \/ \E id \in Ids : Raise(id) \/ Clear(id)
  \/ Unmute
  \/ Notice
  \/ Silence

Spec == Init /\ [][Next]_vars

=============================================================================
