------------------------------ MODULE MCAlarms ------------------------------
(***************************************************************************)
(* Three ids of both severities, visited in a fixed order: enough for one  *)
(* alarm to be swapped for another inside a single evaluation, in a slot   *)
(* before or behind the one the main loop is scanning.                     *)
(***************************************************************************)
EXTENDS Alarms, TLC

CONSTANTS over, short, cold

MCIds   == {over, short, cold}
MCOrder == 1 :> over @@ 2 :> short @@ 3 :> cold
MCSevOf == over :> Critical @@ short :> Critical @@ cold :> Warning

=============================================================================
