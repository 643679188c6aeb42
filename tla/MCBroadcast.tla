----------------------------- MODULE MCBroadcast -----------------------------
(***************************************************************************)
(* Two refreshes, so that one may run into a publish() that has found      *)
(* readings of the other; the current may not fit its field, as on a hard  *)
(* charge.                                                                 *)
(***************************************************************************)
EXTENDS Broadcast

WideReadings == {"current"}

=============================================================================
