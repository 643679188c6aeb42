---------------------------- MODULE MCEnvSensors ----------------------------
(***************************************************************************)
(* Three broadcasters for one slot, so that every one of them but the last *)
(* heard takes it from another, at any step of the main loop; one name to  *)
(* give, and a ring of two samples, which wraps.  Slots share nothing but  *)
(* the choice of the one to reuse.  Broadcasters are interchangeable, and  *)
(* no property is a liveness one.                                          *)
(***************************************************************************)
EXTENDS EnvSensors, TLC

Symmetry == Permutations(Macs)

=============================================================================
