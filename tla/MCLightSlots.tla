---------------------------- MODULE MCLightSlots ----------------------------
(***************************************************************************)
(* Two lamps for two slots: the least in which a lamp can come back into   *)
(* the other one's slot and both slots can end up saved with one address.  *)
(***************************************************************************)
EXTENDS LightSlots

=============================================================================
