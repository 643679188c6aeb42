---------------------------- MODULE MCLightLink ----------------------------
(***************************************************************************)
(* Two colours, so that one can be wanted while the other is lit, and two  *)
(* notifications under way: a whole answer, or the end of one and the      *)
(* start of the next.                                                      *)
(***************************************************************************)
EXTENDS LightLink

=============================================================================
