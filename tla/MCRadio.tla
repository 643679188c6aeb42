------------------------------ MODULE MCRadio ------------------------------
(***************************************************************************)
(* Two fixtures, so that one connect can fail or succeed while the other   *)
(* waits its turn, and two attempts where the code has four: the first is  *)
(* retried, the second gives the address up.                               *)
(***************************************************************************)
EXTENDS Radio

=============================================================================
