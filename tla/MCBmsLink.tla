----------------------------- MODULE MCBmsLink -----------------------------
(***************************************************************************)
(* Two packs in range and no compile-time seed: the first boot takes       *)
(* whichever it hears, later ones are pinned to what was saved.  Two       *)
(* attempts stand for the code's four: one that is retried, one that gives *)
(* the address up.                                                         *)
(***************************************************************************)
EXTENDS BmsLink

=============================================================================
