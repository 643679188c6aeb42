----------------------------- MODULE MCBmsData -----------------------------
(***************************************************************************)
(* Two links, which may be to two packs, and two of the six limits: a      *)
(* scaled one and the discharge one; a plain one is a scaled one that does *)
(* not look at whether anything has failed.  Two attempts stand            *)
(* for the three of a query and for the five of a read: one that is made   *)
(* again, one that is not.                                                 *)
(***************************************************************************)
EXTENDS BmsSession

LimitKinds == << "scaled", "discharge" >>

=============================================================================
