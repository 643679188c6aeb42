---------------------------- MODULE MCJbdParams ----------------------------
(***************************************************************************)
(* Two calls of any kind about five registers: two of an image, the        *)
(* discharge limit, the discharge rate, and the shunt, whose replies are   *)
(* skipped.  The image has a 0, which is also what a read that timed out   *)
(* leaves; 50 is no percent there is a capacity voltage for, and 1.3 %     *)
(* loses a tenth.  One frame may be late.                                  *)
(***************************************************************************)
EXTENDS JbdParams

TheRegisters == {\h32, \h20, Discharge, Percent, Shunt}
TheOrder     == <<\h32, \h20>>
TheImages    == {<<0, 4>>}
ThePercents  == {50}
TheStored    == [r \in TheRegisters |-> CASE r = \h32 -> 1 [] r = \h20 -> 2 [] OTHER -> 65000]
TheValues    == [r \in TheRegisters |-> CASE r = \h20     -> {14600}
                                          [] r = Discharge -> {100000}
                                          [] r = Percent   -> {13}
                                          [] OTHER         -> {}]

=============================================================================
