------------------------------ MODULE MCJbdWire ------------------------------
(***************************************************************************)
(* Four answers: one whose data holds a start byte, a longer one that does *)
(* too but whose sum is wrong, one the pack refused and one without data.  *)
(* The ring has 12 cells, so that every one wraps in it.                   *)
(***************************************************************************)
EXTENDS JbdWire

Frame(cmd, status, data) ==
  [cmd |-> cmd, status |-> status, data |-> data, checksum |-> Checksum(status, data)]

TheFrames == << Frame(3, 0, << StartByte >>),
                [Frame(32, 0, << 1, StartByte >>) EXCEPT !.checksum = @ - 1],
                Frame(4, 128, << >>), Frame(0, 0, << >>) >>

=============================================================================
