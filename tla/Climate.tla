------------------------------ MODULE Climate ------------------------------
(***************************************************************************)
(* What the Climate page promises of its rows, with the radio, the flags   *)
(* and the rings taken away: a row is about one sensor at a time, and the  *)
(* trend behind it is made of that sensor's own samples, the latest ones,  *)
(* with a gap wherever it had nothing to say.                              *)
(*                                                                         *)
(* EnvSensors implements this with slots one task rebinds while another    *)
(* samples them (EnvSensors!Page is the refinement mapping).               *)
(***************************************************************************)
EXTENDS Naturals, Sequences

CONSTANTS
  Rows,
  Macs,           \* the sensors
  NoMac,          \* a row about no sensor
  Gap,
  Window          \* the samples a trend keeps

VARIABLES
  sensor,         \* the sensor each row is about
  trend           \* its samples, oldest first

vars == << sensor, trend >>

Init ==
  /\ sensor = [r \in Rows |-> NoMac]
  /\ trend = [r \in Rows |-> << >>]

(* A row starts over, without a sensor and without a past. *)
Vacate(r) ==
  /\ sensor' = [sensor EXCEPT ![r] = NoMac]
  /\ trend' = [trend EXCEPT ![r] = << >>]

Occupy(r, mac) ==
  /\ sensor[r] = NoMac
  /\ sensor' = [sensor EXCEPT ![r] = mac]
  /\ UNCHANGED trend

Sample(r) ==
  /\ sensor[r] # NoMac
  /\ \E sample \in {sensor[r], Gap} :
       trend' = [trend EXCEPT ![r] =
                   Append(IF Len(@) < Window THEN @ ELSE Tail(@), sample)]
  /\ UNCHANGED sensor

Next == \E r \in Rows : Vacate(r) \/ Sample(r) \/ \E mac \in Macs : Occupy(r, mac)

Spec == Init /\ [][Next]_vars

=============================================================================
