---------------------------- MODULE JbdRegisters ----------------------------
(***************************************************************************)
(* The parameter registers of the Overkill Solar library: how each getter  *)
(* makes a value of the word it reads, how each setter makes a word of a   *)
(* value, and which replies the receiver passes on at all.                 *)
(*                                                                         *)
(* Millivolts, milliamps and milliamp hours are integers here as there.  A *)
(* percent that is set is the single nearest to so many tenths; one that   *)
(* is read is so many times 0.1f, within a rounding of the tenths given    *)
(* for it.  Calibrations are in the register's own unit and temperatures   *)
(* in hundredths of a degree: their arithmetic is exact here, and takes    *)
(* one unit from some of them there, which no property is about.           *)
(***************************************************************************)
EXTENDS Integers, Sequences

Word == 0 .. 65535

(* The bits of a number below a power of two, and the others. *)
Low(n, power)  == n % power
High(n, power) == n \div power

-----------------------------------------------------------------------------
(* The registers by how they are read and written. *)

NumCells    == \h2F
Plain       == { \h2E, \h2D, \h12, \h13, \h2A, \h2B } \cup (\h32 .. \h35)
                 \cup (\h24 .. \h27)
Tens        == { \h10, \h11, \h20, \h21, \h22, \h23, \h28 }
Shunt       == \h2C
Percent     == \h14
MfgDate     == \h15
Temperature == (\h18 .. \h1F)
Discharge   == \h29
Delays      == (\h3A .. \h3F)

(* Written only. *)
CellCalibration    == (\hB0 .. \hCF)
CurrentCalibration == (\hAD .. \hAF)
TempCalibration    == (\hD0 .. \hD7)
CapacityLeft       == \hE0

(* The capacity voltages by percent; another one is taken for 80. *)
CapacityVoltage(percent) ==
  CASE percent = 60 -> \h33 [] percent = 40 -> \h34 [] percent = 20 -> \h35
    [] OTHER -> \h32

(* handle_rx_param() is called for these; others' replies are skipped. *)
Routed ==
  ({ NumCells, Percent, Discharge, CapacityLeft } \cup Plain \cup Tens)
    \cup Temperature \cup Delays \cup (\h36 .. \h39)
    \cup CellCalibration \cup CurrentCalibration \cup TempCalibration

(* eeprom_data_t, in the order get_params() and set_params() go through it. *)
Image ==
  << \h2F, \h2E, \h2D, \h10, \h11, \h14, \h12, \h32, \h33, \h34, \h35, \h13,
     \h2A, \h2B, \h20, \h21, \h22, \h23, \h3C, \h24, \h25, \h26, \h27, \h3D,
     \h28, \h3E, \h29, \h3F, \h18, \h19, \h1A, \h1B, \h3A, \h1C, \h1D, \h1E,
     \h1F, \h3B >>

-----------------------------------------------------------------------------
(* Of words and values. *)

DischargeWord_Positive(v) == Low(v \div 10, 65536)

DischargeWord(v) == Low(-(v \div 10), 65536)

(* write_float_param() cuts value / 0.1f off, in single precision.  For n  *)
(* tenths from 5/4 of 2^k up to 2^(k+1), the nearest single is m / 2^(26-k)*)
(* with 10 m = n 2^(26-k) + r for an even r in -4 .. 4, and 0.1f is 2^-26  *)
(* of itself above a tenth.  The quotient is rounded to n again unless     *)
(* both errors put it more than half of a last place below: if r is -4.    *)
(* Below 5/4 of 2^k singles are twice as close.  So 1.3 % is written as 12.*)
LosesTenth(n) ==
  n > 0 /\ LET k == CHOOSE k \in 0 .. 15 : 2^k <= n /\ n < 2^(k + 1)
           IN  4 * n >= 5 * 2^k /\ (n * 2^(26 - k)) % 5 = 4

PercentWord(n) == IF LosesTenth(n) THEN n - 1 ELSE n

DelayWord(d)     == Low(d.msb, 16) * 16 + Low(d.lsb, 16)
Delay(w)         == [msb |-> High(w, 256), lsb |-> Low(w, 256)]

DateWord(d) == Low(d.year, 64) * 512 + Low(d.month, 16) * 32 + Low(d.day, 32)
Date(w)     == [year  |-> Low(High(w, 512), 64), month |-> Low(High(w, 32), 16),
                day   |-> Low(w, 32)]

(* A getter of the word that was read; ok is m_param_success after it.     *)
(* Those that scale, to 32 bits or to a temperature, answer 0 without it.  *)
Get(reg, w, ok) ==
  CASE reg = NumCells             -> Low(w, 256)
    [] reg \in Plain \cup {Percent} -> w
    [] reg \in Tens               -> IF ok THEN w * 10 ELSE 0
    [] reg = Shunt                -> IF ok THEN w \div 10 ELSE 0
    [] reg = Discharge            -> (65536 - w) * 10
    [] reg \in Temperature        -> IF ok THEN w * 10 - 27315 ELSE 0
    [] reg \in Delays             -> Delay(w)
    [] reg = MfgDate              -> Date(w)

(* A setter of a value: the word it writes.  Four do not undo their        *)
(* getter: the temperatures' offset is 271.15, the delays go into a byte,  *)
(* the release of the pack's under voltage, 0x23, is not scaled, and some  *)
(* percents lose a tenth.                                                  *)
Set(reg, v) ==
  CASE reg \in Tens \ {\h23}      -> v \div 10
    [] reg = Shunt                -> v * 10
    [] reg = Discharge            -> DischargeWord(v)
    [] reg = Percent              -> PercentWord(v)
    [] reg \in Temperature \cup TempCalibration -> (v + 27115) \div 10
    [] reg \in Delays             -> DelayWord(v)
    [] reg = MfgDate              -> DateWord(v)
    [] reg = \hAD                 -> 0
    [] reg = \hAF                 -> IF v < 0 THEN -v ELSE v
    [] OTHER                      -> Low(v, 65536)

(* write_temperature_param() and the delays of 0x3B leave out their save   *)
(* argument, and it is TRUE then.                                          *)
Saves(reg, save) ==
  save \/ reg \in Temperature \cup TempCalibration \cup {\h3B}

=============================================================================
