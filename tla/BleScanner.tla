----------------------------- MODULE BleScanner -----------------------------
(***************************************************************************)
(* The one scanner everybody shares (BleScanner.h, BleScanner.cpp):        *)
(* started by whoever drives loop() while nobody holds it down, held down  *)
(* by connectors, one bit of pauseMask_ each.                              *)
(*                                                                         *)
(* The operators are the calls connectors make; module Radio interleaves   *)
(* them.  NimBLE's side, as the code relies on it: stop() asks and         *)
(* returns, the scan ends later, and start() fails while a connect is      *)
(* under way.                                                              *)
(***************************************************************************)

CONSTANTS
  Owners          \* kPauseBms and kPauseLighting

VARIABLES
  pauseMask,      \* pauseMask_: the owners holding the scanner down
  scan,           \* the radio: "off", "on", or "stopping" since stop()
  gap             \* less than kGapMs have passed since lastStartMs_

scannerVars == << pauseMask, scan, gap >>

ScannerTypeOK ==
  /\ pauseMask \in SUBSET Owners
  /\ scan \in {"off", "on", "stopping"}
  /\ gap \in BOOLEAN

ScannerInit ==
  /\ pauseMask = {}
  /\ scan = "off"
  /\ gap = FALSE

(* isScanning(): stop() has been asked, but the scan has not ended yet. *)
Scanning == scan # "off"

(* pause(), first half: fetch_or. *)
Hold(owner) == pauseMask' = pauseMask \cup {owner}

(* pause(), second half: stop the window under way rather than wait it out. *)
StopWindow == scan' = IF Scanning THEN "stopping" ELSE scan

Resume_Everyone(owner) == pauseMask' = {}

(* resume(): an owner lets go, of its own bit only. *)
Resume(owner) == pauseMask' = pauseMask \ {owner}

(* loop(), the checks: may it start a window? *)
MayStart == pauseMask = {} /\ ~Scanning /\ ~gap

(* loop(), past the checks: start one, whatever the mask is by now. *)
StartWindow(busy) ==
  /\ gap' = TRUE
  /\ scan' = IF busy THEN scan ELSE "on"

(* onScanEnd(): the window ran out, or the stop() took effect. *)
ScanEnd ==
  /\ Scanning
  /\ scan' = "off"
  /\ UNCHANGED << pauseMask, gap >>

(* kGapMs are over. *)
GapOver ==
  /\ gap
  /\ gap' = FALSE
  /\ UNCHANGED << pauseMask, scan >>

=============================================================================
