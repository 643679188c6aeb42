------------------------------ MODULE History ------------------------------
(***************************************************************************)
(* The ring behind a sensor's graph (core/history.{h,cpp}): a fixed number *)
(* of samples, the oldest overwritten by the newest, read oldest first.    *)
(* One sample stands for the pair of rings the code keeps in step.         *)
(*                                                                         *)
(* How far apart samples are is the caller's: record() is only called here *)
(* when kIntervalMs have passed.                                           *)
(***************************************************************************)
EXTENDS Naturals, Sequences

CONSTANTS
  KSamples,       \* kSamples
  Gap             \* kNoValue: the sensor had nothing to say

ASSUME HistoryAssumption == KSamples \in Nat \ {0}

Cells == 0 .. KSamples - 1

(* A ring nobody wrote to. *)
NewHistory == [ring |-> [c \in Cells |-> Gap], head |-> 0, count |-> 0]

(* clear(): the samples stay where they are, uncounted. *)
Cleared(h) == [ring |-> h.ring, head |-> 0, count |-> 0]

(* record(). *)
Recorded(h, sample) ==
  [ring  |-> [h.ring EXCEPT ![h.head] = sample],
   head  |-> (h.head + 1) % KSamples,
   count |-> IF h.count < KSamples THEN h.count + 1 ELSE h.count]

Oldest_Newest(h) == IF h.count = KSamples THEN (h.head + KSamples - 1) % KSamples ELSE 0

(* The next cell to write is the oldest one, once the ring has wrapped. *)
Oldest(h) == IF h.count = KSamples THEN h.head ELSE 0

(* tempAt() and humAt(): i counts from the oldest sample. *)
At(h, i) == IF i >= h.count THEN Gap ELSE h.ring[(Oldest(h) + i) % KSamples]

(* What a reader that walks 0 .. count() - 1 sees. *)
Contents(h) == [i \in 1 .. h.count |-> At(h, i - 1)]

(* The reference: a window of the last KSamples samples. *)
Scrolled(window, sample) ==
  Append(IF Len(window) < KSamples THEN window ELSE Tail(window), sample)

=============================================================================
