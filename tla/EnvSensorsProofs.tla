-------------------------- MODULE EnvSensorsProofs --------------------------
(***************************************************************************)
(* The Climate page is about the sensor it says it is about, for every     *)
(* number of slots, broadcasters and names and every length of a trend.    *)
(*                                                                         *)
(* The argument: once somebody else's slot is settled again, its flag has  *)
(* been lowered and its past cleared since; a check that was made before   *)
(* that (Fresh) and a name that was found before that (Load, Write) belong *)
(* to a slot that is not settled, and does no harm.                        *)
(***************************************************************************)
EXTENDS EnvSensors, SequenceTheorems, FiniteSetTheorems, TLAPS

(* A ring as clear() and record() leave it, of samples of a given set.  It *)
(* is filled from the first cell on, and once full the head goes around.   *)
WellFormed(h, Values) ==
  /\ h \in [ring : [Cells -> Values], head : Cells, count : 0 .. KSamples]
  /\ h.count < KSamples => h.head = h.count

Rings == [ring : [Cells -> Samples], head : Cells, count : 0 .. KSamples]

(* TypeOK by what the proofs use of it, one group of variables at a time;  *)
(* the slots heard are each listed once, so that there are no more of them *)
(* than slots.                                                             *)
SlotTypes ==
  /\ mac \in [Slots -> Macs \cup {NoMac}] /\ flag \in [Slots -> BOOLEAN]
  /\ reading \in [Slots -> Macs \cup {Zero}]
  /\ bound \in 0 .. NSlots
  /\ quiet \in Seq(Slots)
  /\ \A i, j \in 1 .. Len(quiet) : quiet[i] = quiet[j] => i = j

HostTypes ==
  /\ host \in {"idle", "wipe", "address", "raise", "publish", "merge", "heard"}
  /\ hearing \in Macs \cup {NoMac} /\ at \in Slots

NameTypes ==
  /\ open \in BOOLEAN /\ saved \in [Macs -> Names \cup {NoName}]
  /\ customName \in [Slots -> Names \cup {NoName}]

PastTypes ==
  /\ history \in [Slots -> Rings]
  /\ \A s \in Slots : WellFormed(history[s], Samples)
  /\ extremes \in [Slots -> SUBSET (Macs \cup {Zero})]

LoopTypes ==
  /\ loop \in {"ui", "find", "write", "flags", "lower", "clear", "load",
              "sample", "record", "log", "observe", "fold"}
  /\ cursor \in 1 .. NSlots + 1
  /\ key \in Macs \cup {NoMac} /\ given \in Names \cup {NoName} /\ have \in BOOLEAN

Types == SlotTypes /\ HostTypes /\ NameTypes /\ PastTypes /\ LoopTypes

-----------------------------------------------------------------------------
(* What the host task keeps. *)

Binding == {"wipe", "address", "raise", "publish"}

Hosting ==
  /\ host # "idle" => hearing \in Macs
  /\ host \in Binding => at <= bound + 1
  /\ host \in {"merge", "heard"} => at <= bound
  /\ host \in {"raise", "publish", "merge", "heard"} => mac[at] = hearing
  /\ host = "address" => reading[at] = Zero
  /\ bound > 0 => quiet # << >> \/ host \in {"merge", "heard"}

(* Every slot in use has an address, its own, and no other slot has one.   *)
Addresses ==
  /\ \A s \in Slots : s <= bound /\ ~(host = "address" /\ at = s) => mac[s] \in Macs
  /\ \A s \in Slots : s > bound /\ ~(host \in {"raise", "publish"} /\ at = s) => mac[s] = NoMac
  /\ \A s, t \in Slots : mac[s] = mac[t] /\ mac[s] # NoMac => s = t
  /\ host \in {"wipe", "address"} => \A s \in Slots : mac[s] # hearing
  /\ \A s \in Slots : reading[s] \in {mac[s], Zero}

(* A slot handed to readers for the first time is flagged. *)
Flagged == host = "publish" /\ at = bound + 1 => flag[at]

-----------------------------------------------------------------------------
(* What the main loop keeps. *)

Looping ==
  /\ loop \in {"lower", "clear", "load", "record", "fold", "write"} => cursor <= bound
  /\ loop \in {"find", "write"} => key \in Macs /\ (open => saved[key] = given)

(* A slot found fresh, and still settled, says what its sensor said. *)
Fresh == loop \in {"record", "fold"} /\ have /\ Settled(cursor) => reading[cursor] = mac[cursor]

(* A slot still settled is the one whose name is looked up, or given. *)
Load  == loop = "load" /\ Settled(cursor) => key = mac[cursor]
Write == loop = "write" /\ Settled(cursor) => key = mac[cursor]

(* A name is stale only while the loop is on its way to it. *)
Underway(s) ==
  \/ loop = "load" /\ cursor = s
  \/ loop = "find" /\ cursor <= s /\ mac[s] = key
  \/ loop = "write" /\ cursor = s /\ mac[s] = key

Named ==
  open => \A s \in Slots : Settled(s) /\ ~Underway(s) => customName[s] = Stored(mac[s])

Inv ==
  /\ Types /\ Hosting /\ Addresses /\ Flagged
  /\ Looping /\ Fresh /\ Load /\ Write /\ Named /\ ExtremesAreOwn

-----------------------------------------------------------------------------
(* The ring, for every number of samples.                                  *)

USE HistoryAssumption DEF HistoryAssumption

(* The remainder, for the arguments it is given: at most one time around. *)
LEMMA Around ==
  ASSUME NEW c \in 0 .. 2 * KSamples - 1
  PROVE  c % KSamples = IF c < KSamples THEN c ELSE c - KSamples
<1>1. CASE c < KSamples
  BY <1>1
<1>2. CASE c >= KSamples
  BY <1>2
<1>q. QED
  BY <1>1, <1>2

LEMMA NewWellFormed ==
  ASSUME NEW Values, Gap \in Values
  PROVE  WellFormed(NewHistory, Values) /\ Contents(NewHistory) = << >>
BY DEF WellFormed, NewHistory, Cells, Contents

LEMMA ClearedWellFormed ==
  ASSUME NEW Values, NEW h, WellFormed(h, Values)
  PROVE  WellFormed(Cleared(h), Values) /\ Contents(Cleared(h)) = << >>
<1>1. Cleared(h) = [ring |-> h.ring, head |-> 0, count |-> 0]
  BY DEF WellFormed, Cleared
<1>2. WellFormed(Cleared(h), Values)
  BY <1>1 DEF WellFormed, Cells
<1>3. Contents(Cleared(h)) = << >>
  BY <1>1 DEF Contents
<1>q. QED
  BY <1>2, <1>3

LEMMA RecordedWellFormed ==
  ASSUME NEW Values, NEW h, WellFormed(h, Values), NEW sample \in Values
  PROVE  WellFormed(Recorded(h, sample), Values)
<1>1. h.head \in Nat /\ h.head + 1 \in 0 .. 2 * KSamples - 1
  BY DEF WellFormed, Cells
<1>2. (h.head + 1) % KSamples = IF h.head + 1 < KSamples THEN h.head + 1 ELSE h.head + 1 - KSamples
  BY <1>1, Around
<1>3. (h.head + 1) % KSamples \in Cells
  BY <1>1, <1>2 DEF WellFormed, Cells
<1>4. Recorded(h, sample).ring \in [Cells -> Values]
  BY DEF WellFormed, Recorded
<1>5. Recorded(h, sample).count \in 0 .. KSamples
  BY DEF WellFormed, Recorded
<1>6. ASSUME Recorded(h, sample).count < KSamples
      PROVE  Recorded(h, sample).head = Recorded(h, sample).count
  BY <1>2, <1>6 DEF WellFormed, Recorded, Cells
<1>q. QED
  BY <1>3, <1>4, <1>5, <1>6 DEF WellFormed, Recorded

(* Reading a well-formed ring gives a sequence of samples. *)
LEMMA ContentsIsSeq ==
  ASSUME NEW Values, NEW h, WellFormed(h, Values)
  PROVE  Contents(h) \in Seq(Values) /\ Len(Contents(h)) = h.count
<1>1. ASSUME NEW i \in 1 .. h.count
      PROVE  At(h, i - 1) \in Values
  <2>1. Oldest(h) + (i - 1) \in 0 .. 2 * KSamples - 1
    BY DEF WellFormed, Oldest, Cells
  <2>2. (Oldest(h) + (i - 1)) % KSamples \in Cells
    BY <2>1, Around DEF Cells
  <2>q. QED
    BY <2>2 DEF WellFormed, At
<1>2. h.count \in Nat
  BY DEF WellFormed
<1>q. QED
  BY <1>1, <1>2 DEF Contents

(* One more sample: what a reader sees is the window, scrolled. *)
THEOREM RingIsWindow ==
  ASSUME NEW Values, NEW h, WellFormed(h, Values), NEW sample \in Values
  PROVE  Contents(Recorded(h, sample)) = Scrolled(Contents(h), sample)
<1> DEFINE g == Recorded(h, sample)
           w == Contents(h)
           n == IF h.count < KSamples THEN h.count + 1 ELSE h.count
<1>1. WellFormed(g, Values)
  BY RecordedWellFormed
<1>2. w \in Seq(Values) /\ Len(w) = h.count
  BY ContentsIsSeq
<1>3. g.count = n /\ n \in Nat \ {0}
  BY DEF Recorded, WellFormed
<1>4. h.head \in Nat /\ h.head + 1 \in 0 .. 2 * KSamples - 1
  BY DEF WellFormed, Cells
<1>5. g.head = IF h.head + 1 < KSamples THEN h.head + 1 ELSE h.head + 1 - KSamples
  <2>1. (h.head + 1) % KSamples
          = IF h.head + 1 < KSamples THEN h.head + 1 ELSE h.head + 1 - KSamples
    BY <1>4, Around
  <2>q. QED
    BY <2>1 DEF Recorded
<1>6. CASE h.count < KSamples
  <2>1. Scrolled(w, sample) = Append(w, sample)
    BY <1>2, <1>6 DEF Scrolled
  <2>2. h.head = h.count /\ Oldest(h) = 0 /\ Oldest(g) = 0
    BY <1>3, <1>5, <1>6 DEF WellFormed, Oldest, Cells
  <2>3. ASSUME NEW i \in 1 .. n
        PROVE  At(g, i - 1) = Append(w, sample)[i]
    <3>1. (i - 1) % KSamples = i - 1 /\ i - 1 \in Cells
      <4>1. i - 1 \in 0 .. KSamples - 1 /\ i - 1 \in 0 .. 2 * KSamples - 1
        BY <1>6 DEF WellFormed
      <4>q. QED
        BY <4>1, Around DEF Cells
    <3>2. At(g, i - 1) = g.ring[i - 1]
      BY <1>3, <2>2, <3>1 DEF At, WellFormed
    <3>3. g.ring[i - 1] = IF i - 1 = h.head THEN sample ELSE h.ring[i - 1]
      BY <3>1 DEF Recorded, WellFormed
    <3>4. CASE i = n
      BY <1>2, <1>6, <2>2, <3>2, <3>3, <3>4 DEF WellFormed
    <3>5. CASE i # n
      <4>1. i \in 1 .. h.count /\ w[i] = At(h, i - 1)
        BY <1>6, <3>5 DEF Contents, WellFormed
      <4>2. At(h, i - 1) = h.ring[i - 1]
        BY <4>1, <2>2, <3>1 DEF At, WellFormed
      <4>q. QED
        BY <1>2, <2>2, <3>2, <3>3, <4>1, <4>2 DEF WellFormed
    <3>q. QED
      BY <3>4, <3>5
  <2>4. Contents(g) = [i \in 1 .. n |-> At(g, i - 1)]
    BY <1>3 DEF Contents
  <2>5. Append(w, sample) \in Seq(Values) /\ Len(Append(w, sample)) = n
    BY <1>2, <1>6
  <2>6. Contents(g) \in Seq(Values) /\ Len(Contents(g)) = n
    BY <1>1, <1>3, ContentsIsSeq
  <2>7. \A i \in 1 .. n : Contents(g)[i] = Append(w, sample)[i]
    BY <2>3, <2>4
  <2>q. QED
    BY <2>1, <2>5, <2>6, <2>7, SeqEqual
<1>7. CASE h.count = KSamples
  <2>1. Scrolled(w, sample) = Append(Tail(w), sample)
    BY <1>2, <1>7 DEF Scrolled
  <2>2. Oldest(h) = h.head /\ Oldest(g) = g.head /\ n = KSamples
    BY <1>3, <1>7 DEF Oldest
  <2>3. Tail(w) \in Seq(Values) /\ Len(Tail(w)) = KSamples - 1
    BY <1>2, <1>7
  <2>4. ASSUME NEW i \in 1 .. KSamples
        PROVE  At(g, i - 1) = Append(Tail(w), sample)[i]
    <3> DEFINE c == (g.head + (i - 1)) % KSamples
    <3>1. g.head \in Nat /\ g.head + (i - 1) \in 0 .. 2 * KSamples - 1
      BY <1>1 DEF WellFormed, Cells
    <3>2. c = IF g.head + (i - 1) < KSamples THEN g.head + (i - 1)
                                             ELSE g.head + (i - 1) - KSamples
      BY <3>1, Around
    <3>3. c \in Cells /\ At(g, i - 1) = g.ring[c]
      BY <1>3, <2>2, <3>1, <3>2 DEF At, Cells
    <3>4. g.ring[c] = IF c = h.head THEN sample ELSE h.ring[c]
      BY <3>3 DEF Recorded, WellFormed
    <3>5. CASE i = KSamples
      <4>1. c = h.head
        BY <1>5, <3>2, <3>5 DEF WellFormed, Cells
      <4>q. QED
        BY <2>3, <3>3, <3>4, <3>5, <4>1
    <3>6. CASE i # KSamples
      <4>1. c # h.head
        <5> HIDE DEF c, g
        <5>q. QED
          BY <1>4, <1>5, <3>1, <3>2, <3>6
      <4>2. i + 1 \in 1 .. h.count /\ w[i + 1] = At(h, i)
        BY <1>7, <3>6 DEF Contents
      <4>3. i \in Nat /\ h.head \in Nat /\ h.head + i \in 0 .. 2 * KSamples - 1
        BY <3>6 DEF WellFormed, Cells
      <4> DEFINE e == h.head + i
      <4>4. e % KSamples = IF e < KSamples THEN e ELSE e - KSamples
        <5>1. e \in 0 .. 2 * KSamples - 1
          BY <4>3
        <5> HIDE DEF e
        <5>q. QED
          BY <5>1, Around
      <4>5. e % KSamples = c
        <5> DEFINE d == e % KSamples
        <5>1. d = IF e < KSamples THEN e ELSE e - KSamples
          BY <4>4
        <5> HIDE DEF c, d, g
        <5>q. QED
          BY <1>4, <1>5, <3>1, <3>2, <4>3, <5>1, Z3T(30)
      <4>6. At(h, i) = h.ring[c]
        BY <1>7, <2>2, <3>6, <4>5 DEF At
      <4>7. Append(Tail(w), sample)[i] = w[i + 1]
        BY <1>2, <1>7, <2>3, <3>6
      <4>q. QED
        BY <3>3, <3>4, <4>1, <4>2, <4>6, <4>7
    <3>q. QED
      BY <3>5, <3>6
  <2>5. Contents(g) = [i \in 1 .. KSamples |-> At(g, i - 1)]
    BY <1>3, <2>2 DEF Contents
  <2>6. Append(Tail(w), sample) \in Seq(Values) /\ Len(Append(Tail(w), sample)) = KSamples
    BY <2>3
  <2>7. Contents(g) \in Seq(Values) /\ Len(Contents(g)) = KSamples
    BY <1>1, <1>3, <2>2, ContentsIsSeq
  <2>8. \A i \in 1 .. KSamples : Contents(g)[i] = Append(Tail(w), sample)[i]
    BY <2>4, <2>5
  <2>q. QED
    BY <2>1, <2>6, <2>7, <2>8, SeqEqual
<1>q. QED
  BY <1>6, <1>7 DEF WellFormed

HIDE HistoryAssumption DEF HistoryAssumption

-----------------------------------------------------------------------------
(* Types. *)

LEMMA SlotsExist == NSlots \in Nat /\ 1 \in Slots /\ 1 \in 1 .. NSlots + 1
  BY EnvSensorsAssumption DEF Slots

LEMMA InitTypes == Init => Types
  <1> SUFFICES ASSUME Init
               PROVE  Types
    OBVIOUS
  <1>1. SlotTypes
    <2>1. quiet = << >> /\ Len(quiet) = 0
      BY DEF Init
    <2> QED
      BY <2>1, SlotsExist DEF Init, SlotTypes
  <1>2. HostTypes
    BY SlotsExist DEF Init, HostTypes
  <1>3. NameTypes
    <2>1. saved \in [Macs -> Names \cup {NoName}]
      BY DEF Init
    <2> QED
      BY <2>1 DEF Init, NameTypes
  <1>4. PastTypes
    <2>1. WellFormed(NewHistory, Samples)
      BY NewWellFormed DEF Samples
    <2>2. NewHistory \in Rings
      BY <2>1 DEF WellFormed, Rings
    <2> QED
      BY <2>1, <2>2 DEF Init, PastTypes
  <1>5. LoopTypes
    <2>1. cursor \in 1 .. NSlots + 1
      BY SlotsExist DEF Init
    <2> QED
      BY <2>1 DEF Init, LoopTypes
  <1> QED
    BY <1>1, <1>2, <1>3, <1>4, <1>5 DEF Types

(* The list of who was heard: the slot just heard moves to its end. *)
LEMMA MovedToTheEnd ==
  ASSUME NEW list \in Seq(Slots), NEW s \in Slots,
         \A i, j \in 1 .. Len(list) : list[i] = list[j] => i = j
  PROVE  LET moved == Append(RemoveFirst(list, s), s)
         IN  /\ moved \in Seq(Slots) /\ moved # << >>
             /\ \A i, j \in 1 .. Len(moved) : moved[i] = moved[j] => i = j
  <1> DEFINE rest == RemoveFirst(list, s)
  <1>1. /\ rest \in Seq(Slots)
        /\ \A i \in 1 .. Len(rest) : rest[i] # s
        /\ \A i, j \in 1 .. Len(rest) : rest[i] = rest[j] => i = j
    <2>1. CASE \E i \in 1 .. Len(list) : list[i] = s
      <3>1. PICK k \in 1 .. Len(list) : list[k] = s
        BY <2>1
      <3>2. {i \in 1 .. Len(list) : list[i] = s} = {k}
        BY <3>1
      <3>3. Min({k}) = k
        BY DEF Min
      <3>4. rest = RemoveAt(list, k)
        BY <2>1, <3>2, <3>3 DEF RemoveFirst, SelectInSeq
      <3>5. /\ rest \in Seq(Slots) /\ Len(rest) = Len(list) - 1
            /\ \A i \in 1 .. Len(list) - 1 : rest[i] = IF i < k THEN list[i] ELSE list[i + 1]
        <4>1. SubSeq(list, 1, k - 1) \in Seq(Slots) /\ Len(SubSeq(list, 1, k - 1)) = k - 1
          BY <3>1
        <4>2. /\ SubSeq(list, k + 1, Len(list)) \in Seq(Slots)
              /\ Len(SubSeq(list, k + 1, Len(list))) = Len(list) - k
          BY <3>1
        <4> DEFINE before == SubSeq(list, 1, k - 1)
                   after == SubSeq(list, k + 1, Len(list))
        <4>3. /\ \A i \in 1 .. k - 1 : before[i] = list[i]
              /\ \A i \in 1 .. Len(list) - k : after[i] = list[i + k]
          BY <3>1
        <4>4. rest = before \o after
          BY <3>4 DEF RemoveAt
        <4>5. before \in Seq(Slots) /\ after \in Seq(Slots)
          BY <4>1, <4>2
        <4>6. Len(before) = k - 1 /\ Len(after) = Len(list) - k
          BY <4>1, <4>2
        <4> HIDE DEF before, after, rest
        <4>7. /\ rest \in Seq(Slots) /\ Len(rest) = Len(before) + Len(after)
              /\ \A i \in 1 .. Len(rest) :
                   rest[i] = IF i <= Len(before) THEN before[i] ELSE after[i - Len(before)]
          BY <4>4, <4>5, ConcatProperties
        <4>8. Len(list) \in Nat
          OBVIOUS
        <4>9. Len(rest) = Len(list) - 1
          BY <4>6, <4>7, <4>8
        <4>10. ASSUME NEW i \in 1 .. Len(list) - 1
               PROVE  rest[i] = IF i < k THEN list[i] ELSE list[i + 1]
          <5>1. CASE i < k
            BY <5>1, <4>3, <4>6, <4>7, <4>8, <4>9
          <5>2. CASE ~(i < k)
            <6>1. i - (k - 1) \in 1 .. Len(list) - k /\ ~(i <= k - 1)
              BY <5>2, <4>8
            <6>2. rest[i] = after[i - (k - 1)]
              BY <6>1, <4>6, <4>7, <4>9
            <6>3. after[i - (k - 1)] = list[(i - (k - 1)) + k]
              BY <6>1, <4>3
            <6>4. (i - (k - 1)) + k = i + 1
              OBVIOUS
            <6> QED
              BY <5>2, <6>2, <6>3, <6>4
          <5> QED
            BY <5>1, <5>2
        <4> QED
          BY <4>7, <4>9, <4>10
      <3> HIDE DEF rest
      <3>6. \A i \in 1 .. Len(rest) : rest[i] # s
        BY <3>1, <3>5
      <3>7. \A i, j \in 1 .. Len(rest) : rest[i] = rest[j] => i = j
        BY <3>1, <3>5
      <3> QED
        BY <3>5, <3>6, <3>7
    <2>2. CASE ~ \E i \in 1 .. Len(list) : list[i] = s
      BY <2>2 DEF RemoveFirst
    <2> QED
      BY <2>1, <2>2
  <1> HIDE DEF rest
  <1> QED
    BY <1>1 DEF rest

LEMMA HostKeepsTypes == Types /\ Hosting /\ Host => Types'
  <1> SUFFICES ASSUME Types, Hosting, Host
               PROVE  Types'
    OBVIOUS
  <1> USE DEF Types
  <1>1. LoopTypes' /\ PastTypes'
    BY DEF Host, Hear, Wipe, Rebind, Raise, Publish, Merge, Heard, LoopTypes,
           PastTypes, loopVars, pastVars
  <1>2. NameTypes'
    BY DEF Host, Hear, Wipe, Rebind, Raise, Publish, Merge, Heard, NameTypes, nameVars
  <1>3. SlotTypes' /\ HostTypes'
    <2> USE DEF SlotTypes, HostTypes, slotVars
    <2>1. ASSUME NEW m \in Macs, Hear(m)
          PROVE  SlotTypes' /\ HostTypes'
      <3>1. at' \in Slots
        <4>1. CASE at' \in Holding(m)
          BY <4>1, SlotsExist DEF Holding, Slots
        <4>2. CASE at' = bound + 1 /\ bound < NSlots
          BY <4>2, SlotsExist DEF Slots
        <4>3. CASE at' = Head(quiet) /\ ~(bound < NSlots)
          <5>1. bound > 0 /\ host = "idle"
            BY <2>1, <4>3, SlotsExist, EnvSensorsAssumption DEF Hear
          <5>2. quiet # << >>
            BY <5>1 DEF Hosting
          <5> QED
            BY <4>3, <5>2
        <4> QED
          BY <2>1, <4>1, <4>2, <4>3 DEF Hear
      <3> QED
        BY <2>1, <3>1 DEF Hear
    <2>2. CASE Wipe
      BY <2>2 DEF Wipe
    <2>3. CASE Rebind
      BY <2>3 DEF Rebind
    <2>4. CASE Raise
      BY <2>4 DEF Raise
    <2>5. CASE Publish
      BY <2>5, SlotsExist DEF Publish, Slots
    <2>6. CASE Merge
      <3>1. hearing \in Macs
        BY <2>6 DEF Merge, Hosting
      <3> QED
        BY <2>6, <3>1 DEF Merge
    <2>7. CASE Heard
      BY <2>7, MovedToTheEnd DEF Heard
    <2> QED
      BY <2>1, <2>2, <2>3, <2>4, <2>5, <2>6, <2>7 DEF Host
  <1> QED
    BY <1>1, <1>2, <1>3

LEMMA LoopKeepsTypes == Types /\ Looping /\ (Pass \/ Ui) => Types'
  <1> SUFFICES ASSUME Types, Looping, Pass \/ Ui
               PROVE  Types'
    OBVIOUS
  <1> USE DEF Types, CheckSample, CheckExtreme
  <1>0. NSlots \in Nat
    BY SlotsExist
  <1>1. loop \in {"clear", "load", "record", "fold", "write"} => cursor \in Slots
    BY <1>0 DEF Looping, LoopTypes, SlotTypes, Slots
  <1>2. HostTypes'
    BY DEF Pass, Ui, CheckFlag, LowerFlag, ClearPast, LoadName, CheckSlot, Record,
           ServiceLog, Observe, NoRename, Rename, FindRenamed, WriteRenamed,
           HostTypes, hostVars
  <1>3. SlotTypes'
    <2>1. CASE LowerFlag
      BY <2>1 DEF LowerFlag, SlotTypes
    <2>2. CASE UNCHANGED slotVars
      BY <2>2 DEF slotVars, SlotTypes
    <2> QED
      BY <2>1, <2>2 DEF Pass, Ui, CheckFlag, ClearPast, LoadName, CheckSlot, Record,
           ServiceLog, Observe, NoRename, Rename, FindRenamed, WriteRenamed
  <1>4. NameTypes'
    <2> USE DEF NameTypes
    <2>1. CASE LoadName
      <3>1. Stored(key) \in Names \cup {NoName}
        BY DEF Stored
      <3> QED
        BY <2>1, <3>1 DEF LoadName
    <2>2. ASSUME NEW m \in Macs, NEW name \in Names \cup {NoName}, Rename(m, name)
          PROVE  NameTypes'
      BY <2>2 DEF Rename
    <2>3. CASE WriteRenamed
      <3>1. given \in Names \cup {NoName}
        BY DEF LoopTypes
      <3> QED
        BY <2>3, <3>1 DEF WriteRenamed
    <2>4. CASE UNCHANGED nameVars
      BY <2>4 DEF nameVars
    <2> QED
      BY <2>1, <2>2, <2>3, <2>4 DEF Pass, Ui, CheckFlag, LowerFlag, ClearPast,
           CheckSlot, Record, ServiceLog, Observe, NoRename, FindRenamed
  <1>5. PastTypes'
    <2>1. CASE ClearPast
      <3>1. WellFormed(Cleared(history[cursor]), Samples)
        BY <1>1, <2>1, ClearedWellFormed DEF ClearPast, PastTypes
      <3>2. Cleared(history[cursor]) \in Rings
        BY <3>1 DEF WellFormed, Rings
      <3> QED
        BY <1>1, <2>1, <3>1, <3>2 DEF ClearPast, PastTypes
    <2>2. CASE Record
      <3> DEFINE sample == IF have THEN reading[cursor] ELSE Gap
                 longer == Recorded(history[cursor], sample)
      <3>1. sample \in Samples
        BY <1>1, <2>2 DEF Record, Samples, SlotTypes
      <3>2. WellFormed(history[cursor], Samples)
        BY <1>1, <2>2 DEF Record, PastTypes
      <3>3. WellFormed(longer, Samples)
        <4> HIDE DEF sample
        <4> QED
          BY <3>1, <3>2, RecordedWellFormed
      <3>4. longer \in Rings
        BY <3>3 DEF WellFormed, Rings
      <3>5. history' = [history EXCEPT ![cursor] = longer] \/ history' = history
        BY <2>2 DEF Record
      <3>6. extremes' = extremes
        BY <2>2 DEF Record
      <3> HIDE DEF longer
      <3> QED
        BY <1>1, <3>3, <3>4, <3>5, <3>6 DEF PastTypes
    <2>3. CASE ServiceLog
      BY <2>3 DEF ServiceLog, PastTypes
    <2>4. CASE Observe
      <3>1. reading[cursor] \in Macs \cup {Zero}
        BY <1>1, <2>4 DEF Observe, SlotTypes
      <3> QED
        BY <1>1, <2>4, <3>1 DEF Observe, PastTypes
    <2>5. CASE UNCHANGED pastVars
      BY <2>5 DEF pastVars, PastTypes
    <2> QED
      BY <2>1, <2>2, <2>3, <2>4, <2>5 DEF Pass, Ui, CheckFlag, LowerFlag, LoadName,
           CheckSlot, NoRename, Rename, FindRenamed, WriteRenamed
  <1>6. 1 \in 1 .. NSlots + 1 /\ (cursor <= bound => cursor + 1 \in 1 .. NSlots + 1)
    BY SlotsExist DEF LoopTypes, SlotTypes
  <1>7. loop \in {"load", "record", "fold"} => cursor <= bound
    BY DEF Looping
  <1>8. LoopTypes'
    <2> USE <1>6 DEF LoopTypes, NextSlot
    <2>1. CASE CheckFlag
      <3>1. CASE cursor > bound
        BY <2>1, <3>1 DEF CheckFlag
      <3>2. CASE ~(cursor > bound)
        <4>1. cursor <= bound
          BY <1>0, <3>2 DEF SlotTypes
        <4> QED
          BY <2>1, <3>2, <4>1 DEF CheckFlag
      <3> QED
        BY <3>1, <3>2
    <2>2. CASE LowerFlag
      BY <2>2 DEF LowerFlag
    <2>3. CASE ClearPast
      <3>1. mac[cursor] \in Macs \cup {NoMac}
        BY <1>1, <2>3 DEF ClearPast, SlotTypes
      <3> QED
        BY <2>3, <3>1 DEF ClearPast
    <2>4. CASE LoadName
      BY <1>7, <2>4 DEF LoadName
    <2>5. CASE Record
      BY <1>7, <2>5 DEF Record
    <2>6. CASE Observe
      BY <1>7, <2>6 DEF Observe
    <2>7. CASE CheckSample \/ CheckExtreme
      BY <2>7 DEF CheckSlot
    <2>8. CASE ServiceLog
      BY <2>8 DEF ServiceLog
    <2>9. CASE NoRename
      BY <2>9 DEF NoRename
    <2>10. CASE WriteRenamed
      BY <2>10 DEF WriteRenamed
    <2>11. ASSUME NEW m \in Macs, NEW name \in Names \cup {NoName}, Rename(m, name)
           PROVE  LoopTypes'
      BY <2>11 DEF Rename
    <2>12. CASE FindRenamed
      <3>1. CASE cursor > bound
        BY <2>12, <3>1 DEF FindRenamed
      <3>2. CASE ~(cursor > bound)
        <4>1. cursor <= bound
          BY <1>0, <3>2 DEF SlotTypes
        <4> QED
          BY <2>12, <3>2, <4>1 DEF FindRenamed
      <3> QED
        BY <3>1, <3>2
    <2> QED
      BY <2>1, <2>2, <2>3, <2>4, <2>5, <2>6, <2>7, <2>8, <2>9, <2>10, <2>11, <2>12
         DEF Pass, Ui
  <1> QED
    BY <1>2, <1>3, <1>4, <1>5, <1>8

-----------------------------------------------------------------------------
(* The slots, their addresses and their flags.                             *)

LEMMA InitSlots == Init => Hosting /\ Addresses /\ Flagged /\ Looping
  <1> SUFFICES ASSUME Init
               PROVE  Hosting /\ Addresses /\ Flagged /\ Looping
    OBVIOUS
  <1> USE DEF Init
  <1>1. Hosting
    BY DEF Hosting, Binding
  <1>2. Addresses
    <2>1. \A s \in Slots : mac[s] = NoMac /\ reading[s] = Zero /\ ~(s <= bound)
      BY DEF Slots
    <2> QED
      BY <2>1 DEF Addresses
  <1>3. Flagged /\ Looping
    BY DEF Flagged, Looping
  <1> QED
    BY <1>1, <1>2, <1>3

(* The main loop moves no slot: it lowers flags of slots in use at most. *)
LEMMA LoopMovesNothing ==
  ASSUME Pass \/ Ui
  PROVE  /\ UNCHANGED << mac, reading, bound, quiet, host, hearing, at >>
         /\ LowerFlag \/ UNCHANGED flag
  BY DEF Pass, Ui, CheckFlag, LowerFlag, ClearPast, LoadName, CheckSample, CheckExtreme,
         CheckSlot, Record, ServiceLog, Observe, NoRename, Rename, FindRenamed,
         WriteRenamed, slotVars, hostVars

LEMMA HostingNext == Types /\ Hosting /\ (Host \/ Pass \/ Ui) => Hosting'
  <1> SUFFICES ASSUME Types, Hosting, Host \/ Pass \/ Ui
               PROVE  Hosting'
    OBVIOUS
  <1> USE DEF Hosting, Binding, slotVars
  <1>1. NSlots \in Nat /\ bound \in 0 .. NSlots /\ at \in Slots
    BY SlotsExist DEF Types, SlotTypes, HostTypes
  <1>2. ASSUME NEW m \in Macs, Hear(m)
        PROVE  Hosting'
    <2>1. host = "idle" /\ hearing' = m /\ UNCHANGED << mac, reading, bound, quiet >>
      BY <1>2 DEF Hear
    <2>2. CASE at' \in Holding(m) /\ host' = "merge"
      BY <2>1, <2>2 DEF Holding
    <2>3. CASE at' = (IF bound < NSlots THEN bound + 1 ELSE Head(quiet)) /\ host' = "wipe"
      <3>1. bound > 0 => quiet # << >>
        BY <2>1
      <3>2. at' <= bound + 1
        <4>1. CASE bound < NSlots
          BY <1>1, <2>3, <4>1
        <4>2. CASE ~(bound < NSlots)
          <5>1. bound = NSlots /\ quiet # << >> /\ quiet \in Seq(Slots)
            BY <1>1, <3>1, <4>2, EnvSensorsAssumption DEF Types, SlotTypes
          <5>2. Head(quiet) \in Slots
            BY <5>1
          <5> QED
            BY <1>1, <2>3, <4>2, <5>1, <5>2 DEF Slots
        <4> QED
          BY <4>1, <4>2
      <3> QED
        BY <2>1, <2>3, <3>1, <3>2
    <2> QED
      BY <1>2, <2>2, <2>3 DEF Hear
  <1>3. CASE Wipe
    BY <1>1, <1>3 DEF Wipe, Types, SlotTypes
  <1>4. CASE Rebind
    BY <1>1, <1>4 DEF Rebind, Types, SlotTypes
  <1>5. CASE Raise
    BY <1>5 DEF Raise
  <1>6. CASE Publish
    <2>1. host = "publish" /\ host' = "merge" /\ UNCHANGED << mac, hearing, at >>
      BY <1>6 DEF Publish
    <2>2. at <= bound'
      BY <1>1, <1>6, <2>1 DEF Publish, Slots
    <2> QED
      BY <2>1, <2>2
  <1>7. CASE Merge
    BY <1>7 DEF Merge
  <1>8. CASE Heard
    <2>1. quiet' # << >>
      <3>1. quiet \in Seq(Slots) /\ \A i, j \in 1 .. Len(quiet) : quiet[i] = quiet[j] => i = j
        BY DEF Types, SlotTypes
      <3> QED
        BY <1>1, <1>8, <3>1, MovedToTheEnd DEF Heard
    <2> QED
      BY <1>8, <2>1 DEF Heard
  <1>9. CASE Pass \/ Ui
    BY <1>9, LoopMovesNothing
  <1> QED
    BY <1>2, <1>3, <1>4, <1>5, <1>6, <1>7, <1>8, <1>9 DEF Host

LEMMA AddressesNext ==
  Types /\ Hosting /\ Addresses /\ (Host \/ Pass \/ Ui) => Addresses'
  <1> SUFFICES ASSUME Types, Hosting, Addresses, Host \/ Pass \/ Ui
               PROVE  Addresses'
    OBVIOUS
  <1> USE DEF Addresses, slotVars
  <1>1. /\ bound \in Nat /\ at \in Slots /\ \A s \in Slots : s \in Nat
        /\ mac \in [Slots -> Macs \cup {NoMac}] /\ reading \in [Slots -> Macs \cup {Zero}]
    BY SlotsExist DEF Types, SlotTypes, HostTypes, Slots
  <1>2. ASSUME NEW m \in Macs, Hear(m)
        PROVE  Addresses'
    <2>1. host = "idle" /\ hearing' = m /\ UNCHANGED << mac, reading, bound >>
      BY <1>2 DEF Hear
    <2>2. CASE host' = "merge"
      BY <2>1, <2>2
    <2>3. CASE Holding(m) = {} /\ host' = "wipe"
      <3>1. ASSUME NEW s \in Slots
            PROVE  mac[s] # m
        <4>1. CASE s <= bound
          <5>1. s \in 1 .. bound
            BY <1>1, <4>1, SlotsExist DEF Slots
          <5> QED
            BY <2>3, <5>1 DEF Holding
        <4>2. CASE ~(s <= bound)
          <5>1. mac[s] = NoMac
            BY <1>1, <2>1, <4>2
          <5> QED
            BY <5>1, EnvSensorsAssumption
        <4> QED
          BY <4>1, <4>2
      <3> QED
        BY <2>1, <2>3, <3>1
    <2> QED
      BY <1>2, <2>2, <2>3 DEF Hear
  <1>3. CASE Wipe
    <2>1. /\ host = "wipe" /\ host' = "address" /\ UNCHANGED << bound, hearing, at >>
          /\ mac' = [mac EXCEPT ![at] = NoMac] /\ reading' = [reading EXCEPT ![at] = Zero]
      BY <1>3 DEF Wipe
    <2>2. hearing # NoMac
      BY <2>1, EnvSensorsAssumption DEF Hosting
    <2> QED
      BY <1>1, <2>1, <2>2
  <1>4. CASE Rebind
    <2>1. /\ host = "address" /\ host' = "raise" /\ UNCHANGED << reading, bound, hearing, at >>
          /\ mac' = [mac EXCEPT ![at] = hearing]
      BY <1>4 DEF Rebind
    <2>2. reading[at] = Zero /\ hearing \in Macs
      BY <2>1 DEF Hosting
    <2> QED
      BY <1>1, <2>1, <2>2
  <1>5. CASE Raise
    BY <1>5 DEF Raise
  <1>6. CASE Publish
    <2>1. host = "publish" /\ host' = "merge" /\ UNCHANGED << mac, reading, hearing, at >>
      BY <1>6 DEF Publish
    <2>2. mac[at] \in Macs /\ at <= bound + 1
      BY <2>1 DEF Hosting, Binding
    <2>3. \A s \in Slots : s <= bound' => s <= bound \/ s = at
      BY <1>1, <1>6 DEF Publish
    <2>4. \A s \in Slots : s > bound' => s > bound /\ s # at
      BY <1>1, <1>6, <2>2 DEF Publish
    <2> QED
      BY <2>1, <2>2, <2>3, <2>4
  <1>7. CASE Merge
    <2>1. mac[at] = hearing /\ host = "merge" /\ host' = "heard"
          /\ UNCHANGED << mac, bound, hearing, at >>
      BY <1>7 DEF Merge, Hosting
    <2>2. \A s \in Slots : reading'[s] \in {mac[s], Zero}
      BY <1>1, <1>7, <2>1 DEF Merge
    <2> QED
      BY <2>1, <2>2
  <1>8. CASE Heard
    BY <1>8 DEF Heard
  <1>9. CASE Pass \/ Ui
    BY <1>9, LoopMovesNothing
  <1> QED
    BY <1>2, <1>3, <1>4, <1>5, <1>6, <1>7, <1>8, <1>9 DEF Host

LEMMA FlaggedNext ==
  Types /\ Looping /\ Flagged /\ (Host \/ Pass \/ Ui) => Flagged'
  <1> SUFFICES ASSUME Types, Looping, Flagged, Host \/ Pass \/ Ui
               PROVE  Flagged'
    OBVIOUS
  <1> USE DEF Flagged, Types, SlotTypes, HostTypes
  <1>1. CASE Raise
    BY <1>1 DEF Raise
  <1>2. CASE Host /\ ~Raise
    <2>1. host' # "publish"
      BY <1>2 DEF Host, Hear, Wipe, Rebind, Publish, Merge, Heard
    <2> QED
      BY <2>1
  <1>3. CASE Pass \/ Ui
    <2>1. CASE LowerFlag
      <3>1. cursor <= bound /\ cursor \in 1 .. NSlots + 1
        BY <2>1 DEF LowerFlag, Looping, LoopTypes
      <3>2. ~(bound + 1 <= bound) /\ bound \in Nat
        BY SlotsExist
      <3>3. at = bound + 1 => at # cursor
        BY <3>1, <3>2
      <3>4. flag' = [flag EXCEPT ![cursor] = FALSE] /\ UNCHANGED << host, at, bound >>
        BY <2>1 DEF LowerFlag, hostVars
      <3> QED
        BY <3>3, <3>4
    <2>2. CASE UNCHANGED flag
      BY <1>3, <2>2, LoopMovesNothing
    <2> QED
      BY <1>3, <2>1, <2>2, LoopMovesNothing
  <1> QED
    BY <1>1, <1>2, <1>3

LEMMA LoopingNext ==
  Types /\ Looping /\ (Host \/ Pass \/ Ui) => Looping'
  <1> SUFFICES ASSUME Types, Looping, Host \/ Pass \/ Ui
               PROVE  Looping'
    OBVIOUS
  <1> USE DEF Looping
  <1>1. NSlots \in Nat /\ bound \in 0 .. NSlots /\ cursor \in 1 .. NSlots + 1
    BY SlotsExist DEF Types, SlotTypes, LoopTypes
  <1>2. ~(cursor > bound) => cursor <= bound
    BY <1>1
  <1>3. CASE Host
    <2>1. bound <= bound'
      BY <1>1, <1>3 DEF Host, Hear, Wipe, Rebind, Raise, Publish, Merge, Heard, slotVars
    <2>2. cursor <= bound => cursor <= bound'
      <3>1. bound' = bound \/ bound' = bound + 1
        BY <1>3 DEF Host, Hear, Wipe, Rebind, Raise, Publish, Merge, Heard, slotVars
      <3> QED
        BY <1>1, <3>1
    <2>3. UNCHANGED << loop, cursor, key, given, open, saved >>
      BY <1>3 DEF Host, Hear, Wipe, Rebind, Raise, Publish, Merge, Heard, loopVars, nameVars
    <2> QED
      BY <2>2, <2>3
  <1>4. CASE Pass \/ Ui
    <2> USE <1>2 DEF slotVars, nameVars
    <2>1. CASE CheckFlag
      BY <2>1 DEF CheckFlag
    <2>2. CASE LowerFlag
      BY <2>2 DEF LowerFlag
    <2>3. CASE ClearPast
      BY <2>3 DEF ClearPast
    <2>4. CASE LoadName \/ Record \/ Observe \/ NoRename
      BY <2>4 DEF LoadName, Record, Observe, NoRename
    <2>5. CASE CheckSample \/ CheckExtreme
      BY <2>5 DEF CheckSample, CheckExtreme, CheckSlot
    <2>6. CASE ServiceLog \/ WriteRenamed
      BY <2>6 DEF ServiceLog, WriteRenamed
    <2>7. ASSUME NEW m \in Macs, NEW name \in Names \cup {NoName}, Rename(m, name)
          PROVE  Looping'
      <3>1. saved \in [Macs -> Names \cup {NoName}]
        BY DEF Types, NameTypes
      <3> QED
        BY <2>7, <3>1 DEF Rename
    <2>8. CASE FindRenamed
      BY <2>8 DEF FindRenamed
    <2> QED
      BY <1>4, <2>1, <2>2, <2>3, <2>4, <2>5, <2>6, <2>7, <2>8 DEF Pass, Ui
  <1> QED
    BY <1>3, <1>4

-----------------------------------------------------------------------------
(* The host task unsettles a slot before it changes what is in it.         *)

LEMMA HostUnsettles ==
  ASSUME Types, Hosting, Addresses, Flagged, Host, NEW s \in Slots, Settled(s)'
  PROVE  /\ Settled(s) /\ mac'[s] = mac[s] /\ customName'[s] = customName[s]
         /\ reading[s] = mac[s] => reading'[s] = mac[s]
  <1> USE DEF Settled, Rebinding, slotVars, nameVars, loopVars
  <1>1. /\ bound \in Nat /\ s \in Nat /\ at \in Slots
        /\ mac \in [Slots -> Macs \cup {NoMac}] /\ reading \in [Slots -> Macs \cup {Zero}]
        /\ flag \in [Slots -> BOOLEAN] /\ customName \in [Slots -> Names \cup {NoName}]
    BY SlotsExist DEF Types, SlotTypes, HostTypes, NameTypes, Slots
  <1>2. ASSUME NEW m \in Macs, Hear(m)
        PROVE  Settled(s) /\ UNCHANGED << mac, customName, reading >>
    BY <1>2 DEF Hear
  <1>3. CASE Wipe
    <2>1. s # at
      BY <1>3 DEF Wipe
    <2> QED
      BY <1>1, <1>3, <2>1 DEF Wipe
  <1>4. CASE Rebind
    <2>1. s # at
      BY <1>4 DEF Rebind
    <2> QED
      BY <1>1, <1>4, <2>1 DEF Rebind
  <1>5. CASE Raise
    <2>1. s # at
      BY <1>1, <1>5 DEF Raise
    <2> QED
      BY <1>1, <1>5, <2>1 DEF Raise
  <1>6. CASE Publish
    <2>1. ~(at = bound + 1 /\ s = at)
      BY <1>6 DEF Publish, Flagged
    <2>2. s <= bound
      BY <1>1, <1>6, <2>1 DEF Publish
    <2> QED
      BY <1>6, <2>2 DEF Publish
  <1>7. CASE Merge
    <2>1. mac[at] = hearing
      BY <1>7 DEF Merge, Hosting
    <2> QED
      BY <1>1, <1>7, <2>1 DEF Merge
  <1>8. CASE Heard
    BY <1>8 DEF Heard
  <1> QED
    BY <1>2, <1>3, <1>4, <1>5, <1>6, <1>7, <1>8 DEF Host

LEMMA HostLeaves ==
  Host => UNCHANGED << open, saved, pastVars, loopVars >>
  BY DEF Host, Hear, Wipe, Rebind, Raise, Publish, Merge, Heard, nameVars

(* The main loop settles a slot only by starting its past over. *)
LEMMA LoopSettles ==
  ASSUME Types, Pass \/ Ui, NEW s \in Slots, Settled(s)'
  PROVE  Settled(s) \/ (ClearPast /\ s = cursor)
  <1> USE DEF Settled, Rebinding, slotVars, hostVars
  <1>1. CASE LowerFlag
    <2>1. s # cursor /\ flag \in [Slots -> BOOLEAN]
      BY <1>1 DEF LowerFlag, Types, SlotTypes
    <2> QED
      BY <1>1, <2>1 DEF LowerFlag
  <1>2. CASE ClearPast
    BY <1>2 DEF ClearPast
  <1>3. CASE ~LowerFlag /\ ~ClearPast
    <2>1. UNCHANGED << flag, bound, host, at >>
      BY <1>3, LoopMovesNothing
    <2>2. loop # "clear"
      BY <1>3 DEF Pass, Ui, CheckFlag, LoadName, CheckSample, CheckExtreme, CheckSlot,
                  Record, ServiceLog, Observe, NoRename, Rename, FindRenamed, WriteRenamed
    <2> QED
      BY <2>1, <2>2
  <1> QED
    BY <1>1, <1>2, <1>3

(* The slot the loop is at, while it is at one. *)
LEMMA AtASlot ==
  ASSUME Types, Looping
  PROVE  loop \in {"lower", "clear", "load", "record", "fold", "write"} => cursor \in Slots
  BY SlotsExist DEF Looping, Types, LoopTypes, SlotTypes, Slots

-----------------------------------------------------------------------------
(* What the loop found, looked up and was given is the settled slot's.     *)

LEMMA FreshNext ==
  Types /\ Hosting /\ Addresses /\ Flagged /\ Looping /\ Fresh /\ (Host \/ Pass \/ Ui) => Fresh'
  <1> SUFFICES ASSUME Types, Hosting, Addresses, Flagged, Looping, Fresh, Host \/ Pass \/ Ui,
                      (loop \in {"record", "fold"} /\ have /\ Settled(cursor))'
               PROVE  (reading[cursor] = mac[cursor])'
    BY DEF Fresh
  <1>1. CASE Host
    <2>1. UNCHANGED << loop, cursor, have >>
      BY <1>1, HostLeaves DEF loopVars
    <2>2. cursor \in Slots
      BY <2>1, AtASlot
    <2>3. Settled(cursor)'
      OBVIOUS
    <2>4. /\ Settled(cursor) /\ mac'[cursor] = mac[cursor]
          /\ reading[cursor] = mac[cursor] => reading'[cursor] = mac[cursor]
      <3>1. ASSUME NEW s \in Slots, s = cursor
            PROVE  Settled(s)'
        BY <2>1, <2>3, <3>1 DEF Settled, Rebinding
      <3> QED
        BY <1>1, <2>2, <3>1, HostUnsettles
    <2> QED
      BY <2>1, <2>4 DEF Fresh
  <1>2. CASE CheckSample \/ CheckExtreme
    <2>1. /\ reading[cursor] # Zero /\ cursor' = cursor /\ UNCHANGED << mac, reading >>
          /\ ~(cursor > bound)
      BY <1>2 DEF CheckSample, CheckExtreme, CheckSlot, slotVars
    <2>2. cursor \in Slots
      BY <2>1, SlotsExist DEF Types, LoopTypes, SlotTypes, Slots
    <2>3. reading[cursor] \in {mac[cursor], Zero}
      BY <2>2 DEF Addresses
    <2> QED
      BY <2>1, <2>3
  <1>3. CASE (Pass \/ Ui) /\ ~CheckSample /\ ~CheckExtreme
    <2>1. loop' \notin {"record", "fold"}
      BY <1>3 DEF Pass, Ui, CheckFlag, LowerFlag, ClearPast, LoadName, Record, ServiceLog,
                  Observe, NoRename, Rename, FindRenamed, WriteRenamed
    <2> QED
      BY <2>1
  <1> QED
    BY <1>1, <1>2, <1>3

LEMMA LoadNext ==
  Types /\ Hosting /\ Addresses /\ Flagged /\ Looping /\ Load /\ (Host \/ Pass \/ Ui) => Load'
  <1> SUFFICES ASSUME Types, Hosting, Addresses, Flagged, Looping, Load, Host \/ Pass \/ Ui,
                      (loop = "load" /\ Settled(cursor))'
               PROVE  (key = mac[cursor])'
    BY DEF Load
  <1>1. CASE Host
    <2>1. UNCHANGED << loop, cursor, key >>
      BY <1>1, HostLeaves DEF loopVars
    <2>2. cursor \in Slots
      BY <2>1, AtASlot
    <2>3. ASSUME NEW s \in Slots, s = cursor
          PROVE  Settled(s) /\ mac'[s] = mac[s]
      <3>1. Settled(s)'
        BY <2>1, <2>3 DEF Settled, Rebinding
      <3> QED
        BY <1>1, <3>1, HostUnsettles
    <2> QED
      BY <2>1, <2>2, <2>3 DEF Load
  <1>2. CASE ClearPast
    BY <1>2 DEF ClearPast, slotVars
  <1>3. CASE (Pass \/ Ui) /\ ~ClearPast
    <2>1. loop' # "load"
      BY <1>3 DEF Pass, Ui, CheckFlag, LowerFlag, LoadName, CheckSample, CheckExtreme,
                  CheckSlot, Record, ServiceLog, Observe, NoRename, Rename, FindRenamed,
                  WriteRenamed
    <2> QED
      BY <2>1
  <1> QED
    BY <1>1, <1>2, <1>3

LEMMA WriteNext ==
  Types /\ Hosting /\ Addresses /\ Flagged /\ Looping /\ Write /\ (Host \/ Pass \/ Ui) => Write'
  <1> SUFFICES ASSUME Types, Hosting, Addresses, Flagged, Looping, Write, Host \/ Pass \/ Ui,
                      (loop = "write" /\ Settled(cursor))'
               PROVE  (key = mac[cursor])'
    BY DEF Write
  <1>1. CASE Host
    <2>1. UNCHANGED << loop, cursor, key >>
      BY <1>1, HostLeaves DEF loopVars
    <2>2. cursor \in Slots
      BY <2>1, AtASlot
    <2>3. ASSUME NEW s \in Slots, s = cursor
          PROVE  Settled(s) /\ mac'[s] = mac[s]
      <3>1. Settled(s)'
        BY <2>1, <2>3 DEF Settled, Rebinding
      <3> QED
        BY <1>1, <3>1, HostUnsettles
    <2> QED
      BY <2>1, <2>2, <2>3 DEF Write
  <1>2. CASE FindRenamed
    BY <1>2 DEF FindRenamed, slotVars
  <1>3. CASE (Pass \/ Ui) /\ ~FindRenamed
    <2>1. loop' # "write"
      BY <1>3 DEF Pass, Ui, CheckFlag, LowerFlag, ClearPast, LoadName, CheckSample,
                  CheckExtreme, CheckSlot, Record, ServiceLog, Observe, NoRename, Rename,
                  WriteRenamed
    <2> QED
      BY <2>1
  <1> QED
    BY <1>1, <1>2, <1>3

(* A slot's high and low, however the two tasks interleave. *)
LEMMA ExtremesNext ==
  Types /\ Hosting /\ Addresses /\ Flagged /\ Looping /\ Fresh /\ ExtremesAreOwn
    /\ (Host \/ Pass \/ Ui) => ExtremesAreOwn'
  <1> SUFFICES ASSUME Types, Hosting, Addresses, Flagged, Looping, Fresh, ExtremesAreOwn,
                      Host \/ Pass \/ Ui, NEW s \in Slots, Settled(s)'
               PROVE  extremes'[s] \subseteq {mac'[s]}
    BY DEF ExtremesAreOwn
  <1> USE DEF ExtremesAreOwn
  <1>1. CASE Host
    BY <1>1, HostUnsettles, HostLeaves DEF pastVars
  <1>2. CASE Pass \/ Ui
    <2>1. mac' = mac /\ extremes \in [Slots -> SUBSET (Macs \cup {Zero})]
      BY <1>2, LoopMovesNothing DEF Types, PastTypes
    <2>2. CASE ClearPast
      <3>1. s = cursor \/ Settled(s)
        BY <1>2, LoopSettles
      <3> QED
        BY <2>1, <2>2, <3>1 DEF ClearPast
    <2>3. CASE ~ClearPast
      <3>1. Settled(s)
        BY <1>2, <2>3, LoopSettles
      <3>2. CASE Observe
        <4>1. s = cursor /\ have => reading[s] = mac[s]
          BY <3>1, <3>2 DEF Observe, Fresh
        <4> QED
          BY <2>1, <3>1, <3>2, <4>1 DEF Observe
      <3>3. CASE ServiceLog
        BY <2>1, <3>1, <3>3 DEF ServiceLog
      <3>4. CASE UNCHANGED extremes
        BY <2>1, <3>1, <3>4
      <3> QED
        BY <1>2, <2>3, <3>2, <3>3, <3>4
           DEF Pass, Ui, CheckFlag, LowerFlag, LoadName, CheckSample, CheckExtreme, CheckSlot,
               Record, NoRename, Rename, FindRenamed, WriteRenamed, pastVars
    <2> QED
      BY <2>2, <2>3
  <1> QED
    BY <1>1, <1>2

(* Only what the loop is on its way to may have another name. *)
LEMMA NamedNext ==
  Types /\ Hosting /\ Addresses /\ Flagged /\ Looping /\ Load /\ Write /\ Named
    /\ (Host \/ Pass \/ Ui) => Named'
  <1> SUFFICES ASSUME Types, Hosting, Addresses, Flagged, Looping, Load, Write, Named,
                      Host \/ Pass \/ Ui, NEW s \in Slots,
                      open', Settled(s)', ~Underway(s)'
               PROVE  customName'[s] = Stored(mac[s])'
    BY DEF Named
  <1>0. /\ s \in Nat /\ cursor \in Nat /\ bound \in Nat
        /\ customName \in [Slots -> Names \cup {NoName}]
        /\ saved \in [Macs -> Names \cup {NoName}]
    BY SlotsExist DEF Types, SlotTypes, NameTypes, LoopTypes, Slots
  <1>1. CASE Host
    <2>1. UNCHANGED << open, saved, loop, cursor, key >>
      BY <1>1, HostLeaves DEF loopVars
    <2>2. Settled(s) /\ mac'[s] = mac[s] /\ customName'[s] = customName[s]
      BY <1>1, HostUnsettles
    <2>3. ~Underway(s)
      BY <2>1, <2>2 DEF Underway
    <2> QED
      BY <2>1, <2>2, <2>3 DEF Named, Stored
  <1>2. CASE Pass \/ Ui
    <2>1. mac' = mac /\ open' = open
      BY <1>2, LoopMovesNothing
         DEF Pass, Ui, CheckFlag, LowerFlag, ClearPast, LoadName, CheckSample, CheckExtreme,
             CheckSlot, Record, ServiceLog, Observe, NoRename, Rename, FindRenamed,
             WriteRenamed, nameVars
    <2>2. CASE ClearPast
      <3>1. s # cursor /\ loop = "clear"
        BY <2>2 DEF ClearPast, Underway
      <3>2. Settled(s) /\ ~Underway(s)
        BY <1>2, <3>1, LoopSettles DEF Underway
      <3> QED
        BY <2>1, <2>2, <3>2 DEF ClearPast, Named, Stored, nameVars
    <2>3. CASE ~ClearPast
      <3>1. Settled(s)
        BY <1>2, <2>3, LoopSettles
      <3>2. CASE LoadName
        <4>1. s # cursor => ~Underway(s)
          BY <3>2 DEF LoadName, Underway
        <4>2. s = cursor => key = mac[s]
          BY <3>1, <3>2 DEF LoadName, Load
        <4> QED
          BY <1>0, <2>1, <3>1, <3>2, <4>1, <4>2 DEF LoadName, Named, Stored
      <3>3. CASE WriteRenamed
        <4>1. s # cursor => ~Underway(s)
          BY <3>3 DEF WriteRenamed, Underway
        <4>2. s = cursor => key = mac[s] /\ key \in Macs /\ saved[key] = given
          BY <2>1, <3>1, <3>3 DEF WriteRenamed, Write, Looping
        <4> QED
          BY <1>0, <2>1, <3>1, <3>3, <4>1, <4>2 DEF WriteRenamed, Named, Stored
      <3>4. ASSUME NEW m \in Macs, NEW name \in Names \cup {NoName}, Rename(m, name)
            PROVE  customName'[s] = Stored(mac[s])'
        <4>1. loop = "ui" /\ loop' = "find" /\ cursor' = 1 /\ key' = m /\ customName' = customName
          BY <3>4 DEF Rename
        <4>2. mac[s] # m
          <5>1. 1 <= s
            BY DEF Slots
          <5> QED
            BY <2>1, <4>1, <5>1 DEF Underway
        <4>3. saved' = [saved EXCEPT ![m] = name]
          BY <2>1, <3>4 DEF Rename
        <4>4. ~Underway(s)
          BY <4>1 DEF Underway
        <4> QED
          BY <1>0, <2>1, <3>1, <4>1, <4>2, <4>3, <4>4 DEF Named, Stored
      <3>5. CASE FindRenamed
        <4>1. loop = "find" /\ key \in Macs /\ UNCHANGED << saved, customName >>
          BY <3>5 DEF FindRenamed, Looping, nameVars
        <4>2. ~Underway(s)
          <5>1. CASE cursor > bound
            <6>1. ~(cursor <= s)
              BY <1>0, <3>1, <5>1 DEF Settled
            <6> QED
              BY <4>1, <6>1 DEF Underway
          <5>2. CASE ~(cursor > bound) /\ mac[cursor] = key
            <6>1. loop' = "write" /\ cursor' = cursor /\ key' = key
              BY <3>5, <5>2 DEF FindRenamed
            <6>2. ~(s = cursor)
              BY <2>1, <5>2, <6>1 DEF Underway
            <6>3. cursor \in Slots
              BY <5>2, SlotsExist DEF Types, LoopTypes, SlotTypes, Slots
            <6>4. mac[s] # key
              BY <4>1, <5>2, <6>2, <6>3, EnvSensorsAssumption DEF Addresses
            <6> QED
              BY <4>1, <6>4 DEF Underway
          <5>3. CASE ~(cursor > bound) /\ mac[cursor] # key
            <6>1. loop' = loop /\ cursor' = cursor + 1 /\ key' = key
              BY <3>5, <5>3 DEF FindRenamed, NextSlot
            <6>2. cursor <= s /\ mac[s] = key => cursor + 1 <= s
              BY <1>0, <5>3
            <6> QED
              BY <2>1, <4>1, <6>1, <6>2 DEF Underway
          <5> QED
            BY <5>1, <5>2, <5>3
        <4> QED
          BY <2>1, <3>1, <4>1, <4>2 DEF Named, Stored
      <3>6. CASE UNCHANGED nameVars /\ loop \notin {"load", "find", "write"}
        <4>1. ~Underway(s)
          BY <3>6 DEF Underway
        <4> QED
          BY <2>1, <3>1, <3>6, <4>1 DEF Named, Stored, nameVars
      <3> QED
        BY <1>2, <2>3, <3>2, <3>3, <3>4, <3>5, <3>6
           DEF Pass, Ui, CheckFlag, LowerFlag, CheckSample, CheckExtreme, CheckSlot, Record,
               ServiceLog, Observe, NoRename
    <2> QED
      BY <2>2, <2>3
  <1> QED
    BY <1>1, <1>2

-----------------------------------------------------------------------------
(* The invariant.                                                          *)

LEMMA InitInv == Init => Inv
  <1> SUFFICES ASSUME Init
               PROVE  Inv
    OBVIOUS
  <1>1. \A s \in Slots : ~Settled(s)
    BY DEF Init, Slots, Settled
  <1>2. Fresh /\ Load /\ Write /\ Named /\ ExtremesAreOwn
    BY <1>1 DEF Init, Fresh, Load, Write, Named, ExtremesAreOwn
  <1> QED
    BY <1>2, InitTypes, InitSlots DEF Inv

LEMMA InvNext == Inv /\ [Next]_vars => Inv'
  <1>1. Inv /\ Next => Inv'
    <2> SUFFICES ASSUME Inv, Next
                 PROVE  Inv'
      OBVIOUS
    <2>1. Host \/ Pass \/ Ui
      BY DEF Next
    <2>2. Types'
      BY <2>1, HostKeepsTypes, LoopKeepsTypes DEF Inv
    <2>3. Hosting' /\ Addresses' /\ Flagged' /\ Looping'
      BY <2>1, HostingNext, AddressesNext, FlaggedNext, LoopingNext DEF Inv
    <2>4. Fresh' /\ Load' /\ Write' /\ Named' /\ ExtremesAreOwn'
      BY <2>1, FreshNext, LoadNext, WriteNext, NamedNext, ExtremesNext DEF Inv
    <2> QED
      BY <2>2, <2>3, <2>4 DEF Inv
  <1>2. Inv /\ UNCHANGED vars => Inv'
    BY DEF vars, slotVars, hostVars, nameVars, pastVars, loopVars, Inv, Types, SlotTypes,
           HostTypes, NameTypes, PastTypes, LoopTypes, Hosting, Addresses, Flagged, Looping,
           Fresh, Load, Write, Named, Underway, Stored, ExtremesAreOwn, Settled, Rebinding
  <1> QED
    BY <1>1, <1>2

LEMMA Invariant == Spec => []Inv
  <1> QED
    BY InitInv, InvNext, PTL DEF Spec

-----------------------------------------------------------------------------
(***************************************************************************)
(* The environment sensors are well typed: the list of who was heard never *)
(* names a slot twice, so that it never outgrows the table.                *)
(***************************************************************************)
THEOREM SensorsTypeCorrect == Spec => []TypeOK
  <1>1. ASSUME NEW list \in Seq(Slots),
               \A i, j \in 1 .. Len(list) : list[i] = list[j] => i = j
        PROVE  Len(list) <= NSlots
    <2> DEFINE places == 1 .. Len(list)
               slot == [i \in places |-> list[i]]
    <2>1. NSlots \in Nat /\ Len(list) \in Nat
      BY SlotsExist
    <2>2. \A n \in Nat : IsFiniteSet(1 .. n) /\ Cardinality(1 .. n) = n
      <3> TAKE n \in Nat
      <3>1. 1 \in Int /\ n \in Int
        OBVIOUS
      <3>2. IsFiniteSet(1 .. n) /\ Cardinality(1 .. n) = IF 1 > n THEN 0 ELSE n - 1 + 1
        BY <3>1, FS_Interval
      <3> QED
        BY <3>2
    <2>3. IsFiniteSet(places) /\ Cardinality(places) = Len(list)
      BY <2>1, <2>2
    <2>4. IsFiniteSet(Slots) /\ Cardinality(Slots) = NSlots
      BY <2>1, <2>2 DEF Slots
    <2>5. slot \in [places -> Slots]
      OBVIOUS
    <2>6. \A x, y \in places : slot[x] = slot[y] => x = y
      BY <1>1
    <2> HIDE DEF places, slot
    <2>7. ~(Cardinality(Slots) < Cardinality(places))
      BY <2>3, <2>4, <2>5, <2>6, FS_PigeonHole
    <2> QED
      BY <2>1, <2>3, <2>4, <2>7
  <1>2. Inv => TypeOK
    <2> SUFFICES ASSUME Inv
                 PROVE  TypeOK
      OBVIOUS
    <2>1. Types
      BY DEF Inv
    <2>2. quiet \in Seq(Slots) /\ Len(quiet) <= NSlots
      BY <2>1, <1>1 DEF Types, SlotTypes
    <2>3. \A s \in Slots : /\ history[s].ring \in [Cells -> Samples]
                           /\ history[s].head \in Cells /\ history[s].count \in 0 .. KSamples
      BY <2>1 DEF Types, PastTypes, WellFormed
    <2> QED
      BY <2>1, <2>2, <2>3
         DEF Types, SlotTypes, HostTypes, NameTypes, PastTypes, LoopTypes, TypeOK
  <1> QED
    BY <1>2, Invariant, PTL

(***************************************************************************)
(* Today's high and low of a settled row are its own sensor's, whenever    *)
(* the host task gives a slot away in the middle of a pass (observeMinute, *)
(* env_sensors.cpp:220-234).                                               *)
(***************************************************************************)
THEOREM ExtremesOwned == Spec => []ExtremesAreOwn
  <1>1. Inv => ExtremesAreOwn
    BY DEF Inv
  <1> QED
    BY <1>1, Invariant, PTL

(***************************************************************************)
(* Between two passes a settled row shows the name stored for its sensor,  *)
(* renamed or rebound in whatever order.                                   *)
(***************************************************************************)
THEOREM NamesFollowed == Spec => []NamesFollow
  <1>1. Inv => NamesFollow
    BY DEF Inv, Named, Underway, NamesFollow
  <1> QED
    BY <1>1, Invariant, PTL

-----------------------------------------------------------------------------
(* The refinement: what the page shows of a slot.                          *)

Sensor == [s \in Slots |-> IF Settled(s) THEN mac[s] ELSE NoMac]
Trend  == [s \in Slots |-> IF Settled(s) THEN Contents(history[s]) ELSE << >>]

SameRow(s) == Sensor'[s] = Sensor[s] /\ Trend'[s] = Trend[s]

LEMMA RowKept ==
  ASSUME NEW s \in Slots, Settled(s)' <=> Settled(s),
         mac'[s] = mac[s], history'[s] = history[s]
  PROVE  SameRow(s)
  <1> DEFINE seen == Contents(history[s])
  <1>1. Contents(history'[s]) = seen
    BY DEF Contents
  <1>2. Trend'[s] = IF Settled(s)' THEN Contents(history'[s]) ELSE << >>
    BY DEF Trend, Contents, At, Oldest
  <1>3. Trend[s] = IF Settled(s) THEN seen ELSE << >>
    BY DEF Trend
  <1>4. Sensor'[s] = IF Settled(s)' THEN mac'[s] ELSE NoMac
    BY DEF Sensor
  <1>5. Sensor[s] = IF Settled(s) THEN mac[s] ELSE NoMac
    BY DEF Sensor
  <1> QED
    BY <1>1, <1>2, <1>3, <1>4, <1>5 DEF SameRow

(* Every row stays, or one row does what the page allows it to. *)
LEMMA RowsKept ==
  ASSUME \A s \in Slots : SameRow(s)
  PROVE  UNCHANGED Page!vars
  <1>1. Sensor' = Sensor /\ Trend' = Trend
    BY DEF SameRow, Sensor, Trend
  <1> QED
    BY <1>1 DEF Sensor, Trend, Page!vars

LEMMA RowVacated ==
  ASSUME NEW r \in Slots, \A s \in Slots : s # r => SameRow(s), ~Settled(r)'
  PROVE  Page!Next
  <1>1. Sensor'[r] = NoMac /\ Trend'[r] = << >>
    BY DEF Sensor, Trend
  <1>2. Sensor' = [Sensor EXCEPT ![r] = NoMac] /\ Trend' = [Trend EXCEPT ![r] = << >>]
    BY <1>1 DEF SameRow, Sensor, Trend
  <1>3. Page!Vacate(r)
    BY <1>2 DEF Sensor, Trend, Page!Vacate
  <1> QED
    BY <1>3 DEF Page!Next

LEMMA RowOccupied ==
  ASSUME NEW r \in Slots, NEW m \in Macs, \A s \in Slots : s # r => SameRow(s),
         ~Settled(r), Sensor'[r] = m, Trend'[r] = << >>
  PROVE  Page!Next
  <1>1. Sensor[r] = NoMac /\ Trend[r] = << >>
    BY DEF Sensor, Trend
  <1>2. Sensor' = [Sensor EXCEPT ![r] = m] /\ Trend' = Trend
    BY <1>1 DEF SameRow, Sensor, Trend
  <1>3. Page!Occupy(r, m)
    BY <1>1, <1>2 DEF Sensor, Trend, Page!Occupy
  <1> QED
    BY <1>3 DEF Page!Next

LEMMA RowSampled ==
  ASSUME NEW r \in Slots, NEW sample \in {Sensor[r], Gap},
         \A s \in Slots : s # r => SameRow(s), Sensor[r] # NoMac,
         Sensor'[r] = Sensor[r], Trend'[r] = Scrolled(Trend[r], sample)
  PROVE  Page!Next
  <1>1. Sensor' = Sensor
    BY DEF SameRow, Sensor
  <1>2. Trend' = [Trend EXCEPT ![r] = Scrolled(Trend[r], sample)]
    BY DEF SameRow, Trend
  <1>3. Trend' = [Trend EXCEPT ![r] =
                    Append(IF Len(Trend[r]) < KSamples THEN Trend[r] ELSE Tail(Trend[r]), sample)]
    BY <1>2 DEF Scrolled
  <1>4. Page!Sample(r)
    BY <1>1, <1>3 DEF Sensor, Trend, Page!Sample
  <1> QED
    BY <1>4 DEF Page!Next

(* The host task vacates a row when it wipes the slot, and never else. *)
LEMMA HostStep ==
  ASSUME Inv, Host
  PROVE  Page!Next \/ UNCHANGED Page!vars
  <1>1. Types /\ Hosting /\ Addresses /\ Flagged
    BY DEF Inv
  <1>2. ASSUME NEW s \in Slots, ~(Wipe /\ s = at), Settled(s)
        PROVE  Settled(s)'
    <2> USE <1>2 DEF Settled, Rebinding, slotVars, loopVars
    <2>1. bound \in Nat /\ s \in Nat /\ at \in Slots /\ flag \in [Slots -> BOOLEAN]
      BY <1>1, SlotsExist DEF Types, SlotTypes, HostTypes, Slots
    <2>2. ASSUME NEW m \in Macs, Hear(m)
          PROVE  Settled(s)'
      BY <2>2 DEF Hear
    <2>3. CASE Wipe
      BY <2>1, <2>3 DEF Wipe
    <2>4. CASE Rebind
      BY <2>4 DEF Rebind
    <2>5. CASE Raise
      BY <2>1, <2>5 DEF Raise
    <2>6. CASE Publish
      <3>1. s <= bound'
        BY <2>1, <2>6 DEF Publish
      <3> QED
        BY <2>6, <3>1 DEF Publish
    <2>7. CASE Merge
      BY <2>7 DEF Merge
    <2>8. CASE Heard
      BY <2>8 DEF Heard
    <2> QED
      BY <2>2, <2>3, <2>4, <2>5, <2>6, <2>7, <2>8 DEF Host
  <1>3. ASSUME NEW s \in Slots, ~(Wipe /\ s = at)
        PROVE  SameRow(s)
    <2>1. CASE Settled(s)
      <3>1. Settled(s)' /\ mac'[s] = mac[s]
        BY <1>1, <1>2, <1>3, <2>1, HostUnsettles
      <3> QED
        BY <2>1, <3>1, RowKept, HostLeaves DEF pastVars
    <2>2. CASE ~Settled(s)
      <3>1. ~Settled(s)'
        BY <1>1, <2>2, HostUnsettles
      <3> QED
        BY <2>2, <3>1 DEF SameRow, Sensor, Trend
    <2> QED
      BY <2>1, <2>2
  <1>4. CASE Wipe
    <2>1. at \in Slots
      BY <1>1 DEF Types, HostTypes
    <2>2. ASSUME NEW r \in Slots, r = at
          PROVE  Page!Next
      <3>1. ~Settled(r)'
        <4>1. host' = "address" /\ at' = at
          BY <1>4 DEF Wipe
        <4> QED
          BY <2>2, <4>1 DEF Settled, Rebinding
      <3>2. \A s \in Slots : s # r => SameRow(s)
        BY <1>3, <2>2
      <3> QED
        BY <3>1, <3>2, RowVacated
    <2> QED
      BY <2>1, <2>2
  <1>5. CASE ~Wipe
    BY <1>3, <1>5, RowsKept
  <1> QED
    BY <1>4, <1>5

(* The main loop vacates a row on its way to clearing it, occupies it once *)
(* it did, and samples it.                                                 *)
LEMMA LoopStep ==
  ASSUME Inv, Pass \/ Ui
  PROVE  Page!Next \/ UNCHANGED Page!vars
  <1>1. Types /\ Hosting /\ Addresses /\ Looping /\ Fresh
    BY DEF Inv
  <1>2. UNCHANGED << mac, reading, bound, quiet, host, hearing, at >>
    BY LoopMovesNothing
  <1>3. loop \in {"lower", "clear", "load", "record", "fold", "write"} => cursor \in Slots
    BY <1>1, AtASlot
  <1>4. CASE LowerFlag
    <2>1. /\ flag' = [flag EXCEPT ![cursor] = FALSE] /\ loop = "lower" /\ loop' = "clear"
          /\ cursor' = cursor /\ UNCHANGED pastVars
      BY <1>4 DEF LowerFlag
    <2>2. ASSUME NEW s \in Slots, s # cursor
          PROVE  SameRow(s)
      <3>1. flag'[s] = flag[s]
        BY <2>1, <2>2, <1>1 DEF Types, SlotTypes
      <3>2. Settled(s)' <=> Settled(s)
        BY <1>2, <2>1, <2>2, <3>1 DEF Settled, Rebinding
      <3> QED
        BY <1>2, <2>1, <3>2, RowKept DEF pastVars
    <2>3. ASSUME NEW r \in Slots, r = cursor
          PROVE  Page!Next
      <3>1. ~Settled(r)'
        BY <2>1, <2>3 DEF Settled
      <3> QED
        BY <2>2, <2>3, <3>1, RowVacated
    <2> QED
      BY <1>3, <2>1, <2>3
  <1>5. CASE ClearPast
    <2>1. /\ loop = "clear" /\ loop' = "load" /\ cursor' = cursor /\ flag' = flag
          /\ history' = [history EXCEPT ![cursor] = Cleared(@)]
      BY <1>5 DEF ClearPast, slotVars
    <2>2. cursor \in Slots /\ history \in [Slots -> Rings]
      BY <1>1, <1>3, <2>1 DEF Types, PastTypes
    <2>3. ASSUME NEW s \in Slots, s # cursor
          PROVE  SameRow(s)
      <3>1. Settled(s)' <=> Settled(s)
        BY <1>2, <2>1, <2>3 DEF Settled, Rebinding
      <3>2. history'[s] = history[s]
        BY <2>1, <2>2, <2>3
      <3> QED
        BY <1>2, <3>1, <3>2, RowKept
    <2>4. ASSUME NEW r \in Slots, r = cursor
          PROVE  Page!Next \/ UNCHANGED Page!vars
      <3>1. ~Settled(r)
        BY <2>1, <2>4 DEF Settled
      <3>2. CASE Settled(r)'
        <4>1. mac[r] \in Macs
          BY <1>1, <1>2, <3>2 DEF Settled, Rebinding, Addresses
        <4>2. Sensor'[r] = mac[r]
          BY <1>2, <3>2 DEF Sensor
        <4>3. history'[r] = Cleared(history[r])
          BY <2>1, <2>2, <2>4
        <4>4. Contents(history'[r]) = << >>
          BY <1>1, <4>3, ClearedWellFormed DEF Types, PastTypes
        <4>5. Contents(history[r])' = Contents(history'[r])
          BY DEF Contents, At, Oldest
        <4>6. Trend'[r] = << >>
          BY <3>2, <4>4, <4>5 DEF Trend
        <4> QED
          BY <2>3, <2>4, <3>1, <4>1, <4>2, <4>6, RowOccupied
      <3>3. CASE ~Settled(r)'
        BY <2>3, <2>4, <3>3, RowVacated
      <3> QED
        BY <3>2, <3>3
    <2> QED
      BY <2>2, <2>4
  <1>6. CASE Record
    <2>1. /\ loop = "record" /\ loop' = "sample" /\ flag' = flag
      BY <1>6 DEF Record, slotVars
    <2>2. cursor \in Slots /\ history \in [Slots -> Rings]
      BY <1>1, <1>3, <2>1 DEF Types, PastTypes
    <2>3. \A s \in Slots : Settled(s)' <=> Settled(s)
      BY <1>2, <2>1 DEF Settled, Rebinding
    <2>4. CASE history' = history
      BY <1>2, <2>3, <2>4, RowKept, RowsKept
    <2> DEFINE sample == IF have THEN reading[cursor] ELSE Gap
    <2>5. CASE history' = [history EXCEPT ![cursor] = Recorded(@, sample)]
      <3>1. ASSUME NEW s \in Slots, s # cursor
            PROVE  SameRow(s)
        <4>1. history'[s] = history[s]
          BY <2>2, <2>5, <3>1
        <4> QED
          BY <1>2, <2>3, <4>1, RowKept
      <3>2. ASSUME NEW r \in Slots, r = cursor
            PROVE  Page!Next \/ UNCHANGED Page!vars
        <4>1. CASE Settled(r)
          <5>1. Sensor[r] = mac[r] /\ Sensor'[r] = mac[r]
            BY <1>2, <2>3, <4>1 DEF Sensor
          <5>2. mac[r] \in Macs
            BY <1>1, <4>1 DEF Settled, Rebinding, Addresses
          <5>3. sample \in {mac[r], Gap}
            BY <1>1, <2>1, <3>2, <4>1 DEF Fresh
          <5>4. sample \in Samples
            BY <5>2, <5>3 DEF Samples
          <5>5. Trend[r] = Contents(history[r])
            BY <4>1 DEF Trend
          <5>6. Trend'[r] = Contents(history'[r])
            <6>1. Contents(history[r])' = Contents(history'[r])
              BY DEF Contents, At, Oldest
            <6> QED
              BY <2>3, <4>1, <6>1 DEF Trend
          <5>7. history'[r] = Recorded(history[r], sample)
            BY <2>2, <2>5, <3>2
          <5>8. WellFormed(history[r], Samples)
            BY <1>1 DEF Types, PastTypes
          <5> HIDE DEF sample
          <5>9. Contents(history'[r]) = Scrolled(Contents(history[r]), sample)
            BY <5>4, <5>7, <5>8, RingIsWindow
          <5>10. Sensor[r] # NoMac
            BY <5>1, <5>2, EnvSensorsAssumption
          <5> QED
            BY <3>1, <3>2, <5>1, <5>3, <5>5, <5>6, <5>9, <5>10, RowSampled
        <4>2. CASE ~Settled(r)
          <5>1. SameRow(r)
            BY <2>3, <4>2 DEF SameRow, Sensor, Trend
          <5> QED
            BY <3>1, <3>2, <5>1, RowsKept
        <4> QED
          BY <4>1, <4>2
      <3> QED
        BY <2>2, <3>2
    <2> QED
      BY <1>6, <2>4, <2>5 DEF Record
  <1>7. CASE ~LowerFlag /\ ~ClearPast /\ ~Record
    <2>1. loop # "clear" /\ loop' # "clear" /\ flag' = flag /\ history' = history
      <3> USE DEF slotVars, pastVars
      <3>1. CASE Ui
        BY <3>1 DEF Ui, NoRename, Rename, FindRenamed, WriteRenamed
      <3>2. CASE CheckFlag \/ LoadName \/ ServiceLog \/ Observe
        BY <3>2 DEF CheckFlag, LoadName, ServiceLog, Observe
      <3>3. CASE CheckSample \/ CheckExtreme
        BY <3>3 DEF CheckSample, CheckExtreme, CheckSlot
      <3> QED
        BY <1>7, <3>1, <3>2, <3>3 DEF Pass
    <2>2. \A s \in Slots : Settled(s)' <=> Settled(s)
      BY <1>2, <2>1 DEF Settled, Rebinding
    <2> QED
      BY <1>2, <2>1, <2>2, RowKept, RowsKept
  <1> QED
    BY <1>4, <1>5, <1>6, <1>7

(***************************************************************************)
(* The slots implement the Climate page: whatever the host task rebinds    *)
(* while the loop samples, a row's trend is the window of the last samples *)
(* its own sensor sent (env_sensors.h:99-103).                             *)
(***************************************************************************)
THEOREM SlotsImplementClimate == Spec => ImplementsClimate
  <1>1. Init => Page!Init
    <2> HAVE Init
    <2>1. \A s \in Slots : ~Settled(s)
      BY DEF Init, Slots, Settled
    <2> QED
      BY <2>1 DEF Page!Init
  <1>2. Inv /\ [Next]_vars => [Page!Next]_(Page!vars)
    <2> SUFFICES ASSUME Inv, [Next]_vars
                 PROVE  Page!Next \/ UNCHANGED Page!vars
      OBVIOUS
    <2>1. CASE Host
      BY <2>1, HostStep
    <2>2. CASE Pass \/ Ui
      BY <2>2, LoopStep
    <2>3. CASE UNCHANGED vars
      <3>1. \A s \in Slots : Settled(s)' <=> Settled(s)
        BY <2>3 DEF vars, slotVars, hostVars, loopVars, Settled, Rebinding
      <3>2. mac' = mac /\ history' = history
        BY <2>3 DEF vars, slotVars, pastVars
      <3> QED
        BY <3>1, <3>2, RowKept, RowsKept
    <2> QED
      BY <2>1, <2>2, <2>3 DEF Next
  <1> QED
    BY <1>1, <1>2, Invariant, PTL DEF Spec, ImplementsClimate, Page!Spec

=============================================================================
