---------------------------- MODULE AlarmsProofs ----------------------------
(***************************************************************************)
(* What TLC shows of Alarms for three ids, proved for every table, every   *)
(* order of evaluation and every set of ids: the type invariant, the two   *)
(* safety invariants, and that the table implements AlarmPanel.            *)
(***************************************************************************)
EXTENDS Alarms, FiniteSetTheorems, TLAPS

(* Evaluation has reached Order[step]: everything before it is settled.    *)
Settled == \A k \in 1 .. step - 1 : Order[k] \in ActiveIds <=> Order[k] \in bad

(***************************************************************************)
(* Neither SlotsPublishedWhole nor PanelMatchesFaults is inductive alone:  *)
(* the first needs to know what the unpublished slot holds while it waits  *)
(* for count_++, the second what a half-done evaluation has settled.       *)
(***************************************************************************)
IInv ==
  /\ TypeOK
  /\ SlotsPublishedWhole
  /\ bpc = "idle" => ActiveIds = bad
  /\ bpc \in {"next", "publish", "store", "unmute"} => Settled
  /\ bpc = "publish" =>
       /\ count < KMax
       /\ table[count + 1] = Fresh(Order[step])
       /\ SlotOf(Order[step]) = {}
       /\ Order[step] \in bad
  /\ bpc = "store" =>
       /\ at \in Published
       /\ table[at].id = Order[step]
       /\ Order[step] \in bad
       /\ todo # {}
       /\ "active" \notin todo => table[at].active
  /\ bpc = "unmute" =>
       /\ Order[step] \notin bad
       /\ Order[step] \notin ActiveIds
  /\ bpc = "drop" =>
       /\ bad = {}
       /\ at <= count + 1
       /\ \A i \in 1 .. at - 1 : ~table[i].active

-----------------------------------------------------------------------------
(* What each access to the table does to the set of active alarms. *)

(* An id is active exactly when a published slot holds it raised. *)
LEMMA ActiveMember ==
  \A id : id \in ActiveIds <=> \E i \in Published : table[i].active /\ table[i].id = id
BY DEF ActiveIds

(* Leaving the table alone leaves the alarms alone. *)
LEMMA TableUnchanged ==
  ASSUME UNCHANGED tableVars
  PROVE  ActiveIds' = ActiveIds
BY DEF tableVars, ActiveIds, Published

(* 1 .. n has n elements. *)
LEMMA IntervalSize ==
  ASSUME NEW n \in Nat
  PROVE  IsFiniteSet(1 .. n) /\ Cardinality(1 .. n) = n
<1>1. 1 \in Int /\ n \in Int
  OBVIOUS
<1>2. IsFiniteSet(1 .. n) /\ Cardinality(1 .. n) = IF 1 > n THEN 0 ELSE n - 1 + 1
  BY <1>1, FS_Interval
<1> QED BY <1>2

(* The published slots are slots, each a well-formed one. *)
LEMMA SlotType ==
  ASSUME TypeOK
  PROVE  /\ Published \subseteq Slots
         /\ table \in [Slots -> [id : Ids \cup {NoId}, sev : Severity, active : BOOLEAN]]
         /\ count \in Nat
BY AlarmsAssumption DEF TypeOK, Published, Slots

(***************************************************************************)
(* The table never runs out: while an id has no slot, the published slots  *)
(* hold distinct other ids, so there are fewer of them than ids, and the   *)
(* table has as many slots as ids (alarms.cpp:15 never drops an alarm).    *)
(***************************************************************************)
LEMMA SlotLeft ==
  ASSUME IInv, SlotOf(Order[step]) = {}
  PROVE  count < N /\ ~TableFull
<1> USE AlarmsAssumption
<1> DEFINE others == (1 .. N) \ {step}
           place  == [i \in Published |-> CHOOSE k \in 1 .. N : Order[k] = table[i].id]
<1>1. \A i \in Published : table[i] \in [id : Ids \cup {NoId}, sev : Severity, active : BOOLEAN]
  BY DEF IInv, TypeOK, Published, Slots
<1>2. \A i \in Published : table[i].id \in Ids
  BY <1>1 DEF IInv, SlotsPublishedWhole
<1>3. \A i \in Published : place[i] \in 1 .. N /\ Order[place[i]] = table[i].id
  BY <1>2
<1>4. place \in [Published -> others]
  <2>1. \A i \in Published : table[i].id # Order[step]
    BY DEF SlotOf
  <2>2. \A i \in Published : place[i] # step
    BY <1>3, <2>1
  <2> QED BY <1>3, <2>2
<1>5. /\ IsFiniteSet(Published) /\ Cardinality(Published) = count
      /\ count \in Nat
  <2>1. count \in Nat BY DEF IInv, TypeOK
  <2> QED BY <2>1, IntervalSize DEF Published
<1>6. IsFiniteSet(others) /\ Cardinality(others) = N - 1
  <2>1. IsFiniteSet(1 .. N) /\ Cardinality(1 .. N) = N
    BY IntervalSize
  <2>2. step \in 1 .. N BY DEF IInv, TypeOK
  <2>3. /\ IsFiniteSet((1 .. N) \ {step})
        /\ Cardinality((1 .. N) \ {step}) =
             IF step \in 1 .. N THEN Cardinality(1 .. N) - 1 ELSE Cardinality(1 .. N)
    <3> DEFINE all == 1 .. N
    <3>1. IsFiniteSet(all) BY <2>1
    <3> HIDE DEF all
    <3>2. /\ IsFiniteSet(all \ {step})
          /\ Cardinality(all \ {step}) =
               IF step \in all THEN Cardinality(all) - 1 ELSE Cardinality(all)
      BY <3>1, FS_RemoveElement
    <3> QED BY <3>2 DEF all
  <2> QED BY <2>1, <2>2, <2>3
<1>7. count < N
  <2>1. SUFFICES ASSUME N <= count PROVE FALSE
    BY <1>5
  <2>2. Cardinality(others) < Cardinality(Published)
    BY <2>1, <1>5, <1>6
  <2> HIDE DEF others, place
  <2>3. \E x, y \in Published : x # y /\ place[x] = place[y]
    BY <2>2, <1>4, <1>5, <1>6, FS_PigeonHole
  <2>4. PICK x \in Published, y \in Published : x # y /\ place[x] = place[y]
    BY <2>3
  <2>5. table[x].id = table[y].id
    BY <2>4, <1>3
  <2> QED BY <2>4, <2>5 DEF IInv, SlotsPublishedWhole
<1> QED BY <1>5, <1>7 DEF TableFull

(* Handing a slot to the readers raises nothing: it is still inactive. *)
LEMMA PublishActive ==
  ASSUME IInv, Publish
  PROVE  ActiveIds' = ActiveIds
<1>1. count \in Nat /\ count' = count + 1 /\ table' = table
  BY DEF IInv, TypeOK, Publish
<1>2. ~table[count + 1].active
  BY DEF IInv, Publish, Fresh
<1>3. Published' = Published \cup {count + 1}
  BY <1>1 DEF Published
<1> QED BY <1>1, <1>2, <1>3 DEF ActiveIds

(* The store of `active` raises the id being raised; no other store does. *)
LEMMA StoreActive ==
  ASSUME IInv, NEW f \in {"sev", "active"}, Store(f)
  PROVE  ActiveIds' = IF f = "active" THEN ActiveIds \cup {Order[step]} ELSE ActiveIds
<1> USE SlotType DEF IInv
<1>1. /\ at \in Published /\ table[at].id = Order[step]
      /\ Published' = Published
  BY DEF Store, Published
<1>2. \A i \in Published :
        /\ table'[i].id = table[i].id
        /\ table'[i].active <=> (table[i].active \/ (i = at /\ f = "active"))
  BY <1>1 DEF Store
<1>3. \A id : id \in ActiveIds' <=>
        \E i \in Published : table'[i].active /\ table'[i].id = id
  BY <1>1 DEF ActiveIds
<1>4. CASE f = "active"
  <2>1. \A id : id \in ActiveIds' <=> id \in ActiveIds \/ id = Order[step]
    BY <1>1, <1>2, <1>3, <1>4, ActiveMember
  <2> QED BY <2>1, <1>4
<1>5. CASE f # "active"
  <2>1. \A id : id \in ActiveIds' <=> id \in ActiveIds
    BY <1>1, <1>2, <1>3, <1>5, ActiveMember
  <2> QED BY <2>1, <1>5
<1> QED BY <1>4, <1>5

(* clear() takes its id out of the active ones, and no other. *)
LEMMA ClearActive ==
  ASSUME IInv, ClearOne
  PROVE  ActiveIds' = ActiveIds \ {Order[step]}
<1> USE SlotType DEF IInv
<1>1. Published' = Published
  BY DEF ClearOne, Published
<1>2. \A i \in Published :
        /\ table'[i].id = table[i].id
        /\ table'[i].active <=> (table[i].active /\ table[i].id # Order[step])
  BY <1>1 DEF ClearOne, SlotOf
<1>3. \A id : id \in ActiveIds' <=>
        \E i \in Published : table'[i].active /\ table'[i].id = id
  BY <1>1 DEF ActiveIds
<1> QED BY <1>2, <1>3, ActiveMember

(* clearPrefix() takes the id of the slot it is at out of the active ones. *)
LEMMA DropActive ==
  ASSUME IInv, DropSlot
  PROVE  ActiveIds' = ActiveIds \ {table[at].id}
<1> USE SlotType DEF IInv
<1>1. Published' = Published /\ at \in Published
  BY DEF DropSlot, Published, TypeOK
<1>2. \A i \in Published :
        /\ table'[i].id = table[i].id
        /\ table'[i].active <=> (table[i].active /\ i # at)
  BY <1>1 DEF DropSlot
<1>3. \A i \in Published : table[i].id = table[at].id => i = at
  BY <1>1 DEF IInv, SlotsPublishedWhole
<1>4. \A id : id \in ActiveIds' <=>
        \E i \in Published : table'[i].active /\ table'[i].id = id
  BY <1>1 DEF ActiveIds
<1> QED BY <1>2, <1>3, <1>4, ActiveMember

(* Filling the slot past the published ones raises nothing. *)
LEMMA FillActive ==
  ASSUME IInv, FillSlot(Order[step])
  PROVE  ActiveIds' = ActiveIds
<1>1. \A i \in Published : table'[i] = table[i]
  BY DEF IInv, TypeOK, FillSlot, Published, Slots
<1>2. Published' = Published
  BY DEF FillSlot, Published
<1> QED BY <1>1, <1>2 DEF ActiveIds

-----------------------------------------------------------------------------
(* IInv holds at the start and every action keeps it. *)

LEMMA InitInv == Init => IInv
<1> USE AlarmsAssumption
<1> HAVE Init
<1>1. Published = {}
  BY DEF Init, Published
<1>2. TypeOK
  <2>1. Fresh(NoId) \in [id : Ids \cup {NoId}, sev : Severity, active : BOOLEAN]
    BY DEF Fresh, Severity, Info, Critical
  <2>2. table \in [Slots -> [id : Ids \cup {NoId}, sev : Severity, active : BOOLEAN]]
    BY <2>1 DEF Init
  <2>3. 0 \in 0 .. KMax /\ 1 \in 1 .. N /\ 1 \in 1 .. KMax + 1 /\ Info \in Severity
    BY DEF Severity, Info, Critical
  <2> QED BY <2>2, <2>3 DEF Init, TypeOK
<1> QED BY <1>1, <1>2 DEF Init, IInv, SlotsPublishedWhole, ActiveIds

(* A step of the main loop writes neither the table nor the BMS task's state. *)
LEMMA ReaderInv ==
  ASSUME IInv, TypeOK', UNCHANGED << tableVars, bmsVars >>
  PROVE  IInv'
<1>1. ActiveIds' = ActiveIds
  BY TableUnchanged
<1>2. SlotsPublishedWhole'
  BY DEF IInv, SlotsPublishedWhole, tableVars, Published
<1>3. Settled <=> Settled'
  BY <1>1 DEF Settled, bmsVars
<1>4. SlotOf(Order[step])' = SlotOf(Order[step])
  BY DEF SlotOf, tableVars, bmsVars, Published
<1> QED BY <1>1, <1>2, <1>3, <1>4 DEF IInv, tableVars, bmsVars, Published

(* Every action keeps the types; count_ and the slot index stay in the table. *)
LEMMA TypeStep ==
  ASSUME IInv, [Next]_vars
  PROVE  TypeOK'
<1> USE AlarmsAssumption
<1> DEFINE Slot == [id : Ids \cup {NoId}, sev : Severity, active : BOOLEAN]
<1>1. TypeOK
  BY DEF IInv
<1>2. /\ count \in 0 .. KMax /\ table \in [Slots -> Slot] /\ step \in 1 .. N
      /\ 1 \in 1 .. KMax + 1 /\ Order[step] \in Ids
  BY <1>1 DEF TypeOK
<1>3. step # N => step + 1 \in 1 .. N
  BY <1>2
<1>4. ASSUME Advance PROVE step' \in 1 .. N /\ bpc' \in {"idle", "next"}
  BY <1>2, <1>3, <1>4 DEF Advance
<1>5. CASE UNCHANGED vars
  BY <1>1, <1>5 DEF TypeOK, vars, tableVars, bmsVars, mainVars
<1>6. CASE Attach
  BY <1>1, <1>6 DEF Attach, TypeOK, tableVars, mainVars
<1>7. CASE Detach
  BY <1>1, <1>2, <1>7 DEF Detach, TypeOK, tableVars, mainVars
<1>8. CASE Evaluate
  BY <1>1, <1>8 DEF Evaluate, TypeOK, tableVars, mainVars
<1>9. CASE RaiseFind
  <2>1. CASE \E i \in SlotOf(Order[step]) :
               /\ at' = i
               /\ todo' = {"sev", "active"}
               /\ bpc' = "store"
               /\ UNCHANGED << table, count, step >>
    <3>1. at' \in 1 .. KMax + 1
      BY <2>1, <1>2 DEF SlotOf, Published
    <3> QED BY <1>1, <1>9, <2>1, <3>1 DEF RaiseFind, TypeOK, mainVars
  <2>2. CASE SlotOf(Order[step]) = {} /\ TableFull
    BY <2>2, SlotLeft
  <2>3. CASE SlotOf(Order[step]) = {} /\ ~TableFull
    <3>1. FillSlot(Order[step]) /\ UNCHANGED << silenced, attached, bad, mainVars >>
      BY <1>9, <2>3 DEF RaiseFind
    <3>2. Fresh(Order[step]) \in Slot
      BY <1>2 DEF Fresh, Severity, Info, Critical
    <3>3. table' \in [Slots -> Slot]
      BY <3>1, <3>2, <1>2 DEF FillSlot
    <3> QED BY <1>1, <3>1, <3>3 DEF FillSlot, TypeOK, mainVars
  <2> QED BY <1>9, <2>1, <2>2, <2>3 DEF RaiseFind
<1>10. CASE Publish
  <2>1. count' \in 0 .. KMax /\ at' \in 1 .. KMax + 1
    BY <1>10, <1>2 DEF Publish, IInv
  <2> QED BY <1>1, <1>10, <2>1 DEF Publish, TypeOK, mainVars
<1>11. ASSUME NEW f \in {"sev", "active"}, Store(f) PROVE TypeOK'
  <2>1. /\ bpc = "store" /\ at \in Slots /\ table[at].id \in Ids /\ table[at] \in Slot
    BY <1>11, <1>2 DEF IInv, Store, Published, Slots
  <2>2. SevOf[table[at].id] \in Severity
    BY <2>1 DEF Severity, Info, Warning, Critical
  <2>3. table' \in [Slots -> Slot]
    BY <2>1, <2>2, <1>2, <1>11 DEF Store
  <2>4. step' \in 1 .. N /\ bpc' \in {"store", "idle", "next"}
    BY <1>4, <1>2, <1>11 DEF Store
  <2> QED BY <1>1, <1>11, <2>3, <2>4 DEF Store, TypeOK, mainVars
<1>12. CASE ClearOne
  <2>1. \A r \in Slot : [r EXCEPT !.active = FALSE] \in Slot
    OBVIOUS
  <2>2. table' \in [Slots -> Slot]
    BY <1>2, <1>12, <2>1 DEF ClearOne
  <2> QED BY <1>1, <1>12, <2>2 DEF ClearOne, TypeOK, mainVars
<1>13. CASE Unmute
  BY <1>1, <1>4, <1>13 DEF Unmute, LiftMute, TypeOK, tableVars, mainVars, AnyActive
<1>14. CASE DropSlot
  <2>1. at + 1 \in 1 .. KMax + 1
    BY <1>1, <1>2, <1>14 DEF DropSlot, TypeOK
  <2>2. \A r \in Slot : [r EXCEPT !.active = FALSE] \in Slot
    OBVIOUS
  <2>3. table' = [table EXCEPT ![at] = [@ EXCEPT !.active = FALSE]] /\ at \in Slots
    BY <1>1, <1>2, <1>14 DEF DropSlot, TypeOK, Slots
  <2>4. table' \in [Slots -> Slot]
    BY <1>2, <2>2, <2>3
  <2> QED BY <1>1, <1>14, <2>1, <2>4 DEF DropSlot, TypeOK, mainVars
<1>15. CASE DropDone
  BY <1>1, <1>15 DEF DropDone, LiftMute, TypeOK, tableVars, mainVars, AnyActive
<1>16. ASSUME NEW pressed \in BOOLEAN, Button(pressed) PROVE TypeOK'
  BY <1>1, <1>2, <1>16 DEF Button, TypeOK, tableVars, bmsVars
<1>17. CASE ScanAny
  <2>1. cursor <= count => cursor + 1 \in 1 .. KMax + 1
    BY <1>1, <1>2 DEF TypeOK
  <2>2. cursor' \in 1 .. KMax + 1
    BY <1>1, <1>2, <1>17, <2>1 DEF ScanAny, TypeOK
  <2> QED BY <1>1, <1>17, <2>2 DEF ScanAny, TypeOK, tableVars, bmsVars
<1>18. CASE Silence
  BY <1>1, <1>18 DEF Silence, TypeOK, tableVars, bmsVars
<1>19. CASE SoundMuted
  <2>1. Info \in Severity
    BY DEF Severity, Info, Critical
  <2> QED BY <1>1, <1>2, <1>19, <2>1 DEF SoundMuted, TypeOK, tableVars, bmsVars
<1>20. CASE SoundWorst
  <2>1. cursor <= count => cursor + 1 \in 1 .. KMax + 1 /\ table[cursor].sev \in Severity
    BY <1>1, <1>2 DEF TypeOK, Slots
  <2>2. cursor' \in 1 .. KMax + 1 /\ best' \in Severity
    BY <1>1, <1>2, <1>20, <2>1 DEF SoundWorst, TypeOK
  <2>3. sounding' \in BOOLEAN /\ mpc' \in {"button", "worst"}
    <3>1. CASE cursor > count
      <4>1. sounding' = (best >= Warning) /\ mpc' = "button"
        BY <3>1, <1>20 DEF SoundWorst, Audible
      <4>2. (best >= Warning) \in BOOLEAN
        OBVIOUS
      <4> QED BY <4>1, <4>2, Zenon
    <3>2. CASE ~(cursor > count)
      BY <3>2, <1>1, <1>20 DEF SoundWorst, TypeOK
    <3> QED BY <3>1, <3>2
  <2> QED BY <1>1, <1>20, <2>2, <2>3 DEF SoundWorst, TypeOK, tableVars, bmsVars
<1> QED
  BY <1>5, <1>6, <1>7, <1>8, <1>9, <1>10, <1>11, <1>12, <1>13, <1>14, <1>15,
     <1>16, <1>17, <1>18, <1>19, <1>20 DEF Next, BmsWork, MainWork

(* Leaving an id settled: the evaluation goes on, or is over and complete.  *)
LEMMA AdvanceInv ==
  ASSUME TypeOK, TypeOK', SlotsPublishedWhole', bad' = bad, Advance,
         \A k \in 1 .. step : Order[k] \in ActiveIds' <=> Order[k] \in bad
  PROVE  IInv'
<1> USE AlarmsAssumption
<1>1. step \in 1 .. N
  BY DEF TypeOK
<1>2. CASE step = N
  <2>1. bpc' = "idle"
    BY <1>2 DEF Advance
  <2>2. \A i \in Published' : table'[i].id \in Ids
    <3>1. /\ Published' \subseteq Slots /\ count' \in Nat
          /\ table' \in [Slots -> [id : Ids \cup {NoId}, sev : Severity, active : BOOLEAN]]
      BY DEF TypeOK, Published, Slots
    <3> QED BY <3>1 DEF SlotsPublishedWhole
  <2>3. ActiveIds' \subseteq Ids /\ bad \subseteq Ids
    BY <2>2 DEF ActiveIds, TypeOK
  <2>4. \A id \in Ids : id \in ActiveIds' <=> id \in bad
    <3> TAKE id \in Ids
    <3>1. PICK k \in 1 .. N : Order[k] = id
      OBVIOUS
    <3> QED BY <3>1, <1>2
  <2>5. ActiveIds' = bad'
    BY <2>3, <2>4
  <2> QED BY <2>1, <2>5 DEF IInv
<1>3. CASE step # N
  <2>1. bpc' = "next" /\ step' = step + 1
    BY <1>3 DEF Advance
  <2>2. 1 .. step' - 1 = 1 .. step
    BY <1>1, <2>1
  <2>3. Settled'
    BY <2>1, <2>2 DEF Settled
  <2> QED BY <2>1, <2>3 DEF IInv
<1> QED BY <1>2, <1>3

(* What is settled stays so while only Order[step] changes. *)
LEMMA SettledUpTo ==
  ASSUME TypeOK, Settled, Order[step] \in ActiveIds' <=> Order[step] \in bad,
         \A id \in Ids : id # Order[step] => (id \in ActiveIds' <=> id \in ActiveIds)
  PROVE  \A k \in 1 .. step : Order[k] \in ActiveIds' <=> Order[k] \in bad
<1> TAKE k \in 1 .. step
<1>1. step \in 1 .. N /\ k \in 1 .. N /\ Order[k] \in Ids
  BY AlarmsAssumption DEF TypeOK
<1>2. CASE k = step
  BY <1>2
<1>3. CASE k # step
  <2>1. k \in 1 .. step - 1 /\ Order[k] # Order[step]
    BY <1>1, <1>3, AlarmsAssumption
  <2> QED BY <1>1, <2>1 DEF Settled
<1> QED BY <1>2, <1>3

LEMMA AttachInv ==
  ASSUME IInv, TypeOK', Attach PROVE IInv'
<1>1. ActiveIds' = ActiveIds
  BY TableUnchanged DEF Attach
<1>2. SlotsPublishedWhole'
  BY DEF IInv, SlotsPublishedWhole, Attach, tableVars, Published
<1> QED BY <1>1, <1>2 DEF IInv, Attach

LEMMA DetachInv ==
  ASSUME IInv, TypeOK', Detach PROVE IInv'
<1>1. SlotsPublishedWhole'
  BY DEF IInv, SlotsPublishedWhole, Detach, tableVars, Published
<1>2. bpc' = "drop" /\ bad' = {}
  BY DEF Detach
<1>3. at' <= count' + 1 /\ \A i \in 1 .. at' - 1 : ~table'[i].active
  <2>1. at' - 1 = 0 /\ at' <= count' + 1
    BY AlarmsAssumption DEF IInv, TypeOK, Detach, tableVars
  <2>2. \A i \in 1 .. 0 : FALSE
    OBVIOUS
  <2> QED BY <2>1, <2>2
<1> QED BY <1>1, <1>2, <1>3 DEF IInv

LEMMA EvaluateInv ==
  ASSUME IInv, TypeOK', Evaluate PROVE IInv'
<1>1. SlotsPublishedWhole'
  BY DEF IInv, SlotsPublishedWhole, Evaluate, tableVars, Published
<1>2. bpc' = "next" /\ step' = 1
  BY DEF Evaluate
<1>3. Settled'
  BY <1>2 DEF Settled
<1> QED BY <1>1, <1>2, <1>3 DEF IInv

LEMMA RaiseFindInv ==
  ASSUME IInv, TypeOK', RaiseFind PROVE IInv'
<1>1. CASE SlotOf(Order[step]) # {}
  <2>1. /\ at' \in SlotOf(Order[step]) /\ todo' = {"sev", "active"} /\ bpc' = "store"
        /\ UNCHANGED << table, count, step, bad >>
    BY <1>1 DEF RaiseFind
  <2>2. ActiveIds' = ActiveIds
    BY <2>1, TableUnchanged DEF tableVars
  <2>3. SlotsPublishedWhole' /\ Settled'
    BY <2>1, <2>2 DEF IInv, RaiseFind, SlotsPublishedWhole, Settled, Published
  <2>4. /\ at' \in Published' /\ table'[at'].id = Order[step'] /\ Order[step'] \in bad'
        /\ todo' # {} /\ "active" \in todo'
    BY <2>1 DEF RaiseFind, SlotOf, Published
  <2> QED BY <2>1, <2>3, <2>4 DEF IInv
<1>2. CASE SlotOf(Order[step]) = {}
  <2>1. count < N /\ ~TableFull
    BY <1>2, SlotLeft
  <2>2. FillSlot(Order[step]) /\ bad' = bad /\ Order[step] \in bad /\ bpc = "next"
    BY <1>2, <2>1 DEF RaiseFind
  <2>3. /\ bpc' = "publish" /\ count' = count /\ step' = step
        /\ count \in Nat /\ count < KMax
    BY <2>1, <2>2, AlarmsAssumption DEF FillSlot, IInv, TypeOK
  <2>4. table'[count + 1] = Fresh(Order[step])
    <3>1. count + 1 \in Slots /\ table \in [Slots -> {table[i] : i \in Slots}]
      BY <2>3, AlarmsAssumption DEF IInv, TypeOK, Slots
    <3> QED BY <2>2, <3>1 DEF FillSlot
  <2>5. Published' = Published /\ \A i \in Published : table'[i] = table[i]
    BY <2>2, <2>3, SlotType DEF IInv, FillSlot, Published
  <2>6. ActiveIds' = ActiveIds
    BY <2>2, FillActive
  <2>7. SlotsPublishedWhole' /\ Settled' /\ SlotOf(Order[step])' = {}
    BY <1>2, <2>2, <2>3, <2>5, <2>6 DEF IInv, SlotsPublishedWhole, Settled, SlotOf
  <2> QED BY <2>2, <2>3, <2>4, <2>7 DEF IInv
<1> QED BY <1>1, <1>2

LEMMA PublishInv ==
  ASSUME IInv, TypeOK', Publish PROVE IInv'
<1>1. /\ count \in Nat /\ count' = count + 1 /\ table' = table /\ at' = count + 1
      /\ bpc' = "store" /\ todo' = {"sev", "active"} /\ bad' = bad /\ step' = step
  BY DEF IInv, TypeOK, Publish
<1>2. Published' = Published \cup {count + 1} /\ count + 1 \notin Published
  BY <1>1 DEF Published
<1>3. table[count + 1].id = Order[step] /\ Order[step] \in bad
  BY DEF IInv, Publish, Fresh
<1>4. Order[step] # NoId /\ \A i \in Published : table[i].id # Order[step]
  <2>1. Order[step] \in Ids
    BY <1>3 DEF IInv, TypeOK
  <2> QED BY <2>1, AlarmsAssumption DEF IInv, Publish, SlotOf
<1>5. SlotsPublishedWhole'
  BY <1>1, <1>2, <1>3, <1>4 DEF IInv, SlotsPublishedWhole
<1>6. Settled'
  BY <1>1, PublishActive DEF IInv, Publish, Settled
<1> QED BY <1>1, <1>2, <1>3, <1>5, <1>6 DEF IInv

LEMMA StoreInv ==
  ASSUME IInv, TypeOK', NEW f \in {"sev", "active"}, Store(f) PROVE IInv'
<1>1. /\ TypeOK /\ at \in Published /\ table[at].id = Order[step] /\ Order[step] \in bad
      /\ Published' = Published /\ bad' = bad /\ f \in todo /\ Settled
  BY DEF IInv, Store, Published
<1>2. \A i \in Published : table'[i].id = table[i].id
  BY <1>1, SlotType DEF Store
<1>3. SlotsPublishedWhole'
  BY <1>1, <1>2 DEF IInv, SlotsPublishedWhole
<1>4. todo' = todo \ {f} /\ todo \subseteq {"sev", "active"}
  BY <1>1 DEF Store, TypeOK
<1>5. \A id : id # Order[step] => (id \in ActiveIds' <=> id \in ActiveIds)
  BY StoreActive
<1>6. CASE todo = {f}
  <2>1. Order[step] \in ActiveIds'
    <3>1. CASE f = "active"
      BY <3>1, StoreActive
    <3>2. CASE f = "sev"
      <4>1. table[at].active
        BY <1>6, <3>2 DEF IInv, Store
      <4>2. Order[step] \in ActiveIds
        BY <1>1, <4>1, ActiveMember
      <4> QED BY <3>2, <4>2, StoreActive
    <3> QED BY <3>1, <3>2
  <2>2. Advance
    BY <1>6 DEF Store
  <2>3. \A k \in 1 .. step : Order[k] \in ActiveIds' <=> Order[k] \in bad
    BY <1>1, <1>5, <2>1, SettledUpTo
  <2> QED BY <1>1, <1>3, <2>2, <2>3, AdvanceInv
<1>7. CASE todo # {f}
  <2>1. todo' # {} /\ bpc' = "store" /\ step' = step /\ at' = at
    BY <1>1, <1>4, <1>7 DEF Store
  <2>2. Settled'
    <3>1. step \in 1 .. N /\ Order[step] \in Ids
      BY <1>1, AlarmsAssumption DEF TypeOK
    <3>2. \A k \in 1 .. step - 1 : Order[k] # Order[step]
      BY <3>1, AlarmsAssumption
    <3> QED BY <1>1, <1>5, <2>1, <3>2 DEF Settled
  <2>3. "active" \notin todo' => table'[at].active
    <3>1. "active" \notin todo' => f = "active" \/ "active" \notin todo
      BY <1>4
    <3>2. "active" \notin todo => table[at].active
      BY DEF IInv, Store
    <3>3. table'[at].active <=> table[at].active \/ f = "active"
      BY <1>1, SlotType DEF Store
    <3> QED BY <3>1, <3>2, <3>3
  <2> QED BY <1>1, <1>2, <1>3, <2>1, <2>2, <2>3 DEF IInv
<1> QED BY <1>6, <1>7

LEMMA ClearOneInv ==
  ASSUME IInv, TypeOK', ClearOne PROVE IInv'
<1>1. /\ TypeOK /\ Settled /\ Published' = Published /\ bpc' = "unmute"
      /\ Order[step] \notin bad /\ bad' = bad /\ step' = step
  BY DEF IInv, ClearOne, Published
<1>2. \A i \in Published : table'[i].id = table[i].id
  BY <1>1, SlotType DEF ClearOne
<1>3. SlotsPublishedWhole'
  BY <1>1, <1>2 DEF IInv, SlotsPublishedWhole
<1>4. \A k \in 1 .. step - 1 : Order[k] # Order[step]
  BY <1>1, AlarmsAssumption DEF TypeOK
<1>5. Settled' /\ Order[step] \notin ActiveIds'
  BY <1>1, <1>4, ClearActive DEF Settled
<1> QED BY <1>1, <1>3, <1>5 DEF IInv

LEMMA UnmuteInv ==
  ASSUME IInv, TypeOK', Unmute PROVE IInv'
<1>1. /\ TypeOK /\ Settled /\ bad' = bad /\ Advance
      /\ Order[step] \notin bad /\ Order[step] \notin ActiveIds
  BY DEF IInv, Unmute
<1>2. ActiveIds' = ActiveIds
  BY TableUnchanged DEF Unmute
<1>3. SlotsPublishedWhole'
  BY DEF IInv, SlotsPublishedWhole, Unmute, tableVars, Published
<1>4. \A k \in 1 .. step : Order[k] \in ActiveIds' <=> Order[k] \in bad
  BY <1>1, <1>2, SettledUpTo
<1> QED BY <1>1, <1>3, <1>4, AdvanceInv

LEMMA DropSlotInv ==
  ASSUME IInv, TypeOK', DropSlot PROVE IInv'
<1>1. /\ TypeOK /\ Published' = Published /\ bpc' = "drop" /\ bad' = {} /\ bpc = "drop"
      /\ at' = at + 1 /\ count' = count /\ at \in Published
      /\ at \in Nat /\ count \in Nat /\ at <= count
  BY DEF IInv, DropSlot, Published, TypeOK
<1>2. \A i \in Published : /\ table'[i].id = table[i].id
                           /\ i # at => table'[i] = table[i]
                           /\ i = at => ~table'[i].active
  BY <1>1, SlotType DEF DropSlot
<1>3. SlotsPublishedWhole'
  BY <1>1, <1>2 DEF IInv, SlotsPublishedWhole
<1>4. \A i \in 1 .. at' - 1 : ~table'[i].active
  <2> TAKE i \in 1 .. at' - 1
  <2>1. i \in Published /\ (i = at \/ i \in 1 .. at - 1)
    BY <1>1 DEF Published
  <2> QED BY <1>1, <1>2, <2>1 DEF IInv
<1>5. at' <= count' + 1
  BY <1>1
<1> QED BY <1>1, <1>3, <1>4, <1>5 DEF IInv

LEMMA DropDoneInv ==
  ASSUME IInv, TypeOK', DropDone PROVE IInv'
<1>1. SlotsPublishedWhole' /\ bpc' = "idle" /\ bad' = {} /\ bad = {}
  BY DEF IInv, SlotsPublishedWhole, DropDone, tableVars, Published
<1>2. \A i \in Published : ~table[i].active
  BY DEF IInv, DropDone, TypeOK, Published
<1>3. ActiveIds' = {}
  BY <1>2, TableUnchanged DEF DropDone, ActiveIds
<1> QED BY <1>1, <1>3 DEF IInv

(* IInv is inductive. *)
LEMMA StepInv == IInv /\ [Next]_vars => IInv'
<1> SUFFICES ASSUME IInv, [Next]_vars PROVE IInv'
  OBVIOUS
<1>1. TypeOK'
  BY TypeStep
<1>2. CASE UNCHANGED vars
  BY <1>1, <1>2, ReaderInv DEF vars
<1>3. CASE MainWork
  BY <1>1, <1>3, ReaderInv
    DEF MainWork, Button, ScanAny, Silence, SoundMuted, SoundWorst
<1>4. CASE BmsWork
  BY <1>1, <1>4, EvaluateInv, RaiseFindInv, PublishInv, StoreInv, ClearOneInv,
     UnmuteInv, DropSlotInv, DropDoneInv DEF BmsWork
<1> QED BY <1>1, <1>2, <1>3, <1>4, AttachInv, DetachInv DEF Next

LEMMA Inductive == Spec => []IInv
BY InitInv, StepInv, PTL DEF Spec

-----------------------------------------------------------------------------
(* The theorems. *)

(* Every variable keeps its type: no slot index ever leaves the table. *)
THEOREM TypeCorrect == Spec => []TypeOK
<1>1. IInv => TypeOK
  BY DEF IInv
<1> QED BY <1>1, Inductive, PTL

(***************************************************************************)
(* A reader never meets a published slot without its id, nor two slots     *)
(* with one id, whatever the table's size and the order of the stores.     *)
(***************************************************************************)
THEOREM PublishedSlots == Spec => []SlotsPublishedWhole
<1>1. IInv => SlotsPublishedWhole
  BY DEF IInv
<1> QED BY <1>1, Inductive, PTL

(***************************************************************************)
(* Between evaluations the active alarms are the faults the last one saw:  *)
(* none was lost, none was left over.                                      *)
(***************************************************************************)
THEOREM FaultsShown == Spec => []PanelMatchesFaults
<1>1. IInv => PanelMatchesFaults
  BY DEF IInv, PanelMatchesFaults
<1> QED BY <1>1, Inductive, PTL

(* One step of the table is one step of the panel, or none. *)
LEMMA PanelStep == IInv /\ [Next]_vars => [Panel!Next]_(Panel!vars)
<1> SUFFICES ASSUME IInv, [Next]_vars
             PROVE  Panel!Next \/ UNCHANGED Panel!vars
  OBVIOUS
<1>1. CASE ActiveIds' = ActiveIds /\ mpc' = mpc /\ silenced' = silenced
  BY <1>1 DEF Panel!vars
<1>2. CASE UNCHANGED vars
  <2>1. ActiveIds' = ActiveIds /\ mpc' = mpc /\ silenced' = silenced
    BY <1>2, TableUnchanged DEF vars, mainVars
  <2> QED BY <1>1, <2>1
<1>3. CASE Attach \/ Detach \/ Evaluate
  <2>1. ActiveIds' = ActiveIds /\ mpc' = mpc /\ silenced' = silenced
    BY <1>3, TableUnchanged DEF Attach, Detach, Evaluate, mainVars
  <2> QED BY <1>1, <2>1
<1>4. CASE RaiseFind
  <2>1. ActiveIds' = ActiveIds
    <3>1. CASE SlotOf(Order[step]) # {}
      BY <1>4, <3>1, TableUnchanged DEF RaiseFind, tableVars
    <3>2. CASE SlotOf(Order[step]) = {}
      BY <1>4, <3>2, SlotLeft, FillActive DEF RaiseFind
    <3> QED BY <3>1, <3>2
  <2>2. mpc' = mpc /\ silenced' = silenced
    BY <1>4 DEF RaiseFind, mainVars
  <2> QED BY <1>1, <2>1, <2>2
<1>5. CASE Publish
  <2>1. mpc' = mpc /\ silenced' = silenced
    BY <1>5 DEF Publish, mainVars
  <2> QED BY <1>1, <1>5, <2>1, PublishActive
<1>6. ASSUME NEW f \in {"sev", "active"}, Store(f)
      PROVE  Panel!Next \/ UNCHANGED Panel!vars
  <2>1. mpc' = mpc /\ silenced' = silenced
    BY <1>6 DEF Store, mainVars
  <2>2. CASE f = "active"
    <3>1. Order[step] \in Ids
      BY AlarmsAssumption DEF IInv, TypeOK
    <3>2. Panel!Raise(Order[step])
      BY <1>6, <2>1, <2>2, StoreActive DEF Panel!Raise
    <3> QED BY <3>1, <3>2 DEF Panel!Next
  <2>3. CASE f # "active"
    BY <1>1, <1>6, <2>1, <2>3, StoreActive
  <2> QED BY <2>2, <2>3
<1>7. CASE ClearOne
  <2>1. Order[step] \in Ids
    BY AlarmsAssumption DEF IInv, TypeOK
  <2>2. Panel!Clear(Order[step])
    BY <1>7, ClearActive DEF Panel!Clear, ClearOne, mainVars
  <2> QED BY <2>1, <2>2 DEF Panel!Next
<1>8. CASE DropSlot
  <2>1. at \in Published
    BY <1>8 DEF DropSlot, IInv, TypeOK, Published
  <2>2. table[at].id \in Ids
    BY <2>1, SlotType DEF IInv, SlotsPublishedWhole
  <2>3. Panel!Clear(table[at].id)
    BY <1>8, DropActive DEF Panel!Clear, DropSlot, mainVars
  <2> QED BY <2>2, <2>3 DEF Panel!Next
<1>9. CASE Unmute \/ DropDone
  <2>1. ActiveIds' = ActiveIds /\ mpc' = mpc /\ silenced' = (silenced /\ AnyActive)
    BY <1>9, TableUnchanged DEF Unmute, DropDone, LiftMute, mainVars
  <2>2. CASE AnyActive
    BY <1>1, <2>1, <2>2 DEF IInv, TypeOK
  <2>3. CASE ~AnyActive
    <3>1. ActiveIds = {}
      BY <2>3 DEF AnyActive, ActiveIds
    <3>2. Panel!Unmute
      BY <2>1, <2>3, <3>1 DEF Panel!Unmute
    <3> QED BY <3>2 DEF Panel!Next
  <2> QED BY <2>2, <2>3
<1>10. ASSUME NEW pressed \in BOOLEAN, Button(pressed)
       PROVE  Panel!Next \/ UNCHANGED Panel!vars
  <2>1. ActiveIds' = ActiveIds /\ silenced' = silenced
    BY <1>10, TableUnchanged DEF Button
  <2>2. (mpc' = "silence") <=> (mpc = "silence")
    BY <1>10 DEF Button
  <2> QED BY <2>1, <2>2 DEF Panel!vars
<1>11. CASE ScanAny
  <2>1. ActiveIds' = ActiveIds /\ silenced' = silenced /\ mpc = "scan"
    BY <1>11, TableUnchanged DEF ScanAny
  <2>2. CASE mpc' = "silence"
    <3>1. cursor <= count /\ table[cursor].active
      BY <1>11, <2>1, <2>2 DEF ScanAny, IInv, TypeOK
    <3>2. cursor \in Published
      BY <3>1 DEF IInv, TypeOK, Published
    <3>3. ActiveIds # {}
      BY <3>1, <3>2 DEF ActiveIds
    <3> QED BY <2>1, <2>2, <3>3 DEF Panel!Notice, Panel!Next
  <2>3. CASE mpc' # "silence"
    BY <2>1, <2>3 DEF Panel!vars
  <2> QED BY <2>2, <2>3
<1>12. CASE Silence
  <2>1. ActiveIds' = ActiveIds
    BY <1>12, TableUnchanged DEF Silence
  <2> QED BY <1>12, <2>1 DEF Silence, Panel!Silence, Panel!Next
<1>13. CASE SoundMuted \/ SoundWorst
  <2>1. ActiveIds' = ActiveIds /\ silenced' = silenced
    BY <1>13, TableUnchanged DEF SoundMuted, SoundWorst
  <2>2. mpc # "silence" /\ mpc' # "silence"
    BY <1>13 DEF SoundMuted, SoundWorst
  <2> QED BY <2>1, <2>2 DEF Panel!vars
<1> QED
  BY <1>2, <1>3, <1>4, <1>5, <1>6, <1>7, <1>8, <1>9, <1>10, <1>11, <1>12, <1>13
    DEF Next, BmsWork, MainWork

(***************************************************************************)
(* The alarm table implements the abstract panel: the crew can mute only   *)
(* an alarm they saw, and a mute outlives every alarm but the last.        *)
(***************************************************************************)
THEOREM Refinement == Spec => ImplementsPanel
<1>1. Init => Panel!Init
  <2> HAVE Init
  <2>1. ActiveIds = {}
    BY DEF Init, ActiveIds, Published
  <2> QED BY <2>1 DEF Init, Panel!Init
<1> QED BY <1>1, PanelStep, Inductive, PTL DEF Spec, ImplementsPanel, Panel!Spec

=============================================================================
