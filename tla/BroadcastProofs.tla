--------------------------- MODULE BroadcastProofs ---------------------------
(***************************************************************************)
(* A frame on the air is current and holds every fresh reading, for every  *)
(* number of refreshes and whichever readings may be too wide.             *)
(*                                                                         *)
(* The argument: refresh() runs through the readings in one order, so that *)
(* its place says how far each value and each stamp is (Entities); what    *)
(* publish() has taken so far was vouched for by a stamp not newer than    *)
(* its value (Taken); and the ids and the bytes before each reading are    *)
(* bounded by its place in the frame (Builder).                            *)
(***************************************************************************)
EXTENDS Broadcast, TLAPS

Places == 1 .. 5

Refreshes == 0 .. MaxRefreshes

Entry == [field : Readings, of : Refreshes, vouched : Refreshes]

Building == {"find", "judge", "read", "send"}

Builders == [len : Nat, lastId : Nat, put : Seq(Entry)]
Frames == [put : Seq(Entry), since : Refreshes, quiet : BOOLEAN]
Values == [of : Refreshes, fits : BOOLEAN]

Types ==
  /\ value \in [Readings -> Values]
  /\ stamp \in [Readings -> Refreshes] /\ aged \in Refreshes
  /\ refreshes \in Refreshes /\ step \in 0 .. 5
  /\ stamping \in BOOLEAN /\ wide \subseteq Readings
  /\ mode \in {"boot", "on", "fault"} /\ fields \in Nat
  /\ link \in {"Offline", "Searching", "Online", "Fault"}
  /\ pc \in Building \union {"idle", "start"} /\ at \in 0 .. 5
  /\ saw \in Refreshes
  /\ builder \in Builders
  /\ since \in Refreshes /\ quiet \in BOOLEAN /\ due \subseteq Readings
  /\ air \in Frames
  /\ pc \in Building => at \in Places
  /\ step > 0 => refreshes > 0

(* How far refresh() has come with its i-th reading. *)
Entities ==
  /\ stamping => step > 0
  /\ \A i \in Places :
       /\ stamp[Refreshed[i]] = IF step = 0 \/ i < step THEN refreshes
                                ELSE refreshes - 1
       /\ value[Refreshed[i]].of =
            IF step = 0 \/ i < step \/ (i = step /\ stamping)
            THEN refreshes ELSE refreshes - 1

(* What publish() has taken, and what it is about to take. *)
Sound(put, from, alone) ==
  \A k \in 1 .. Len(put) :
    /\ put[k].vouched <= put[k].of /\ from <= put[k].of
    /\ alone => put[k].of = from

Taken ==
  pc \in Building =>
    /\ since <= Done
    /\ quiet => step = 0 /\ since = refreshes
    /\ pc = "read" => saw <= stamp[Field]
    /\ Sound(builder.put, since, quiet)

(* The bytes and the id before each reading. *)
LenBefore == << 3, 5, 8, 11, 16 >>
IdBefore  == << 0, 1, 2, 12, 92 >>

FieldsOf(put) == {put[k].field : k \in 1 .. Len(put)}

Builder ==
  /\ pc \in {"find", "judge", "read"} =>
       /\ builder.len <= LenBefore[at] /\ builder.lastId <= IdBefore[at]
       /\ Len(builder.put) < at
  /\ pc = "send" => builder.len <= 19 /\ Len(builder.put) <= 5
  /\ pc \in Building => FieldsOf(builder.put) = due

OnAir ==
  /\ Sound(air.put, air.since, air.quiet)
  /\ fields <= 5
  /\ pc = "start" \/ (pc = "idle" /\ mode = "on") =>
       FieldsOf(air.put) = due /\ fields = Len(air.put)

Inv == Types /\ Entities /\ Taken /\ Builder /\ OnAir

-----------------------------------------------------------------------------
(* refresh() sets five readings, each once; publish() adds the same five. *)
LEMMA TheReadings ==
  /\ Len(Refreshed) = 5 /\ Len(Added) = 5
  /\ Readings = {"voltage", "current", "power", "soc", "temperature"}
  /\ \A i \in Places : Refreshed[i] \in Readings /\ Added[i] \in Readings
  /\ \A f \in Readings : \E i \in Places : Refreshed[i] = f
  /\ \A i, j \in Places : Refreshed[i] = Refreshed[j] => i = j
<1>1. Len(Refreshed) = 5 /\ Len(Added) = 5
  BY DEF Refreshed, Added
<1>2. Readings = {"voltage", "current", "power", "soc", "temperature"}
  <2>1. ToSet(Refreshed) = {Refreshed[i] : i \in 1 .. 5}
    BY <1>1 DEF ToSet, Refreshed
  <2> QED  BY <2>1 DEF Readings, Refreshed
<1>3. \A i \in Places : Refreshed[i] \in Readings /\ Added[i] \in Readings
  BY <1>2 DEF Places, Refreshed, Added
<1>4. \A f \in Readings : \E i \in Places : Refreshed[i] = f
  <2>1. /\ Refreshed[1] = "voltage" /\ Refreshed[2] = "current"
        /\ Refreshed[3] = "power" /\ Refreshed[4] = "soc"
        /\ Refreshed[5] = "temperature"
    BY DEF Refreshed
  <2> QED  BY <1>2, <2>1 DEF Places
<1>5. \A i, j \in Places : Refreshed[i] = Refreshed[j] => i = j
  BY DEF Places, Refreshed
<1> QED  BY <1>1, <1>2, <1>3, <1>4, <1>5

(* Whatever refresh() is at, no value is older than its stamp and no stamp *)
(* than the last refresh that ended.                                       *)
LEMMA ValuesLead ==
  ASSUME Types, Entities, NEW f \in Readings
  PROVE  /\ Done <= stamp[f] /\ stamp[f] <= value[f].of
         /\ step = 0 => value[f].of = refreshes
<1>1. PICK i \in Places : Refreshed[i] = f
  BY TheReadings
<1>2. refreshes \in Nat /\ step \in 0 .. 5
  BY BroadcastAssumption DEF Types, Refreshes
<1> QED  BY <1>1, <1>2 DEF Entities, Done, Places

(* A put with room adds one entry; any other changes nothing. *)
LEMMA PutAdds ==
  ASSUME Types, NEW f \in Readings, NEW vouched \in Refreshes
  PROVE  LET b == Put(builder, f, value[f], vouched)
             e == [field |-> f, of |-> value[f].of, vouched |-> vouched]
         IN  /\ e \in Entry
             /\ b \in Builders
             /\ value[f].fits /\ Room(builder, f) =>
                  b = [len |-> builder.len + 1 + Bytes[f],
                       lastId |-> ObjectId[f], put |-> Append(builder.put, e)]
             /\ ~ (value[f].fits /\ Room(builder, f)) => b = builder
<1> DEFINE e == [field |-> f, of |-> value[f].of, vouched |-> vouched]
           b == [len |-> builder.len + 1 + Bytes[f],
                 lastId |-> ObjectId[f], put |-> Append(builder.put, e)]
<1>1. ObjectId[f] \in Nat /\ Bytes[f] \in Nat
  BY TheReadings DEF ObjectId, Bytes
<1>2. e \in Entry
  BY DEF Types, Values, Entry
<1>3. Append(builder.put, e) \in Seq(Entry) /\ builder.len \in Nat
  BY <1>2 DEF Types, Builders
<1>4. b \in Builders
  BY <1>1, <1>3 DEF Builders
<1>5. builder \in Builders
  BY DEF Types
<1>6. CASE value[f].fits /\ Room(builder, f)
  <2>1. Put(builder, f, value[f], vouched) = b
    BY <1>6 DEF Put
  <2> QED  BY <1>2, <1>4, <1>6, <2>1
<1>7. CASE ~ (value[f].fits /\ Room(builder, f))
  <2>1. Put(builder, f, value[f], vouched) = builder
    BY <1>7 DEF Put
  <2> QED  BY <1>2, <1>5, <1>7, <2>1
<1> QED  BY <1>6, <1>7

-----------------------------------------------------------------------------
LEMMA InitHolds == Init => Inv
<1> SUFFICES ASSUME Init PROVE Inv
  OBVIOUS
<1> USE BroadcastAssumption DEF Init
<1>1. Types
  <2>1. Unset \in Values /\ 0 \in Refreshes
    BY DEF Values, Refreshes, Unset
  <2>2. Reset \in Builders /\ air \in Frames
    BY <2>1 DEF Builders, Frames, Reset
  <2>3. value \in [Readings -> Values] /\ stamp \in [Readings -> Refreshes]
    BY <2>1
  <2>4. builder \in Builders
    BY <2>2
  <2>5. /\ aged \in Refreshes /\ refreshes \in Refreshes /\ saw \in Refreshes
        /\ since \in Refreshes
    BY <2>1
  <2>6. /\ step \in 0 .. 5 /\ at \in 0 .. 5 /\ fields \in Nat /\ ~ step > 0
        /\ pc \in {"idle"} /\ pc \notin Building
    BY DEF Building
  <2> QED  BY <2>2, <2>3, <2>4, <2>5, <2>6 DEF Types
<1>2. Entities  BY TheReadings DEF Entities, Places, Unset
<1>3. Taken  BY DEF Taken, Building
<1>4. Builder  BY DEF Builder, Building
<1>5. OnAir  BY DEF OnAir, Sound
<1> QED  BY <1>1, <1>2, <1>3, <1>4, <1>5 DEF Inv

-----------------------------------------------------------------------------
LEMMA TypesKept == Types /\ [Next]_vars => Types'
<1> SUFFICES ASSUME Types, [Next]_vars PROVE Types'
  OBVIOUS
<1> USE BroadcastAssumption, TheReadings
<1>1. CASE StartRefresh
  BY <1>1 DEF StartRefresh, Types, Refreshes, entities, panel
<1>2. CASE SetValue
  <2>1. step \in Places /\ Refreshed[step] \in Readings
    BY <1>2 DEF SetValue, Types, Places
  <2>2. [of |-> refreshes, fits |-> Refreshed[step] \notin wide] \in Values
    BY DEF Types, Values
  <2>3. value' \in [Readings -> Values]
    BY <1>2, <2>1, <2>2 DEF SetValue, Types
  <2> QED  BY <1>2, <2>3 DEF SetValue, Types, panel, build
<1>3. CASE MarkUpdated
  <2>1. step \in Places /\ Refreshed[step] \in Readings
    BY <1>3 DEF MarkUpdated, Types, Places
  <2>2. stamp' \in [Readings -> Refreshes]
    BY <1>3, <2>1 DEF MarkUpdated, Types
  <2>3. step' \in 0 .. 5 /\ wide' \subseteq Readings
    <3>1. CASE step = 5
      BY <1>3, <3>1 DEF MarkUpdated
    <3>2. CASE step < 5
      <4>1. step' = step + 1 /\ wide' = wide
        BY <1>3, <3>2 DEF MarkUpdated
      <4> QED  BY <2>1, <3>2, <4>1 DEF Types, Places
    <3> QED  BY <2>1, <3>1, <3>2 DEF Places
  <2>4. refreshes > 0
    BY <1>3 DEF MarkUpdated, Types
  <2> QED  BY <1>3, <2>2, <2>3, <2>4 DEF MarkUpdated, Types, panel, build
<1>4. CASE Age
  BY <1>4 DEF Age, Types, Refreshes, panel, bms, build, Done
<1>5. CASE NoRadio
  BY <1>5 DEF NoRadio, Types, entities, bms, build
<1>6. CASE StartPublish
  <2>1. Reset \in Builders
    BY DEF Reset, Builders
  <2>2. Done \in Refreshes
    BY DEF Done, Types, Refreshes
  <2> QED  BY <1>6, <2>1, <2>2 DEF StartPublish, Types, Building, Places,
                                   entities, bms, panel
<1>7. CASE Look
  <2>1. at \in Places /\ stamp[Field] \in Refreshes
    BY <1>7 DEF Look, Types, Building, Field
  <2> QED  BY <1>7, <2>1 DEF Look, Onward, Types, Building, Places, Refreshes,
                             entities, bms, panel
<1>8. CASE FindStale
  BY <1>8 DEF FindStale, Onward, Types, Building, Places, Refreshes, entities,
              bms, panel
<1>9. CASE FindFresh
  <2>1. at \in Places /\ stamp[Field] \in Refreshes
    BY <1>9 DEF FindFresh, Types, Building, Field
  <2> QED  BY <1>9, <2>1 DEF FindFresh, Types, Building, entities, bms, panel
<1>10. CASE Read
  <2>1. at \in Places /\ Field \in Readings
    BY <1>10 DEF Read, Types, Building, Field
  <2>2. builder' \in Builders
    BY <1>10, <2>1, PutAdds DEF Read, Types
  <2> QED  BY <1>10, <2>1, <2>2 DEF Read, Onward, Types, Building, Places,
                                    Refreshes, entities, bms, panel
<1>11. CASE Send
  <2>1. Frame \in Frames
    BY DEF Frame, Types, Builders, Frames
  <2>2. Sent \in Nat
    BY DEF Sent, Types, Builders
  <2>3. Reset \in Builders
    BY DEF Reset, Builders
  <2> QED  BY <1>11, <2>1, <2>2, <2>3 DEF Send, Ends, LinkOf, Types, Building,
                                          Places, Refreshes, entities, bms
<1>12. CASE Start \/ StartRefused
  BY <1>12 DEF Start, StartRefused, Types, Building, entities, bms, LinkOf
<1>13. CASE UNCHANGED vars
  BY <1>13 DEF vars, entities, bms, panel, build, Types
<1> QED  BY <1>1, <1>2, <1>3, <1>4, <1>5, <1>6, <1>7, <1>8, <1>9, <1>10, <1>11,
            <1>12, <1>13 DEF Next, BmsTask, Publish, Begin

-----------------------------------------------------------------------------
(* refresh() stores the value first, then the stamp, reading by reading. *)
LEMMA EntitiesKept == Types /\ Entities /\ [Next]_vars => Entities'
<1> SUFFICES ASSUME Types, Entities, [Next]_vars PROVE Entities'
  OBVIOUS
<1>0. /\ refreshes \in Nat /\ step \in 0 .. 5 /\ (step > 0 => refreshes > 0)
      /\ Len(Refreshed) = 5
      /\ \A i \in Places : Refreshed[i] \in Readings
      /\ \A i, j \in Places : Refreshed[i] = Refreshed[j] => i = j
  BY TheReadings, BroadcastAssumption DEF Types, Refreshes
<1>1. CASE StartRefresh
  BY <1>0, <1>1 DEF StartRefresh, Entities, entities, Places
<1>2. CASE SetValue
  <2>1. step \in Places /\ Refreshed[step] \in Readings /\ ~ stamping
    BY <1>0, <1>2 DEF SetValue, Places
  <2>2. /\ step' = step /\ refreshes' = refreshes /\ stamp' = stamp
        /\ stamping' = TRUE
    BY <1>2 DEF SetValue
  <2>3. \A f \in Readings :
          value'[f].of = IF f = Refreshed[step] THEN refreshes ELSE value[f].of
    BY <1>2, <2>1 DEF SetValue, Types
  <2>4. ASSUME NEW i \in Places
        PROVE  value'[Refreshed[i]].of = IF i = step THEN refreshes
                                         ELSE value[Refreshed[i]].of
    BY <1>0, <2>1, <2>3
  <2> QED  BY <1>0, <2>1, <2>2, <2>4 DEF Entities, Places
<1>3. CASE MarkUpdated
  <2>1. step \in Places /\ Refreshed[step] \in Readings /\ stamping
    BY <1>0, <1>3 DEF MarkUpdated, Places
  <2>2. value' = value /\ refreshes' = refreshes /\ stamping' = FALSE
    BY <1>3 DEF MarkUpdated
  <2>3. step' = IF step = 5 THEN 0 ELSE step + 1
    BY <1>0, <1>3 DEF MarkUpdated
  <2>4. ASSUME NEW i \in Places
        PROVE  stamp'[Refreshed[i]] = IF i = step THEN refreshes
                                      ELSE stamp[Refreshed[i]]
    BY <1>0, <1>3, <2>1 DEF MarkUpdated, Types
  <2> QED  BY <1>0, <2>1, <2>2, <2>3, <2>4 DEF Entities, Places
<1>4. CASE UNCHANGED << value, stamp, bms >>
  BY <1>4 DEF Entities, bms
<1>5. Age \/ NoRadio \/ Start \/ StartRefused \/ Publish \/ UNCHANGED vars
        => UNCHANGED << value, stamp, bms >>
  BY DEF Age, NoRadio, Start, StartRefused, Publish, StartPublish, Look,
         FindStale, FindFresh, Read, Send, Ends, entities, vars
<1> QED  BY <1>1, <1>2, <1>3, <1>4, <1>5 DEF Next, BmsTask, Begin

-----------------------------------------------------------------------------
(* Every reading but the last is followed by the next. *)
LEMMA OnwardGoes ==
  ASSUME Onward, at \in Places
  PROVE  \/ at = 5 /\ pc' = "send" /\ at' = 5
         \/ at < 5 /\ pc' = "find" /\ at' = at + 1
BY TheReadings DEF Onward, Places

(* What the BMS task does leaves what has been taken sound, and may only   *)
(* end the quiet.                                                          *)
LEMMA TakenKept ==
  Types /\ Types' /\ Entities /\ Entities' /\ Taken /\ [Next]_vars => Taken'
<1> SUFFICES ASSUME Types, Types', Entities, Entities', Taken, [Next]_vars,
                    (pc \in Building)'
             PROVE  Taken'
  BY DEF Taken
<1>0. /\ refreshes \in Nat /\ step \in 0 .. 5 /\ since \in Nat
      /\ step > 0 => refreshes > 0
  BY BroadcastAssumption DEF Types, Refreshes
<1>1. Done \in Nat
  BY <1>0 DEF Done
<1>2. CASE /\ UNCHANGED << pc, at, saw, builder, since >>
           /\ quiet' => quiet /\ step' = step /\ refreshes' = refreshes
           /\ Done' \in Nat /\ Done <= Done'
           /\ \A f \in Readings : stamp[f] <= stamp'[f]
  <2>1. Field \in Readings /\ Field' = Field /\ pc \in Building
    BY <1>2, TheReadings DEF Field, Types
  <2>2. saw <= stamp[Field] => saw <= stamp'[Field]
    BY <1>2, <2>1, BroadcastAssumption DEF Types, Refreshes
  <2>3. Sound(builder.put, since, quiet) => Sound(builder.put, since, quiet')
    BY <1>2 DEF Sound
  <2>4. since <= Done'
    BY <1>0, <1>1, <1>2, <2>1 DEF Taken
  <2> QED  BY <1>2, <2>1, <2>2, <2>3, <2>4 DEF Taken
<1>3. CASE StartRefresh
  <2>1. /\ UNCHANGED << pc, at, saw, builder, since, stamp >>
        /\ refreshes' = refreshes + 1 /\ step = 0 /\ step' = 1
    BY <1>3 DEF StartRefresh, entities
  <2>2. ~ quiet'
    BY <1>3, <2>1 DEF StartRefresh, Building
  <2>3. Done' = Done
    BY <1>0, <2>1 DEF Done
  <2>4. \A f \in Readings : stamp[f] <= stamp'[f]
    BY <2>1, BroadcastAssumption DEF Types, Refreshes
  <2> QED  BY <1>1, <1>2, <2>1, <2>2, <2>3, <2>4
<1>4. CASE SetValue \/ Age \/ UNCHANGED vars
  <2>1. UNCHANGED << pc, at, saw, builder, since, quiet, stamp, step, refreshes >>
    BY <1>4 DEF SetValue, Age, vars, bms, build, entities
  <2>2. Done' = Done
    BY <2>1 DEF Done
  <2>3. \A f \in Readings : stamp[f] <= stamp'[f]
    BY <2>1, BroadcastAssumption DEF Types, Refreshes
  <2> QED  BY <1>1, <1>2, <2>1, <2>2, <2>3
<1>5. CASE MarkUpdated
  <2>1. /\ UNCHANGED << pc, at, saw, builder, since, quiet, refreshes >>
        /\ step \in Places /\ Refreshed[step] \in Readings
    BY <1>0, <1>5, TheReadings DEF MarkUpdated, build, Places
  <2>2. step' = IF step = 5 THEN 0 ELSE step + 1
    BY <1>5, TheReadings DEF MarkUpdated
  <2>3. Done' \in Nat /\ Done <= Done'
    BY <1>0, <2>1, <2>2 DEF Done, Places
  <2>4. stamp[Refreshed[step]] <= refreshes
    BY <1>0, <2>1 DEF Entities, Places
  <2>5. \A f \in Readings : stamp[f] <= stamp'[f]
    BY <1>5, <2>1, <2>4, BroadcastAssumption DEF MarkUpdated, Types, Refreshes
  <2>6. ~ quiet
    BY <2>1 DEF Taken, Places
  <2> QED  BY <1>2, <2>1, <2>3, <2>5, <2>6
<1>6. CASE NoRadio \/ Send \/ Start \/ StartRefused
  <2>1. pc' \notin Building
    BY <1>6 DEF NoRadio, Send, Ends, Start, StartRefused, build, Building
  <2> QED  BY <2>1
<1>7. CASE StartPublish
  <2>1. /\ since' = Done /\ quiet' = (step = 0) /\ pc' = "find"
        /\ builder' = Reset /\ UNCHANGED << step, refreshes >>
    BY <1>7 DEF StartPublish, bms
  <2>2. Done' = Done
    BY <2>1 DEF Done
  <2>3. Sound(builder'.put, since', quiet')
    BY <2>1 DEF Sound, Reset
  <2>4. since' <= Done'
    BY <1>1, <2>1, <2>2
  <2>5. quiet' => step' = 0 /\ since' = refreshes'
    BY <2>1 DEF Done
  <2> QED  BY <2>1, <2>3, <2>4, <2>5 DEF Taken
<1>8. ASSUME pc \in {"find", "judge", "read"}, at \in Places, Onward,
             UNCHANGED << entities, bms, since, quiet >>,
             Sound(builder'.put, since, quiet)
      PROVE  Taken'
  <2>1. pc' # "read"
    BY <1>8, OnwardGoes
  <2>2. Done' = Done /\ since' = since /\ quiet' = quiet /\ step' = step
        /\ refreshes' = refreshes
    BY <1>8 DEF Done, bms
  <2> QED  BY <1>8, <2>1, <2>2 DEF Taken, Building
<1>9. CASE Look
  <2>1. at \in Places /\ pc = "find"
    BY <1>9 DEF Look, Types, Building
  <2>2. CASE stamp[Field] = 0
    BY <1>8, <1>9, <2>1, <2>2 DEF Look, Taken, Building
  <2>3. CASE stamp[Field] # 0
    <3>1. /\ pc' = "judge"
          /\ UNCHANGED << builder, since, quiet, step, refreshes >>
      BY <1>9, <2>3 DEF Look, bms
    <3>2. Done' = Done
      BY <3>1 DEF Done
    <3> QED  BY <2>1, <3>1, <3>2 DEF Taken, Building
  <2> QED  BY <2>2, <2>3
<1>10. CASE FindStale
  <2>1. at \in Places /\ pc = "judge"
    BY <1>10 DEF FindStale, Types, Building
  <2> QED  BY <1>8, <1>10, <2>1 DEF FindStale, Taken, Building
<1>11. CASE FindFresh
  <2>1. /\ at \in Places /\ pc = "judge" /\ pc' = "read" /\ saw' = stamp[Field]
        /\ UNCHANGED << stamp, at, builder, since, quiet, step, refreshes >>
    BY <1>11 DEF FindFresh, Types, Building, bms, entities
  <2>2. Done' = Done /\ Field' = Field /\ Field \in Readings
    BY <2>1, TheReadings DEF Done, Field
  <2>3. saw' <= stamp'[Field']
    BY <2>1, <2>2, BroadcastAssumption DEF Types, Refreshes
  <2> QED  BY <2>1, <2>2, <2>3 DEF Taken, Building
<1>12. CASE Read
  <2>1. at \in Places /\ pc = "read" /\ Field \in Readings
    BY <1>12, TheReadings DEF Read, Types, Building, Field
  <2> DEFINE e == [field |-> Field, of |-> value[Field].of, vouched |-> saw]
  <2>2. Done <= stamp[Field] /\ stamp[Field] <= value[Field].of
        /\ (step = 0 => value[Field].of = refreshes)
    BY <2>1, ValuesLead
  <2>3. /\ since <= Done /\ saw <= stamp[Field]
        /\ quiet => step = 0 /\ since = refreshes
        /\ Sound(builder.put, since, quiet)
    BY <2>1 DEF Taken, Building
  <2>4. stamp[Field] \in Nat /\ value[Field].of \in Nat /\ saw \in Nat
    BY <2>1, BroadcastAssumption DEF Types, Values, Refreshes
  <2>5. e.vouched <= e.of /\ since <= e.of /\ (quiet => e.of = since)
    BY <1>0, <1>1, <2>2, <2>3, <2>4
  <2>6. builder'.put = builder.put \/ builder'.put = Append(builder.put, e)
    BY <1>12, <2>1, PutAdds DEF Read, Types
  <2>7. builder.put \in Seq(Entry) /\ e \in Entry
    BY <2>1, PutAdds DEF Types, Builders
  <2>8. Sound(builder'.put, since, quiet)
    BY <2>3, <2>5, <2>6, <2>7 DEF Sound
  <2> QED  BY <1>8, <1>12, <2>1, <2>8 DEF Read
<1> QED  BY <1>3, <1>4, <1>5, <1>6, <1>7, <1>9, <1>10, <1>11, <1>12
         DEF Next, BmsTask, Publish, Begin

-----------------------------------------------------------------------------
(* The ids ascend and the payload has room for every reading.              *)
LEMMA RoomForAll ==
  ASSUME Types, Builder, pc = "read"
  PROVE  /\ Room(builder, Field)
         /\ builder.len + 1 + Bytes[Field] <=
              IF at = 5 THEN 19 ELSE LenBefore[at + 1]
         /\ at < 5 => ObjectId[Field] <= IdBefore[at + 1]
<1>1. /\ at \in Places /\ builder.len \in Nat /\ builder.lastId \in Nat
      /\ builder.len <= LenBefore[at] /\ builder.lastId <= IdBefore[at]
  BY DEF Types, Building, Builders, Builder
<1>2. \/ at = 1 /\ Field = "soc"
      \/ at = 2 /\ Field = "temperature"
      \/ at = 3 /\ Field = "voltage"
      \/ at = 4 /\ Field = "power"
      \/ at = 5 /\ Field = "current"
  <2>1. /\ Added[1] = "soc" /\ Added[2] = "temperature" /\ Added[3] = "voltage"
        /\ Added[4] = "power" /\ Added[5] = "current"
    BY DEF Added
  <2>2. at = 1 \/ at = 2 \/ at = 3 \/ at = 4 \/ at = 5
    BY <1>1 DEF Places
  <2> QED  BY <2>1, <2>2 DEF Field
<1>3. LenBefore[1] = 3 /\ LenBefore[2] = 5 /\ LenBefore[3] = 8
      /\ LenBefore[4] = 11 /\ LenBefore[5] = 16
  BY DEF LenBefore
<1>4. IdBefore[1] = 0 /\ IdBefore[2] = 1 /\ IdBefore[3] = 2
      /\ IdBefore[4] = 12 /\ IdBefore[5] = 92
  BY DEF IdBefore
<1>5. Bytes["soc"] = 1 /\ Bytes["temperature"] = 2 /\ Bytes["voltage"] = 2
      /\ Bytes["power"] = 4 /\ Bytes["current"] = 2
  BY DEF Bytes
<1>6. ObjectId["soc"] = 1 /\ ObjectId["temperature"] = 2
      /\ ObjectId["voltage"] = 12 /\ ObjectId["power"] = 92
      /\ ObjectId["current"] = 93
  BY DEF ObjectId
<1> QED  BY <1>1, <1>2, <1>3, <1>4, <1>5, <1>6 DEF Room, kMaxPayload

(* The bounds grow along the frame, so that they hold without an add too. *)
LEMMA BoundsGrow ==
  /\ \A i \in Places : i < 5 => /\ LenBefore[i] <= LenBefore[i + 1]
                                /\ IdBefore[i] <= IdBefore[i + 1]
  /\ \A i \in Places : LenBefore[i] \in Nat /\ IdBefore[i] \in Nat
  /\ LenBefore[5] <= 19
BY DEF LenBefore, IdBefore, Places

LEMMA BuilderKept == Types /\ Types' /\ Builder /\ [Next]_vars => Builder'
<1> SUFFICES ASSUME Types, Types', Builder, [Next]_vars PROVE Builder'
  OBVIOUS
<1>1. CASE StartRefresh \/ SetValue \/ MarkUpdated \/ Age \/ UNCHANGED vars
  <2>1. UNCHANGED << pc, at, builder, due >>
    BY <1>1 DEF StartRefresh, SetValue, MarkUpdated, Age, vars, build
  <2> QED  BY <2>1 DEF Builder
<1>2. CASE NoRadio \/ Send \/ Start \/ StartRefused
  <2>1. pc' \notin Building
    BY <1>2 DEF NoRadio, Send, Ends, Start, StartRefused, build, Building
  <2> QED  BY <2>1 DEF Builder, Building
<1>3. CASE StartPublish
  <2>1. pc' = "find" /\ at' = 1 /\ builder' = Reset /\ due' = {}
    BY <1>3 DEF StartPublish
  <2>2. FieldsOf(builder'.put) = {}
    BY <2>1 DEF FieldsOf, Reset
  <2> QED  BY <2>1, <2>2 DEF Builder, Reset, LenBefore, IdBefore
<1>4. ASSUME pc \in {"find", "judge", "read"}, Onward,
             UNCHANGED << builder, due >>
      PROVE  Builder'
  <2>1. /\ at \in Places /\ builder.len \in Nat /\ builder.lastId \in Nat
        /\ Len(builder.put) \in Nat
    BY <1>4 DEF Types, Building, Builders
  <2>2. /\ builder.len <= LenBefore[at] /\ builder.lastId <= IdBefore[at]
        /\ Len(builder.put) < at /\ FieldsOf(builder.put) = due
    BY <1>4 DEF Builder, Building
  <2>3. CASE at = 5
    BY <1>4, <2>1, <2>2, <2>3, OnwardGoes, BoundsGrow DEF Builder, Building
  <2>4. CASE at < 5
    <3>1. LenBefore[at] <= LenBefore[at + 1] /\ IdBefore[at] <= IdBefore[at + 1]
      BY <2>1, <2>4, BoundsGrow
    <3>2. at + 1 \in Places
      BY <2>1, <2>4 DEF Places
    <3>3. /\ LenBefore[at] \in Nat /\ IdBefore[at] \in Nat
          /\ LenBefore[at + 1] \in Nat /\ IdBefore[at + 1] \in Nat
      BY <2>1, <3>2, BoundsGrow
    <3>5. /\ builder.len <= LenBefore[at + 1] /\ builder.lastId <= IdBefore[at + 1]
      BY <2>1, <2>2, <3>1, <3>3
    <3>6. Len(builder.put) < at + 1
      BY <2>1, <2>2 DEF Places
    <3>4. pc' = "find" /\ at' = at + 1 /\ builder' = builder /\ due' = due
      BY <1>4, <2>1, <2>4, OnwardGoes
    <3> QED  BY <2>2, <3>4, <3>5, <3>6 DEF Builder, Building
  <2> QED  BY <2>1, <2>3, <2>4 DEF Places
<1>5. CASE Look
  <2>1. pc = "find" /\ UNCHANGED << builder, due >>
    BY <1>5 DEF Look
  <2>2. CASE Onward
    BY <1>4, <2>1, <2>2
  <2>3. CASE pc' = "judge" /\ at' = at
    BY <2>1, <2>3 DEF Builder, Building
  <2> QED  BY <1>5, <2>2, <2>3 DEF Look
<1>6. CASE FindStale
  BY <1>4, <1>6 DEF FindStale
<1>7. CASE FindFresh
  <2>1. /\ pc = "judge" /\ pc' = "read" /\ UNCHANGED << at, builder, due >>
    BY <1>7 DEF FindFresh
  <2> QED  BY <2>1 DEF Builder, Building
<1>8. CASE Read
  <2>1. pc = "read" /\ at \in Places /\ Field \in Readings /\ saw \in Refreshes
    BY <1>8, TheReadings DEF Read, Types, Building, Field
  <2>2. CASE ~ value[Field].fits
    BY <1>4, <1>8, <2>1, <2>2, PutAdds DEF Read
  <2>3. CASE value[Field].fits
    <3> DEFINE e == [field |-> Field, of |-> value[Field].of, vouched |-> saw]
    <3>1. /\ Room(builder, Field)
          /\ builder.len + 1 + Bytes[Field] <=
               IF at = 5 THEN 19 ELSE LenBefore[at + 1]
          /\ at < 5 => ObjectId[Field] <= IdBefore[at + 1]
      BY <2>1, RoomForAll
    <3>2. builder' = [len |-> builder.len + 1 + Bytes[Field],
                      lastId |-> ObjectId[Field], put |-> Append(builder.put, e)]
      BY <1>8, <2>1, <2>3, <3>1, PutAdds DEF Read
    <3>3. builder.put \in Seq(Entry) /\ e \in Entry
      BY <2>1, PutAdds DEF Types, Builders
    <3>4. /\ Len(builder'.put) = Len(builder.put) + 1
          /\ FieldsOf(builder'.put) = FieldsOf(builder.put) \union {Field}
      BY <3>2, <3>3 DEF FieldsOf
    <3>5. due' = due \union {Field} /\ Onward
      BY <1>8, <2>3 DEF Read
    <3>6. FieldsOf(builder.put) = due /\ Len(builder.put) < at
      BY <2>1 DEF Builder, Building
    <3>7. FieldsOf(builder'.put) = due'
      BY <3>4, <3>5, <3>6
    <3>8. Len(builder'.put) < at + 1 /\ Len(builder'.put) <= 5
      BY <2>1, <3>3, <3>4, <3>6 DEF Places
    <3>9. CASE at = 5
      BY <2>1, <3>1, <3>2, <3>5, <3>7, <3>8, <3>9, OnwardGoes
         DEF Builder, Building
    <3>10. CASE at < 5
      <4>1. pc' = "find" /\ at' = at + 1
        BY <2>1, <3>5, <3>10, OnwardGoes
      <4>2. builder'.len <= LenBefore[at'] /\ builder'.lastId <= IdBefore[at']
        BY <3>1, <3>2, <3>10, <4>1
      <4> QED  BY <3>7, <3>8, <4>1, <4>2 DEF Builder, Building
    <3> QED  BY <2>1, <3>9, <3>10 DEF Places
  <2> QED  BY <2>2, <2>3
<1> QED  BY <1>1, <1>2, <1>3, <1>5, <1>6, <1>7, <1>8
         DEF Next, BmsTask, Publish, Begin

-----------------------------------------------------------------------------
LEMMA OnAirKept ==
  Types /\ Types' /\ Taken /\ Builder /\ OnAir /\ [Next]_vars => OnAir'
<1> SUFFICES ASSUME Types, Types', Taken, Builder, OnAir, [Next]_vars
             PROVE  OnAir'
  OBVIOUS
<1>1. CASE Send
  <2>1. /\ builder.len <= 19 /\ Len(builder.put) <= 5 /\ builder.len \in Nat
        /\ FieldsOf(builder.put) = due /\ Sound(builder.put, since, quiet)
    BY <1>1 DEF Send, Builder, Taken, Building, Types, Builders
  <2>2. Accepted(builder)
    BY <2>1 DEF Accepted
  <2>3. /\ air' = Frame /\ fields' = Len(builder.put) /\ due' = due
    BY <1>1, <2>2 DEF Send, Sent, Ends
  <2> QED  BY <2>1, <2>3 DEF OnAir, Frame
<1>2. CASE NoRadio \/ Start \/ StartRefused
  <2>1. UNCHANGED << air, due, fields >>
        /\ (pc' = "idle" /\ mode' = "on" => pc = "start") /\ pc' = "idle"
    BY <1>2 DEF NoRadio, Start, StartRefused, build
  <2> QED  BY <2>1 DEF OnAir
<1>3. CASE StartPublish
  <2>1. UNCHANGED << air, fields >> /\ pc' = "find"
    BY <1>3 DEF StartPublish, panel
  <2> QED  BY <2>1 DEF OnAir
<1>4. CASE Look \/ FindStale \/ FindFresh \/ Read
  <2>1. UNCHANGED << air, fields >> /\ pc' \in Building
    BY <1>4 DEF Look, FindStale, FindFresh, Read, Onward, Building, panel
  <2> QED  BY <2>1 DEF OnAir, Building
<1>5. CASE BmsTask \/ Age \/ UNCHANGED vars
  <2>1. UNCHANGED << air, fields, pc, mode, due >>
    BY <1>5 DEF BmsTask, StartRefresh, SetValue, MarkUpdated, Age, vars, build, panel
  <2> QED  BY <2>1 DEF OnAir
<1> QED  BY <1>1, <1>2, <1>3, <1>4, <1>5 DEF Next, Publish, Begin

(* The inductive invariant of the broadcast. *)
LEMMA Invariance == Spec => []Inv
<1>1. Inv /\ [Next]_vars => Inv'
  BY TypesKept, EntitiesKept, TakenKept, BuilderKept, OnAirKept DEF Inv
<1> QED  BY InitHolds, <1>1, PTL DEF Spec

(***************************************************************************)
(* A reading on the air is at least as new as the stamp that vouched for   *)
(* it, and undisturbed all are of the last refresh (entity.cpp:29-32,      *)
(* ble_broadcast.cpp:22-28).                                               *)
(***************************************************************************)
THEOREM Current == Spec => []FrameIsCurrent
<1>1. Inv => FrameIsCurrent
  <2> SUFFICES ASSUME Inv, NEW e \in ToSet(air.put)
               PROVE  /\ e.vouched <= e.of /\ air.since <= e.of
                      /\ air.quiet => e.of = air.since
    BY DEF FrameIsCurrent
  <2>1. PICK k \in 1 .. Len(air.put) : e = air.put[k]
    BY DEF ToSet, Inv, Types, Frames
  <2> QED  BY <2>1 DEF Inv, OnAir, Sound
<1> QED  BY <1>1, Invariance, PTL

(***************************************************************************)
(* Every reading found fresh and fitting is on the air: the ids ascend,    *)
(* the payload holds all five and the advertisement is never too long      *)
(* (bthome_encode.cpp:62-77, ICD.md:105-125).                              *)
(***************************************************************************)
THEOREM FreshSent == Spec => []FreshIsSent
<1>1. Inv => FreshIsSent
  <2> SUFFICES ASSUME Inv, mode = "on", pc = "idle"
               PROVE  /\ {e.field : e \in ToSet(air.put)} = due
                      /\ fields = Len(air.put)
    BY DEF FreshIsSent
  <2>1. ToSet(air.put) = {air.put[k] : k \in 1 .. Len(air.put)}
    BY DEF ToSet, Inv, Types, Frames
  <2>2. {e.field : e \in ToSet(air.put)} = FieldsOf(air.put)
    BY <2>1 DEF FieldsOf
  <2> QED  BY <2>2 DEF Inv, OnAir
<1> QED  BY <1>1, Invariance, PTL

(* Type correctness, for every number of refreshes. *)
THEOREM BroadcastTypeCorrect == Spec => []TypeOK
<1>1. Inv => TypeOK
  BY DEF Inv, Types, OnAir, TypeOK, Values, Refreshes, Building
<1> QED  BY <1>1, Invariance, PTL

=============================================================================
