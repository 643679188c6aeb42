------------------------------ MODULE JbdProofs ------------------------------
(***************************************************************************)
(* The Overkill Solar library: its parameter calls, and its requests on    *)
(* the serial line.                                                        *)
(*                                                                         *)
(* JbdParams.  An image is written whole or not at all, and what was set   *)
(* is what is read, for every set of registers, image, number of attempts  *)
(* and of frames that may be late.  Neither is inductive.  The first       *)
(* follows from how far the image has been gone through (ImageSoFar), the  *)
(* second from what the pack holds of all that was set (Kept) and from     *)
(* what a getter returned being of the register as it is (Returned).  All  *)
(* three rest on one fact about answers that come in time: an exchange     *)
(* that ends with one ends with its own (OneAnswer), so that a refusal     *)
(* never ends one at all (Unrefused).                                      *)
(*                                                                         *)
(* JbdWire.  On a link the library was started on no frame is lost and     *)
(* none is handled but whole and in order, for every size of the ring and  *)
(* every frame, its checksum taken as it is.  The argument goes along the  *)
(* line: the ring never fills and holds a run of the pack's bytes without  *)
(* a gap (RingHolds), a pop() that is under way holds the oldest of them   *)
(* (Reads), the receiver is where the next byte belongs, and all frames    *)
(* before that one have been handled (Follows).  Only whole requests are   *)
(* sent, for every length of one: what has been written of a request is in *)
(* the transmit buffer as long as the link that was up at its first byte   *)
(* is (RequestSoFar).                                                      *)
(***************************************************************************)
EXTENDS JbdParams, JbdWire, SequenceTheorems, TLAPS

Replies == [of : {"enter", "exit", "read", "write", "refused", "skipped"}, word : Word]

(* TypeOK, and what there is of a call while it is under way.              *)
PackTypes ==
  /\ forgets \in BOOLEAN /\ open \in BOOLEAN /\ onTime \in BOOLEAN
  /\ ram \in [Registers -> Word] /\ eeprom \in [Registers -> Word]
  /\ air \in Seq(Replies) /\ Len(air) <= MaxInFlight

CallTypes ==
  /\ pc \in {"idle", "enter", "ask", "save", "leave", "reenter", "open", "close"}
  /\ call.op \in {"none", "get", "set"} \cup Whole
  /\ call.op = "none" => pc = "idle"
  /\ call.op \in {"get", "set"} => call.reg \in Registers
  /\ call.op = "set" => call.value \in Values[call.reg]
  /\ call.op = "set_params" => call.words \in Images
  /\ pc \in {"open", "close"} => call.op \in Whole
  /\ pc = "save" => call.op = "set"

WalkTypes ==
  /\ phase \in {"old", "new"} /\ (phase = "new" => call.op = "set_params")
  /\ i \in 1 .. Len(Order) /\ old \in [1 .. Len(Order) -> Word]
  /\ attempt \in 1 .. Attempts

RestTypes ==
  /\ paramOk \in BOOLEAN /\ inFactory \in BOOLEAN /\ ok \in BOOLEAN
  /\ resp \in Word /\ calls \in 0 .. MaxCalls /\ was \in [Registers -> Word]
  /\ wanted \in [Registers -> SUBSET UNION {Values[r] : r \in Registers}]

Types == PackTypes /\ CallTypes /\ WalkTypes /\ RestTypes

(* No answer that comes in time is a refusal the library sees.             *)
Unrefused == onTime => pc \notin {"leave", "reenter"}

Asking == {"enter", "ask"}

Copied(k) == old[k] = ram[Order[k]]
Placed(k) == ram[Order[k]] = call.words[k]

(* While an image is written the EEPROM is left alone.  Nothing that has   *)
(* failed is committed, and unless something has, every register before    *)
(* the one it is at is as it was read, or as it should be.                 *)
ImageSoFar ==
  call.op = "set_params" /\ pc # "idle" /\ onTime /\ forgets =>
    /\ eeprom = was
    /\ paramOk => \A k \in 1 .. Len(Order) :
         /\ phase = "old" /\ (pc = "close" \/ (pc \in Asking /\ k < i)) => Copied(k)
         /\ phase = "new" /\ (pc = "open" \/ (pc \in Asking /\ k > i)) => Copied(k)
         /\ phase = "new" /\ (pc = "close" \/ (pc \in Asking /\ k < i)) => Placed(k)

(* A register is as it was set last, but for the one being set now.        *)
Setting(reg) == pc # "idle" /\ call.op = "set" /\ call.reg = reg

Kept ==
  /\ \A reg \in Registers : \A v \in wanted[reg] :
       ~Setting(reg) => ram[reg] = Set(reg, v)
  /\ pc # "idle" /\ call.op = "set_params" => \A reg \in Registers : wanted[reg] = {}
  /\ onTime /\ pc = "save" => ram[call.reg] = Set(call.reg, call.value)

(* What a getter returned is of the register as it is. *)
Returned ==
  pc = "idle" /\ call.op = "get" /\ ok /\ onTime =>
    \A w \in result : w = Get(call.reg, ram[call.reg], TRUE)

Inv == Types /\ Unrefused /\ ImageSoFar /\ SetIsWhole /\ Kept /\ Returned

-----------------------------------------------------------------------------
(* Types.                                                                  *)

LEMMA Sizes ==
  /\ Len(Order) \in Nat \ {0} /\ Attempts \in Nat \ {0} /\ MaxInFlight \in Nat \ {0}
  /\ MaxCalls \in Nat /\ 0 \in Word
  /\ \A k \in 1 .. Len(Order) : Order[k] \in Registers
  <1>1. Order \in Seq(Registers) /\ Order # << >>
    BY ParamsAssumption
  <1>2. Len(Order) \in Nat \ {0} /\ \A k \in 1 .. Len(Order) : Order[k] \in Registers
    BY <1>1
  <1>3. /\ Attempts \in Nat \ {0} /\ MaxInFlight \in Nat \ {0}
        /\ MaxCalls \in Nat
    BY ParamsAssumption
  <1>4. 0 \in Word
    BY DEF Word
  <1> QED
    BY <1>2, <1>3, <1>4

LEMMA NothingLeft == << >> \in Seq(Replies) /\ Len(<< >>) <= MaxInFlight
  <1>1. Len(<< >>) = 0 /\ 0 <= MaxInFlight
    BY Sizes
  <1> QED
    BY <1>1

(* What the register and the word of a request are taken from. *)
LEMMA Requested ==
  ASSUME Types, pc = "ask"
  PROVE  /\ Reg \in Registers
         /\ ~Reading => NewWord \in Word
  <1>1. call.op \in {"get", "set"} \cup Whole
    BY DEF Types, CallTypes
  <1>2. CASE call.op \in {"get", "set"}
    <2>1. Reg = call.reg /\ call.reg \in Registers /\ (~Reading => call.op = "set")
      BY <1>2 DEF Types, CallTypes, Reg, Whole, Reading
    <2>2. call.op = "set" => NewWord = Set(call.reg, call.value)
      BY DEF NewWord, Whole
    <2> QED
      BY <2>1, <2>2, ParamsAssumption DEF Types, CallTypes
  <1>3. CASE call.op \in Whole
    <2>1. Reg = Order[i] /\ NewWord = call.words[i] /\ i \in 1 .. Len(Order)
      BY <1>3 DEF Types, WalkTypes, Reg, NewWord
    <2>2. ~Reading => call.op = "set_params"
      BY <1>3 DEF Reading, Types, WalkTypes, Whole
    <2>3. call.op = "set_params" => call.words \in [1 .. Len(Order) -> Word]
      BY ParamsAssumption DEF Types, CallTypes
    <2> QED
      BY <2>1, <2>2, <2>3, Sizes
  <1> QED
    BY <1>1, <1>2, <1>3

(* A request: what Serve and Answer look at in it. *)
Requests ==
  {ToEnter} \cup {ToExit(save) : save \in BOOLEAN}
    \cup [op : {"read", "write"}, reg : Registers, word : Word]

LEMMA AskIsRequest ==
  ASSUME Types, pc = "ask"
  PROVE  Request(IF Reading THEN "read" ELSE "write") \in Requests
  BY Requested, Sizes DEF Request, Requests

LEMMA CameTypes ==
  ASSUME Types, NEW req \in Requests, NEW x \in Outcomes
  PROVE  Came(req, x) \in Seq(Replies)
  <1>1. Answer(req) \in Replies
    <2>1. (IF req.op = "read" THEN ram[req.reg] ELSE 0) \in Word
      BY Sizes DEF Requests, ToEnter, ToExit, Types, PackTypes
    <2>2. req.op \in {"enter", "exit", "read", "write"}
      BY DEF Requests, ToEnter, ToExit
    <2>3. Answer(req).of \in {"enter", "exit", "read", "write", "refused", "skipped"}
      BY <2>2 DEF Answer
    <2>4. Answer(req) = [of |-> Answer(req).of, word |-> Answer(req).word]
      BY DEF Answer
    <2>5. Answer(req).word \in Word
      BY <2>1 DEF Answer
    <2> QED
      BY <2>3, <2>4, <2>5 DEF Replies
  <1> QED
    BY <1>1 DEF Came, Types, PackTypes

LEMMA AnsweredTypes ==
  ASSUME NEW frames \in Seq(Replies), NEW req
  PROVE  Answered(frames, req) \in [got : BOOLEAN, nak : BOOLEAN, word : Word]
  <1> DEFINE last == { n \in 1 .. Len(frames) : LastRead(frames, n) }
  <1>1. ASSUME last # {}
        PROVE  frames[CHOOSE n \in last : TRUE].word \in Word
    <2> DEFINE n == CHOOSE k \in last : TRUE
    <2>1. n \in 1 .. Len(frames)
      BY <1>1
    <2> HIDE DEF n
    <2>2. frames[n] \in Replies
      BY <2>1
    <2>3. frames[n].word \in Word
      BY <2>2 DEF Replies
    <2> QED
      BY <2>3 DEF n
  <1>2. Answered(frames, req).word \in Word
    BY <1>1, Sizes DEF Answered
  <1> QED
    BY <1>2 DEF Answered

LEMMA ExchangeTypes ==
  ASSUME Types, NEW req \in Requests, NEW x \in Outcomes, Exchange(req, x)
  PROVE  /\ PackTypes'
         /\ AnswerOf(req, x) \in [got : BOOLEAN, nak : BOOLEAN, word : Word]
  <1> DEFINE came == Came(req, x)
  <1>1. came \in Seq(Replies) /\ x.read \in Nat /\ Len(came) \in Nat
    BY CameTypes, Sizes DEF Outcomes
  <1>2. x.read <= Len(came) /\ Len(came) - x.read <= MaxInFlight
    BY <1>1, Sizes DEF Exchange
  <1> HIDE DEF came
  <1>3. SubSeq(came, 1, x.read) \in Seq(Replies)
    BY <1>1, <1>2, SubSeqProperties
  <1>4. /\ SubSeq(came, x.read + 1, Len(came)) \in Seq(Replies)
        /\ Len(SubSeq(came, x.read + 1, Len(came))) = Len(came) - x.read
    BY <1>1, <1>2, SubSeqProperties
  <1>5. air' \in Seq(Replies) /\ Len(air') <= MaxInFlight
    BY <1>2, <1>4 DEF Exchange, came
  <1>6. /\ open' \in BOOLEAN /\ ram' \in [Registers -> Word]
        /\ eeprom' \in [Registers -> Word]
    <2>1. CASE x.way # "unheard"
      <3>1. req.op = "write" => req.reg \in Registers /\ req.word \in Word
        BY DEF Requests, ToEnter, ToExit
      <3>2. open' \in BOOLEAN
        BY <2>1 DEF Exchange, Serve, Types, PackTypes
      <3>3. ram' \in [Registers -> Word]
        BY <2>1, <3>1 DEF Exchange, Serve, Types, PackTypes
      <3>4. eeprom' \in [Registers -> Word]
        BY <2>1 DEF Exchange, Serve, Types, PackTypes
      <3> QED
        BY <3>2, <3>3, <3>4
    <2>2. CASE x.way = "unheard"
      BY <2>2 DEF Exchange, Types, PackTypes
    <2> QED
      BY <2>1, <2>2
  <1>7. onTime' \in BOOLEAN /\ forgets' \in BOOLEAN
    BY DEF Exchange, Types, PackTypes
  <1> QED
    BY <1>3, <1>5, <1>6, <1>7, AnsweredTypes DEF PackTypes, AnswerOf, came

LEMMA OnwardsTypes ==
  ASSUME Types, NEW words, Onwards(words)
  PROVE  /\ pc' \in {"close", "ask", "enter"} /\ phase' = phase
         /\ i' \in 1 .. Len(Order) /\ attempt' \in 1 .. Attempts
  <1> DEFINE ahead == { k \in i + 1 .. Len(Order) : Reading \/ call.words[k] # words[k] }
  <1>1. i \in 1 .. Len(Order) /\ 1 \in 1 .. Attempts
    BY Sizes DEF Types, WalkTypes
  <1>2. CASE ahead = {}
    BY <1>1, <1>2 DEF Onwards
  <1>3. CASE ahead # {}
    <2>1. i' \in ahead
      BY <1>3 DEF Onwards
    <2>2. i' \in 1 .. Len(Order)
      BY <1>1, <2>1
    <2> QED
      BY <1>1, <1>3, <2>2 DEF Onwards, Begin
  <1> QED
    BY <1>2, <1>3

(* What is left of the call when a register is done with. *)
CallStays ==
  /\ call' = call /\ inFactory' \in BOOLEAN /\ resp' \in Word
  /\ was' = was /\ calls' = calls

LEMMA EndedTypes ==
  ASSUME Types, pc \in {"ask", "save", "reenter"}, CallStays,
         NEW success \in BOOLEAN, NEW word \in Word, Ended(success, word)
  PROVE  CallTypes' /\ WalkTypes' /\ RestTypes'
  <1>1. paramOk' \in BOOLEAN
    BY DEF Ended, ReadEnds, WriteEnds, Types, RestTypes
  <1>2. call.op \in {"get", "set"} \cup Whole
    BY DEF Types, CallTypes
  <1>3. Reading => call.op # "set"
    BY DEF Reading, Whole
  <1>4. ~Reading => call.op \in {"set", "set_params"}
    BY <1>2 DEF Reading, Whole, Types, WalkTypes
  <1>5. 1 \in 1 .. Attempts
    BY Sizes
  <1>6. CASE call.op \in {"get", "set"}
    <2>1. pc' = "idle" /\ ok' = paramOk' /\ attempt' = 1 /\ phase' = phase /\ i' = i
      BY <1>3, <1>4, <1>6 DEF Ended, ReadEnds, WriteEnds, Return, Whole
    <2>2. old' = old
      BY <1>3, <1>4, <1>6 DEF Ended, ReadEnds, WriteEnds, Whole
    <2>3. wanted' \in [Registers -> SUBSET UNION {Values[r] : r \in Registers}]
      <3>1. CASE call.op = "get"
        BY <1>4, <3>1 DEF Ended, ReadEnds, Types, RestTypes
      <3>2. CASE call.op = "set"
        <4>1. wanted' = [wanted EXCEPT ![Reg] =
                           IF ok' /\ onTime' THEN {call.value} ELSE {}]
          BY <1>3, <3>2 DEF Ended, WriteEnds
        <4>2. call.value \in UNION {Values[r] : r \in Registers}
          BY <3>2 DEF Types, CallTypes
        <4> QED
          BY <4>1, <4>2 DEF Types, RestTypes
      <3> QED
        BY <1>6, <3>1, <3>2
    <2>4. CallTypes'
      BY <1>6, <2>1 DEF CallStays, Types, CallTypes
    <2>5. WalkTypes'
      BY <1>5, <2>1, <2>2 DEF CallStays, Types, WalkTypes
    <2> QED
      BY <1>1, <2>1, <2>3, <2>4, <2>5 DEF CallStays, Types, RestTypes
  <1>7. CASE call.op \in Whole
    <2>1. PICK words : Onwards(words)
      BY <1>4, <1>7 DEF Ended, ReadEnds, WriteEnds, Whole
    <2>2. /\ pc' \in {"close", "ask", "enter"} /\ phase' = phase
          /\ i' \in 1 .. Len(Order) /\ attempt' \in 1 .. Attempts
      BY <2>1, OnwardsTypes
    <2>3. ok' = ok /\ wanted' = wanted
      BY <1>4, <1>7 DEF Ended, ReadEnds, WriteEnds, Whole
    <2>4. old' \in [1 .. Len(Order) -> Word]
      <3>1. old' = old \/ old' = [old EXCEPT ![i] = word]
        BY <1>4, <1>7 DEF Ended, ReadEnds, WriteEnds, Whole
      <3> QED
        BY <3>1 DEF Types, WalkTypes
    <2>5. CallTypes'
      BY <1>7, <2>2 DEF CallStays, Types, CallTypes, Whole
    <2>6. WalkTypes'
      BY <2>2, <2>4 DEF CallStays, Types, WalkTypes
    <2> QED
      BY <1>1, <2>3, <2>5, <2>6 DEF CallStays, Types, RestTypes
  <1> QED
    BY <1>2, <1>6, <1>7

LEMMA AgainTypes ==
  ASSUME Types, pc \in {"ask", "reenter"}, CallStays, NEW word \in Word, Again(word)
  PROVE  CallTypes' /\ WalkTypes' /\ RestTypes'
  <1>1. CASE attempt < Attempts
    <2>1. /\ attempt' = attempt + 1 /\ pc' \in {"ask", "enter"}
          /\ UNCHANGED << paramOk, walk, ok, result, wanted >>
      BY <1>1 DEF Again
    <2>2. attempt' \in 1 .. Attempts
      BY <1>1, <2>1, Sizes DEF Types, WalkTypes
    <2>3. CallTypes'
      BY <2>1 DEF CallStays, Types, CallTypes
    <2>4. WalkTypes'
      BY <2>1, <2>2 DEF CallStays, Types, WalkTypes, walk
    <2> QED
      BY <2>1, <2>3, <2>4 DEF CallStays, Types, RestTypes
  <1>2. CASE ~(attempt < Attempts)
    BY <1>2, EndedTypes DEF Again
  <1> QED
    BY <1>1, <1>2

LEMMA AskTypes == Types /\ Ask => Types'
  <1> SUFFICES ASSUME Types, Ask
               PROVE  Types'
    OBVIOUS
  <1> DEFINE req == Request(IF Reading THEN "read" ELSE "write")
  <1>1. PICK x \in Outcomes :
          /\ Exchange(req, x)
          /\ resp' = IF Acked(AnswerOf(req, x)) \/ ~AnswerOf(req, x).got
                     THEN 0 ELSE AnswerOf(req, x).word
          /\ \/ Acked(AnswerOf(req, x)) /\ ~Saving /\ Ended(TRUE, AnswerOf(req, x).word)
             \/ ~AnswerOf(req, x).got /\ Again(AnswerOf(req, x).word)
             \/ /\ AnswerOf(req, x).got /\ (AnswerOf(req, x).nak \/ Saving)
                /\ pc' = IF AnswerOf(req, x).nak THEN "leave" ELSE "save"
                /\ UNCHANGED << paramOk, walk, attempt, ok, result, wanted >>
    BY DEF Ask
  <1>2. pc = "ask" /\ inFactory' = inFactory
    BY DEF Ask
  <1>3. req \in Requests
    BY <1>2, AskIsRequest
  <1> DEFINE a == AnswerOf(req, x)
  <1>4. PackTypes' /\ a.word \in Word
    BY <1>1, <1>3, ExchangeTypes
  <1> HIDE DEF req, a
  <1>5. CallStays
    BY <1>1, <1>2, <1>4, Sizes DEF CallStays, Exchange, a, Types, RestTypes
  <1>6. CallTypes' /\ WalkTypes' /\ RestTypes'
    <2>1. CASE Ended(TRUE, a.word)
      BY <1>2, <1>4, <1>5, <2>1, EndedTypes
    <2>2. CASE Again(a.word)
      BY <1>2, <1>4, <1>5, <2>2, AgainTypes
    <2>3. CASE /\ a.nak \/ Saving
               /\ pc' = IF a.nak THEN "leave" ELSE "save"
               /\ UNCHANGED << paramOk, walk, attempt, ok, result, wanted >>
      <3>1. pc' \in {"leave", "save"} /\ (pc' = "save" => call.op = "set")
        BY <2>3 DEF Saving
      <3>2. CallTypes'
        BY <1>2, <1>5, <3>1 DEF CallStays, Types, CallTypes
      <3>3. WalkTypes'
        BY <1>5, <2>3 DEF CallStays, Types, WalkTypes, walk
      <3> QED
        BY <1>5, <2>3, <3>2, <3>3 DEF CallStays, Types, RestTypes
    <2> QED
      BY <1>1, <2>1, <2>2, <2>3 DEF a
  <1> QED
    BY <1>4, <1>6 DEF Types

LEMMA EnterIsRequest == ToEnter \in Requests
  BY DEF Requests

LEMMA ExitIsRequest == ASSUME NEW save \in BOOLEAN PROVE ToExit(save) \in Requests
  BY DEF Requests

LEMMA EnterTypes ==
  ASSUME Types, NEW x \in Outcomes, EnterFactoryMode(x)
  PROVE  /\ PackTypes' /\ inFactory' \in BOOLEAN
         /\ UNCHANGED << call, was, calls >>
  <1>1. PackTypes'
    BY EnterIsRequest, ExchangeTypes DEF EnterFactoryMode
  <1> QED
    BY <1>1 DEF EnterFactoryMode, Exchange, Types, RestTypes, Acked

LEMMA ExitTypes ==
  ASSUME Types, NEW save \in BOOLEAN, NEW x \in Outcomes, ExitFactoryMode(save, x)
  PROVE  /\ PackTypes' /\ inFactory' \in BOOLEAN
         /\ UNCHANGED << call, was, calls >>
         /\ Acked(AnswerOf(ToExit(save), x)) \in BOOLEAN
  <1>1. PackTypes' /\ AnswerOf(ToExit(save), x) \in [got : BOOLEAN, nak : BOOLEAN, word : Word]
    BY ExitIsRequest, ExchangeTypes DEF ExitFactoryMode
  <1> QED
    BY <1>1 DEF ExitFactoryMode, Exchange, Types, RestTypes, Acked

LEMMA CallerTypes ==
  ASSUME Types, NEW op \in {"get", "set"} \cup Whole, NEW reg, NEW value, NEW save, NEW words,
         Call(op, reg, value, save, words),
         op \in {"get", "set"} => reg \in Registers /\ pc' \in {"ask", "enter"},
         op = "set" => value \in Values[reg],
         op \in Whole => pc' = "open",
         op = "set_params" => words \in Images,
         paramOk' \in BOOLEAN,
         wanted' = wanted \/ wanted' = [r \in Registers |-> {}]
  PROVE  Types'
  <1>1. /\ call' = [op |-> op, reg |-> reg, value |-> value, save |-> save, words |-> words]
        /\ phase' = "old" /\ i' = 1 /\ attempt' = 1 /\ ok' = FALSE
        /\ onTime' = TRUE /\ UNCHANGED << pack, resp, old, inFactory >>
    BY DEF Call
  <1>2. PackTypes'
    BY <1>1 DEF pack, Types, PackTypes
  <1>3. CallTypes'
    BY <1>1 DEF CallTypes, Whole
  <1>4. WalkTypes'
    <2>1. 1 \in 1 .. Len(Order) /\ 1 \in 1 .. Attempts
      BY Sizes
    <2> QED
      BY <1>1, <2>1 DEF Types, WalkTypes
  <1>5. RestTypes'
    <2>1. calls' \in 0 .. MaxCalls
      BY Sizes DEF Call, Types, RestTypes
    <2>2. was' \in [Registers -> Word]
      BY DEF Call, Types, PackTypes, RestTypes
    <2>3. wanted' \in [Registers -> SUBSET UNION {Values[r] : r \in Registers}]
      BY DEF Types, RestTypes
    <2> QED
      BY <1>1, <2>1, <2>2, <2>3 DEF Types, RestTypes
  <1> QED
    BY <1>2, <1>3, <1>4, <1>5 DEF Types

LEMMA CallTypesNext == Types /\ Caller => Types'
  <1> SUFFICES ASSUME Types, Caller
               PROVE  Types'
    OBVIOUS
  <1>0. paramOk \in BOOLEAN
    BY DEF Types, RestTypes
  <1>1. ASSUME NEW reg \in Registers, GetParam(reg)
        PROVE  Types'
    BY <1>0, <1>1, CallerTypes DEF GetParam, Whole
  <1>2. ASSUME NEW percent \in Percents, GetCapacityVoltage(percent)
        PROVE  Types'
    <2>1. CapacityVoltage(percent) \in Registers
      BY ParamsAssumption
    <2>2. paramOk' \in BOOLEAN /\ pc' \in {"ask", "enter"} /\ wanted' = wanted
      BY <1>0, <1>2 DEF GetCapacityVoltage
    <2> QED
      BY <1>2, <2>1, <2>2, CallerTypes DEF GetCapacityVoltage, Whole
  <1>3. ASSUME NEW reg \in Registers, NEW save \in BOOLEAN, NEW v \in Values[reg],
               SetParam(reg, v, save)
        PROVE  Types'
    BY <1>0, <1>3, CallerTypes DEF SetParam, Whole
  <1>4. CASE GetParams
    BY <1>0, <1>4, CallerTypes DEF GetParams, Whole
  <1>5. ASSUME NEW words \in Images, SetParams(words)
        PROVE  Types'
    BY <1>0, <1>5, CallerTypes DEF SetParams, Whole
  <1>6. CASE ClearErrors
    <2>1. PackTypes' /\ CallTypes'
      BY <1>6 DEF ClearErrors, pack, past, Types, PackTypes, CallTypes
    <2>2. WalkTypes' /\ RestTypes'
      BY <1>6 DEF ClearErrors, walk, past, Types, WalkTypes, RestTypes
    <2> QED
      BY <2>1, <2>2 DEF Types
  <1> QED
    BY <1>1, <1>2, <1>3, <1>4, <1>5, <1>6 DEF Caller

LEMMA OpenTypes == Types /\ Open => Types'
  <1> SUFFICES ASSUME Types, Open
               PROVE  Types'
    OBVIOUS
  <1> DEFINE ahead == { k \in 1 .. Len(Order) : Reading \/ call.words[k] # old[k] }
  <1>1. PICK x \in Outcomes : EnterFactoryMode(x)
    BY DEF Open
  <1>2. PackTypes' /\ inFactory' \in BOOLEAN /\ UNCHANGED << call, was, calls >>
    BY <1>1, EnterTypes
  <1>3. pc = "open" /\ UNCHANGED << paramOk, phase, old, resp, ok, result, wanted >>
    BY DEF Open
  <1>4. 1 \in 1 .. Attempts
    BY Sizes
  <1>5. CASE ahead = {}
    <2>1. pc' = "close" /\ i' = i /\ attempt' = attempt
      BY <1>5 DEF Open
    <2> QED
      BY <1>2, <1>3, <2>1 DEF Types, CallTypes, WalkTypes, RestTypes
  <1>6. CASE ahead # {}
    <2>1. i' \in ahead /\ Begin(1)
      BY <1>6 DEF Open
    <2>2. i' \in 1 .. Len(Order) /\ attempt' = 1 /\ pc' \in {"ask", "enter"}
      BY <2>1 DEF Begin
    <2> QED
      BY <1>2, <1>3, <1>4, <2>2 DEF Types, CallTypes, WalkTypes, RestTypes
  <1> QED
    BY <1>5, <1>6

LEMMA CloseTypes == Types /\ Close => Types'
  <1> SUFFICES ASSUME Types, Close
               PROVE  Types'
    OBVIOUS
  <1>1. Commits \in BOOLEAN
    BY DEF Commits, Types, RestTypes
  <1>2. PICK x \in Outcomes : ExitFactoryMode(Commits, x)
    BY DEF Close
  <1>3. PackTypes' /\ inFactory' \in BOOLEAN /\ UNCHANGED << call, was, calls >>
    BY <1>1, <1>2, ExitTypes
  <1>4. pc = "close" /\ UNCHANGED << paramOk, i, old, attempt, resp, result, wanted >>
    BY DEF Close
  <1>5. CASE call.op = "set_params" /\ phase = "old"
    <2>1. pc' = "open" /\ phase' = "new" /\ ok' = ok
      BY <1>5 DEF Close
    <2> QED
      BY <1>3, <1>4, <1>5, <2>1 DEF Types, CallTypes, WalkTypes, RestTypes
  <1>6. CASE ~(call.op = "set_params" /\ phase = "old")
    <2>1. pc' = "idle" /\ ok' = paramOk /\ phase' = phase
      BY <1>6 DEF Close
    <2> QED
      BY <1>3, <1>4, <2>1 DEF Types, CallTypes, WalkTypes, RestTypes
  <1> QED
    BY <1>5, <1>6

LEMMA TypesNext == Types /\ [Next]_vars => Types'
  <1> SUFFICES ASSUME Types, [Next]_vars
               PROVE  Types'
    OBVIOUS
  <1>1. CASE Enter
    <2>1. PICK x \in Outcomes : EnterFactoryMode(x)
      BY <1>1 DEF Enter
    <2>2. PackTypes' /\ inFactory' \in BOOLEAN /\ UNCHANGED << call, was, calls >>
      BY <2>1, EnterTypes
    <2>3. CallTypes' /\ WalkTypes' /\ RestTypes'
      BY <1>1, <2>2 DEF Enter, walk, Types, CallTypes, WalkTypes, RestTypes
    <2> QED
      BY <2>2, <2>3 DEF Types
  <1>2. CASE Save
    <2>1. PICK x \in Outcomes :
            ExitFactoryMode(TRUE, x) /\ Ended(Acked(AnswerOf(ToExit(TRUE), x)), 0)
      BY <1>2 DEF Save
    <2>2. /\ PackTypes' /\ inFactory' \in BOOLEAN /\ UNCHANGED << call, was, calls >>
          /\ Acked(AnswerOf(ToExit(TRUE), x)) \in BOOLEAN
      BY <2>1, ExitTypes
    <2>3. CallStays /\ pc = "save"
      BY <1>2, <2>2 DEF Save, CallStays, Types, RestTypes
    <2>4. CallTypes' /\ WalkTypes' /\ RestTypes'
      BY <2>1, <2>2, <2>3, Sizes, EndedTypes
    <2> QED
      BY <2>2, <2>4 DEF Types
  <1>3. CASE Leave
    <2>1. PICK x \in Outcomes : ExitFactoryMode(~Reading, x)
      BY <1>3 DEF Leave
    <2>2. PackTypes' /\ inFactory' \in BOOLEAN /\ UNCHANGED << call, was, calls >>
      BY <2>1, ExitTypes
    <2>3. CallTypes' /\ WalkTypes' /\ RestTypes'
      BY <1>3, <2>2 DEF Leave, walk, Types, CallTypes, WalkTypes, RestTypes
    <2> QED
      BY <2>2, <2>3 DEF Types
  <1>4. CASE Reenter
    <2>1. PICK x \in Outcomes : EnterFactoryMode(x)
      BY <1>4 DEF Reenter
    <2>2. PackTypes' /\ inFactory' \in BOOLEAN /\ UNCHANGED << call, was, calls >>
      BY <2>1, EnterTypes
    <2>3. CallStays /\ pc = "reenter" /\ resp \in Word
      BY <1>4, <2>2, Sizes DEF Reenter, CallStays, Types, RestTypes
    <2>4. CallTypes' /\ WalkTypes' /\ RestTypes'
      BY <1>4, <2>3, AgainTypes DEF Reenter
    <2> QED
      BY <2>2, <2>4 DEF Types
  <1>5. CASE Drain
    <2>1. air' \in Seq(Replies) /\ Len(air') <= MaxInFlight
      BY <1>5, Sizes DEF Drain, Types, PackTypes
    <2>2. PackTypes' /\ CallTypes'
      BY <1>5, <2>1 DEF Drain, past, Types, PackTypes, CallTypes
    <2>3. WalkTypes' /\ RestTypes'
      BY <1>5 DEF Drain, lib, walk, past, Types, WalkTypes, RestTypes
    <2> QED
      BY <2>2, <2>3 DEF Types
  <1>6. CASE LeavesFactory
    <2>1. PackTypes' /\ CallTypes'
      BY <1>6 DEF LeavesFactory, past, Types, PackTypes, CallTypes
    <2>2. WalkTypes' /\ RestTypes'
      BY <1>6 DEF LeavesFactory, lib, walk, past, Types, WalkTypes, RestTypes
    <2> QED
      BY <2>1, <2>2 DEF Types
  <1>7. CASE UNCHANGED vars
    <2>1. PackTypes' /\ CallTypes'
      BY <1>7 DEF vars, pack, past, Types, PackTypes, CallTypes
    <2>2. WalkTypes' /\ RestTypes'
      BY <1>7 DEF vars, lib, walk, past, Types, WalkTypes, RestTypes
    <2> QED
      BY <2>1, <2>2 DEF Types
  <1> QED
    BY <1>1, <1>2, <1>3, <1>4, <1>5, <1>6, <1>7, AskTypes, OpenTypes, CloseTypes,
       CallTypesNext DEF Next, Library

-----------------------------------------------------------------------------
(* What comes of an exchange, and in time.                                 *)

LEMMA ExchangeEffects ==
  ASSUME Types, NEW req \in Requests, NEW x \in Outcomes, Exchange(req, x)
  PROVE  /\ UNCHANGED << call, was, forgets >>
         /\ onTime' => onTime /\ air = << >>
         /\ req.op # "write" => ram' = ram
         /\ req.op = "write" => ram' = ram \/ ram' = [ram EXCEPT ![req.reg] = req.word]
         /\ req.op # "exit" \/ (forgets /\ ~req.save) => eeprom' = eeprom
  <1>1. UNCHANGED << call, was, forgets >> /\ (onTime' => onTime /\ air = << >>)
    BY DEF Exchange, Types, PackTypes
  <1>2. CASE x.way = "unheard"
    BY <1>1, <1>2 DEF Exchange
  <1>3. CASE x.way # "unheard"
    <2>1. Serve(req)
      BY <1>3 DEF Exchange
    <2> QED
      BY <1>1, <2>1 DEF Serve
  <1> QED
    BY <1>2, <1>3

(* Where nothing was left over, what ends the wait is the answer. *)
LEMMA OneAnswer ==
  ASSUME Types, air = << >>, NEW req \in Requests, NEW x \in Outcomes, Exchange(req, x),
         AnswerOf(req, x).got
  PROVE  /\ x.way = "answered" /\ Ends(Answer(req), req)
         /\ AnswerOf(req, x).nak <=> Answer(req).of = "refused"
         /\ Answer(req).of = "read" => AnswerOf(req, x).word = Answer(req).word
  <1> DEFINE came == Came(req, x)
             frames == SubSeq(came, 1, x.read)
  <1>1. came = IF x.way = "answered" THEN << Answer(req) >> ELSE << >>
    BY DEF Came
  <1>2. came \in Seq(Replies) /\ Len(came) \in {0, 1} /\ x.read \in Nat
    <2>1. came \in Seq(Replies)
      BY CameTypes
    <2>2. Len(came) \in {0, 1}
      <3> HIDE DEF came
      <3>1. Len(<< Answer(req) >>) = 1 /\ Len(<< >>) = 0
        OBVIOUS
      <3> QED
        BY <1>1, <3>1
    <2>3. x.read \in Nat
      BY Sizes DEF Outcomes
    <2> QED
      BY <2>1, <2>2, <2>3
  <1>3. x.read <= Len(came)
    BY <1>2, Sizes DEF Exchange
  <1> HIDE DEF came
  <1>4. /\ Len(frames) = x.read
        /\ \A n \in 1 .. x.read : frames[n] = came[n]
    BY <1>2, <1>3, SubSeqProperties
  <1> HIDE DEF frames
  <1>5. Answered(frames, req).got
    BY DEF AnswerOf, frames, came
  <1>6. PICK n \in 1 .. Len(frames) : Ends(frames[n], req)
    BY <1>5 DEF Answered
  <1>7. x.read = 1 /\ Len(came) = 1 /\ n = 1
    BY <1>2, <1>3, <1>4, <1>6
  <1>8. x.way = "answered" /\ came[1] = Answer(req)
    BY <1>1, <1>7
  <1>9. Len(frames) = 1 /\ frames[1] = Answer(req)
    BY <1>4, <1>7, <1>8
  <1>10. Ends(Answer(req), req)
    BY <1>6, <1>7, <1>9
  <1>11. Answered(frames, req).nak <=> Answer(req).of = "refused"
    <2>1. frames # << >>
      BY <1>9
    <2> QED
      BY <1>9, <2>1 DEF Answered
  <1>12. ASSUME Answer(req).of = "read"
         PROVE  Answered(frames, req).word = Answer(req).word
    <2> DEFINE last == { k \in 1 .. Len(frames) : LastRead(frames, k) }
    <2>1. last = {1}
      BY <1>9, <1>12 DEF LastRead
    <2>2. (CHOOSE k \in last : TRUE) = 1
      BY <2>1
    <2>3. Answered(frames, req).word = frames[CHOOSE k \in last : TRUE].word
      BY <2>1 DEF Answered
    <2> HIDE DEF last
    <2> QED
      BY <1>9, <2>2, <2>3
  <1> QED
    BY <1>8, <1>10, <1>11, <1>12 DEF AnswerOf, frames, came

(* So that an attempt that is answered is not refused, and has read, or    *)
(* written, the register it is about.                                      *)
LEMMA InTime ==
  ASSUME Types, pc = "ask", NEW x \in Outcomes,
         NEW req, req = Request(IF Reading THEN "read" ELSE "write"),
         Exchange(req, x), onTime', AnswerOf(req, x).got
  PROVE  /\ ~AnswerOf(req, x).nak
         /\ Reading => AnswerOf(req, x).word = ram[Reg]
         /\ ~Reading => ram' = [ram EXCEPT ![Reg] = NewWord]
  <1>1. req \in Requests /\ req.op = (IF Reading THEN "read" ELSE "write") /\ req.reg = Reg
        /\ (~Reading => req.word = NewWord)
    BY AskIsRequest DEF Request
  <1>2. air = << >>
    BY <1>1, ExchangeEffects
  <1>3. /\ x.way = "answered" /\ Ends(Answer(req), req)
        /\ AnswerOf(req, x).nak <=> Answer(req).of = "refused"
        /\ Answer(req).of = "read" => AnswerOf(req, x).word = Answer(req).word
    BY <1>1, <1>2, OneAnswer
  <1>4. Answer(req).of \in {"read", "write"}
    BY <1>1, <1>3 DEF Ends
  <1>5. open /\ Answer(req).of = req.op
    BY <1>1, <1>4 DEF Answer, Accepted
  <1>6. Reading => Answer(req).word = ram[Reg]
    BY <1>1 DEF Answer
  <1>7. ~Reading => ram' = [ram EXCEPT ![Reg] = NewWord]
    BY <1>1, <1>3, <1>5 DEF Exchange, Serve
  <1> QED
    BY <1>1, <1>3, <1>4, <1>5, <1>6, <1>7

(* Nothing but a set_params() goes on to another register of an image. *)
LEMMA EndedGoes ==
  ASSUME NEW success, NEW word, Ended(success, word)
  PROVE  pc' \in {"idle", "close", "ask", "enter"}
  BY DEF Ended, ReadEnds, WriteEnds, Return, Onwards, Begin

(* What one attempt at a register comes to when it is in time: it has gone *)
(* well, it is made again, it has failed for good, or it is to be saved.   *)
LEMMA AskInTime ==
  ASSUME Types, Ask, onTime'
  PROVE  /\ onTime /\ call' = call /\ was' = was /\ forgets' = forgets
         /\ eeprom' = eeprom
         /\ Reading => ram' = ram
         /\ ~Reading => ram' = ram \/ ram' = [ram EXCEPT ![Reg] = NewWord]
         /\ \/ /\ ~Saving
               /\ \E word : Ended(TRUE, word) /\ (Reading => word = ram[Reg])
               /\ ~Reading => ram' = [ram EXCEPT ![Reg] = NewWord]
            \/ /\ pc' \in Asking
               /\ UNCHANGED << paramOk, walk, ok, result, wanted >>
            \/ \E word : Ended(FALSE, word)
            \/ /\ Saving /\ pc' = "save"
               /\ ram' = [ram EXCEPT ![Reg] = NewWord]
               /\ UNCHANGED << paramOk, walk, ok, result, wanted >>
  <1> DEFINE req == Request(IF Reading THEN "read" ELSE "write")
  <1>1. PICK x \in Outcomes :
          /\ Exchange(req, x)
          /\ \/ Acked(AnswerOf(req, x)) /\ ~Saving /\ Ended(TRUE, AnswerOf(req, x).word)
             \/ ~AnswerOf(req, x).got /\ Again(AnswerOf(req, x).word)
             \/ /\ AnswerOf(req, x).got /\ (AnswerOf(req, x).nak \/ Saving)
                /\ pc' = IF AnswerOf(req, x).nak THEN "leave" ELSE "save"
                /\ UNCHANGED << paramOk, walk, attempt, ok, result, wanted >>
    BY DEF Ask
  <1>2. pc = "ask"
    BY DEF Ask
  <1>3. req \in Requests /\ req.op = (IF Reading THEN "read" ELSE "write") /\ req.reg = Reg
        /\ (~Reading => req.word = NewWord)
    BY <1>2, AskIsRequest DEF Request
  <1> DEFINE a == AnswerOf(req, x)
  <1>4. a.got => /\ ~a.nak /\ (Reading => a.word = ram[Reg])
                 /\ ~Reading => ram' = [ram EXCEPT ![Reg] = NewWord]
    BY <1>1, <1>2, InTime
  <1> HIDE DEF req, a
  <1>5. /\ onTime /\ call' = call /\ was' = was /\ forgets' = forgets
        /\ eeprom' = eeprom
        /\ Reading => ram' = ram
        /\ ~Reading => ram' = ram \/ ram' = [ram EXCEPT ![Reg] = NewWord]
    BY <1>1, <1>3, ExchangeEffects
  <1>6. Saving => ~Reading
    BY DEF Saving, Reading, Whole
  <1>7. CASE Acked(a) /\ ~Saving /\ Ended(TRUE, a.word)
    BY <1>4, <1>5, <1>7 DEF Acked
  <1>8. CASE Again(a.word)
    BY <1>5, <1>8 DEF Again, Asking
  <1>9. CASE /\ a.got /\ (a.nak \/ Saving)
             /\ pc' = IF a.nak THEN "leave" ELSE "save"
             /\ UNCHANGED << paramOk, walk, attempt, ok, result, wanted >>
    BY <1>4, <1>5, <1>6, <1>9
  <1> QED
    BY <1>1, <1>7, <1>8, <1>9 DEF a

LEMMA UnrefusedNext == Types /\ Unrefused /\ [Next]_vars => Unrefused'
  <1> SUFFICES ASSUME Types, Unrefused, [Next]_vars, onTime'
               PROVE  pc' \notin {"leave", "reenter"}
    BY DEF Unrefused
  <1>1. CASE Ask
    BY <1>1, AskInTime, EndedGoes DEF Asking
  <1>2. CASE Save
    BY <1>2, EndedGoes DEF Save
  <1>3. CASE Leave \/ Reenter
    <2>1. onTime
      BY <1>3, EnterIsRequest, ExitIsRequest, ExchangeEffects
         DEF Leave, Reenter, EnterFactoryMode, ExitFactoryMode, Reading
    <2> QED
      BY <1>3, <2>1 DEF Leave, Reenter, Unrefused
  <1>4. CASE Enter \/ Open \/ Close
    BY <1>4 DEF Enter, Open, Close, Begin
  <1>5. CASE Caller
    BY <1>5 DEF Caller, GetParam, GetCapacityVoltage, SetParam, GetParams, SetParams,
                ClearErrors
  <1>6. CASE Drain \/ LeavesFactory \/ UNCHANGED vars
    BY <1>6 DEF Drain, LeavesFactory, vars, past, Unrefused
  <1> QED
    BY <1>1, <1>2, <1>3, <1>4, <1>5, <1>6 DEF Next, Library

-----------------------------------------------------------------------------
(* An image is written whole or not at all.                                *)

InForce(k) ==
  /\ phase = "old" /\ (pc = "close" \/ (pc \in Asking /\ k < i)) => Copied(k)
  /\ phase = "new" /\ (pc = "open" \/ (pc \in Asking /\ k > i)) => Copied(k)
  /\ phase = "new" /\ (pc = "close" \/ (pc \in Asking /\ k < i)) => Placed(k)

(* The attempt that reads a register goes on to the next one of the image. *)
LEMMA CopiedOnwards ==
  ASSUME Types, ImageSoFar, call.op = "set_params", onTime, forgets,
         Reading, pc = "ask", call' = call, ram' = ram, paramOk',
         Ended(TRUE, ram[Reg]), NEW k \in 1 .. Len(Order)
  PROVE  InForce(k)'
  <1>1. phase = "old" /\ Reg = Order[i] /\ i \in 1 .. Len(Order) /\ old \in [1 .. Len(Order) -> Word]
    BY DEF Reading, Whole, Reg, Types, WalkTypes
  <1>2. /\ paramOk' = (paramOk /\ TRUE) /\ old' = [old EXCEPT ![i] = ram[Order[i]]]
        /\ Onwards(old')
    BY <1>1 DEF Ended, ReadEnds
  <1>3. paramOk
    BY <1>2 DEF Types, RestTypes
  <1>4. k < i => Copied(k)
    BY <1>1, <1>3 DEF ImageSoFar, Asking
  <1>5. k <= i => Copied(k)'
    BY <1>1, <1>2, <1>4 DEF Copied
  <1> DEFINE ahead == { l \in i + 1 .. Len(Order) : Reading \/ call.words[l] # old'[l] }
  <1>6. ahead = i + 1 .. Len(Order)
    OBVIOUS
  <1>7. CASE ahead = {}
    <2>1. pc' = "close" /\ phase' = "old"
      BY <1>1, <1>2, <1>7 DEF Onwards
    <2>2. k <= i
      BY <1>1, <1>6, <1>7, Sizes
    <2> QED
      BY <1>5, <2>1, <2>2 DEF InForce, Asking
  <1>8. CASE ahead # {}
    <2>1. i' \in ahead /\ (\A l \in ahead : i' <= l) /\ phase' = "old" /\ pc' \in Asking
      BY <1>1, <1>2, <1>8 DEF Onwards, Begin, Asking
    <2>2. k < i' => k <= i
      BY <1>1, <1>6, <2>1, Sizes
    <2> QED
      BY <1>5, <2>1, <2>2 DEF InForce, Asking
  <1> QED
    BY <1>7, <1>8

(* The one that writes it goes on to the next one that differs. *)
LEMMA PlacedOnwards ==
  ASSUME Types, ImageSoFar, call.op = "set_params", onTime, forgets,
         ~Reading, pc = "ask", call' = call, ram' = [ram EXCEPT ![Reg] = NewWord],
         paramOk', NEW word, Ended(TRUE, word), NEW k \in 1 .. Len(Order)
  PROVE  InForce(k)'
  <1>1. phase = "new" /\ Reg = Order[i] /\ NewWord = call.words[i] /\ i \in 1 .. Len(Order)
    BY DEF Reading, Whole, Reg, NewWord, Types, WalkTypes
  <1>2. paramOk' = (paramOk /\ TRUE) /\ old' = old /\ Onwards(old)
    BY DEF Ended, WriteEnds
  <1>3. paramOk
    BY <1>2 DEF Types, RestTypes
  <1>4. (k < i => Placed(k)) /\ (k > i => Copied(k))
    BY <1>1, <1>3 DEF ImageSoFar, Asking
  <1>5. ram' = [ram EXCEPT ![Order[i]] = call.words[i]] /\ ram \in [Registers -> Word]
    BY <1>1 DEF Types, PackTypes
  <1>6. Order[k] \in Registers /\ Order[i] \in Registers /\ (Order[k] = Order[i] => k = i)
    BY <1>1, Sizes, ParamsAssumption
  <1>7. k = i => Placed(k)'
    BY <1>5, <1>6 DEF Placed
  <1>8. (k < i => Placed(k)') /\ (k > i => Copied(k)')
    BY <1>1, <1>2, <1>4, <1>5, <1>6 DEF Placed, Copied
  <1> DEFINE ahead == { l \in i + 1 .. Len(Order) : Reading \/ call.words[l] # old[l] }
  <1>9. ASSUME k > i, k \notin ahead
        PROVE  Placed(k)'
    <2>1. call.words[k] = old[k]
      BY <1>1, <1>9, Sizes
    <2> QED
      BY <1>2, <1>8, <1>9, <2>1 DEF Placed, Copied
  <1>10. CASE ahead = {}
    <2>1. pc' = "close" /\ phase' = "new"
      BY <1>1, <1>2, <1>10 DEF Onwards
    <2>2. Placed(k)'
      BY <1>1, <1>7, <1>8, <1>9, <1>10
    <2> QED
      BY <2>1, <2>2 DEF InForce, Asking
  <1>11. CASE ahead # {}
    <2>1. i' \in ahead /\ (\A l \in ahead : i' <= l) /\ phase' = "new" /\ pc' \in Asking
      BY <1>1, <1>2, <1>11 DEF Onwards, Begin, Asking
    <2>2. i' \in Nat /\ i' > i
      BY <1>1, <2>1, Sizes
    <2>3. k > i' => Copied(k)'
      BY <1>1, <1>8, <2>2
    <2>4. k < i' => Placed(k)'
      <3>1. k < i' => k \notin ahead
        BY <2>1, <2>2
      <3> QED
        BY <1>1, <1>7, <1>8, <1>9, <3>1
    <2> QED
      BY <2>1, <2>3, <2>4 DEF InForce, Asking
  <1> QED
    BY <1>10, <1>11

LEMMA ImageAsks ==
  ASSUME Types, ImageSoFar, Ask, call.op = "set_params", onTime', forgets'
  PROVE  ImageSoFar'
  <1>1. onTime /\ forgets /\ call' = call /\ eeprom' = eeprom /\ was' = was /\ pc = "ask"
    BY AskInTime DEF Ask
  <1>2. eeprom' = was'
    BY <1>1 DEF ImageSoFar
  <1>3. SUFFICES ASSUME paramOk', NEW k \in 1 .. Len(Order)
                 PROVE  InForce(k)'
    BY <1>2, <1>3 DEF ImageSoFar, InForce
  <1>4. CASE \E word : Ended(FALSE, word)
    BY <1>3, <1>4 DEF Ended, ReadEnds, WriteEnds
  <1>5. CASE pc' \in Asking /\ UNCHANGED << paramOk, walk, ok, result, wanted >>
    <2>1. i' = i /\ old' = old /\ phase' = phase /\ paramOk
      BY <1>3, <1>5 DEF walk
    <2>2. /\ phase = "old" /\ k < i => Copied(k)
          /\ phase = "new" /\ k > i => Copied(k)
          /\ phase = "new" /\ k < i => Placed(k)
      BY <1>1, <2>1 DEF ImageSoFar, Asking
    <2>3. k # i => ram'[Order[k]] = ram[Order[k]]
      <3>1. Reg = Order[i] /\ i \in 1 .. Len(Order) /\ ram \in [Registers -> Word]
        BY DEF Reg, Whole, Types, WalkTypes, PackTypes
      <3>2. k # i => Order[k] # Order[i]
        BY <3>1, ParamsAssumption
      <3>3. Order[k] \in Registers
        BY Sizes
      <3>4. ram' = ram \/ ram' = [ram EXCEPT ![Order[i]] = NewWord]
        BY <3>1, AskInTime
      <3> QED
        BY <3>1, <3>2, <3>3, <3>4
    <2>4. i \in Nat /\ k \in Nat
      BY Sizes DEF Types, WalkTypes
    <2> QED
      BY <1>1, <1>5, <2>1, <2>2, <2>3, <2>4 DEF InForce, Copied, Placed, Asking
  <1>6. ASSUME NEW word, Ended(TRUE, word), Reading => word = ram[Reg],
               ~Reading => ram' = [ram EXCEPT ![Reg] = NewWord]
        PROVE  InForce(k)'
    <2>1. CASE Reading
      BY <1>1, <1>3, <1>6, <2>1, AskInTime, CopiedOnwards
    <2>2. CASE ~Reading
      BY <1>1, <1>3, <1>6, <2>2, PlacedOnwards
    <2> QED
      BY <2>1, <2>2
  <1>7. ~Saving
    BY DEF Saving
  <1> QED
    BY <1>4, <1>5, <1>6, <1>7, AskInTime

LEMMA ImageOpens ==
  ASSUME Types, ImageSoFar, Open, call.op = "set_params", onTime', forgets'
  PROVE  ImageSoFar'
  <1>1. PICK x \in Outcomes : Exchange(ToEnter, x)
    BY DEF Open, EnterFactoryMode
  <1>2. /\ onTime /\ forgets /\ call' = call /\ was' = was
        /\ eeprom' = eeprom /\ ram' = ram
    BY <1>1, EnterIsRequest, ExchangeEffects DEF ToEnter
  <1>3. pc = "open" /\ UNCHANGED << paramOk, phase, old >>
    BY DEF Open
  <1>4. eeprom' = was'
    BY <1>2, <1>3 DEF ImageSoFar
  <1>5. SUFFICES ASSUME paramOk', NEW k \in 1 .. Len(Order)
                 PROVE  InForce(k)'
    BY <1>4, <1>5 DEF ImageSoFar, InForce
  <1>6. phase \in {"old", "new"} /\ (phase = "new" => Copied(k)')
    BY <1>2, <1>3, <1>5 DEF ImageSoFar, Types, WalkTypes, Copied
  <1>7. Reading <=> phase = "old"
    BY DEF Reading, Whole
  <1> DEFINE ahead == { l \in 1 .. Len(Order) : Reading \/ call.words[l] # old[l] }
  <1>8. k \notin ahead => phase = "new" /\ call.words[k] = old[k]
    BY <1>6, <1>7
  <1>9. k \notin ahead => Placed(k)'
    BY <1>2, <1>3, <1>6, <1>8 DEF Copied, Placed
  <1>10. CASE ahead = {}
    <2>1. pc' = "close"
      BY <1>10 DEF Open
    <2> QED
      BY <1>3, <1>8, <1>9, <1>10, <2>1 DEF InForce, Asking
  <1>11. CASE ahead # {}
    <2>1. i' \in ahead /\ (\A l \in ahead : i' <= l) /\ pc' \in Asking
      BY <1>11 DEF Open, Begin, Asking
    <2>2. i' \in Nat /\ k \in Nat
      BY <2>1, Sizes
    <2>3. k < i' => k \notin ahead
      BY <2>1, <2>2
    <2> QED
      BY <1>3, <1>6, <1>8, <1>9, <2>1, <2>3 DEF InForce, Asking
  <1> QED
    BY <1>10, <1>11

LEMMA CloseEffects ==
  ASSUME Types, Close, onTime', forgets'
  PROVE  /\ onTime /\ forgets /\ ram' = ram
         /\ UNCHANGED << call, was, paramOk, old, wanted, result >>
         /\ ~Commits => eeprom' = eeprom
         /\ Commits => eeprom' \in {eeprom, ram}
  <1>1. Commits \in BOOLEAN
    BY DEF Commits, Types, RestTypes
  <1>2. PICK x \in Outcomes : Exchange(ToExit(Commits), x)
    BY DEF Close, ExitFactoryMode
  <1>3. ToExit(Commits).op = "exit" /\ ToExit(Commits).save = Commits
    BY DEF ToExit
  <1>4. /\ onTime /\ forgets /\ ram' = ram /\ UNCHANGED << call, was >>
        /\ ~Commits => eeprom' = eeprom
    BY <1>1, <1>2, <1>3, ExitIsRequest, ExchangeEffects
  <1>5. eeprom' \in {eeprom, ram}
    BY <1>2 DEF Exchange, Serve
  <1> QED
    BY <1>4, <1>5 DEF Close

LEMMA ImageNext == Types /\ Unrefused /\ ImageSoFar /\ [Next]_vars => ImageSoFar'
  <1> SUFFICES ASSUME Types, Unrefused, ImageSoFar, [Next]_vars,
                      call'.op = "set_params", pc' # "idle", onTime', forgets'
               PROVE  ImageSoFar'
    BY DEF ImageSoFar
  <1>1. CASE Ask
    BY <1>1, ImageAsks, AskInTime
  <1>2. CASE Open
    <2>1. call' = call
      BY <1>2, EnterTypes DEF Open
    <2> QED
      BY <1>2, <2>1, ImageOpens
  <1>3. CASE Close
    <2>1. pc = "close" /\ phase = "old" /\ call.op = "set_params"
          /\ pc' = "open" /\ phase' = "new" /\ ~Commits
      BY <1>3, CloseEffects DEF Close, Commits
    <2>2. /\ onTime /\ forgets /\ ram' = ram /\ eeprom' = eeprom
          /\ UNCHANGED << call, was, paramOk, old >>
      BY <1>3, <2>1, CloseEffects
    <2> QED
      BY <2>1, <2>2 DEF ImageSoFar, Copied, Asking
  <1>4. CASE Enter
    <2>1. PICK x \in Outcomes : Exchange(ToEnter, x)
      BY <1>4 DEF Enter, EnterFactoryMode
    <2>2. /\ onTime /\ forgets /\ call' = call /\ was' = was
          /\ eeprom' = eeprom /\ ram' = ram
      BY <2>1, EnterIsRequest, ExchangeEffects DEF ToEnter
    <2>3. pc = "enter" /\ pc' = "ask" /\ UNCHANGED << paramOk, phase, i, old >>
      BY <1>4 DEF Enter, walk
    <2> QED
      BY <2>2, <2>3 DEF ImageSoFar, Copied, Placed, Asking
  <1>5. CASE Save
    <2>1. call' = call /\ call.op = "set"
      BY <1>5, ExitTypes DEF Save, Types, CallTypes
    <2> QED
      BY <2>1
  <1>6. CASE Leave \/ Reenter
    <2>1. onTime
      BY <1>6, EnterIsRequest, ExitIsRequest, ExchangeEffects
         DEF Leave, Reenter, EnterFactoryMode, ExitFactoryMode, Reading
    <2> QED
      BY <1>6, <2>1 DEF Leave, Reenter, Unrefused
  <1>7. CASE Caller
    <2>1. PICK words \in Images : SetParams(words)
      BY <1>7 DEF Caller, GetParam, GetCapacityVoltage, SetParam, GetParams,
                  ClearErrors, Call
    <2>2. pc' = "open" /\ phase' = "old" /\ eeprom' = was'
      BY <2>1 DEF SetParams, Call, pack
    <2> QED
      BY <2>2 DEF ImageSoFar, Asking
  <1>8. CASE Drain
    BY <1>8 DEF Drain
  <1>9. CASE LeavesFactory \/ UNCHANGED vars
    <2>1. UNCHANGED << pc, call, onTime, forgets, eeprom, ram, was, paramOk, phase, i, old >>
      BY <1>9 DEF LeavesFactory, vars, pack, lib, walk, past
    <2> QED
      BY <2>1 DEF ImageSoFar, Copied, Placed
  <1> QED
    BY <1>1, <1>2, <1>3, <1>4, <1>5, <1>6, <1>7, <1>8, <1>9 DEF Next, Library

(* A step between calls that is no call. *)
Between ==
  /\ pc = "idle"
  /\ UNCHANGED << pc, call, onTime, forgets, eeprom, ram, was, ok, result, wanted >>

LEMMA IdleSteps ==
  ASSUME pc = "idle", [Next]_vars, pc' = "idle"
  PROVE  Between
  <1>1. CASE Library
    BY <1>1 DEF Library, Enter, Ask, Save, Leave, Reenter, Open, Close
  <1>2. CASE Caller
    <2>1. ClearErrors
      BY <1>2 DEF Caller, GetParam, GetCapacityVoltage, SetParam, GetParams, SetParams
    <2> QED
      BY <2>1 DEF ClearErrors, Between, pack, past
  <1>3. CASE Drain \/ LeavesFactory
    BY <1>3 DEF Drain, LeavesFactory, Between, past
  <1>4. CASE UNCHANGED vars
    BY <1>4 DEF vars, Between, pack, past
  <1> QED
    BY <1>1, <1>2, <1>3, <1>4 DEF Next

(* A step a call returns by: with the register it is about, or the image.  *)
LEMMA ReturnSteps ==
  ASSUME Types, Unrefused, pc # "idle", [Next]_vars, pc' = "idle", onTime'
  PROVE  Close \/ Ask \/ Save
  <1>1. CASE Leave \/ Reenter
    <2>1. onTime
      BY <1>1, EnterIsRequest, ExitIsRequest, ExchangeEffects
         DEF Leave, Reenter, EnterFactoryMode, ExitFactoryMode, Reading
    <2> QED
      BY <1>1, <2>1 DEF Leave, Reenter, Unrefused
  <1>2. CASE Enter \/ Open
    BY <1>2 DEF Enter, Open, Begin
  <1>3. CASE Caller
    BY <1>3 DEF Caller, GetParam, GetCapacityVoltage, SetParam, GetParams, SetParams,
                ClearErrors, Call
  <1>4. CASE Drain \/ LeavesFactory \/ UNCHANGED vars
    BY <1>4 DEF Drain, LeavesFactory, vars
  <1> QED
    BY <1>1, <1>2, <1>3, <1>4 DEF Next, Library

LEMMA WholeNext ==
  Types /\ Unrefused /\ ImageSoFar /\ SetIsWhole /\ [Next]_vars => SetIsWhole'
  <1> SUFFICES ASSUME Types, Unrefused, ImageSoFar, SetIsWhole, [Next]_vars,
                      pc' = "idle", call'.op = "set_params", onTime', forgets'
               PROVE  \/ eeprom' = was'
                      \/ ok' /\ \A k \in 1 .. Len(Order) : eeprom'[Order[k]] = call'.words[k]
    BY DEF SetIsWhole
  <1>1. CASE pc = "idle"
    BY <1>1, IdleSteps DEF Between, SetIsWhole
  <1>2. CASE pc # "idle" /\ Close
    <2>1. /\ onTime /\ forgets /\ UNCHANGED << call, was >>
          /\ ~Commits => eeprom' = eeprom
          /\ Commits => eeprom' \in {eeprom, ram}
      BY <1>2, CloseEffects
    <2>2. pc = "close" /\ eeprom = was /\ ok' = paramOk
      BY <1>2, <2>1 DEF Close, ImageSoFar
    <2>3. ASSUME Commits, NEW k \in 1 .. Len(Order)
          PROVE  ram[Order[k]] = call.words[k] /\ ok'
      BY <2>1, <2>2, <2>3 DEF Commits, ImageSoFar, Placed
    <2>4. Commits => ok'
      BY <2>2 DEF Commits
    <2> QED
      BY <2>1, <2>2, <2>3, <2>4
  <1>3. CASE Ask
    <2>1. call.op = "set_params"
      BY <1>3, AskInTime
    <2>2. ASSUME NEW success, NEW word, Ended(success, word)
          PROVE  FALSE
      BY <2>1, <2>2 DEF Ended, ReadEnds, WriteEnds, Onwards, Begin
    <2> QED
      BY <1>3, <2>2, AskInTime DEF Asking
  <1>4. CASE Save
    BY <1>4, ExitTypes DEF Save, Types, CallTypes
  <1> QED
    BY <1>1, <1>2, <1>3, <1>4, ReturnSteps

-----------------------------------------------------------------------------
(* What was set is read.                                                   *)

LEMMA WantedStays ==
  ASSUME Types, pc \in {"ask", "save", "reenter"}, call.op # "set",
         NEW success, NEW word, Ended(success, word)
  PROVE  wanted' = wanted
  <1>1. ~Reading => call.op = "set_params"
    BY DEF Reading, Types, CallTypes, WalkTypes, Whole
  <1> QED
    BY <1>1 DEF Ended, ReadEnds, WriteEnds

(* A step that touches no register, and ends no call that sets one. *)
LEMMA KeptStays ==
  ASSUME Types, Kept, wanted' = wanted, call' = call, pc # "idle",
         pc' # "save", pc' = "idle" => call.op # "set",
         ram' = ram
  PROVE  Kept'
  <1>1. \A reg \in Registers : \A v \in wanted'[reg] :
          ~Setting(reg)' => ram'[reg] = Set(reg, v)
    BY DEF Kept, Setting
  <1> QED
    BY <1>1 DEF Kept

(* A call that sets a register returns. *)
LEMMA SetReturns ==
  ASSUME Types, Kept, call.op = "set", call' = call, pc # "idle",
         NEW success, NEW word, Ended(success, word),
         \A reg \in Registers : reg # call.reg => ram'[reg] = ram[reg],
         onTime' /\ success = TRUE => ram'[call.reg] = Set(call.reg, call.value),
         success \in BOOLEAN
  PROVE  Kept'
  <1>1. ~Reading /\ Reg = call.reg /\ call.reg \in Registers
    BY DEF Reading, Reg, Whole, Types, CallTypes
  <1>2. /\ pc' = "idle" /\ paramOk' = (paramOk /\ success) /\ ok' = paramOk'
        /\ wanted' = [wanted EXCEPT ![call.reg] =
                        IF ok' /\ onTime' THEN {call.value} ELSE {}]
    BY <1>1 DEF Ended, WriteEnds, Return
  <1>3. ASSUME NEW reg \in Registers, NEW v \in wanted'[reg]
        PROVE  ram'[reg] = Set(reg, v)
    <2>1. CASE reg = call.reg
      <3>1. ok' /\ onTime' /\ v = call.value
        BY <1>1, <1>2, <1>3, <2>1 DEF Types, RestTypes
      <3>2. success = TRUE
        BY <1>2, <3>1 DEF Types, RestTypes
      <3> QED
        BY <1>3, <2>1, <3>1, <3>2
    <2>2. CASE reg # call.reg
      <3>1. v \in wanted[reg]
        BY <1>2, <1>3, <2>2 DEF Types, RestTypes
      <3>2. ~Setting(reg)
        BY <2>2 DEF Setting
      <3> QED
        BY <1>3, <2>2, <3>1, <3>2 DEF Kept
    <2> QED
      BY <2>1, <2>2
  <1> QED
    BY <1>2, <1>3 DEF Kept

(* What an attempt does to the registers, in time or not. *)
LEMMA AskEffects ==
  ASSUME Types, Ask
  PROVE  /\ pc = "ask" /\ call' = call
         /\ Reading => ram' = ram
         /\ \A reg \in Registers : reg # Reg => ram'[reg] = ram[reg]
         /\ ~Saving => pc' # "save"
         /\ \/ \E success \in BOOLEAN : \E word : Ended(success, word)
            \/ wanted' = wanted /\ pc' # "idle"
  <1> DEFINE req == Request(IF Reading THEN "read" ELSE "write")
  <1>1. /\ req \in Requests /\ pc = "ask" /\ req.reg = Reg
        /\ req.op = (IF Reading THEN "read" ELSE "write")
    BY AskIsRequest DEF Ask, Request
  <1>2. PICK x \in Outcomes :
          /\ Exchange(req, x)
          /\ \/ Acked(AnswerOf(req, x)) /\ ~Saving /\ Ended(TRUE, AnswerOf(req, x).word)
             \/ ~AnswerOf(req, x).got /\ Again(AnswerOf(req, x).word)
             \/ /\ AnswerOf(req, x).got /\ (AnswerOf(req, x).nak \/ Saving)
                /\ pc' = IF AnswerOf(req, x).nak THEN "leave" ELSE "save"
                /\ UNCHANGED << paramOk, walk, attempt, ok, result, wanted >>
    BY DEF Ask
  <1> HIDE DEF req
  <1>3. /\ call' = call /\ (Reading => ram' = ram)
        /\ ram' = ram \/ ram' = [ram EXCEPT ![Reg] = req.word]
    BY <1>1, <1>2, ExchangeEffects
  <1>4. \A reg \in Registers : reg # Reg => ram'[reg] = ram[reg]
    BY <1>3 DEF Types, PackTypes
  <1>5. ~Saving => pc' # "save"
    BY <1>2, EndedGoes DEF Again
  <1>6. \/ \E success \in BOOLEAN : \E word : Ended(success, word)
        \/ wanted' = wanted /\ pc' # "idle"
    BY <1>2 DEF Again
  <1> QED
    BY <1>1, <1>3, <1>4, <1>5, <1>6

LEMMA KeptAsks ==
  ASSUME Types, Kept, Ask
  PROVE  Kept'
  <1>1. pc = "ask" /\ call' = call
    BY AskEffects
  <1>2. CASE call.op # "set"
    <2>1. wanted' = wanted
      BY <1>1, <1>2, WantedStays, AskEffects
    <2>2. pc' # "save"
      BY <1>2, AskEffects DEF Saving
    <2>3. CASE Reading
      BY <1>1, <1>2, <2>1, <2>2, <2>3, AskEffects, KeptStays
    <2>4. CASE ~Reading
      <3>1. call.op = "set_params"
        BY <1>1, <1>2, <2>4 DEF Reading, Types, CallTypes, WalkTypes, Whole
      <3>2. \A reg \in Registers : wanted'[reg] = {}
        BY <1>1, <2>1, <3>1 DEF Kept
      <3> QED
        BY <2>2, <3>2 DEF Kept
    <2> QED
      BY <2>3, <2>4
  <1>3. ASSUME call.op = "set"
        PROVE  /\ ~Reading /\ Reg = call.reg /\ NewWord = Set(call.reg, call.value)
               /\ call.reg \in Registers /\ ram \in [Registers -> Word]
               /\ \A reg \in Registers : reg # call.reg => ram'[reg] = ram[reg]
    <2>1. /\ ~Reading /\ Reg = call.reg /\ NewWord = Set(call.reg, call.value)
          /\ call.reg \in Registers /\ ram \in [Registers -> Word]
      BY <1>3 DEF Reading, Reg, NewWord, Whole, Types, PackTypes, CallTypes
    <2> QED
      BY <2>1, AskEffects
  <1>4. CASE call.op = "set" /\ onTime'
    <2>1. /\ ~Reading /\ Reg = call.reg /\ NewWord = Set(call.reg, call.value)
          /\ call.reg \in Registers /\ ram \in [Registers -> Word]
      BY <1>3, <1>4
    <2>2. \A reg \in Registers : reg # call.reg => ram'[reg] = ram[reg]
      BY <1>3, <1>4
    <2>3. ASSUME NEW word, Ended(TRUE, word), ram' = [ram EXCEPT ![Reg] = NewWord]
          PROVE  Kept'
      <3>1. ram'[call.reg] = Set(call.reg, call.value)
        BY <2>1, <2>3
      <3> QED
        BY <1>1, <1>4, <2>2, <2>3, <3>1, SetReturns
    <2>4. ASSUME NEW word, Ended(FALSE, word)
          PROVE  Kept'
      BY <1>1, <1>4, <2>2, <2>4, SetReturns
    <2>5. ASSUME pc' \in Asking \cup {"save"}, wanted' = wanted,
                 pc' = "save" => ram' = [ram EXCEPT ![Reg] = NewWord]
          PROVE  Kept'
      <3>1. ASSUME NEW reg \in Registers, NEW v \in wanted'[reg], ~Setting(reg)'
            PROVE  ram'[reg] = Set(reg, v)
        <4>1. reg # call.reg
          BY <1>1, <1>4, <2>5, <3>1 DEF Setting, Asking
        <4>2. ~Setting(reg)
          BY <4>1 DEF Setting
        <4> QED
          BY <2>2, <2>5, <3>1, <4>1, <4>2 DEF Kept
      <3>2. pc' = "save" => ram'[call'.reg] = Set(call'.reg, call'.value)
        BY <1>1, <2>1, <2>5
      <3> QED
        BY <1>1, <1>4, <3>1, <3>2 DEF Kept
    <2>6. \/ \E word : Ended(TRUE, word) /\ ram' = [ram EXCEPT ![Reg] = NewWord]
          \/ pc' \in Asking /\ UNCHANGED << paramOk, walk, ok, result, wanted >>
          \/ \E word : Ended(FALSE, word)
          \/ /\ pc' = "save" /\ ram' = [ram EXCEPT ![Reg] = NewWord]
             /\ UNCHANGED << paramOk, walk, ok, result, wanted >>
      <3> HIDE DEF Ended, Asking, Reg, NewWord, walk
      <3> QED
        BY <1>4, <2>1, AskInTime
    <2>7. CASE pc' \in Asking /\ UNCHANGED << paramOk, walk, ok, result, wanted >>
      <3>1. pc' # "save" /\ wanted' = wanted
        BY <2>7 DEF Asking
      <3> QED
        BY <2>5, <2>7, <3>1
    <2>8. CASE /\ pc' = "save" /\ ram' = [ram EXCEPT ![Reg] = NewWord]
               /\ UNCHANGED << paramOk, walk, ok, result, wanted >>
      <3>1. wanted' = wanted
        BY <2>8
      <3> QED
        BY <2>5, <2>8, <3>1
    <2> QED
      BY <2>3, <2>4, <2>6, <2>7, <2>8
  <1>5. CASE call.op = "set" /\ ~onTime'
    <2>1. CASE \E success \in BOOLEAN : \E word : Ended(success, word)
      <3>1. PICK success \in BOOLEAN : \E word : Ended(success, word)
        BY <2>1
      <3>2. PICK word : Ended(success, word)
        BY <3>1
      <3> HIDE DEF Ended
      <3> QED
        BY <1>1, <1>3, <1>5, <3>2, SetReturns
    <2>2. CASE wanted' = wanted /\ pc' # "idle"
      <3>1. ASSUME NEW reg \in Registers, NEW v \in wanted'[reg], ~Setting(reg)'
            PROVE  ram'[reg] = Set(reg, v)
        <4>1. reg # call.reg
          BY <1>1, <1>5, <2>2, <3>1 DEF Setting
        <4>2. ~Setting(reg)
          BY <4>1 DEF Setting
        <4> QED
          BY <1>3, <1>5, <2>2, <3>1, <4>1, <4>2 DEF Kept
      <3> QED
        BY <1>1, <1>5, <3>1 DEF Kept
    <2> QED
      BY <2>1, <2>2, AskEffects
  <1> QED
    BY <1>2, <1>4, <1>5

LEMMA KeptNext == Types /\ Kept /\ [Next]_vars => Kept'
  <1> SUFFICES ASSUME Types, Kept, [Next]_vars
               PROVE  Kept'
    OBVIOUS
  <1>1. CASE Ask
    BY <1>1, KeptAsks
  <1>2. CASE Enter \/ Open
    <2>1. PICK x \in Outcomes : Exchange(ToEnter, x)
      BY <1>2 DEF Enter, Open, EnterFactoryMode
    <2>2. call' = call /\ ram' = ram
      BY <2>1, EnterIsRequest, ExchangeEffects DEF ToEnter
    <2>3. pc # "idle" /\ pc' \notin {"idle", "save"} /\ wanted' = wanted
      BY <1>2 DEF Enter, Open, Begin
    <2> QED
      BY <2>2, <2>3, KeptStays
  <1>3. CASE Close
    <2>1. PICK x \in Outcomes : ExitFactoryMode(Commits, x)
      BY <1>3 DEF Close
    <2>2. Commits \in BOOLEAN /\ ToExit(Commits).op = "exit"
      BY DEF Commits, ToExit, Types, RestTypes
    <2>3. call' = call /\ ram' = ram
      BY <2>1, <2>2, ExitIsRequest, ExchangeEffects DEF ExitFactoryMode
    <2>4. pc = "close" /\ pc' # "save" /\ wanted' = wanted /\ call.op # "set"
      BY <1>3 DEF Close, Types, CallTypes, Whole
    <2> QED
      BY <2>3, <2>4, KeptStays
  <1>4. CASE Save
    <2>1. PICK x \in Outcomes :
            ExitFactoryMode(TRUE, x) /\ Ended(Acked(AnswerOf(ToExit(TRUE), x)), 0)
      BY <1>4 DEF Save
    <2>2. /\ call' = call /\ Acked(AnswerOf(ToExit(TRUE), x)) \in BOOLEAN
      BY <2>1, ExitTypes
    <2>3. ram' = ram /\ (onTime' => onTime)
      BY <2>1, ExitIsRequest, ExchangeEffects DEF ExitFactoryMode, ToExit
    <2>4. pc = "save" /\ call.op = "set"
      BY <1>4 DEF Save, Types, CallTypes
    <2>5. onTime' => ram'[call.reg] = Set(call.reg, call.value)
      BY <2>3, <2>4 DEF Kept
    <2> HIDE <1>4
    <2> QED
      BY <2>1, <2>2, <2>3, <2>4, <2>5, SetReturns
  <1>5. CASE Leave
    <2>1. PICK x \in Outcomes : Exchange(ToExit(~Reading), x)
      BY <1>5 DEF Leave, ExitFactoryMode
    <2>2. call' = call /\ ram' = ram
      <3>1. ToExit(~Reading) \in Requests /\ ToExit(~Reading).op = "exit"
        BY ExitIsRequest DEF Reading, ToExit
      <3> QED
        BY <2>1, <3>1, ExchangeEffects
    <2>3. pc # "idle" /\ pc' = "reenter" /\ wanted' = wanted
      BY <1>5 DEF Leave
    <2> QED
      BY <2>2, <2>3, KeptStays
  <1>6. CASE Reenter
    <2>1. PICK x \in Outcomes : Exchange(ToEnter, x)
      BY <1>6 DEF Reenter, EnterFactoryMode
    <2>2. call' = call /\ ram' = ram /\ pc = "reenter"
      BY <1>6, <2>1, EnterIsRequest, ExchangeEffects DEF Reenter, ToEnter
    <2>3. \/ Ended(FALSE, resp)
          \/ wanted' = wanted /\ pc' \in Asking
      BY <1>6 DEF Reenter, Again, Asking
    <2>4. CASE Ended(FALSE, resp) /\ call.op = "set"
      <3> HIDE DEF Ended
      <3> QED
        BY <2>2, <2>4, SetReturns
    <2>5. CASE Ended(FALSE, resp) /\ call.op # "set"
      <3>1. wanted' = wanted /\ pc' # "save"
        BY <2>2, <2>5, WantedStays, EndedGoes
      <3> QED
        BY <2>2, <2>5, <3>1, KeptStays
    <2>6. CASE wanted' = wanted /\ pc' \in Asking
      BY <2>2, <2>6, KeptStays DEF Asking
    <2> QED
      BY <2>3, <2>4, <2>5, <2>6
  <1>7. CASE Caller
    <2>1. pc = "idle" /\ ram' = ram /\ pc' # "save"
      BY <1>7 DEF Caller, GetParam, GetCapacityVoltage, SetParam, GetParams, SetParams,
                  ClearErrors, Call, pack
    <2>2. CASE \E words \in Images : SetParams(words)
      BY <2>1, <2>2 DEF SetParams, Kept
    <2>3. CASE ~\E words \in Images : SetParams(words)
      <3>1. wanted' = wanted /\ (pc' = "idle" \/ call'.op # "set_params")
        BY <1>7, <2>1, <2>3 DEF Caller, GetParam, GetCapacityVoltage, SetParam, GetParams,
                    ClearErrors, Call, past
      <3> QED
        BY <2>1, <3>1 DEF Kept, Setting
    <2> QED
      BY <2>2, <2>3
  <1>8. CASE Drain \/ LeavesFactory \/ UNCHANGED vars
    <2>1. UNCHANGED << pc, call, onTime, ram, wanted >>
      BY <1>8 DEF Drain, LeavesFactory, vars, pack, past
    <2> QED
      BY <2>1 DEF Kept, Setting
  <1> QED
    BY <1>1, <1>2, <1>3, <1>4, <1>5, <1>6, <1>7, <1>8 DEF Next, Library

LEMMA ReturnedNext == Types /\ Unrefused /\ Returned /\ [Next]_vars => Returned'
  <1> SUFFICES ASSUME Types, Unrefused, Returned, [Next]_vars,
                      pc' = "idle", call'.op = "get", ok', onTime', NEW w \in result'
               PROVE  w = Get(call'.reg, ram'[call'.reg], TRUE)
    BY DEF Returned
  <1>1. CASE pc = "idle"
    BY <1>1, IdleSteps DEF Between, Returned
  <1>2. CASE Close
    <2>1. call.op \in Whole /\ call' = call
      BY <1>2, ExitTypes DEF Close, Commits, Types, CallTypes, RestTypes
    <2> QED
      BY <2>1 DEF Whole
  <1>3. CASE Save
    BY <1>3, ExitTypes DEF Save, Types, CallTypes
  <1>4. CASE Ask
    <2>1. call' = call /\ Reading /\ Reg = call.reg /\ ram' = ram
      BY <1>4, AskInTime DEF Reading, Reg, Whole
    <2>2. ASSUME NEW success \in BOOLEAN, NEW word, Ended(success, word)
          PROVE  /\ success = TRUE
                 /\ w = Get(call.reg, word, TRUE)
      <3>1. /\ paramOk' = (paramOk /\ success) /\ ok' = paramOk'
            /\ result' = {Get(call.reg, word, paramOk')}
        BY <2>1, <2>2 DEF Ended, ReadEnds, Return
      <3>2. success = TRUE /\ paramOk' = TRUE
        BY <3>1 DEF Types, RestTypes
      <3> QED
        BY <3>1, <3>2
    <2>3. PICK word : Ended(TRUE, word) /\ (Reading => word = ram[Reg])
      BY <1>4, <2>2, AskInTime DEF Asking
    <2> QED
      BY <2>1, <2>2, <2>3
  <1> QED
    BY <1>1, <1>2, <1>3, <1>4, ReturnSteps

(* Numbers and their bits. *)
LEMMA LowFits ==
  ASSUME NEW p \in Nat, NEW v \in Int, 0 <= v, v < p
  PROVE  Low(v, p) = v
  <1>1. v % p = v
    OBVIOUS
  <1> QED
    BY <1>1 DEF Low

LEMMA Wraps ==
  ASSUME NEW p \in Nat, NEW v \in Int, 0 < v, v < p
  PROVE  Low(-v, p) = p - v
  <1>1. (-v) % p = p - v
    OBVIOUS
  <1> QED
    BY <1>1 DEF Low

LEMMA Tenth ==
  ASSUME NEW w \in Word
  PROVE  (10 * w) \div 10 = w /\ 10 * w = w * 10 /\ w \in Int /\ 10 * w \in Int
  <1>1. w \in Int /\ 0 <= w
    BY DEF Word
  <1> QED
    BY <1>1

(* Every register is of one kind. *)
LEMMA OneKind ==
  /\ NumCells \notin Tens \cup Temperature \cup TempCalibration \cup Delays
  /\ NumCells \notin Plain \cup {Percent, Shunt, Discharge, MfgDate, \hAD, \hAF}
  /\ Discharge \notin Tens \cup Temperature \cup TempCalibration \cup Delays
  /\ Discharge \notin Plain \cup {Percent, NumCells, Shunt, MfgDate, \hAD, \hAF}
  /\ \A reg \in Tens :
       /\ reg \notin Temperature \cup TempCalibration \cup Delays
       /\ reg \notin Plain \cup {Percent, NumCells, Shunt, Discharge, MfgDate, \hAD, \hAF}
  /\ \A reg \in Plain \cup {Percent} :
       /\ reg \notin Tens \cup Temperature \cup TempCalibration \cup Delays
       /\ reg \notin {NumCells, Shunt, Discharge, MfgDate, \hAD, \hAF}
  /\ Percent \notin Plain
  BY DEF Plain, Percent, NumCells, Tens, Shunt, Discharge, Temperature,
         TempCalibration, Delays, MfgDate

LEMMA BytesKept ==
  ASSUME NEW v \in 0 .. 255
  PROVE  Get(NumCells, Set(NumCells, v), TRUE) = v
  <1>1. Low(v, 65536) = v
    BY LowFits
  <1>2. Low(v, 256) = v
    BY LowFits
  <1>3. Set(NumCells, v) = Low(v, 65536)
    BY OneKind DEF Set
  <1>4. Get(NumCells, v, TRUE) = Low(v, 256)
    BY OneKind DEF Get
  <1>5. Set(NumCells, v) = v
    BY <1>1, <1>3
  <1>6. Get(NumCells, v, TRUE) = v
    BY <1>2, <1>4
  <1> QED
    BY <1>5, <1>6

LEMMA WordsKept ==
  ASSUME NEW reg \in Plain, NEW v \in Word
  PROVE  Get(reg, Set(reg, v), TRUE) = v
  <1>1. Low(v, 65536) = v
    <2>1. v \in Int /\ 0 <= v /\ v < 65536
      BY DEF Word
    <2> QED
      BY <2>1, LowFits
  <1>2. Set(reg, v) = Low(v, 65536)
    BY OneKind DEF Set
  <1>3. Get(reg, v, TRUE) = v
    BY OneKind DEF Get
  <1>4. Set(reg, v) = v
    BY <1>1, <1>2
  <1> QED
    BY <1>3, <1>4

LEMMA PercentKept ==
  ASSUME NEW v \in Word
  PROVE  Get(Percent, Set(Percent, v), TRUE) \in { v - 1, v }
  <1>1. Set(Percent, v) = PercentWord(v)
    BY OneKind DEF Set
  <1>2. PercentWord(v) \in { v - 1, v }
    BY DEF PercentWord
  <1>3. \A w : Get(Percent, w, TRUE) = w
    BY OneKind DEF Get
  <1> HIDE DEF Set, Get
  <1> QED
    BY <1>1, <1>2, <1>3

LEMMA TensKept ==
  ASSUME NEW reg \in Tens \ {\h23}, NEW w \in Word
  PROVE  Get(reg, Set(reg, 10 * w), TRUE) = 10 * w
  <1>1. (10 * w) \div 10 = w /\ 10 * w = w * 10 /\ w \in Int /\ 10 * w \in Int
    BY Tenth
  <1>2. ASSUME NEW v \in Int
        PROVE  Set(reg, v) = v \div 10 /\ Get(reg, v, TRUE) = v * 10
    <2>1. Set(reg, v) = v \div 10
      BY OneKind DEF Set
    <2>2. Get(reg, v, TRUE) = v * 10
      BY OneKind DEF Get
    <2> QED
      BY <2>1, <2>2
  <1>3. Set(reg, 10 * w) = w
    <2> HIDE DEF Set
    <2> QED
      BY <1>1, <1>2
  <1>4. Get(reg, w, TRUE) = 10 * w
    BY <1>1, <1>2
  <1> QED
    BY <1>3, <1>4

LEMMA DischargeKept ==
  ASSUME NEW w \in Word \ {0}
  PROVE  Get(Discharge, Set(Discharge, 10 * w), TRUE) = 10 * w
  <1>1. w \in Int /\ 0 < w /\ w < 65536
    BY DEF Word
  <1>2. PICK v \in Int : v = 10 * w /\ v \div 10 = w
    BY <1>1
  <1>3. PICK y \in Int : y = 65536 - w /\ (65536 - y) * 10 = v
    BY <1>1, <1>2
  <1>4. Low(-w, 65536) = 65536 - w
    BY <1>1, Wraps
  <1>5. DischargeWord(v) = y
    BY <1>2, <1>3, <1>4 DEF DischargeWord
  <1>6. Set(Discharge, v) = DischargeWord(v)
    BY OneKind DEF Set
  <1>7. Get(Discharge, y, TRUE) = v
    BY <1>3, OneKind DEF Get
  <1>8. Set(Discharge, v) = y
    BY <1>5, <1>6
  <1> QED
    BY <1>2, <1>7, <1>8

(* The getters undo the setters, where they do. *)
LEMMA GetUndoesSet ==
  ASSUME NEW reg, NEW v, Undone(reg, v)
  PROVE  Get(reg, Set(reg, v), TRUE) = v
  <1>1. CASE reg = NumCells /\ v \in 0 .. 255
    BY <1>1, BytesKept
  <1>2. CASE reg \in Plain /\ v \in Word
    BY <1>2, WordsKept
  <1>3. CASE reg \in Tens \ {\h23} /\ \E w \in Word : v = 10 * w
    <2>1. PICK w \in Word : v = 10 * w
      BY <1>3
    <2> QED
      BY <1>3, <2>1, TensKept
  <1>4. CASE reg = Discharge /\ \E w \in Word \ {0} : v = 10 * w
    <2>1. PICK w \in Word \ {0} : v = 10 * w
      BY <1>4
    <2> QED
      BY <1>4, <2>1, DischargeKept
  <1> QED
    BY <1>1, <1>2, <1>3, <1>4 DEF Undone

-----------------------------------------------------------------------------
(* The invariant, and what follows of it.                                  *)

LEMMA InitInv == Init => Inv
  <1> SUFFICES ASSUME Init
               PROVE  Inv
    OBVIOUS
  <1>1. /\ Len(Order) \in Nat \ {0} /\ 1 \in 1 .. Len(Order)
        /\ Stored \in [Registers -> Word] /\ Attempts \in Nat \ {0}
        /\ MaxCalls \in Nat /\ MaxInFlight \in Nat \ {0}
    BY ParamsAssumption
  <1>2. 0 \in Word
    BY DEF Word
  <1>3. PackTypes
    <2>1. /\ forgets \in BOOLEAN /\ open \in BOOLEAN /\ onTime \in BOOLEAN
          /\ ram \in [Registers -> Word] /\ eeprom \in [Registers -> Word]
      BY <1>1 DEF Init
    <2>2. air \in Seq(Replies) /\ Len(air) <= MaxInFlight
      BY <1>1 DEF Init
    <2> QED
      BY <2>1, <2>2 DEF PackTypes
  <1>4. CallTypes
    BY DEF Init, CallTypes, NoCall, Whole
  <1>5. WalkTypes
    BY <1>1, <1>2 DEF Init, WalkTypes
  <1>6. RestTypes
    <2>1. wanted \in [Registers -> SUBSET UNION {Values[r] : r \in Registers}]
      BY DEF Init
    <2>2. resp \in Word /\ calls \in 0 .. MaxCalls /\ was \in [Registers -> Word]
      BY <1>1, <1>2 DEF Init
    <2>3. paramOk \in BOOLEAN /\ inFactory \in BOOLEAN /\ ok \in BOOLEAN
      BY DEF Init
    <2> QED
      BY <2>1, <2>2, <2>3 DEF RestTypes
  <1>7. pc = "idle" /\ call.op = "none" /\ \A reg \in Registers : wanted[reg] = {}
    BY DEF Init, NoCall
  <1>8. Unrefused /\ ImageSoFar /\ SetIsWhole /\ Kept /\ Returned
    BY <1>7 DEF Unrefused, ImageSoFar, SetIsWhole, Kept, Returned
  <1> QED
    BY <1>3, <1>4, <1>5, <1>6, <1>8 DEF Inv, Types

LEMMA InvNext == Inv /\ [Next]_vars => Inv'
  BY TypesNext, UnrefusedNext, ImageNext, WholeNext, KeptNext, ReturnedNext DEF Inv

LEMMA Invariant == Spec => []Inv
  BY InitInv, InvNext, PTL DEF Spec

LEMMA TypesTypeOK == Types => TypeOK
  BY DEF Types, PackTypes, CallTypes, WalkTypes, RestTypes, TypeOK, Replies

(***************************************************************************)
(* The parameter calls keep their state within its types over any registers*)
(* and images, however the pack answers (bms2.cpp:660-727, 1421-1567).     *)
(***************************************************************************)
THEOREM ParamsTypeCorrect == Spec => []TypeOK
  BY Invariant, TypesTypeOK, PTL DEF Inv

(***************************************************************************)
(* set_params() is all or nothing, whatever the image and the EEPROM hold, *)
(* whichever requests are lost or refused and whatever went wrong before,  *)
(* as long as every answer of its own comes in its own wait or not at all  *)
(* and the pack forgets what it is left with 0x0000 (bms2.cpp:660-727).    *)
(***************************************************************************)
THEOREM ImageIsWhole == Spec => []SetIsWhole
  BY Invariant, PTL DEF Inv

LEMMA InvIsRead == Inv => SetIsRead
  <1> SUFFICES ASSUME Inv, pc = "idle", call.op = "get", ok, onTime,
                      NEW v \in wanted[call.reg], NEW w \in result
               PROVE  /\ Undone(call.reg, v) => w = v
                      /\ call.reg = Percent /\ v \in Word => w \in { v - 1, v }
    BY DEF SetIsRead
  <1>1. call.reg \in Registers
    BY DEF Inv, Types, CallTypes
  <1>2. ram[call.reg] = Set(call.reg, v)
    BY <1>1 DEF Inv, Kept, Setting
  <1>3. w = Get(call.reg, ram[call.reg], TRUE)
    BY DEF Inv, Returned
  <1>4. w = Get(call.reg, Set(call.reg, v), TRUE)
    BY <1>2, <1>3
  <1> HIDE DEF Get, Set, Undone
  <1>5. Undone(call.reg, v) => w = v
    BY <1>4, GetUndoesSet
  <1>6. call.reg = Percent /\ v \in Word => w \in { v - 1, v }
    BY <1>4, PercentKept
  <1> QED
    BY <1>5, <1>6

(***************************************************************************)
(* What a register was last set to, if it has room for it and is of those  *)
(* Undone() names, is what it is read as, and a percent no more than the   *)
(* tenth less that the cut takes, once both calls have gone well and had   *)
(* their answers in time, over retries of either and whatever calls and    *)
(* late answers were between (bms2.cpp:729-1082, 1421-1567).               *)
(***************************************************************************)
THEOREM SetIsReadBack == Spec => []SetIsRead
  BY Invariant, InvIsRead, PTL

-----------------------------------------------------------------------------
(* JbdWire: the bytes of a link.                                           *)

Cells == 0 .. N - 1
Origins == [of : Nat, at : Nat]
Receivers == [state : States, cmd : Byte, status : Byte, length : Byte,
              data : Seq(Byte), checksum : Nat]
Entries == [of : Nat, cmd : Byte, data : Seq(Byte)]

(* WireTypeOK but for the requests, and how its parts go together.         *)
LinkTypes ==
  /\ conn \in 0 .. MaxConns /\ linked \in BOOLEAN /\ attached \in BOOLEAN
  /\ began \in 0 .. MaxConns /\ began <= conn
  /\ asked \in BOOLEAN /\ (~linked => ~asked)
  /\ task \in {"out", "write", "value", "pop", "popped"} /\ (~attached => task = "out")

PeerTypes ==
  /\ sent \in 0 .. Len(Frames) /\ first \in 0 .. Len(Frames) /\ first <= sent
  /\ due \in Nat /\ (~linked => due = 0)
  /\ due > 0 => first < sent /\ due <= Size(sent)

RingTypes ==
  /\ head \in Cells /\ tail \in Cells
  /\ buffer \in [Cells -> Byte] /\ origin \in [Cells -> Origins]

ReadTypes ==
  /\ left \in 0 .. N /\ (task \in {"pop", "popped"} => left > 0)
  /\ held \in [byte : Byte, from : Cells, of : Nat]
  /\ rx \in Receivers /\ handled \in Seq(Entries)

WireTypes == LinkTypes /\ PeerTypes /\ RingTypes /\ ReadTypes

(* Frames. *)

LEMMA WireConstants ==
  /\ N \in Nat /\ N > 1 /\ RequestBytes \in Nat /\ RequestBytes > 0 /\ MaxConns \in Nat
  /\ Len(Frames) \in Nat
  <1>1. N \in Nat \ {0, 1} /\ RequestBytes \in Nat \ {0} /\ MaxConns \in Nat
    BY WireAssumption
  <1>2. Len(Frames) \in Nat
    BY WireAssumption
  <1> QED
    BY <1>1, <1>2

LEMMA Halves ==
  ASSUME NEW c \in Sums
  PROVE  c \in Nat /\ c \div 256 \in Byte /\ c % 256 \in Byte
  <1>1. c \in Int /\ 0 <= c /\ c < 65536
    BY DEF Sums
  <1>2. c \div 256 >= 0 /\ c \div 256 < 256 /\ c % 256 >= 0 /\ c % 256 < 256
    BY <1>1
  <1> QED
    BY <1>1, <1>2 DEF Byte

LEMMA FrameFacts ==
  ASSUME NEW n \in 1 .. Len(Frames)
  PROVE  /\ Frames[n].cmd \in Byte /\ Frames[n].status \in Byte
         /\ Frames[n].data \in Seq(Byte) /\ Len(Frames[n].data) \in Byte
         /\ Frames[n].checksum \in Sums
         /\ Size(n) = Len(Frames[n].data) + 7 /\ Size(n) \in Nat
  <1> DEFINE Kind == [cmd : Byte, status : Byte, data : Seq(Byte), checksum : Sums]
  <1>1. Frames \in Seq(Kind)
    BY WireAssumption
  <1>2. Frames[n] \in Kind
    <2> HIDE DEF Kind
    <2> QED
      BY <1>1
  <1>3. /\ Frames[n].cmd \in Byte /\ Frames[n].status \in Byte
        /\ Frames[n].data \in Seq(Byte) /\ Frames[n].checksum \in Sums
    BY <1>2
  <1> HIDE DEF Kind
  <1>4. PICK l : l = Len(Frames[n].data) /\ l \in Nat
    BY <1>3, LenProperties
  <1>5. l \in Nat /\ l <= 64
    BY <1>4, WireAssumption DEF BMS_MAX_RX_DATA_LEN
  <1>6. l \in Byte
    BY <1>5 DEF Byte
  <1> QED
    BY <1>3, <1>4, <1>6 DEF Size

LEMMA BytesOf ==
  ASSUME NEW n \in 1 .. Len(Frames), NEW at \in 1 .. Size(n),
         NEW l \in Nat, Len(Frames[n].data) = l, NEW b, b = ByteAt(Frames[n], at)
  PROVE  /\ at \in 1 .. l + 7
         /\ at = 1 => b = StartByte
         /\ at = 2 => b = Frames[n].cmd
         /\ at = 3 => b = Frames[n].status
         /\ at = 4 => b = l
         /\ at > 4 /\ at < l + 5 => b = Frames[n].data[at - 4]
         /\ at = l + 5 => b = Frames[n].checksum \div 256
         /\ at = l + 6 => b = Frames[n].checksum % 256
         /\ at = l + 7 => b = StopByte
         /\ b \in Byte
  <1>1. at \in 1 .. l + 7
    BY FrameFacts
  <1>2. StartByte \in Byte /\ StopByte \in Byte
    BY DEF StartByte, StopByte, Byte
  <1>3. /\ Frames[n].cmd \in Byte /\ Frames[n].status \in Byte /\ l \in Byte
        /\ Frames[n].checksum \div 256 \in Byte /\ Frames[n].checksum % 256 \in Byte
    BY FrameFacts, Halves
  <1>4. at \in 5 .. l + 4 => Frames[n].data[at - 4] \in Byte
    <2>1. SUFFICES ASSUME at \in 5 .. l + 4
                   PROVE  Frames[n].data[at - 4] \in Byte
      OBVIOUS
    <2>2. at - 4 \in 1 .. l
      BY <1>1, <2>1
    <2>3. Frames[n].data \in Seq(Byte)
      BY FrameFacts
    <2> QED
      BY <2>2, <2>3, ElementOfSeq
  <1>5. at = 1 => b = StartByte
    BY DEF ByteAt
  <1>6. at = 2 => b = Frames[n].cmd
    BY DEF ByteAt
  <1>7. at = 3 => b = Frames[n].status
    BY DEF ByteAt
  <1>8. at = 4 => b = l
    BY DEF ByteAt
  <1>9. at \in 5 .. l + 4 => b = Frames[n].data[at - 4]
    BY <1>1 DEF ByteAt
  <1>10. at = l + 5 => b = Frames[n].checksum \div 256
    BY <1>1 DEF ByteAt
  <1>11. at = l + 6 => b = Frames[n].checksum % 256
    BY <1>1 DEF ByteAt
  <1>12. at = l + 7 => b = StopByte
    BY <1>1 DEF ByteAt
  <1>13. \/ at = 1 \/ at = 2 \/ at = 3 \/ at = 4 \/ at \in 5 .. l + 4
         \/ at = l + 5 \/ at = l + 6 \/ at = l + 7
    BY <1>1
  <1>14. at > 4 /\ at < l + 5 => at \in 5 .. l + 4
    BY <1>1
  <1>15. b \in Byte
    BY <1>2, <1>3, <1>4, <1>5, <1>6, <1>7, <1>8, <1>9, <1>10, <1>11, <1>12, <1>13
  <1> QED
    BY <1>1, <1>5, <1>6, <1>7, <1>8, <1>9, <1>10, <1>11, <1>12, <1>14, <1>15

LEMMA SumOfHalves ==
  ASSUME NEW c \in Nat
  PROVE  (c \div 256) * 256 + (c % 256) = c
  OBVIOUS

(* The ring. *)

LEMMA StepIs ==
  ASSUME NEW k \in Cells
  PROVE  Step(k) = (IF k + 1 < N THEN k + 1 ELSE 0) /\ Step(k) \in Cells
  <1>1. N \in Nat /\ N > 1 /\ k \in Int /\ 0 <= k /\ k < N
    BY WireConstants DEF Cells
  <1>2. CASE k + 1 < N
    <2>1. (k + 1) % N = k + 1
      BY <1>1, <1>2
    <2> QED
      BY <2>1, <1>1, <1>2 DEF Step, Cells
  <1>3. CASE k + 1 = N
    <2>1. N % N = 0
      BY <1>1
    <2> QED
      BY <2>1, <1>1, <1>3 DEF Step, Cells
  <1> QED
    BY <1>1, <1>2, <1>3

(* Types. *)

LEMMA WireInitTypes == WireInit => WireTypes
  <1> SUFFICES ASSUME WireInit
               PROVE  WireTypes
    OBVIOUS
  <1>1. N \in Nat /\ N > 1 /\ MaxConns \in Nat /\ Len(Frames) \in Nat
    BY WireConstants
  <1>2. 0 \in Cells /\ 0 \in Byte /\ 0 \in 0 .. N /\ 0 \in 0 .. MaxConns /\ 0 \in 0 .. Len(Frames)
    BY <1>1 DEF Cells, Byte
  <1>3. LinkTypes
    <2>1. conn = 0 /\ linked = FALSE /\ attached = FALSE /\ began = 0 /\ asked = FALSE
          /\ task = "out"
      BY DEF WireInit
    <2>2. conn \in 0 .. MaxConns /\ began \in 0 .. MaxConns
      BY <1>2, <2>1
    <2>3. began <= conn
      BY <2>1
    <2> QED
      BY <2>1, <2>2, <2>3 DEF LinkTypes
  <1>4. PeerTypes
    BY <1>2 DEF WireInit, PeerTypes
  <1>5. RingTypes
    BY <1>2 DEF WireInit, RingTypes, Cells, Origins
  <1>6. ReadTypes
    BY <1>2 DEF WireInit, ReadTypes, NoByte, Waiting, Receivers, Entries, States
  <1> QED
    BY <1>3, <1>4, <1>5, <1>6 DEF WireTypes

LEMMA TakenTypes ==
  ASSUME rx \in Receivers, NEW c \in Byte, Fits(c)
  PROVE  Taken(c) \in Receivers
  <1>1. c \in Nat
    BY DEF Byte
  <1>2. rx.state \in {"start", "cmd", "status", "length", "data", "msb", "lsb"}
    BY DEF Fits
  <1>3. CASE rx.state = "start"
    <2>1. 0 \in Byte
      BY DEF Byte
    <2>2. << >> \in Seq(Byte)
      OBVIOUS
    <2>3. Taken(c) = [state |-> "cmd", cmd |-> 0, status |-> 0, length |-> 0,
                      data |-> << >>, checksum |-> 0]
      BY <1>3 DEF Taken, Waiting
    <2> QED
      BY <2>1, <2>2, <2>3 DEF Receivers, States
  <1>4. CASE rx.state # "start"
    <2>1. After(c) \in States
      BY <1>2, <1>4 DEF After, States
    <2>2. Append(rx.data, c) \in Seq(Byte)
      BY DEF Receivers
    <2>3. c * 256 \in Nat /\ rx.checksum + c \in Nat
      BY <1>1 DEF Receivers
    <2> QED
      BY <1>4, <2>1, <2>2, <2>3 DEF Taken, Receivers
  <1> QED
    BY <1>3, <1>4

LEMMA ReceiveTypes ==
  ASSUME rx \in Receivers, handled \in Seq(Entries), NEW c \in Byte, NEW n \in Nat,
         Receive(c, n)
  PROVE  rx' \in Receivers /\ handled' \in Seq(Entries)
  <1>1. rx' \in Receivers
    <2>1. CASE Fits(c)
      BY <2>1, TakenTypes DEF Receive
    <2>2. CASE ~Fits(c)
      BY <2>2 DEF Receive, Receivers, States
    <2> QED
      BY <2>1, <2>2
  <1>2. [of |-> n, cmd |-> rx.cmd, data |-> rx.data] \in Entries
    BY DEF Receivers, Entries
  <1> QED
    BY <1>1, <1>2 DEF Receive

LEMMA LengthTypes ==
  ASSUME head \in Cells, tail \in Cells
  PROVE  /\ getLength \in Nat /\ getLength < N
         /\ getLength = 0 <=> head = tail
  BY WireConstants DEF Cells, getLength

LEMMA AnswersTypes == WireTypes /\ PackAnswers => WireTypes'
  <1> SUFFICES ASSUME WireTypes, PackAnswers
               PROVE  WireTypes'
    OBVIOUS
  <1>1. UNCHANGED << link, first, ring, task, recv >> /\ linked /\ asked' = FALSE
    BY DEF PackAnswers
  <1>2. LinkTypes'
    BY <1>1 DEF WireTypes, LinkTypes, link
  <1>3. PeerTypes'
    <2>1. sent + 1 \in 1 .. Len(Frames) /\ first < sent + 1
      BY WireConstants DEF WireTypes, PeerTypes, PackAnswers
    <2>2. Size(sent + 1) \in Nat
      BY <2>1, FrameFacts
    <2>3. sent' = sent + 1 /\ due' = Size(sent + 1) /\ first' = first
      BY DEF PackAnswers
    <2>4. first' \in 0 .. Len(Frames) /\ linked'
      BY <1>1, <2>3 DEF WireTypes, PeerTypes, link
    <2> QED
      BY <2>1, <2>2, <2>3, <2>4, WireConstants DEF PeerTypes, Size
  <1>4. RingTypes' /\ ReadTypes'
    BY <1>1 DEF WireTypes, RingTypes, ReadTypes, ring, recv
  <1> QED
    BY <1>2, <1>3, <1>4 DEF WireTypes

LEMMA NotifyTypes == WireTypes /\ Notify => WireTypes'
  <1> SUFFICES ASSUME WireTypes, Notify
               PROVE  WireTypes'
    OBVIOUS
  <1> DEFINE at == Size(sent) - due + 1
  <1>1. UNCHANGED << link, asked, sent, first, task, recv >> /\ linked /\ due' = due - 1
        /\ due > 0
    BY DEF Notify
  <1>2. sent \in 1 .. Len(Frames) /\ Size(sent) \in Nat /\ at \in 1 .. Size(sent)
    <2>1. sent \in 1 .. Len(Frames)
      BY <1>1, WireConstants DEF WireTypes, PeerTypes
    <2>2. Size(sent) \in Nat
      BY <2>1, FrameFacts
    <2>3. due \in Nat /\ due <= Size(sent)
      BY <1>1 DEF WireTypes, PeerTypes
    <2> QED
      BY <1>1, <2>1, <2>2, <2>3
  <1>3. ByteAt(Frames[sent], at) \in Byte
    <2>1. PICK l \in Nat : l = Len(Frames[sent].data)
      BY <1>2, FrameFacts, LenProperties
    <2> HIDE DEF at
    <2> QED
      BY <1>2, <2>1, BytesOf
  <1>4. LinkTypes'
    BY <1>1 DEF WireTypes, LinkTypes, link
  <1>5. PeerTypes'
    BY <1>1, <1>2 DEF WireTypes, PeerTypes, link, Size
  <1>6. RingTypes'
    <2>1. Step(head) \in Cells /\ Step(tail) \in Cells
      BY StepIs DEF WireTypes, RingTypes
    <2>2. [of |-> sent, at |-> at] \in Origins
      BY <1>2 DEF Origins
    <2> HIDE DEF at
    <2>3. /\ Add(ByteAt(Frames[sent], at))
          /\ origin' = [origin EXCEPT ![head] = [of |-> sent, at |-> at]]
      BY DEF Notify, at
    <2> QED
      BY <1>3, <2>1, <2>2, <2>3 DEF WireTypes, RingTypes, Add
  <1>7. ReadTypes'
    BY <1>1 DEF WireTypes, ReadTypes, recv
  <1> QED
    BY <1>4, <1>5, <1>6, <1>7 DEF WireTypes

LEMMA LinkStepTypes ==
  WireTypes /\ (Disconnect \/ Connected \/ Attach \/ Detach) => WireTypes'
  <1> SUFFICES ASSUME WireTypes, Disconnect \/ Connected \/ Attach \/ Detach
               PROVE  WireTypes'
    OBVIOUS
  <1>1. 0 \in Cells
    BY WireConstants DEF Cells
  <1>2. CASE Disconnect
    BY <1>1, <1>2 DEF Disconnect, Clear, WireTypes, LinkTypes, PeerTypes, RingTypes, ReadTypes, recv
  <1>3. CASE Connected
    <2>1. << >> \in Seq(Entries)
      OBVIOUS
    <2>2. LinkTypes'
      BY <1>3, WireConstants DEF Connected, WireTypes, LinkTypes
    <2>3. PeerTypes'
      BY <1>3, WireConstants DEF Connected, WireTypes, PeerTypes, Size
    <2>4. RingTypes'
      BY <1>1, <1>3 DEF Connected, Clear, WireTypes, RingTypes
    <2>5. ReadTypes'
      BY <1>3, <2>1 DEF Connected, WireTypes, ReadTypes
    <2> QED
      BY <2>2, <2>3, <2>4, <2>5 DEF WireTypes
  <1>4. CASE Attach
    <2>1. rx' \in Receivers
      BY <1>4 DEF Attach, WireTypes, ReadTypes, Receivers, States
    <2>2. LinkTypes'
      BY <1>4, WireConstants DEF Attach, WireTypes, LinkTypes, peer
    <2>3. PeerTypes'
      BY <1>4 DEF Attach, WireTypes, PeerTypes, peer, Size
    <2>4. RingTypes' /\ ReadTypes'
      BY <1>4, <2>1 DEF Attach, WireTypes, RingTypes, ReadTypes, ring
    <2> QED
      BY <2>2, <2>3, <2>4 DEF WireTypes
  <1>5. CASE Detach
    BY <1>5 DEF Detach, WireTypes, LinkTypes, PeerTypes, RingTypes, ReadTypes, peer, ring, recv, Size
  <1> QED
    BY <1>2, <1>3, <1>4, <1>5

LEMMA SendTypes ==
  WireTypes /\ (WriteStart \/ WriteByte \/ Flush \/ WriteValue) => WireTypes'
  <1> SUFFICES ASSUME WireTypes, WriteStart \/ WriteByte \/ Flush \/ WriteValue
               PROVE  WireTypes'
    OBVIOUS
  <1>1. /\ UNCHANGED << link, ring, recv, sent, first, due >>
        /\ task' \in {"out", "write", "value"} /\ (task = "out" => attached)
    BY DEF WriteStart, WriteByte, Flush, WriteValue, peer
  <1>2. LinkTypes'
    <2>1. (asked' = asked \/ asked' = TRUE) /\ (~linked => asked' = asked)
      BY DEF WriteStart, WriteByte, Flush, WriteValue, peer
    <2>2. attached
      BY <1>1 DEF WireTypes, LinkTypes
    <2> QED
      BY <1>1, <2>1, <2>2 DEF WireTypes, LinkTypes, link
  <1>3. PeerTypes'
    BY <1>1 DEF WireTypes, PeerTypes, link, Size
  <1>4. RingTypes' /\ ReadTypes'
    BY <1>1 DEF WireTypes, RingTypes, ReadTypes, ring, recv
  <1> QED
    BY <1>2, <1>3, <1>4 DEF WireTypes

LEMMA ReadStepTypes ==
  WireTypes /\ (Look \/ PopNone \/ PopLoad \/ PopStore) => WireTypes'
  <1> SUFFICES ASSUME WireTypes, Look \/ PopNone \/ PopLoad \/ PopStore
               PROVE  WireTypes'
    OBVIOUS
  <1>1. UNCHANGED << link, peer, buffer, head, origin >>
    BY DEF Look, PopNone, PopLoad, PopStore, ring
  <1>2. /\ task' \in {"out", "pop", "popped"} /\ (task = "out" => attached)
    BY DEF Look, PopNone, PopLoad, PopStore
  <1>3. LinkTypes'
    BY <1>1, <1>2 DEF WireTypes, LinkTypes, link, peer
  <1>4. PeerTypes'
    BY <1>1 DEF WireTypes, PeerTypes, link, peer, Size
  <1>5. N \in Nat /\ getLength \in Nat /\ getLength < N
    BY LengthTypes, WireConstants DEF WireTypes, RingTypes
  <1>6. 0 \in Byte /\ 255 \in Byte /\ 0 \in Cells
    BY <1>5 DEF Byte, Cells
  <1>7. RingTypes' /\ ReadTypes'
    <2>1. CASE Look
      BY <1>5, <2>1 DEF Look, WireTypes, RingTypes, ReadTypes, ring
    <2>2. CASE PopNone
      <3>1. rx' \in Receivers /\ handled' \in Seq(Entries)
        BY <2>2, <1>6, ReceiveTypes DEF PopNone, WireTypes, ReadTypes
      <3>2. left' \in 0 .. N /\ (task' = "pop" => left' > 0) /\ task' # "popped"
        BY <2>2, <1>5 DEF PopNone, WireTypes, ReadTypes
      <3> QED
        BY <2>2, <3>1, <3>2 DEF PopNone, WireTypes, RingTypes, ReadTypes, ring
    <2>3. CASE PopLoad
      <3>1. buffer[tail] \in Byte /\ origin[tail].of \in Nat
        BY DEF WireTypes, RingTypes, Origins
      <3> QED
        BY <2>3, <3>1 DEF PopLoad, WireTypes, RingTypes, ReadTypes, ring
    <2>4. CASE PopStore
      <3>1. rx' \in Receivers /\ handled' \in Seq(Entries)
        BY <2>4, ReceiveTypes DEF PopStore, WireTypes, ReadTypes
      <3>2. left' \in 0 .. N /\ (task' = "pop" => left' > 0) /\ task' # "popped"
        BY <2>4, <1>5 DEF PopStore, WireTypes, ReadTypes
      <3>3. tail' \in Cells
        BY <2>4, StepIs DEF PopStore, WireTypes, RingTypes, ReadTypes
      <3>4. held' \in [byte : Byte, from : Cells, of : Nat]
        BY <2>4, <1>6 DEF PopStore, NoByte
      <3> QED
        BY <1>1, <3>1, <3>2, <3>3, <3>4 DEF WireTypes, RingTypes, ReadTypes
    <2> QED
      BY <2>1, <2>2, <2>3, <2>4
  <1> QED
    BY <1>3, <1>4, <1>7 DEF WireTypes

LEMMA WireTypesNext == WireTypes /\ [WireNext]_wireVars => WireTypes'
  <1> SUFFICES ASSUME WireTypes, [WireNext]_wireVars
               PROVE  WireTypes'
    OBVIOUS
  <1>1. CASE UNCHANGED wireVars
    BY <1>1 DEF wireVars, link, peer, ring, recv, WireTypes, LinkTypes, PeerTypes, RingTypes,
                ReadTypes, Size
  <1> QED
    BY <1>1, AnswersTypes, NotifyTypes, LinkStepTypes, SendTypes, ReadStepTypes
       DEF WireNext, Host, BmsTask

(* The ring. *)

(* A link the library was not started on yet has brought nothing.          *)
Unstarted ==
  linked /\ ~attached =>
    ~asked /\ sent = first /\ due = 0 /\ head = tail /\ handled = << >>

(* The cells that are to be read, from the oldest on. *)
Cell(d) == IF tail + d < N THEN tail + d ELSE tail + d - N

(* Where in the frames the next byte to be added is. *)
NextIn == IF due > 0 THEN [of |-> sent, at |-> Size(sent) - due + 1]
          ELSE [of |-> sent + 1, at |-> 1]

Succ(o) == IF o.at < Size(o.of) THEN [of |-> o.of, at |-> o.at + 1]
           ELSE [of |-> o.of + 1, at |-> 1]

(* Never full, the ring holds a run of this link's bytes without a gap.    *)
Live(d) ==
  /\ origin[Cell(d)].of \in first + 1 .. sent
  /\ origin[Cell(d)].at \in 1 .. Size(origin[Cell(d)].of)
  /\ buffer[Cell(d)] = ByteAt(Frames[origin[Cell(d)].of], origin[Cell(d)].at)
  /\ Succ(origin[Cell(d)]) = IF d + 1 < getLength THEN origin[Cell(d + 1)] ELSE NextIn

RingHolds ==
  linked => getLength + due < N /\ \A d \in 0 .. getLength - 1 : Live(d)

(* No more is read than there is. *)
Reads ==
  /\ linked /\ task \in {"pop", "popped"} => left <= getLength
  /\ linked /\ task = "popped" =>
       held = [byte |-> buffer[tail], from |-> tail, of |-> origin[tail].of]

LEMMA CellTypes ==
  ASSUME head \in Cells, tail \in Cells
  PROVE  /\ \A d \in 0 .. getLength - 1 : Cell(d) \in Cells /\ Cell(d) # head
         /\ Cell(getLength) = head /\ Cell(0) = tail
         /\ head # tail => \A d \in 1 .. getLength - 1 : Cell(d) # tail
  <1>1. N \in Nat /\ N > 1 /\ head \in Int /\ tail \in Int /\ 0 <= head /\ head < N
        /\ 0 <= tail /\ tail < N
    BY WireConstants DEF Cells
  <1> QED
    BY <1>1 DEF Cells, Cell, getLength

LEMMA RingAdds ==
  ASSUME head \in Cells, tail \in Cells, getLength + 1 < N, NEW b, Add(b)
  PROVE  /\ getLength' = getLength + 1 /\ tail' = tail /\ head' \in Cells
         /\ \A d \in Int : Cell(d)' = Cell(d)
  <1>1. N \in Nat /\ N > 1 /\ head \in Int /\ tail \in Int /\ 0 <= head /\ head < N
        /\ 0 <= tail /\ tail < N
    BY WireConstants DEF Cells
  <1>2. Step(head) = (IF head + 1 < N THEN head + 1 ELSE 0) /\ Step(head) \in Cells
    BY StepIs
  <1>3. head' = Step(head)
    BY DEF Add
  <1>4. Step(head) # tail
    BY <1>1, <1>2 DEF getLength
  <1>5. tail' = tail
    BY <1>3, <1>4 DEF Add
  <1>6. getLength' = getLength + 1
    BY <1>1, <1>2, <1>3, <1>4, <1>5 DEF getLength
  <1> QED
    BY <1>2, <1>3, <1>5, <1>6 DEF Cell

LEMMA RingPops ==
  ASSUME head \in Cells, tail \in Cells, head # tail, head' = head, tail' = Step(tail)
  PROVE  /\ getLength > 0 /\ getLength' = getLength - 1
         /\ \A d \in 0 .. getLength - 2 : Cell(d)' = Cell(d + 1)
         /\ \A d \in 0 .. getLength - 2 : Cell(d + 1)' = Cell(d + 2)
         /\ tail' = Cell(1)
  <1>1. N \in Nat /\ N > 1 /\ head \in Int /\ tail \in Int /\ 0 <= head /\ head < N
        /\ 0 <= tail /\ tail < N
    BY WireConstants DEF Cells
  <1>2. tail' = (IF tail + 1 < N THEN tail + 1 ELSE 0)
    BY StepIs
  <1>3. getLength > 0 /\ getLength' = getLength - 1
    BY <1>1, <1>2 DEF getLength
  <1>4. getLength \in Nat /\ getLength < N
    BY LengthTypes
  <1>5. ASSUME NEW d \in Nat, d < N
        PROVE  Cell(d)' = Cell(d + 1)
    BY <1>1, <1>2, <1>5 DEF Cell
  <1>6. tail' = Cell(1)
    BY <1>1, <1>2 DEF Cell
  <1> QED
    BY <1>1, <1>2, <1>3, <1>4, <1>5, <1>6 DEF Cell

LEMMA RingStays ==
  RingHolds /\ UNCHANGED << linked, ring, sent, first, due >> => RingHolds'
  BY DEF RingHolds, Live, Cell, NextIn, Succ, Size, getLength, ring

LEMMA AnswersNextIn ==
  ASSUME WireTypes, PackAnswers
  PROVE  /\ sent + 1 \in 1 .. Len(Frames) /\ Size(sent + 1) \in Nat /\ Size(sent + 1) > 0
         /\ NextIn' = NextIn /\ NextIn = [of |-> sent + 1, at |-> 1]
  <1>1. sent + 1 \in 1 .. Len(Frames) /\ sent \in Nat
    BY WireConstants DEF WireTypes, PeerTypes, PackAnswers
  <1>2. PICK s : s = Size(sent + 1)
    OBVIOUS
  <1>3. s \in Nat /\ s > 0
    <2>1. Len(Frames[sent + 1].data) \in Byte /\ s = Len(Frames[sent + 1].data) + 7
      BY <1>1, <1>2, FrameFacts
    <2>2. PICK l : l = Len(Frames[sent + 1].data)
      OBVIOUS
    <2>3. l \in Nat /\ s = l + 7
      BY <2>1, <2>2 DEF Byte
    <2> QED
      BY <2>3
  <1>4. sent' = sent + 1 /\ due' = s /\ due = 0
    BY <1>2 DEF PackAnswers
  <1>5. Size(sent') = s
    BY <1>2, <1>4
  <1>6. NextIn' = [of |-> sent + 1, at |-> s - s + 1]
    BY <1>3, <1>4, <1>5 DEF NextIn, Size
  <1>7. NextIn = [of |-> sent + 1, at |-> 1]
    BY <1>4 DEF NextIn
  <1> QED
    BY <1>1, <1>2, <1>3, <1>6, <1>7

LEMMA AnswersRing == WireTypes /\ RingHolds /\ PackAnswers => RingHolds'
  <1> SUFFICES ASSUME WireTypes, RingHolds, PackAnswers
               PROVE  RingHolds'
    OBVIOUS
  <1>1. linked /\ linked' /\ UNCHANGED << ring, first >> /\ sent' = sent + 1
        /\ due' = Size(sent + 1) /\ getLength + Size(sent + 1) < N
    BY DEF PackAnswers, Room, link, WireTypes, LinkTypes
  <1>2. NextIn' = NextIn /\ sent \in Int /\ first \in Int
    BY AnswersNextIn, WireConstants DEF WireTypes, PeerTypes
  <1>3. getLength' = getLength /\ getLength' + due' < N
    BY <1>1 DEF getLength, ring
  <1>4. ASSUME NEW d \in 0 .. getLength - 1
        PROVE  Live(d)'
    <2>1. Live(d)
      BY <1>1 DEF RingHolds
    <2>2. Cell(d)' = Cell(d) /\ Cell(d + 1)' = Cell(d + 1) /\ origin' = origin /\ buffer' = buffer
      BY <1>1 DEF Cell, ring
    <2>3. origin[Cell(d)].of \in first + 1 .. sent + 1
      BY <2>1, <1>2 DEF Live
    <2> QED
      BY <1>1, <1>2, <1>3, <2>1, <2>2, <2>3 DEF Live, Succ, Size
  <1> QED
    BY <1>3, <1>4 DEF RingHolds

(* What Notify adds. *)
LEMMA NotifyAdds ==
  ASSUME WireTypes, RingHolds, Notify
  PROVE  /\ linked /\ linked' /\ due' = due - 1 /\ UNCHANGED << sent, first, tail >>
         /\ getLength' = getLength + 1 /\ getLength' + due' < N
         /\ buffer' = [buffer EXCEPT ![head] = ByteAt(Frames[NextIn.of], NextIn.at)]
         /\ origin' = [origin EXCEPT ![head] = NextIn]
         /\ NextIn.of \in first + 1 .. sent /\ NextIn.at \in 1 .. Size(NextIn.of)
         /\ NextIn' = Succ(NextIn) /\ NextIn \in Origins
         /\ \A d \in Int : Cell(d)' = Cell(d)
  <1>1. linked /\ due > 0 /\ due' = due - 1 /\ UNCHANGED << link, sent, first >>
    BY DEF Notify
  <1>2. due \in Nat /\ sent \in 1 .. Len(Frames) /\ first \in Nat /\ first < sent
        /\ due <= Size(sent)
    BY <1>1, WireConstants DEF WireTypes, PeerTypes
  <1>3. PICK s : s = Size(sent) /\ s \in Nat
    BY <1>2, FrameFacts
  <1>4. NextIn = [of |-> sent, at |-> s - due + 1]
    BY <1>1, <1>3 DEF NextIn
  <1>5. s - due + 1 \in 1 .. s
    BY <1>1, <1>2, <1>3
  <1>6. Add(ByteAt(Frames[sent], s - due + 1))
        /\ origin' = [origin EXCEPT ![head] = [of |-> sent, at |-> s - due + 1]]
    BY <1>3 DEF Notify
  <1>7. getLength + due < N /\ getLength \in Nat /\ head \in Cells /\ tail \in Cells
    BY <1>1, LengthTypes DEF WireTypes, RingTypes, RingHolds
  <1>8. getLength + 1 < N
    BY <1>1, <1>2, <1>7, WireConstants
  <1>9. /\ getLength' = getLength + 1 /\ tail' = tail
        /\ \A d \in Int : Cell(d)' = Cell(d)
    BY <1>6, <1>7, <1>8, RingAdds
  <1>10. getLength' + due' < N
    BY <1>1, <1>2, <1>7, <1>9, WireConstants
  <1>11. buffer' = [buffer EXCEPT ![head] = ByteAt(Frames[NextIn.of], NextIn.at)]
    BY <1>4, <1>6 DEF Add
  <1>12. NextIn' = Succ(NextIn)
    <2>1. Size(sent') = s /\ Size(NextIn.of) = s /\ NextIn.at = s - due + 1 /\ NextIn.of = sent
      BY <1>1, <1>3, <1>4
    <2>2. CASE due = 1
      <3>1. NextIn' = [of |-> sent + 1, at |-> 1]
        BY <1>1, <2>2 DEF NextIn
      <3>2. Succ(NextIn) = [of |-> sent + 1, at |-> 1]
        BY <1>3, <2>1, <2>2 DEF Succ
      <3> QED
        BY <3>1, <3>2
    <2>3. CASE due > 1
      <3>1. NextIn' = [of |-> sent, at |-> s - (due - 1) + 1]
        BY <1>1, <1>2, <2>1, <2>3 DEF NextIn, Size
      <3>2. Succ(NextIn) = [of |-> sent, at |-> (s - due + 1) + 1]
        BY <1>2, <1>3, <2>1, <2>3 DEF Succ
      <3>3. s - (due - 1) + 1 = (s - due + 1) + 1
        BY <1>2, <1>3
      <3> QED
        BY <3>1, <3>2, <3>3
    <2> QED
      BY <1>1, <1>2, <2>2, <2>3
  <1>13. NextIn.of \in first + 1 .. sent /\ NextIn.at \in 1 .. Size(NextIn.of) /\ NextIn \in Origins
    BY <1>2, <1>3, <1>4, <1>5 DEF Origins
  <1> QED
    BY <1>1, <1>4, <1>6, <1>9, <1>10, <1>11, <1>12, <1>13 DEF link

LEMMA NotifyRing == WireTypes /\ RingHolds /\ Notify => RingHolds'
  <1> SUFFICES ASSUME WireTypes, RingHolds, Notify
               PROVE  RingHolds'
    OBVIOUS
  <1>1. /\ linked /\ UNCHANGED << sent, first >>
        /\ getLength' = getLength + 1 /\ getLength' + due' < N
        /\ buffer' = [buffer EXCEPT ![head] = ByteAt(Frames[NextIn.of], NextIn.at)]
        /\ origin' = [origin EXCEPT ![head] = NextIn]
        /\ NextIn.of \in first + 1 .. sent /\ NextIn.at \in 1 .. Size(NextIn.of)
        /\ NextIn' = Succ(NextIn)
        /\ \A d \in Int : Cell(d)' = Cell(d)
    BY NotifyAdds
  <1>2. head \in Cells /\ tail \in Cells /\ getLength \in Nat /\ buffer \in [Cells -> Byte]
        /\ origin \in [Cells -> Origins]
    BY LengthTypes DEF WireTypes, RingTypes
  <1>3. Cell(getLength) = head /\ \A d \in 0 .. getLength - 1 : Cell(d) \in Cells /\ Cell(d) # head
    BY <1>2, CellTypes
  <1>4. ASSUME NEW d \in 0 .. getLength' - 1
        PROVE  Live(d)'
    <2>1. CASE d < getLength
      <3>1. d \in 0 .. getLength - 1
        BY <1>1, <1>2, <2>1
      <3>2. Live(d)
        BY <1>1, <3>1 DEF RingHolds
      <3>3. Cell(d)' = Cell(d) /\ Cell(d + 1)' = Cell(d + 1) /\ Cell(d) \in Cells /\ Cell(d) # head
        BY <1>1, <1>3, <3>1
      <3>4. origin'[Cell(d)] = origin[Cell(d)] /\ buffer'[Cell(d)] = buffer[Cell(d)]
        BY <1>1, <1>2, <3>3
      <3>5. (IF d + 1 < getLength' THEN origin'[Cell(d + 1)] ELSE NextIn')
              = (IF d + 1 < getLength THEN origin[Cell(d + 1)] ELSE NextIn)
        <4>1. CASE d + 1 < getLength
          <5>1. d + 1 \in 0 .. getLength - 1
            BY <1>2, <3>1, <4>1
          <5>2. origin'[Cell(d + 1)] = origin[Cell(d + 1)]
            BY <1>1, <1>2, <1>3, <5>1
          <5> QED
            BY <1>1, <1>2, <4>1, <5>2
        <4>2. CASE d + 1 = getLength
          <5>1. origin'[Cell(d + 1)] = NextIn
            BY <1>1, <1>2, <1>3, <4>2
          <5> QED
            BY <1>1, <1>2, <4>2, <5>1
        <4> QED
          BY <1>2, <3>1, <4>1, <4>2
      <3> QED
        BY <1>1, <3>2, <3>3, <3>4, <3>5 DEF Live, Succ, Size
    <2>2. CASE d = getLength
      <3>1. Cell(d)' = head /\ origin'[head] = NextIn
            /\ buffer'[head] = ByteAt(Frames[NextIn.of], NextIn.at)
        BY <1>1, <1>2, <1>3, <2>2
      <3>2. ~(d + 1 < getLength')
        BY <1>1, <1>2, <2>2
      <3> QED
        BY <1>1, <3>1, <3>2 DEF Live, Succ, Size
    <2> QED
      BY <1>1, <1>2, <2>1, <2>2
  <1> QED
    BY <1>1, <1>4 DEF RingHolds

(* What a byte that is read on a link is, and what comes next. *)
LEMMA PopReads ==
  ASSUME WireTypes, RingHolds, Reads, PopStore, linked
  PROVE  /\ head # tail /\ tail' = Step(tail) /\ held.byte = buffer[tail]
         /\ held.of = origin[tail].of /\ Live(0) /\ Cell(0) = tail
         /\ getLength > 0 /\ getLength' = getLength - 1
         /\ \A d \in 0 .. getLength - 2 : Cell(d)' = Cell(d + 1)
         /\ \A d \in 0 .. getLength - 2 : Cell(d + 1)' = Cell(d + 2)
         /\ tail' = Cell(1)
  <1>1. task = "popped" /\ head' = head /\ tail' \in {Step(held.from), Step(tail)}
    BY DEF PopStore
  <1>2. held = [byte |-> buffer[tail], from |-> tail, of |-> origin[tail].of]
    BY <1>1 DEF Reads
  <1>3. tail' = Step(tail)
    BY <1>1, <1>2
  <1>4. head \in Cells /\ tail \in Cells /\ left > 0 /\ left \in Nat
    BY <1>1, WireConstants DEF WireTypes, RingTypes, ReadTypes
  <1>5. getLength \in Nat /\ (getLength = 0 <=> head = tail) /\ left <= getLength
    BY <1>1, <1>4, LengthTypes DEF Reads
  <1>6. head # tail /\ 0 \in 0 .. getLength - 1
    BY <1>4, <1>5
  <1>7. Live(0)
    BY <1>6 DEF RingHolds
  <1>8. Cell(0) = tail
    BY <1>4, CellTypes
  <1> QED
    BY <1>1, <1>2, <1>3, <1>4, <1>6, <1>7, <1>8, RingPops

LEMMA PopRing == WireTypes /\ RingHolds /\ Reads /\ PopStore => RingHolds'
  <1> SUFFICES ASSUME WireTypes, RingHolds, Reads, PopStore, linked'
               PROVE  RingHolds'
    BY DEF RingHolds
  <1>1. UNCHANGED << link, peer, buffer, origin >>
    BY DEF PopStore
  <1>2. linked
    BY <1>1 DEF link
  <1>3. /\ getLength' = getLength - 1
        /\ \A d \in 0 .. getLength - 2 : Cell(d)' = Cell(d + 1)
        /\ \A d \in 0 .. getLength - 2 : Cell(d + 1)' = Cell(d + 2)
    BY <1>2, PopReads
  <1>4. getLength \in Nat /\ due \in Nat /\ getLength + due < N
    BY <1>2, LengthTypes DEF WireTypes, RingTypes, PeerTypes, RingHolds
  <1>5. NextIn' = NextIn /\ sent' = sent /\ first' = first /\ due' = due
    BY <1>1 DEF NextIn, peer, Size
  <1>6. ASSUME NEW d \in 0 .. getLength' - 1
        PROVE  Live(d)'
    <2>1. d \in 0 .. getLength - 2 /\ d + 1 \in 0 .. getLength - 1 /\ d \in Int
      BY <1>3, <1>4
    <2>2. Live(d + 1)
      BY <1>2, <2>1 DEF RingHolds
    <2>3. Cell(d)' = Cell(d + 1) /\ Cell(d + 1)' = Cell(d + 2)
      BY <1>3, <2>1
    <2>4. d + 1 < getLength' <=> (d + 1) + 1 < getLength
      BY <1>3, <1>4, <2>1
    <2>5. (d + 1) + 1 = d + 2
      BY <2>1
    <2> QED
      BY <1>1, <1>5, <2>2, <2>3, <2>4, <2>5 DEF Live, Succ, Size
  <1>7. getLength' + due' < N
    BY <1>3, <1>4, <1>5, WireConstants
  <1> QED
    BY <1>6, <1>7 DEF RingHolds

LEMMA RingNext ==
  WireTypes /\ RingHolds /\ Reads /\ [WireNext]_wireVars => RingHolds'
  <1> SUFFICES ASSUME WireTypes, RingHolds, Reads, [WireNext]_wireVars
               PROVE  RingHolds'
    OBVIOUS
  <1>1. CASE Disconnect
    BY <1>1 DEF Disconnect, RingHolds
  <1>2. CASE Connected
    <2>1. head' = 0 /\ tail' = 0 /\ due' = due /\ due = 0
      BY <1>2 DEF Connected, Clear, WireTypes, PeerTypes
    <2>2. getLength' = 0
      BY <2>1 DEF getLength
    <2> QED
      BY <2>1, <2>2, WireConstants DEF RingHolds
  <1>3. CASE Attach \/ Detach \/ WriteStart \/ WriteByte \/ Flush \/ WriteValue \/ Look
             \/ PopNone \/ PopLoad
    <2>1. UNCHANGED << linked, ring, sent, first, due >> \/ Detach
      BY <1>3 DEF Attach, WriteStart, WriteByte, Flush, WriteValue, Look, PopNone, PopLoad,
                  link, peer
    <2>2. Detach => UNCHANGED << linked, ring, sent, first, due >>
      BY DEF Detach, peer
    <2> QED
      BY <2>1, <2>2, RingStays
  <1>4. CASE UNCHANGED wireVars
    BY <1>4, RingStays DEF wireVars, link, peer
  <1> QED
    BY <1>1, <1>2, <1>3, <1>4, AnswersRing, NotifyRing, PopRing DEF WireNext, Host, BmsTask

LEMMA ReadsNext ==
  WireTypes /\ RingHolds /\ Reads /\ [WireNext]_wireVars => Reads'
  <1> SUFFICES ASSUME WireTypes, RingHolds, Reads, [WireNext]_wireVars
               PROVE  Reads'
    OBVIOUS
  <1>1. head \in Cells /\ tail \in Cells /\ getLength \in Nat /\ (getLength = 0 <=> head = tail)
    BY LengthTypes DEF WireTypes, RingTypes
  <1>2. left \in Nat /\ (task \in {"pop", "popped"} => left > 0)
    BY WireConstants DEF WireTypes, ReadTypes
  <1>3. CASE PackAnswers
    BY <1>3 DEF PackAnswers, Reads, link, ring, recv, getLength
  <1>4. CASE Notify
    <2>1. /\ linked /\ tail' = tail /\ getLength' = getLength + 1
          /\ buffer' = [buffer EXCEPT ![head] = ByteAt(Frames[NextIn.of], NextIn.at)]
          /\ origin' = [origin EXCEPT ![head] = NextIn]
      BY <1>4, NotifyAdds
    <2>2. UNCHANGED << task, left, held >>
      BY <1>4 DEF Notify, recv
    <2>3. task \in {"pop", "popped"} => left <= getLength' /\ head # tail
      BY <1>1, <1>2, <2>1 DEF Reads
    <2>4. head # tail => buffer'[tail] = buffer[tail] /\ origin'[tail] = origin[tail]
      BY <1>1, <2>1 DEF WireTypes, RingTypes
    <2> QED
      BY <2>1, <2>2, <2>3, <2>4 DEF Reads
  <1>5. CASE Disconnect
    BY <1>5 DEF Disconnect, Reads
  <1>6. CASE Connected \/ Attach \/ Detach \/ WriteStart \/ WriteByte \/ Flush \/ WriteValue
    BY <1>6 DEF Connected, Attach, Detach, WriteStart, WriteByte, Flush, WriteValue, Reads
  <1>7. CASE Look
    BY <1>1, <1>7 DEF Look, Reads, ring, getLength
  <1>8. CASE PopNone
    <2>1. ~linked
      BY <1>1, <1>2, <1>8 DEF PopNone, Reads
    <2> QED
      BY <1>8, <2>1 DEF PopNone, Reads, link
  <1>9. CASE PopLoad
    BY <1>9 DEF PopLoad, Reads, link, ring, getLength
  <1>10. CASE PopStore
    <2>1. linked' => linked
      BY <1>10 DEF PopStore, link
    <2>2. task = "popped" /\ left' = left - 1 /\ task' # "popped"
      BY <1>10 DEF PopStore
    <2>3. linked => left' <= getLength'
      <3>1. linked => getLength' = getLength - 1 /\ left <= getLength
        BY <1>10, <2>2, PopReads DEF Reads
      <3> QED
        BY <1>1, <1>2, <2>2, <3>1
    <2> QED
      BY <2>1, <2>2, <2>3 DEF Reads
  <1>11. CASE UNCHANGED wireVars
    BY <1>11 DEF wireVars, link, ring, recv, Reads, getLength
  <1> QED
    BY <1>3, <1>4, <1>5, <1>6, <1>7, <1>8, <1>9, <1>10, <1>11 DEF WireNext, Host, BmsTask

LEMMA UnstartedNext == WireTypes /\ Unstarted /\ [WireNext]_wireVars => Unstarted'
  <1> SUFFICES ASSUME WireTypes, Unstarted, [WireNext]_wireVars
               PROVE  Unstarted'
    OBVIOUS
  <1>1. (~linked => ~asked /\ due = 0) /\ (~attached => task = "out") /\ due \in Nat
    BY DEF WireTypes, LinkTypes, PeerTypes
  <1>2. CASE PackAnswers \/ Notify
    <2>1. attached
      BY <1>1, <1>2 DEF PackAnswers, Notify, Unstarted
    <2> QED
      BY <1>2, <2>1 DEF PackAnswers, Notify, Unstarted, link
  <1>3. CASE Disconnect \/ Detach
    BY <1>3 DEF Disconnect, Detach, Unstarted
  <1>4. CASE Connected
    BY <1>1, <1>4 DEF Connected, Clear, Unstarted
  <1>5. CASE Attach
    BY <1>5 DEF Attach, Unstarted
  <1>6. CASE WriteStart \/ WriteByte \/ Flush \/ WriteValue \/ Look \/ PopNone \/ PopLoad
             \/ PopStore
    <2>1. attached /\ UNCHANGED link
      BY <1>1, <1>6 DEF WriteStart, WriteByte, Flush, WriteValue, Look, PopNone, PopLoad, PopStore
    <2> QED
      BY <2>1 DEF Unstarted, link
  <1>7. CASE UNCHANGED wireVars
    BY <1>7 DEF wireVars, link, peer, ring, recv, Unstarted
  <1> QED
    BY <1>2, <1>3, <1>4, <1>5, <1>6, <1>7 DEF WireNext, Host, BmsTask

(* The receiver. *)

(* What it has before the byte at a place of a frame with l bytes of data. *)
ParsedOf(r, f, l, at) ==
  /\ at = 1 => r.state = "start"
  /\ at = 2 => r.state = "cmd"
  /\ at = 3 => r.state = "status"
  /\ at = 4 => r.state = "length"
  /\ at > 4 /\ at < l + 5 => r.state = "data"
  /\ at = l + 5 => r.state = "msb"
  /\ at = l + 6 => r.state = "lsb" /\ r.checksum = (f.checksum \div 256) * 256
  /\ at = l + 7 => r.state = "stop" /\ r.checksum = f.checksum
  /\ at > 2 => r.cmd = f.cmd
  /\ at > 3 => r.status = f.status
  /\ at > 4 => r.length = l
  /\ at > 1 /\ at < 5 => r.data = << >>
  /\ at > 4 /\ at < l + 5 =>
       Len(r.data) = at - 5 /\ \A k \in 1 .. at - 5 : r.data[k] = f.data[k]
  /\ at > 4 /\ at >= l + 5 => r.data = f.data

Parsed(r, f, at) == ParsedOf(r, f, Len(f.data), at)

LEMMA StartsFrame ==
  ASSUME rx.state = "start", NEW of, Receive(StartByte, of)
  PROVE  handled' = handled /\ rx'.state = "cmd" /\ rx'.data = << >>
  <1>1. ~Complete(StartByte) /\ Fits(StartByte)
    BY DEF Complete, Fits
  <1>2. rx' = [Waiting EXCEPT !.state = "cmd"]
    BY <1>1 DEF Receive, Taken
  <1> QED
    BY <1>1, <1>2 DEF Receive, Waiting

LEMMA InFrame ==
  ASSUME rx.state \in {"cmd", "status", "length", "data", "msb", "lsb"},
         NEW c, NEW of, Receive(c, of)
  PROVE  /\ handled' = handled
         /\ rx'.state = After(c)
         /\ rx'.cmd = IF rx.state = "cmd" THEN c ELSE rx.cmd
         /\ rx'.status = IF rx.state = "status" THEN c ELSE rx.status
         /\ rx'.length = IF rx.state = "length" THEN c ELSE rx.length
         /\ rx'.data = IF rx.state = "data" THEN Append(rx.data, c) ELSE rx.data
         /\ rx.state = "msb" => rx'.checksum = c * 256
         /\ rx.state = "lsb" => rx'.checksum = rx.checksum + c
  <1>1. ~Complete(c) /\ Fits(c) /\ rx.state # "start"
    BY DEF Complete, Fits
  <1>2. handled' = handled /\ rx' = Taken(c)
    BY <1>1 DEF Receive
  <1>3. Taken(c).state = After(c) /\ Taken(c).cmd = (IF rx.state = "cmd" THEN c ELSE rx.cmd)
        /\ Taken(c).status = (IF rx.state = "status" THEN c ELSE rx.status)
        /\ Taken(c).length = (IF rx.state = "length" THEN c ELSE rx.length)
        /\ Taken(c).data = (IF rx.state = "data" THEN Append(rx.data, c) ELSE rx.data)
    BY <1>1, Zenon DEF Taken
  <1>4. rx.state = "msb" => Taken(c).checksum = c * 256
    BY <1>1 DEF Taken
  <1>5. rx.state = "lsb" => Taken(c).checksum = rx.checksum + c
    BY <1>1 DEF Taken
  <1> QED
    BY <1>2, <1>3, <1>4, <1>5

LEMMA AfterIs ==
  ASSUME NEW c
  PROVE  /\ rx.state = "cmd" => After(c) = "status"
         /\ rx.state = "status" => After(c) = "length"
         /\ rx.state = "length" => After(c) = IF c = 0 THEN "msb" ELSE "data"
         /\ rx.state = "data" =>
              After(c) = IF Len(rx.data) + 1 >= rx.length THEN "msb" ELSE "data"
         /\ rx.state = "msb" => After(c) = "lsb"
         /\ rx.state = "lsb" => After(c) = "stop"
  <1>1. rx.state = "cmd" => After(c) = "status"
    BY DEF After
  <1>2. rx.state = "status" => After(c) = "length"
    BY DEF After
  <1>3. rx.state = "length" => After(c) = IF c = 0 THEN "msb" ELSE "data"
    BY DEF After
  <1>4. rx.state = "data" =>
          After(c) = IF Len(rx.data) + 1 >= rx.length THEN "msb" ELSE "data"
    BY DEF After
  <1>5. rx.state = "msb" => After(c) = "lsb"
    BY DEF After
  <1>6. rx.state = "lsb" => After(c) = "stop"
    BY DEF After
  <1> QED
    BY <1>1, <1>2, <1>3, <1>4, <1>5, <1>6

LEMMA Appended ==
  ASSUME NEW S, NEW s \in Seq(S), NEW e \in S
  PROVE  /\ Len(Append(s, e)) = Len(s) + 1 /\ Len(s) \in Nat
         /\ \A k \in 1 .. Len(s) : Append(s, e)[k] = s[k]
         /\ Append(s, e)[Len(s) + 1] = e
  BY AppendProperties, LenProperties

LEMMA ParsesHead ==
  ASSUME rx \in Receivers, NEW n \in 1 .. Len(Frames), NEW at \in 1 .. Size(n),
         NEW l \in Nat, Len(Frames[n].data) = l, ParsedOf(rx, Frames[n], l, at),
         NEW of, Receive(ByteAt(Frames[n], at), of),
         at < 4
  PROVE  ParsedOf(rx', Frames[n], l, at + 1) /\ handled' = handled
  <1> DEFINE f == Frames[n]
  <1>1. PICK b : b = ByteAt(f, at)
    OBVIOUS
  <1>2. Receive(b, of) /\ at \in 1 .. l + 7 /\ (at = 1 => b = StartByte)
        /\ (at = 2 => b = f.cmd) /\ (at = 3 => b = f.status)
    BY <1>1, BytesOf
  <1> HIDE DEF f
  <1>3. CASE at = 1
    <2>1. rx.state = "start"
      BY <1>3 DEF ParsedOf, f
    <2>2. handled' = handled /\ rx'.state = "cmd" /\ rx'.data = << >>
      BY <1>2, <1>3, <2>1, StartsFrame
    <2> QED
      BY <1>3, <2>2 DEF ParsedOf
  <1>4. CASE at = 2
    <2>1. rx.state = "cmd" /\ rx.data = << >>
      BY <1>4 DEF ParsedOf, f
    <2>2. /\ handled' = handled /\ rx'.state = "status" /\ rx'.cmd = f.cmd
          /\ rx'.data = << >>
      BY <1>2, <1>4, <2>1, InFrame, AfterIs
    <2> QED
      BY <1>4, <2>2 DEF ParsedOf, f
  <1>5. CASE at = 3
    <2>1. rx.state = "status" /\ rx.data = << >> /\ rx.cmd = f.cmd
      BY <1>5 DEF ParsedOf, f
    <2>2. /\ handled' = handled /\ rx'.state = "length" /\ rx'.cmd = f.cmd
          /\ rx'.status = f.status /\ rx'.data = << >>
      BY <1>2, <1>5, <2>1, InFrame, AfterIs
    <2> QED
      BY <1>5, <2>2 DEF ParsedOf, f
  <1> QED
    BY <1>2, <1>3, <1>4, <1>5

LEMMA ParsesLength ==
  ASSUME rx \in Receivers, NEW n \in 1 .. Len(Frames), NEW at \in 1 .. Size(n),
         NEW l \in Nat, Len(Frames[n].data) = l, ParsedOf(rx, Frames[n], l, at),
         NEW of, Receive(ByteAt(Frames[n], at), of),
         at = 4
  PROVE  ParsedOf(rx', Frames[n], l, at + 1) /\ handled' = handled
  <1> DEFINE f == Frames[n]
  <1>1. PICK b : b = ByteAt(f, at)
    OBVIOUS
  <1>2. Receive(b, of) /\ b = l
    BY <1>1, BytesOf
  <1>3. l = 0 => f.data = << >>
    BY FrameFacts, EmptySeq
  <1> HIDE DEF f
  <1>4. rx.state = "length" /\ rx.data = << >> /\ rx.cmd = f.cmd /\ rx.status = f.status
    BY DEF ParsedOf, f
  <1>5. /\ handled' = handled /\ rx'.state = IF l = 0 THEN "msb" ELSE "data"
        /\ rx'.cmd = f.cmd /\ rx'.status = f.status /\ rx'.length = l /\ rx'.data = << >>
    BY <1>2, <1>4, InFrame, AfterIs
  <1> QED
    BY <1>3, <1>5 DEF ParsedOf, f

LEMMA ParsesData ==
  ASSUME rx \in Receivers, NEW n \in 1 .. Len(Frames), NEW at \in 1 .. Size(n),
         NEW l \in Nat, Len(Frames[n].data) = l, ParsedOf(rx, Frames[n], l, at),
         NEW of, Receive(ByteAt(Frames[n], at), of),
         at > 4, at < l + 5
  PROVE  ParsedOf(rx', Frames[n], l, at + 1) /\ handled' = handled
  <1> DEFINE f == Frames[n]
  <1>1. PICK b : b = ByteAt(f, at)
    OBVIOUS
  <1>2. Receive(b, of) /\ b = f.data[at - 4] /\ b \in Byte /\ at \in 1 .. l + 7
    BY <1>1, BytesOf
  <1>3. f.data \in Seq(Byte) /\ Len(f.data) = l
    BY FrameFacts
  <1> HIDE DEF f
  <1>4. /\ rx.state = "data" /\ rx.cmd = f.cmd /\ rx.status = f.status /\ rx.length = l
        /\ Len(rx.data) = at - 5 /\ \A k \in 1 .. at - 5 : rx.data[k] = f.data[k]
    <2>1. at > 2 /\ at > 3 /\ at > 4 /\ at < l + 5
      BY <1>2
    <2> QED
      BY <2>1, Zenon DEF ParsedOf, f
  <1>5. rx.data \in Seq(Byte)
    BY DEF Receivers
  <1>6. PICK d : d = Append(rx.data, b)
    OBVIOUS
  <1>7. d \in Seq(Byte)
    BY <1>2, <1>5, <1>6
  <1>8. Len(d) = at - 4 /\ \A k \in 1 .. at - 4 : d[k] = f.data[k]
    <2>1. /\ Len(d) = Len(rx.data) + 1 /\ \A k \in 1 .. Len(rx.data) : d[k] = rx.data[k]
          /\ d[Len(rx.data) + 1] = b
      BY <1>2, <1>5, <1>6, Appended
    <2>2. /\ Len(d) = (at - 5) + 1 /\ \A k \in 1 .. at - 5 : d[k] = rx.data[k]
          /\ d[(at - 5) + 1] = b
      BY <1>4, <2>1
    <2>3. (at - 5) + 1 = at - 4
      BY <1>2
    <2>4. \A k \in 1 .. at - 4 : k \in 1 .. at - 5 \/ k = at - 4
      BY <1>2
    <2> QED
      BY <1>2, <1>4, <2>2, <2>3, <2>4
  <1>9. /\ handled' = handled
        /\ rx'.state = IF at - 5 + 1 >= l THEN "msb" ELSE "data"
        /\ rx'.cmd = f.cmd /\ rx'.status = f.status /\ rx'.length = l /\ rx'.data = d
    BY <1>2, <1>4, <1>6, InFrame, AfterIs
  <1>10. rx'.state = IF at + 1 = l + 5 THEN "msb" ELSE "data"
    BY <1>2, <1>9
  <1>11. CASE at + 1 < l + 5
    <2>1. Len(rx'.data) = (at + 1) - 5 /\ \A k \in 1 .. (at + 1) - 5 : rx'.data[k] = f.data[k]
      BY <1>2, <1>8, <1>9
    <2>2. rx'.state = "data"
      BY <1>2, <1>10, <1>11
    <2>3. /\ at + 1 # 1 /\ at + 1 # 2 /\ at + 1 # 3 /\ at + 1 # 4 /\ ~(at + 1 < 5)
          /\ at + 1 # l + 5 /\ at + 1 # l + 6 /\ at + 1 # l + 7 /\ ~(at + 1 >= l + 5)
      BY <1>2, <1>11
    <2> QED
      BY <1>9, <2>1, <2>2, <2>3, Zenon DEF ParsedOf, f
  <1>12. CASE at + 1 = l + 5
    <2>1. at - 4 = l
      BY <1>2, <1>12
    <2>2. Len(d) = Len(f.data) /\ \A k \in 1 .. Len(d) : d[k] = f.data[k]
      BY <1>3, <1>8, <2>1
    <2>3. d = f.data
      BY <1>3, <1>7, <2>2, SeqEqual
    <2>4. rx'.state = "msb" /\ rx'.data = f.data
      BY <1>9, <1>10, <1>12, <2>3
    <2>5. /\ at + 1 > 5 /\ ~(at + 1 < l + 5) /\ at + 1 # l + 6 /\ at + 1 # l + 7
      BY <1>2, <1>12
    <2>6. at + 1 # 1 /\ at + 1 # 2 /\ at + 1 # 3 /\ at + 1 # 4 /\ ~(at + 1 < 5)
      BY <1>2, <2>5
    <2> QED
      BY <1>9, <2>4, <2>5, <2>6, Zenon DEF ParsedOf, f
  <1> QED
    BY <1>2, <1>11, <1>12

LEMMA ParsesSum ==
  ASSUME rx \in Receivers, NEW n \in 1 .. Len(Frames), NEW at \in 1 .. Size(n),
         NEW l \in Nat, Len(Frames[n].data) = l, ParsedOf(rx, Frames[n], l, at),
         NEW of, Receive(ByteAt(Frames[n], at), of),
         at = l + 5 \/ at = l + 6
  PROVE  ParsedOf(rx', Frames[n], l, at + 1) /\ handled' = handled
  <1> DEFINE f == Frames[n]
  <1>1. PICK b : b = ByteAt(f, at)
    OBVIOUS
  <1>2. Receive(b, of) /\ at \in 1 .. l + 7 /\ (at = l + 5 => b = f.checksum \div 256)
        /\ (at = l + 6 => b = f.checksum % 256)
    BY <1>1, BytesOf
  <1>3. f.checksum \in Nat
    BY FrameFacts, Halves
  <1>4. (f.checksum \div 256) * 256 + (f.checksum % 256) = f.checksum
    BY <1>3, SumOfHalves
  <1> HIDE DEF f
  <1>5. rx.cmd = f.cmd /\ rx.status = f.status /\ rx.length = l /\ rx.data = f.data
    BY <1>2 DEF ParsedOf, f
  <1>6. CASE at = l + 5
    <2>1. rx.state = "msb"
      BY <1>6 DEF ParsedOf, f
    <2>2. /\ handled' = handled /\ rx'.state = "lsb" /\ rx'.cmd = f.cmd /\ rx'.status = f.status
          /\ rx'.length = l /\ rx'.data = f.data /\ rx'.checksum = b * 256
      BY <1>2, <1>5, <2>1, InFrame, AfterIs
    <2>3. rx'.checksum = (f.checksum \div 256) * 256
      BY <1>2, <1>6, <2>2
    <2> QED
      BY <1>6, <2>2, <2>3 DEF ParsedOf, f
  <1>7. CASE at = l + 6
    <2>1. rx.state = "lsb" /\ rx.checksum = (f.checksum \div 256) * 256
      BY <1>7 DEF ParsedOf, f
    <2>2. /\ handled' = handled /\ rx'.state = "stop" /\ rx'.cmd = f.cmd /\ rx'.status = f.status
          /\ rx'.length = l /\ rx'.data = f.data /\ rx'.checksum = rx.checksum + b
      BY <1>2, <1>5, <2>1, InFrame, AfterIs
    <2>3. rx'.checksum = f.checksum
      BY <1>2, <1>4, <1>7, <2>1, <2>2
    <2> QED
      BY <1>7, <2>2, <2>3 DEF ParsedOf, f
  <1> QED
    BY <1>6, <1>7

LEMMA ParsesStop ==
  ASSUME rx \in Receivers, NEW n \in 1 .. Len(Frames), NEW at \in 1 .. Size(n),
         NEW l \in Nat, Len(Frames[n].data) = l, ParsedOf(rx, Frames[n], l, at),
         NEW of, Receive(ByteAt(Frames[n], at), of),
         at = l + 7
  PROVE  /\ rx'.state = "start"
         /\ handled' = IF Sound(Frames[n]) /\ linked
                       THEN Append(handled, [of |-> of, cmd |-> Frames[n].cmd,
                                             data |-> Frames[n].data])
                       ELSE handled
  <1> DEFINE f == Frames[n]
  <1>1. Receive(StopByte, of)
    BY BytesOf
  <1>2. /\ rx.state = "stop" /\ rx.checksum = f.checksum /\ rx.cmd = f.cmd
        /\ rx.status = f.status /\ rx.data = f.data
    BY DEF ParsedOf
  <1> HIDE DEF f
  <1>3. Complete(StopByte) <=> Sound(f)
    BY <1>2 DEF Complete, Sound
  <1>4. rx' = [rx EXCEPT !.state = "start"]
    BY <1>1, <1>2 DEF Receive, Fits
  <1>5. rx'.state = "start"
    BY <1>4 DEF Receivers
  <1> QED
    BY <1>1, <1>2, <1>3, <1>5 DEF Receive, f

(* The receiver on the next byte of a frame. *)
LEMMA Parses ==
  ASSUME rx \in Receivers, NEW n \in 1 .. Len(Frames), NEW at \in 1 .. Size(n),
         Parsed(rx, Frames[n], at), NEW of, Receive(ByteAt(Frames[n], at), of)
  PROVE  /\ at < Size(n) => Parsed(rx', Frames[n], at + 1) /\ handled' = handled
         /\ at = Size(n) =>
              /\ rx'.state = "start"
              /\ handled' = IF Sound(Frames[n]) /\ linked
                            THEN Append(handled, [of |-> of, cmd |-> Frames[n].cmd,
                                                  data |-> Frames[n].data])
                            ELSE handled
  <1>1. PICK l : l = Len(Frames[n].data)
    OBVIOUS
  <1>2. l \in Nat /\ Size(n) = l + 7
    BY <1>1, FrameFacts DEF Byte
  <1>3. ParsedOf(rx, Frames[n], l, at)
    BY <1>1 DEF Parsed
  <1>4. \/ at < 4 \/ at = 4 \/ (at > 4 /\ at < l + 5) \/ at = l + 5 \/ at = l + 6 \/ at = l + 7
    BY <1>2
  <1>5. CASE at < l + 7
    <2>1. at < 4 => ParsedOf(rx', Frames[n], l, at + 1) /\ handled' = handled
      BY <1>1, <1>2, <1>3, ParsesHead
    <2>2. at = 4 => ParsedOf(rx', Frames[n], l, at + 1) /\ handled' = handled
      BY <1>1, <1>2, <1>3, ParsesLength
    <2>3. at > 4 /\ at < l + 5 => ParsedOf(rx', Frames[n], l, at + 1) /\ handled' = handled
      BY <1>1, <1>2, <1>3, ParsesData
    <2>4. at = l + 5 \/ at = l + 6 => ParsedOf(rx', Frames[n], l, at + 1) /\ handled' = handled
      BY <1>1, <1>2, <1>3, ParsesSum
    <2>5. ParsedOf(rx', Frames[n], l, at + 1) /\ handled' = handled
      BY <1>2, <1>4, <1>5, <2>1, <2>2, <2>3, <2>4
    <2> QED
      BY <1>1, <1>2, <1>5, <2>5 DEF Parsed
  <1>6. CASE at = l + 7
    BY <1>1, <1>2, <1>3, <1>6, ParsesStop
  <1> QED
    BY <1>2, <1>4, <1>5, <1>6

LEMMA AwaitsFrame ==
  ASSUME NEW r, r.state = "start", NEW n \in 1 .. Len(Frames)
  PROVE  Parsed(r, Frames[n], 1)
  <1>1. PICK l : l = Len(Frames[n].data)
    OBVIOUS
  <1>2. l \in Nat
    BY <1>1, FrameFacts DEF Byte
  <1> QED
    BY <1>1, <1>2 DEF Parsed, ParsedOf

LEMMA SizePositive ==
  ASSUME NEW n \in 1 .. Len(Frames)
  PROVE  Size(n) \in Nat /\ Size(n) > 0
  <1>1. PICK l : l = Len(Frames[n].data)
    OBVIOUS
  <1>2. l \in Nat /\ Size(n) = l + 7
    BY <1>1, FrameFacts DEF Byte
  <1> QED
    BY <1>2

(* What is handled. *)

(* Where in the frames the next byte to be read is. *)
NextOut == IF head = tail THEN NextIn ELSE origin[tail]

(* The frames before n, and no others, have been handled. *)
HandledUpTo(n) ==
  /\ \A k \in 1 .. Len(handled) : handled[k].of < n
  /\ \A m \in first + 1 .. n - 1 :
       Sound(Frames[m]) => \E k \in 1 .. Len(handled) : handled[k].of = m

(* The receiver is where the next byte belongs.                            *)
Awaits(o) ==
  /\ o.of \in first + 1 .. sent + 1
  /\ o.of <= sent => o.at \in 1 .. Size(o.of) /\ Parsed(rx, Frames[o.of], o.at)
  /\ o.of = sent + 1 => o.at = 1 /\ rx.state = "start"
  /\ HandledUpTo(o.of)

Follows == linked /\ began = conn => Awaits(NextOut)

StartedInOrder == began = conn => OwnFramesInOrder

WireInv == WireTypes /\ Unstarted /\ RingHolds /\ Reads /\ Follows /\ StartedInOrder

LEMMA HandlesFrame ==
  ASSUME handled \in Seq(Entries), NEW n \in Nat, NEW e \in Entries, e.of = n,
         first' = first, HandledUpTo(n),
         handled' = IF Sound(Frames[n]) THEN Append(handled, e) ELSE handled
  PROVE  HandledUpTo(n + 1)'
  <1>1. PICK h : h = handled'
    OBVIOUS
  <1>2. PICK l : l = Len(handled) /\ l \in Nat
    BY LenProperties
  <1>3. CASE Sound(Frames[n])
    <2>1. h = Append(handled, e)
      BY <1>1, <1>3
    <2>2. /\ Len(h) = l + 1 /\ \A k \in 1 .. l : h[k] = handled[k]
          /\ h[l + 1] = e
      BY <1>2, <2>1, Appended
    <2>3. \A k \in 1 .. l + 1 : k \in 1 .. l \/ k = l + 1
      BY <1>2
    <2>4. \A k \in 1 .. l : handled[k].of \in Nat /\ handled[k].of < n
      <3>1. \A k \in 1 .. l : handled[k] \in Entries
        BY <1>2, ElementOfSeq
      <3>2. \A k \in 1 .. l : handled[k].of \in Nat
        BY <3>1 DEF Entries
      <3> QED
        BY <1>2, <3>2 DEF HandledUpTo
    <2>5. ASSUME NEW k \in 1 .. l + 1
          PROVE  h[k].of < n + 1
      <3>1. CASE k \in 1 .. l
        <4>1. PICK o : o = handled[k].of
          OBVIOUS
        <4>2. h[k].of = o /\ o \in Nat /\ o < n
          BY <2>2, <2>4, <3>1, <4>1
        <4> QED
          BY <4>2
      <3>2. CASE k = l + 1
        BY <2>2, <3>2
      <3> QED
        BY <2>3, <3>1, <3>2
    <2>6. ASSUME NEW m \in first + 1 .. n, Sound(Frames[m])
          PROVE  \E k \in 1 .. l + 1 : h[k].of = m
      <3>1. CASE m = n
        <4>1. l + 1 \in 1 .. l + 1
          BY <1>2
        <4> QED
          BY <2>2, <3>1, <4>1
      <3>2. CASE m # n
        <4>1. m \in first + 1 .. n - 1
          BY <2>6, <3>2
        <4>2. PICK k \in 1 .. l : handled[k].of = m
          BY <1>2, <2>6, <4>1 DEF HandledUpTo
        <4>3. k \in 1 .. l + 1
          BY <1>2, <4>2
        <4> QED
          BY <2>2, <4>2, <4>3
      <3> QED
        BY <3>1, <3>2
    <2>7. (n + 1) - 1 = n
      OBVIOUS
    <2> QED
      BY <1>1, <2>2, <2>5, <2>6, <2>7 DEF HandledUpTo
  <1>4. CASE ~Sound(Frames[n])
    <2>1. handled' = handled
      BY <1>4
    <2>2. \A k \in 1 .. Len(handled) : handled[k].of < n /\ handled[k] \in Entries
      BY DEF HandledUpTo
    <2>3. \A k \in 1 .. Len(handled) : handled[k].of < n + 1
      BY <2>2 DEF Entries
    <2>4. \A m \in first + 1 .. n : m \in first + 1 .. n - 1 \/ m = n
      OBVIOUS
    <2>5. (n + 1) - 1 = n
      OBVIOUS
    <2> QED
      BY <1>4, <2>1, <2>3, <2>4, <2>5 DEF HandledUpTo
  <1> QED
    BY <1>3, <1>4

LEMMA OwnFrameHandled ==
  ASSUME handled \in Seq(Entries), NEW n \in first + 1 .. sent, n \in Nat,
         NEW e \in Entries, e.of = n,
         e.cmd = Frames[n].cmd, e.data = Frames[n].data, HandledUpTo(n), OwnFramesInOrder,
         first' = first, sent' = sent,
         handled' = IF Sound(Frames[n]) THEN Append(handled, e) ELSE handled
  PROVE  OwnFramesInOrder'
  <1>1. PICK h : h = handled'
    OBVIOUS
  <1>2. PICK l : l = Len(handled) /\ l \in Nat
    BY LenProperties
  <1>3. CASE Sound(Frames[n])
    <2>1. h = Append(handled, e)
      BY <1>1, <1>3
    <2>2. /\ Len(h) = l + 1 /\ \A k \in 1 .. l : h[k] = handled[k]
          /\ h[l + 1] = e
      BY <1>2, <2>1, Appended
    <2>3. ASSUME NEW k \in 1 .. l + 1
          PROVE  IsFrame(h[k])' /\ (k > 1 => h[k - 1].of < h[k].of)
      <3>1. CASE k \in 1 .. l
        <4>1. IsFrame(handled[k]) /\ (k > 1 => handled[k - 1].of < handled[k].of)
          BY <1>2, <3>1 DEF OwnFramesInOrder
        <4>2. k > 1 => k - 1 \in 1 .. l
          BY <1>2, <3>1
        <4>3. h[k] = handled[k] /\ (k > 1 => h[k - 1] = handled[k - 1])
          BY <2>2, <3>1, <4>2
        <4>4. IsFrame(h[k])
          BY <4>1, <4>3
        <4> QED
          BY <4>1, <4>3, <4>4 DEF IsFrame
      <3>2. CASE k = l + 1
        <4>1. h[k] = e
          BY <2>2, <3>2
        <4>2. IsFrame(h[k])'
          BY <1>3, <4>1 DEF IsFrame
        <4>3. k > 1 => k - 1 \in 1 .. l
          BY <1>2, <3>2
        <4>4. k > 1 => h[k - 1] = handled[k - 1] /\ handled[k - 1].of < n
          BY <1>2, <2>2, <4>3 DEF HandledUpTo
        <4> QED
          BY <4>1, <4>2, <4>4
      <3> QED
        BY <1>2, <3>1, <3>2
    <2> QED
      BY <1>1, <2>2, <2>3 DEF OwnFramesInOrder
  <1>4. CASE ~Sound(Frames[n])
    BY <1>4 DEF OwnFramesInOrder, IsFrame
  <1> QED
    BY <1>3, <1>4

(* A byte of a started link is read. *)
LEMMA PopHandles ==
  ASSUME WireTypes, RingHolds, Reads, Follows, PopStore, linked, began = conn
  PROVE  /\ Awaits(NextOut)'
         /\ OwnFramesInOrder => OwnFramesInOrder'
  <1>1. /\ head # tail /\ held.byte = buffer[tail] /\ held.of = origin[tail].of
        /\ Live(0) /\ Cell(0) = tail /\ getLength > 0 /\ tail' = Cell(1)
    BY PopReads
  <1>2. Receive(held.byte, held.of) /\ UNCHANGED << link, peer, origin, head >>
    BY DEF PopStore
  <1>3. NextOut = origin[tail]
    BY <1>1 DEF NextOut
  <1>4. PICK n, at : n = origin[tail].of /\ at = origin[tail].at
    OBVIOUS
  <1>5. /\ n \in first + 1 .. sent /\ at \in 1 .. Size(n)
        /\ buffer[tail] = ByteAt(Frames[n], at)
        /\ Succ(origin[tail]) = IF 1 < getLength THEN origin[Cell(1)] ELSE NextIn
    BY <1>1, <1>4 DEF Live
  <1>6. first \in Nat /\ sent \in Nat /\ n \in Nat /\ n \in 1 .. Len(Frames) /\ n <= sent
    BY <1>5, WireConstants DEF WireTypes, PeerTypes
  <1>7. rx \in Receivers /\ handled \in Seq(Entries)
    BY DEF WireTypes, ReadTypes
  <1>8. Parsed(rx, Frames[n], at) /\ HandledUpTo(n)
    BY <1>3, <1>4, <1>6 DEF Follows, Awaits
  <1>9. Receive(ByteAt(Frames[n], at), n)
    BY <1>1, <1>2, <1>4, <1>5
  <1>10. NextIn' = NextIn /\ first' = first /\ sent' = sent /\ linked' = linked
    BY <1>2 DEF NextIn, peer, link, Size
  <1>11. NextOut' = Succ(origin[tail])
    <2>1. head \in Cells /\ tail \in Cells
      BY DEF WireTypes, RingTypes
    <2>2. getLength \in Nat
      BY <2>1, LengthTypes
    <2>3. CASE getLength = 1
      <3>1. tail' = head'
        BY <1>1, <1>2, <2>1, <2>3, CellTypes
      <3> QED
        BY <1>5, <1>10, <2>3, <3>1 DEF NextOut
    <2>4. CASE getLength > 1
      <3>1. 1 \in 0 .. getLength - 1
        BY <2>2, <2>4
      <3>2. Cell(1) # head
        BY <2>1, <3>1, CellTypes
      <3> QED
        BY <1>1, <1>2, <1>5, <2>4, <3>2 DEF NextOut
    <2> QED
      BY <1>1, <2>2, <2>3, <2>4
  <1>12. PICK s : s = Size(n) /\ s \in Nat
    BY <1>6, FrameFacts
  <1>13. CASE at < s
    <2>1. NextOut' = [of |-> n, at |-> at + 1]
      BY <1>4, <1>11, <1>12, <1>13 DEF Succ
    <2>2. Parsed(rx', Frames[n], at + 1) /\ handled' = handled
      BY <1>5, <1>6, <1>7, <1>8, <1>9, <1>12, <1>13, Parses
    <2>3. at + 1 \in 1 .. Size(n)'
      BY <1>5, <1>12, <1>13 DEF Size
    <2>4. HandledUpTo(n)'
      BY <1>8, <1>10, <2>2 DEF HandledUpTo
    <2>5. Awaits([of |-> n, at |-> at + 1])'
      BY <1>5, <1>6, <1>10, <2>2, <2>3, <2>4 DEF Awaits
    <2>6. OwnFramesInOrder => OwnFramesInOrder'
      BY <1>10, <2>2 DEF OwnFramesInOrder, IsFrame
    <2> QED
      BY <2>1, <2>5, <2>6 DEF Awaits, HandledUpTo, Size
  <1>14. CASE at = s
    <2>1. NextOut' = [of |-> n + 1, at |-> 1]
      BY <1>4, <1>11, <1>12, <1>14 DEF Succ
    <2>2. PICK e : e = [of |-> n, cmd |-> Frames[n].cmd, data |-> Frames[n].data]
      OBVIOUS
    <2>3. e \in Entries /\ e.of = n /\ e.cmd = Frames[n].cmd /\ e.data = Frames[n].data
      BY <1>6, <2>2, FrameFacts DEF Entries
    <2>4. rx'.state = "start"
          /\ handled' = IF Sound(Frames[n]) THEN Append(handled, e) ELSE handled
      BY <1>5, <1>6, <1>7, <1>8, <1>9, <1>12, <1>14, <2>2, Parses
    <2>5. HandledUpTo(n + 1)'
      BY <1>6, <1>7, <1>8, <1>10, <2>3, <2>4, HandlesFrame
    <2>6. OwnFramesInOrder => OwnFramesInOrder'
      BY <1>5, <1>6, <1>7, <1>8, <1>10, <2>3, <2>4, OwnFrameHandled
    <2>7. n + 1 \in first' + 1 .. sent' + 1
      BY <1>5, <1>6, <1>10
    <2>8. n + 1 <= sent' => 1 \in 1 .. Size(n + 1) /\ Parsed(rx', Frames[n + 1], 1)
      <3>1. SUFFICES ASSUME n + 1 <= sent'
                     PROVE  1 \in 1 .. Size(n + 1) /\ Parsed(rx', Frames[n + 1], 1)
        OBVIOUS
      <3>2. n + 1 \in 1 .. Len(Frames)
        BY <1>6, <1>10, <3>1, WireConstants DEF WireTypes, PeerTypes
      <3>3. Size(n + 1) \in Nat /\ Size(n + 1) > 0
        BY <3>2, SizePositive
      <3> QED
        BY <2>4, <3>2, <3>3, AwaitsFrame
    <2>9. Awaits([of |-> n + 1, at |-> 1])'
      BY <1>10, <2>4, <2>5, <2>7, <2>8 DEF Awaits, Size
    <2> QED
      BY <2>1, <2>6, <2>9 DEF Awaits, HandledUpTo, Size
  <1> QED
    BY <1>5, <1>12, <1>13, <1>14

LEMMA AwaitsStays ==
  ASSUME NextOut' = NextOut, UNCHANGED << sent, first, rx, handled >>, Awaits(NextOut)
  PROVE  Awaits(NextOut)'
  BY DEF Awaits, HandledUpTo, Size

LEMMA FollowsNext ==
  WireTypes /\ Unstarted /\ RingHolds /\ Reads /\ Follows /\ [WireNext]_wireVars => Follows'
  <1> SUFFICES ASSUME WireTypes, Unstarted, RingHolds, Reads, Follows, [WireNext]_wireVars,
                      linked', began' = conn'
               PROVE  Awaits(NextOut)'
    BY DEF Follows
  <1>1. /\ head \in Cells /\ tail \in Cells /\ getLength \in Nat
        /\ (getLength = 0 <=> head = tail) /\ origin \in [Cells -> Origins]
    BY LengthTypes DEF WireTypes, RingTypes
  <1>2. CASE PackAnswers
    <2>1. /\ UNCHANGED << link, first, ring, recv >> /\ sent' = sent + 1 /\ linked
          /\ sent \in Nat /\ first \in Nat
      BY <1>2, WireConstants DEF PackAnswers, WireTypes, PeerTypes
    <2>2. /\ sent + 1 \in 1 .. Len(Frames) /\ Size(sent + 1) \in Nat /\ Size(sent + 1) > 0
          /\ NextIn' = NextIn
      BY <1>2, AnswersNextIn
    <2>3. NextOut' = NextOut
      BY <2>1, <2>2 DEF NextOut, ring
    <2>4. PICK o : o = NextOut
      OBVIOUS
    <2>5. Awaits(o)
      BY <2>1, <2>4 DEF Follows, link
    <2>6. o.of \in first + 1 .. sent + 1 + 1
      BY <2>1, <2>5 DEF Awaits
    <2>7. o.of <= sent + 1 => o.at \in 1 .. Size(o.of) /\ Parsed(rx, Frames[o.of], o.at)
      <3>1. CASE o.of <= sent
        BY <2>5, <3>1 DEF Awaits
      <3>2. CASE o.of = sent + 1
        BY <2>2, <2>5, <3>2, AwaitsFrame DEF Awaits
      <3> QED
        BY <2>1, <2>5, <3>1, <3>2 DEF Awaits
    <2>8. o.of # sent + 1 + 1
      BY <2>1, <2>5 DEF Awaits
    <2> QED
      BY <2>1, <2>3, <2>4, <2>5, <2>6, <2>7, <2>8 DEF Awaits, HandledUpTo, Size, recv
  <1>3. CASE Notify
    <2>1. UNCHANGED << link, sent, first, recv >>
      BY <1>3 DEF Notify
    <2>2. /\ linked /\ tail' = tail /\ getLength' = getLength + 1
          /\ origin' = [origin EXCEPT ![head] = NextIn] /\ head' \in Cells
      BY <1>1, <1>3, NotifyAdds, WireTypesNext DEF WireTypes, RingTypes
    <2>3. head' # tail'
      <3>1. getLength' > 0
        BY <1>1, <2>2
      <3>2. PICK h \in Int : h = head'
        BY <1>1, <2>2 DEF Cells
      <3>3. ASSUME tail' = h
            PROVE  getLength' = 0
        <4>1. h >= h /\ h - h = 0
          OBVIOUS
        <4> QED
          BY <3>2, <3>3, <4>1 DEF getLength
      <3> QED
        BY <3>1, <3>2, <3>3
    <2>4. NextOut' = NextOut
      BY <1>1, <2>2, <2>3 DEF NextOut
    <2> QED
      BY <2>1, <2>2, <2>4, AwaitsStays DEF Follows, link, recv
  <1>4. CASE Disconnect
    BY <1>4 DEF Disconnect
  <1>5. CASE Connected
    <2>1. began = conn + 1
      BY <1>5 DEF Connected
    <2>2. began <= conn /\ began \in Int /\ conn \in Int
      BY WireConstants DEF WireTypes, LinkTypes
    <2>3. FALSE
      BY <2>1, <2>2
    <2> QED
      BY <2>3
  <1>6. CASE Attach
    <2>1. /\ UNCHANGED << peer, ring, handled >> /\ rx' = [rx EXCEPT !.state = "start"]
          /\ sent = first /\ due = 0 /\ head = tail /\ handled = << >>
      BY <1>6 DEF Attach, Unstarted
    <2>2. NextOut' = [of |-> sent + 1, at |-> 1]
      BY <2>1 DEF NextOut, NextIn, peer, ring
    <2>3. rx'.state = "start"
      BY <2>1 DEF WireTypes, ReadTypes, Receivers
    <2>4. sent \in Nat /\ sent' = sent /\ first' = sent /\ handled' = << >>
      BY <2>1, WireConstants DEF WireTypes, PeerTypes, peer
    <2>5. HandledUpTo(sent + 1)'
      BY <2>4 DEF HandledUpTo
    <2> QED
      BY <2>2, <2>3, <2>4, <2>5 DEF Awaits, HandledUpTo
  <1>7. CASE Detach
    BY <1>7 DEF Detach
  <1>8. CASE WriteStart \/ WriteByte \/ Flush \/ WriteValue \/ Look \/ PopLoad
    <2>1. UNCHANGED << link, sent, first, due, ring, rx, handled >>
      BY <1>8 DEF WriteStart, WriteByte, Flush, WriteValue, Look, PopLoad, peer, recv
    <2>2. NextOut' = NextOut
      BY <2>1 DEF NextOut, NextIn, ring, Size
    <2> QED
      BY <2>1, <2>2, AwaitsStays DEF Follows, link
  <1>9. CASE PopNone
    <2>1. linked
      BY <1>9 DEF PopNone, link
    <2> QED
      BY <1>1, <1>9, <2>1, WireConstants DEF PopNone, Reads, WireTypes, ReadTypes
  <1>10. CASE PopStore
    BY <1>10, PopHandles DEF PopStore, link
  <1>11. CASE UNCHANGED wireVars
    <2>1. UNCHANGED << link, sent, first, due, ring, rx, handled >>
      BY <1>11 DEF wireVars, peer, recv
    <2>2. NextOut' = NextOut
      BY <2>1 DEF NextOut, NextIn, ring, Size
    <2> QED
      BY <2>1, <2>2, AwaitsStays DEF Follows, link
  <1> QED
    BY <1>2, <1>3, <1>4, <1>5, <1>6, <1>7, <1>8, <1>9, <1>10, <1>11 DEF WireNext, Host, BmsTask

LEMMA InOrderStays ==
  ASSUME OwnFramesInOrder, UNCHANGED << first, handled >>, first \in Int, sent \in Int,
         sent' \in Int, sent <= sent'
  PROVE  OwnFramesInOrder'
  <1>1. \A n \in first + 1 .. sent : n \in first + 1 .. sent'
    OBVIOUS
  <1> QED
    BY <1>1 DEF OwnFramesInOrder, IsFrame

(* Without a link nothing is handled. *)
LEMMA NoneHandled ==
  ASSUME ~linked, NEW c, NEW of, Receive(c, of)
  PROVE  handled' = handled
  BY DEF Receive

LEMMA InOrderNext ==
  WireTypes /\ Unstarted /\ RingHolds /\ Reads /\ Follows /\ StartedInOrder
    /\ [WireNext]_wireVars => StartedInOrder'
  <1> SUFFICES ASSUME WireTypes, Unstarted, RingHolds, Reads, Follows, StartedInOrder,
                      [WireNext]_wireVars, began' = conn'
               PROVE  OwnFramesInOrder'
    BY DEF StartedInOrder
  <1>1. first \in Int /\ sent \in Int /\ sent <= sent
    BY WireConstants DEF WireTypes, PeerTypes
  <1>2. CASE PackAnswers
    <2>1. UNCHANGED << link, first, handled >> /\ sent' = sent + 1
      BY <1>2 DEF PackAnswers, recv
    <2>2. sent' \in Int /\ sent <= sent'
      BY <1>1, <2>1
    <2> QED
      BY <1>1, <2>1, <2>2, InOrderStays DEF StartedInOrder, link
  <1>3. CASE Connected
    <2>1. began = conn + 1
      BY <1>3 DEF Connected
    <2>2. began <= conn /\ began \in Int /\ conn \in Int
      BY WireConstants DEF WireTypes, LinkTypes
    <2>3. FALSE
      BY <2>1, <2>2
    <2> QED
      BY <2>3
  <1>4. CASE Attach
    <2>1. handled' = << >>
      BY <1>4 DEF Attach, Unstarted
    <2> QED
      BY <2>1 DEF OwnFramesInOrder
  <1>5. CASE Notify \/ Disconnect \/ Detach \/ WriteStart \/ WriteByte \/ Flush \/ WriteValue
             \/ Look \/ PopLoad \/ UNCHANGED wireVars
    <2>1. UNCHANGED << conn, began, sent, first, handled >>
      BY <1>5 DEF Notify, Disconnect, Detach, WriteStart, WriteByte, Flush, WriteValue, Look,
                  PopLoad, wireVars, link, peer, recv
    <2> QED
      BY <1>1, <2>1, InOrderStays DEF StartedInOrder
  <1>6. CASE PopNone
    <2>1. UNCHANGED << link, peer >> /\ Receive(255, 0)
      BY <1>6 DEF PopNone
    <2>2. ~linked
      <3>1. head = tail /\ task = "pop"
        BY <1>6 DEF PopNone
      <3>2. getLength = 0
        BY <3>1, LengthTypes DEF WireTypes, RingTypes
      <3> QED
        BY <3>1, <3>2, WireConstants DEF Reads, WireTypes, ReadTypes
    <2>3. handled' = handled
      BY <2>1, <2>2, NoneHandled
    <2> QED
      BY <1>1, <2>1, <2>3, InOrderStays DEF StartedInOrder, link, peer
  <1>7. CASE PopStore
    <2>1. UNCHANGED << link, peer >> /\ Receive(held.byte, held.of)
      BY <1>7 DEF PopStore
    <2>2. OwnFramesInOrder
      BY <2>1 DEF StartedInOrder, link
    <2>3. CASE linked
      BY <1>7, <2>1, <2>2, <2>3, PopHandles DEF link
    <2>4. CASE ~linked
      <3>1. handled' = handled
        BY <2>1, <2>4 DEF Receive
      <3> QED
        BY <1>1, <2>1, <2>2, <3>1, InOrderStays DEF peer
    <2> QED
      BY <2>3, <2>4
  <1> QED
    BY <1>2, <1>3, <1>4, <1>5, <1>6, <1>7 DEF WireNext, Host, BmsTask

LEMMA WireInvInit == WireInit => WireInv
  <1> SUFFICES ASSUME WireInit
               PROVE  WireInv
    OBVIOUS
  <1>1. ~linked /\ handled = << >>
    BY DEF WireInit
  <1>2. Unstarted /\ RingHolds /\ Reads /\ Follows
    BY <1>1 DEF Unstarted, RingHolds, Reads, Follows
  <1>3. StartedInOrder
    BY <1>1 DEF StartedInOrder, OwnFramesInOrder
  <1> QED
    BY <1>2, <1>3, WireInitTypes DEF WireInv

LEMMA WireInvNext == WireInv /\ [WireNext]_wireVars => WireInv'
  BY WireTypesNext, UnstartedNext, RingNext, ReadsNext, FollowsNext, InOrderNext DEF WireInv

LEMMA WireInvariant == WireSpec => []WireInv
  BY WireInvInit, WireInvNext, PTL DEF WireSpec

-----------------------------------------------------------------------------
(* JbdWire: requests.                                                      *)

RequestSoFar ==
  /\ linked \in BOOLEAN
  /\ task \in {"out", "write", "value", "pop", "popped"}
  /\ wrote \in 0 .. RequestBytes /\ txLength \in 0 .. RequestBytes
  /\ task = "write" /\ linked => txLength = wrote
  /\ task = "write" => txLength <= wrote
  /\ task = "value" => txLength = RequestBytes
  /\ task \notin {"write", "value"} => txLength = 0
  /\ told \in Nat /\ RequestsWhole

LEMMA RequestInit == WireInit => RequestSoFar
  <1>1. 0 \in Nat /\ RequestBytes \in Nat
    BY WireConstants
  <1>2. 0 \in 0 .. RequestBytes /\ 0 \in Nat
    BY <1>1
  <1>3. WireInit => linked = FALSE /\ task = "out" /\ wrote = 0 /\ txLength = 0 /\ told = 0
    BY DEF WireInit
  <1> QED
    BY <1>2, <1>3 DEF RequestSoFar, RequestsWhole

LEMMA RequestNext == RequestSoFar /\ [WireNext]_wireVars => RequestSoFar'
  <1> SUFFICES ASSUME RequestSoFar, [WireNext]_wireVars
               PROVE  RequestSoFar'
    OBVIOUS
  <1>1. RequestBytes \in Nat /\ RequestBytes > 0
    BY WireConstants
  <1> USE DEF RequestSoFar, RequestsWhole
  <1>2. CASE PackAnswers \/ Notify
    BY <1>2 DEF PackAnswers, Notify, link, send
  <1>3. CASE Disconnect
    BY <1>3 DEF Disconnect, send
  <1>4. CASE Connected
    BY <1>4 DEF Connected, send
  <1>5. CASE Attach \/ Detach
    BY <1>5 DEF Attach, Detach, send
  <1>6. CASE WriteStart
    BY <1>1, <1>6 DEF WriteStart, link
  <1>7. CASE WriteByte
    BY <1>1, <1>7 DEF WriteByte, link
  <1>8. CASE Flush
    BY <1>1, <1>8 DEF Flush, link
  <1>9. CASE WriteValue
    BY <1>1, <1>9 DEF WriteValue, link
  <1>10. CASE Look \/ PopNone \/ PopLoad \/ PopStore
    BY <1>10 DEF Look, PopNone, PopLoad, PopStore, link, send
  <1>11. CASE UNCHANGED wireVars
    BY <1>11 DEF wireVars, link, send
  <1> QED
    BY <1>2, <1>3, <1>4, <1>5, <1>6, <1>7, <1>8, <1>9, <1>10, <1>11
       DEF WireNext, Host, BmsTask

(***************************************************************************)
(* The pack is only ever sent whole requests, whenever the link goes and   *)
(* whatever is read between: of a request a link went under nothing is     *)
(* left for the next (BleSerialClient.cpp:280-298).                        *)
(***************************************************************************)
THEOREM WholeRequests == WireSpec => []RequestsWhole
  <1>1. RequestSoFar => RequestsWhole
    BY DEF RequestSoFar
  <1> QED
    BY RequestInit, RequestNext, <1>1, PTL DEF WireSpec

LEMMA WireTypesOK == WireTypes /\ RequestSoFar => WireTypeOK
  BY DEF WireTypes, LinkTypes, PeerTypes, RingTypes, ReadTypes, RequestSoFar, WireTypeOK,
         Cells, Origins, Receivers, Entries

(***************************************************************************)
(* The types of the serial line, on every step of either task: the ring's  *)
(* two indices stay within it, and what the receiver has of a frame is     *)
(* bytes (ByteRingBuffer.h:6-50, bms2.cpp:1695-2021).                      *)
(***************************************************************************)
THEOREM WireTypeCorrect == WireSpec => []WireTypeOK
  <1>1. WireInv => WireTypes
    BY DEF WireInv
  <1> QED
    BY WireInvariant, RequestInit, RequestNext, WireTypesOK, <1>1, PTL DEF WireSpec

(***************************************************************************)
(* On a link the library was started on, what is handled is that link's    *)
(* frames, each whole, once and in the order they were sent, whatever      *)
(* their bytes, however they are split into notifications and whatever an  *)
(* earlier link left behind (BleSerialClient.cpp:9-16, 208;                *)
(* ByteRingBuffer.h:15-44; bms2.cpp:85, 1695-2021).                        *)
(***************************************************************************)
THEOREM StartedLinkInOrder == WireSpec => [](began = conn => OwnFramesInOrder)
  <1>1. WireInv => (began = conn => OwnFramesInOrder)
    BY DEF WireInv, StartedInOrder
  <1> QED
    BY WireInvariant, <1>1, PTL

LEMMA AllHandled == WireInv => NoFrameLost
  <1> SUFFICES ASSUME WireInv, linked, began = conn, getLength = 0, due = 0
               PROVE  \A n \in first + 1 .. sent :
                        Sound(Frames[n]) => \E k \in 1 .. Len(handled) : handled[k].of = n
    BY DEF NoFrameLost
  <1>1. head = tail
    BY LengthTypes DEF WireInv, WireTypes, RingTypes
  <1>2. NextOut.of = sent + 1
    BY <1>1 DEF NextOut, NextIn
  <1>3. HandledUpTo(sent + 1)
    BY <1>2 DEF WireInv, Follows, Awaits
  <1>4. (sent + 1) - 1 = sent
    BY WireConstants DEF WireInv, WireTypes, PeerTypes
  <1>5. \A n \in first + 1 .. (sent + 1) - 1 :
          Sound(Frames[n]) => \E k \in 1 .. Len(handled) : handled[k].of = n
    BY <1>3 DEF HandledUpTo
  <1> QED
    BY <1>4, <1>5

(***************************************************************************)
(* On a link the library was started on, once what has come is read, every *)
(* frame the pack sent whose sum and status are right has been handled,    *)
(* for every size of the ring, number of links, and frames                 *)
(* (BleSerialClient.cpp:208, bms2.cpp:85).                                 *)
(***************************************************************************)
THEOREM EveryFrameHandled == WireSpec => []NoFrameLost
  BY WireInvariant, AllHandled, PTL

=============================================================================
