------------------------------ MODULE JbdParams ------------------------------
(***************************************************************************)
(* The parameter calls of the Overkill Solar library: one register read or *)
(* written, a whole image of them read or written, and the factory mode    *)
(* they enter and leave under way.                                         *)
(*                                                                         *)
(* Every call is a run of exchanges: a request, and a wait that ends with  *)
(* the first frame taken for its answer, or without one.  Any parameter's  *)
(* reply ends the wait for any other's, so an answer that comes late is    *)
(* taken for the next one's.  The pack itself is external.                 *)
(***************************************************************************)
EXTENDS JbdRegisters, FiniteSets

CONSTANTS
  Registers,       \* the registers calls are made about
  Order,           \* those of an image, in the order the library takes them
  Values,          \* Values[r]: what a caller sets r to
  Percents,        \* the capacity voltages a caller asks for
  Images,          \* the images a caller writes, a word for each of Order
  Stored,          \* Stored[r]: the word the pack starts with
  Attempts,        \* requests per read_int_param() and write_int_param()
  MaxCalls,        \* calls in a behaviour
  MaxInFlight      \* frames a wait leaves over, under way or unread

ASSUME ParamsAssumption ==
  /\ Order \in Seq(Registers) /\ Order # <<>>
  /\ \A k \in 1 .. Len(Order) : \E j \in 1 .. Len(Image) : Order[k] = Image[j]
  /\ \A j, k \in 1 .. Len(Order) : Order[j] = Order[k] => j = k
  /\ \A percent \in Percents : CapacityVoltage(percent) \in Registers
  /\ \A reg \in Registers : \A v \in Values[reg] : Set(reg, v) \in Word
  /\ Images \subseteq [1 .. Len(Order) -> Word] /\ Stored \in [Registers -> Word]
  /\ Attempts \in Nat \ {0} /\ MaxCalls \in Nat /\ MaxInFlight \in Nat \ {0}

VARIABLES
  forgets,         \* the pack keeps nothing when left with 0x0000
  open,            \* the pack is in factory mode
  ram, eeprom,     \* its registers in force, and those it starts up with
  air,             \* the frames under way and those not read yet
  paramOk,         \* m_param_success
  inFactory,       \* m_in_factory_mode
  pc,              \* which exchange is next, "idle" between calls
  call,            \* the call that is being made, or was made last
  phase,           \* set_params(): "old" while it reads, "new" then
  i,               \* the register of the image it is at
  attempt,         \* which attempt this is
  resp,            \* what a refused attempt has got all the same
  old,             \* old_params, or what get_params() fills in
  ok,              \* param_success() as the last call returned
  result,          \* what a getter returned, {} if nothing has
  onTime,          \* history: no request of the call found a frame left over
  wanted,          \* history: the value each register was set to last, {} if
                   \* that failed, or took a frame left over for its answer
  was,             \* history: the EEPROM as set_params() began
  calls            \* calls made so far

pack == << forgets, open, ram, eeprom, air >>
lib  == << paramOk, inFactory >>
walk == << phase, i, old >>
past == << onTime, wanted, was, calls >>
vars == << pack, lib, pc, call, walk, attempt, resp, ok, result, past >>

-----------------------------------------------------------------------------
(* The call under way. *)

Whole   == { "get_params", "set_params" }
Reading == call.op = "get" \/ (call.op \in Whole /\ phase = "old")
Reg     == IF call.op \in Whole THEN Order[i] ELSE call.reg
NewWord == IF call.op \in Whole THEN call.words[i] ELSE Set(call.reg, call.value)
Saving  == call.op = "set" /\ Saves(call.reg, call.save)

NoCall == [op |-> "none", reg |-> 0, value |-> 0, save |-> FALSE, words |-> <<>>]

Init ==
  /\ forgets \in BOOLEAN /\ open = FALSE /\ ram = Stored /\ eeprom = Stored
  /\ air = <<>>
  /\ paramOk = TRUE /\ inFactory = FALSE
  /\ pc = "idle" /\ call = NoCall
  /\ phase = "old" /\ i = 1 /\ old = [k \in 1 .. Len(Order) |-> 0]
  /\ attempt = 1 /\ resp = 0 /\ ok = FALSE /\ result = {}
  /\ onTime = TRUE /\ wanted = [r \in Registers |-> {}]
  /\ was = Stored /\ calls = 0

-----------------------------------------------------------------------------
(* The pack, external: what it does with a request, and its answer. *)

Accepted(req) == req.op \in { "enter", "exit" } \/ open

Serve(req) ==
  /\ open' = (req.op = "enter" \/ (open /\ req.op # "exit"))
  /\ ram' = IF req.op = "write" /\ open THEN [ram EXCEPT ![req.reg] = req.word] ELSE ram
  /\ eeprom' = IF req.op = "exit" /\ open /\ (req.save \/ ~forgets) THEN ram ELSE eeprom

Answer(req) ==
  [of   |-> IF ~Accepted(req) THEN "refused"
            ELSE IF req.op \in { "enter", "exit" } THEN req.op
            ELSE IF req.reg \in Routed THEN req.op ELSE "skipped",
   word |-> IF req.op = "read" THEN ram[req.reg] ELSE 0]

(* A pack in trouble leaves factory mode by itself. *)
LeavesFactory ==
  /\ open /\ open' = FALSE
  /\ UNCHANGED << forgets, ram, eeprom, air, lib, pc, call, walk >>
  /\ UNCHANGED << attempt, resp, ok, result, past >>

-----------------------------------------------------------------------------
(* write() and atomic_param_read(): frames are read until one ends the     *)
(* wait, with what else has come in by then.  One with an error status is  *)
(* dropped, but its status is what m_rx_status is left at.                 *)

Ends(frame, req) ==
  IF req.op \in { "enter", "exit" } THEN frame.of = req.op
  ELSE frame.of \in { "read", "write" }

LastRead(frames, n) ==
  frames[n].of = "read" /\ \A m \in n + 1 .. Len(frames) : frames[m].of # "read"

Answered(frames, req) ==
  LET last == { n \in 1 .. Len(frames) : LastRead(frames, n) }
  IN  [got  |-> \E n \in 1 .. Len(frames) : Ends(frames[n], req),
       nak  |-> frames # <<>> /\ frames[Len(frames)].of = "refused",
       word |-> IF last = {} THEN 0 ELSE frames[CHOOSE n \in last : TRUE].word]

(* How an exchange may go: the pack may not hear the request, nor answer   *)
(* it, and so many frames are read before the wait is over.                *)
Outcomes == [way : { "unheard", "unanswered", "answered" }, read : 0 .. MaxInFlight + 1]

Came(req, x) == IF x.way = "answered" THEN Append(air, Answer(req)) ELSE air

AnswerOf(req, x) == Answered(SubSeq(Came(req, x), 1, x.read), req)

Exchange(req, x) ==
  /\ Len(Came(req, x)) - x.read \in 0 .. MaxInFlight
  /\ air' = SubSeq(Came(req, x), x.read + 1, Len(Came(req, x)))
  /\ IF x.way # "unheard" THEN Serve(req) ELSE UNCHANGED << open, ram, eeprom >>
  /\ onTime' = (onTime /\ air = <<>>)
  /\ UNCHANGED << forgets, call, was, calls >>

Acked(answer) == answer.got /\ ~answer.nak

Request(op) ==
  [op |-> op, reg |-> Reg, word |-> IF op = "write" THEN NewWord ELSE 0]

ToEnter      == [op |-> "enter"]
ToExit(save) == [op |-> "exit", save |-> save]

EnterFactoryMode(x) ==
  /\ Exchange(ToEnter, x)
  /\ inFactory' = (inFactory \/ Acked(AnswerOf(ToEnter, x)))

ExitFactoryMode(save, x) ==
  /\ Exchange(ToExit(save), x)
  /\ inFactory' = (inFactory /\ ~Acked(AnswerOf(ToExit(save), x)))

-----------------------------------------------------------------------------
(* A register is read or written once more, or the next one is. *)

Begin(n) ==
  /\ attempt' = n
  /\ pc' = IF inFactory' THEN "ask" ELSE "enter"

Return ==
  /\ pc' = "idle" /\ ok' = paramOk' /\ attempt' = 1
  /\ UNCHANGED << phase, i >>

(* The next register of the image that has to be asked for. *)
Onwards(words) ==
  LET left == { k \in i + 1 .. Len(Order) : Reading \/ call.words[k] # words[k] } IN
    IF left = {}
    THEN pc' = "close" /\ attempt' = 1 /\ UNCHANGED << phase, i >>
    ELSE /\ \E k \in left : i' = k /\ \A l \in left : k <= l
         /\ Begin(1) /\ UNCHANGED phase

ReadEnds(success, word) ==
  /\ paramOk' = (paramOk /\ success)
  /\ IF call.op = "get"
     THEN /\ Return /\ result' = {Get(call.reg, word, paramOk')}
          /\ UNCHANGED << old, wanted >>
     ELSE /\ old' = [old EXCEPT ![i] = word] /\ Onwards(old')
          /\ UNCHANGED << ok, result, wanted >>

WriteEnds(success) ==
  /\ paramOk' = (paramOk /\ success)
  /\ IF call.op = "set"
     THEN /\ Return
          /\ wanted' = [wanted EXCEPT ![Reg] = IF ok' /\ onTime' THEN {call.value} ELSE {}]
     ELSE Onwards(old) /\ UNCHANGED << ok, wanted >>
  /\ UNCHANGED << old, result >>

Ended(success, word) ==
  IF Reading THEN ReadEnds(success, word) ELSE WriteEnds(success)

-----------------------------------------------------------------------------
(* Calls. *)

Call(op, reg, value, save, words) ==
  /\ pc = "idle" /\ calls < MaxCalls
  /\ call' = [op |-> op, reg |-> reg, value |-> value, save |-> save, words |-> words]
  /\ calls' = calls + 1 /\ was' = IF op = "set_params" THEN eeprom ELSE was
  /\ phase' = "old" /\ i' = 1 /\ attempt' = 1 /\ result' = {} /\ ok' = FALSE
  /\ onTime' = TRUE
  /\ UNCHANGED << pack, resp, old, inFactory >>

GetParam(reg) ==
  /\ Call("get", reg, 0, FALSE, <<>>)
  /\ pc' = IF inFactory THEN "ask" ELSE "enter"
  /\ UNCHANGED << paramOk, wanted >>

(* A percent there is no register for reads another one, and has failed. *)
GetCapacityVoltage(percent) ==
  /\ Call("get", CapacityVoltage(percent), 0, FALSE, <<>>)
  /\ paramOk' = (paramOk /\ percent \in { 80, 60, 40, 20 })
  /\ pc' = IF inFactory THEN "ask" ELSE "enter"
  /\ UNCHANGED wanted

SetParam(reg, value, save) ==
  /\ Call("set", reg, value, save, <<>>)
  /\ pc' = IF inFactory THEN "ask" ELSE "enter"
  /\ UNCHANGED << paramOk, wanted >>

GetParams ==
  /\ Call("get_params", 0, 0, FALSE, <<>>)
  /\ pc' = "open"
  /\ UNCHANGED << paramOk, wanted >>

SetParams(words) ==
  /\ Call("set_params", 0, 0, FALSE, words)
  /\ pc' = "open"
  /\ wanted' = [r \in Registers |-> {}]
  /\ UNCHANGED paramOk

(* param_clear_errors(): what has failed once fails every scaled getter. *)
ClearErrors ==
  /\ pc = "idle" /\ paramOk' = TRUE
  /\ UNCHANGED << pack, inFactory, pc, call, walk, attempt, resp, ok, result, past >>

(* main_task() reads what is left over. *)
Drain ==
  /\ pc = "idle" /\ air # <<>>
  /\ air' = Tail(air)
  /\ UNCHANGED << forgets, open, ram, eeprom, lib, pc, call, walk >>
  /\ UNCHANGED << attempt, resp, ok, result, past >>

-----------------------------------------------------------------------------
(* read_int_param() and write_int_param(). *)

(* Whether it has been entered is not looked at. *)
Enter ==
  /\ pc = "enter"
  /\ \E x \in Outcomes : EnterFactoryMode(x)
  /\ pc' = "ask"
  /\ UNCHANGED << paramOk, walk, attempt, resp, ok, result, wanted >>

Again_Uncounted(word) ==
  IF attempt < Attempts
  THEN /\ attempt' = attempt
       /\ pc' = IF Reading \/ inFactory' THEN "ask" ELSE "enter"
       /\ UNCHANGED << paramOk, walk, ok, result, wanted >>
  ELSE Ended(FALSE, word)

Again(word) ==
  IF attempt < Attempts
  THEN /\ attempt' = attempt + 1
       /\ pc' = IF Reading \/ inFactory' THEN "ask" ELSE "enter"
       /\ UNCHANGED << paramOk, walk, ok, result, wanted >>
  ELSE Ended(FALSE, word)

(* One attempt: it succeeds, times out, or is refused. *)
Ask ==
  /\ pc = "ask"
  /\ UNCHANGED inFactory
  /\ LET req == Request(IF Reading THEN "read" ELSE "write") IN
       \E x \in Outcomes : LET a == AnswerOf(req, x) IN
         /\ Exchange(req, x)
         /\ resp' = IF Acked(a) \/ ~a.got THEN 0 ELSE a.word
         /\ \/ Acked(a) /\ ~Saving /\ Ended(TRUE, a.word)
            \/ ~a.got /\ Again(a.word)
            \/ /\ a.got /\ (a.nak \/ Saving)
               /\ pc' = IF a.nak THEN "leave" ELSE "save"
               /\ UNCHANGED << paramOk, walk, attempt, ok, result, wanted >>

Save ==
  /\ pc = "save"
  /\ \E x \in Outcomes :
       ExitFactoryMode(TRUE, x) /\ Ended(Acked(AnswerOf(ToExit(TRUE), x)), 0)
  /\ UNCHANGED resp

(* A refused read leaves without saving, a refused write saves. *)
Leave ==
  /\ pc = "leave"
  /\ \E x \in Outcomes : ExitFactoryMode(~Reading, x)
  /\ pc' = "reenter"
  /\ UNCHANGED << paramOk, walk, attempt, resp, ok, result, wanted >>

Reenter ==
  /\ pc = "reenter"
  /\ resp' = 0
  /\ \E x \in Outcomes : EnterFactoryMode(x)
  /\ Again(resp)

-----------------------------------------------------------------------------
(* get_params() and set_params(): enter, one by one, leave. *)

Open ==
  /\ pc = "open"
  /\ \E x \in Outcomes : EnterFactoryMode(x)
  /\ LET left == { k \in 1 .. Len(Order) : Reading \/ call.words[k] # old[k] } IN
       IF left = {}
       THEN pc' = "close" /\ UNCHANGED << i, attempt >>
       ELSE (\E k \in left : i' = k /\ \A l \in left : k <= l) /\ Begin(1)
  /\ UNCHANGED << paramOk, phase, old, resp, ok, result, wanted >>

Commits_Anyway == call.op = "set_params" /\ phase = "new"

(* The image is written to the EEPROM unless something has failed. *)
Commits == call.op = "set_params" /\ phase = "new" /\ paramOk

Close ==
  /\ pc = "close"
  /\ \E x \in Outcomes : ExitFactoryMode(Commits, x)
  /\ IF call.op = "set_params" /\ phase = "old"
     THEN pc' = "open" /\ phase' = "new" /\ UNCHANGED ok
     ELSE pc' = "idle" /\ ok' = paramOk /\ UNCHANGED phase
  /\ UNCHANGED << paramOk, i, old, attempt, resp, result, wanted >>

-----------------------------------------------------------------------------
Library == Enter \/ Ask \/ Save \/ Leave \/ Reenter \/ Open \/ Close

Caller ==
  \/ \E r \in Registers : GetParam(r)
  \/ \E percent \in Percents : GetCapacityVoltage(percent)
  \/ \E r \in Registers, save \in BOOLEAN : \E v \in Values[r] : SetParam(r, v, save)
  \/ GetParams \/ \E words \in Images : SetParams(words)
  \/ ClearErrors

Next == Caller \/ Library \/ Drain \/ LeavesFactory

(* A call runs on until it returns. *)
Spec == Init /\ [][Next]_vars /\ WF_vars(Library)

TypeOK ==
  /\ forgets \in BOOLEAN /\ open \in BOOLEAN /\ onTime \in BOOLEAN
  /\ ram \in [Registers -> Word] /\ eeprom \in [Registers -> Word]
  /\ air \in Seq([of : {"enter", "exit", "read", "write", "refused", "skipped"},
                  word : Word])
  /\ Len(air) <= MaxInFlight
  /\ paramOk \in BOOLEAN /\ inFactory \in BOOLEAN /\ ok \in BOOLEAN
  /\ pc \in {"idle", "enter", "ask", "save", "leave", "reenter", "open", "close"}
  /\ phase \in {"old", "new"} /\ i \in 1 .. Len(Order)
  /\ old \in [1 .. Len(Order) -> Word] /\ resp \in Word
  /\ attempt \in 1 .. Attempts /\ calls \in 0 .. MaxCalls
  /\ was \in [Registers -> Word]

(***************************************************************************)
(* set_params() is all or nothing: when it returns the EEPROM holds the    *)
(* image, or what it held, and what it held if any of it has failed, as    *)
(* long as every answer of its own comes in its own wait or not at all and *)
(* the pack forgets what it is left with 0x0000 (bms2.cpp:660-727).  With  *)
(* a late refusal a write's retry saves half of it (bms2.cpp:1524).        *)
(***************************************************************************)
SetIsWhole ==
  pc = "idle" /\ call.op = "set_params" /\ onTime /\ forgets =>
    \/ eeprom = was
    \/ ok /\ \A k \in 1 .. Len(Order) : eeprom[Order[k]] = call.words[k]

(* What a getter reads back as it was set: nothing a register has no room  *)
(* for, no fraction of its unit, and no temperature, delay, percent or     *)
(* 0x23.                                                                   *)
Undone(reg, v) ==
  \/ reg = NumCells /\ v \in 0 .. 255
  \/ reg \in Plain /\ v \in Word
  \/ reg \in Tens \ {\h23} /\ \E w \in Word : v = 10 * w
  \/ reg = Discharge /\ \E w \in Word \ {0} : v = 10 * w

(***************************************************************************)
(* What a register was last set to is what it is read as, and a percent no *)
(* more than a tenth less, once both calls have gone well, over retries of *)
(* either and whatever calls were between, as long as every answer of      *)
(* these two came in its own wait or not at all: late ones before either   *)
(* and between them do no lasting harm (bms2.cpp:729-1082, 1421-1567).     *)
(***************************************************************************)
SetIsRead ==
  pc = "idle" /\ call.op = "get" /\ ok /\ onTime =>
    \A v \in wanted[call.reg], w \in result :
      /\ Undone(call.reg, v) => w = v
      /\ call.reg = Percent /\ v \in Word => w \in { v - 1, v }

(***************************************************************************)
(* Every call returns, however the pack answers: refusals, timeouts and    *)
(* failures to enter factory mode are all of a counted attempt             *)
(* (bms2.cpp:1434, 1501).                                                  *)
(***************************************************************************)
CallsReturn == pc # "idle" ~> pc = "idle"

=============================================================================
