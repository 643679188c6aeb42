------------------------------- MODULE JbdWire -------------------------------
(***************************************************************************)
(* The serial line to the battery: BleSerialClient's receive ring, filled  *)
(* by the NimBLE host task and emptied by the BMS task, the receiver of    *)
(* the Overkill Solar library, byte by byte, and its requests.             *)
(*                                                                         *)
(* The host task runs above the BMS task on one core (external), so that   *)
(* it adds bytes, or clears the ring, between any two steps of the BMS     *)
(* task and never the other way about.  Each byte it adds is a step, which *)
(* is every way an answer may be split into notifications.                 *)
(***************************************************************************)
EXTENDS Integers, Sequences, SequencesExt

CONSTANTS
  N,               \* RX_BUFFER_SIZE
  Frames,          \* what the pack answers, one after the other
  RequestBytes,    \* bytes in a request
  MaxConns         \* links in a behaviour

Byte == 0 .. 255
Sums == 0 .. 65535
BMS_MAX_RX_DATA_LEN == 64

(* A frame's checksum is whatever the pack sent, right or not. *)
ASSUME WireAssumption ==
  /\ N \in Nat \ {0, 1} /\ RequestBytes \in Nat \ {0} /\ MaxConns \in Nat
  /\ Frames \in Seq([cmd : Byte, status : Byte, data : Seq(Byte), checksum : Sums])
  /\ \A n \in 1 .. Len(Frames) : Len(Frames[n].data) <= BMS_MAX_RX_DATA_LEN

VARIABLES
  conn,            \* which link this is, 0 before the first
  linked,          \* bleConnected, and the characteristics are there
  attached,        \* bmsAttached_
  began,           \* the link bms_.begin() was called on
  asked,           \* the pack has a request to answer
  sent,            \* frames the pack has begun to send
  first,           \* history: those of earlier links
  due,             \* bytes left of the last one to notify
  buffer, head, tail,  \* receiveBuffer
  origin,          \* history: the frame each byte of it is of, and where in it
  task,            \* what the BMS task is at
  left,            \* bytes_available, less those read
  held,            \* what pop() has loaded, from where, and of which frame
  rx,              \* the receiver: m_rx_state and what it has of a frame
  handled,         \* history: the frames handled over this link
  wrote,           \* bytes of the request written
  txLength,        \* transmitBufferLength
  told             \* history: the length of what was last sent

link == << conn, linked, attached, began >>
peer == << asked, sent, first, due >>
ring == << buffer, head, tail, origin >>
recv == << left, held, rx, handled >>
send == << wrote, txLength, told >>
wireVars == << link, peer, ring, task, recv, send >>

-----------------------------------------------------------------------------
(* The bytes of a frame. *)

StartByte == \hDD
StopByte  == \h77

(* Over the status, the length and the data, but not the command. *)
Checksum(status, data) ==
  (65536 - FoldLeft(LAMBDA sum, byte : sum + byte, status + Len(data), data)) % 65536

ByteAt(f, at) ==
  LET l == Len(f.data) IN
    CASE at = 1     -> StartByte
      [] at = 2     -> f.cmd
      [] at = 3     -> f.status
      [] at = 4     -> l
      [] at \in 5 .. l + 4 -> f.data[at - 4]
      [] at = l + 5 -> f.checksum \div 256
      [] at = l + 6 -> f.checksum % 256
      [] at = l + 7 -> StopByte

Size(n) == Len(Frames[n].data) + 7

(* A frame the library makes something of. *)
Sound(f) == f.status = 0 /\ f.checksum = Checksum(f.status, f.data)

-----------------------------------------------------------------------------
(* ByteRingBuffer. *)

getLength == IF head >= tail THEN head - tail ELSE N - tail + head

Step(index) == (index + 1) % N

(* add(): the oldest byte makes room. *)
Add(byte) ==
  /\ buffer' = [buffer EXCEPT ![head] = byte]
  /\ head' = Step(head)
  /\ tail' = IF head' = tail THEN Step(tail) ELSE tail

Clear == head' = 0 /\ tail' = 0 /\ UNCHANGED << buffer, origin >>

-----------------------------------------------------------------------------
(* serial_rx_task() on one byte. *)

Waiting == [state |-> "start", cmd |-> 0, status |-> 0, length |-> 0,
            data |-> <<>>, checksum |-> 0]

Fits(c) ==
  \/ rx.state \in { "cmd", "status", "length", "data", "msb", "lsb" }
  \/ rx.state = "start" /\ c = StartByte

(* m_rx_state after a byte that fits. *)
After(c) ==
  CASE rx.state = "start"  -> "cmd"
    [] rx.state = "cmd"    -> "status"
    [] rx.state = "status" -> "length"
    [] rx.state = "length" -> IF c = 0 THEN "msb" ELSE "data"
    [] rx.state = "data"   -> IF Len(rx.data) + 1 >= rx.length THEN "msb" ELSE "data"
    [] rx.state = "msb"    -> "lsb"
    [] rx.state = "lsb"    -> "stop"

Taken(c) ==
  IF rx.state = "start" THEN [Waiting EXCEPT !.state = "cmd"]
  ELSE [state    |-> After(c),
        cmd      |-> IF rx.state = "cmd" THEN c ELSE rx.cmd,
        status   |-> IF rx.state = "status" THEN c ELSE rx.status,
        length   |-> IF rx.state = "length" THEN c ELSE rx.length,
        data     |-> IF rx.state = "data" THEN Append(rx.data, c) ELSE rx.data,
        checksum |-> CASE rx.state = "msb" -> c * 256
                       [] rx.state = "lsb" -> rx.checksum + c
                       [] OTHER            -> rx.checksum]

(* A frame is handled if its sum and its stop byte are right and its       *)
(* status is 0; anything else is an error, and the next start is awaited.  *)
Complete(c) ==
  /\ rx.state = "stop"
  /\ rx.checksum = Checksum(rx.status, rx.data) /\ rx.status = 0
  /\ c = StopByte

(* What is handled is known by the frame its last byte came of.            *)
Receive(c, of) ==
  /\ rx' = IF Fits(c) THEN Taken(c) ELSE [rx EXCEPT !.state = "start"]
  /\ handled' = IF Complete(c) /\ linked
                THEN Append(handled, [of |-> of, cmd |-> rx.cmd, data |-> rx.data])
                ELSE handled

NoByte == [byte |-> 0, from |-> 0, of |-> 0]

-----------------------------------------------------------------------------
WireInit ==
  /\ conn = 0 /\ linked = FALSE /\ attached = FALSE /\ began = 0
  /\ asked = FALSE /\ sent = 0 /\ first = 0 /\ due = 0
  /\ buffer = [n \in 0 .. N - 1 |-> 0] /\ head = 0 /\ tail = 0
  /\ origin = [n \in 0 .. N - 1 |-> [of |-> 0, at |-> 0]]
  /\ task = "out" /\ left = 0 /\ held = NoByte
  /\ rx = Waiting /\ handled = <<>>
  /\ wrote = 0 /\ txLength = 0 /\ told = 0

-----------------------------------------------------------------------------
(* The pack, and the NimBLE host task. *)

(* Every request is followed by a wait that reads every 10 ms, and 4096    *)
(* bytes are never left unread.                                            *)
Room(n) == getLength + Size(n) < N

PackAnswers ==
  /\ linked /\ asked /\ due = 0 /\ sent < Len(Frames) /\ Room(sent + 1)
  /\ asked' = FALSE /\ sent' = sent + 1 /\ due' = Size(sent + 1)
  /\ UNCHANGED << link, first, ring, task, recv, send >>

(* notifyCallback(), byte by byte. *)
Notify ==
  /\ linked /\ due > 0
  /\ LET at == Size(sent) - due + 1
     IN  /\ Add(ByteAt(Frames[sent], at))
         /\ origin' = [origin EXCEPT ![head] = [of |-> sent, at |-> at]]
  /\ due' = due - 1
  /\ UNCHANGED << link, asked, sent, first, task, recv, send >>

(* onDisconnect() clears the ring, whatever the BMS task is doing with it. *)
Disconnect ==
  /\ linked /\ linked' = FALSE
  /\ Clear
  /\ asked' = FALSE /\ due' = 0
  /\ UNCHANGED << conn, attached, began, sent, first, task, recv, send >>

-----------------------------------------------------------------------------
(* The BMS task: bleLoop(), and service() that attaches and detaches. *)

Connected_KeepRing ==
  /\ task = "out" /\ ~linked /\ conn < MaxConns
  /\ conn' = conn + 1 /\ linked' = TRUE
  /\ first' = sent /\ handled' = <<>>
  /\ UNCHANGED << attached, began, asked, sent, due, ring, task, left, held, rx, send >>

(* A link that came and went between two looks of service() is not noticed. *)
Connected ==
  /\ task = "out" /\ ~linked /\ conn < MaxConns
  /\ conn' = conn + 1 /\ linked' = TRUE
  /\ Clear
  /\ first' = sent /\ handled' = <<>>
  /\ UNCHANGED << attached, began, asked, sent, due, task, left, held, rx, send >>

Attach_KeepState ==
  /\ task = "out" /\ linked /\ ~attached
  /\ attached' = TRUE /\ began' = conn
  /\ UNCHANGED << conn, linked, peer, ring, task, recv, send >>

(* bms_.begin() waits for a start byte. *)
Attach ==
  /\ task = "out" /\ linked /\ ~attached
  /\ attached' = TRUE /\ began' = conn
  /\ rx' = [rx EXCEPT !.state = "start"]
  /\ UNCHANGED << conn, linked, peer, ring, task, left, held, handled, send >>

Detach ==
  /\ task = "out" /\ ~linked /\ attached
  /\ attached' = FALSE
  /\ UNCHANGED << conn, linked, began, peer, ring, task, recv, send >>

-----------------------------------------------------------------------------
(* write(): flush(), byte by byte into the transmit buffer, then flush(). *)

WriteStart ==
  /\ task = "out" /\ attached /\ sent < Len(Frames)
  /\ task' = IF txLength > 0 /\ linked THEN "value" ELSE "write"
  /\ txLength' = IF task' = "value" THEN txLength ELSE 0
  /\ wrote' = 0
  /\ UNCHANGED << link, peer, ring, recv, told >>

(* Each is dropped without a link. *)
WriteByte ==
  /\ task = "write" /\ wrote < RequestBytes
  /\ wrote' = wrote + 1
  /\ txLength' = IF linked THEN txLength + 1 ELSE txLength
  /\ UNCHANGED << link, peer, ring, task, recv, told >>

Flush_KeepsPart ==
  /\ task = "write" /\ wrote = RequestBytes
  /\ task' = IF txLength > 0 /\ linked THEN "value" ELSE "out"
  /\ wrote' = 0
  /\ UNCHANGED << link, peer, ring, recv, txLength, told >>

(* Without a link what has been written of it is dropped. *)
Flush ==
  /\ task = "write" /\ wrote = RequestBytes
  /\ task' = IF txLength > 0 /\ linked THEN "value" ELSE "out"
  /\ wrote' = 0 /\ txLength' = IF task' = "value" THEN txLength ELSE 0
  /\ UNCHANGED << link, peer, ring, recv, told >>

(* writeValue(), which goes nowhere when the link has just gone. *)
WriteValue ==
  /\ task = "value"
  /\ IF linked THEN asked' = TRUE /\ told' = txLength ELSE UNCHANGED << asked, told >>
  /\ txLength' = 0
  /\ task' = "out"
  /\ UNCHANGED << link, sent, first, due, ring, recv, wrote >>

-----------------------------------------------------------------------------
(* serial_rx_task(): as many bytes as there were. *)

Look ==
  /\ task = "out" /\ attached /\ getLength > 0
  /\ task' = "pop" /\ left' = getLength
  /\ UNCHANGED << link, peer, ring, held, rx, handled, send >>

(* pop(): the ring may be empty by now, and the -1 is a byte like any.     *)
PopNone ==
  /\ task = "pop" /\ head = tail
  /\ Receive(255, 0)
  /\ left' = left - 1 /\ task' = IF left = 1 THEN "out" ELSE "pop"
  /\ UNCHANGED << link, peer, ring, held, send >>

PopLoad ==
  /\ task = "pop" /\ head # tail
  /\ held' = [byte |-> buffer[tail], from |-> tail, of |-> origin[tail].of]
  /\ task' = "popped"
  /\ UNCHANGED << link, peer, ring, left, rx, handled, send >>

(* tail = (tail + 1) % N, of the tail loaded before or of one read anew. *)
PopStore ==
  /\ task = "popped"
  /\ tail' \in { Step(held.from), Step(tail) }
  /\ Receive(held.byte, held.of)
  /\ left' = left - 1 /\ task' = IF left = 1 THEN "out" ELSE "pop"
  /\ held' = NoByte
  /\ UNCHANGED << link, peer, buffer, head, origin, send >>

-----------------------------------------------------------------------------
Host == PackAnswers \/ Notify \/ Disconnect

BmsTask ==
  \/ Connected \/ Attach \/ Detach
  \/ WriteStart \/ WriteByte \/ Flush \/ WriteValue
  \/ Look \/ PopNone \/ PopLoad \/ PopStore

WireNext == Host \/ BmsTask

WireSpec == WireInit /\ [][WireNext]_wireVars

-----------------------------------------------------------------------------
States == { "start", "cmd", "status", "length", "data", "msb", "lsb", "stop" }

WireTypeOK ==
  /\ conn \in 0 .. MaxConns /\ linked \in BOOLEAN /\ attached \in BOOLEAN
  /\ began \in 0 .. MaxConns /\ asked \in BOOLEAN
  /\ sent \in 0 .. Len(Frames) /\ first \in 0 .. Len(Frames) /\ due \in Nat
  /\ head \in 0 .. N - 1 /\ tail \in 0 .. N - 1
  /\ buffer \in [0 .. N - 1 -> Byte] /\ origin \in [0 .. N - 1 -> [of : Nat, at : Nat]]
  /\ task \in { "out", "write", "value", "pop", "popped" } /\ left \in 0 .. N
  /\ held \in [byte : Byte, from : 0 .. N - 1, of : Nat]
  /\ rx \in [state : States, cmd : Byte, status : Byte, length : Byte,
             data : Seq(Byte), checksum : Nat]
  /\ handled \in Seq([of : Nat, cmd : Byte, data : Seq(Byte)])
  /\ wrote \in 0 .. RequestBytes /\ txLength \in 0 .. RequestBytes /\ told \in Nat

(* An entry of handled is the frame it came of, whole. *)
IsFrame(entry) ==
  /\ entry.of \in first + 1 .. sent
  /\ entry.cmd = Frames[entry.of].cmd /\ entry.data = Frames[entry.of].data
  /\ Sound(Frames[entry.of])

(***************************************************************************)
(* What is handled while a link is up are this link's frames, each whole,  *)
(* once and in order, though the link may have come unnoticed in the       *)
(* middle of a frame, and though the ring was cleared under a pop()        *)
(* (ByteRingBuffer.h:25-44, bms2.cpp:1695-2021).  On a link the library    *)
(* was started on this is so for any frames (StartedLinkInOrder).  On one  *)
(* that came unnoticed it is for frames such as those of the run: where    *)
(* the bytes of one frame from the middle on, and of the next, make a      *)
(* sound frame, nothing in the code can tell.                              *)
(***************************************************************************)
OwnFramesInOrder ==
  \A k \in 1 .. Len(handled) :
    /\ IsFrame(handled[k])
    /\ k > 1 => handled[k - 1].of < handled[k].of

(***************************************************************************)
(* Once all is read, no frame of the link the library was started on is    *)
(* missing: nothing an earlier link left in the ring or in the receiver    *)
(* takes a byte of it (BleSerialClient.cpp:208, bms2.cpp:85).              *)
(***************************************************************************)
NoFrameLost ==
  linked /\ began = conn /\ task = "out" /\ getLength = 0 /\ due = 0 =>
    \A n \in first + 1 .. sent :
      Sound(Frames[n]) => \E k \in 1 .. Len(handled) : handled[k].of = n

(***************************************************************************)
(* The pack is only ever sent whole requests: of one a link went under,    *)
(* nothing is left for the next (BleSerialClient.cpp:280-298).             *)
(***************************************************************************)
RequestsWhole == told \in { 0, RequestBytes }

=============================================================================
