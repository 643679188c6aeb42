--------------------------- MODULE BmsSessionProofs ---------------------------
(***************************************************************************)
(* What the panel says of the battery it is attached to is that battery's, *)
(* for every number of links, limits, attempts and replies under way.      *)
(*                                                                         *)
(* PromptLimitsAreOwn speaks of the state all limits are read in and is    *)
(* far from inductive.  The argument: on a link that is answered in time   *)
(* every reply is the one asked for, so that no wait ends on another's     *)
(* and none is refused; the pack then never leaves factory mode, so that   *)
(* if the library is right about it in the end it was right all along, and *)
(* the query that came before the reads has forgiven what failed earlier.  *)
(***************************************************************************)
EXTENDS BmsSession, TLAPS

Frames == [of : Asking \cup {"refused"}, reg : 0 .. Len(Limits)]

(* TypeOK, and what a call has of attempts and steps left. *)
PackTypes ==
  /\ conn \in 0 .. MaxConns /\ linked \in BOOLEAN
  /\ prompt \in BOOLEAN /\ open \in BOOLEAN /\ fault \in BOOLEAN
  /\ air \in Seq(Frames) /\ Len(air) <= MaxInFlight

LibTypes ==
  /\ info \in [conn : 0 .. MaxConns, fault : BOOLEAN]
  /\ paramOk \in BOOLEAN /\ inFactory \in BOOLEAN

WaitTypes ==
  /\ pc \in Asking \cup {"top", "work", "params", "refresh"}
  /\ got \in BOOLEAN /\ refused \in BOOLEAN
  /\ attempt \in 1 .. IF pc = "info" THEN QueryAttempts ELSE ReadAttempts + 1
  /\ pc = "read" => attempt <= ReadAttempts
  /\ resp \in 0 .. Len(Limits)

WorkTypes ==
  /\ attached \in BOOLEAN /\ began \in 0 .. MaxConns /\ queried \in BOOLEAN
  /\ paramStep \in 1 .. Len(Limits) + 1
  /\ pc \in {"enter", "read", "exit"} => paramStep <= Len(Limits)
  /\ limit \in [Steps -> 0 .. Before]

FaceTypes ==
  /\ link \in {"searching", "connecting", "online"}
  /\ shown \in 0 .. MaxConns /\ valid \in BOOLEAN /\ alarm \in BOOLEAN

Types == PackTypes /\ LibTypes /\ WaitTypes /\ WorkTypes /\ FaceTypes

(* No link is older than the one the library was started on, and nothing   *)
(* the library has read since is of another.                               *)
OwnInfo ==
  /\ began <= conn
  /\ queried /\ began = conn => info = NoInfo \/ info.conn = conn

(* Between two waits nothing has come yet. *)
Fresh == pc \notin Asking => ~got /\ ~refused

(* A link that is answered in time: the reply to what is asked is under    *)
(* way, or has been read; only a pack that is not in factory mode lets a   *)
(* read time out.                                                          *)
OneReply ==
  linked /\ prompt =>
    /\ pc # "exit" /\ ~refused
    /\ pc = "enter" => attempt = 1
    /\ pc \notin Asking => air = << >>
    /\ pc \in Asking =>
         IF got THEN air = << >>
         ELSE air = << Reply(pc) >> \/ (air = << >> /\ pc = "read" /\ ~open)

(* The limits of such a pack, as far as they are read. *)
Trusted == linked /\ prompt /\ began = conn /\ (inFactory => open)

LimitsSoFar ==
  Trusted =>
    /\ \A n \in Steps : n < paramStep => limit[n] = n
    /\ queried /\ pc # "info" => paramOk
    /\ pc \in {"enter", "read"} => queried /\ open
    /\ pc = "read" => inFactory
    /\ pc = "read" /\ got => resp = paramStep

Inv == Types /\ OwnInfo /\ Fresh /\ OneReply /\ LimitsSoFar

-----------------------------------------------------------------------------
(* Types.                                                                  *)

LEMMA Bounds ==
  /\ Len(Limits) \in Nat /\ QueryAttempts \in Nat \ {0} /\ ReadAttempts \in Nat \ {0}
  /\ MaxConns \in Nat \ {0} /\ MaxInFlight \in Nat \ {0}
  BY SessionAssumption

LEMMA NothingUnderWay == << >> \in Seq(Frames) /\ Len(<< >>) <= MaxInFlight
  <1>1. Len(<< >>) = 0 /\ 0 <= MaxInFlight
    BY Bounds
  <1> QED
    BY <1>1

LEMMA SendTypes ==
  ASSUME Types, NEW of \in Asking, Send(of), of = "read" => paramStep <= Len(Limits)
  PROVE  air' \in Seq(Frames) /\ Len(air') <= MaxInFlight /\ open' \in BOOLEAN
  <1>1. air \in Seq(Frames) /\ Len(air) <= MaxInFlight /\ open \in BOOLEAN
    BY DEF Types, PackTypes
  <1>2. Reply(of) \in Frames
    <2>1. paramStep \in 1 .. Len(Limits) + 1 /\ Len(Limits) \in Nat
      BY Bounds DEF Types, WorkTypes
    <2>2. (IF of = "read" THEN paramStep ELSE 0) \in 0 .. Len(Limits)
      BY <2>1
    <2> QED
      BY <2>2 DEF Reply, Frames
  <1>3. CASE Len(air) < MaxInFlight /\ air' = Append(air, Reply(of))
    <2>1. Len(Append(air, Reply(of))) = Len(air) + 1 /\ Append(air, Reply(of)) \in Seq(Frames)
      BY <1>1, <1>2
    <2>2. Len(air) \in Nat
      BY <1>1
    <2>3. Len(air) + 1 <= MaxInFlight
      BY <1>3, <2>2, Bounds
    <2>4. open' \in BOOLEAN
      BY <1>1 DEF Send
    <2> QED
      BY <1>3, <2>1, <2>3, <2>4
  <1>4. CASE UNCHANGED << air, open >>
    BY <1>1, <1>4
  <1> QED
    BY <1>3, <1>4 DEF Send

(* A pass asks for something, or asks for nothing; the rest of the pack it *)
(* leaves alone.                                                           *)
LEMMA PassSends ==
  ASSUME Types, Pass
  PROVE  /\ UNCHANGED << conn, linked, prompt, fault >>
         /\ \/ UNCHANGED << air, open >>
            \/ \E of \in Asking : Send(of) /\ (of = "read" => paramStep <= Len(Limits))
  <1> USE DEF Asking, Goto, Try, pack
  <1>1. CASE Attach \/ Detach \/ Keep \/ NoQuery \/ NoLimit
    BY <1>1 DEF Attach, Detach, Keep, NoQuery, NoLimit
  <1>2. CASE Idle
    BY <1>2 DEF Idle, vars
  <1>3. CASE Query \/ InfoStands \/ InfoAgain \/ CellsDone
    BY <1>3 DEF Query, InfoStands, InfoAgain, CellsDone
  <1>4. CASE ReadLimit
    <2>1. paramStep <= Len(Limits)
      BY <1>4, Bounds DEF ReadLimit, paramsRead, Types, WorkTypes
    <2> QED
      BY <1>4, <2>1 DEF ReadLimit
  <1>5. CASE Entered \/ ReadAgain \/ Refused \/ Exited
    <2>1. paramStep <= Len(Limits)
      BY <1>5 DEF Entered, ReadAgain, Refused, Exited, Types, WorkTypes
    <2> QED
      BY <1>5, <2>1 DEF Entered, ReadAgain, Refused, Exited
  <1>6. CASE LimitRead \/ ReadFails \/ GivenUp
    BY <1>6 DEF LimitRead, ReadFails, GivenUp, StoreLimit
  <1>7. CASE Refresh \/ RefreshNothing \/ NoRefresh
    BY <1>7 DEF Refresh, RefreshNothing, NoRefresh
  <1> QED
    BY <1>1, <1>2, <1>3, <1>4, <1>5, <1>6, <1>7 DEF Pass

LEMMA PackTypesNext == Types /\ [Next]_vars => PackTypes'
  <1> SUFFICES ASSUME Types, [Next]_vars
               PROVE  PackTypes'
    OBVIOUS
  <1> USE DEF PackTypes, pack
  <1>1. PackTypes
    BY DEF Types
  <1>2. CASE Connect
    <2>1. conn + 1 \in 0 .. MaxConns
      BY <1>1, <1>2, Bounds DEF Connect
    <2>2. air' = << >> /\ open' \in BOOLEAN
      BY <1>1, <1>2 DEF Connect
    <2> QED
      BY <1>1, <1>2, <2>1, <2>2, NothingUnderWay DEF Connect
  <1>3. CASE Disconnect
    <2>1. air' = << >>
      BY <1>3 DEF Disconnect
    <2> QED
      BY <1>1, <1>3, <2>1, NothingUnderWay DEF Disconnect
  <1>4. CASE LeavesFactory
    BY <1>1, <1>4 DEF LeavesFactory
  <1>5. CASE Receive
    <2>1. air' \in Seq(Frames) /\ Len(air') <= MaxInFlight
      BY <1>1, <1>5, Bounds DEF Receive
    <2> QED
      BY <1>1, <1>5, <2>1 DEF Receive
  <1>6. CASE Pass
    <2>1. UNCHANGED << conn, linked, prompt, fault >>
      BY <1>6, PassSends
    <2>2. air' \in Seq(Frames) /\ Len(air') <= MaxInFlight /\ open' \in BOOLEAN
      <3>1. CASE UNCHANGED << air, open >>
        BY <1>1, <3>1
      <3>2. CASE \E of \in Asking : Send(of) /\ (of = "read" => paramStep <= Len(Limits))
        BY <3>2, SendTypes
      <3> QED
        BY <1>6, <3>1, <3>2, PassSends
    <2> QED
      BY <1>1, <2>1, <2>2
  <1>7. CASE UNCHANGED vars
    BY <1>1, <1>7 DEF vars
  <1> QED
    BY <1>2, <1>3, <1>4, <1>5, <1>6, <1>7 DEF Next, Radio

LEMMA LibTypesNext == Types /\ [Next]_vars => LibTypes'
  <1> SUFFICES ASSUME Types, [Next]_vars
               PROVE  LibTypes'
    OBVIOUS
  <1> USE DEF LibTypes, lib
  <1>1. LibTypes /\ got \in BOOLEAN /\ refused \in BOOLEAN
    BY DEF Types, WaitTypes
  <1>2. CASE Receive
    <2>1. [conn |-> conn, fault |-> fault] \in [conn : 0 .. MaxConns, fault : BOOLEAN]
      BY DEF Types, PackTypes
    <2>2. UNCHANGED << paramOk, inFactory >>
      BY <1>2 DEF Receive
    <2>3. info' = info \/ info' = [conn |-> conn, fault |-> fault]
      BY <1>2 DEF Receive
    <2> QED
      BY <1>1, <2>1, <2>2, <2>3
  <1>3. CASE Query
    <2>1. NoInfo \in [conn : 0 .. MaxConns, fault : BOOLEAN]
      BY Bounds DEF NoInfo
    <2> QED
      BY <1>1, <1>3, <2>1 DEF Query
  <1>4. CASE InfoAgain \/ CellsDone
    BY <1>1, <1>4 DEF InfoAgain, CellsDone
  <1>5. CASE Entered \/ Exited
    BY <1>1, <1>5 DEF Entered, Exited
  <1>6. CASE LimitRead \/ ReadFails \/ GivenUp
    BY <1>1, <1>6 DEF LimitRead, ReadFails, GivenUp, StoreLimit
  <1>7. CASE Radio
    BY <1>1, <1>7 DEF Radio, Connect, Disconnect, LeavesFactory
  <1>8. CASE Attach \/ Detach \/ Keep \/ NoQuery \/ NoLimit
    BY <1>1, <1>8 DEF Attach, Detach, Keep, NoQuery, NoLimit
  <1>9. CASE InfoStands \/ ReadLimit \/ ReadAgain \/ Refused
    BY <1>1, <1>9 DEF InfoStands, ReadLimit, ReadAgain, Refused
  <1>10. CASE Refresh \/ RefreshNothing \/ NoRefresh
    BY <1>1, <1>10 DEF Refresh, RefreshNothing, NoRefresh
  <1>11. CASE Idle \/ UNCHANGED vars
    BY <1>1, <1>11 DEF Idle, vars
  <1> QED
    BY <1>2, <1>3, <1>4, <1>5, <1>6, <1>7, <1>8, <1>9, <1>10, <1>11 DEF Next, Pass

LEMMA WaitTypesNext == Types /\ [Next]_vars => WaitTypes'
  <1> SUFFICES ASSUME Types, [Next]_vars
               PROVE  WaitTypes'
    OBVIOUS
  <1> USE DEF WaitTypes, wait, Asking
  <1>1. WaitTypes
    BY DEF Types
  <1>2. /\ attempt \in Nat /\ 0 \in 0 .. Len(Limits)
        /\ 1 \in 1 .. QueryAttempts /\ 1 \in 1 .. ReadAttempts + 1 /\ 1 <= ReadAttempts
        /\ attempt < QueryAttempts => attempt + 1 \in 1 .. QueryAttempts
        /\ attempt <= ReadAttempts => attempt + 1 \in 1 .. ReadAttempts + 1
        /\ attempt < ReadAttempts => attempt + 1 <= ReadAttempts /\ attempt <= ReadAttempts
    BY <1>1, Bounds
  <1>3. CASE Receive
    <2>1. got' \in BOOLEAN /\ refused' \in BOOLEAN
      BY <1>1, <1>3 DEF Receive, Counts
    <2>2. resp' \in 0 .. Len(Limits)
      <3>1. Head(air) \in Frames
        BY <1>3 DEF Receive, Types, PackTypes
      <3> QED
        BY <1>1, <1>3, <3>1 DEF Receive, Frames
    <2> QED
      BY <1>1, <1>3, <2>1, <2>2 DEF Receive
  <1>4. CASE Radio
    BY <1>1, <1>4 DEF Radio, Connect, Disconnect, LeavesFactory
  <1>5. CASE Attach \/ Keep \/ NoQuery \/ NoLimit \/ CellsDone
    BY <1>2, <1>5 DEF Attach, Keep, NoQuery, NoLimit, CellsDone, Goto
  <1>6. CASE LimitRead \/ ReadFails \/ GivenUp
    BY <1>2, <1>6 DEF LimitRead, ReadFails, GivenUp, StoreLimit, Goto
  <1>7. CASE Refresh \/ RefreshNothing \/ NoRefresh
    BY <1>2, <1>7 DEF Refresh, RefreshNothing, NoRefresh, Goto
  <1>8. CASE Detach
    BY <1>1, <1>8 DEF Detach
  <1>9. CASE Idle \/ UNCHANGED vars
    BY <1>1, <1>9 DEF Idle, vars
  <1>10. CASE Query \/ InfoStands \/ ReadLimit
    BY <1>1, <1>2, <1>10 DEF Query, InfoStands, ReadLimit, Try
  <1>11. CASE InfoAgain
    BY <1>1, <1>2, <1>11 DEF InfoAgain, Try
  <1>12. CASE Entered
    BY <1>1, <1>2, <1>12 DEF Entered, Try
  <1>13. CASE ReadAgain
    BY <1>1, <1>2, <1>13 DEF ReadAgain, Try
  <1>14. CASE Refused
    BY <1>1, <1>2, <1>14 DEF Refused, Try
  <1>15. CASE Exited
    BY <1>1, <1>2, <1>15 DEF Exited, Try
  <1> QED
    BY <1>3, <1>4, <1>5, <1>6, <1>7, <1>8, <1>9, <1>10, <1>11, <1>12, <1>13, <1>14, <1>15
       DEF Next, Pass

LEMMA WorkTypesNext == Types /\ [Next]_vars => WorkTypes'
  <1> SUFFICES ASSUME Types, [Next]_vars
               PROVE  WorkTypes'
    OBVIOUS
  <1> USE DEF WorkTypes, work
  <1>1. WorkTypes
    BY DEF Types
  <1>2. 1 \in 1 .. Len(Limits) + 1
    BY Bounds
  <1>3. CASE Attach
    <2>1. conn \in 0 .. MaxConns /\ Before \in 0 .. Before
      BY Bounds DEF Types, PackTypes, Before
    <2> QED
      BY <1>1, <1>2, <1>3, <2>1 DEF Attach, Goto
  <1>4. CASE Detach
    BY <1>1, <1>2, <1>4 DEF Detach, wait
  <1>5. CASE LimitRead \/ ReadFails \/ GivenUp
    <2>1. paramStep <= Len(Limits)
      BY <1>1, <1>5 DEF LimitRead, ReadFails, GivenUp
    <2>2. paramStep \in Steps /\ paramStep + 1 \in 1 .. Len(Limits) + 1
      BY <1>1, <2>1, Bounds DEF Steps
    <2>3. resp \in 0 .. Before
      BY Bounds DEF Types, WaitTypes, Before
    <2>4. \A kind, ok : Stored(kind, ok) \in 0 .. Before
      BY <1>1, <2>2, <2>3 DEF Stored
    <2> QED
      BY <1>1, <1>5, <2>2, <2>4 DEF LimitRead, ReadFails, GivenUp, StoreLimit, Goto
  <1>6. CASE Query \/ InfoStands \/ InfoAgain
    BY <1>1, <1>6 DEF Query, InfoStands, InfoAgain, Try
  <1>7. CASE Keep \/ NoQuery \/ NoLimit \/ CellsDone
    BY <1>1, <1>7 DEF Keep, NoQuery, NoLimit, CellsDone, Goto
  <1>8. CASE ReadLimit
    <2>1. paramStep <= Len(Limits)
      BY <1>1, <1>8, Bounds DEF ReadLimit, paramsRead
    <2> QED
      BY <1>1, <1>8, <2>1 DEF ReadLimit, Try
  <1>9. CASE Entered \/ ReadAgain \/ Refused \/ Exited
    BY <1>1, <1>9 DEF Entered, ReadAgain, Refused, Exited, Try
  <1>10. CASE Refresh \/ RefreshNothing \/ NoRefresh
    BY <1>1, <1>10 DEF Refresh, RefreshNothing, NoRefresh, Goto
  <1>11. CASE Receive
    BY <1>1, <1>11 DEF Receive
  <1>12. CASE Radio
    BY <1>1, <1>12 DEF Radio, Connect, Disconnect, LeavesFactory
  <1>13. CASE Idle \/ UNCHANGED vars
    BY <1>1, <1>13 DEF Idle, vars
  <1> QED
    BY <1>3, <1>4, <1>5, <1>6, <1>7, <1>8, <1>9, <1>10, <1>11, <1>12, <1>13 DEF Next, Pass

LEMMA FaceTypesNext == Types /\ [Next]_vars => FaceTypes'
  <1> SUFFICES ASSUME Types, [Next]_vars
               PROVE  FaceTypes'
    OBVIOUS
  <1> USE DEF FaceTypes, face
  <1>1. FaceTypes
    BY DEF Types
  <1>2. CASE Attach \/ Detach \/ RefreshNothing
    BY <1>1, <1>2 DEF Attach, Detach, RefreshNothing
  <1>3. CASE Refresh
    <2>1. info.conn \in 0 .. MaxConns /\ info.fault \in BOOLEAN
      BY DEF Types, LibTypes
    <2> QED
      BY <1>1, <1>3, <2>1 DEF Refresh
  <1>4. CASE Keep \/ NoQuery \/ NoLimit \/ CellsDone \/ NoRefresh
    BY <1>1, <1>4 DEF Keep, NoQuery, NoLimit, CellsDone, NoRefresh
  <1>5. CASE Query \/ InfoStands \/ InfoAgain \/ ReadLimit
    BY <1>1, <1>5 DEF Query, InfoStands, InfoAgain, ReadLimit
  <1>6. CASE Entered \/ ReadAgain \/ Refused \/ Exited
    BY <1>1, <1>6 DEF Entered, ReadAgain, Refused, Exited
  <1>7. CASE LimitRead \/ ReadFails \/ GivenUp
    BY <1>1, <1>7 DEF LimitRead, ReadFails, GivenUp, StoreLimit
  <1>8. CASE Receive \/ Radio
    BY <1>1, <1>8 DEF Receive, Radio, Connect, Disconnect, LeavesFactory
  <1>9. CASE Idle \/ UNCHANGED vars
    BY <1>1, <1>9 DEF Idle, vars
  <1> QED
    BY <1>2, <1>3, <1>4, <1>5, <1>6, <1>7, <1>8, <1>9 DEF Next, Pass

LEMMA TypesNext == Types /\ [Next]_vars => Types'
  BY PackTypesNext, LibTypesNext, WaitTypesNext, WorkTypesNext, FaceTypesNext DEF Types

-----------------------------------------------------------------------------
(* What was read is of this link, once it is asked for.                    *)

LEMMA OwnInfoNext == Types /\ OwnInfo /\ [Next]_vars => OwnInfo'
  <1> SUFFICES ASSUME Types, OwnInfo, [Next]_vars
               PROVE  OwnInfo'
    OBVIOUS
  <1> USE DEF OwnInfo, NoInfo, lib, work
  <1>1. conn \in Nat /\ began \in Nat
    BY Bounds DEF Types, PackTypes, WorkTypes
  <1>2. CASE Connect
    <2>1. conn' = conn + 1 /\ began' = began
      BY <1>2 DEF Connect
    <2> QED
      BY <1>1, <2>1
  <1>3. CASE Attach
    BY <1>1, <1>3 DEF Attach
  <1>4. CASE Receive
    <2>1. info' = info \/ info' = [conn |-> conn, fault |-> fault]
      BY <1>4 DEF Receive
    <2>2. UNCHANGED << conn, began, queried >>
      BY <1>4 DEF Receive
    <2> QED
      BY <2>1, <2>2
  <1>5. CASE Query
    BY <1>5 DEF Query
  <1>6. CASE ~Connect /\ ~Attach /\ ~Receive /\ ~Query
    <2>1. UNCHANGED << conn, began, queried, info >>
      <3>1. CASE Radio
        BY <1>6, <3>1 DEF Radio, Disconnect, LeavesFactory
      <3>2. CASE Detach \/ Keep \/ NoQuery \/ NoLimit \/ CellsDone
        BY <3>2 DEF Detach, Keep, NoQuery, NoLimit, CellsDone
      <3>3. CASE InfoStands \/ InfoAgain \/ ReadLimit
        BY <3>3 DEF InfoStands, InfoAgain, ReadLimit
      <3>4. CASE Entered \/ ReadAgain \/ Refused \/ Exited
        BY <3>4 DEF Entered, ReadAgain, Refused, Exited
      <3>5. CASE LimitRead \/ ReadFails \/ GivenUp
        BY <3>5 DEF LimitRead, ReadFails, GivenUp, StoreLimit
      <3>6. CASE Refresh \/ RefreshNothing \/ NoRefresh
        BY <3>6 DEF Refresh, RefreshNothing, NoRefresh
      <3>7. CASE Idle \/ UNCHANGED vars
        BY <3>7 DEF Idle, vars
      <3> QED
        BY <1>6, <3>1, <3>2, <3>3, <3>4, <3>5, <3>6, <3>7 DEF Next, Pass
    <2> QED
      BY <2>1
  <1> QED
    BY <1>2, <1>3, <1>4, <1>5, <1>6

LEMMA FreshNext == Types /\ Fresh /\ [Next]_vars => Fresh'
  <1> SUFFICES ASSUME Types, Fresh, [Next]_vars
               PROVE  Fresh'
    OBVIOUS
  <1> USE DEF Fresh, Asking, wait
  <1>1. CASE Receive
    <2>1. pc' = pc /\ (pc \in Asking \/ pc = "work")
      BY <1>1 DEF Receive
    <2>2. CASE pc = "work"
      <3>1. ~got /\ ~Counts(Head(air))
        <4>1. Head(air) \in Frames
          BY <1>1 DEF Receive, Types, PackTypes
        <4> QED
          BY <2>2, <4>1 DEF Counts, Frames
      <3> QED
        BY <1>1, <2>2, <3>1 DEF Receive
    <2> QED
      BY <2>1, <2>2
  <1>2. CASE Radio \/ Detach
    BY <1>2 DEF Radio, Connect, Disconnect, LeavesFactory, Detach
  <1>3. CASE Attach \/ Keep \/ NoQuery \/ NoLimit \/ CellsDone
    BY <1>3 DEF Attach, Keep, NoQuery, NoLimit, CellsDone, Goto
  <1>4. CASE LimitRead \/ ReadFails \/ GivenUp
    BY <1>4 DEF LimitRead, ReadFails, GivenUp, StoreLimit, Goto
  <1>5. CASE Refresh \/ RefreshNothing \/ NoRefresh
    BY <1>5 DEF Refresh, RefreshNothing, NoRefresh, Goto
  <1>6. CASE Query \/ InfoStands \/ InfoAgain \/ ReadLimit
    BY <1>6 DEF Query, InfoStands, InfoAgain, ReadLimit, Try
  <1>7. CASE Entered \/ ReadAgain \/ Refused \/ Exited
    BY <1>7 DEF Entered, ReadAgain, Refused, Exited, Try
  <1>8. CASE Idle \/ UNCHANGED vars
    BY <1>8 DEF Idle, vars
  <1> QED
    BY <1>1, <1>2, <1>3, <1>4, <1>5, <1>6, <1>7, <1>8 DEF Next, Pass

-----------------------------------------------------------------------------
(* A link that is answered in time.                                        *)

(* Nothing is under way when a wait is over, or when there is none. *)
LEMMA QuietBetween ==
  ASSUME OneReply, linked, prompt, pc \notin Asking \/ Ended
  PROVE  air = << >>
  BY DEF OneReply, Ended, TimedOut

(* So that what is sent then is answered, by itself. *)
LEMMA SentAlone ==
  ASSUME Types, linked, prompt, air = << >>, NEW of \in Asking, Send(of)
  PROVE  /\ air' = << Reply(of) >>
         /\ open' = (of = "enter" \/ (open /\ of # "exit"))
  <1>1. Len(air) = 0 /\ MaxInFlight # 0
    BY Bounds
  <1>2. /\ air' = Append(air, Reply(of))
        /\ open' = (of = "enter" \/ (open /\ of # "exit"))
    BY <1>1 DEF Send
  <1>3. Append(<< >>, Reply(of)) = << Reply(of) >>
    OBVIOUS
  <1> QED
    BY <1>2, <1>3

LEMMA TriedAlone ==
  ASSUME Types, OneReply, linked, prompt, pc \notin Asking \/ Ended,
         NEW of \in Asking \ {"exit"}, NEW n, Try(of, n), of = "enter" => n = 1,
         UNCHANGED << linked, prompt, paramStep >>
  PROVE  OneReply'
  <1>1. air' = << Reply(of) >> /\ open' = (of = "enter" \/ (open /\ of # "exit"))
    BY QuietBetween, SentAlone DEF Try
  <1>2. pc' = of /\ got' = FALSE /\ refused' = FALSE /\ attempt' = n
    BY DEF Try
  <1>3. Reply(pc)' = Reply(of)
    <2>1. of = "read" => open' = open
      BY <1>1 DEF Types, PackTypes
    <2> QED
      BY <1>2, <2>1 DEF Reply
  <1> QED
    BY <1>1, <1>2, <1>3 DEF OneReply

LEMMA OneReplyNext == Types /\ Fresh /\ OneReply /\ [Next]_vars => OneReply'
  <1> SUFFICES ASSUME Types, Fresh, OneReply, [Next]_vars, linked', prompt'
               PROVE  OneReply'
    BY DEF OneReply
  <1>1. CASE Connect
    <2>1. pc \notin Asking /\ air' = << >> /\ UNCHANGED << pc, got, refused, attempt >>
      BY <1>1 DEF Connect, Asking, wait
    <2> QED
      BY <2>1 DEF OneReply, Fresh, Asking
  <1>2. CASE Disconnect \/ LeavesFactory
    BY <1>2 DEF Disconnect, LeavesFactory
  <1>3. CASE Receive
    <2>1. /\ air # << >> /\ air' = Tail(air)
          /\ UNCHANGED << pc, attempt, linked, prompt, open, paramStep >>
      BY <1>3 DEF Receive, work
    <2>2. linked /\ prompt
      BY <2>1
    <2>3. pc \in Asking \ {"exit"} /\ ~got /\ air = << Reply(pc) >>
      BY <2>1, <2>2 DEF OneReply
    <2>4. Head(air) = Reply(pc) /\ Tail(air) = << >>
      BY <2>3
    <2>5. got' = Counts(Reply(pc)) /\ refused' = (got' /\ Reply(pc).of = "refused")
      <3>1. got \in BOOLEAN /\ Counts(Reply(pc)) \in BOOLEAN
        BY DEF Types, WaitTypes, Counts
      <3> QED
        BY <1>3, <2>2, <2>3, <2>4, <3>1 DEF Receive
    <2>6. Counts(Reply(pc)) \/ (pc = "read" /\ ~open)
      BY DEF Counts, Reply
    <2>7. ~refused'
      BY <2>3, <2>5 DEF Counts, Asking
    <2> QED
      BY <2>1, <2>2, <2>3, <2>4, <2>5, <2>6, <2>7 DEF OneReply
  <1>4. CASE Idle \/ UNCHANGED vars
    <2>1. UNCHANGED << linked, prompt, open, air, pc, got, refused, attempt, paramStep >>
      BY <1>4 DEF Idle, vars, pack, wait, work
    <2>2. Reply(pc)' = Reply(pc)
      BY <2>1 DEF Reply
    <2> QED
      BY <2>1, <2>2 DEF OneReply
  <1>5. CASE Detach
    BY <1>5 DEF Detach
  <1>6. ASSUME NEW where \in {"work", "params", "refresh", "top"}, Goto(where),
               linked, prompt, pc \notin Asking \/ Ended
        PROVE  OneReply'
    <2>1. air' = << >> /\ pc' = where /\ ~got' /\ ~refused' /\ attempt' = 1
      BY <1>6, QuietBetween DEF Goto
    <2> QED
      BY <2>1 DEF OneReply, Asking
  <1>7. CASE Attach \/ Keep \/ NoQuery \/ NoLimit
    <2>1. linked /\ prompt /\ pc \notin Asking
      BY <1>7 DEF Attach, Keep, NoQuery, NoLimit, Asking
    <2>2. Goto("work") \/ Goto("params") \/ Goto("refresh")
      BY <1>7 DEF Attach, Keep, NoQuery, NoLimit
    <2> QED
      BY <1>6, <2>1, <2>2
  <1>8. CASE CellsDone
    BY <1>6, <1>8 DEF CellsDone
  <1>9. CASE LimitRead \/ ReadFails \/ GivenUp
    <2>1. linked /\ prompt /\ Ended /\ Goto("refresh")
      BY <1>9 DEF LimitRead, ReadFails, GivenUp, StoreLimit, Ended
    <2> QED
      BY <1>6, <2>1
  <1>10. CASE Refresh \/ RefreshNothing \/ NoRefresh
    <2>1. linked /\ prompt /\ pc \notin Asking /\ Goto("top")
      BY <1>10 DEF Refresh, RefreshNothing, NoRefresh, Asking
    <2> QED
      BY <1>6, <2>1
  <1>11. CASE Query
    <2>1. linked /\ prompt /\ pc \notin Asking /\ Try("info", 1)
          /\ UNCHANGED << linked, prompt, paramStep >>
      BY <1>11 DEF Query, Asking
    <2> QED
      BY <2>1, TriedAlone DEF Asking
  <1>12. CASE InfoStands \/ InfoAgain
    <2>1. linked /\ prompt /\ Ended /\ UNCHANGED << linked, prompt, paramStep >>
      BY <1>12 DEF InfoStands, InfoAgain, Ended, work
    <2>2. Try("info", attempt + 1) \/ Try("cells", 1)
      BY <1>12 DEF InfoStands, InfoAgain
    <2> QED
      BY <2>1, <2>2, TriedAlone DEF Asking
  <1>13. CASE ReadLimit
    <2>1. linked /\ prompt /\ pc \notin Asking /\ UNCHANGED << linked, prompt, paramStep >>
      BY <1>13 DEF ReadLimit, Asking, work
    <2>2. Try("read", 1) \/ Try("enter", 1)
      BY <1>13 DEF ReadLimit
    <2> QED
      BY <2>1, <2>2, TriedAlone DEF Asking
  <1>14. CASE Entered \/ ReadAgain
    <2>1. linked /\ prompt /\ Ended /\ UNCHANGED << linked, prompt, paramStep >>
      BY <1>14 DEF Entered, ReadAgain, Ended, work
    <2>2. Try("read", attempt) \/ Try("read", attempt + 1)
      BY <1>14 DEF Entered, ReadAgain
    <2> QED
      BY <2>1, <2>2, TriedAlone DEF Asking
  <1>15. CASE Refused \/ Exited
    <2>1. linked /\ prompt /\ (refused \/ pc = "exit")
      BY <1>15 DEF Refused, Exited
    <2> QED
      BY <2>1 DEF OneReply
  <1> QED
    BY <1>1, <1>2, <1>3, <1>4, <1>5, <1>7, <1>8, <1>9, <1>10, <1>11, <1>12, <1>13, <1>14, <1>15
       DEF Next, Radio, Pass

-----------------------------------------------------------------------------
(* The limits of a pack that is answered in time.                          *)

(* A wait for anything but a read the pack refuses ends with its reply. *)
LEMMA EndedIsGot ==
  ASSUME OneReply, linked, prompt, pc \in Asking, Ended, pc = "read" => open
  PROVE  got
  BY DEF OneReply, Ended, TimedOut

(* The library does not come to be right about factory mode on the way. *)
LEMMA TrustedBefore ==
  ASSUME Inv, [Next]_vars, ~Connect, ~Attach, Trusted'
  PROVE  Trusted
  <1> USE DEF Trusted
  <1>0. Types /\ OneReply
    BY DEF Inv
  <1>1. linked /\ prompt /\ UNCHANGED << linked, prompt, conn, began >>
    <2> USE DEF pack, work
    <2>1. CASE Radio
      BY <2>1 DEF Radio, Disconnect, LeavesFactory
    <2>2. CASE Receive
      BY <2>2 DEF Receive
    <2>3. CASE Detach \/ Keep \/ NoQuery \/ NoLimit \/ CellsDone
      BY <2>3 DEF Detach, Keep, NoQuery, NoLimit, CellsDone
    <2>4. CASE Query \/ InfoStands \/ InfoAgain \/ ReadLimit
      BY <2>4 DEF Query, InfoStands, InfoAgain, ReadLimit
    <2>5. CASE Entered \/ ReadAgain \/ Refused \/ Exited
      BY <2>5 DEF Entered, ReadAgain, Refused, Exited
    <2>6. CASE LimitRead \/ ReadFails \/ GivenUp
      BY <2>6 DEF LimitRead, ReadFails, GivenUp, StoreLimit
    <2>7. CASE Refresh \/ RefreshNothing \/ NoRefresh
      BY <2>7 DEF Refresh, RefreshNothing, NoRefresh
    <2>8. CASE Idle \/ UNCHANGED vars
      BY <2>8 DEF Idle, vars
    <2> QED
      BY <2>1, <2>2, <2>3, <2>4, <2>5, <2>6, <2>7, <2>8 DEF Next, Pass
  <1>2. pc # "exit" /\ ~refused
    BY <1>0, <1>1 DEF OneReply
  <1>3. inFactory /\ ~open => inFactory' /\ ~open'
    <2> SUFFICES ASSUME inFactory, ~open
                 PROVE  inFactory' /\ ~open'
      OBVIOUS
    <2> USE DEF pack, lib
    <2>1. \A of \in Asking \ {"enter"} : Send(of) => ~open'
      BY DEF Send
    <2>2. CASE Radio \/ Receive
      BY <1>1, <2>2 DEF Radio, Disconnect, LeavesFactory, Receive
    <2>3. CASE Keep \/ NoQuery \/ NoLimit \/ CellsDone
      BY <2>3 DEF Keep, NoQuery, NoLimit, CellsDone, Goto
    <2>4. CASE Query \/ InfoStands \/ InfoAgain
      BY <2>1, <2>4 DEF Query, InfoStands, InfoAgain, Try, Asking
    <2>5. CASE ReadLimit
      BY <2>1, <2>5 DEF ReadLimit, Try, Asking
    <2>6. CASE Entered \/ ReadAgain
      BY <2>1, <2>6 DEF Entered, ReadAgain, Try, Asking
    <2>7. CASE Refused \/ Exited
      BY <1>2, <2>7 DEF Refused, Exited
    <2>8. CASE LimitRead \/ ReadFails \/ GivenUp
      BY <2>8 DEF LimitRead, ReadFails, GivenUp, StoreLimit, Goto
    <2>9. CASE Refresh \/ RefreshNothing \/ NoRefresh
      BY <2>9 DEF Refresh, RefreshNothing, NoRefresh, Goto
    <2>10. CASE Idle \/ Detach \/ UNCHANGED vars
      BY <2>10 DEF Idle, Detach, vars
    <2> QED
      BY <2>2, <2>3, <2>4, <2>5, <2>6, <2>7, <2>8, <2>9, <2>10 DEF Next, Pass
  <1> QED
    BY <1>1, <1>3 DEF Inv, Types, LibTypes, PackTypes

LEMMA LimitsSoFarNext == Inv /\ [Next]_vars /\ Types' => LimitsSoFar'
  <1> SUFFICES ASSUME Inv, [Next]_vars, Types', Trusted'
               PROVE  LimitsSoFar'
    BY DEF LimitsSoFar
  <1>0. Types /\ OwnInfo /\ OneReply /\ Fresh
    BY DEF Inv
  <1>1. ~Connect
    <2> SUFFICES ASSUME Connect
                 PROVE  FALSE
      OBVIOUS
    <2>1. conn' = conn + 1 /\ began' = began /\ began <= conn
      BY <1>0 DEF Connect, work, OwnInfo
    <2>2. conn \in Nat /\ began \in Nat
      BY <1>0, Bounds DEF Types, PackTypes, WorkTypes
    <2> QED
      BY <2>1, <2>2 DEF Trusted
  <1>2. CASE Attach
    <2>1. paramStep' = 1 /\ queried' = FALSE /\ pc' = "work"
      BY <1>2 DEF Attach, Goto
    <2>2. \A n \in Steps : ~(n < 1)
      BY Bounds DEF Steps
    <2> QED
      BY <2>1, <2>2 DEF LimitsSoFar
  <1>3. CASE ~Attach
    <2>1. Trusted /\ LimitsSoFar
      BY <1>1, <1>3, TrustedBefore DEF Inv
    <2>2. /\ linked /\ prompt /\ pc # "exit" /\ ~refused
          /\ \A n \in Steps : n < paramStep => limit[n] = n
          /\ queried /\ pc # "info" => paramOk
          /\ pc \in {"enter", "read"} => queried /\ open
          /\ pc = "read" => inFactory
          /\ pc = "read" /\ got => resp = paramStep
      BY <1>0, <2>1 DEF Trusted, LimitsSoFar, OneReply
    <2> USE <2>2 DEF pack, lib, wait, work
    <2>3. CASE Disconnect \/ LeavesFactory \/ Detach
      BY <2>3 DEF Disconnect, LeavesFactory, Detach, Trusted
    <2>4. CASE Receive
      <3>1. UNCHANGED << paramStep, limit, queried, paramOk, pc, open, inFactory >>
        BY <2>4 DEF Receive
      <3>2. ASSUME pc = "read", got'
            PROVE  resp' = paramStep
        <4>1. air # << >> /\ ~got /\ air = << Reply(pc) >>
          BY <1>0, <2>4 DEF Receive, OneReply
        <4>2. Head(air) = [of |-> "read", reg |-> paramStep]
          BY <3>2, <4>1 DEF Reply
        <4> QED
          BY <2>4, <3>2, <4>2 DEF Receive
      <3> QED
        BY <3>1, <3>2 DEF LimitsSoFar
    <2>5. CASE Keep \/ NoQuery \/ NoLimit
      BY <2>5 DEF Keep, NoQuery, NoLimit, Goto, LimitsSoFar
    <2>6. CASE Query
      BY <2>6 DEF Query, Try, LimitsSoFar
    <2>7. CASE InfoStands \/ InfoAgain
      BY <2>7 DEF InfoStands, InfoAgain, Try, LimitsSoFar
    <2>8. CASE CellsDone
      <3>1. got
        BY <1>0, <2>8, EndedIsGot DEF CellsDone, Asking
      <3> QED
        BY <2>8, <3>1 DEF CellsDone, Goto, LimitsSoFar
    <2>9. CASE ReadLimit
      <3>1. pc \notin Asking
        BY <2>9 DEF ReadLimit, Asking
      <3>2. air = << >>
        BY <1>0, <3>1, QuietBetween
      <3>3. UNCHANGED << paramStep, limit, queried, paramOk, inFactory >> /\ queried
        BY <2>9 DEF ReadLimit
      <3>4. CASE inFactory
        <4>1. Try("read", 1) /\ open
          BY <2>1, <2>9, <3>4 DEF ReadLimit, Trusted
        <4>2. open'
          BY <1>0, <3>2, <4>1, SentAlone DEF Try, Asking
        <4>3. pc' = "read" /\ ~got'
          BY <4>1 DEF Try
        <4> QED
          BY <2>9, <3>3, <3>4, <4>2, <4>3 DEF ReadLimit, LimitsSoFar
      <3>5. CASE ~inFactory
        <4>1. Try("enter", 1)
          BY <2>9, <3>5 DEF ReadLimit
        <4>2. open'
          BY <1>0, <3>2, <4>1, SentAlone DEF Try, Asking
        <4>3. pc' = "enter"
          BY <4>1 DEF Try
        <4> QED
          BY <2>9, <3>3, <4>2, <4>3 DEF ReadLimit, LimitsSoFar
      <3> QED
        BY <3>4, <3>5
    <2>10. CASE Entered \/ ReadAgain
      <3>1. pc \in {"enter", "read"} /\ Ended /\ got
        <4>1. pc \in {"enter", "read"} /\ Ended
          BY <2>10 DEF Entered, ReadAgain, Ended
        <4> QED
          BY <1>0, <4>1, EndedIsGot DEF Asking
      <3>2. Entered
        BY <2>10, <3>1 DEF ReadAgain, TimedOut
      <3>3. air = << >>
        BY <1>0, <3>1, QuietBetween
      <3>4. Try("read", attempt) /\ inFactory'
        BY <3>1, <3>2 DEF Entered
      <3>5. open' /\ pc' = "read" /\ ~got'
        BY <1>0, <3>1, <3>3, <3>4, SentAlone DEF Try, Asking
      <3>6. UNCHANGED << paramStep, limit, queried, paramOk >>
        BY <3>2 DEF Entered
      <3> QED
        BY <3>1, <3>4, <3>5, <3>6 DEF LimitsSoFar
    <2>11. CASE LimitRead
      <3>1. pc = "read" /\ resp = paramStep /\ paramOk /\ paramOk' = TRUE
        BY <2>11 DEF LimitRead, StoreLimit
      <3>2. paramStep \in Steps /\ paramStep # 0 /\ paramStep \in Nat
        BY <1>0, <3>1, Bounds DEF Types, WorkTypes, Steps
      <3>3. Stored(Limits[paramStep], paramOk') = paramStep
        BY <3>1, <3>2 DEF Stored
      <3>4. limit' = [limit EXCEPT ![paramStep] = paramStep] /\ paramStep' = paramStep + 1
        BY <2>11, <3>3 DEF LimitRead, StoreLimit
      <3>5. ASSUME NEW n \in Steps, n < paramStep'
            PROVE  limit'[n] = n
        <4>1. n \in Nat /\ (n < paramStep \/ n = paramStep)
          BY <3>2, <3>4, <3>5, Bounds DEF Steps
        <4>2. limit \in [Steps -> 0 .. Before]
          BY <1>0 DEF Types, WorkTypes
        <4> QED
          BY <3>4, <4>1, <4>2
      <3>6. pc' = "refresh"
        BY <2>11 DEF LimitRead, StoreLimit, Goto
      <3> QED
        BY <3>1, <3>5, <3>6 DEF LimitsSoFar
    <2>12. CASE ReadFails
      <3>1. pc = "read" /\ Ended /\ ~got
        BY <2>12 DEF ReadFails, Ended, TimedOut
      <3> QED
        BY <1>0, <3>1, EndedIsGot DEF Asking
    <2>13. CASE GivenUp
      <3>1. pc = "enter" /\ attempt > ReadAttempts
        BY <2>13 DEF GivenUp
      <3>2. attempt = 1
        BY <1>0, <3>1 DEF OneReply
      <3> QED
        BY <3>1, <3>2, Bounds
    <2>14. CASE Refused \/ Exited
      BY <2>14 DEF Refused, Exited
    <2>15. CASE Refresh \/ RefreshNothing \/ NoRefresh
      BY <2>15 DEF Refresh, RefreshNothing, NoRefresh, Goto, LimitsSoFar
    <2>16. CASE Idle \/ UNCHANGED vars
      BY <2>16 DEF Idle, vars, LimitsSoFar
    <2> QED
      BY <1>1, <1>3, <2>3, <2>4, <2>5, <2>6, <2>7, <2>8, <2>9, <2>10, <2>11, <2>12, <2>13,
         <2>14, <2>15, <2>16 DEF Next, Radio, Pass
  <1> QED
    BY <1>2, <1>3

-----------------------------------------------------------------------------
LEMMA InitInv == Init => Inv
  <1> SUFFICES ASSUME Init
               PROVE  Inv
    OBVIOUS
  <1>1. PackTypes
    <2>1. conn = 0 /\ ~linked /\ ~prompt /\ ~open /\ ~fault /\ air = << >>
      BY DEF Init
    <2>2. /\ linked \in BOOLEAN /\ prompt \in BOOLEAN
          /\ open \in BOOLEAN /\ fault \in BOOLEAN
      BY DEF Init
    <2>3. conn \in 0 .. MaxConns
      BY <2>1, Bounds
    <2>4. air \in Seq(Frames) /\ Len(air) <= MaxInFlight
      BY <2>1, NothingUnderWay
    <2> QED
      BY <2>2, <2>3, <2>4 DEF PackTypes
  <1>2. LibTypes
    <2>1. info = NoInfo /\ paramOk \in BOOLEAN /\ inFactory \in BOOLEAN
      BY DEF Init
    <2>2. 0 \in 0 .. MaxConns
      BY Bounds
    <2>3. NoInfo \in [conn : 0 .. MaxConns, fault : BOOLEAN]
      BY <2>2 DEF NoInfo
    <2> QED
      BY <2>1, <2>3 DEF LibTypes
  <1>3. WaitTypes
    <2>1. /\ pc = "top" /\ got \in BOOLEAN /\ refused \in BOOLEAN
          /\ attempt = 1 /\ resp = 0
      BY DEF Init
    <2>2. 0 \in 0 .. Len(Limits) /\ 1 \in 1 .. ReadAttempts + 1
      BY Bounds
    <2> QED
      BY <2>1, <2>2 DEF WaitTypes, Asking
  <1>4. WorkTypes
    <2>1. /\ attached \in BOOLEAN /\ began = 0 /\ queried \in BOOLEAN
          /\ paramStep = 1 /\ pc = "top" /\ limit = [i \in Steps |-> Before]
      BY DEF Init
    <2>2. /\ 0 \in 0 .. MaxConns /\ 1 \in 1 .. Len(Limits) + 1
          /\ Before \in 0 .. Before
      BY Bounds DEF Before
    <2>3. limit \in [Steps -> 0 .. Before]
      BY <2>1, <2>2
    <2> QED
      BY <2>1, <2>2, <2>3 DEF WorkTypes
  <1>5. FaceTypes
    <2>1. /\ link = "searching" /\ shown = 0
          /\ valid \in BOOLEAN /\ alarm \in BOOLEAN
      BY DEF Init
    <2>2. 0 \in 0 .. MaxConns
      BY Bounds
    <2> QED
      BY <2>1, <2>2 DEF FaceTypes
  <1>6. /\ conn = 0 /\ ~linked /\ began = 0 /\ ~queried
        /\ pc = "top" /\ ~got /\ ~refused
    BY DEF Init
  <1>7. OwnInfo /\ Fresh /\ OneReply /\ LimitsSoFar
    BY <1>6 DEF OwnInfo, Fresh, OneReply, LimitsSoFar, Trusted
  <1> QED
    BY <1>1, <1>2, <1>3, <1>4, <1>5, <1>7 DEF Inv, Types

LEMMA InvNext == Inv /\ [Next]_vars => Inv'
  BY TypesNext, OwnInfoNext, FreshNext, OneReplyNext, LimitsSoFarNext DEF Inv

LEMMA Invariant == Spec => []Inv
  BY InitInv, InvNext, PTL DEF Spec

(***************************************************************************)
(* The session is well typed: however replies, timeouts and refusals fall, *)
(* no call makes more attempts than it may and none reads a limit there is *)
(* not.                                                                    *)
(***************************************************************************)
THEOREM SessionTypeCorrect == Spec => []TypeOK
  <1>1. Inv => TypeOK
    BY DEF Inv, Types, PackTypes, LibTypes, WaitTypes, WorkTypes, FaceTypes, Frames, TypeOK
  <1> QED
    BY <1>1, Invariant, PTL

(***************************************************************************)
(* Once the pack has been asked, a refresh publishes what was read over    *)
(* its own link, whatever an earlier pack left in the library              *)
(* (bms2.cpp:1251-1265, bms_jbd.cpp:173-174).                              *)
(***************************************************************************)
THEOREM PublishesItsOwn == Spec => AskedThenOwn
  <1>1. Inv /\ [Next]_vars => [Refresh /\ queried /\ began = conn => shown' = conn]_vars
    BY DEF Inv, OwnInfo, Refresh
  <1> QED
    BY <1>1, Invariant, PTL DEF Spec, AskedThenOwn

(***************************************************************************)
(* The limits read off a pack that answers in time are each its own and in *)
(* its own place, for every list of limits and number of attempts, whatever*)
(* failed before on this link or on an earlier one (bms_jbd.cpp:136-170).  *)
(***************************************************************************)
THEOREM LimitsInPlace == Spec => []PromptLimitsAreOwn
  <1>1. Inv => PromptLimitsAreOwn
    <2> SUFFICES ASSUME Inv, Trusted, paramsRead, NEW n \in Steps
                 PROVE  limit[n] = n
      BY DEF PromptLimitsAreOwn, Trusted
    <2>1. n < paramStep
      BY Bounds DEF Inv, Types, WorkTypes, paramsRead, Steps
    <2> QED
      BY <2>1 DEF Inv, LimitsSoFar
  <1> QED
    BY <1>1, Invariant, PTL

=============================================================================
