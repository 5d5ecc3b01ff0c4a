---------------------------- MODULE TCPServerProofs ----------------------------
(***************************************************************************)
(* Theorems about TCPServer, for every value of its constants: types, the  *)
(* timers, the life of a channel from its acceptance to its end, and what  *)
(* becomes of a stream: its handler's contract is kept (the refinement of  *)
(* StreamContract), it has one owner at a time, and a server that stops    *)
(* closes it.                                                              *)
(***************************************************************************)
EXTENDS TCPServerProps, TLAPS, FiniteSetTheorems

USE ChannelAssumption, ServerAssumption
    DEF streamVars, loopVars, connVars, timerVars, channelVars, acceptVars,
        lsnVars, bindVars, mapVars, serverVars, vars,
        StreamOrNil, PCs, LoopPCs, Finished, SPCs, BPCs,
        Goto, ServerGoto, BindGoto, BindReturns, ConnFree, Bindable, StillBound,
        StopStreamTimer, MapWithout, InitRefused

-------------------------------------------------------------------------------
(* Type correctness                                                        *)

LEMMA InitTypeOK == Init => TypeOK
<1> SUFFICES ASSUME Init PROVE TypeOK
  OBVIOUS
<1>1. ChannelTypeOK
  BY DEF Init, ChannelInit, ChannelTypeOK
<1>2. ServerTypeOK
  BY DEF Init, ServerTypeOK
<1>3. NoNilUse
  BY DEF Init, ChannelInit, NoNilUse
<1> QED
  BY <1>1, <1>2, <1>3 DEF TypeOK

\* The steps of the read loop leave the variables of the server alone, so its
\* part of the invariant is preserved; the rest is checked step by step.
LEMMA ChannelNextTypeOK ==
  ASSUME TypeOK, NEW c \in Channels, ChannelNext(c), UNCHANGED serverVars
  PROVE  TypeOK'
<1> USE DEF ChannelTypeOK, NoNilUse
<1>0. ServerTypeOK'
  BY DEF TypeOK, ServerTypeOK
<1>1. CASE ReadBufferFails(c)
  BY <1>0, <1>1 DEF TypeOK, ReadBufferFails
<1>2. CASE ReadBegin(c)
  BY <1>0, <1>2 DEF TypeOK, ReadBegin
<1>3. CASE DeadlinePasses(c)
  BY <1>0, <1>3 DEF TypeOK, DeadlinePasses
<1>4. CASE ReadData(c)
  BY <1>0, <1>4 DEF TypeOK, ReadData
<1>5. CASE ReadTimeout(c)
  BY <1>0, <1>5 DEF TypeOK, ReadTimeout
<1>6. CASE ReadEnds(c)
  BY <1>0, <1>6 DEF TypeOK, ReadEnds, ExitLoop
<1>7. CASE ParseIncomplete(c)
  BY <1>0, <1>7 DEF TypeOK, ParseIncomplete, TakeResult
<1>8. CASE ParseForStream(c)
  BY <1>0, <1>8 DEF TypeOK, ParseForStream, TakeResult
<1>9. CASE ParseWithoutStream(c)
  <2>1. /\ more[c] \in 1..MaxPackets
        /\ more[c] - 1 \in 0..MaxPackets
        /\ more' = [more EXCEPT ![c] = more[c] - 1]
    BY <1>9 DEF TypeOK, ParseWithoutStream, TakeResult
  <2>2. ChannelTypeOK'
    BY <1>9, <2>1 DEF TypeOK, ParseWithoutStream, TakeResult
  <2>3. NoNilUse'
    BY <1>9, <2>1 DEF TypeOK, ParseWithoutStream, TakeResult
  <2> QED
    BY <1>0, <2>2, <2>3 DEF TypeOK
<1>10. CASE ParseRefused(c)
  BY <1>0, <1>10 DEF TypeOK, ParseRefused, TakeResult
<1>11. CASE HandleEnter(c)
  <2>1. /\ cur[c] \in Streams
        /\ pc' = [pc EXCEPT ![c] = "remove"] \/ pc' = [pc EXCEPT ![c] = "handling"]
        /\ busy' = busy \/ busy' = [busy EXCEPT ![cur[c]] = TRUE]
    BY <1>11 DEF TypeOK, HandleEnter
  <2>2. ChannelTypeOK'
    BY <1>11, <2>1 DEF TypeOK, HandleEnter
  <2>3. NoNilUse'
    BY <1>11, <2>1 DEF TypeOK, HandleEnter
  <2> QED
    BY <1>0, <2>2, <2>3 DEF TypeOK
<1>12. CASE HandleLeave(c)
  BY <1>0, <1>12 DEF TypeOK, HandleLeave, NextPacket
<1>13. CASE RemoveStream(c)
  BY <1>0, <1>13 DEF TypeOK, RemoveStream, NextPacket
<1>14. CASE DropStream(c)
  BY <1>0, <1>14 DEF TypeOK, DropStream, CloseStream
<1>15. CASE RearmTimer(c)
  BY <1>0, <1>15 DEF TypeOK, RearmTimer, NextPacket, InitChanTimer
<1>16. CASE CloseAndExit(c)
  BY <1>0, <1>16 DEF TypeOK, CloseAndExit, CloseConn, ExitLoop
<1>17. CASE ExitSetClosed(c)
  BY <1>0, <1>17 DEF TypeOK, ExitSetClosed
<1>18. CASE ExitSwap(c)
  BY <1>0, <1>18 DEF TypeOK, ExitSwap
<1>19. CASE ExitDrop(c)
  BY <1>0, <1>19 DEF TypeOK, ExitDrop, CloseStream
<1>20. CASE Return(c)
  BY <1>0, <1>20 DEF TypeOK, Return
<1> QED
  BY <1>1, <1>2, <1>3, <1>4, <1>5, <1>6, <1>7, <1>8, <1>9, <1>10, <1>11, <1>12, <1>13, <1>14, <1>15, <1>16, <1>17, <1>18, <1>19, <1>20
  DEF ChannelNext, RunSteps, PeerSteps

LEMMA PutInServerTypeOK ==
  ASSUME TypeOK, NEW s \in Streams, PutInServer(s), LsnFree \/ lsnLock = s
  PROVE  TypeOK'
<1> USE DEF ChannelTypeOK, ServerTypeOK, NoNilUse
<1>1. /\ stamped' \in [Streams -> BOOLEAN]
      /\ streamTimer' \in [Streams -> Streams \cup {NoStream}]
  <2>1. CASE listening
    <3>1. /\ stamped' = [stamped EXCEPT ![s] = TRUE]
          /\ \E t \in {s, streamTimer[s]} : streamTimer' = [streamTimer EXCEPT ![s] = t]
      BY <2>1 DEF PutInServer, InitStreamTimer
    <3>2. /\ stamped \in [Streams -> BOOLEAN]
          /\ streamTimer \in [Streams -> Streams \cup {NoStream}]
      BY DEF TypeOK
    <3> QED
      BY <3>1, <3>2
  <2>2. CASE ~listening
    BY <2>2 DEF TypeOK, PutInServer
  <2> QED
    BY <2>1, <2>2
<1>2. ChannelTypeOK'
  BY <1>1 DEF TypeOK, PutInServer
<1>3. ServerTypeOK'
  BY DEF TypeOK, PutInServer
<1>4. NoNilUse'
  BY DEF TypeOK, PutInServer, LsnFree
<1> QED
  BY <1>2, <1>3, <1>4 DEF TypeOK

LEMMA StreamNextTypeOK ==
  ASSUME TypeOK, NEW s \in Streams, StreamNext(s)
  PROVE  TypeOK'
<1> USE DEF ChannelTypeOK, ServerTypeOK, NoNilUse
<1>1. CASE BindRefused(s)
  <2>1. ChannelTypeOK'
    BY <1>1 DEF TypeOK, BindRefused, LsnFree
  <2>2. ServerTypeOK'
    BY <1>1 DEF TypeOK, BindRefused, LsnFree
  <2>3. NoNilUse'
    BY <1>1 DEF TypeOK, BindRefused, LsnFree
  <2> QED
    BY <2>1, <2>2, <2>3 DEF TypeOK
<1>2. CASE BindFindChannel(s)
  <2>1. ChannelTypeOK'
    BY <1>2 DEF TypeOK, BindFindChannel, LsnFree
  <2>2. ServerTypeOK'
    BY <1>2 DEF TypeOK, BindFindChannel, LsnFree
  <2>3. NoNilUse'
    BY <1>2 DEF TypeOK, BindFindChannel, LsnFree
  <2> QED
    BY <2>1, <2>2, <2>3 DEF TypeOK
<1>3. CASE BindToChannel(s)
  <2>1. ChannelTypeOK'
    BY <1>3 DEF TypeOK, BindToChannel, BindStream
  <2>2. ServerTypeOK'
    BY <1>3 DEF TypeOK, BindToChannel, BindStream
  <2>3. NoNilUse'
    BY <1>3 DEF TypeOK, BindToChannel, BindStream
  <2> QED
    BY <2>1, <2>2, <2>3 DEF TypeOK
<1>4. CASE BindToChannelRefused(s)
  <2>1. ChannelTypeOK'
    BY <1>4 DEF TypeOK, BindToChannelRefused
  <2>2. ServerTypeOK'
    BY <1>4 DEF TypeOK, BindToChannelRefused
  <2>3. NoNilUse'
    BY <1>4 DEF TypeOK, BindToChannelRefused
  <2> QED
    BY <2>1, <2>2, <2>3 DEF TypeOK
<1>5. CASE BindDisplaces(s)
  <2>1. ChannelTypeOK'
    BY <1>5 DEF TypeOK, BindDisplaces, CloseDisplaced, CloseStream
  <2>2. ServerTypeOK'
    BY <1>5 DEF TypeOK, BindDisplaces, CloseDisplaced, CloseStream
  <2>3. NoNilUse'
    BY <1>5 DEF TypeOK, BindDisplaces, CloseDisplaced, CloseStream
  <2> QED
    BY <2>1, <2>2, <2>3 DEF TypeOK
<1>6. CASE BindSetTime(s)
  <2>1. ChannelTypeOK'
    BY <1>6 DEF TypeOK, BindSetTime
  <2>2. ServerTypeOK'
    BY <1>6 DEF TypeOK, BindSetTime
  <2>3. NoNilUse'
    BY <1>6 DEF TypeOK, BindSetTime
  <2> QED
    BY <2>1, <2>2, <2>3 DEF TypeOK
<1>7. CASE BindClosesOld(s)
  <2>1. ChannelTypeOK'
    BY <1>7 DEF TypeOK, BindClosesOld, ServerCloseStream, CloseStream
  <2>2. ServerTypeOK'
    BY <1>7 DEF TypeOK, BindClosesOld, ServerCloseStream, CloseStream
  <2>3. NoNilUse'
    BY <1>7 DEF TypeOK, BindClosesOld, ServerCloseStream, CloseStream
  <2> QED
    BY <2>1, <2>2, <2>3 DEF TypeOK
<1>8. CASE UserRemoves(s)
  <2>1. ChannelTypeOK'
    BY <1>8 DEF TypeOK, UserRemoves, DeleteStream
  <2>2. ServerTypeOK'
    BY <1>8 DEF TypeOK, UserRemoves, DeleteStream
  <2>3. NoNilUse'
    BY <1>8 DEF TypeOK, UserRemoves, DeleteStream
  <2> QED
    BY <2>1, <2>2, <2>3 DEF TypeOK
<1>9. CASE StreamTimeout(s)
  <2>1. ChannelTypeOK'
    BY <1>9 DEF TypeOK, StreamTimeout, DeleteStream
  <2>2. ServerTypeOK'
    BY <1>9 DEF TypeOK, StreamTimeout, DeleteStream
  <2>3. NoNilUse'
    BY <1>9 DEF TypeOK, StreamTimeout, DeleteStream
  <2> QED
    BY <2>1, <2>2, <2>3 DEF TypeOK
<1>10. CASE CloseRemoved(s)
  <2>1. ChannelTypeOK'
    BY <1>10 DEF TypeOK, CloseRemoved, ServerCloseStream, CloseStream
  <2>2. ServerTypeOK'
    BY <1>10 DEF TypeOK, CloseRemoved, ServerCloseStream, CloseStream
  <2>3. NoNilUse'
    BY <1>10 DEF TypeOK, CloseRemoved, ServerCloseStream, CloseStream
  <2> QED
    BY <2>1, <2>2, <2>3 DEF TypeOK
<1>11. CASE BindToServer(s)
  BY <1>11, PutInServerTypeOK DEF TypeOK, BindToServer
<1>12. CASE RebindToServer(s)
  BY <1>12, PutInServerTypeOK DEF TypeOK, RebindToServer
<1> QED
  BY <1>1, <1>2, <1>3, <1>4, <1>5, <1>6, <1>7, <1>8, <1>9, <1>10, <1>11, <1>12 DEF StreamNext, BindSteps

LEMMA ServerNextTypeOK ==
  ASSUME TypeOK, ServerNext
  PROVE  TypeOK'
<1> USE DEF ChannelTypeOK, ServerTypeOK, NoNilUse
<1>1. CASE Start
  <2> DEFINE held == {s \in Streams : Mapped(s)}
  <2>1. CASE lsnFlag \/ listening \/ held = {}
    BY <1>1, <2>1 DEF TypeOK, Start, LsnFree
  <2>2. CASE ~lsnFlag /\ ~listening /\ held # {}
    <3>1. PICK last \in held :
             /\ stamped' = [s \in Streams |-> IF s \in held THEN TRUE ELSE stamped[s]]
             /\ streamTimer' = [s \in Streams |->
                  IF s \in held \cap Timed /\ streamTimer[s] = NoStream
                    THEN last ELSE streamTimer[s]]
      BY <1>1, <2>2 DEF Start
    <3>2. ChannelTypeOK'
      BY <1>1, <3>1 DEF TypeOK, Start
    <3>3. ServerTypeOK' /\ NoNilUse'
      BY <1>1, <2>2 DEF TypeOK, Start, LsnFree
    <3> QED
      BY <3>2, <3>3 DEF TypeOK
  <2> QED
    BY <2>1, <2>2
<1>2. CASE AcceptEnds
  <2>1. ChannelTypeOK'
    BY <1>2 DEF TypeOK, AcceptEnds
  <2>2. ServerTypeOK'
    BY <1>2 DEF TypeOK, AcceptEnds
  <2>3. NoNilUse'
    BY <1>2 DEF TypeOK, AcceptEnds
  <2> QED
    BY <2>1, <2>2, <2>3 DEF TypeOK
<1>3. CASE UserClosesServer
  <2>1. ChannelTypeOK'
    BY <1>3 DEF TypeOK, UserClosesServer, LsnFree
  <2>2. ServerTypeOK'
    BY <1>3 DEF TypeOK, UserClosesServer, LsnFree
  <2>3. NoNilUse'
    BY <1>3 DEF TypeOK, UserClosesServer, LsnFree
  <2> QED
    BY <2>1, <2>2, <2>3 DEF TypeOK
<1>4. CASE Publish
  <2>1. ChannelTypeOK'
    BY <1>4 DEF TypeOK, Publish
  <2>2. ServerTypeOK'
    BY <1>4 DEF TypeOK, Publish
  <2>3. NoNilUse'
    BY <1>4 DEF TypeOK, Publish
  <2> QED
    BY <2>1, <2>2, <2>3 DEF TypeOK
<1>5. CASE InitIdleTimer
  <2>1. ChannelTypeOK'
    BY <1>5 DEF TypeOK, InitIdleTimer, InitChanTimer
  <2>2. ServerTypeOK'
    BY <1>5 DEF TypeOK, InitIdleTimer, InitChanTimer
  <2>3. NoNilUse'
    BY <1>5 DEF TypeOK, InitIdleTimer, InitChanTimer
  <2> QED
    BY <2>1, <2>2, <2>3 DEF TypeOK
<1>6. CASE HandOff
  <2>1. ChannelTypeOK'
    BY <1>6 DEF TypeOK, HandOff, BindStream
  <2>2. ServerTypeOK'
    BY <1>6 DEF TypeOK, HandOff, BindStream
  <2>3. NoNilUse'
    BY <1>6 DEF TypeOK, HandOff, BindStream
  <2> QED
    BY <2>1, <2>2, <2>3 DEF TypeOK
<1>7. CASE HandOffDisplaces
  <2>1. ChannelTypeOK'
    BY <1>7 DEF TypeOK, HandOffDisplaces, CloseDisplaced, CloseStream
  <2>2. ServerTypeOK'
    BY <1>7 DEF TypeOK, HandOffDisplaces, CloseDisplaced, CloseStream
  <2>3. NoNilUse'
    BY <1>7 DEF TypeOK, HandOffDisplaces, CloseDisplaced, CloseStream
  <2> QED
    BY <2>1, <2>2, <2>3 DEF TypeOK
<1>8. CASE StartChannel
  <2>1. ChannelTypeOK'
    BY <1>8 DEF TypeOK, StartChannel
  <2>2. ServerTypeOK'
    BY <1>8 DEF TypeOK, StartChannel
  <2>3. NoNilUse'
    BY <1>8 DEF TypeOK, StartChannel
  <2> QED
    BY <2>1, <2>2, <2>3 DEF TypeOK
<1>9. CASE SetClosed
  <2>1. ChannelTypeOK'
    BY <1>9 DEF TypeOK, SetClosed, LsnFree
  <2>2. ServerTypeOK'
    BY <1>9 DEF TypeOK, SetClosed, LsnFree
  <2>3. NoNilUse'
    BY <1>9 DEF TypeOK, SetClosed, LsnFree
  <2> QED
    BY <2>1, <2>2, <2>3 DEF TypeOK
<1>10. CASE TakeSnapshot
  <2>1. ChannelTypeOK'
    BY <1>10 DEF TypeOK, TakeSnapshot
  <2>2. ServerTypeOK'
    BY <1>10 DEF TypeOK, TakeSnapshot
  <2>3. NoNilUse'
    BY <1>10 DEF TypeOK, TakeSnapshot
  <2> QED
    BY <2>1, <2>2, <2>3 DEF TypeOK
<1>11. CASE Shutdown
  <2>1. ChannelTypeOK'
    BY <1>11 DEF TypeOK, Shutdown
  <2>2. ServerTypeOK'
    BY <1>11 DEF TypeOK, Shutdown
  <2>3. NoNilUse'
    BY <1>11 DEF TypeOK, Shutdown
  <2> QED
    BY <2>1, <2>2, <2>3 DEF TypeOK
<1>12. ASSUME NEW c \in Channels, Accept(c) PROVE TypeOK'
  <2>1. ChannelTypeOK'
    BY <1>12 DEF TypeOK, Accept
  <2>2. ServerTypeOK'
    BY <1>12 DEF TypeOK, Accept
  <2>3. NoNilUse'
    BY <1>12 DEF TypeOK, Accept
  <2> QED
    BY <2>1, <2>2, <2>3 DEF TypeOK
<1>13. ASSUME NEW c \in Channels, ShutdownChannel(c) PROVE TypeOK'
  <2>1. ChannelTypeOK'
    BY <1>13 DEF TypeOK, ShutdownChannel, CloseChannel, CloseConn
  <2>2. ServerTypeOK'
    BY <1>13 DEF TypeOK, ShutdownChannel, CloseChannel, CloseConn
  <2>3. NoNilUse'
    BY <1>13 DEF TypeOK, ShutdownChannel, CloseChannel, CloseConn
  <2> QED
    BY <2>1, <2>2, <2>3 DEF TypeOK
<1>14. ASSUME NEW a \in Addrs, DrainStream(a) PROVE TypeOK'
  <2>1. ChannelTypeOK'
    BY <1>14 DEF TypeOK, DrainStream, ServerCloseStream, CloseStream
  <2>2. ServerTypeOK'
    BY <1>14 DEF TypeOK, DrainStream, ServerCloseStream, CloseStream
  <2>3. NoNilUse'
    BY <1>14 DEF TypeOK, DrainStream, ServerCloseStream, CloseStream
  <2> QED
    BY <2>1, <2>2, <2>3 DEF TypeOK
<1> QED
  BY <1>1, <1>2, <1>3, <1>4, <1>5, <1>6, <1>7, <1>8, <1>9, <1>10, <1>11, <1>12, <1>13, <1>14 DEF ServerNext, AcceptSteps

LEMMA ChannelsNextTypeOK ==
  ASSUME TypeOK, NEW c \in Channels, ChannelsNext(c)
  PROVE  TypeOK'
<1> USE DEF ChannelTypeOK, ServerTypeOK, NoNilUse
<1>1. CASE ChannelNext(c) /\ UNCHANGED serverVars
  BY <1>1, ChannelNextTypeOK
<1>2. CASE ChannelTimerFires(c) /\ UNCHANGED serverVars
  BY <1>2 DEF TypeOK, ChannelTimerFires
<1>3. CASE TimerCloses(c) /\ UNCHANGED serverVars
  <2>1. ChannelTypeOK'
    <3>1. CASE pc[c] = "created"
      BY <1>3, <3>1 DEF TypeOK, TimerCloses
    <3>2. CASE pc[c] # "created"
      <4>1. /\ socket' \in [Channels -> {"none", "open", "closed"}]
            /\ chanTimer' \in [Channels -> {"off", "pending", "spent"}]
        BY <1>3, <3>2 DEF TypeOK, TimerCloses, CloseConn
      <4>3. /\ connFlag' \in [Channels -> BOOLEAN]
            /\ firing' \in [Channels -> BOOLEAN]
        BY <1>3, <3>2 DEF TypeOK, TimerCloses, CloseConn
      <4>2. UNCHANGED <<streamVars, loopVars, stream, deadline, displaced, early>>
        BY <1>3, <3>2 DEF TimerCloses, CloseConn
      <4> QED
        BY <4>1, <4>2, <4>3 DEF TypeOK
    <3> QED
      BY <3>1, <3>2
  <2>2. ServerTypeOK' /\ NoNilUse'
    BY <1>3 DEF TypeOK, TimerCloses
  <2> QED
    BY <2>1, <2>2 DEF TypeOK
<1>6. CASE TimerClears(c) /\ UNCHANGED serverVars
  BY <1>6 DEF TypeOK, TimerClears
<1>4. CASE UserClosesChannel(c)
  BY <1>4 DEF TypeOK, UserClosesChannel, CloseChannel, CloseConn
<1>5. CASE Unlist(c)
  BY <1>5 DEF TypeOK, Unlist
<1> QED
  BY <1>1, <1>2, <1>3, <1>4, <1>5, <1>6 DEF ChannelsNext

LEMMA NextTypeOK == TypeOK /\ [Next]_vars => TypeOK'
<1> SUFFICES ASSUME TypeOK, [Next]_vars PROVE TypeOK'
  OBVIOUS
<1>1. CASE UNCHANGED vars
  BY <1>1 DEF TypeOK, ChannelTypeOK, ServerTypeOK, NoNilUse
<1>2. CASE Terminated
  BY <1>1, <1>2 DEF Terminated
<1> QED
  BY <1>1, <1>2, ServerNextTypeOK, StreamNextTypeOK, ChannelsNextTypeOK DEF Next

\* Every variable keeps its type, and no goroutine follows a nil pointer: not
\* the local stream of a read loop, the channel of the accept loop or of
\* Stream(), nor the listener that accept() reads without a check.
THEOREM TypeCorrect == Spec => []TypeOK
<1>1. Init => TypeOK
  BY InitTypeOK
<1>2. TypeOK /\ [Next]_vars => TypeOK'
  BY NextTypeOK
<1> QED
  BY <1>1, <1>2, PTL DEF Spec

-------------------------------------------------------------------------------
(* The timer of a bound stream                                             *)

\* Where streams are, as far as it takes to see that a timer is armed only for
\* a stream that is in the map: a stream enters the map from Stream() alone,
\* and leaves it before a channel has it.
StreamPlacement ==
  /\ \A a \in Addrs : strMap[a] # NoStream =>
       /\ AddrOf[strMap[a]] = a
       /\ bpc[strMap[a]] \in {"closeOld", "bound"}
  /\ inflight # NoStream =>
       /\ bpc[inflight] \in {"closeOld", "bound"}
       /\ ~Mapped(inflight)
  /\ \A c \in Channels : stream[c] # NoStream =>
       /\ bpc[stream[c]] \in {"displacing", "stamp", "closeOld", "bound"}
       /\ ~Mapped(stream[c])
       /\ streamTimer[stream[c]] = NoStream

LEMMA InitStreamPlacement == Init => StreamPlacement
  BY DEF Init, ChannelInit, StreamPlacement

\* A step of the read loop takes a stream off a channel at most.
LEMMA ChannelNextPlacement ==
  ASSUME TypeOK, StreamPlacement, NEW c \in Channels, ChannelNext(c),
         UNCHANGED serverVars
  PROVE  StreamPlacement'
<1>1. /\ UNCHANGED streamTimer
      /\ stream' = stream \/ stream' = [stream EXCEPT ![c] = NoStream]
  BY DEF ChannelNext, RunSteps, PeerSteps, ExitLoop, TakeResult,
         ReadBufferFails, ReadBegin, DeadlinePasses, ReadData,
         ReadTimeout, ReadEnds, ParseIncomplete, ParseForStream,
         ParseWithoutStream, ParseRefused, HandleEnter, HandleLeave,
         RemoveStream, DropStream, RearmTimer, CloseAndExit,
         ExitSetClosed, ExitSwap, ExitDrop, Return
<1>2. stream \in [Channels -> Streams \cup {NoStream}]
  BY DEF TypeOK, ChannelTypeOK
<1> QED
  BY <1>1, <1>2 DEF StreamPlacement, Mapped

LEMMA PutInServerPlacement ==
  ASSUME TypeOK, StreamPlacement, NEW s \in Streams, PutInServer(s),
         bpc[s] \in {"new", "rebind"}
  PROVE  StreamPlacement'
<1> USE DEF TypeOK, ChannelTypeOK, ServerTypeOK
<1>1. /\ strMap' = [strMap EXCEPT ![AddrOf[s]] = s]
      /\ UNCHANGED <<inflight, stream>>
      /\ \E l \in {"bound", "closeOld"} : bpc' = [bpc EXCEPT ![s] = l]
  BY DEF PutInServer
<1>2. \A t \in Streams : t # s => /\ bpc'[t] = bpc[t]
                                  /\ streamTimer'[t] = streamTimer[t]
                                  /\ Mapped(t)' => Mapped(t)
  BY <1>1 DEF PutInServer, InitStreamTimer, Mapped
<1>3. /\ bpc'[s] \in {"closeOld", "bound"}
      /\ inflight # s
      /\ \A c \in Channels : stream[c] # s
  BY <1>1 DEF StreamPlacement
<1> QED
  BY <1>1, <1>2, <1>3 DEF StreamPlacement, Mapped

LEMMA StreamNextPlacement ==
  ASSUME TypeOK, StreamPlacement, NEW s \in Streams, StreamNext(s)
  PROVE  StreamPlacement'
<1> USE DEF TypeOK, ChannelTypeOK, ServerTypeOK, NoNilUse
<1>1. CASE BindRefused(s)
  BY <1>1 DEF StreamPlacement, Mapped, BindRefused, LsnFree
<1>2. CASE BindFindChannel(s)
  BY <1>2 DEF StreamPlacement, Mapped, BindFindChannel, LsnFree
<1>3. CASE BindToChannel(s)
  BY <1>3 DEF StreamPlacement, Mapped, BindToChannel, BindStream
<1>4. CASE BindToChannelRefused(s)
  BY <1>4 DEF StreamPlacement, Mapped, BindToChannelRefused
<1>5. CASE BindDisplaces(s)
  BY <1>5 DEF StreamPlacement, Mapped, BindDisplaces, CloseDisplaced, CloseStream
<1>6. CASE BindSetTime(s)
  BY <1>6 DEF StreamPlacement, Mapped, BindSetTime
<1>7. CASE BindClosesOld(s)
  BY <1>7 DEF StreamPlacement, Mapped, BindClosesOld, ServerCloseStream, CloseStream
<1>8. CASE UserRemoves(s)
  BY <1>8 DEF StreamPlacement, Mapped, UserRemoves, DeleteStream
<1>9. CASE StreamTimeout(s)
  BY <1>9 DEF StreamPlacement, Mapped, StreamTimeout, DeleteStream
<1>10. CASE CloseRemoved(s)
  BY <1>10 DEF StreamPlacement, Mapped, CloseRemoved, ServerCloseStream, CloseStream
<1>11. CASE BindToServer(s)
  BY <1>11, PutInServerPlacement DEF BindToServer
<1>12. CASE RebindToServer(s)
  BY <1>12, PutInServerPlacement DEF RebindToServer
<1> QED
  BY <1>1, <1>2, <1>3, <1>4, <1>5, <1>6, <1>7, <1>8, <1>9, <1>10, <1>11,
     <1>12 DEF StreamNext, BindSteps

LEMMA ServerNextPlacement ==
  ASSUME TypeOK, StreamPlacement, ServerNext
  PROVE  StreamPlacement'
<1> USE DEF TypeOK, ChannelTypeOK, ServerTypeOK, NoNilUse
<1>1. CASE Start
  <2>1. UNCHANGED <<bpc, strMap, inflight, stream>>
    BY <1>1 DEF Start
  <2>2. \A s \in Streams : ~Mapped(s) => streamTimer'[s] = streamTimer[s]
    <3>1. CASE UNCHANGED streamTimer
      BY <3>1
    <3>2. CASE ~UNCHANGED streamTimer
      <4>1. \E last \in Streams : streamTimer' = [s \in Streams |->
              IF s \in {t \in Streams : Mapped(t)} \cap Timed /\ streamTimer[s] = NoStream
                THEN last ELSE streamTimer[s]]
        BY <1>1, <3>2 DEF Start
      <4> QED
        BY <4>1
    <3> QED
      BY <3>1, <3>2
  <2> QED
    BY <2>1, <2>2 DEF StreamPlacement, Mapped
<1>2. CASE AcceptEnds
  BY <1>2 DEF StreamPlacement, Mapped, AcceptEnds
<1>3. CASE UserClosesServer
  BY <1>3 DEF StreamPlacement, Mapped, UserClosesServer, LsnFree
<1>4. CASE Publish
  BY <1>4 DEF StreamPlacement, Mapped, Publish
<1>5. CASE InitIdleTimer
  BY <1>5 DEF StreamPlacement, Mapped, InitIdleTimer, InitChanTimer
<1>6. CASE HandOff
  BY <1>6 DEF StreamPlacement, Mapped, HandOff, BindStream
<1>7. CASE HandOffDisplaces
  BY <1>7 DEF StreamPlacement, Mapped, HandOffDisplaces, CloseDisplaced, CloseStream
<1>8. CASE StartChannel
  BY <1>8 DEF StreamPlacement, Mapped, StartChannel
<1>9. CASE SetClosed
  BY <1>9 DEF StreamPlacement, Mapped, SetClosed, LsnFree
<1>10. CASE TakeSnapshot
  BY <1>10 DEF StreamPlacement, Mapped, TakeSnapshot
<1>11. CASE Shutdown
  BY <1>11 DEF StreamPlacement, Mapped, Shutdown
<1>12. ASSUME NEW c \in Channels, Accept(c) PROVE StreamPlacement'
  BY <1>12 DEF StreamPlacement, Mapped, Accept
<1>13. ASSUME NEW c \in Channels, ShutdownChannel(c) PROVE StreamPlacement'
  BY <1>13 DEF StreamPlacement, Mapped, ShutdownChannel, CloseChannel, CloseConn
<1>14. ASSUME NEW a \in Addrs, DrainStream(a) PROVE StreamPlacement'
  BY <1>14 DEF StreamPlacement, Mapped, DrainStream, ServerCloseStream, CloseStream
<1> QED
  BY <1>1, <1>2, <1>3, <1>4, <1>5, <1>6, <1>7, <1>8, <1>9, <1>10, <1>11,
     <1>12, <1>13, <1>14 DEF ServerNext, AcceptSteps

LEMMA NextPlacement ==
  TypeOK /\ StreamPlacement /\ [Next]_vars => StreamPlacement'
<1> SUFFICES ASSUME TypeOK, StreamPlacement, [Next]_vars
             PROVE  StreamPlacement'
  OBVIOUS
<1>1. CASE UNCHANGED vars \/ Terminated
  BY <1>1 DEF Terminated, StreamPlacement, Mapped
<1>2. ASSUME NEW c \in Channels, ChannelsNext(c)
      PROVE  StreamPlacement'
  <2>1. CASE ChannelNext(c) /\ UNCHANGED serverVars
    BY <2>1, ChannelNextPlacement
  <2>2. CASE ~(ChannelNext(c) /\ UNCHANGED serverVars)
    BY <1>2, <2>2 DEF ChannelsNext, ChannelTimerFires, TimerCloses, TimerClears, Unlist,
         UserClosesChannel, CloseChannel, CloseConn, StreamPlacement, Mapped
  <2> QED
    BY <2>1, <2>2
<1> QED
  BY <1>1, <1>2, ServerNextPlacement, StreamNextPlacement DEF Next

LEMMA PlacementInvariant == Spec => [](TypeOK /\ StreamPlacement)
<1>1. Init => TypeOK /\ StreamPlacement
  BY InitTypeOK, InitStreamPlacement
<1>2. TypeOK /\ StreamPlacement /\ [Next]_vars => TypeOK' /\ StreamPlacement'
  BY NextTypeOK, NextPlacement
<1> QED
  BY <1>1, <1>2, PTL DEF Spec

\* For any streams, channels and addresses: no timer of the server is armed for
\* a stream that a channel serves, whichever of Stream(), the accept loop and a
\* re-binding brought it there.
THEOREM BoundTimerOff == Spec => []BoundStreamHasNoServerTimer
<1>1. StreamPlacement => BoundStreamHasNoServerTimer
  BY DEF StreamPlacement, BoundStreamHasNoServerTimer
<1> QED
  BY <1>1, PlacementInvariant, PTL

-------------------------------------------------------------------------------
(* The life of a channel                                                   *)

\* The labels of a read loop that neither drops a stream nor has gone past the
\* point where its connection is marked closed.
Looping == LoopPCs \ {"drop", "swap", "exitDrop", "return"}

\* A step of the read loop of c that moves no stream.
QuietStep(c) ==
  /\ pc[c] \in Looping
  /\ pc'[c] \in Looping
  /\ connFlag[c] => connFlag'[c]
  /\ \A d \in Channels \ {c} : /\ pc'[d] = pc[d]
                               /\ cur'[d] = cur[d]
                               /\ connFlag'[d] = connFlag[d]
                               /\ chanTimer'[d] = chanTimer[d]
  /\ UNCHANGED <<closed, streamTimer, stream, displaced, firing>>

LEMMA ReadLoopSteps ==
  ASSUME TypeOK, NEW c \in Channels, ChannelNext(c)
  PROVE  \/ QuietStep(c)
         \/ RemoveStream(c) \/ DropStream(c)
         \/ ExitSetClosed(c) \/ ExitSwap(c) \/ ExitDrop(c) \/ Return(c)
<1> USE DEF TypeOK, ChannelTypeOK, NoNilUse, QuietStep, Looping
<1>1. CASE ReadBufferFails(c) \/ ReadBegin(c) \/ DeadlinePasses(c)
  BY <1>1 DEF ReadBufferFails, ReadBegin, DeadlinePasses
<1>2. CASE ReadData(c) \/ ReadTimeout(c) \/ ReadEnds(c)
  BY <1>2 DEF ReadData, ReadTimeout, ReadEnds, ExitLoop
<1>3. CASE ParseIncomplete(c) \/ ParseForStream(c)
  BY <1>3 DEF ParseIncomplete, ParseForStream, TakeResult
<1>4. CASE ParseWithoutStream(c) \/ ParseRefused(c)
  BY <1>4 DEF ParseWithoutStream, ParseRefused, TakeResult
<1>5. CASE HandleEnter(c)
  BY <1>5 DEF HandleEnter
<1>6. CASE HandleLeave(c)
  BY <1>6 DEF HandleLeave, NextPacket
<1>7. CASE RearmTimer(c)
  BY <1>7 DEF RearmTimer, InitChanTimer, NextPacket
<1>8. CASE CloseAndExit(c)
  BY <1>8 DEF CloseAndExit, CloseConn, ExitLoop
<1> QED
  BY <1>1, <1>2, <1>3, <1>4, <1>5, <1>6, <1>7, <1>8
     DEF ChannelNext, RunSteps, PeerSteps

\* The labels of an accept loop that has a channel in hand.
Accepting == {"publish", "idleTimer", "handoff", "displacing", "start"}

\* What the goroutine of a channel has done is seen in the fields of the
\* channel: nothing before it is created, no close before it runs, and once its
\* connection is marked closed no stream is put there again.
ChannelLife ==
  \A c \in Channels :
    /\ pc[c] \in {"none", "created"} => ~connFlag[c]
    /\ pc[c] = "none" => /\ stream[c] = NoStream /\ displaced[c] = NoStream
                         /\ chanTimer[c] = "off" /\ ~firing[c]
    /\ pc[c] \in {"swap", "exitDrop", "return", "returned", "closed"}
         => connFlag[c] /\ displaced[c] = NoStream
    /\ ~Serves(c) => stream[c] = NoStream
    /\ pc[c] = "created" => acur = c /\ spc \in Accepting

\* The accept loop has in hand the last channel accepted, not yet started.
AcceptLife ==
  /\ spc \in Accepting => /\ pc[acur] = "created"
                          /\ \A d \in Channels : d > acur => pc[d] = "none"
  /\ \A c, d \in Channels : d < c /\ pc[c] # "none" => pc[d] # "none"
  /\ inflight # NoStream => spc = "handoff"

\* A channel is found under its own address, and only once it is accepted.
ListLife ==
  /\ \A a \in Addrs : chanMap[a] # NoChannel =>
       AddrOf[chanMap[a]] = a /\ pc[chanMap[a]] # "none"
  /\ bchan # NoChannel => pc[bchan] # "none"
  /\ spc \in Accepting \ {"publish"} => chanMap[AddrOf[acur]] = acur
  /\ RunningChannelListed

Life == ChannelLife /\ AcceptLife /\ ListLife

LEMMA InitLife == Init => Life
  BY DEF Init, ChannelInit, Life, ChannelLife, AcceptLife, ListLife, Serves,
     Accepting, RunningChannelListed, Started

\* The steps of the read loop.
LEMMA ReadLoopLife ==
  ASSUME TypeOK, Life, NEW c \in Channels, ChannelNext(c), UNCHANGED serverVars
  PROVE  Life'
<1> USE DEF TypeOK, ChannelTypeOK, ServerTypeOK, Looping
<1>1. /\ pc[c] \in LoopPCs
      /\ pc'[c] \in LoopPCs \cup {"returned"}
      /\ \A d \in Channels \ {c} : pc'[d] = pc[d]
  BY ReadLoopSteps DEF QuietStep, RemoveStream, NextPacket, DropStream,
     ExitSetClosed, ExitSwap, ExitDrop, Return
<1>2. ChannelLife'
  <2>1. CASE QuietStep(c)
    BY <2>1 DEF QuietStep, Life, ChannelLife, Serves
  <2>2. CASE RemoveStream(c) \/ DropStream(c)
    BY <2>2 DEF RemoveStream, NextPacket, DropStream, Life, ChannelLife, Serves
  <2>3. CASE ExitSetClosed(c) \/ ExitSwap(c)
    BY <2>3 DEF ExitSetClosed, ExitSwap, Life, ChannelLife, Serves
  <2>4. CASE ExitDrop(c) \/ Return(c)
    BY <2>4 DEF ExitDrop, Return, Life, ChannelLife, Serves
  <2> QED
    BY ReadLoopSteps, <2>1, <2>2, <2>3, <2>4
<1>3. \A d \in Channels :
        /\ pc'[d] = "none" <=> pc[d] = "none"
        /\ pc[d] = "created" => pc'[d] = "created"
        /\ pc'[d] \in LoopPCs => pc[d] \in LoopPCs
  BY <1>1
<1>4. AcceptLife'
  <2>1. spc \in Accepting => acur \in Channels
    BY DEF NoNilUse, Accepting
  <2> QED
    BY <1>3, <2>1 DEF Life, AcceptLife
<1>5. ListLife'
  <2>1. RunningChannelListed'
    BY <1>3 DEF Life, ListLife, RunningChannelListed, Superseded, Started
  <2>2. ASSUME NEW a \in Addrs, chanMap[a] # NoChannel
        PROVE  pc'[chanMap[a]] # "none"
    <3>1. chanMap[a] \in Channels /\ pc[chanMap[a]] # "none"
      BY <2>2 DEF Life, ListLife
    <3> QED
      BY <1>3, <3>1
  <2>3. bchan # NoChannel => pc'[bchan] # "none"
    BY <1>3 DEF Life, ListLife
  <2> QED
    BY <2>1, <2>2, <2>3 DEF Life, ListLife
<1> QED
  BY <1>2, <1>4, <1>5 DEF Life

\* The other steps on a channel.
LEMMA ChannelsNextLife ==
  ASSUME TypeOK, Life, NEW c \in Channels, ChannelsNext(c)
  PROVE  Life'
<1> USE DEF TypeOK, ChannelTypeOK, ServerTypeOK
<1>1. CASE ChannelNext(c) /\ UNCHANGED serverVars
  BY <1>1, ReadLoopLife
<1>2. CASE /\ ChannelTimerFires(c) \/ TimerCloses(c) \/ TimerClears(c)
           /\ UNCHANGED serverVars
  <2>1. ChannelLife'
    <3>1. CASE ChannelTimerFires(c)
      BY <1>2, <3>1 DEF ChannelTimerFires, Life, ChannelLife, Serves
    <3>2. CASE TimerCloses(c)
      <4>1. /\ UNCHANGED <<pc, stream, displaced, acur, spc>>
            /\ firing' = [firing EXCEPT ![c] = FALSE]
            /\ pc[c] \notin {"none", "created"}
                 => /\ connFlag' = [connFlag EXCEPT ![c] = TRUE]
                    /\ chanTimer' = [chanTimer EXCEPT ![c] = "off"]
            /\ pc[c] = "created" => UNCHANGED <<connFlag, chanTimer>>
            /\ pc[c] # "none"
        BY <3>2, <1>2 DEF TimerCloses, CloseConn, Life, ChannelLife
      <4>2. CASE pc[c] = "created"
        BY <4>1, <4>2 DEF Life, ChannelLife, Serves
      <4>3. CASE pc[c] # "created"
        BY <4>1, <4>3 DEF Life, ChannelLife, Serves
      <4> QED
        BY <4>2, <4>3
    <3>3. CASE TimerClears(c)
      BY <1>2, <3>3 DEF TimerClears, Life, ChannelLife, Serves
    <3> QED
      BY <1>2, <3>1, <3>2, <3>3
  <2>2. AcceptLife' /\ ListLife'
    BY <1>2 DEF ChannelTimerFires, TimerCloses, TimerClears, Life, AcceptLife, ListLife,
       RunningChannelListed, Superseded, Started
  <2> QED
    BY <2>1, <2>2 DEF Life
<1>3. CASE UserClosesChannel(c)
  <2>1. ChannelLife'
    BY <1>3 DEF UserClosesChannel, CloseChannel, CloseConn, Started, Life,
       ChannelLife, Serves
  <2>2. AcceptLife' /\ ListLife'
    BY <1>3 DEF UserClosesChannel, CloseChannel, Life, AcceptLife, ListLife,
       RunningChannelListed, Superseded, Started
  <2> QED
    BY <2>1, <2>2 DEF Life
<1>4. CASE Unlist(c)
  <2>1. ChannelLife'
    BY <1>4 DEF Unlist, Life, ChannelLife, Serves
  <2>2. AcceptLife'
    BY <1>4 DEF Unlist, Life, AcceptLife, Accepting
  <2>3. ListLife'
    BY <1>4 DEF Unlist, Life, AcceptLife, ListLife, Accepting,
       RunningChannelListed, Superseded, Started
  <2> QED
    BY <2>1, <2>2, <2>3 DEF Life
<1> QED
  BY <1>1, <1>2, <1>3, <1>4 DEF ChannelsNext

\* Stream() touches a channel it has found in the map, and binds to it only
\* while the flag is down; the timers and RemoveStream touch none.
LEMMA StreamNextLife ==
  ASSUME TypeOK, Life, NEW s \in Streams, StreamNext(s)
  PROVE  Life'
<1> USE DEF TypeOK, ChannelTypeOK, ServerTypeOK, NoNilUse
<1>1. UNCHANGED <<pc, connFlag, firing, chanMap, spc, acur, inflight>>
  BY DEF StreamNext, BindSteps, BindRefused, BindToServer, BindFindChannel,
     BindToChannel, BindStream, BindToChannelRefused, BindDisplaces,
     CloseDisplaced, BindSetTime, RebindToServer, BindClosesOld, PutInServer,
     UserRemoves, StreamTimeout, CloseRemoved
<1>2. AcceptLife'
  BY <1>1 DEF Life, AcceptLife
<1>3. CASE BindToChannel(s)
  <2>1. bchan \in Channels /\ pc[bchan] # "none" /\ ~connFlag[bchan]
    BY <1>3 DEF BindToChannel, BindStream, Life, ListLife
  <2>2. ChannelLife'
    BY <1>1, <1>3, <2>1 DEF BindToChannel, BindStream, Life, ChannelLife, Serves
  <2>3. ListLife'
    BY <1>1, <1>3 DEF BindToChannel, Life, ListLife, RunningChannelListed,
       Superseded, Started
  <2> QED
    BY <1>2, <2>2, <2>3 DEF Life
<1>4. CASE ~BindToChannel(s)
  <2>1. /\ UNCHANGED <<stream, chanTimer>>
        /\ \A c \in Channels : displaced'[c] \in {displaced[c], NoStream}
        /\ bchan' \in {bchan, NoChannel, chanMap[AddrOf[s]]}
    BY <1>4 DEF StreamNext, BindSteps, BindRefused, BindToServer, BindFindChannel,
       BindToChannelRefused, BindDisplaces,
       CloseDisplaced, BindSetTime, RebindToServer, BindClosesOld, PutInServer,
       UserRemoves, StreamTimeout, CloseRemoved
  <2>2. ChannelLife'
    BY <1>1, <2>1 DEF Life, ChannelLife, Serves
  <2>3. ListLife'
    BY <1>1, <2>1 DEF Life, ListLife, RunningChannelListed, Superseded, Started
  <2> QED
    BY <1>2, <2>2, <2>3 DEF Life
<1> QED
  BY <1>3, <1>4

\* The steps of the accept loop and of the shutdown.
LEMMA ServerNextLife ==
  ASSUME TypeOK, Life, ServerNext
  PROVE  Life'
<1> USE DEF TypeOK, ChannelTypeOK, ServerTypeOK, NoNilUse, Accepting
<1>1. ASSUME NEW c \in Channels, Accept(c) PROVE Life'
  <2>1. ChannelLife'
    BY <1>1 DEF Accept, Life, ChannelLife, Serves
  <2>2. AcceptLife'
    BY <1>1 DEF Accept, Life, AcceptLife
  <2>3. ListLife'
    BY <1>1 DEF Accept, Life, ListLife, RunningChannelListed, Superseded, Started
  <2> QED
    BY <2>1, <2>2, <2>3 DEF Life
<1>2. CASE Publish
  <2>1. acur \in Channels /\ pc[acur] = "created"
    BY <1>2 DEF Publish, Life, AcceptLife
  <2>2. ChannelLife' /\ AcceptLife'
    BY <1>2 DEF Publish, Life, ChannelLife, AcceptLife, Serves
  <2>3. RunningChannelListed'
    BY <1>2, <2>1 DEF Publish, Life, AcceptLife, ListLife,
       RunningChannelListed, Superseded, Started
  <2>4. ListLife'
    BY <1>2, <2>1, <2>3 DEF Publish, Life, ListLife
  <2> QED
    BY <2>2, <2>4 DEF Life
<1>3. CASE HandOff
  <2>1. acur \in Channels /\ pc[acur] = "created"
    BY <1>3 DEF HandOff, Life, AcceptLife
  <2>2. ChannelLife' /\ AcceptLife'
    BY <1>3, <2>1 DEF HandOff, BindStream, Life, ChannelLife, AcceptLife, Serves
  <2>3. ListLife'
    BY <1>3 DEF HandOff, BindStream, Life, ListLife, RunningChannelListed,
       Superseded, Started
  <2> QED
    BY <2>2, <2>3 DEF Life
<1>4. CASE StartChannel
  <2>1. acur \in Channels /\ pc[acur] = "created" /\ chanMap[AddrOf[acur]] = acur
    BY <1>4 DEF StartChannel, Life, AcceptLife, ListLife
  <2>2. pc' = [pc EXCEPT ![acur] = "load"]
    BY <1>4 DEF StartChannel
  <2>3. ChannelLife' /\ AcceptLife'
    BY <1>4, <2>1, <2>2 DEF StartChannel, Life, ChannelLife, AcceptLife, Serves
  <2>4. RunningChannelListed'
    BY <1>4, <2>1, <2>2 DEF StartChannel, Life, ListLife, RunningChannelListed,
       Superseded, Started
  <2>5. ListLife'
    BY <1>4, <2>1, <2>2, <2>4 DEF StartChannel, Life, ListLife
  <2> QED
    BY <2>3, <2>5 DEF Life
<1>5. ASSUME NEW c \in Channels, ShutdownChannel(c) PROVE Life'
  <2>1. ChannelLife'
    BY <1>5 DEF ShutdownChannel, CloseChannel, CloseConn, Started, Life,
       ChannelLife, Serves
  <2>2. AcceptLife' /\ ListLife'
    BY <1>5 DEF ShutdownChannel, CloseChannel, CloseConn, Life, AcceptLife,
       ListLife, RunningChannelListed, Superseded, Started
  <2> QED
    BY <2>1, <2>2 DEF Life
<1>6. ASSUME Start \/ AcceptEnds \/ UserClosesServer \/ InitIdleTimer
             \/ HandOffDisplaces \/ SetClosed \/ TakeSnapshot \/ Shutdown
             \/ \E a \in Addrs : DrainStream(a)
      PROVE  Life'
  <2>1. /\ UNCHANGED <<pc, connFlag, firing, stream, acur, inflight, bchan, chanMap>>
        /\ \A c \in Channels : displaced'[c] \in {displaced[c], NoStream}
        /\ \A c \in Channels : pc[c] = "none" => chanTimer'[c] = chanTimer[c]
        /\ \/ spc' = spc
           \/ spc \in {"idleTimer", "displacing"} /\ spc' = "start"
           \/ spc \notin Accepting /\ spc' \notin Accepting
    <3>1. CASE InitIdleTimer
      <4>1. acur \in Channels /\ pc[acur] = "created"
        BY <3>1 DEF InitIdleTimer, Life, AcceptLife
      <4> QED
        BY <3>1, <4>1 DEF InitIdleTimer, InitChanTimer
    <3>2. CASE HandOffDisplaces
      BY <3>2 DEF HandOffDisplaces, CloseDisplaced
    <3>3. CASE Start \/ AcceptEnds \/ UserClosesServer
      BY <3>3 DEF Start, AcceptEnds, UserClosesServer
    <3>4. CASE SetClosed \/ TakeSnapshot \/ Shutdown \/ \E a \in Addrs : DrainStream(a)
      BY <3>4 DEF SetClosed, TakeSnapshot, Shutdown, DrainStream
    <3> QED
      BY <1>6, <3>1, <3>2, <3>3, <3>4
  <2>2. ChannelLife' /\ AcceptLife'
    BY <2>1 DEF Life, ChannelLife, AcceptLife, Serves
  <2>3. ListLife'
    BY <2>1 DEF Life, ListLife, RunningChannelListed, Superseded, Started
  <2> QED
    BY <2>2, <2>3 DEF Life
<1> QED
  BY <1>1, <1>2, <1>3, <1>4, <1>5, <1>6 DEF ServerNext, AcceptSteps

LEMMA NextLife == TypeOK /\ Life /\ [Next]_vars => Life'
<1>1. ASSUME UNCHANGED vars \/ Terminated, Life PROVE Life'
  BY <1>1 DEF Terminated, Life, ChannelLife, AcceptLife, ListLife, Serves,
     RunningChannelListed, Superseded, Started
<1> QED
  BY <1>1, ServerNextLife, StreamNextLife, ChannelsNextLife DEF Next

LEMMA LifeInvariant == Spec => [](TypeOK /\ Life)
<1>1. Init => TypeOK /\ Life
  BY InitTypeOK, InitLife
<1>2. TypeOK /\ Life /\ [Next]_vars => TypeOK' /\ Life'
  BY NextTypeOK, NextLife
<1> QED
  BY <1>1, <1>2, PTL DEF Spec

\* For any number of connections, addresses and streams: the stream that waited
\* for a connection is never handed to a closed channel, and a connection that
\* runs is found under its address until a later one takes its place (the two
\* things tcp-server.go:300 and the shutdown at tcp-server.go:257 rely on).
THEOREM RunningChannelsInReach == Spec => []ChannelsInReach
<1>1. TypeOK /\ Life => ChannelsInReach
  BY DEF TypeOK, ServerTypeOK, NoNilUse, Life, ChannelLife, AcceptLife, ListLife,
     Accepting, ChannelsInReach, HandOffNotRefused
<1> QED
  BY <1>1, LifeInvariant, PTL

-------------------------------------------------------------------------------
(* The idle timer                                                          *)

\* The labels from which a read loop comes back to its wait with the stream of
\* its channel as it was.
Reading == {"load", "wait", "expired", "dispatch", "handle", "handling", "remove"}

Excused(c) == early[c] # "no"

\* IdleChannelGuarded at every label of the loop, and at the moment the accept
\* loop starts it.
IdleTimer ==
  /\ \A c \in Channels : chanTimer[c] = "spent" => firing[c] \/ early[c] = "clearing"
  /\ ChannelTimeout => \A c \in Channels :
       pc[c] \in Reading /\ stream[c] = NoStream /\ ~connFlag[c]
         => Guarded(c) \/ Excused(c)
  /\ spc = "displacing" => stream[acur] # NoStream
  /\ ChannelTimeout /\ spc = "start"
       => stream[acur] # NoStream \/ Guarded(acur) \/ Excused(acur)

LEMMA InitIdleTimerInv == Init => IdleTimer
  BY DEF Init, ChannelInit, IdleTimer, Reading, Guarded, Excused

LEMMA ReadLoopIdleTimer ==
  ASSUME TypeOK, Life, IdleTimer, NEW c \in Channels, ChannelNext(c),
         UNCHANGED serverVars
  PROVE  IdleTimer'
<1> USE DEF TypeOK, ChannelTypeOK, ServerTypeOK, NoNilUse, IdleTimer, Reading, Guarded, Excused
<1>1. spc \in {"displacing", "start"} => acur \in Channels /\ pc[acur] = "created"
  BY DEF Life, AcceptLife, Accepting
<1>2. CASE ReadBufferFails(c) \/ ReadBegin(c) \/ DeadlinePasses(c)
  BY <1>2 DEF ReadBufferFails, ReadBegin, DeadlinePasses
<1>3. CASE ReadData(c) \/ ReadTimeout(c) \/ ReadEnds(c)
  BY <1>3 DEF ReadData, ReadTimeout, ReadEnds, ExitLoop
<1>4. CASE ParseIncomplete(c) \/ ParseForStream(c)
  BY <1>4 DEF ParseIncomplete, ParseForStream, TakeResult
<1>5. CASE ParseWithoutStream(c) \/ ParseRefused(c)
  BY <1>5 DEF ParseWithoutStream, ParseRefused, TakeResult
<1>6. CASE HandleEnter(c)
  BY <1>6 DEF HandleEnter
<1>7. CASE HandleLeave(c)
  BY <1>7 DEF HandleLeave, NextPacket
<1>8. CASE RearmTimer(c)
  BY <1>8 DEF RearmTimer, NextPacket, InitChanTimer
<1>9. CASE CloseAndExit(c)
  BY <1>9 DEF CloseAndExit, CloseConn, ExitLoop
<1>10. CASE RemoveStream(c)
  BY <1>1, <1>10 DEF RemoveStream, NextPacket
<1>11. CASE DropStream(c)
  BY <1>11 DEF DropStream
<1>12. CASE ExitSetClosed(c)
  BY <1>12 DEF ExitSetClosed
<1>13. CASE ExitSwap(c)
  BY <1>1, <1>13 DEF ExitSwap
<1>14. CASE ExitDrop(c)
  BY <1>14 DEF ExitDrop
<1>15. CASE Return(c)
  BY <1>1, <1>15 DEF Return
<1> QED
  BY <1>2, <1>3, <1>4, <1>5, <1>6, <1>7, <1>8, <1>9, <1>10, <1>11, <1>12,
     <1>13, <1>14, <1>15 DEF ChannelNext, RunSteps, PeerSteps

\* A step that binds a stream switches the timer off; no other step of Stream(),
\* of the timers of the streams or of RemoveStream touches a channel's timer.
LEMMA StreamNextIdleTimer ==
  ASSUME TypeOK, IdleTimer, NEW s \in Streams, StreamNext(s)
  PROVE  IdleTimer'
<1> USE DEF TypeOK, ChannelTypeOK, ServerTypeOK, NoNilUse, IdleTimer, Guarded, Excused
<1>1. CASE BindToChannel(s)
  BY <1>1 DEF BindToChannel, BindStream
<1>2. CASE ~BindToChannel(s)
  <2>1. UNCHANGED <<pc, connFlag, firing, early, chanTimer, stream, spc, acur>>
    BY <1>2 DEF StreamNext, BindSteps, BindRefused, BindToServer,
       BindFindChannel, BindToChannelRefused, BindDisplaces, CloseDisplaced,
       BindSetTime, RebindToServer, BindClosesOld, PutInServer, UserRemoves,
       StreamTimeout, CloseRemoved
  <2> QED
    BY <2>1
<1> QED
  BY <1>1, <1>2

LEMMA ServerNextIdleTimer ==
  ASSUME TypeOK, Life, IdleTimer, ServerNext
  PROVE  IdleTimer'
<1> USE DEF TypeOK, ChannelTypeOK, ServerTypeOK, NoNilUse, IdleTimer, Guarded, Excused
<1>1. spc \in Accepting => acur \in Channels /\ pc[acur] = "created"
  BY DEF Life, AcceptLife, Accepting
<1>2. CASE InitIdleTimer
  BY <1>1, <1>2 DEF InitIdleTimer, InitChanTimer, Accepting, Reading
<1>3. CASE HandOff
  BY <1>1, <1>3 DEF HandOff, BindStream, Accepting
<1>4. CASE StartChannel
  BY <1>1, <1>4 DEF StartChannel, Accepting
<1>5. ASSUME NEW c \in Channels, ShutdownChannel(c) \/ Accept(c) PROVE IdleTimer'
  BY <1>5 DEF ShutdownChannel, CloseChannel, CloseConn, Accept, Reading
<1>6. ASSUME Start \/ AcceptEnds \/ UserClosesServer \/ Publish
             \/ HandOffDisplaces \/ SetClosed \/ TakeSnapshot \/ Shutdown
             \/ \E a \in Addrs : DrainStream(a)
      PROVE  IdleTimer'
  <2>1. /\ UNCHANGED <<pc, connFlag, firing, early, chanTimer, stream, acur>>
        /\ \/ spc' = spc
           \/ spc = "displacing" /\ spc' = "start"
           \/ spc' \notin {"displacing", "start"}
    BY <1>6 DEF Start, AcceptEnds, UserClosesServer, Publish,
       HandOffDisplaces, CloseDisplaced, SetClosed, TakeSnapshot, Shutdown,
       DrainStream
  <2> QED
    BY <2>1
<1> QED
  BY <1>2, <1>3, <1>4, <1>5, <1>6 DEF ServerNext, AcceptSteps

LEMMA NextIdleTimer ==
  ASSUME TypeOK, Life, IdleTimer, [Next]_vars
  PROVE  IdleTimer'
<1>1. CASE UNCHANGED vars \/ Terminated
  BY <1>1 DEF Terminated, IdleTimer, Guarded, Excused
<1>2. ASSUME NEW c \in Channels, ChannelsNext(c) PROVE IdleTimer'
  <2> USE DEF TypeOK, ChannelTypeOK, ServerTypeOK, NoNilUse, IdleTimer, Guarded, Excused
  <2>1. CASE ChannelNext(c) /\ UNCHANGED serverVars
    BY <2>1, ReadLoopIdleTimer
  <2>2. CASE ChannelTimerFires(c) /\ UNCHANGED serverVars
    BY <2>2 DEF ChannelTimerFires
  <2>3. CASE TimerCloses(c) /\ UNCHANGED serverVars
    <3>1. spc \in {"displacing", "start"} => pc[acur] = "created"
      BY DEF Life, AcceptLife, Accepting
    <3> QED
      BY <2>3, <3>1 DEF TimerCloses, CloseConn
  <2>4. CASE UserClosesChannel(c)
    BY <2>4 DEF UserClosesChannel, CloseChannel, CloseConn
  <2>5. CASE Unlist(c)
    BY <2>5 DEF Unlist, Reading
  <2>6. CASE TimerClears(c) /\ UNCHANGED serverVars
    BY <2>6 DEF TimerClears
  <2> QED
    BY <1>2, <2>1, <2>2, <2>3, <2>4, <2>5, <2>6 DEF ChannelsNext
<1> QED
  BY <1>1, <1>2, ServerNextIdleTimer, StreamNextIdleTimer DEF Next

\* For any number of connections: a connection that serves no stream and waits
\* for data has its idle timer running, whatever Stream(), the read loop, the
\* accept loop and the timer itself have done before (tcp-server.go:305,
\* tcp-channel.go:348); unless the timer ran out before the connection's
\* goroutine was started (tcp-server.go:317).
THEOREM IdleChannelsTimeOut == Spec => []IdleChannelGuarded
<1>1. Init => IdleTimer
  BY InitIdleTimerInv
<1>2. TypeOK /\ Life /\ IdleTimer /\ [Next]_vars => IdleTimer'
  BY NextIdleTimer
<1>3. IdleTimer => IdleChannelGuarded
  BY DEF IdleTimer, IdleChannelGuarded, Idle, Reading, Guarded, Excused
<1> QED
  BY <1>1, <1>2, <1>3, LifeInvariant, PTL DEF Spec

-------------------------------------------------------------------------------
(* Streams                                                                 *)

Registered(s) == bpc[s] \notin {"new", "refused"}

\* Only streams of calls that have begun are anywhere, or are closed.
OnlyRegistered ==
  /\ \A s \in Streams : closed[s] \/ s \in removed => Registered(s)
  /\ \A a \in Addrs : strMap[a] # NoStream => Registered(strMap[a])
  /\ inflight # NoStream => Registered(inflight)
  /\ bold # NoStream => Registered(bold)
  /\ \A c \in Channels :
       /\ stream[c] # NoStream => Registered(stream[c])
       /\ displaced[c] # NoStream => Registered(displaced[c])
       /\ cur[c] # NoStream => Registered(cur[c])

\* A channel in a callback holds the handlerLock of its stream, and no other
\* channel does.
CallbackHoldsLock ==
  \A c \in Channels : pc[c] = "handling" =>
    /\ busy[cur[c]]
    /\ \A d \in Channels \ {c} : pc[d] = "handling" => cur[d] # cur[c]

CallbackInv == OnlyRegistered /\ CallbackHoldsLock

LEMMA InitCallbackInv == Init => CallbackInv
  BY DEF Init, ChannelInit, CallbackInv, OnlyRegistered, CallbackHoldsLock

-------------------------------------------------------------------------------
(* OnlyRegistered                                                          *)

\* Streams move between places; a call that has begun stays begun.
LEMMA NextOnlyRegistered ==
  ASSUME TypeOK, OnlyRegistered, [Next]_vars
  PROVE  OnlyRegistered'
<1> USE DEF TypeOK, ChannelTypeOK, ServerTypeOK, NoNilUse
<1>1. ASSUME NEW c \in Channels, ChannelNext(c), UNCHANGED serverVars
      PROVE  OnlyRegistered'
  <2>1. CASE ReadBufferFails(c)
    BY <1>1, <2>1 DEF OnlyRegistered, Registered, ReadBufferFails
  <2>2. CASE ReadBegin(c)
    BY <1>1, <2>2 DEF OnlyRegistered, Registered, ReadBegin
  <2>3. CASE DeadlinePasses(c)
    BY <1>1, <2>3 DEF OnlyRegistered, Registered, DeadlinePasses
  <2>4. CASE ReadData(c)
    BY <1>1, <2>4 DEF OnlyRegistered, Registered, ReadData
  <2>5. CASE ReadTimeout(c)
    BY <1>1, <2>5 DEF OnlyRegistered, Registered, ReadTimeout
  <2>6. CASE ReadEnds(c)
    BY <1>1, <2>6 DEF OnlyRegistered, Registered, ReadEnds, ExitLoop
  <2>7. CASE ParseIncomplete(c)
    BY <1>1, <2>7 DEF OnlyRegistered, Registered, ParseIncomplete,
       TakeResult
  <2>8. CASE ParseForStream(c)
    BY <1>1, <2>8 DEF OnlyRegistered, Registered, ParseForStream, TakeResult
  <2>9. CASE ParseWithoutStream(c)
    BY <1>1, <2>9 DEF OnlyRegistered, Registered, ParseWithoutStream,
       TakeResult
  <2>10. CASE ParseRefused(c)
    BY <1>1, <2>10 DEF OnlyRegistered, Registered, ParseRefused, TakeResult
  <2>11. CASE HandleEnter(c)
    BY <1>1, <2>11 DEF OnlyRegistered, Registered, HandleEnter
  <2>12. CASE HandleLeave(c)
    BY <1>1, <2>12 DEF OnlyRegistered, Registered, HandleLeave, NextPacket
  <2>13. CASE RemoveStream(c)
    BY <1>1, <2>13 DEF OnlyRegistered, Registered, RemoveStream, NextPacket
  <2>14. CASE DropStream(c)
    BY <1>1, <2>14 DEF OnlyRegistered, Registered, DropStream, CloseStream
  <2>15. CASE RearmTimer(c)
    BY <1>1, <2>15 DEF OnlyRegistered, Registered, RearmTimer, NextPacket,
       InitChanTimer
  <2>16. CASE CloseAndExit(c)
    BY <1>1, <2>16 DEF OnlyRegistered, Registered, CloseAndExit, CloseConn,
       ExitLoop
  <2>17. CASE ExitSetClosed(c)
    BY <1>1, <2>17 DEF OnlyRegistered, Registered, ExitSetClosed
  <2>18. CASE ExitSwap(c)
    BY <1>1, <2>18 DEF OnlyRegistered, Registered, ExitSwap
  <2>19. CASE ExitDrop(c)
    BY <1>1, <2>19 DEF OnlyRegistered, Registered, ExitDrop, CloseStream
  <2>20. CASE Return(c)
    BY <1>1, <2>20 DEF OnlyRegistered, Registered, Return
  <2> QED
    BY <1>1, <2>1, <2>2, <2>3, <2>4, <2>5, <2>6, <2>7, <2>8, <2>9, <2>10,
       <2>11, <2>12, <2>13, <2>14, <2>15, <2>16, <2>17, <2>18, <2>19, <2>20
       DEF ChannelNext, RunSteps, PeerSteps
<1>2. ASSUME NEW c \in Channels, ChannelsNext(c) PROVE OnlyRegistered'
  <2>1. CASE ChannelTimerFires(c) /\ UNCHANGED serverVars
    BY <2>1 DEF OnlyRegistered, Registered, ChannelTimerFires
  <2>2. CASE TimerCloses(c) /\ UNCHANGED serverVars
    BY <2>2 DEF OnlyRegistered, Registered, TimerCloses, CloseConn
  <2>3. CASE UserClosesChannel(c)
    BY <2>3 DEF OnlyRegistered, Registered, UserClosesChannel, CloseChannel,
       CloseConn
  <2>4. CASE Unlist(c)
    BY <2>4 DEF OnlyRegistered, Registered, Unlist
  <2>5. CASE TimerClears(c) /\ UNCHANGED serverVars
    BY <2>5 DEF OnlyRegistered, Registered, TimerClears
  <2> QED
    BY <1>1, <1>2, <2>1, <2>2, <2>3, <2>4, <2>5 DEF ChannelsNext
<1>3. ASSUME NEW s \in Streams, StreamNext(s) PROVE OnlyRegistered'
  <2>1. CASE BindRefused(s)
    BY <2>1 DEF OnlyRegistered, Registered, BindRefused
  <2>2. CASE BindFindChannel(s)
    BY <2>2 DEF OnlyRegistered, Registered, BindFindChannel
  <2>3. CASE BindToChannel(s)
    BY <2>3 DEF OnlyRegistered, Registered, BindToChannel, BindStream
  <2>4. CASE BindToChannelRefused(s)
    BY <2>4 DEF OnlyRegistered, Registered, BindToChannelRefused
  <2>5. CASE BindDisplaces(s)
    BY <2>5 DEF OnlyRegistered, Registered, BindDisplaces, CloseDisplaced,
       CloseStream
  <2>6. CASE BindSetTime(s)
    BY <2>6 DEF OnlyRegistered, Registered, BindSetTime
  <2>7. CASE BindClosesOld(s)
    BY <2>7 DEF OnlyRegistered, Registered, BindClosesOld,
       ServerCloseStream, CloseStream
  <2>8. CASE UserRemoves(s)
    BY <2>8 DEF OnlyRegistered, Registered, UserRemoves, DeleteStream,
       Mapped
  <2>9. CASE StreamTimeout(s)
    BY <2>9 DEF OnlyRegistered, Registered, StreamTimeout, DeleteStream,
       Mapped
  <2>10. CASE CloseRemoved(s)
    BY <2>10 DEF OnlyRegistered, Registered, CloseRemoved,
       ServerCloseStream, CloseStream
  <2>11. CASE BindToServer(s)
    BY <2>11 DEF OnlyRegistered, Registered, BindToServer, PutInServer,
       InitStreamTimer
  <2>12. CASE RebindToServer(s)
    BY <2>12 DEF OnlyRegistered, Registered, RebindToServer, PutInServer,
       InitStreamTimer
  <2> QED
    BY <1>3, <2>1, <2>2, <2>3, <2>4, <2>5, <2>6, <2>7, <2>8, <2>9, <2>10,
       <2>11, <2>12 DEF StreamNext, BindSteps
<1>4. CASE ServerNext
  <2>1. CASE Start
    BY <2>1 DEF OnlyRegistered, Registered, Start
  <2>2. CASE AcceptEnds
    BY <2>2 DEF OnlyRegistered, Registered, AcceptEnds
  <2>3. CASE UserClosesServer
    BY <2>3 DEF OnlyRegistered, Registered, UserClosesServer
  <2>4. CASE Publish
    BY <2>4 DEF OnlyRegistered, Registered, Publish
  <2>5. CASE InitIdleTimer
    BY <2>5 DEF OnlyRegistered, Registered, InitIdleTimer, InitChanTimer
  <2>6. CASE HandOff
    BY <2>6 DEF OnlyRegistered, Registered, HandOff, BindStream
  <2>7. CASE HandOffDisplaces
    BY <2>7 DEF OnlyRegistered, Registered, HandOffDisplaces,
       CloseDisplaced, CloseStream
  <2>8. CASE StartChannel
    BY <2>8 DEF OnlyRegistered, Registered, StartChannel
  <2>9. CASE SetClosed
    BY <2>9 DEF OnlyRegistered, Registered, SetClosed
  <2>10. CASE TakeSnapshot
    BY <2>10 DEF OnlyRegistered, Registered, TakeSnapshot
  <2>11. CASE Shutdown
    BY <2>11 DEF OnlyRegistered, Registered, Shutdown
  <2>12. ASSUME NEW c \in Channels, Accept(c) PROVE OnlyRegistered'
    BY <2>12 DEF OnlyRegistered, Registered, Accept
  <2>13. ASSUME NEW c \in Channels, ShutdownChannel(c) PROVE OnlyRegistered'
    BY <2>13 DEF OnlyRegistered, Registered, ShutdownChannel, CloseChannel,
       CloseConn
  <2>14. ASSUME NEW a \in Addrs, DrainStream(a) PROVE OnlyRegistered'
    BY <2>14 DEF OnlyRegistered, Registered, DrainStream, ServerCloseStream,
       CloseStream
  <2> QED
    BY <1>4, <2>1, <2>2, <2>3, <2>4, <2>5, <2>6, <2>7, <2>8, <2>9, <2>10,
       <2>11, <2>12, <2>13, <2>14 DEF ServerNext, AcceptSteps
<1>5. CASE UNCHANGED vars \/ Terminated
  BY <1>5 DEF OnlyRegistered, Registered, Terminated
<1> QED
  BY <1>2, <1>3, <1>4, <1>5 DEF Next

-------------------------------------------------------------------------------
(* Which steps the contract can see                                        *)

\* Nothing a Handler can observe changes: no callback begins or ends, no stream
\* is closed, and no call of Stream() begins or is refused.
Silent ==
  /\ UNCHANGED <<closed, busy>>
  /\ \A s \in Streams : bpc'[s] = bpc[s] \/ (Registered(s) /\ Registered(s)')

\* No channel is in a callback that was not in it before.
NoCallbackBegins ==
  \A c \in Channels : pc'[c] = "handling" => pc[c] = "handling" /\ cur'[c] = cur[c]

\* Stream t is closed, and nothing else that a Handler can observe changes.
Closing(t) ==
  /\ CloseStream(t)
  /\ UNCHANGED busy
  /\ \A s \in Streams : bpc'[s] = bpc[s] \/ (Registered(s) /\ Registered(s)')

\* The call Stream() for s begins and registers it.
Registering(s) ==
  /\ bpc[s] = "new"
  /\ Registered(s)'
  /\ UNCHANGED <<closed, busy>>
  /\ \A t \in Streams \ {s} : bpc'[t] = bpc[t]

\* The steps of a channel, other than those of a callback.
LEMMA ChannelSteps ==
  ASSUME TypeOK, OnlyRegistered, NEW c \in Channels, ChannelsNext(c),
         ~((HandleEnter(c) \/ HandleLeave(c)) /\ UNCHANGED serverVars)
  PROVE  /\ Silent \/ \E t \in Streams : Registered(t) /\ Closing(t)
         /\ NoCallbackBegins
<1> USE DEF TypeOK, ChannelTypeOK, ServerTypeOK, NoNilUse
<1>1. CASE (DropStream(c) \/ ExitDrop(c)) /\ UNCHANGED serverVars
  <2>1. cur[c] \in Streams /\ Registered(cur[c])
    BY <1>1 DEF DropStream, ExitDrop, OnlyRegistered
  <2>2. Closing(cur[c]) /\ NoCallbackBegins
    BY <1>1, <2>1 DEF DropStream, ExitDrop, Closing, NoCallbackBegins
  <2> QED
    BY <2>1, <2>2
<1>2. CASE ReadBufferFails(c) /\ UNCHANGED serverVars
  BY <1>2 DEF Silent, NoCallbackBegins, ReadBufferFails
<1>3. CASE ReadBegin(c) /\ UNCHANGED serverVars
  BY <1>3 DEF Silent, NoCallbackBegins, ReadBegin
<1>4. CASE DeadlinePasses(c) /\ UNCHANGED serverVars
  BY <1>4 DEF Silent, NoCallbackBegins, DeadlinePasses
<1>5. CASE ReadData(c) /\ UNCHANGED serverVars
  BY <1>5 DEF Silent, NoCallbackBegins, ReadData
<1>6. CASE ReadTimeout(c) /\ UNCHANGED serverVars
  BY <1>6 DEF Silent, NoCallbackBegins, ReadTimeout
<1>7. CASE ReadEnds(c) /\ UNCHANGED serverVars
  BY <1>7 DEF Silent, NoCallbackBegins, ReadEnds, ExitLoop
<1>8. CASE ParseIncomplete(c) /\ UNCHANGED serverVars
  BY <1>8 DEF Silent, NoCallbackBegins, ParseIncomplete, TakeResult
<1>9. CASE ParseForStream(c) /\ UNCHANGED serverVars
  BY <1>9 DEF Silent, NoCallbackBegins, ParseForStream, TakeResult
<1>10. CASE ParseWithoutStream(c) /\ UNCHANGED serverVars
  BY <1>10 DEF Silent, NoCallbackBegins, ParseWithoutStream, TakeResult
<1>11. CASE ParseRefused(c) /\ UNCHANGED serverVars
  BY <1>11 DEF Silent, NoCallbackBegins, ParseRefused, TakeResult
<1>12. CASE RemoveStream(c) /\ UNCHANGED serverVars
  BY <1>12 DEF Silent, NoCallbackBegins, RemoveStream, NextPacket
<1>13. CASE RearmTimer(c) /\ UNCHANGED serverVars
  BY <1>13 DEF Silent, NoCallbackBegins, RearmTimer, NextPacket,
     InitChanTimer
<1>14. CASE CloseAndExit(c) /\ UNCHANGED serverVars
  BY <1>14 DEF Silent, NoCallbackBegins, CloseAndExit, CloseConn, ExitLoop
<1>15. CASE ExitSetClosed(c) /\ UNCHANGED serverVars
  BY <1>15 DEF Silent, NoCallbackBegins, ExitSetClosed
<1>16. CASE ExitSwap(c) /\ UNCHANGED serverVars
  BY <1>16 DEF Silent, NoCallbackBegins, ExitSwap
<1>17. CASE Return(c) /\ UNCHANGED serverVars
  BY <1>17 DEF Silent, NoCallbackBegins, Return
<1>18. CASE ChannelTimerFires(c) /\ UNCHANGED serverVars
  BY <1>18 DEF Silent, NoCallbackBegins, ChannelTimerFires
<1>19. CASE TimerCloses(c) /\ UNCHANGED serverVars
  BY <1>19 DEF Silent, NoCallbackBegins, TimerCloses, CloseConn
<1>20. CASE UserClosesChannel(c)
  BY <1>20 DEF Silent, NoCallbackBegins, UserClosesChannel, CloseChannel,
     CloseConn
<1>21. CASE Unlist(c)
  BY <1>21 DEF Silent, NoCallbackBegins, Unlist
<1>22. CASE TimerClears(c) /\ UNCHANGED serverVars
  BY <1>22 DEF Silent, NoCallbackBegins, TimerClears
<1> QED
  BY <1>1, <1>2, <1>3, <1>4, <1>5, <1>6, <1>7, <1>8, <1>9, <1>10, <1>11,
     <1>12, <1>13, <1>14, <1>15, <1>16, <1>17, <1>18, <1>19, <1>20, <1>21,
     <1>22 DEF ChannelsNext, ChannelNext, RunSteps, PeerSteps

\* The steps of Stream(), of the timers of the streams and of RemoveStream.
LEMMA StreamSteps ==
  ASSUME TypeOK, OnlyRegistered, NEW s \in Streams, StreamNext(s)
  PROVE  /\ \/ Silent
            \/ \E t \in Streams : Registered(t) /\ Closing(t)
            \/ Registering(s)
            \/ BindRefused(s)
         /\ NoCallbackBegins
<1> USE DEF TypeOK, ChannelTypeOK, ServerTypeOK, NoNilUse, NoCallbackBegins
<1>1. CASE BindRefused(s)
  BY <1>1 DEF BindRefused
<1>2. CASE BindToServer(s)
  BY <1>2 DEF BindToServer, PutInServer, InitStreamTimer, Registering, Registered
<1>3. CASE BindFindChannel(s)
  BY <1>3 DEF BindFindChannel, Registering, Registered
<1>4. CASE BindToChannel(s)
  BY <1>4 DEF BindToChannel, BindStream, Silent, Registered
<1>5. CASE BindToChannelRefused(s)
  BY <1>5 DEF BindToChannelRefused, Silent, Registered
<1>6. CASE BindDisplaces(s)
  <2>1. displaced[bchan] \in Streams /\ Registered(displaced[bchan])
    BY <1>6 DEF BindDisplaces, CloseDisplaced, OnlyRegistered
  <2>2. Closing(displaced[bchan])
    BY <1>6 DEF BindDisplaces, CloseDisplaced, CloseStream, Closing, Registered
  <2> QED
    BY <1>6, <2>1, <2>2 DEF BindDisplaces, CloseDisplaced
<1>7. CASE BindSetTime(s)
  BY <1>7 DEF BindSetTime, Silent, Registered
<1>8. CASE RebindToServer(s)
  BY <1>8 DEF RebindToServer, PutInServer, Silent, Registered
<1>9. CASE BindClosesOld(s)
  <2>1. bold \in Streams /\ Registered(bold)
    BY <1>9 DEF BindClosesOld, OnlyRegistered
  <2>2. Closing(bold)
    BY <1>9 DEF BindClosesOld, ServerCloseStream, CloseStream, Closing, Registered
  <2> QED
    BY <1>9, <2>1, <2>2 DEF BindClosesOld
<1>10. CASE UserRemoves(s)
  BY <1>10 DEF UserRemoves, Silent
<1>11. CASE StreamTimeout(s)
  BY <1>11 DEF StreamTimeout, Silent
<1>12. CASE CloseRemoved(s)
  <2>1. Registered(s) /\ Closing(s)
    BY <1>12 DEF CloseRemoved, ServerCloseStream, CloseStream, Closing, OnlyRegistered
  <2> QED
    BY <1>12, <2>1 DEF CloseRemoved
<1> QED
  BY <1>1, <1>2, <1>3, <1>4, <1>5, <1>6, <1>7, <1>8, <1>9, <1>10, <1>11, <1>12
  DEF StreamNext, BindSteps

\* The steps of the accept loop, of the shutdown and of Close.
LEMMA ServerSteps ==
  ASSUME TypeOK, OnlyRegistered, ServerNext
  PROVE  /\ Silent \/ \E t \in Streams : Registered(t) /\ Closing(t)
         /\ NoCallbackBegins
<1> USE DEF TypeOK, ChannelTypeOK, ServerTypeOK, NoNilUse, NoCallbackBegins
<1>1. CASE HandOffDisplaces
  <2>1. displaced[acur] \in Streams /\ Registered(displaced[acur])
    BY <1>1 DEF HandOffDisplaces, CloseDisplaced, OnlyRegistered
  <2>2. Closing(displaced[acur])
    BY <1>1 DEF HandOffDisplaces, CloseDisplaced, CloseStream, Closing
  <2> QED
    BY <1>1, <2>1, <2>2 DEF HandOffDisplaces, CloseDisplaced
<1>2. ASSUME NEW a \in Addrs, DrainStream(a)
      PROVE  /\ \E t \in Streams : Registered(t) /\ Closing(t)
             /\ NoCallbackBegins
  <2>1. strMap[a] \in Streams /\ Registered(strMap[a])
    BY <1>2 DEF DrainStream, OnlyRegistered
  <2>2. Closing(strMap[a])
    BY <1>2 DEF DrainStream, ServerCloseStream, CloseStream, Closing
  <2> QED
    BY <1>2, <2>1, <2>2 DEF DrainStream
<1>3. CASE Start \/ AcceptEnds \/ UserClosesServer \/ Publish \/ SetClosed
           \/ TakeSnapshot \/ Shutdown
  BY <1>3 DEF Start, AcceptEnds, UserClosesServer, Publish, SetClosed,
     TakeSnapshot, Shutdown, Silent
<1>4. CASE InitIdleTimer \/ HandOff \/ StartChannel
  BY <1>4 DEF InitIdleTimer, HandOff, BindStream, StartChannel, Silent
<1>5. ASSUME NEW c \in Channels, Accept(c) \/ ShutdownChannel(c)
      PROVE  Silent /\ NoCallbackBegins
  BY <1>5 DEF Accept, ShutdownChannel, CloseChannel, CloseConn, Silent
<1> QED
  BY <1>1, <1>2, <1>3, <1>4, <1>5 DEF ServerNext, AcceptSteps

-------------------------------------------------------------------------------
(* CallbackHoldsLock                                                       *)

LEMMA NextCallbackHoldsLock ==
  ASSUME TypeOK, CallbackInv, [Next]_vars
  PROVE  CallbackHoldsLock'
<1> USE DEF CallbackInv
<1>1. ASSUME NoCallbackBegins, UNCHANGED busy PROVE CallbackHoldsLock'
  BY <1>1 DEF NoCallbackBegins, CallbackHoldsLock
<1>2. CASE UNCHANGED vars \/ Terminated
  BY <1>1, <1>2 DEF Terminated, NoCallbackBegins
<1>3. CASE ServerNext
  BY <1>1, <1>3, ServerSteps DEF Silent, Closing
<1>4. ASSUME NEW s \in Streams, StreamNext(s) PROVE CallbackHoldsLock'
  BY <1>1, <1>4, StreamSteps DEF Silent, Closing, Registering, BindRefused
<1>5. ASSUME NEW c \in Channels, ChannelsNext(c) PROVE CallbackHoldsLock'
  <2> USE DEF TypeOK, ChannelTypeOK
  <2>1. CASE HandleEnter(c)
    <3>1. cur[c] \in Streams
      BY <1>5, <2>1 DEF HandleEnter, NoNilUse
    <3>2. CASE closed[cur[c]]
      BY <1>1, <1>5, <2>1, <3>2 DEF HandleEnter, NoCallbackBegins
    <3>3. CASE ~closed[cur[c]]
      <4>1. /\ busy' = [busy EXCEPT ![cur[c]] = TRUE]
            /\ pc' = [pc EXCEPT ![c] = "handling"]
            /\ cur' = cur
            /\ ~busy[cur[c]]
        BY <2>1, <3>3 DEF HandleEnter
      <4>2. ASSUME NEW d \in Channels, pc[d] = "handling"
            PROVE  cur[d] # cur[c]
        BY <4>1, <4>2 DEF CallbackHoldsLock
      <4> QED
        BY <1>5, <3>1, <4>1, <4>2 DEF CallbackHoldsLock
    <3> QED
      BY <3>2, <3>3
  <2>2. CASE HandleLeave(c)
    BY <2>2 DEF HandleLeave, NextPacket, CallbackHoldsLock
  <2>3. CASE ~(HandleEnter(c) \/ HandleLeave(c))
    BY <1>1, <1>5, <2>3, ChannelSteps DEF Silent, Closing
  <2> QED
    BY <2>1, <2>2, <2>3
<1> QED
  BY <1>2, <1>3, <1>4, <1>5 DEF Next

-------------------------------------------------------------------------------
(* The refinement                                                          *)

LEMMA InitRefines == Init => Contract!CInit
  BY DEF Init, ChannelInit, Contract!CInit, Phase

LEMMA SilentStutters == ASSUME Silent PROVE UNCHANGED Contract!cvars
  BY DEF Silent, Contract!cvars, Phase, Registered

LEMMA ClosingRefines ==
  ASSUME TypeOK, OnlyRegistered, NEW t \in Streams, Registered(t), Closing(t)
  PROVE  [Contract!CNext]_(Contract!cvars)
<1>1. closed' = [closed EXCEPT ![t] = TRUE] /\ closed \in [Streams -> BOOLEAN]
  BY DEF Closing, CloseStream, TypeOK, ChannelTypeOK
<1>2. CASE closed[t]
  <2>1. closed' = closed
    BY <1>1, <1>2
  <2> QED
    BY <2>1 DEF Closing, Contract!cvars, Phase, Registered
<1>3. CASE ~closed[t]
  <2>1. Phase[t] = "open"
    BY <1>3 DEF Phase, Registered
  <2>2. Phase' = [Phase EXCEPT ![t] = "closed"]
    BY <1>1 DEF Phase, Closing, Registered
  <2>3. Contract!Close(t)
    BY <2>1, <2>2 DEF Contract!Close, Contract!Become, Closing, CloseStream
  <2> QED
    BY <2>3 DEF Contract!CNext
<1> QED
  BY <1>2, <1>3

LEMMA BeginningRefines ==
  ASSUME TypeOK, OnlyRegistered, NEW s \in Streams,
         Registering(s) \/ BindRefused(s)
  PROVE  Contract!CNext
<1> USE DEF TypeOK, ServerTypeOK
<1>1. bpc[s] = "new" /\ ~closed[s] /\ Phase[s] = "new"
  BY DEF Registering, BindRefused, OnlyRegistered, Registered, Phase
<1>2. CASE Registering(s)
  <2>1. Phase' = [Phase EXCEPT ![s] = "open"]
    BY <1>1, <1>2 DEF Registering, Registered, Phase
  <2>2. Contract!Register(s)
    BY <1>1, <1>2, <2>1 DEF Registering, Contract!Register, Contract!Become
  <2> QED
    BY <2>2 DEF Contract!CNext
<1>3. CASE BindRefused(s)
  <2>1. Phase' = [Phase EXCEPT ![s] = "refused"]
    BY <1>1, <1>3 DEF BindRefused, Phase
  <2>2. Contract!Refuse(s)
    BY <1>1, <1>3, <2>1 DEF BindRefused, Contract!Refuse, Contract!Become
  <2> QED
    BY <2>2 DEF Contract!CNext
<1> QED
  BY <1>2, <1>3

LEMMA CallbackRefines ==
  ASSUME TypeOK, CallbackInv, NEW c \in Channels,
         HandleEnter(c) \/ HandleLeave(c), UNCHANGED serverVars
  PROVE  [Contract!CNext]_(Contract!cvars)
<1> USE DEF TypeOK, ChannelTypeOK, NoNilUse, CallbackInv
<1>1. cur[c] \in Streams
  BY DEF HandleEnter, HandleLeave
<1>2. UNCHANGED <<closed, Phase>>
  BY DEF HandleEnter, HandleLeave, Phase
<1>3. CASE HandleEnter(c) /\ closed[cur[c]]
  BY <1>2, <1>3 DEF HandleEnter, Contract!cvars
<1>4. CASE HandleEnter(c) /\ ~closed[cur[c]]
  <2>1. Phase[cur[c]] = "open"
    BY <1>1, <1>4 DEF OnlyRegistered, Registered, Phase
  <2>2. Contract!Enter(cur[c])
    BY <1>1, <1>2, <1>4, <2>1 DEF HandleEnter, Contract!Enter
  <2> QED
    BY <1>1, <2>2 DEF Contract!CNext
<1>5. CASE HandleLeave(c)
  <2>1. Contract!Leave(cur[c])
    BY <1>2, <1>5 DEF HandleLeave, CallbackHoldsLock, Contract!Leave
  <2> QED
    BY <1>1, <2>1 DEF Contract!CNext
<1> QED
  BY <1>3, <1>4, <1>5

LEMMA NextRefines ==
  ASSUME TypeOK, CallbackInv, [Next]_vars
  PROVE  [Contract!CNext]_(Contract!cvars)
<1> USE DEF CallbackInv
<1>1. CASE UNCHANGED vars \/ Terminated
  BY <1>1 DEF Terminated, Contract!cvars, Phase
<1>2. CASE ServerNext
  BY <1>2, ServerSteps, SilentStutters, ClosingRefines
<1>3. ASSUME NEW s \in Streams, StreamNext(s)
      PROVE  [Contract!CNext]_(Contract!cvars)
  BY <1>3, StreamSteps, SilentStutters, ClosingRefines, BeginningRefines
<1>4. ASSUME NEW c \in Channels, ChannelsNext(c)
      PROVE  [Contract!CNext]_(Contract!cvars)
  BY <1>4, ChannelSteps, SilentStutters, ClosingRefines, CallbackRefines
<1> QED
  BY <1>1, <1>2, <1>3, <1>4 DEF Next

LEMMA CallbackInvariant == Spec => [](TypeOK /\ CallbackInv)
<1>1. Init => TypeOK /\ CallbackInv
  BY InitTypeOK, InitCallbackInv
<1>2. TypeOK /\ CallbackInv /\ [Next]_vars => TypeOK' /\ CallbackInv'
  BY NextTypeOK, NextOnlyRegistered, NextCallbackHoldsLock DEF CallbackInv
<1> QED
  BY <1>1, <1>2, PTL DEF Spec

\* For any streams, connections and addresses: the handler of a stream has one
\* callback at a time, OnStreamClosed comes once and last, and a stream whose
\* Stream() was refused has none, however the read loops, the accept loop,
\* Stream(), the timers and the shutdown interleave.
THEOREM KeepsHandlerContract == Spec => HandlerContract
<1>1. Init => Contract!CInit
  BY InitRefines
<1>2. TypeOK /\ CallbackInv /\ [Next]_vars => [Contract!CNext]_(Contract!cvars)
  BY NextRefines
<1> QED
  BY <1>1, <1>2, CallbackInvariant, PTL DEF Spec, HandlerContract, Contract!CSpec

-------------------------------------------------------------------------------
(* Ownership                                                               *)

\* The read loop of c has taken s off its channel and will close it.
Drops(c, s) == pc[c] \in {"drop", "exitDrop"} /\ cur[c] = s

OnChannel(c, s) == stream[c] = s \/ displaced[c] = s \/ Drops(c, s)

\* Stream() is about to give s to a channel, or to put it in the map again.
Binding(s) == bpc[s] \in {"toChannel", "rebind"}

OnServer(s) == Mapped(s) \/ inflight = s \/ Binding(s) \/ bold = s \/ s \in removed

\* The places of Holding, one by one: an open stream is in one of them, and
\* whatever is in one is in no other.
Ownership ==
  \A s \in Streams :
    /\ closed[s] => Registered(s)
    /\ Open(s) <=> OnServer(s) \/ \E c \in Channels : OnChannel(c, s)
    /\ Mapped(s) => inflight # s /\ ~Binding(s) /\ bold # s /\ s \notin removed
    /\ inflight = s => ~Binding(s) /\ bold # s /\ s \notin removed
    /\ Binding(s) => bold # s /\ s \notin removed
    /\ bold = s => s \notin removed
    /\ \A c \in Channels : OnChannel(c, s) =>
         /\ ~OnServer(s)
         /\ \A d \in Channels : OnChannel(d, s) => d = c
         /\ stream[c] = s => displaced[c] # s /\ ~Drops(c, s)
         /\ displaced[c] = s => ~Drops(c, s)

\* The call of Stream() that has a stream to close is the one with the lock.
BindLife == bold # NoStream => lsnLock # NoStream /\ bpc[lsnLock] = "closeOld"

LEMMA InitOwnership == Init => Ownership /\ BindLife
  BY DEF Init, ChannelInit, Ownership, BindLife, Open, Registered, OnServer,
     OnChannel, Drops, Binding, Mapped

LEMMA ReadLoopOwnership ==
  ASSUME TypeOK, Life, Ownership, NEW c \in Channels, ChannelNext(c),
         UNCHANGED serverVars
  PROVE  Ownership'
<1> USE DEF TypeOK, ChannelTypeOK, ServerTypeOK, NoNilUse, Ownership, Open,
            Registered, OnServer, OnChannel, Drops, Binding, Mapped
<1>1. CASE QuietStep(c)
  <2>1. \A s \in Streams : \A d \in Channels : OnChannel(d, s) => OnChannel(d, s)'
    BY <1>1 DEF QuietStep, Looping
  <2> QED
    BY <1>1, <2>1 DEF QuietStep, Looping
<1>2. CASE RemoveStream(c)
  BY <1>2 DEF RemoveStream, NextPacket
<1>3. CASE DropStream(c)
  BY <1>3 DEF DropStream, CloseStream
<1>4. CASE ExitSetClosed(c)
  BY <1>4 DEF ExitSetClosed
<1>5. CASE ExitSwap(c)
  BY <1>5 DEF ExitSwap
<1>6. CASE ExitDrop(c)
  BY <1>6 DEF ExitDrop, CloseStream
<1>7. CASE Return(c)
  BY <1>7 DEF Return
<1> QED
  BY ReadLoopSteps, <1>1, <1>2, <1>3, <1>4, <1>5, <1>6, <1>7

\* The section of Stream() under s.mu: s, which was nowhere or in the hands of
\* its call, enters the map, and the stream it replaces there goes to the call.
LEMMA PutInServerOwnership ==
  ASSUME TypeOK, StreamPlacement, Ownership, BindLife, NEW s \in Streams,
         PutInServer(s), bpc[s] \in {"new", "rebind"}, LsnFree \/ lsnLock = s
  PROVE  Ownership' /\ BindLife'
<1> USE DEF TypeOK, ChannelTypeOK, ServerTypeOK, NoNilUse
<1> DEFINE old == strMap[AddrOf[s]]
<1>1. /\ strMap' = [strMap EXCEPT ![AddrOf[s]] = s]
      /\ UNCHANGED <<closed, pc, cur, stream, displaced, inflight, removed>>
      /\ \/ old = NoStream /\ bpc' = [bpc EXCEPT ![s] = "bound"] /\ bold' = NoStream
         \/ /\ old # NoStream /\ bpc' = [bpc EXCEPT ![s] = "closeOld"]
            /\ lsnLock' = s /\ bold' = old
  BY DEF PutInServer
<1>2. bold = NoStream
  BY DEF BindLife, LsnFree
<1>3. BindLife'
  BY <1>1 DEF BindLife
<1>4. /\ ~Mapped(s)
      /\ old # NoStream => old \in Streams /\ Mapped(old)
      /\ \A t \in Streams \ {s} : Mapped(t)' <=> Mapped(t) /\ t # old
      /\ Mapped(s)'
  BY <1>1 DEF Mapped, StreamPlacement
<1>5. \A t \in Streams \ {s} : Open(t)' = Open(t) /\ Binding(t)' = Binding(t)
  BY <1>1 DEF Open, Binding
<1>6. Open(s)' /\ ~Binding(s)'
  BY <1>1 DEF Ownership, OnServer, Open, Binding, Registered
<1>7. \A t \in Streams, c \in Channels : OnChannel(c, t)' = OnChannel(c, t)
  BY <1>1 DEF OnChannel, Drops
<1> QED
  BY <1>1, <1>2, <1>3, <1>4, <1>5, <1>6, <1>7
     DEF Ownership, Open, Registered, OnServer, OnChannel, Drops, Binding, Mapped

LEMMA StreamNextOwnership ==
  ASSUME TypeOK, StreamPlacement, Life, Ownership, BindLife,
         NEW s \in Streams, StreamNext(s)
  PROVE  Ownership' /\ BindLife'
<1> USE DEF TypeOK, ChannelTypeOK, ServerTypeOK, NoNilUse, Ownership, Open,
            Registered, OnServer, OnChannel, Drops, Binding, Mapped, BindLife
<1>1. CASE BindRefused(s)
  BY <1>1 DEF BindRefused, LsnFree
<1>2. CASE BindFindChannel(s)
  BY <1>2 DEF BindFindChannel, LsnFree
<1>3. CASE BindToChannel(s)
  <2>1. /\ bchan \in Channels /\ displaced[bchan] = NoStream
        /\ stream' = [stream EXCEPT ![bchan] = s]
        /\ displaced' = [displaced EXCEPT ![bchan] = stream[bchan]]
        /\ bpc[s] = "toChannel"
        /\ bpc' = [bpc EXCEPT ![s] = IF stream[bchan] = NoStream THEN "stamp"
                                     ELSE "displacing"]
        /\ UNCHANGED <<closed, pc, cur, inflight, lsnLock, bold, strMap, removed>>
    BY <1>3 DEF BindToChannel, BindStream, Bindable, ConnFree, BindGoto
  <2>2. \A d \in Channels : ~OnChannel(d, s)
    BY <2>1
  <2>3. \A d \in Channels, t \in Streams \ {s} : OnChannel(d, t)' <=> OnChannel(d, t)
    BY <2>1
  <2>4. \A d \in Channels : OnChannel(d, s)' <=> d = bchan
    BY <2>1, <2>2
  <2>5. \A t \in Streams \ {s} : Open(t)' = Open(t) /\ OnServer(t)' = OnServer(t)
    BY <2>1
  <2>6. Open(s)' /\ Open(s) /\ ~OnServer(s)'
    BY <2>1
  <2>7. BindLife'
    BY <2>1
  <2>8. ASSUME NEW t \in Streams \ {s}, NEW d \in Channels, OnChannel(d, t)'
        PROVE  /\ stream'[d] = t => displaced'[d] # t /\ ~Drops(d, t)'
               /\ displaced'[d] = t => ~Drops(d, t)'
    BY <2>1, <2>8
  <2> QED
    BY <2>1, <2>2, <2>3, <2>4, <2>5, <2>6, <2>7, <2>8
<1>4. CASE BindToChannelRefused(s)
  BY <1>4 DEF BindToChannelRefused
<1>5. CASE BindDisplaces(s)
  BY <1>5 DEF BindDisplaces, CloseDisplaced, CloseStream
<1>6. CASE BindSetTime(s)
  BY <1>6 DEF BindSetTime
<1>7. CASE BindClosesOld(s)
  BY <1>7 DEF BindClosesOld, ServerCloseStream, CloseStream
<1>8. CASE UserRemoves(s)
  BY <1>8 DEF UserRemoves, DeleteStream
<1>9. CASE StreamTimeout(s)
  BY <1>9 DEF StreamTimeout, DeleteStream
<1>10. CASE CloseRemoved(s)
  BY <1>10 DEF CloseRemoved, ServerCloseStream, CloseStream
<1>11. CASE BindToServer(s)
  BY <1>11, PutInServerOwnership DEF BindToServer
<1>12. CASE RebindToServer(s)
  BY <1>12, PutInServerOwnership DEF RebindToServer
<1> QED
  BY <1>1, <1>2, <1>3, <1>4, <1>5, <1>6, <1>7, <1>8, <1>9, <1>10, <1>11,
     <1>12 DEF StreamNext, BindSteps

LEMMA ServerNextOwnership ==
  ASSUME TypeOK, StreamPlacement, Life, Ownership, BindLife, ServerNext
  PROVE  Ownership' /\ BindLife'
<1> USE DEF TypeOK, ChannelTypeOK, ServerTypeOK, NoNilUse, Ownership, Open,
            Registered, OnServer, OnChannel, Drops, Binding, Mapped, BindLife
<1>1. CASE Publish
  BY <1>1 DEF Publish, Life, AcceptLife, StreamPlacement
<1>2. CASE HandOff
  BY <1>2 DEF HandOff, BindStream
<1>3. CASE HandOffDisplaces
  BY <1>3 DEF HandOffDisplaces, CloseDisplaced, CloseStream
<1>4. CASE StartChannel
  BY <1>4 DEF StartChannel, Life, AcceptLife, Accepting
<1>5. ASSUME NEW c \in Channels, Accept(c) PROVE Ownership' /\ BindLife'
  BY <1>5 DEF Accept
<1>6. ASSUME NEW a \in Addrs, DrainStream(a) PROVE Ownership' /\ BindLife'
  BY <1>6 DEF DrainStream, ServerCloseStream, CloseStream, StreamPlacement
<1>7. ASSUME Start \/ AcceptEnds \/ UserClosesServer \/ InitIdleTimer
             \/ SetClosed \/ TakeSnapshot \/ Shutdown
             \/ \E c \in Channels : ShutdownChannel(c)
      PROVE  Ownership' /\ BindLife'
  <2>1. UNCHANGED <<closed, pc, cur, stream, displaced, inflight, lsnLock, bpc,
                    bold, strMap, removed>>
    BY <1>7 DEF Start, AcceptEnds, UserClosesServer, InitIdleTimer, SetClosed,
       TakeSnapshot, Shutdown, ShutdownChannel, CloseChannel, CloseConn
  <2> QED
    BY <2>1
<1> QED
  BY <1>1, <1>2, <1>3, <1>4, <1>5, <1>6, <1>7 DEF ServerNext, AcceptSteps

LEMMA NextOwnership ==
  ASSUME TypeOK, StreamPlacement, Life, Ownership, BindLife, [Next]_vars
  PROVE  Ownership' /\ BindLife'
<1> USE DEF Ownership, Open, Registered, OnServer, OnChannel, Drops, Binding,
            Mapped, BindLife
<1>1. CASE UNCHANGED vars \/ Terminated
  BY <1>1 DEF Terminated
<1>2. ASSUME NEW c \in Channels, ChannelsNext(c) PROVE Ownership' /\ BindLife'
  <2>1. CASE ChannelNext(c) /\ UNCHANGED serverVars
    BY <2>1, ReadLoopOwnership
  <2>2. CASE Unlist(c)
    BY <2>2 DEF Unlist, TypeOK, ChannelTypeOK
  <2>3. CASE ~Unlist(c) /\ ~(ChannelNext(c) /\ UNCHANGED serverVars)
    <3>1. UNCHANGED <<closed, pc, cur, stream, displaced, inflight, lsnLock,
                      bpc, bold, strMap, removed>>
      BY <1>2, <2>3 DEF ChannelsNext, ChannelTimerFires, TimerCloses, TimerClears,
         UserClosesChannel, CloseChannel, CloseConn
    <3> QED
      BY <3>1
  <2> QED
    BY <2>1, <2>2, <2>3
<1> QED
  BY <1>1, <1>2, ServerNextOwnership, StreamNextOwnership DEF Next

LEMMA OwnershipInvariant == Spec => [](Ownership /\ BindLife)
<1>1. Init => Ownership /\ BindLife
  BY InitOwnership
<1>2. /\ TypeOK /\ StreamPlacement /\ Life /\ Ownership /\ BindLife /\ [Next]_vars
      => Ownership' /\ BindLife'
  BY NextOwnership
<1> QED
  BY <1>1, <1>2, PlacementInvariant, LifeInvariant, PTL DEF Spec

\* Where Ownership finds a stream, Holding has that place and no other.
LEMMA HoldingIsThePlace ==
  ASSUME TypeOK, StreamPlacement, Life, Ownership, NEW s \in Streams
  PROVE  IF Open(s) THEN \E p : Holding(s) = {p} ELSE Holding(s) = {}
<1>0. ASSUME \A c \in Channels : ~OnChannel(c, s)
      PROVE  /\ {x \in Channels : stream[x] = s /\ Serves(x)} = {}
             /\ {x \in Channels : displaced[x] = s} = {}
             /\ {x \in Channels : pc[x] \in {"drop", "exitDrop"} /\ cur[x] = s} = {}
  BY <1>0 DEF OnChannel, Drops
<1> USE DEF Ownership, OnServer, OnChannel, Drops, Binding
<1>1. {x \in Addrs : strMap[x] = s} = IF Mapped(s) THEN {AddrOf[s]} ELSE {}
  BY DEF StreamPlacement, Mapped
<1>2. ASSUME NEW c \in Channels, stream[c] = s PROVE Serves(c)
  BY <1>2 DEF Life, ChannelLife
<1>3. CASE ~Open(s)
  BY <1>1, <1>3 DEF Holding
<1>4. CASE Open(s) /\ OnServer(s)
  <2>1. /\ {x \in Channels : stream[x] = s /\ Serves(x)} = {}
        /\ {x \in Channels : displaced[x] = s} = {}
        /\ {x \in Channels : pc[x] \in {"drop", "exitDrop"} /\ cur[x] = s} = {}
    BY <1>0, <1>4
  <2>2. CASE Mapped(s)
    <3>1. Holding(s) = {<<"map", AddrOf[s]>>}
      BY <1>1, <2>1, <2>2 DEF Holding
    <3> QED
      BY <1>4, <3>1
  <2>3. CASE inflight = s
    <3>1. Holding(s) = {<<"accepting">>}
      BY <1>1, <2>1, <2>3 DEF Holding
    <3> QED
      BY <1>4, <3>1
  <2>4. CASE Binding(s)
    <3>1. Holding(s) = {<<"binding">>}
      BY <1>1, <2>1, <2>4 DEF Holding
    <3> QED
      BY <1>4, <3>1
  <2>5. CASE bold = s
    <3>1. Holding(s) = {<<"replaced">>}
      BY <1>1, <2>1, <2>5 DEF Holding
    <3> QED
      BY <1>4, <3>1
  <2>6. CASE s \in removed
    <3>1. Holding(s) = {<<"removed">>}
      BY <1>1, <2>1, <2>6 DEF Holding
    <3> QED
      BY <1>4, <3>1
  <2> QED
    BY <1>4, <2>2, <2>3, <2>4, <2>5, <2>6
<1>5. ASSUME NEW c \in Channels, Open(s), OnChannel(c, s)
      PROVE  \E p : Holding(s) = {p}
  <2>1. CASE stream[c] = s
    <3>1. Holding(s) = {<<"channel", c>>}
      BY <1>1, <1>2, <1>5, <2>1 DEF Holding
    <3> QED
      BY <3>1
  <2>2. CASE displaced[c] = s
    <3>1. Holding(s) = {<<"displaced", c>>}
      BY <1>1, <1>5, <2>2 DEF Holding
    <3> QED
      BY <3>1
  <2>3. CASE Drops(c, s)
    <3>1. Holding(s) = {<<"dropping", c>>}
      BY <1>1, <1>5, <2>3 DEF Holding
    <3> QED
      BY <3>1
  <2> QED
    BY <1>5, <2>1, <2>2, <2>3
<1> QED
  BY <1>3, <1>4, <1>5

\* For any streams, connections and addresses: no open stream is dropped on the
\* floor, whatever the interleaving of Stream(), the accept loop, the read
\* loops, the timers and the shutdown.
THEOREM OpenStreamIsHeld == Spec => []NoStreamLost
<1>1. TypeOK /\ StreamPlacement /\ Life /\ Ownership => NoStreamLost
  BY HoldingIsThePlace DEF NoStreamLost
<1> QED
  BY <1>1, PlacementInvariant, LifeInvariant, OwnershipInvariant, PTL

\* For any streams, connections and addresses: no stream is in the hands of two
\* parties, so that no two channels, nor a channel and the server, serve or
\* close the same stream; a closed stream is in nobody's.
THEOREM StreamHasOneOwner == Spec => []SingleOwner
<1>1. ASSUME TypeOK, StreamPlacement, Life, Ownership, NEW s \in Streams
      PROVE  Cardinality(Holding(s)) <= IF Open(s) THEN 1 ELSE 0
  <2>1. CASE Open(s)
    <3>1. PICK p : Holding(s) = {p}
      BY <1>1, <2>1, HoldingIsThePlace
    <3>2. Cardinality(Holding(s)) = 1
      BY <3>1, FS_Singleton
    <3> QED
      BY <2>1, <3>2
  <2>2. CASE ~Open(s)
    <3>1. Holding(s) = {}
      BY <1>1, <2>2, HoldingIsThePlace
    <3>2. Cardinality(Holding(s)) = 0
      BY <3>1, FS_EmptySet
    <3> QED
      BY <2>2, <3>2
  <2> QED
    BY <2>1, <2>2
<1>2. TypeOK /\ StreamPlacement /\ Life /\ Ownership => SingleOwner
  BY <1>1 DEF SingleOwner
<1> QED
  BY <1>2, PlacementInvariant, LifeInvariant, OwnershipInvariant, PTL

-------------------------------------------------------------------------------
(* The end of the server                                                   *)

\* Once the listener is marked closed no call of Stream() is under way and none
\* gets in, so what the drain has emptied stays empty; a channel that still
\* runs is one the shutdown waits for, or one it cannot see.
ShutdownLife ==
  /\ spc \in {"drain", "closing", "done"} => lsnFlag /\ lsnLock = NoStream
  /\ spc \in {"closing", "done"} => \A a \in Addrs : strMap[a] = NoStream
  /\ spc = "closing" => \A c \in Channels :
       Started(c) => c \in snapshot \/ Superseded(c)
  /\ spc = "done" => \A c \in Channels : Started(c) => Superseded(c)

LEMMA InitShutdownLife == Init => ShutdownLife
  BY DEF Init, ShutdownLife

\* No step takes a channel out of those that run but its own end, and none
\* undoes that a later channel has taken its place.
LEMMA ChannelsNextShutdownLife ==
  ASSUME TypeOK, ShutdownLife, NEW c \in Channels, ChannelsNext(c)
  PROVE  ShutdownLife'
<1> USE DEF TypeOK, ChannelTypeOK
<1>1. UNCHANGED <<spc, lsnFlag, lsnLock, strMap, snapshot>>
  BY DEF ChannelsNext, UserClosesChannel, Unlist
<1>2. \A d \in Channels : /\ pc[d] # "none" => pc'[d] # "none"
                          /\ pc'[d] \in LoopPCs => pc[d] \in LoopPCs
  <2>1. CASE ChannelNext(c)
    BY <2>1, ReadLoopSteps DEF QuietStep, Looping, RemoveStream, NextPacket,
       DropStream, ExitSetClosed, ExitSwap, ExitDrop, Return
  <2>2. CASE ~ChannelNext(c)
    BY <2>2 DEF ChannelsNext, ChannelTimerFires, TimerCloses, TimerClears, UserClosesChannel,
       CloseChannel, Unlist
  <2> QED
    BY <2>1, <2>2
<1> QED
  BY <1>1, <1>2 DEF ShutdownLife, Started, Superseded

LEMMA StreamNextShutdownLife ==
  ASSUME TypeOK, ShutdownLife, NEW s \in Streams, StreamNext(s)
  PROVE  ShutdownLife'
<1> USE DEF TypeOK, ServerTypeOK, NoNilUse
<1>1. UNCHANGED <<spc, lsnFlag, snapshot, pc>>
  BY DEF StreamNext, BindSteps, BindRefused, BindToServer, BindFindChannel,
     BindToChannel, BindStream, BindToChannelRefused, BindDisplaces,
     CloseDisplaced, BindSetTime, RebindToServer, BindClosesOld, PutInServer,
     UserRemoves, StreamTimeout, CloseRemoved
<1>2. CASE spc \notin {"drain", "closing", "done"}
  BY <1>1, <1>2 DEF ShutdownLife
<1>3. CASE spc \in {"drain", "closing", "done"}
  <2>1. lsnFlag /\ lsnLock = NoStream
    BY <1>3 DEF ShutdownLife
  <2>2. /\ lsnLock' = NoStream
        /\ \A a \in Addrs : strMap'[a] \in {strMap[a], NoStream}
    BY <2>1 DEF StreamNext, BindSteps, BindRefused, BindToServer, BindFindChannel,
       BindToChannel, BindToChannelRefused, BindDisplaces, BindSetTime,
       RebindToServer, BindClosesOld, UserRemoves, StreamTimeout, DeleteStream,
       CloseRemoved
  <2> QED
    BY <1>1, <2>1, <2>2 DEF ShutdownLife, Started, Superseded
<1> QED
  BY <1>2, <1>3

LEMMA ServerNextShutdownLife ==
  ASSUME TypeOK, Life, ShutdownLife, ServerNext
  PROVE  ShutdownLife'
<1> USE DEF TypeOK, ServerTypeOK, ShutdownLife, LsnFree
<1>1. CASE SetClosed
  BY <1>1 DEF SetClosed
<1>2. ASSUME NEW a \in Addrs, DrainStream(a) PROVE ShutdownLife'
  BY <1>2 DEF DrainStream
<1>3. CASE TakeSnapshot
  <2>1. \A c \in Channels : Started(c) => chanMap[AddrOf[c]] = c \/ Superseded(c)
    BY DEF Life, ListLife, RunningChannelListed
  <2> QED
    BY <1>3, <2>1 DEF TakeSnapshot, Started, Superseded
<1>4. CASE Shutdown
  BY <1>4 DEF Shutdown, Started, Superseded
<1>5. ASSUME NEW c \in Channels, ShutdownChannel(c) PROVE ShutdownLife'
  BY <1>5 DEF ShutdownChannel, CloseChannel, Started, Superseded
<1>6. CASE UserClosesServer
  BY <1>6 DEF UserClosesServer, Started, Superseded
<1>7. ASSUME Start \/ AcceptEnds \/ Publish \/ InitIdleTimer \/ HandOff
             \/ HandOffDisplaces \/ StartChannel \/ \E c \in Channels : Accept(c)
      PROVE  ShutdownLife'
  <2>1. spc' \notin {"drain", "closing", "done"}
    BY <1>7 DEF Start, AcceptEnds, Publish, InitIdleTimer, HandOff,
       HandOffDisplaces, StartChannel, Accept
  <2> QED
    BY <2>1
<1> QED
  BY <1>1, <1>2, <1>3, <1>4, <1>5, <1>6, <1>7 DEF ServerNext, AcceptSteps

LEMMA NextShutdownLife ==
  ASSUME TypeOK, Life, ShutdownLife, [Next]_vars
  PROVE  ShutdownLife'
<1>1. CASE UNCHANGED vars \/ Terminated
  BY <1>1 DEF Terminated, ShutdownLife, Started, Superseded
<1> QED
  BY <1>1, ServerNextShutdownLife, StreamNextShutdownLife,
     ChannelsNextShutdownLife DEF Next

LEMMA EndOfStreams ==
  ASSUME TypeOK, StreamPlacement, Life, Ownership, BindLife, ShutdownLife
  PROVE  ShutdownComplete
<1> USE DEF TypeOK, ChannelTypeOK, ServerTypeOK, NoNilUse
<1> SUFFICES ASSUME spc = "done", NEW s \in Streams, Open(s), s \notin removed
             PROVE  OnSuperseded(s)
  BY DEF ShutdownComplete
<1>1. lsnLock = NoStream /\ ~Mapped(s)
  BY DEF ShutdownLife, Mapped
<1>2. ~OnServer(s)
  BY <1>1 DEF Life, AcceptLife, BindLife, OnServer, Binding
<1>3. PICK c \in Channels : OnChannel(c, s)
  BY <1>2 DEF Ownership
<1>4. Started(c)
  BY <1>3 DEF OnChannel, Drops, Life, ChannelLife, Serves, Accepting, Started
<1>5. Superseded(c)
  BY <1>4 DEF ShutdownLife
<1> QED
  BY <1>3, <1>5 DEF OnChannel, Drops, OnSuperseded

\* For any streams, connections and addresses: a server that has stopped has
\* closed every stream, but for one that a removeStream is about to close and
\* one on a connection that a later one of its address pushed out of the map.
THEOREM StopClosesStreams == Spec => []ShutdownComplete
<1>1. Init => ShutdownLife
  BY InitShutdownLife
<1>2. TypeOK /\ Life /\ ShutdownLife /\ [Next]_vars => ShutdownLife'
  BY NextShutdownLife
<1>3. Spec => []ShutdownLife
  BY <1>1, <1>2, LifeInvariant, PTL DEF Spec
<1>4. /\ TypeOK /\ StreamPlacement /\ Life /\ Ownership /\ BindLife /\ ShutdownLife
      => ShutdownComplete
  BY EndOfStreams
<1> QED
  BY <1>3, <1>4, PlacementInvariant, LifeInvariant, OwnershipInvariant, PTL
================================================================================
