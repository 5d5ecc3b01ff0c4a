---------------------------- MODULE UDPServerProofs ----------------------------
(***************************************************************************)
(* Theorems about UDPServer, for every value of its constants: types, who  *)
(* owns a stream, the end of the server, and the contract of the handlers. *)
(***************************************************************************)
EXTENDS UDPServerProps, TLAPS

USE UDPAssumption DEF streamVars, lsnVars, StreamOrNil, RunPCs, LockFree, Started

-------------------------------------------------------------------------------
(* Types                                                                   *)

LEMMA InitTypeOK == Init => TypeOK
  BY DEF Init, TypeOK, UsesCur

LEMMA NextTypeOK ==
  ASSUME TypeOK, [Next]_vars
  PROVE  TypeOK'
<1> USE DEF TypeOK, UsesCur
<1>1. CASE ReadBegin
  BY <1>1 DEF ReadBegin
<1>2. CASE DeadlinePasses
  BY <1>2 DEF DeadlinePasses
<1>3. CASE ReadTimeout
  BY <1>3 DEF ReadTimeout
<1>4. CASE ReadEnds
  BY <1>4 DEF ReadEnds
<1>5. CASE Dispatch
  BY <1>5 DEF Dispatch
<1>6. CASE HandleEnter
  BY <1>6 DEF HandleEnter
<1>7. CASE HandleLeave
  BY <1>7 DEF HandleLeave
<1>8. CASE RemoveStream
  BY <1>8 DEF RemoveStream, StillBound
<1>9. CASE DropStream
  BY <1>9 DEF DropStream, CloseStream, ClosesServer
<1>10. CASE CloseAndExit
  BY <1>10 DEF CloseAndExit, CloseListener
<1>11. CASE SetClosed
  BY <1>11 DEF SetClosed
<1>12. CASE ExitSwap
  BY <1>12 DEF ExitSwap
<1>13. CASE ExitDrop
  BY <1>13 DEF ExitDrop, CloseStream
<1>14. CASE ReadData
  BY <1>14 DEF ReadData
<1>15. CASE ReadBufferFails
  BY <1>15 DEF ReadBufferFails
<1>16. CASE Start
  BY <1>16 DEF Start
<1>17. CASE UserCloses
  BY <1>17 DEF UserCloses, CloseListener
<1>18. CASE CloseDisplaced
  BY <1>18 DEF CloseDisplaced, CloseStream
<1>19. ASSUME NEW s \in Streams, BindRefused(s) PROVE TypeOK'
  BY <1>19 DEF BindRefused
<1>20. ASSUME NEW s \in Streams, BindStream(s) PROVE TypeOK'
  BY <1>20 DEF BindStream, StampIfListening
<1>21. ASSUME NEW s \in Streams, UserRemoves(s) PROVE TypeOK'
  BY <1>21 DEF UserRemoves
<1>22. ASSUME NEW s \in Streams, UserDrops(s) PROVE TypeOK'
  BY <1>22 DEF UserDrops, CloseStream, ClosesServer
<1>23. ASSUME NEW s \in Streams, UserDropCloses(s) PROVE TypeOK'
  <2>1. CASE Started
    BY <1>23, <2>1 DEF UserDropCloses, CloseListener
  <2>2. CASE ~Started
    BY <1>23, <2>2 DEF UserDropCloses, CloseListener
  <2> QED
    BY <2>1, <2>2
<1>24. CASE UNCHANGED vars
  BY <1>24 DEF vars
<1> QED
  BY <1>1, <1>2, <1>3, <1>4, <1>5, <1>6, <1>7, <1>8, <1>9, <1>10, <1>11,
     <1>12, <1>13, <1>14, <1>15, <1>16, <1>17, <1>18, <1>19, <1>20, <1>21,
     <1>22, <1>23, <1>24 DEF Next, RunSteps, OtherSteps, CallSteps, Terminated

\* The variables keep their types, and the read loop never follows a nil
\* stream or listener (udp-server.go read, run).
THEOREM TypeCorrect == Spec => []TypeOK
<1>1. Init => TypeOK
  BY InitTypeOK
<1>2. TypeOK /\ [Next]_vars => TypeOK'
  BY NextTypeOK
<1> QED
  BY <1>1, <1>2, PTL DEF Spec

-------------------------------------------------------------------------------
(* Ownership                                                               *)

\* The read loop has taken s off the pointer and will close it.
Drops(s) == spc \in {"drop", "exitDrop"} /\ cur = s

\* OneOwner, place by place, and what makes it inductive: only a stream of a
\* call that has succeeded is ever closed.
Ownership ==
  \A s \in Streams :
    /\ closed[s] => call[s] = "open"
    /\ Open(s) <=> \/ bound = s
                   \/ displaced = s
                   \/ Drops(s)
                   \/ removing[s] = "drop"
    /\ bound = s => displaced # s /\ ~Drops(s) /\ removing[s] # "drop"
    /\ displaced = s => ~Drops(s) /\ removing[s] # "drop"
    /\ Drops(s) => removing[s] # "drop"

LEMMA InitOwnership == Init => Ownership
  BY DEF Init, Ownership, Open, Drops

LEMMA NextOwnership ==
  ASSUME TypeOK, Ownership, [Next]_vars
  PROVE  Ownership'
<1> USE DEF TypeOK, UsesCur, Ownership, Open, Drops
<1>1. CASE ReadBegin
  BY <1>1 DEF ReadBegin
<1>2. CASE DeadlinePasses
  BY <1>2 DEF DeadlinePasses
<1>3. CASE ReadTimeout
  BY <1>3 DEF ReadTimeout
<1>4. CASE ReadEnds
  BY <1>4 DEF ReadEnds
<1>5. CASE Dispatch
  BY <1>5 DEF Dispatch
<1>6. CASE HandleEnter
  BY <1>6 DEF HandleEnter
<1>7. CASE HandleLeave
  BY <1>7 DEF HandleLeave
<1>8. CASE RemoveStream
  BY <1>8 DEF RemoveStream, StillBound
<1>9. CASE DropStream
  BY <1>9 DEF DropStream, CloseStream, ClosesServer
<1>10. CASE CloseAndExit
  BY <1>10 DEF CloseAndExit, CloseListener
<1>11. CASE SetClosed
  BY <1>11 DEF SetClosed
<1>12. CASE ExitSwap
  BY <1>12 DEF ExitSwap
<1>13. CASE ExitDrop
  BY <1>13 DEF ExitDrop, CloseStream
<1>14. CASE ReadData
  BY <1>14 DEF ReadData
<1>15. CASE ReadBufferFails
  BY <1>15 DEF ReadBufferFails
<1>16. CASE Start
  BY <1>16 DEF Start
<1>17. CASE UserCloses
  BY <1>17 DEF UserCloses, CloseListener
<1>18. CASE CloseDisplaced
  BY <1>18 DEF CloseDisplaced, CloseStream
<1>19. ASSUME NEW s \in Streams, BindRefused(s) PROVE Ownership'
  BY <1>19 DEF BindRefused
<1>20. ASSUME NEW s \in Streams, BindStream(s) PROVE Ownership'
  BY <1>20 DEF BindStream, StampIfListening
<1>21. ASSUME NEW s \in Streams, UserRemoves(s) PROVE Ownership'
  BY <1>21 DEF UserRemoves
<1>22. ASSUME NEW s \in Streams, UserDrops(s) PROVE Ownership'
  BY <1>22 DEF UserDrops, CloseStream, ClosesServer
<1>23. ASSUME NEW s \in Streams, UserDropCloses(s) PROVE Ownership'
  <2>1. CASE Started
    BY <1>23, <2>1 DEF UserDropCloses, CloseListener
  <2>2. CASE ~Started
    BY <1>23, <2>2 DEF UserDropCloses, CloseListener
  <2> QED
    BY <2>1, <2>2
<1>24. CASE UNCHANGED vars
  BY <1>24 DEF vars
<1> QED
  BY <1>1, <1>2, <1>3, <1>4, <1>5, <1>6, <1>7, <1>8, <1>9, <1>10, <1>11,
     <1>12, <1>13, <1>14, <1>15, <1>16, <1>17, <1>18, <1>19, <1>20, <1>21,
     <1>22, <1>23, <1>24 DEF Next, RunSteps, OtherSteps, CallSteps, Terminated

LEMMA OwnershipInvariant == Spec => []Ownership
<1>1. Init => Ownership
  BY InitOwnership
<1>2. TypeOK /\ Ownership /\ [Next]_vars => Ownership'
  BY NextOwnership
<1> QED
  BY <1>1, <1>2, TypeCorrect, PTL DEF Spec

\* The places of Holding are those of Ownership.
LEMMA OwnershipImpliesOneOwner == ASSUME Ownership PROVE OneOwner
<1> SUFFICES ASSUME NEW s \in Streams
             PROVE  IF Open(s) THEN \E p \in Holding(s) : Holding(s) = {p}
                               ELSE Holding(s) = {}
  BY DEF OneOwner
<1> USE DEF Ownership, Holding, Drops
<1>1. CASE ~Open(s)
  <2>1. Holding(s) = {}
    BY <1>1
  <2> QED
    BY <1>1, <2>1
<1>2. CASE Open(s) /\ bound = s
  <2>1. Holding(s) = {"bound"}
    BY <1>2
  <2> QED
    BY <1>2, <2>1
<1>3. CASE Open(s) /\ displaced = s
  <2>1. Holding(s) = {"displaced"}
    BY <1>3
  <2> QED
    BY <1>3, <2>1
<1>4. CASE Open(s) /\ Drops(s)
  <2>1. Holding(s) = {"dropping"}
    BY <1>4
  <2> QED
    BY <1>4, <2>1
<1>5. CASE Open(s) /\ removing[s] = "drop"
  <2>1. Holding(s) = {"removing"}
    BY <1>5
  <2> QED
    BY <1>5, <2>1
<1> QED
  BY <1>1, <1>2, <1>3, <1>4, <1>5

\* Whatever the number of streams and the interleaving of their users, an open
\* stream of the UDP server has exactly one party that will close it, and a
\* closed one has none (bindStream, removeStream, run).
THEOREM StreamHasOneOwner == Spec => []OneOwner
<1>1. Ownership => OneOwner
  BY OwnershipImpliesOneOwner
<1> QED
  BY <1>1, OwnershipInvariant, PTL

-------------------------------------------------------------------------------
(* The end of the server                                                   *)

\* Once the flag is up and the lock has been free, nothing can be bound.
NothingAfterEnd ==
  /\ spc \in {"swap", "exitDrop", "done"} => lsnFlag /\ displaced = NoStream
  /\ spc \in {"exitDrop", "done"} => bound = NoStream

LEMMA InitNothingAfterEnd == Init => NothingAfterEnd
  BY DEF Init, NothingAfterEnd

LEMMA NextNothingAfterEnd ==
  ASSUME TypeOK, NothingAfterEnd, [Next]_vars
  PROVE  NothingAfterEnd'
<1> USE DEF TypeOK, UsesCur, NothingAfterEnd
<1>1. CASE ReadBegin
  BY <1>1 DEF ReadBegin
<1>2. CASE DeadlinePasses
  BY <1>2 DEF DeadlinePasses
<1>3. CASE ReadTimeout
  BY <1>3 DEF ReadTimeout
<1>4. CASE ReadEnds
  BY <1>4 DEF ReadEnds
<1>5. CASE Dispatch
  BY <1>5 DEF Dispatch
<1>6. CASE HandleEnter
  BY <1>6 DEF HandleEnter
<1>7. CASE HandleLeave
  BY <1>7 DEF HandleLeave
<1>8. CASE RemoveStream
  BY <1>8 DEF RemoveStream, StillBound
<1>9. CASE DropStream
  BY <1>9 DEF DropStream, CloseStream, ClosesServer
<1>10. CASE CloseAndExit
  BY <1>10 DEF CloseAndExit, CloseListener
<1>11. CASE SetClosed
  BY <1>11 DEF SetClosed
<1>12. CASE ExitSwap
  BY <1>12 DEF ExitSwap
<1>13. CASE ExitDrop
  BY <1>13 DEF ExitDrop, CloseStream
<1>14. CASE ReadData
  BY <1>14 DEF ReadData
<1>15. CASE ReadBufferFails
  BY <1>15 DEF ReadBufferFails
<1>16. CASE Start
  BY <1>16 DEF Start
<1>17. CASE UserCloses
  BY <1>17 DEF UserCloses, CloseListener
<1>18. CASE CloseDisplaced
  BY <1>18 DEF CloseDisplaced, CloseStream
<1>19. ASSUME NEW s \in Streams, BindRefused(s) PROVE NothingAfterEnd'
  BY <1>19 DEF BindRefused
<1>20. ASSUME NEW s \in Streams, BindStream(s) PROVE NothingAfterEnd'
  BY <1>20 DEF BindStream, StampIfListening
<1>21. ASSUME NEW s \in Streams, UserRemoves(s) PROVE NothingAfterEnd'
  BY <1>21 DEF UserRemoves
<1>22. ASSUME NEW s \in Streams, UserDrops(s) PROVE NothingAfterEnd'
  BY <1>22 DEF UserDrops, CloseStream, ClosesServer
<1>23. ASSUME NEW s \in Streams, UserDropCloses(s) PROVE NothingAfterEnd'
  <2>1. CASE Started
    BY <1>23, <2>1 DEF UserDropCloses, CloseListener
  <2>2. CASE ~Started
    BY <1>23, <2>2 DEF UserDropCloses, CloseListener
  <2> QED
    BY <2>1, <2>2
<1>24. CASE UNCHANGED vars
  BY <1>24 DEF vars
<1> QED
  BY <1>1, <1>2, <1>3, <1>4, <1>5, <1>6, <1>7, <1>8, <1>9, <1>10, <1>11,
     <1>12, <1>13, <1>14, <1>15, <1>16, <1>17, <1>18, <1>19, <1>20, <1>21,
     <1>22, <1>23, <1>24 DEF Next, RunSteps, OtherSteps, CallSteps, Terminated

\* A server that has ended leaves no stream open but one that a call of
\* RemoveStream is about to close (run, deferred).
THEOREM EndClosesStreams == Spec => []ShutdownComplete
<1>1. Init => NothingAfterEnd
  BY InitNothingAfterEnd
<1>2. TypeOK /\ NothingAfterEnd /\ [Next]_vars => NothingAfterEnd'
  BY NextNothingAfterEnd
<1>3. Spec => []NothingAfterEnd
  BY <1>1, <1>2, TypeCorrect, PTL DEF Spec
<1>4. Ownership /\ NothingAfterEnd => ShutdownComplete
  BY DEF Ownership, NothingAfterEnd, ShutdownComplete, Drops
<1> QED
  BY <1>3, <1>4, OwnershipInvariant, PTL

-------------------------------------------------------------------------------
(* The time a timeout is judged by                                         *)

LEMMA NextJudgedByOwnTime ==
  ASSUME TypeOK, JudgedByOwnTime, [Next]_vars
  PROVE  JudgedByOwnTime'
<1> USE DEF TypeOK, UsesCur, JudgedByOwnTime
<1>1. CASE ReadBegin
  BY <1>1 DEF ReadBegin
<1>2. CASE DeadlinePasses
  BY <1>2 DEF DeadlinePasses
<1>3. CASE ReadTimeout
  BY <1>3 DEF ReadTimeout
<1>4. CASE ReadEnds
  BY <1>4 DEF ReadEnds
<1>5. CASE Dispatch
  BY <1>5 DEF Dispatch
<1>6. CASE HandleEnter
  BY <1>6 DEF HandleEnter
<1>7. CASE HandleLeave
  BY <1>7 DEF HandleLeave
<1>8. CASE RemoveStream
  BY <1>8 DEF RemoveStream, StillBound
<1>9. CASE DropStream
  BY <1>9 DEF DropStream, CloseStream, ClosesServer
<1>10. CASE CloseAndExit
  BY <1>10 DEF CloseAndExit, CloseListener
<1>11. CASE SetClosed
  BY <1>11 DEF SetClosed
<1>12. CASE ExitSwap
  BY <1>12 DEF ExitSwap
<1>13. CASE ExitDrop
  BY <1>13 DEF ExitDrop, CloseStream
<1>14. CASE ReadData
  BY <1>14 DEF ReadData
<1>15. CASE ReadBufferFails
  BY <1>15 DEF ReadBufferFails
<1>16. CASE Start
  BY <1>16 DEF Start
<1>17. CASE UserCloses
  BY <1>17 DEF UserCloses, CloseListener
<1>18. CASE CloseDisplaced
  BY <1>18 DEF CloseDisplaced, CloseStream
<1>19. ASSUME NEW s \in Streams, BindRefused(s) PROVE JudgedByOwnTime'
  BY <1>19 DEF BindRefused
<1>20. ASSUME NEW s \in Streams, BindStream(s) PROVE JudgedByOwnTime'
  BY <1>20 DEF BindStream, StampIfListening
<1>21. ASSUME NEW s \in Streams, UserRemoves(s) PROVE JudgedByOwnTime'
  BY <1>21 DEF UserRemoves
<1>22. ASSUME NEW s \in Streams, UserDrops(s) PROVE JudgedByOwnTime'
  BY <1>22 DEF UserDrops, CloseStream, ClosesServer
<1>23. ASSUME NEW s \in Streams, UserDropCloses(s) PROVE JudgedByOwnTime'
  <2>1. CASE Started
    BY <1>23, <2>1 DEF UserDropCloses, CloseListener
  <2>2. CASE ~Started
    BY <1>23, <2>2 DEF UserDropCloses, CloseListener
  <2> QED
    BY <2>1, <2>2
<1>24. CASE UNCHANGED vars
  BY <1>24 DEF vars
<1> QED
  BY <1>1, <1>2, <1>3, <1>4, <1>5, <1>6, <1>7, <1>8, <1>9, <1>10, <1>11,
     <1>12, <1>13, <1>14, <1>15, <1>16, <1>17, <1>18, <1>19, <1>20, <1>21,
     <1>22, <1>23, <1>24 DEF Next, RunSteps, OtherSteps, CallSteps, Terminated

\* The stream bound to a server that listens has its time set: bindStream and
\* start set it under the lock of the listener, before anyone can read it.
THEOREM BoundStreamStamped == Spec => []JudgedByOwnTime
<1>1. Init => JudgedByOwnTime
  BY DEF Init, JudgedByOwnTime
<1>2. TypeOK /\ JudgedByOwnTime /\ [Next]_vars => JudgedByOwnTime'
  BY NextJudgedByOwnTime
<1> QED
  BY <1>1, <1>2, TypeCorrect, PTL DEF Spec

-------------------------------------------------------------------------------
(* The contract of the handlers                                            *)

\* The read loop only holds streams of calls that have succeeded, and inside a
\* callback it holds the handlerLock of the stream.
LoopHoldsLock ==
  /\ cur # NoStream => call[cur] = "open"
  /\ spc = "handling" => busy[cur]

LEMMA InitLoopHoldsLock == Init => LoopHoldsLock
  BY DEF Init, LoopHoldsLock

LEMMA NextLoopHoldsLock ==
  ASSUME TypeOK, Ownership, LoopHoldsLock, [Next]_vars
  PROVE  LoopHoldsLock'
<1> USE DEF TypeOK, UsesCur, Ownership, Open, LoopHoldsLock
<1>1. CASE ReadBegin
  BY <1>1 DEF ReadBegin
<1>2. CASE DeadlinePasses
  BY <1>2 DEF DeadlinePasses
<1>3. CASE ReadTimeout
  BY <1>3 DEF ReadTimeout
<1>4. CASE ReadEnds
  BY <1>4 DEF ReadEnds
<1>5. CASE Dispatch
  BY <1>5 DEF Dispatch
<1>6. CASE HandleEnter
  BY <1>6 DEF HandleEnter
<1>7. CASE HandleLeave
  BY <1>7 DEF HandleLeave
<1>8. CASE RemoveStream
  BY <1>8 DEF RemoveStream, StillBound
<1>9. CASE DropStream
  BY <1>9 DEF DropStream, CloseStream, ClosesServer
<1>10. CASE CloseAndExit
  BY <1>10 DEF CloseAndExit, CloseListener
<1>11. CASE SetClosed
  BY <1>11 DEF SetClosed
<1>12. CASE ExitSwap
  BY <1>12 DEF ExitSwap
<1>13. CASE ExitDrop
  BY <1>13 DEF ExitDrop, CloseStream
<1>14. CASE ReadData
  BY <1>14 DEF ReadData
<1>15. CASE ReadBufferFails
  BY <1>15 DEF ReadBufferFails
<1>16. CASE Start
  BY <1>16 DEF Start
<1>17. CASE UserCloses
  BY <1>17 DEF UserCloses, CloseListener
<1>18. CASE CloseDisplaced
  BY <1>18 DEF CloseDisplaced, CloseStream
<1>19. ASSUME NEW s \in Streams, BindRefused(s) PROVE LoopHoldsLock'
  BY <1>19 DEF BindRefused
<1>20. ASSUME NEW s \in Streams, BindStream(s) PROVE LoopHoldsLock'
  BY <1>20 DEF BindStream, StampIfListening
<1>21. ASSUME NEW s \in Streams, UserRemoves(s) PROVE LoopHoldsLock'
  BY <1>21 DEF UserRemoves
<1>22. ASSUME NEW s \in Streams, UserDrops(s) PROVE LoopHoldsLock'
  BY <1>22 DEF UserDrops, CloseStream, ClosesServer
<1>23. ASSUME NEW s \in Streams, UserDropCloses(s) PROVE LoopHoldsLock'
  <2>1. CASE Started
    BY <1>23, <2>1 DEF UserDropCloses, CloseListener
  <2>2. CASE ~Started
    BY <1>23, <2>2 DEF UserDropCloses, CloseListener
  <2> QED
    BY <2>1, <2>2
<1>24. CASE UNCHANGED vars
  BY <1>24 DEF vars
<1> QED
  BY <1>1, <1>2, <1>3, <1>4, <1>5, <1>6, <1>7, <1>8, <1>9, <1>10, <1>11,
     <1>12, <1>13, <1>14, <1>15, <1>16, <1>17, <1>18, <1>19, <1>20, <1>21,
     <1>22, <1>23, <1>24 DEF Next, RunSteps, OtherSteps, CallSteps, Terminated

\* Each step is a step of the contract or leaves its variables alone.
LEMMA NextContract ==
  ASSUME TypeOK, Ownership, LoopHoldsLock, [Next]_vars
  PROVE  [Contract!CNext]_Contract!cvars
<1> USE DEF TypeOK, UsesCur, Ownership, Open, LoopHoldsLock
<1>1. CASE ReadBegin
  <2>1. UNCHANGED <<Phase, busy>>
    BY <1>1 DEF ReadBegin, Phase
  <2> QED
    BY <2>1 DEF Contract!cvars
<1>2. CASE DeadlinePasses
  <2>1. UNCHANGED <<Phase, busy>>
    BY <1>2 DEF DeadlinePasses, Phase
  <2> QED
    BY <2>1 DEF Contract!cvars
<1>3. CASE ReadTimeout
  <2>1. UNCHANGED <<Phase, busy>>
    BY <1>3 DEF ReadTimeout, Phase
  <2> QED
    BY <2>1 DEF Contract!cvars
<1>4. CASE ReadEnds
  <2>1. UNCHANGED <<Phase, busy>>
    BY <1>4 DEF ReadEnds, Phase
  <2> QED
    BY <2>1 DEF Contract!cvars
<1>5. CASE Dispatch
  <2>1. UNCHANGED <<Phase, busy>>
    BY <1>5 DEF Dispatch, Phase
  <2> QED
    BY <2>1 DEF Contract!cvars
<1>6. CASE HandleEnter
  <2>1. CASE closed[cur]
    <3>1. UNCHANGED <<Phase, busy>>
      BY <1>6, <2>1 DEF HandleEnter, Phase
    <3> QED
      BY <3>1 DEF Contract!cvars
  <2>2. CASE ~closed[cur]
    <3>1. cur \in Streams /\ Phase[cur] = "open" /\ UNCHANGED Phase
      BY <1>6, <2>2 DEF HandleEnter, Phase
    <3>2. Contract!Enter(cur)
      BY <1>6, <2>2, <3>1 DEF HandleEnter, Contract!Enter
    <3> QED
      BY <3>1, <3>2 DEF Contract!CNext
  <2> QED
    BY <2>1, <2>2
<1>7. CASE HandleLeave
  <2>1. cur \in Streams /\ UNCHANGED Phase
    BY <1>7 DEF HandleLeave, Phase
  <2>2. Contract!Leave(cur)
    BY <1>7, <2>1 DEF HandleLeave, Contract!Leave
  <2> QED
    BY <2>1, <2>2 DEF Contract!CNext
<1>8. CASE RemoveStream
  <2>1. UNCHANGED <<Phase, busy>>
    BY <1>8 DEF RemoveStream, StillBound, Phase
  <2> QED
    BY <2>1 DEF Contract!cvars
<1>9. CASE DropStream
  <2>1. Open(cur) /\ cur \in Streams
    BY <1>9 DEF DropStream, Drops
  <2>2. ~busy[cur] /\ UNCHANGED busy
    BY <1>9 DEF DropStream, CloseStream
  <2>3. Phase[cur] = "open" /\ Phase' = [Phase EXCEPT ![cur] = "closed"]
    BY <1>9, <2>1 DEF DropStream, CloseStream, Phase
  <2>4. Contract!Close(cur)
    BY <2>2, <2>3 DEF Contract!Close, Contract!Become
  <2> QED
    BY <2>1, <2>4 DEF Contract!CNext
<1>10. CASE CloseAndExit
  <2>1. UNCHANGED <<Phase, busy>>
    BY <1>10 DEF CloseAndExit, CloseListener, Phase
  <2> QED
    BY <2>1 DEF Contract!cvars
<1>11. CASE SetClosed
  <2>1. UNCHANGED <<Phase, busy>>
    BY <1>11 DEF SetClosed, Phase
  <2> QED
    BY <2>1 DEF Contract!cvars
<1>12. CASE ExitSwap
  <2>1. UNCHANGED <<Phase, busy>>
    BY <1>12 DEF ExitSwap, Phase
  <2> QED
    BY <2>1 DEF Contract!cvars
<1>13. CASE ExitDrop
  <2>1. Open(cur) /\ cur \in Streams
    BY <1>13 DEF ExitDrop, Drops
  <2>2. ~busy[cur] /\ UNCHANGED busy
    BY <1>13 DEF ExitDrop, CloseStream
  <2>3. Phase[cur] = "open" /\ Phase' = [Phase EXCEPT ![cur] = "closed"]
    BY <1>13, <2>1 DEF ExitDrop, CloseStream, Phase
  <2>4. Contract!Close(cur)
    BY <2>2, <2>3 DEF Contract!Close, Contract!Become
  <2> QED
    BY <2>1, <2>4 DEF Contract!CNext
<1>14. CASE ReadData
  <2>1. UNCHANGED <<Phase, busy>>
    BY <1>14 DEF ReadData, Phase
  <2> QED
    BY <2>1 DEF Contract!cvars
<1>15. CASE ReadBufferFails
  <2>1. UNCHANGED <<Phase, busy>>
    BY <1>15 DEF ReadBufferFails, Phase
  <2> QED
    BY <2>1 DEF Contract!cvars
<1>16. CASE Start
  <2>1. UNCHANGED <<Phase, busy>>
    BY <1>16 DEF Start, Phase
  <2> QED
    BY <2>1 DEF Contract!cvars
<1>17. CASE UserCloses
  <2>1. UNCHANGED <<Phase, busy>>
    BY <1>17 DEF UserCloses, CloseListener, Phase
  <2> QED
    BY <2>1 DEF Contract!cvars
<1>18. CASE CloseDisplaced
  <2>1. Open(displaced) /\ displaced \in Streams
    BY <1>18 DEF CloseDisplaced, Drops
  <2>2. ~busy[displaced] /\ UNCHANGED busy
    BY <1>18 DEF CloseDisplaced, CloseStream
  <2>3. Phase[displaced] = "open" /\ Phase' = [Phase EXCEPT ![displaced] = "closed"]
    BY <1>18, <2>1 DEF CloseDisplaced, CloseStream, Phase
  <2>4. Contract!Close(displaced)
    BY <2>2, <2>3 DEF Contract!Close, Contract!Become
  <2> QED
    BY <2>1, <2>4 DEF Contract!CNext
<1>19. ASSUME NEW s \in Streams, BindRefused(s) PROVE [Contract!CNext]_Contract!cvars
  <2>1. /\ Phase[s] = "new"
        /\ Phase' = [Phase EXCEPT ![s] = "refused"]
        /\ UNCHANGED busy
    BY <1>19 DEF BindRefused, Phase
  <2>2. Contract!Refuse(s)
    BY <2>1 DEF Contract!Refuse, Contract!Become
  <2> QED
    BY <2>2 DEF Contract!CNext
<1>20. ASSUME NEW s \in Streams, BindStream(s) PROVE [Contract!CNext]_Contract!cvars
  <2>1. /\ Phase[s] = "new"
        /\ Phase' = [Phase EXCEPT ![s] = "open"]
        /\ UNCHANGED busy
    BY <1>20 DEF BindStream, Phase
  <2>2. Contract!Register(s)
    BY <2>1 DEF Contract!Register, Contract!Become
  <2> QED
    BY <2>2 DEF Contract!CNext
<1>21. ASSUME NEW s \in Streams, UserRemoves(s) PROVE [Contract!CNext]_Contract!cvars
  <2>1. UNCHANGED <<Phase, busy>>
    BY <1>21 DEF UserRemoves, Phase
  <2> QED
    BY <2>1 DEF Contract!cvars
<1>22. ASSUME NEW s \in Streams, UserDrops(s) PROVE [Contract!CNext]_Contract!cvars
  <2>1. Open(s) /\ s \in Streams
    BY <1>22 DEF UserDrops, Drops
  <2>2. ~busy[s] /\ UNCHANGED busy
    BY <1>22 DEF UserDrops, CloseStream
  <2>3. Phase[s] = "open" /\ Phase' = [Phase EXCEPT ![s] = "closed"]
    BY <1>22, <2>1 DEF UserDrops, CloseStream, Phase
  <2>4. Contract!Close(s)
    BY <2>2, <2>3 DEF Contract!Close, Contract!Become
  <2> QED
    BY <2>1, <2>4 DEF Contract!CNext
<1>23. ASSUME NEW s \in Streams, UserDropCloses(s) PROVE [Contract!CNext]_Contract!cvars
  <2>1. UNCHANGED <<Phase, busy>>
    BY <1>23 DEF UserDropCloses, CloseListener, Phase
  <2> QED
    BY <2>1 DEF Contract!cvars
<1>24. CASE UNCHANGED vars
  BY <1>24 DEF vars, Phase, Contract!cvars
<1> QED
  BY <1>1, <1>2, <1>3, <1>4, <1>5, <1>6, <1>7, <1>8, <1>9, <1>10, <1>11,
     <1>12, <1>13, <1>14, <1>15, <1>16, <1>17, <1>18, <1>19, <1>20, <1>21,
     <1>22, <1>23, <1>24 DEF Next, RunSteps, OtherSteps, CallSteps, Terminated

\* The UDP server implements StreamContract: one callback of a handler at a
\* time, OnStreamClosed once and last (abstractStream under handlerLock, with
\* every step of udp-server.go).
THEOREM KeepsHandlerContract == Spec => HandlerContract
<1>1. Init => Contract!CInit
  BY DEF Init, Contract!CInit, Phase
<1>2. TypeOK /\ Ownership /\ LoopHoldsLock /\ [Next]_vars => LoopHoldsLock'
  BY NextLoopHoldsLock
<1>3. TypeOK /\ Ownership /\ LoopHoldsLock /\ [Next]_vars
        => [Contract!CNext]_Contract!cvars
  BY NextContract
<1>4. Init => LoopHoldsLock
  BY InitLoopHoldsLock
<1> QED
  BY <1>1, <1>2, <1>3, <1>4, TypeCorrect, OwnershipInvariant, PTL
     DEF Spec, HandlerContract, Contract!CSpec
===============================================================================
