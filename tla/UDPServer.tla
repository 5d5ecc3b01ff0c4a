------------------------------- MODULE UDPServer -------------------------------
(***************************************************************************)
(* The UDP server (src/server/udp-server.go): one socket, the goroutine    *)
(* that reads it, and the one stream bound to it, which users replace with *)
(* Stream() and take away with RemoveStream().  As in TCPChannel, an       *)
(* action is one access to shared state or a section under a lock.         *)
(***************************************************************************)
CONSTANTS
  Streams,              \* streams the users register
  NoStream,             \* the nil *UDPStream
  Timed,                \* streams whose timeout is > 0
  KeepConn,             \* streams registered with closeConn = false
  CloseOnStreamClosed,  \* the server option of that name
  Preset                \* built by NewUDPServerWithListener

ASSUME UDPAssumption ==
  /\ NoStream \notin Streams
  /\ Timed \subseteq Streams
  /\ KeepConn \subseteq Streams
  /\ CloseOnStreamClosed \in BOOLEAN
  /\ Preset \in BOOLEAN

VARIABLES
  call,       \* call[s]: Stream() for s has not begun, has bound s, was refused
  closed,     \* closed[s]: OnStreamClosed has run
  busy,       \* busy[s]: handlerLock is held by HandlePacket or OnParseError
  stamped,    \* stamped[s]: timer.time is not the zero time
  bound,      \* the atomic pointer s.stream
  displaced,  \* the old stream bindStream is closing: NoStream exactly when
              \*   the mutex of s.listener is free
  removing,   \* removing[s]: how far RemoveStream for s has come
  listening,  \* s.listener holds a connection
  lsnFlag,    \* s.listener.close
  socket,     \* the socket: none, open, closed
  deadline,   \* its read deadline: none, ahead, passed
  spc,        \* where the goroutine of the server is
  cur         \* its local variable stream

streamVars == <<call, closed, stamped>>
lsnVars    == <<listening, lsnFlag, socket>>
vars == <<streamVars, busy, bound, displaced, removing, lsnVars, deadline,
          spc, cur>>

StreamOrNil == Streams \cup {NoStream}

RunPCs == {"load", "wait", "expired", "dispatch", "handle", "handling",
           "remove", "drop", "close", "exit", "swap", "exitDrop"}

Init ==
  /\ call = [s \in Streams |-> "new"]
  /\ closed = [s \in Streams |-> FALSE]
  /\ busy = [s \in Streams |-> FALSE]
  /\ stamped = [s \in Streams |-> FALSE]
  /\ bound = NoStream
  /\ displaced = NoStream
  /\ removing = [s \in Streams |-> "no"]
  /\ listening = Preset
  /\ lsnFlag = FALSE
  /\ socket = IF Preset THEN "open" ELSE "none"
  /\ deadline = "none"
  /\ spc = "idle"
  /\ cur = NoStream

-------------------------------------------------------------------------------
(* Helpers, each after what it would be with a bug (a mutant).             *)

Started == spc \in RunPCs

LockFree == displaced = NoStream

StillBoundAssumed(s) == TRUE                                         \* mutant
\* The comparison of the compare-and-swap in removeStream.
StillBound(s)        == bound = s

StampNever(s) == UNCHANGED stamped                                   \* mutant
\* The time of the timer counts from the binding, or from the start.
StampIfListening(s) ==
  stamped' = [stamped EXCEPT ![s] = @ \/ listening]

CloseStreamUnlocked(s) == closed' = [closed EXCEPT ![s] = TRUE]      \* mutant
\* closeStream: OnStreamClosed waits for handlerLock and runs once.
CloseStream(s) == /\ ~busy[s]
                  /\ closed' = [closed EXCEPT ![s] = TRUE]

ClosesServerNever(s) == FALSE                                        \* mutant
\* Whether removing s closes the server.
ClosesServer(s) == CloseOnStreamClosed /\ s \notin KeepConn

\* mutant: the flag goes up and the socket stays open.
CloseListenerFlagOnly == LockFree /\ lsnFlag' = TRUE /\ UNCHANGED <<listening, socket>>
\* s.Close: the flag goes up and the socket is closed, once.
CloseListener ==
  /\ LockFree
  /\ lsnFlag' = TRUE
  /\ socket' = IF lsnFlag THEN socket ELSE "closed"
  /\ UNCHANGED listening

-------------------------------------------------------------------------------
(* start()                                                                 *)

\* Init of the listener, which refuses when one was given to the constructor;
\* the stream bound before the start counts its time from here.
Start ==
  /\ spc = "idle"
  /\ LockFree
  /\ IF lsnFlag \/ listening
       THEN spc' = "failed" /\ UNCHANGED <<listening, socket, stamped>>
       ELSE /\ spc' = "load"
            /\ listening' = TRUE
            /\ socket' = "open"
            /\ stamped' = [s \in Streams |-> stamped[s] \/ s = bound]
  /\ UNCHANGED <<call, closed, busy, bound, displaced, removing, lsnFlag,
                 deadline, cur>>

-------------------------------------------------------------------------------
(* read()                                                                  *)

ReadBufferFails ==
  /\ spc = "load"
  /\ spc' = "close"
  /\ UNCHANGED <<streamVars, busy, bound, displaced, removing, lsnVars,
                 deadline, cur>>

\* Loads the stream and moves the deadline of the socket; a stream without a
\* timeout, or no stream, leaves the deadline of the last one in place.
ReadBegin ==
  /\ spc = "load"
  /\ spc' = "wait"
  /\ cur' = bound
  /\ deadline' = IF bound \notin Timed THEN deadline
                 ELSE IF stamped[bound] THEN "ahead" ELSE "passed"
  /\ UNCHANGED <<streamVars, busy, bound, displaced, removing, lsnVars>>

\* Time goes by while ReadFromUDP waits.
DeadlinePasses ==
  /\ spc = "wait"
  /\ deadline = "ahead"
  /\ deadline' = "passed"
  /\ UNCHANGED <<streamVars, busy, bound, displaced, removing, lsnVars, spc, cur>>

ReadData ==
  /\ spc = "wait"
  /\ socket = "open"
  /\ deadline # "passed"
  /\ spc' = "dispatch"
  /\ cur' = NoStream
  /\ UNCHANGED <<streamVars, busy, bound, displaced, removing, lsnVars, deadline>>

\* A timeout is charged to the stream loaded before the wait, if any.
ReadTimeout ==
  /\ spc = "wait"
  /\ socket = "open"
  /\ deadline = "passed"
  /\ spc' = IF cur = NoStream THEN "load" ELSE "expired"
  /\ UNCHANGED <<streamVars, busy, bound, displaced, removing, lsnVars,
                 deadline, cur>>

\* net.ErrClosed, or an error of the network; the socket stays as it is.
ReadEnds ==
  /\ spc = "wait"
  /\ spc' = "exit"
  /\ cur' = NoStream
  /\ UNCHANGED <<streamVars, busy, bound, displaced, removing, lsnVars, deadline>>

-------------------------------------------------------------------------------
(* The loop of run()                                                       *)

\* The datagram goes to the stream bound now; without one it is released.
Dispatch ==
  /\ spc = "dispatch"
  /\ cur' = bound
  /\ spc' = IF bound = NoStream THEN "load" ELSE "handle"
  /\ UNCHANGED <<streamVars, busy, bound, displaced, removing, lsnVars, deadline>>

\* HandlePacket or OnParseError takes handlerLock; a closed stream answers
\* keep = FALSE without a callback.
HandleEnter ==
  /\ spc = "handle"
  /\ ~busy[cur]
  /\ IF closed[cur]
       THEN spc' = "remove" /\ UNCHANGED busy
       ELSE spc' = "handling" /\ busy' = [busy EXCEPT ![cur] = TRUE]
  /\ UNCHANGED <<streamVars, bound, displaced, removing, lsnVars, deadline, cur>>

\* The callback answers keep or not, and dropped or not.
HandleLeave ==
  /\ spc = "handling"
  /\ busy' = [busy EXCEPT ![cur] = FALSE]
  /\ \E dropped \in BOOLEAN : stamped' = [stamped EXCEPT ![cur] = @ \/ ~dropped]
  /\ \/ spc' = "remove" /\ UNCHANGED cur
     \/ spc' = "load" /\ cur' = NoStream
  /\ UNCHANGED <<call, closed, bound, displaced, removing, lsnVars, deadline>>

\* removeStream with the local stream: the compare-and-swap.
RemoveStream ==
  /\ spc \in {"expired", "remove"}
  /\ IF StillBound(cur)
       THEN bound' = NoStream /\ spc' = "drop" /\ UNCHANGED cur
       ELSE spc' = "load" /\ cur' = NoStream /\ UNCHANGED bound
  /\ UNCHANGED <<streamVars, busy, displaced, removing, lsnVars, deadline>>

DropStream ==
  /\ spc = "drop"
  /\ CloseStream(cur)
  /\ cur' = NoStream
  /\ spc' = IF ClosesServer(cur) THEN "close" ELSE "load"
  /\ UNCHANGED <<call, stamped, busy, bound, displaced, removing, lsnVars,
                 deadline>>

CloseAndExit ==
  /\ spc = "close"
  /\ CloseListener
  /\ spc' = "exit"
  /\ UNCHANGED <<streamVars, busy, bound, displaced, removing, deadline, cur>>

\* mutant: the flag is forgotten when the loop ends by itself.
SetClosedForgotten ==
  /\ spc = "exit"
  /\ LockFree
  /\ listening' = FALSE
  /\ spc' = "swap"
  /\ UNCHANGED <<streamVars, busy, bound, displaced, removing, lsnFlag, socket,
                 deadline, cur>>
\* listener.SetClosed: from here on no stream can be bound.
SetClosed ==
  /\ spc = "exit"
  /\ LockFree
  /\ lsnFlag' = TRUE
  /\ listening' = FALSE
  /\ spc' = "swap"
  /\ UNCHANGED <<streamVars, busy, bound, displaced, removing, socket,
                 deadline, cur>>

\* mutant: nobody is told.
ExitSwapForgets ==
  /\ spc = "swap"
  /\ bound' = NoStream
  /\ spc' = "done"
  /\ UNCHANGED <<streamVars, busy, displaced, removing, lsnVars, deadline, cur>>
ExitSwap ==
  /\ spc = "swap"
  /\ cur' = bound
  /\ bound' = NoStream
  /\ spc' = IF bound = NoStream THEN "done" ELSE "exitDrop"
  /\ UNCHANGED <<streamVars, busy, displaced, removing, lsnVars, deadline>>

ExitDrop ==
  /\ spc = "exitDrop"
  /\ CloseStream(cur)
  /\ cur' = NoStream
  /\ spc' = "done"
  /\ UNCHANGED <<call, stamped, busy, bound, displaced, removing, lsnVars,
                 deadline>>

-------------------------------------------------------------------------------
(* Stream(), RemoveStream() and Close() by users                           *)

BindRefused(s) ==
  /\ call[s] = "new"
  /\ LockFree
  /\ lsnFlag
  /\ call' = [call EXCEPT ![s] = "refused"]
  /\ UNCHANGED <<closed, stamped, busy, bound, displaced, removing, lsnVars,
                 deadline, spc, cur>>

\* bindStream up to the swap; the lock stays held while the old stream, if
\* any, is closed.
BindStream(s) ==
  /\ call[s] = "new"
  /\ LockFree
  /\ ~lsnFlag
  /\ call' = [call EXCEPT ![s] = "open"]
  /\ StampIfListening(s)
  /\ bound' = s
  /\ displaced' = bound
  /\ UNCHANGED <<closed, busy, removing, lsnVars, deadline, spc, cur>>

CloseDisplaced ==
  /\ displaced # NoStream
  /\ CloseStream(displaced)
  /\ displaced' = NoStream
  /\ UNCHANGED <<call, stamped, busy, bound, removing, lsnVars, deadline, spc,
                 cur>>

\* RemoveStream by a user: nothing happens unless the stream is bound.
UserRemoves(s) ==
  /\ bound = s
  /\ bound' = NoStream
  /\ removing' = [removing EXCEPT ![s] = "drop"]
  /\ UNCHANGED <<streamVars, busy, displaced, lsnVars, deadline, spc, cur>>

UserDrops(s) ==
  /\ removing[s] = "drop"
  /\ CloseStream(s)
  /\ removing' = [removing EXCEPT ![s] = IF ClosesServer(s) THEN "close" ELSE "no"]
  /\ UNCHANGED <<call, stamped, busy, bound, displaced, lsnVars, deadline, spc,
                 cur>>

\* s.Close at the end of removeStream; on a server that does not run it does
\* nothing.
UserDropCloses(s) ==
  /\ removing[s] = "close"
  /\ IF Started THEN CloseListener ELSE UNCHANGED lsnVars
  /\ removing' = [removing EXCEPT ![s] = "no"]
  /\ UNCHANGED <<streamVars, busy, bound, displaced, deadline, spc, cur>>

UserCloses ==
  /\ Started
  /\ ~lsnFlag
  /\ CloseListener
  /\ UNCHANGED <<streamVars, busy, bound, displaced, removing, deadline, spc, cur>>

-------------------------------------------------------------------------------
\* Steps the goroutine of the server takes of itself.
RunSteps ==
  \/ ReadBegin \/ DeadlinePasses \/ ReadTimeout
  \/ (socket = "closed" /\ ReadEnds)
  \/ Dispatch \/ HandleEnter \/ HandleLeave \/ RemoveStream \/ DropStream
  \/ CloseAndExit \/ SetClosed \/ ExitSwap \/ ExitDrop

\* Steps that the network, the memory pool or a user decide.
OtherSteps ==
  \/ ReadData \/ ReadEnds \/ ReadBufferFails
  \/ Start \/ UserCloses
  \/ \E s \in Streams : BindRefused(s) \/ BindStream(s) \/ UserRemoves(s)

\* Steps that end a call of a user.
CallSteps(s) == UserDrops(s) \/ UserDropCloses(s)

\* The server has ended, or never runs, and no call is under way or can begin.
Terminated ==
  /\ spc \in {"failed", "done"}
  /\ LockFree
  /\ bound = NoStream
  /\ \A s \in Streams : call[s] # "new" /\ removing[s] = "no"
  /\ UNCHANGED vars

Next == \/ RunSteps
        \/ OtherSteps
        \/ CloseDisplaced
        \/ \E s \in Streams : CallSteps(s)
        \/ Terminated

Spec == Init /\ [][Next]_vars

(***************************************************************************)
(* Fairness: goroutines go on unless they wait for the network or a user;  *)
(* handlers return; time passes.                                           *)
(***************************************************************************)
Fairness == /\ WF_vars(RunSteps)
            /\ WF_vars(CloseDisplaced)
            /\ \A s \in Streams : WF_vars(CallSteps(s))

FairSpec == Spec /\ Fairness
===============================================================================
