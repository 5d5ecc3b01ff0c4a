------------------------------ MODULE TCPChannel ------------------------------
(***************************************************************************)
(* A TCP channel (src/server/tcp-channel.go): the goroutine that reads one *)
(* accepted connection, and the stream bound to it.  This module declares  *)
(* the state of the channels and of the streams, and the steps of the read *)
(* loop; TCPServer composes them with the accept loop, Stream() and Close. *)
(*                                                                         *)
(* The grain is one action per access to shared state: an atomic pointer,  *)
(* a socket call, or a section under a lock.  Packets and bytes are        *)
(* abstracted to what decides the control: how many parse results a chunk  *)
(* still holds, and what the handler answered.                             *)
(***************************************************************************)
EXTENDS Naturals

CONSTANTS
  Streams,              \* streams the user registers
  Channels,             \* accepted connections
  NoStream,             \* the nil *TCPStream
  Timed,                \* streams whose timeout is > 0
  KeepConn,             \* streams registered with closeConn = false
  CloseOnStreamClosed,  \* the channel option of that name
  ChannelTimeout,       \* whether the channel option Timeout is > 0
  MaxPackets            \* bound: parse results in one chunk of data

ASSUME ChannelAssumption ==
  /\ NoStream \notin Streams
  /\ Timed \subseteq Streams
  /\ KeepConn \subseteq Streams
  /\ CloseOnStreamClosed \in BOOLEAN
  /\ ChannelTimeout \in BOOLEAN
  /\ MaxPackets \in Nat \ {0}

VARIABLES
  \* streams (abstractStream)
  closed,       \* closed[s]: OnStreamClosed has run
  busy,         \* busy[s]: handlerLock is held by HandlePacket or OnParseError
  stamped,      \* stamped[s]: timer.time is not the zero time
  streamTimer,  \* the stream the pending callback of s's timer removes, or
                \*   NoStream when s.timer.timer is nil
  \* the goroutine of a channel (TCPChannel.run)
  pc, cur,      \* where it is, and its local variable stream
  more,         \* parse results left in the chunk it is reading
  \* fields of a channel
  stream,       \* the atomic pointer c.stream
  displaced,    \* the old stream bindStream is closing: NoStream exactly when
                \*   the mutex of c.conn is free
  connFlag,     \* c.conn.close
  socket,       \* the connection: none, open, closed
  deadline,     \* read deadline set on the socket: none, ahead, passed
  chanTimer,    \* c.timer: off, pending, spent (fired, not yet cleared)
  firing,       \* a callback of c.timer is on its way to c.Close
  early         \* the callback of c.timer whose Close came before the start
                \*   of the channel: no, clearing (it will clear the timer),
                \*   or cleared, which is history

streamVars  == <<closed, busy, stamped, streamTimer>>
loopVars    == <<pc, cur, more>>
connVars    == <<displaced, connFlag, socket>>
timerVars   == <<chanTimer, firing, early>>
channelVars == <<streamVars, loopVars, stream, connVars, deadline, timerVars>>

Finished == {"none", "returned", "closed"}
LoopPCs  == {"load", "wait", "expired", "dispatch", "handle", "handling",
             "remove", "drop", "close", "rearm", "exit", "swap", "exitDrop",
             "return"}
PCs      == LoopPCs \cup Finished \cup {"created"}

StreamOrNil == Streams \cup {NoStream}

ChannelTypeOK ==
  /\ closed \in [Streams -> BOOLEAN]
  /\ busy \in [Streams -> BOOLEAN]
  /\ stamped \in [Streams -> BOOLEAN]
  /\ streamTimer \in [Streams -> StreamOrNil]
  /\ pc \in [Channels -> PCs]
  /\ cur \in [Channels -> StreamOrNil]
  /\ more \in [Channels -> 0..MaxPackets]
  /\ stream \in [Channels -> StreamOrNil]
  /\ displaced \in [Channels -> StreamOrNil]
  /\ connFlag \in [Channels -> BOOLEAN]
  /\ socket \in [Channels -> {"none", "open", "closed"}]
  /\ deadline \in [Channels -> {"none", "ahead", "passed"}]
  /\ chanTimer \in [Channels -> {"off", "pending", "spent"}]
  /\ firing \in [Channels -> BOOLEAN]
  /\ early \in [Channels -> {"no", "clearing", "cleared"}]

ChannelInit ==
  /\ closed = [s \in Streams |-> FALSE]
  /\ busy = [s \in Streams |-> FALSE]
  /\ stamped = [s \in Streams |-> FALSE]
  /\ streamTimer = [s \in Streams |-> NoStream]
  /\ pc = [c \in Channels |-> "none"]
  /\ cur = [c \in Channels |-> NoStream]
  /\ more = [c \in Channels |-> 0]
  /\ stream = [c \in Channels |-> NoStream]
  /\ displaced = [c \in Channels |-> NoStream]
  /\ connFlag = [c \in Channels |-> FALSE]
  /\ socket = [c \in Channels |-> "none"]
  /\ deadline = [c \in Channels |-> "none"]
  /\ chanTimer = [c \in Channels |-> "off"]
  /\ firing = [c \in Channels |-> FALSE]
  /\ early = [c \in Channels |-> "no"]

-------------------------------------------------------------------------------
(* Helpers.                                                                *)

\* The definitions called mutants are what the one after them would be with a
\* bug; nothing uses them, and PROJECT.json names the property that notices.

\* Close has an effect on a channel that runs.
Started(c)      == pc[c] \in LoopPCs

ConnFree(c) == displaced[c] = NoStream

BindableAlways(c) == ConnFree(c)                                     \* mutant
\* What bindStream asks under the lock of c.conn.
Bindable(c)       == ConnFree(c) /\ ~connFlag[c]

StillBoundAssumed(c) == TRUE                                         \* mutant
\* The comparison of the compare-and-swap in removeStream.
StillBound(c)        == stream[c] = cur[c]

Goto(c, label) == pc' = [pc EXCEPT ![c] = label]

NextPacketAlways(c) == "dispatch"                                    \* mutant
\* The top of the parse loop, or read() once the chunk is used up.
NextPacket(c)       == IF more[c] > 0 THEN "dispatch" ELSE "load"

InitChanTimerNever(c) == UNCHANGED <<chanTimer, early>>               \* mutant
\* timeoutTimer.Init arms the idle timer unless one is still there.
InitChanTimer(c) ==
  /\ chanTimer' = [chanTimer EXCEPT ![c] =
                  IF @ = "off" /\ ChannelTimeout THEN "pending" ELSE @]
  /\ early' = [early EXCEPT ![c] = IF @ = "cleared" THEN "no" ELSE @]

StopStreamTimerNot(s) == UNCHANGED streamTimer                       \* mutant
\* timeoutTimer.Close of a stream.
StopStreamTimer(s)    == streamTimer' = [streamTimer EXCEPT ![s] = NoStream]

CloseStreamUnlocked(s) == closed' = [closed EXCEPT ![s] = TRUE]      \* mutant
\* closeStream: OnStreamClosed waits for handlerLock and runs once.
CloseStream(s) == /\ ~busy[s]
                  /\ closed' = [closed EXCEPT ![s] = TRUE]

\* mutant: the flag goes up and the socket stays open.
CloseConnFlagOnly(c) ==
  /\ ConnFree(c)
  /\ connFlag' = [connFlag EXCEPT ![c] = TRUE]
  /\ UNCHANGED <<displaced, socket>>
\* c.Close: close() closes the socket the first time the flag goes up.
CloseConn(c) ==
  /\ ConnFree(c)
  /\ connFlag' = [connFlag EXCEPT ![c] = TRUE]
  /\ socket' = [socket EXCEPT ![c] = IF connFlag[c] THEN @ ELSE "closed"]
  /\ UNCHANGED displaced

-------------------------------------------------------------------------------
(* read()                                                                  *)

ReadBufferFails(c) ==
  /\ pc[c] = "load"
  /\ Goto(c, "close")
  /\ UNCHANGED <<streamVars, cur, more, stream, connVars, deadline, timerVars>>

\* Loads the stream and moves the deadline of the socket; a stream without a
\* timeout, or no stream, leaves the deadline of the last one in place.
ReadBegin(c) ==
  /\ pc[c] = "load"
  /\ Goto(c, "wait")
  /\ cur' = [cur EXCEPT ![c] = stream[c]]
  /\ deadline' = [deadline EXCEPT ![c] =
       IF stream[c] \notin Timed THEN @
       ELSE IF stamped[stream[c]] THEN "ahead" ELSE "passed"]
  /\ UNCHANGED <<streamVars, more, stream, connVars, timerVars>>

\* Time goes by while Read waits.
DeadlinePasses(c) ==
  /\ pc[c] = "wait"
  /\ deadline[c] = "ahead"
  /\ deadline' = [deadline EXCEPT ![c] = "passed"]
  /\ UNCHANGED <<streamVars, loopVars, stream, connVars, timerVars>>

ReadData(c) ==
  /\ pc[c] = "wait"
  /\ socket[c] = "open"
  /\ deadline[c] # "passed"
  /\ \E n \in 1..MaxPackets : more' = [more EXCEPT ![c] = n]
  /\ cur' = [cur EXCEPT ![c] = NoStream]
  /\ Goto(c, "dispatch")
  /\ UNCHANGED <<streamVars, stream, connVars, deadline, timerVars>>

\* A timeout of Read: onTimeout of the stream loaded before the wait, which
\* may have been displaced since; no stream, no consequence.
ReadTimeout(c) ==
  /\ pc[c] = "wait"
  /\ socket[c] = "open"
  /\ deadline[c] = "passed"
  /\ Goto(c, IF cur[c] = NoStream THEN "load" ELSE "expired")
  /\ UNCHANGED <<streamVars, cur, more, stream, connVars, deadline, timerVars>>

ExitLoop(c) ==
  /\ Goto(c, "exit")
  /\ cur' = [cur EXCEPT ![c] = NoStream]
  /\ more' = [more EXCEPT ![c] = 0]
  /\ UNCHANGED <<streamVars, stream, deadline, timerVars>>

\* io.EOF, an error of the network, or net.ErrClosed when somebody has closed
\* the connection; the socket itself stays as it is.
ReadEnds(c) ==
  /\ pc[c] = "wait"
  /\ ExitLoop(c)
  /\ UNCHANGED connVars

-------------------------------------------------------------------------------
(* The parse loop of run()                                                 *)

\* Takes one parse result from the chunk and goes on at label.
TakeResult(c, label, left) ==
  /\ pc[c] = "dispatch"
  /\ more' = [more EXCEPT ![c] = left]
  /\ Goto(c, label)
  /\ UNCHANGED <<streamVars, stream, connVars, deadline, timerVars>>

\* The parser wants more bytes: it has consumed the chunk.
ParseIncomplete(c) == TakeResult(c, "load", 0) /\ UNCHANGED cur

\* A packet or a parse error, and a stream to give it to.
ParseForStream(c) ==
  /\ stream[c] # NoStream
  /\ cur' = [cur EXCEPT ![c] = stream[c]]
  /\ TakeResult(c, "handle", more[c] - 1)

\* A packet or a tolerated parse error, and no stream.
ParseWithoutStream(c) ==
  /\ stream[c] = NoStream
  /\ TakeResult(c, IF more[c] > 1 THEN "dispatch" ELSE "load", more[c] - 1)
  /\ UNCHANGED cur

\* A parse error the keep-chooser does not tolerate, and no stream.
ParseRefused(c) ==
  /\ stream[c] = NoStream
  /\ TakeResult(c, "close", 0)
  /\ UNCHANGED cur

\* HandlePacket or OnParseError takes handlerLock; a closed stream answers
\* keep = FALSE without a callback.
HandleEnter(c) ==
  /\ pc[c] = "handle"
  /\ ~busy[cur[c]]
  /\ IF closed[cur[c]]
       THEN Goto(c, "remove") /\ UNCHANGED busy
       ELSE Goto(c, "handling") /\ busy' = [busy EXCEPT ![cur[c]] = TRUE]
  /\ UNCHANGED <<closed, stamped, streamTimer, cur, more, stream, connVars,
                 deadline, timerVars>>

\* The callback answers keep or not; a packet it did not drop stamps the
\* timer of the stream.
HandleLeave(c) ==
  /\ pc[c] = "handling"
  /\ busy' = [busy EXCEPT ![cur[c]] = FALSE]
  /\ \E dropped \in BOOLEAN :
       stamped' = [stamped EXCEPT ![cur[c]] = @ \/ ~dropped]
  /\ \/ Goto(c, "remove") /\ UNCHANGED cur
     \/ Goto(c, NextPacket(c)) /\ cur' = [cur EXCEPT ![c] = NoStream]
  /\ UNCHANGED <<closed, streamTimer, more, stream, connVars, deadline,
                 timerVars>>

-------------------------------------------------------------------------------
(* removeStream, called by the read loop with its local stream             *)

\* The compare-and-swap: it fails when another stream has been bound since.
RemoveStream(c) ==
  /\ pc[c] \in {"expired", "remove"}
  /\ IF StillBound(c)
       THEN /\ stream' = [stream EXCEPT ![c] = NoStream]
            /\ Goto(c, "drop")
            /\ UNCHANGED cur
       ELSE /\ Goto(c, NextPacket(c))
            /\ cur' = [cur EXCEPT ![c] = NoStream]
            /\ UNCHANGED stream
  /\ UNCHANGED <<streamVars, more, connVars, deadline, timerVars>>

\* closeStream, then the choice between closing the connection and keeping it.
DropStream(c) ==
  /\ pc[c] = "drop"
  /\ CloseStream(cur[c])
  /\ cur' = [cur EXCEPT ![c] = NoStream]
  /\ IF CloseOnStreamClosed /\ cur[c] \notin KeepConn
       THEN Goto(c, "close") /\ more' = [more EXCEPT ![c] = 0]
       ELSE Goto(c, "rearm") /\ UNCHANGED more
  /\ UNCHANGED <<busy, stamped, streamTimer, stream, connVars, deadline,
                 timerVars>>

\* The idle timer of a connection left without a stream.
RearmTimer(c) ==
  /\ pc[c] = "rearm"
  /\ ConnFree(c)
  /\ IF connFlag[c] THEN UNCHANGED <<chanTimer, early>> ELSE InitChanTimer(c)
  /\ Goto(c, NextPacket(c))
  /\ UNCHANGED <<streamVars, cur, more, stream, connVars, deadline, firing>>

-------------------------------------------------------------------------------
(* The end of run()                                                        *)

\* c.Close and return.
CloseAndExit(c) == pc[c] = "close" /\ CloseConn(c) /\ ExitLoop(c)

\* conn.SetClosed: from here on no stream can be bound.
ExitSetClosed(c) ==
  /\ pc[c] = "exit"
  /\ ConnFree(c)
  /\ connFlag' = [connFlag EXCEPT ![c] = TRUE]
  /\ Goto(c, "swap")
  /\ UNCHANGED <<streamVars, cur, more, stream, displaced, socket, deadline,
                 timerVars>>

ExitSwap(c) ==
  /\ pc[c] = "swap"
  /\ stream' = [stream EXCEPT ![c] = NoStream]
  /\ cur' = [cur EXCEPT ![c] = stream[c]]
  /\ Goto(c, IF stream[c] = NoStream THEN "return" ELSE "exitDrop")
  /\ UNCHANGED <<streamVars, more, connVars, deadline, timerVars>>

ExitDrop(c) ==
  /\ pc[c] = "exitDrop"
  /\ CloseStream(cur[c])
  /\ cur' = [cur EXCEPT ![c] = NoStream]
  /\ Goto(c, "return")
  /\ UNCHANGED <<busy, stamped, streamTimer, more, stream, connVars, deadline,
                 timerVars>>

Return(c) ==
  /\ pc[c] = "return"
  /\ chanTimer' = [chanTimer EXCEPT ![c] = "off"]
  /\ Goto(c, "returned")
  /\ UNCHANGED <<streamVars, cur, more, stream, connVars, deadline, firing, early>>

-------------------------------------------------------------------------------
(* Steps other goroutines take on a channel                                *)

\* bindStream up to the swap: the lock of c.conn stays held while the old
\* stream, if any, is closed.
BindStream(c, s) ==
  /\ Bindable(c)
  /\ StopStreamTimer(s)
  /\ chanTimer' = [chanTimer EXCEPT ![c] = "off"]
  /\ stream' = [stream EXCEPT ![c] = s]
  /\ displaced' = [displaced EXCEPT ![c] = stream[c]]
  /\ UNCHANGED <<closed, busy, stamped, loopVars, connFlag, socket, deadline,
                 firing, early>>

\* bindStream closes the stream it displaced and unlocks.
CloseDisplaced(c) ==
  /\ displaced[c] # NoStream
  /\ CloseStream(displaced[c])
  /\ displaced' = [displaced EXCEPT ![c] = NoStream]
  /\ UNCHANGED <<busy, stamped, streamTimer, loopVars, stream, connFlag,
                 socket, deadline, timerVars>>

\* The idle timer expires.  Nothing keeps the option from being so short that
\* this comes before the channel is started.
ChannelTimerFires(c) ==
  /\ chanTimer[c] = "pending"
  /\ chanTimer' = [chanTimer EXCEPT ![c] = "spent"]
  /\ firing' = [firing EXCEPT ![c] = TRUE]
  /\ UNCHANGED <<streamVars, loopVars, stream, connVars, deadline, early>>

\* Its callback closes the channel, whatever has been bound meanwhile, and then
\* clears the timer, which on a closed channel nobody arms again.  Close of a
\* channel that has not been started does nothing.
TimerCloses(c) ==
  /\ firing[c]
  /\ firing' = [firing EXCEPT ![c] = FALSE]
  /\ \/ /\ pc[c] # "created"
        /\ CloseConn(c)
        /\ chanTimer' = [chanTimer EXCEPT ![c] = "off"]
        /\ UNCHANGED early
     \/ /\ pc[c] = "created"
        /\ early' = [early EXCEPT ![c] = "clearing"]
        /\ UNCHANGED <<connVars, chanTimer>>
  /\ UNCHANGED <<streamVars, loopVars, stream, deadline>>

\* Such a callback clears the timer in its own time, one armed since as well.
TimerClears(c) ==
  /\ early[c] = "clearing"
  /\ early' = [early EXCEPT ![c] = "cleared"]
  /\ chanTimer' = [chanTimer EXCEPT ![c] = "off"]
  /\ UNCHANGED <<streamVars, loopVars, stream, connVars, deadline, firing>>

\* Close called by the user of the package, or by the server that stops.
CloseChannel(c) ==
  /\ Started(c)
  /\ ~connFlag[c]
  /\ CloseConn(c)
  /\ UNCHANGED <<streamVars, loopVars, stream, deadline, timerVars>>

-------------------------------------------------------------------------------
\* Steps the goroutine of c takes of itself, with nothing to wait for but a
\* lock, a closed socket or a deadline.
RunSteps(c) ==
  \/ ReadBegin(c) \/ DeadlinePasses(c) \/ ReadTimeout(c)
  \/ (socket[c] = "closed" /\ ReadEnds(c))
  \/ ParseIncomplete(c) \/ ParseForStream(c) \/ ParseWithoutStream(c)
  \/ HandleEnter(c) \/ HandleLeave(c)
  \/ RemoveStream(c) \/ DropStream(c) \/ RearmTimer(c)
  \/ CloseAndExit(c) \/ ExitSetClosed(c) \/ ExitSwap(c) \/ ExitDrop(c)
  \/ Return(c)

\* Steps that the peer, the memory pool or the error budget decide.
PeerSteps(c) ==
  ReadData(c) \/ ReadEnds(c) \/ ReadBufferFails(c) \/ ParseRefused(c)

ChannelNext(c) == RunSteps(c) \/ PeerSteps(c)
===============================================================================
