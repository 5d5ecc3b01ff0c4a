------------------------------- MODULE TCPServer -------------------------------
(***************************************************************************)
(* The TCP server (src/server/tcp-server.go) composed with its channels:   *)
(* the accept loop, Stream() called by users of the package, the timers of *)
(* the streams that wait for their connection, and the shutdown.           *)
(*                                                                         *)
(* Locks.  listener's mutex is held by Stream() from its first step to its *)
(* last (lsnLock names the stream it is for); s.mu protects the two maps,  *)
(* its sections are single actions except the one that drains the streams  *)
(* at shutdown, which lasts while spc = "drain".                           *)
(***************************************************************************)
EXTENDS TCPChannel

CONSTANTS
  Addrs,      \* remote addresses
  AddrOf,     \* the address of a stream or a connection (the id addrID)
  NoChannel,  \* the nil *TCPChannel
  Overlap,    \* whether an address may connect again before the channel of
              \*   its last connection has ended
  Preset      \* built by NewTCPServerWithListener

ASSUME ServerAssumption ==
  /\ Channels \subseteq Nat      \* numbered in the order they are accepted
  /\ AddrOf \in [Streams \cup Channels -> Addrs]
  /\ NoChannel \notin Channels
  /\ Overlap \in BOOLEAN
  /\ Preset \in BOOLEAN

VARIABLES
  spc,        \* where the server's goroutine is
  acur,       \* its local variable ch
  inflight,   \* its local variable stream: taken from the map, not yet bound
  snapshot,   \* its local variable channels, in the deferred shutdown
  listening,  \* s.listener holds a listener
  lsnFlag,    \* s.listener.close
  lsnLock,    \* the stream whose Stream() holds s.listener's mutex
  bpc,        \* bpc[s]: where the call Stream() for s is
  bchan,      \* local variable channel of the call that holds lsnLock
  bold,       \* local variable old of the call that holds lsnLock
  chanMap,    \* s.channels
  strMap,     \* s.streams
  removed     \* streams a removeStream has deleted and not yet closed

acceptVars == <<spc, acur, inflight, snapshot>>
lsnVars    == <<listening, lsnFlag, lsnLock>>
bindVars   == <<bpc, bchan, bold>>
mapVars    == <<chanMap, strMap, removed>>
vars       == <<channelVars, acceptVars, lsnVars, bindVars, mapVars>>

SPCs == {"idle", "failed", "accept", "publish", "idleTimer", "handoff",
         "displacing", "start", "setClosed", "drain", "closing", "done"}
BPCs == {"new", "toChannel", "displacing", "stamp", "rebind", "closeOld",
         "bound", "refused"}

ServerTypeOK ==
  /\ spc \in SPCs
  /\ acur \in Channels \cup {NoChannel}
  /\ inflight \in StreamOrNil
  /\ snapshot \in SUBSET Channels
  /\ listening \in BOOLEAN
  /\ lsnFlag \in BOOLEAN
  /\ lsnLock \in StreamOrNil
  /\ bpc \in [Streams -> BPCs]
  /\ bchan \in Channels \cup {NoChannel}
  /\ bold \in StreamOrNil
  /\ chanMap \in [Addrs -> Channels \cup {NoChannel}]
  /\ strMap \in [Addrs -> StreamOrNil]
  /\ removed \in SUBSET Streams

\* A listener given to NewTCPServerWithListener is there from the start.
Init ==
  /\ ChannelInit
  /\ spc = "idle"
  /\ acur = NoChannel
  /\ inflight = NoStream
  /\ snapshot = {}
  /\ listening = Preset
  /\ lsnFlag = FALSE
  /\ lsnLock = NoStream
  /\ bpc = [s \in Streams |-> "new"]
  /\ bchan = NoChannel
  /\ bold = NoStream
  /\ chanMap = [a \in Addrs |-> NoChannel]
  /\ strMap = [a \in Addrs |-> NoStream]
  /\ removed = {}

-------------------------------------------------------------------------------
(* Helpers.                                                                *)

MuFree  == spc # "drain"
LsnFree == lsnLock = NoStream

\* InitUnlock of the listener.
InitRefused == lsnFlag \/ listening

Mapped(s) == strMap[AddrOf[s]] = s

InitStreamTimer(s, target) ==
  /\ stamped' = [stamped EXCEPT ![s] = TRUE]
  /\ streamTimer' = [streamTimer EXCEPT ![s] =
       IF s \in Timed /\ @ = NoStream THEN target ELSE @]

\* mutant: the handler is not told.
ServerCloseStreamMute(s) == StopStreamTimer(s) /\ UNCHANGED <<closed, busy, stamped>>

\* closeStream of the server: it also stops the timer of the stream.
ServerCloseStream(s) ==
  /\ CloseStream(s)
  /\ StopStreamTimer(s)
  /\ UNCHANGED <<busy, stamped>>

MapWithoutAddr(c) == [chanMap EXCEPT ![AddrOf[c]] = NoChannel]       \* mutant
\* The map without c, unless another channel has taken its place.
MapWithout(c) ==
  [chanMap EXCEPT ![AddrOf[c]] = IF @ = c THEN NoChannel ELSE @]

ServerGoto(label) == spc' = label

BindGoto(s, label) == bpc' = [bpc EXCEPT ![s] = label]

\* Stream() returns: the listener's mutex and the local variables go.
BindReturns(s, label) ==
  /\ BindGoto(s, label)
  /\ lsnLock' = NoStream
  /\ bchan' = NoChannel
  /\ bold' = NoStream
  /\ UNCHANGED <<listening, lsnFlag>>

-------------------------------------------------------------------------------
(* start()                                                                 *)

\* Init of the listener.  The closures armed in the loop over s.streams share
\* its variable, which ends on the stream the iteration visits last.
Start ==
  /\ spc = "idle"
  /\ LsnFree
  /\ IF InitRefused
       THEN ServerGoto("failed") /\ UNCHANGED <<listening, stamped, streamTimer>>
       ELSE /\ ServerGoto("accept")
            /\ listening' = TRUE
            /\ LET held == {s \in Streams : Mapped(s)}
               IN IF held = {}
                    THEN UNCHANGED <<stamped, streamTimer>>
                    ELSE \E last \in held :
                      /\ stamped' = [s \in Streams |->
                           IF s \in held THEN TRUE ELSE stamped[s]]
                      /\ streamTimer' = [s \in Streams |->
                           IF s \in held \cap Timed /\ streamTimer[s] = NoStream
                             THEN last ELSE streamTimer[s]]
  /\ UNCHANGED <<closed, busy, loopVars, stream, connVars, deadline, timerVars,
                 acur, inflight, snapshot, lsnFlag, lsnLock, bindVars, mapVars>>

-------------------------------------------------------------------------------
(* bindStream of the server, called by Stream()                            *)

BindRefused(s) ==
  /\ bpc[s] = "new"
  /\ LsnFree
  /\ lsnFlag
  /\ BindGoto(s, "refused")
  /\ UNCHANGED <<channelVars, acceptVars, lsnVars, bchan, bold, mapVars>>

\* bindToServer under s.mu: the stream waits in the map for its connection,
\* and the one it replaces there is closed next.
PutInServer(s) ==
  LET old == strMap[AddrOf[s]]
  IN /\ strMap' = [strMap EXCEPT ![AddrOf[s]] = s]
     /\ IF listening THEN InitStreamTimer(s, s)
                     ELSE UNCHANGED <<stamped, streamTimer>>
     /\ IF old = NoStream
          THEN BindReturns(s, "bound")
          ELSE /\ BindGoto(s, "closeOld")
               /\ lsnLock' = s
               /\ bold' = old
               /\ bchan' = NoChannel
               /\ UNCHANGED <<listening, lsnFlag>>
     /\ UNCHANGED <<closed, busy, loopVars, stream, connVars, deadline,
                    timerVars, acceptVars, chanMap, removed>>

BindToServer(s) ==
  /\ bpc[s] = "new"
  /\ LsnFree
  /\ ~lsnFlag
  /\ MuFree
  /\ chanMap[AddrOf[s]] = NoChannel
  /\ PutInServer(s)

BindFindChannel(s) ==
  /\ bpc[s] = "new"
  /\ LsnFree
  /\ ~lsnFlag
  /\ MuFree
  /\ chanMap[AddrOf[s]] # NoChannel
  /\ bchan' = chanMap[AddrOf[s]]
  /\ lsnLock' = s
  /\ BindGoto(s, "toChannel")
  /\ UNCHANGED <<channelVars, acceptVars, listening, lsnFlag, bold, mapVars>>

BindToChannel(s) ==
  /\ bpc[s] = "toChannel"
  /\ BindStream(bchan, s)
  /\ BindGoto(s, IF stream[bchan] = NoStream THEN "stamp" ELSE "displacing")
  /\ UNCHANGED <<acceptVars, lsnVars, bchan, bold, mapVars>>

\* The channel has been closed since it was found in the map.
BindToChannelRefused(s) ==
  /\ bpc[s] = "toChannel"
  /\ ConnFree(bchan)
  /\ connFlag[bchan]
  /\ BindGoto(s, "rebind")
  /\ UNCHANGED <<channelVars, acceptVars, lsnVars, bchan, bold, mapVars>>

BindDisplaces(s) ==
  /\ bpc[s] = "displacing"
  /\ CloseDisplaced(bchan)
  /\ BindGoto(s, "stamp")
  /\ UNCHANGED <<acceptVars, lsnVars, bchan, bold, mapVars>>

\* The time of the timer is set after the stream has been published.
BindSetTime(s) ==
  /\ bpc[s] = "stamp"
  /\ stamped' = [stamped EXCEPT ![s] = TRUE]
  /\ BindReturns(s, "bound")
  /\ UNCHANGED <<closed, busy, streamTimer, loopVars, stream, connVars,
                 deadline, timerVars, acceptVars, mapVars>>

RebindToServer(s) == bpc[s] = "rebind" /\ MuFree /\ PutInServer(s)

BindClosesOld(s) ==
  /\ bpc[s] = "closeOld"
  /\ ServerCloseStream(bold)
  /\ BindReturns(s, "bound")
  /\ UNCHANGED <<loopVars, stream, connVars, deadline, timerVars, acceptVars,
                 mapVars>>

-------------------------------------------------------------------------------
(* The accept loop of run()                                                *)

\* AcceptTCP returns a connection and newChannel wraps it.
Accept(c) ==
  /\ spc = "accept"
  /\ ~lsnFlag
  /\ pc[c] = "none"
  /\ \A d \in Channels : d < c => pc[d] # "none"
  /\ \A d \in Channels : \/ Overlap
                         \/ AddrOf[d] # AddrOf[c]
                         \/ pc[d] \in {"none", "closed"}
  /\ Goto(c, "created")
  /\ socket' = [socket EXCEPT ![c] = "open"]
  /\ acur' = c
  /\ ServerGoto("publish")
  /\ UNCHANGED <<streamVars, cur, more, stream, displaced, connFlag, deadline,
                 timerVars, inflight, snapshot, lsnVars, bindVars, mapVars>>

\* The section that lists the channel and takes the stream that waits for it.
Publish ==
  LET a == AddrOf[acur]
  IN /\ spc = "publish"
     /\ chanMap' = [chanMap EXCEPT ![a] = acur]
     /\ inflight' = strMap[a]
     /\ strMap' = [strMap EXCEPT ![a] = NoStream]
     /\ ServerGoto(IF strMap[a] = NoStream THEN "idleTimer" ELSE "handoff")
     /\ UNCHANGED <<channelVars, acur, snapshot, lsnVars, bindVars, removed>>

\* No stream waited for the channel.  Stream() may have bound one since.
InitIdleTimer ==
  /\ spc = "idleTimer"
  /\ InitChanTimer(acur)
  /\ ServerGoto("start")
  /\ UNCHANGED <<streamVars, loopVars, stream, connVars, deadline, firing,
                 acur, inflight, snapshot, lsnVars, bindVars, mapVars>>

HandOff ==
  /\ spc = "handoff"
  /\ BindStream(acur, inflight)
  /\ inflight' = NoStream
  /\ ServerGoto(IF stream[acur] = NoStream THEN "start" ELSE "displacing")
  /\ UNCHANGED <<acur, snapshot, lsnVars, bindVars, mapVars>>

HandOffDisplaces ==
  /\ spc = "displacing"
  /\ CloseDisplaced(acur)
  /\ ServerGoto("start")
  /\ UNCHANGED <<acur, inflight, snapshot, lsnVars, bindVars, mapVars>>

\* OnClosed registers the clean-up that Unlist does; Start runs the channel.
StartChannel ==
  /\ spc = "start"
  /\ Goto(acur, "load")
  /\ acur' = NoChannel
  /\ ServerGoto("accept")
  /\ UNCHANGED <<streamVars, cur, more, stream, connVars, deadline, timerVars,
                 inflight, snapshot, lsnVars, bindVars, mapVars>>

\* The deferred clean-up of a channel that has ended: it leaves the map
\* unless another channel has taken its place there.
Unlist(c) ==
  /\ pc[c] = "returned"
  /\ MuFree
  /\ Goto(c, "closed")
  /\ chanMap' = MapWithout(c)
  /\ UNCHANGED <<streamVars, cur, more, stream, connVars, deadline, timerVars,
                 acceptVars, lsnVars, bindVars, strMap, removed>>

\* AcceptTCP fails: the listener was closed, or any other error.
AcceptEnds ==
  /\ spc = "accept"
  /\ ServerGoto("setClosed")
  /\ UNCHANGED <<channelVars, acur, inflight, snapshot, lsnVars, bindVars,
                 mapVars>>

-------------------------------------------------------------------------------
(* The deferred shutdown of run()                                          *)

\* mutant: an accept loop that ends by itself leaves the flag alone.
SetClosedForgotten ==
  /\ spc = "setClosed"
  /\ LsnFree
  /\ listening' = FALSE
  /\ ServerGoto("drain")
  /\ UNCHANGED <<channelVars, acur, inflight, snapshot, lsnFlag, lsnLock,
                 bindVars, mapVars>>

\* listener.SetClosed, then s.mu is taken.
SetClosed ==
  /\ spc = "setClosed"
  /\ LsnFree
  /\ lsnFlag' = TRUE
  /\ listening' = FALSE
  /\ ServerGoto("drain")
  /\ UNCHANGED <<channelVars, acur, inflight, snapshot, lsnLock, bindVars,
                 mapVars>>

DrainStream(a) ==
  /\ spc = "drain"
  /\ strMap[a] # NoStream
  /\ ServerCloseStream(strMap[a])
  /\ strMap' = [strMap EXCEPT ![a] = NoStream]
  /\ UNCHANGED <<loopVars, stream, connVars, deadline, timerVars, acceptVars,
                 lsnVars, bindVars, chanMap, removed>>

\* The channels still listed; s.mu is released.
TakeSnapshot ==
  /\ spc = "drain"
  /\ \A a \in Addrs : strMap[a] = NoStream
  /\ snapshot' = {c \in Channels : chanMap[AddrOf[c]] = c}
  /\ ServerGoto("closing")
  /\ UNCHANGED <<channelVars, acur, inflight, lsnVars, bindVars, mapVars>>

\* channel.Close for each of them; on a channel that is closed it does nothing.
ShutdownChannel(c) ==
  /\ spc = "closing"
  /\ c \in snapshot
  /\ CloseChannel(c)
  /\ UNCHANGED <<acceptVars, lsnVars, bindVars, mapVars>>

\* ClosedWaiter of each of them.
Shutdown ==
  /\ spc = "closing"
  /\ \A c \in snapshot : pc[c] \in {"returned", "closed"}
  /\ snapshot' = {}
  /\ ServerGoto("done")
  /\ UNCHANGED <<channelVars, acur, inflight, lsnVars, bindVars, mapVars>>

-------------------------------------------------------------------------------
(* removeStream of the server, from a timer or from RemoveStream           *)

\* mutant: removes by address, whichever stream waits there, or none.
DeleteStreamUnchecked(t) ==
  /\ strMap' = [strMap EXCEPT ![AddrOf[t]] = NoStream]
  /\ removed' = removed \cup {t}
\* The section under s.mu: only a stream that still waits is removed.
DeleteStream(t) ==
  IF Mapped(t)
    THEN /\ strMap' = [strMap EXCEPT ![AddrOf[t]] = NoStream]
         /\ removed' = removed \cup {t}
    ELSE UNCHANGED <<strMap, removed>>

\* RemoveStream by the user.  No channel is ever stored in stream.channel, so
\* for a stream bound to a channel it does nothing.
UserRemoves(s) ==
  /\ bpc[s] = "bound"
  /\ MuFree
  /\ Mapped(s)
  /\ DeleteStream(s)
  /\ UNCHANGED <<channelVars, acceptVars, lsnVars, bindVars, chanMap>>

\* The timer of s fires: the callback removes its target and clears the timer.
StreamTimeout(s) ==
  /\ streamTimer[s] # NoStream
  /\ MuFree
  /\ DeleteStream(streamTimer[s])
  /\ streamTimer' = [streamTimer EXCEPT ![s] = NoStream]
  /\ UNCHANGED <<closed, busy, stamped, loopVars, stream, connVars, deadline,
                 timerVars, acceptVars, lsnVars, bindVars, chanMap>>

CloseRemoved(s) ==
  /\ s \in removed
  /\ ServerCloseStream(s)
  /\ removed' = removed \ {s}
  /\ UNCHANGED <<loopVars, stream, connVars, deadline, timerVars, acceptVars,
                 lsnVars, bindVars, chanMap, strMap>>

-------------------------------------------------------------------------------
(* Close by the user, of the server and of a channel                       *)

UserClosesServer ==
  /\ spc \notin {"idle", "failed"}
  /\ LsnFree
  /\ ~lsnFlag
  /\ lsnFlag' = TRUE
  /\ UNCHANGED <<channelVars, acceptVars, listening, lsnLock, bindVars, mapVars>>

UserClosesChannel(c) ==
  /\ CloseChannel(c)
  /\ UNCHANGED <<acceptVars, lsnVars, bindVars, mapVars>>

-------------------------------------------------------------------------------
serverVars == <<acceptVars, lsnVars, bindVars, mapVars>>

BindSteps(s) ==
  \/ BindToChannel(s) \/ BindToChannelRefused(s) \/ BindDisplaces(s)
  \/ BindSetTime(s) \/ RebindToServer(s) \/ BindClosesOld(s)

AcceptSteps ==
  \/ Publish \/ InitIdleTimer \/ HandOff \/ HandOffDisplaces \/ StartChannel
  \/ (lsnFlag /\ AcceptEnds)
  \/ SetClosed \/ TakeSnapshot \/ Shutdown
  \/ \E a \in Addrs : DrainStream(a)
  \/ \E c \in Channels : ShutdownChannel(c)

\* Nothing is left to do: no call of Stream() can start or is under way, and
\* every goroutine has ended.
Terminated ==
  /\ spc \in {"failed", "done"}
  /\ \A s \in Streams : bpc[s] \in {"bound", "refused"} /\ streamTimer[s] = NoStream
  /\ \A c \in Channels : /\ pc[c] \in {"none", "closed"}
                         /\ ~firing[c] /\ early[c] # "clearing"
  /\ removed = {}
  /\ UNCHANGED vars

StreamNext(s) ==
  \/ BindRefused(s) \/ BindToServer(s) \/ BindFindChannel(s) \/ BindSteps(s)
  \/ UserRemoves(s) \/ StreamTimeout(s) \/ CloseRemoved(s)

ServerNext ==
  \/ Start \/ AcceptEnds \/ UserClosesServer
  \/ \E c \in Channels : Accept(c)
  \/ AcceptSteps

ChannelsNext(c) ==
  \/ ChannelNext(c) /\ UNCHANGED serverVars
  \/ ChannelTimerFires(c) /\ UNCHANGED serverVars
  \/ TimerCloses(c) /\ UNCHANGED serverVars
  \/ TimerClears(c) /\ UNCHANGED serverVars
  \/ UserClosesChannel(c)
  \/ Unlist(c)

Next ==
  \/ ServerNext
  \/ \E s \in Streams : StreamNext(s)
  \/ \E c \in Channels : ChannelsNext(c)
  \/ Terminated

Spec == Init /\ [][Next]_vars

(***************************************************************************)
(* Fairness: each goroutine that is not waiting for the peer, the user or  *)
(* the handler's answer goes on; handlers return; time passes.  Nothing is *)
(* assumed of the peer, of new connections or of the users.  The steps of  *)
(* one timer share a condition: none of them can happen for ever.          *)
(***************************************************************************)
LoopSteps(c) == (RunSteps(c) /\ UNCHANGED serverVars) \/ Unlist(c)

IdleTimerSteps(c) == /\ ChannelTimerFires(c) \/ TimerCloses(c) \/ TimerClears(c)
                     /\ UNCHANGED serverVars

Fairness ==
  /\ WF_vars(AcceptSteps)
  /\ \A s \in Streams : /\ WF_vars(BindSteps(s))
                        /\ WF_vars(StreamTimeout(s) \/ CloseRemoved(s))
  /\ \A c \in Channels : WF_vars(LoopSteps(c)) /\ WF_vars(IdleTimerSteps(c))

FairSpec == Spec /\ Fairness
===============================================================================
