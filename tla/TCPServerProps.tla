----------------------------- MODULE TCPServerProps -----------------------------
(* What must hold of the TCP server and its channels. *)
EXTENDS TCPServer, FiniteSets

Open(s) == bpc[s] \notin {"new", "refused"} /\ ~closed[s]

\* The nil pointers the code would follow: a local variable that is about to
\* be used holds a stream, a channel or a listener.
NoNilUse ==
  /\ \A c \in Channels :
       /\ pc[c] \in {"expired", "handle", "handling", "remove", "drop", "exitDrop"}
            => cur[c] # NoStream
       /\ pc[c] = "dispatch" => more[c] > 0
  /\ spc \in {"publish", "idleTimer", "handoff", "displacing", "start"}
       => acur # NoChannel
  /\ spc = "handoff" => inflight # NoStream
  /\ spc \in {"accept", "publish", "idleTimer", "handoff", "displacing", "start",
             "setClosed"} => listening
  /\ \A s \in Streams :
       /\ bpc[s] \in {"toChannel", "displacing", "stamp", "rebind", "closeOld"}
            => lsnLock = s
       /\ bpc[s] \in {"toChannel", "displacing"} => bchan # NoChannel
       /\ bpc[s] = "closeOld" => bold # NoStream

\* Types, and no nil pointer is followed.
TypeOK == ChannelTypeOK /\ ServerTypeOK /\ NoNilUse

(***************************************************************************)
(* Ownership.  At any moment an open stream is in exactly one place, and   *)
(* whoever holds that place is the one who will close it.                  *)
(***************************************************************************)
Serves(c) == pc[c] \notin {"exitDrop", "return", "returned", "closed"}

Holding(s) ==
  {<<"map", a>> : a \in {x \in Addrs : strMap[x] = s}}
  \cup {<<"channel", c>> : c \in {x \in Channels : stream[x] = s /\ Serves(x)}}
  \cup {<<"displaced", c>> : c \in {x \in Channels : displaced[x] = s}}
  \cup {<<"dropping", c>> : c \in {x \in Channels :
                               pc[x] \in {"drop", "exitDrop"} /\ cur[x] = s}}
  \cup {<<"accepting">> : x \in {y \in {s} : inflight = y}}
  \cup {<<"binding">> : x \in {y \in {s} : bpc[y] \in {"toChannel", "rebind"}}}
  \cup {<<"replaced">> : x \in {y \in {s} : bold = y}}
  \cup {<<"removed">> : x \in {y \in {s} : y \in removed}}

\* No stream is dropped on the floor: whatever the interleaving of Stream(),
\* the accept loop, the read loops, the timers and the shutdown, an open stream
\* is somewhere from which it will be closed (tcp-server.go bindStream, run,
\* removeStream; tcp-channel.go bindStream, removeStream, run).
NoStreamLost == \A s \in Streams : Open(s) => Holding(s) # {}

\* No stream is in two places, and a closed one is in none: two channels, or a
\* channel and the server, never both serve or both close one stream.
SingleOwner == \A s \in Streams : Cardinality(Holding(s)) <= IF Open(s) THEN 1 ELSE 0

\* bindStream stops the timer of a stream the server managed before it gives
\* the stream to a channel (tcp-channel.go:323): no timer of the server is
\* armed for a stream that a channel serves.
BoundStreamHasNoServerTimer ==
  \A c \in Channels : stream[c] # NoStream => streamTimer[stream[c]] = NoStream

Idle(c) == pc[c] = "wait" /\ stream[c] = NoStream /\ ~connFlag[c]

Guarded(c) == chanTimer[c] = "pending" \/ firing[c]

\* A connection that serves no stream and waits for data has its idle timer
\* running, unless it is already being closed (tcp-server.go:305,
\* tcp-channel.go:348).  The one exception is a timer so short that it ran out
\* before its channel was started (tcp-server.go:317): the callback closes
\* nothing and may clear the timer that a removed stream has left armed.
IdleChannelGuarded ==
  ChannelTimeout => \A c \in Channels : Idle(c) => Guarded(c) \/ early[c] # "no"

\* The hand-over of a waiting stream to the channel just accepted never meets
\* a closed channel (tcp-server.go:300 claims it, and ignores the result).
HandOffNotRefused == spc = "handoff" => ~connFlag[acur]

\* A later connection from the address of c has taken its place in the map.
Superseded(c) ==
  \E d \in Channels : d > c /\ AddrOf[d] = AddrOf[c] /\ pc[d] # "none"

OnSuperseded(s) ==
  \E c \in Channels : Superseded(c) /\ s \in {stream[c], displaced[c], cur[c]}

\* When the server has stopped, no stream is left open except one that a
\* removeStream is about to close and one on a connection that a later one of
\* the same address has pushed out of the map, which shutdown does not see
\* (tcp-server.go:257).
ShutdownComplete ==
  spc = "done" => \A s \in Streams : Open(s) =>
    s \in removed \/ OnSuperseded(s)

\* A running connection can be found under its address, and so be given a
\* stream and be closed by shutdown, unless a later one has replaced it.
RunningChannelListed ==
  \A c \in Channels : Started(c) =>
    chanMap[AddrOf[c]] = c \/ Superseded(c)

\* From the map to the stream: a running channel is found and one that has
\* been accepted is open when its stream is handed over, so that neither a
\* Stream() nor the accept loop binds to nothing.
ChannelsInReach == RunningChannelListed /\ HandOffNotRefused

\* The callbacks of every stream keep the contract of a Handler.
Phase == [s \in Streams |-> IF closed[s] THEN "closed"
                            ELSE IF bpc[s] \in {"new", "refused"} THEN bpc[s]
                            ELSE "open"]

Contract == INSTANCE StreamContract WITH phase <- Phase

HandlerContract == Contract!CSpec

-------------------------------------------------------------------------------
(* Liveness, under FairSpec. *)

\* A server told to close stops: the accept loop, the drain and the wait for
\* the channels all come to an end.
CloseTerminates == lsnFlag ~> spc = "done"

\* Shutdown reaches the handlers: in the end every stream has been told it is
\* closed, except one on a connection that a later one of the same address has
\* pushed out of the map: shutdown neither closes that connection nor waits for
\* it (tcp-server.go:257).
StreamsClosedAtShutdown ==
  lsnFlag ~> \A s \in Streams : Open(s) => OnSuperseded(s)

-------------------------------------------------------------------------------
(* What the repository says of itself and the code does not keep.          *)
(* README.md, section 3, names the instance that refutes each.             *)

\* tools/rtp-tcp-receiver/main.go:57, tools/rtp-dumper/rtp-dumper.go:66: a
\* timeout of 0 means that the stream never times out.
TimeoutZeroNeverExpires ==
  \A c \in Channels : pc[c] = "expired" => cur[c] \in Timed

\* tcp-server.go:353: the time of a stream bound to a channel is set, for the
\* timeout to be judged by; no stream is timed out by the zero time.
FreshStreamNotExpired ==
  \A c \in Channels : pc[c] = "expired" /\ cur[c] \in Timed => stamped[cur[c]]

\* tcp-server.go:304: the timer of a channel is for a channel no stream matches.
ChannelTimerOnlyWithoutStream ==
  \A c \in Channels : chanTimer[c] = "pending" => stream[c] = NoStream

\* tcp-server.go:304 again: the timer deals with the timeout of a channel no
\* stream matches, so that none stays without a stream for ever.
IdleChannelAlwaysGuarded ==
  ChannelTimeout => \A c \in Channels : Idle(c) => Guarded(c)

\* tcp-server.go:239: each stream added before the start gets its own
\* expiration timer.
StreamTimerTargetsOwnStream ==
  \A s \in Streams : streamTimer[s] \in {s, NoStream}

\* tcp-server.go:251: a start is refused because the server is closed.
StartRefusedOnlyWhenClosed == spc = "failed" => lsnFlag

\* tcp-channel.go:209: a channel without a connection has had it closed.
ConnGoneMeansClosed ==
  \A c \in Channels :
    pc[c] \in {"swap", "exitDrop", "return", "returned", "closed"}
      => socket[c] = "closed"

\* tcp-server.go:353 again: the timeout of a bound stream is judged, so a read
\* loop does not wait for ever on a silent peer with a timed stream bound.
SilentStreamTimesOut ==
  \A c \in Channels : []<>~(pc[c] = "wait" /\ stream[c] \in Timed)
=================================================================================
