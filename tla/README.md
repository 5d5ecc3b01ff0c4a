# Verification of go-rtp

`go-rtp` receives RTP over TCP and UDP, hands the packets of each *stream* to a
handler, and assembles them into frames. This directory holds TLA+ modules that
model its servers, streams, timers, packets and frames, TLC configurations that
check them on small instances, and TLAPS proofs of theorems about them. Source paths below are
relative to `src/`.

## 1. The system

### Components

| component | state | operations | what makes it correct |
|---|---|---|---|
| TCP server, `server/tcp-server.go` | listener (closable wrapper), `streams` and `channels` by remote address under `mu` | `start`, `run` (accept loop and deferred shutdown), `close`, `Stream`, `RemoveStream` | a registered stream is always held by exactly one party that will close it; shutdown leaves nothing open and terminates |
| TCP channel, `server/tcp-channel.go` | connection (closable wrapper), atomic `stream`, idle timer, parser | `run`/`read` (goroutine), `bindStream`, `removeStream`, `Close`, `Send` | a stream displaced while the loop uses it is closed once, by one side; no stream bound after the end |
| streams and handlers, `server/stream.go`, `tcp-stream.go`, `udp-stream.go`, `handler.go` | `handlerLock`, `closed`, latched remote address and SSRC, last sequence number, counters, timer | `HandlePacket`, `OnParseError`, `OnStreamClosed`, `Close`, setters | one callback at a time; `OnStreamClosed` once and last; foreign packets filtered; loss count |
| closable wrapper, `server/closable-wrapper.go` | pointer, `close` flag, mutex | `InitUnlock`, `CloseUnlock`, `SetClosed`, `Reset` | what is closed stays closed, nothing is created after |
| timeout timer, `server/timeout-timer.go` | timeout, last time, `*time.Timer` | `Init`, `Deadline`, `SetTime`, `SetTimeout`, `Close` | expires only what is idle, and in the end; nothing fires that cannot be stopped |
| UDP server, `server/udp-server.go` | listener, atomic `stream`, read deadline | `start`, `run`, `read`, `Stream`, `RemoveStream`, `close` | as the TCP channel, with the server as the only owner |
| manager, `server/manager.go` | ring of contexts, one per port; per context the server, `used`, `state` flags under its mutex | `run`, `Alloc`, `Free` | a server is started by one call at a time, shared by at most `serverMaxUsed` users and up only while used; stopping reaches every server |
| keep chooser, `server/keep-chooser.go` | queue of error times, run of consecutive errors | `OnSuccess`, `OnError`, `Reset` | tolerates exactly so many errors a second and in a row |
| parser, layer, packet, `rtp/*.go` | bytes wanted and collected, header fields, reference count | setters, `Size`, `WriteTo`, `UnmarshalChunks`, `Parse`, `Read`, `Write`, `AddRef`/`Release` | parsing does not depend on how the bytes are cut; the length in front of a packet is that of its bytes; reference counts balance |
| frames, `frame/frame*.go` | packets of a frame, start and end time, reference count; the frame a handler is assembling; a writer's overrides | `Append`, `SetTimestamp`, `SetPayloadType`, `HandlePacket`, `OnStreamClosed`, `Release`, `WriteTo` | the packets of a frame agree; every packet belongs to one frame and is released once |
| tools, utilities, logger, client | - | command lines, file and I/O helpers | not in scope |

### How they interact

`Stream()` runs in goroutines of the users; one goroutine runs the accept loop
of a TCP server, one more runs the read loop of every accepted connection, and
timers run their callbacks in goroutines of their own. They meet in four
places: the maps of the server (under `s.mu`), the listener (its mutex is held
by `Stream()` from beginning to end), the connection of a channel (its mutex is
held by `bindStream`, `Close` and `SetClosed`), and the atomic pointer
`c.stream`, which the read loop reads and clears *without* a lock. The handler
of a stream is called under the stream's `handlerLock`. Chunks, packets and
frames are taken from pools and reference-counted: the contents of a packet
point into the chunks it was parsed from, a packet keeps these, a frame keeps
its packets, and a user keeps frames for as long as it likes.

A stream registered before its peer connects waits in `s.streams`; the accept
loop moves it to the channel. Registered after, it is bound to the channel found
in `s.channels`, and closes the stream bound there before. If the channel closed
in between, it goes back to wait in the map. Read loop, timers, users and the
shutdown each remove streams from where they find them.

### What is hard

- *Interleavings*: hand-over against `Stream()`, both against the clean-up of a
  channel that ends, and all of them against the shutdown.
- *Stale reads*: the read loop uses a stream it loaded before a blocking read
  or before a callback; `Stream()` uses a channel it found before the lock.
- *Timers*: three kinds (the waiting stream's, the idle channel's, the read
  deadline), armed and stopped in different sections than the ones that decide.
- *Shutdown*: it waits for goroutines that wait for locks and for sockets.
- *Reconnection*: the second connection from an address replaces the first.
- *Ownership*: a packet is released by the loop, its handler, the frame it went
  into or the deferred clean-up, depending on answers and races.
- *Bytes*: chunks are cut anywhere, lengths are truncated to the widths of the
  header, sequence numbers wrap.

`PROJECT.json` lists these hazards at their lines, each with the properties
that would notice; those without a property say why.

## 2. The modules

| module | models | role |
|---|---|---|
| `StreamContract` | what the package promises the handler of a stream (`handler.go`, `abstractStream`) | abstract specification |
| `TCPChannel` | `TCPChannel`, and of a stream: `handlerLock`, `closed`, timer | component: state and actions of read loops |
| `TCPServer` | `TCPServer` composed with its channels, users and timers | the whole: `Init`, `Next`, `Spec`, `FairSpec` |
| `TCPServerProps` | - | invariants, refinement, liveness |
| `UDPServer` | `UDPServer`, its goroutine, its users; of a stream as above | component: one server, the whole of it |
| `UDPServerProps` | - | invariants, refinement of `StreamContract`, liveness; also the instance for TLC |
| `Manager` | `Manager`, its contexts, the goroutines `free` leaves behind | component |
| `ManagerProps` | - | invariants and liveness |
| `TimeoutTimer`, `TimeoutTimerProps` | `timeoutTimer` with its late callbacks | component; properties and instance |
| `KeepChooser` | `defaultKeepChooser` | operators on its queue |
| `StreamDispatch`, `StreamDispatchProps` | `abstractStream.HandlePacket`, `OnParseError`, `OnStreamClosed` and setters, behind a `keepChooserHandler`, and the network | component with the chooser; properties and instance |
| `Layer` | `IncomingLayer`: setters, `Size`, `WriteTo`, `UnmarshalChunks` | operators on a record and bytes |
| `Framing` | `Parser`, `Reader`, `Writer` | operators on their state |
| `Frame` | `IncomingFrame`, `PayloadFrameWriter`, `FullFrameWriter` | operators on their state |
| `Delivery` | what framing promises: all that is sent arrives, in order, as it was | abstract specification |
| `Wire`, `WireProps` | a sender of layers and frames, a byte stream, a receiver | composition of `Layer`, `Framing` and `Frame`; refines `Delivery` |
| `PacketFlow`, `PacketFlowProps` | the loop of `TCPChannel.run`, `IncomingPacket`, `FrameRTPHandler` and pools, by their reference counts | composition: who owns what |
| `MCTCPServer`, `MCManager`, `MCWire`, `MCPacketFlow` | - | instances for TLC |
| `TCPServerProofs` | - | theorems on types, timers and channels in reach, and on streams: the refinement, ownership, shutdown |
| `UDPServerProofs` | - | theorems on types, ownership, shutdown, timeouts and the refinement |
| `ManagerProofs` | - | theorems on types, starts, uses and servers that stay up |
| `TimeoutTimerProofs` | - | theorems on timers that fire |
| `StreamDispatchProofs` | - | theorems on sources, losses and the chooser |
| `PacketFlowProofs` | - | theorems on ownership |
| `WireProofs` | - | theorems on sizes, frames and numbering |
| `DeliveryProofs` | - | theorems on parsing, on writing and parsing back, and the refinement of `Delivery` |

### TCPChannel and TCPServer: state and actions

One action is one access to shared state: an atomic operation, a socket call or
a section under a lock. Control between two accesses touches locals only.

| code | variables |
|---|---|
| goroutine of a channel, local `stream`, parse results left | `pc`, `cur`, `more` |
| `c.stream`; `c.conn.close`; the socket and its deadline; `c.timer` | `stream`; `connFlag`; `socket`, `deadline`; `chanTimer`, `firing`, `early` |
| mutex of `c.conn` while `bindStream` closes the old stream | `displaced` (`NoStream` when free) |
| `handlerLock`, `closed`, `timer.time` set, callback pending | `busy`, `closed`, `stamped`, `streamTimer` |
| goroutine of the server, locals `ch`, `stream`, `channels` | `spc`, `acur`, `inflight`, `snapshot` |
| `s.listener`: present, `close`, mutex | `listening`, `lsnFlag`, `lsnLock` |
| a call of `Stream()`, its locals | `bpc`, `bchan`, `bold` |
| `s.channels`, `s.streams` | `chanMap`, `strMap` |
| streams a `removeStream` has deleted and not yet closed | `removed` |

| code | actions |
|---|---|
| `TCPChannel.read` | `ReadBufferFails`, `ReadBegin`, `DeadlinePasses`, `ReadData`, `ReadTimeout`, `ReadEnds` |
| `TCPChannel.run`, loop | `ParseIncomplete`, `ParseForStream`, `ParseWithoutStream`, `ParseRefused`, `HandleEnter`, `HandleLeave`, `CloseAndExit` |
| `TCPChannel.removeStream` | `RemoveStream`, `DropStream`, `RearmTimer` |
| `TCPChannel.run`, deferred | `ExitSetClosed`, `ExitSwap`, `ExitDrop`, `Return` |
| `TCPChannel.bindStream` | `BindStream`, `CloseDisplaced` |
| `TCPServer.start` | `Start` |
| `TCPServer.run`, loop | `Accept`, `Publish`, `InitIdleTimer`, `HandOff`, `HandOffDisplaces`, `StartChannel`, `AcceptEnds` |
| `TCPServer.run`, `OnClosed` closure | `Unlist` |
| `TCPServer.run`, deferred | `SetClosed`, `DrainStream`, `TakeSnapshot`, `ShutdownChannel`, `Shutdown` |
| `TCPServer.bindStream`, `Stream` | `BindRefused`, `BindToServer`, `BindFindChannel`, `BindToChannel`, `BindToChannelRefused`, `BindDisplaces`, `BindSetTime`, `RebindToServer`, `BindClosesOld` |
| `removeStream`, `RemoveStream`, timer callback | `UserRemoves`, `StreamTimeout`, `CloseRemoved` |
| `Close` by a user or the idle timer | `UserClosesServer`, `UserClosesChannel`, `ChannelTimerFires`, `TimerCloses`, `TimerClears` |

### UDPServer: state and actions

| code | variables |
|---|---|
| goroutine of the server, its local `stream` | `spc`, `cur` |
| atomic pointer `s.stream` | `bound` |
| `s.listener`: present, `close`; the socket and its deadline | `listening`, `lsnFlag`; `socket`, `deadline` |
| mutex of `s.listener` while `bindStream` closes the old stream | `displaced` (`NoStream` when free) |
| a call of `Stream()`; of `RemoveStream()` | `call`; `removing` |
| `handlerLock`, `closed`, `timer.time` set | `busy`, `closed`, `stamped` |

| code | actions |
|---|---|
| `start` | `Start` |
| `read` | `ReadBufferFails`, `ReadBegin`, `DeadlinePasses`, `ReadData`, `ReadTimeout`, `ReadEnds` |
| `run`, loop | `Dispatch`, `HandleEnter`, `HandleLeave`, `CloseAndExit` |
| `removeStream` by the loop; by a user | `RemoveStream`, `DropStream`; `UserRemoves`, `UserDrops`, `UserDropCloses` |
| `run`, deferred | `SetClosed`, `ExitSwap`, `ExitDrop` |
| `bindStream`, `Stream` | `BindRefused`, `BindStream`, `CloseDisplaced` |
| `close` by a user | `UserCloses` |

The UDP server is close to a TCP channel and differs where it matters: it sets
the time of a stream *before* it publishes it, under the listener's lock (so
there is no counterpart of `FreshStreamNotExpired`, and `JudgedByOwnTime` holds),
and `RemoveStream` by a user works on a bound stream at any time, the callback
of the handler included, from which it may come.

### Manager: state and actions

An action is a section under the mutex of a context, or a call of the server.

| code | variables |
|---|---|
| `ctx.used`; the flags `Starting` and `Stopped` of `ctx.state` | `used`; `starting`, `stopped` |
| the server of a context, whether it has been up | `server`, `ran` |
| goroutines that wait on `ClosedWaiter`, before and after it answers | `tracers`, `seen` |
| a goroutine of a user, its context, `retryCount`; `m.curIndex` | `pc`, `at`, `tries`; `curIndex` |
| `run`: where it is, the loop's index, futures | `mpc`, `sweepAt`, `startWait`, `startedOk`, `closeWait` |

| code | actions |
|---|---|
| `alloc`, under `m.mu` | `Alloc` (takes it), `Probe` (a turn of the loop) |
| `alloc`, `server.Start` | `StartSucceeds`, `StartFails` |
| `alloc`, section after it | `KeepStarted`, `GiveUpStart` |
| `Free`, `free` | `Free` |
| goroutines of `free` and `alloc` | `TracerSees`, `TracerMarks` |
| `run` | `Interrupt`, `Sweep`, `EndStartWait`, `IndexPanics`, `Finish` |
| the server goes down | `ServerDown` |

`serverStateStopping` has no variable: the code tests it and sets it nowhere.

### Layer, Framing, Frame and Wire

A layer is a record of the header's fields and the chunks of its payload; a
setter maps layers to layers. Bytes are numbers, and only what the code looks
into is taken apart: a timestamp or SSRC is a sequence of four bytes.

| code | operators and variables |
|---|---|
| `Header`, `IncomingPayload` and their setters | `SetCSRCList`, `AddCSRC`, `SetExtensionContents`, `SetPaddingLength`, `SetContent`, ... ; `draft` |
| `Size`, `WriteTo`, `UnmarshalChunks` | `Size`, `WriteTo`, `UnmarshalChunks` |
| `Parser.Parse`, the layer it reuses, the rest of a chunk | `Parse`; `parser`, `layer`, `chunk` |
| `Reader.Read`, `Writer.Write` | `ReadStep`, `Written`; `reader` |
| `IncomingFrame`, its writers | `AppendPacket`, `TimeRangeExpand`, `SetFrameTimestamp`, `FrameSize`, `FrameBytes`, `ModifyPacket`, `AfterWrite`; `frame`, `writer` |
| what went over the stream; what came out | `wire`, `sent`; `got` |
| a user calls a setter of a layer; of a writer; of a frame | `Edit`; `Override`; `Retime`, `Retype` |
| a layer is written; collected; a frame is written; others write | `WriteDraft`; `Collect`; `WriteFrame`; `PeerJunk` |
| `TCPChannel.read`; a turn of `run`'s loop; a turn of `Reader.Read`'s | `ReadChunk`; `ParseChunk`; `ReadFile` |

What setters build and the wire does not carry, or carries wrongly, is in the
model as it is in the code: no setter raises the extension flag, so contents set
are not sent; `SetPaddingLength(0)` raises the padding flag, and such a layer is
not RTP (`Sound`); `SetPayloadType` is or-ed into its byte (`layer.go:277`);
`BuildIncomingLayer` leaves `payload.size` at 0, so that with a payload its size
is wrong (`Counted` excludes it). `FullFrameWriter` truncates sizes above 65535
and `Writer` drops such packets silently (`Fits`).

### PacketFlow

| code | variables |
|---|---|
| `run`: where it is, its chunk, `c.packet`, `stream` | `loop`, `data`, `left`, `cur`, `seen` |
| chunks with bytes in the parser's cache | `cached` |
| `c.stream`; streams a `removeStream` has taken out, told of their end | `bound`; `closing`, `closed` |
| reference counts of chunks, packets and frames | `dataRef`, `packetRef`, `frameRef` |
| a packet's relations; where its contents point | `holds`; `backing` |
| a packet's timestamp and type; a frame's; its packets | `key`; `frameKey`; `content` |
| `FrameRTPHandler.cur`; the user's frames and packets | `asm`; `given`, `kept` |
| packets nobody will release any more | `lost` |

| code | actions |
|---|---|
| `TCPChannel.read`; `run`, loop | `Read`, `ReadEnds`; `GetPacket`, `ParseMore`, `ParsePacket`, `ParseDiscarded`, `ParseRefused` |
| `HandlePacket` of the stream and of a handler | `HandleForgotten` (stream closed or without a handler), `HandleStops`, `HandleReleased` |
| `FrameRTPHandler.HandlePacket`, `OnStreamClosed` | `HandleAppend`, `HandleNewFrame`; `CloseStream` |
| `run`, deferred; `bindStream`, `removeStream` of others | `Exit`; `Rebind` |
| a user's `AddRef` and `Release` | `ShareFrame`, `KeepPacket`, `ReleasePacket`, `ReleaseShare`, `ReleaseFrame` |

A packet handed to a stream that is closed already, or whose handler is nil (the
streams of `Handlerless`), is released by nobody (`HandleForgotten`). A handler that asks for the end of its
stream on TCP must not have released the packet, since `run`'s deferred function
will (`ReleasesAtStop = FALSE`); on UDP it must.

### StreamDispatch and KeepChooser

| code | variables |
|---|---|
| a call of `HandlePacket`, its packet | `pc`, `packet` |
| `remoteAddr`, `ssrc`, set by atomic operations | `addr`, `ssrc` |
| `seqInit`, `seq`; `closed` | `isInit`, `seq`; `closed` |
| the handler's chooser: error times, errors in a row | `chooser` |
| history: packets accepted, losses reported, values of address and SSRC during the call, what the chooser was told and said | `accepted`, `losses`, `addrsInForce`, `ssrcsInForce`, `calls`, `touched` |

| code | actions |
|---|---|
| `HandlePacket`, one atomic operation after the other | `HandlePacket`, `CompareAddr`, `LatchSSRC`, `CompareSSRC`, `Accept` |
| `OnParseError`, `OnStreamClosed` | `ParseError`, `CloseStream` |
| `SetRemoteAddr`, `SetSSRC`; the handler serves another stream | `SetRemoteAddr`, `SetSSRC`; `Reuse` |
| time passes | `Tick` |

`SetRemoteAddr` also takes the nil address with which `Stream()` makes a stream
that is open to any sender, and so opens the address again. When that comes
between the failed swap (`stream.go:211`) and the load after it, `HandlePacket`
follows the nil pointer (`:214`): `CompareAddr` has the panic, and the model
ends there, as the process does.

### TimeoutTimer

| code | variables |
|---|---|
| `time`, `timeout`, `timer` | `time`, `timeout`, `timer` |
| timers of the runtime, when they fire, which were made | `armed`, `at`, `used` |
| goroutines of callbacks that have `f` to run, or `Close` | `callbacks` |

| code | actions |
|---|---|
| `Init`, `SetTimeout`, `SetTime`, `Close` | `Start`, `SetTimeout`, `SetTime`, `Close` |
| the callback made by `Init` | `Fire`, `RunF`, `CallbackCloses` |

The models of the servers use a timer without its numbers and merge its
callback; that a callback may be late is judged here.

### What was abstracted, and why that is sound

- *Bytes and packets* become, in the models of the servers, the number of parse
  results left in a chunk and the handler's answer; both are free choices.
- *The keep chooser's answer* is free there (`ParseWithoutStream` or
  `ParseRefused`).
- *Chunks that a cut leaves empty* stay in the list (`CutFrom`, `CutTo`): the slice
  library is external, and only the bytes of a list are looked at.
- *A receiver that begins when the sender has ended* (`Wire`) sees in each read
  a part of what is left, as one that reads earlier would.
- *In `PacketFlow`* a chunk is left or used up, a packet's timestamp and type
  are one key, and what binds and removes streams is free (`Rebind`).
- *In `StreamDispatch`* sequence numbers have a width `W`, 2^16 in the code; the
  callback of an error that the option `onError` refuses is free.
- *In `TimeoutTimer`* time is a number; `SetTime` is called only where the code
  calls it, on what has no timer running.
- *Time* in the servers: a deadline is `none`, `ahead` or `passed`; a timer may fire whenever
  it is pending. A deadline passes while `Read` waits: only `Read` looks at it.
- *The idle timer* fires whenever it is armed: no option has a minimum
  (`tcp-server.go:128`), so this may come before the channel is started
  (`:317`). `Close` does nothing then, and the callback goes on to clear the
  timer, by then perhaps one that `removeStream` has armed; `early` says that a
  callback has come so early, and whether it has cleared. Otherwise closing and
  clearing are one action: nobody arms the timer of a closed channel. Of the
  callbacks of one channel only the first can come before the start.
- *Accept and newChannel* are one action: the connection is not yet shared.
- *Draining* a stream closes and deletes it in one action: `s.mu` is held all
  along, so no one sees the difference.
- *The callback of a stream's timer* removes the stream and clears the timer in
  one action. A callback in flight differs only if `Close` comes in between, and
  `removeStream` tests the map under the lock in either order.
- *The lifecycle library* is external: `Start` runs the channel, `Close` before
  it has no effect (`Started`), and waiting on `ClosedWaiter` may return before
  or after the `OnClosed` closure has run (`Shutdown` allows both).
- *A socket left open by EOF*: closing by the runtime's finalizer is left out.
- *Shared variables of loops*: `go.mod` says go 1.19, so closures made in a
  `for range` loop share its variable (`Start`).
- *A failed `ListenUDP`* leaves a UDP server as it was: a stuttering step.
- *The servers of the manager* are external, behind the library's retrying
  lifecycle: `Start` answers nil or an error, `Close` begins a closing that
  `ClosedWaiter` reports. A server that ends by itself is left out, as what the
  wrapper does then is not in the repository. `Restartable` says whether `Start`
  can succeed on a server that has run: not so for the servers of this package,
  whose closable wrapper is never reset; the runs set it to `FALSE`.
- *`Free`'s look-up* in `m.serverContext`, under `m.mu`, is merged into `Free`:
  the entry of an allocated server never changes. That `Free` then waits for
  `m.mu` orders it after a scan, which the interleavings include.
- *Users* do not begin to allocate after the manager was told to close; calls
  under way go on.
- *A panic* ends the process (`IndexPanics`): nothing happens after it.

Merged or dropped: `Send` (a write under no lock), the error handlers and
logging; in the servers also what the modules of a stream, its packets and its
timer model.

### Not modelled

- `DefaultLayer`, `DefaultPacket` and `DefaultFrame`: the same operations as
  their pooled counterparts, without pools; `WriteToUDP`.
- `rtp.Buffer`, which no server uses.
- The options and error values, `WithPortRange` among them, which never ends
  for an upper port of 65535 and an even lower one.
- The tools (argument parsing and file I/O; several are written against an older
  API of the library), the logger, memory-mapped files in `utils`, and the empty
  client package.

## 3. What TLC checks

| run | instance | shows |
|---|---|---|
| `reconnect` | one address, two streams, two overlapping connections | types and nil safety, `NoStreamLost`, `SingleOwner`, `ChannelsInReach`, `ShutdownComplete` |
| `addresses` | two addresses, a stream and a connection each | `ShutdownComplete` when two streams are drained and two channels closed |
| `displace` | three streams on one connection, idle timer of any length, chunks of two packets | `HandlerContract` (refinement of `StreamContract`), `BoundStreamHasNoServerTimer`, `IdleChannelGuarded` |
| `shutdown` | one address, two streams, two overlapping connections, fairness | `CloseTerminates`, `StreamsClosedAtShutdown` |
| `udp` | three streams, two with a timeout, fairness | `OneOwner`, `ShutdownComplete`, `JudgedByOwnTime`, `HandlerContract`; `CloseTerminates`, `StreamsClosedAtShutdown`, `ServerFollowsStream` |
| `mgr_alloc` | two contexts, three users, two users per server | `OneStarter`, `UpServerNotOverused`, `UsedHasUser`, `UpServerIsUsed` |
| `mgr_stop` | two contexts, two users that may free twice, one user per server, fairness | types and counts not below zero, `StopTerminates`, `AllocReturns` |
| `wire` | layers near every limit of the setters, alone and in frames, and junk, cut anywhere | `DeliversInOrder` (refinement of `Delivery`), `SizeIsWritten`, `NothingLeft`, `NumbersFollow` |
| `flow` | two chunks, three packets, two frames, two streams, one without a handler; a handler that stops has not released | `Ownership`, `BytesAlive`, `FramesApart`, `AllReturned` |
| `flow_stops` | the same; a handler that stops has released | `ReleasedOnce` is violated (a finding) |
| `stream` | two addresses and SSRCs, numbers modulo 3 that lose, repeat and overtake, two calls of setters, nil addresses included | `OneSource`, `InForce`, `LossesTrue`, `ChooserExact` |
| `timer` | three timers of the runtime, timeouts 0, 1 and 2, fairness | `NoOrphan`, `NotEarly`, `RunsInTheEnd` |

`NoStreamLost` and `SingleOwner` are the heart: together they say that an open
stream is at every moment in exactly one of eight places (waiting in the map,
taken by the accept loop, being bound, bound to a channel, displaced by another
stream, being dropped by a read loop, replaced in the map, removed from it), and
a closed one in none, so that every stream is closed by exactly one party.
`ShutdownComplete`, `StreamsClosedAtShutdown` and `RunningChannelListed` (in
`ChannelsInReach`) carry an exception that the code has: when a second connection
of an address pushes the first out of `s.channels`, shutdown does not see the
first, neither closes it nor waits for it, and a stream bound there (or that its
read loop is about to drop) is not told by the shutdown. `reconnect` and
`shutdown` have such connections; without the exception both properties fail.

`IdleChannelGuarded` has one too: a timer that ran out before its channel was
started. Such a channel, if no stream comes, waits for its peer for ever
(`IdleChannelAlwaysGuarded`, below).

`Ownership` says that a packet's count is those who have it, and a chunk's the
loop and the packets that point into it: nothing is released twice and nothing
early, whoever is last. `DeliversInOrder` is the strongest claim about the bytes:
whatever setters built, whatever junk came before and however it is cut, each
packet comes out as it went in, and would be written again as the same bytes.
`LossesTrue` is what a count by differences can promise: single reports after a
repeated packet are wrong (65535), their sum modulo 2^16 is right, and exact
while packets only get lost.

### Bounds

`Streams`, `Channels`, `Addrs` and `MaxPackets` (parse results in a chunk) are
all the bounds; no counter is unbounded. Every race of the code is between
parties that meet at one address: two calls of `Stream()` and the accept loop,
with one connection that ends and one that replaces it. Two streams and two
overlapping connections make all of them meet (`reconnect`, and `shutdown` with fairness); a third stream is
needed only for a displacer that is itself displaced (`displace`); a second
address only for a drain with more than one entry (`addresses`). With
`MaxPackets = 2` a loop comes back to a chunk with a stream other than the one
it began with; a third packet adds nothing to what it can remember. Streams of
one instance differ in `Timed` and `KeepConn`, so they are not interchangeable
and no symmetry is used. `shutdown` has no timed streams: the read deadlines of
these only give a read loop one more way out of its wait, and their states would
be too many for the check of liveness; nor has it the idle timer, for the same
reason. `displace` has both.

On UDP three streams make a displaced stream, its displacer and one that waits
for the lock meet, while the loop holds a fourth reference of its own; the model
has no counters. For the manager: `N` contexts (two, so that the ring and the
sweep have a context behind and one ahead), `Users` (three, so that two compete
for what a third has freed), `MaxUsed` (`serverMaxUsed`, 1 and 2), `MaxRetry`
(`allocMaxRetry`; the default is the number of contexts, 2; one less in
`mgr_stop`), and `MaxTracers`, the only bound that is not the
code's: how many goroutines may wait for one server to go down. Users of the
manager are interchangeable, so `mgr_alloc` uses `UserSymmetry`; runs that check
liveness use no symmetry.

`UsedHasUser` and `UpServerNotOverused` are checked with users that free once:
freeing twice takes somebody else's use away, which the code accepts in a
comment (`manager.go:279`), so the other invariants of their run are too.
`mgr_stop` lets users free twice and checks that no count goes below zero
(`TypeOK`); the theorems on `OneStarter` and `UpServerIsUsed` cover such users. `UpServerIsUsed` needs
`Restartable = FALSE`: if a server could be started again, the goroutine of an
earlier closing could mark it stopped while it is up, or its uses leak. In the
invariants on up servers, sharing counts the users that were given the server
and have not freed it.

`wire`: `MaxSent` (packets and junk sent, 2: the second shows what the first
leaves behind), `MaxEffort` (setters called and chunks read together, less than
3: one setter on every layer that can be built and one cut anywhere, or two of
either) and `MaxPacketSize` (70 for 65535: a layer with a list of 16 entries
does not fit). The theorems cover streams, layers and cuts of any size. The
frames have two packets at most and their packets one time, so
`timeRangeExpand` is covered by its proof only. `flow`: pools of two
chunks, three packets and two frames (one of each in use while another is
parsed into), two streams, two keys, `MaxReads` chunks read (3: the first comes
back from the pool). Objects of a pool are interchangeable, as are the streams
(`Alike`; no liveness is checked). `stream`: `MaxSent` packets sent (4, more than
the width `W` = 3), `MaxEvents` datagrams and errors (4), `MaxSets` calls of
setters (2), `MaxTime` (2, so that an error leaves the chooser's second). `timer`:
`Timers` (3) that `Init` can make in `MaxCalls` calls, `MaxTime` (4, twice the
longest timeout).

### Fairness

`Fairness` gives weak fairness to the steps a goroutine takes of itself: the
accept loop once told to close, calls of `Stream()` under way, timers, and read
loops when there is something to read or the socket is closed. The Go scheduler
and timers justify it; mutexes here are never held in a cycle, so weak fairness
is enough. A read loop and the `OnClosed` closure that follows it share a
condition, as do the steps of a channel's idle timer and those of a stream's
timer and removal: they follow each other, and none can be taken for ever. Handlers are assumed to return. Nothing is assumed of peers (data may
never come), of users, or of the arrival of connections.

On UDP the goroutine of the server goes on unless it waits in `ReadFromUDP` on
an open socket, and calls of `RemoveStream` end. For the manager, calls of
`Alloc`, goroutines that wait and the manager's goroutine go on; `Start` answers
and closings end, as the lifecycle promises. Taking `m.mu` again after a failed
start has strong fairness: other calls take and release the mutex in between,
and Go's mutexes hand over to a waiter that starves. Users need not free, nor
anybody close the manager.

For the timer, time passes, the runtime fires what is due, and callbacks run to
their end (`timerLock` is held over no call of `f`). Nobody need call `Close`.

### Where the code and its comments disagree

Each row is a claim that a comment or a message of the repository makes and the
code does not keep, as a property of one of the `Props` modules. The last one is
checked by its run and is the finding of `PROJECT.json`; TLC refutes each of the
others when the property takes the place of the properties in the `.cfg` named.

| property | instance | claim | what happens |
|---|---|---|---|
| `TimeoutZeroNeverExpires` | `TCPServer_displace.cfg`; on UDP `UDPServer.cfg` | a stream of timeout 0 never expires (`tools/rtp-dumper/rtp-dumper.go:66`) | the read deadline of the timed stream before it is not cleared and expires it |
| `FreshStreamNotExpired` | `TCPServer_displace.cfg` | a bound stream's time is set for its timeout (`tcp-server.go:353`) | it is set after the stream is published; a read in between uses the zero time |
| `StreamTimerTargetsOwnStream` | `TCPServer_addresses.cfg` | each waiting stream gets its timer at the start (`tcp-server.go:239`) | the closures share the loop variable: all remove the same stream |
| `ChannelTimerOnlyWithoutStream` | `TCPServer_displace.cfg` | the idle timer is for channels without a stream (`tcp-server.go:304`) | it is armed after the section that found none; `Stream()` may have bound one |
| `IdleChannelAlwaysGuarded` | `TCPServer_displace.cfg` | the idle timer deals with a channel that gets no stream (`tcp-server.go:304`) | it may run out before the channel is started (`:317`): closing does nothing then, and the channel has no timer any more |
| `ConnGoneMeansClosed` | `TCPServer_displace.cfg` | a channel without a connection has closed it (`tcp-channel.go:209`) | after EOF the socket is dropped open |
| `SilentStreamTimesOut` | `TCPServer_shutdown.cfg` with `Channels = {1}` and `Timed = {s1}`; on UDP `UDPServer.cfg` | the bound stream's timeout is judged (`tcp-server.go:353`, `udp-server.go:292`) | a read that began without a stream has no deadline |
| `StartRefusedOnlyWhenClosed` | `TCPServer_reconnect.cfg` with `Preset = TRUE` | a start is refused because the server is closed (`tcp-server.go:251`) | a server built on a given listener never starts |
| `AllocatedNotClosing` (as a `PROPERTY`) | `Manager_alloc.cfg` | a server handed out at once is not being closed (`manager.go:186`) | the stopping flag is tested and set nowhere |
| `StartIsFollowed` | `Manager_alloc.cfg` | a start that succeeds during the close is followed (`manager.go:153`) | `startingEndpoints` is never filled: index out of range |
| `StoppedMeansUnused` | `Manager_alloc.cfg` | a stopped context has no uses (`manager.go:199`) | a use taken while closing outlives the server |
| `NobodyUsesStarting` | `Manager_alloc.cfg` | only a caller that frees twice frees a context that is starting (`manager.go:279`) | the holder of such a use frees once, and its free is ignored |
| `AllClosedAtEnd` | `Manager_alloc.cfg` | the manager ends when all servers are closed (`manager.go:157`) | a late `Alloc` starts a server behind the sweep |
| `ReleasedOnce` | run `flow_stops` | the handler releases the packet it was given (`tcp-channel.go:254`) | one that does so and asks for the end of its stream has it released again by the deferred function |

## 4. What TLAPS proves

For the TCP server, for every finite or infinite set of streams, connections and
addresses, from `ChannelAssumption` and `ServerAssumption` alone:

- `TypeCorrect`: `Spec => []TypeOK`. Beyond types, `TypeOK` says that no
  goroutine follows a nil stream, channel or listener (`NoNilUse`). It is
  inductive with the types; each action is a step of the proof.
- `BoundTimerOff`: `Spec => []BoundStreamHasNoServerTimer`. The property is not
  inductive: that a timer armed by `PutInServer` is not for a bound stream needs
  to know that a stream being registered is not on a channel. `StreamPlacement`
  adds that: who holds the listener's lock, and which places exclude each other.
- `KeepsHandlerContract`: `Spec => HandlerContract`, the refinement of
  `StreamContract` under the mapping `Phase`. It needs two more invariants:
  `OnlyRegistered` (whatever stream a goroutine can close or call has been
  registered) and `CallbackHoldsLock` (a read loop inside a callback holds the
  `handlerLock` of that stream), so that each action that closes, enters or
  leaves maps to a step of the contract and all others to stuttering.
- `RunningChannelsInReach` (`ChannelsInReach`), by `Life`: what the label of a
  channel's goroutine says of its fields (`ChannelLife`), that the accept loop
  has in hand the last channel accepted (`AcceptLife`), and that channels are
  found under their own addresses (`ListLife`).
- `IdleChannelsTimeOut` (`IdleChannelGuarded`), by `IdleTimer`: the property at
  every label from which the loop comes back to its read, and at the moment the
  accept loop starts it, each with the exception of a timer that ran out before;
  and a timer that has run out has its callback under way.
- `OpenStreamIsHeld` (`NoStreamLost`) and `StreamHasOneOwner` (`SingleOwner`), by
  `Ownership`, which compares the places of a stream one by one: it is open when it
  is in one, and no two hold it, within a channel or between channels. It needs
  `Life` (no stream on a channel that does not run) and `BindLife` (a call of
  `Stream()` with a replaced stream to close holds the lock).
- `StopClosesStreams` (`ShutdownComplete`), by `ShutdownLife`: what the deferred
  function has behind it at each label - the listener refuses, the map is empty,
  each running channel is in the snapshot or superseded, then superseded.

For the UDP server, from `UDPAssumption` alone:

- `TypeCorrect`, `StreamHasOneOwner` (`OneOwner`), `EndClosesStreams`
  (`ShutdownComplete`), `BoundStreamStamped` (`JudgedByOwnTime`) and
  `KeepsHandlerContract`. `OneOwner` is made inductive by what each place of a
  stream excludes; `ShutdownComplete` follows from the flag of the listener
  being up, and its lock having been taken, before the swap.

For the flow of packets, from `FlowAssumption` and a handler that has not
released the packet it stops at (`~ReleasesAtStop`, a hypothesis of each, without
which the finding refutes them):

- `EveryReferenceOwned` (`Ownership`), `ReadableIsAlive` (`BytesAlive`),
  `FramesStayApart` (`FramesApart`), `EndReturnsAll` (`AllReturned`),
  `GivenFramesAreFinal` (a frame does not grow once given) and `TypeCorrect`, for
  pools of any finite size and any number of reads and streams. The counts are
  inductive only with where things are: `LoopHolds` (what the loop has at each
  step), `Pooled` (what is in the pool holds nothing), `Backed` (contents point
  into chunks the packet holds) and `StreamsFollowed` (which streams the loop and
  the closers still have). The difficult steps are those that move or release
  several packets at once, by lemmas on the cardinality of the holders.

For a stream, from `DispatchAssumption` and the chooser's:

- `HearsOneSource` (`OneSource`), `AcceptsWhatIsInForce` (`InForce`) and
  `LossesAreTrue` (`LossesTrue`, of `LossesSumUp` and `LossesAreExact`), for any
  width, addresses, SSRCs and network. The invariants are `Source` and `Latched`
  (what the place in `HandlePacket` says about the packet: what was read stays in
  force though users set it, or open the address again, behind it) and `Numbered` (the
  reports differ from the numbers skipped by a multiple of the width).
- `ChooserIsExact` (`ChooserExact`): the queue and the row of `KeepChooser` decide
  as a count over the whole history of calls would, for any limits and times.
  The invariant is `Policy`: the calls are in the order of their times, the row
  is that of the trailing errors, and the queue is a subsequence of the errors
  (a map `g` from its places to those of the history, increasing) that has all
  that are not older than a second (`Remembers`). A chooser that has ended its
  stream is asked no more, so a queue that overflows is not asked again.

For layers, frames and their writers, from `FramingAssumption` and
`WireAssumption`; the latter says that arguments have the width of their Go types
(words are four bytes, paddings and payload types one), that what the peer puts
on the stream has a length that two bytes hold, and that what
`BuildIncomingLayer` is given has counts that a header has room for (`IsConfig`),
which the code leaves to the caller:

- `SizesAreWritten` (`SizeIsWritten`): for any words, chunks, setters and
  overrides, `Size` is the length of what `WriteTo` writes, and the sizes of both
  frame writers are, for any number of packets. The invariant is `Sizes`: what
  setters keep to (`Sized`: words whole, lists within their limits), packets of
  frames that know the size of their payload (`Filled`), overrides that fit
  (`Writable`). The lemmas say how long a flattened sequence is
  (`FlattenLength`), and the padding in its pieces (`PaddingLength`).
- `FrameTimesInOrder`, `FramesAreUniform` (`FrameTimesOrdered` and
  `FrameIsUniform`, on frames of any number of packets) and
  `NumbersAreConsecutive` (`NumbersFollow`). The last rests on lemmas about
  remainders and about sequences joined where their numbers meet (`Counting`).
- `ParsedIsWhole`: a packet's bytes come to the same packet, or the same error, in
  whatever chunks they are and whatever layer they are parsed into, one that was
  used before included. `Unmarshalled` says what: the error is a function of the
  bytes (`ErrOf`), and without one the layer shows them (`Shows`, field by field
  at its place). Chunks enter by `CutFromFlat` and `CutToFlat` (cutting chunks cuts
  their bytes) and leave with each stage of `UnmarshalChunks`.
- `ExpectedIsWhole`: a layer that setters can build, once written, is parsed to the
  fields it shows and the bytes it is written as. `WrittenPlaces` says where
  `WriteTo` puts each part, `SoundShows` that the layer shows the bytes so written,
  and `SamePacket` that two layers which show the same bytes are the same packet.
  It needs fields that fit their bits (`Typed`), which setters keep (`Sends`).
- `ArrivesInOrder` (`DeliversInOrder`), the refinement of `Delivery`, and
  `NothingIsLeft` (`NothingLeft`), for streams of any length. The invariant is
  `Delivered`: there are packets still to do (`InStep`) such that all that is sent
  is what the receiver got, followed by what these come to; and the bytes it has
  taken and not reported, followed by those ahead, are the very bytes of these
  packets on the stream. `ParserAt` and `ReaderAt` say how the fields of parser and
  reader hold the bytes taken: a piece of the length, or of a packet of which
  so many are needed. `ParseStep` and `ReadCameStep` show that a call keeps this for
  any piece of the stream it is given, also behind bytes that are no packet,
  and reports exactly the first packet to do or nothing; `Delivery` follows.

For the timer, from `TimerAssumption`:

- `TimerCanBeStopped` (`NoOrphan`), `NeverEarly` (`NotEarly`), `NeverForgotten`
  (`Guarded`: what `Init` began is armed, on its way or has run) and
  `TypeCorrect`; `LateCloseHasRun` completes the invariant: who is about to close
  has run `f`.

For the manager, from `ManagerAssumption`:

- `UpServerIsShared` (`UpServerNotOverused`) and `UseIsSomebodys` (`UsedHasUser`),
  for servers that cannot be started again and users that free once
  (`~Restartable` and `~FreesTwice`, hypotheses that the properties need, see the
  bounds). The invariant `Counted` compares `used` with the number of users of the
  context: equal while the server is up and nobody starts it, no greater at any
  other time, and a start that can succeed is for the first user.
- `TypeCorrect` and `StartIsExclusive` (`OneStarter`): types and `OneStarter`
  are inductive together.
- `UnusedServerIsClosed`: `UpServerIsUsed`, for servers that cannot be started
  again (`~Restartable`, a hypothesis of the theorem, which it needs). The
  invariant is `KeptUp`: with `RunsOnce` it says that a server anyone waits for
  is not up any more, that one with the stopped flag is up only between the
  return of `Start` and the section after it, and that one being started has
  not come up.

The proofs are laid out with one step per action. The module-level `USE` of the
proof modules makes the constants' assumptions, the tuples of variables, the
sets of labels and the one-line helpers (`Goto`, `ConnFree`, ...) visible to
every leaf; everything else a leaf needs is cited in it.

Induction over data is done with sets. The library's induction theorems take an
operator as a parameter, which the provers here cannot instantiate; its theorem
on minimal elements (`WFMin`) takes a set, and `Least` and `Induction` state the
same with a set in the place of the predicate. A recursive function (of
`FlattenSeq`, `SumOf`, `Padding`) is first shown to exist, by induction on the
length of its domain, and then reasoned about by its equation.

Only model-checked: liveness, which is beyond the prover, as is `ENABLED`. Every
invariant and every action property that a run checks is the statement of a
theorem.

## 5. Plan

In this order, the most important behaviour first; what is done is marked.

1. `StreamContract`, `TCPChannel`, `TCPServer`, their properties and instances,
   the proofs of types, timers and the handler's contract. *Done.*
2. `UDPServer` (`udp-server.go`, `udp-stream.go`): binding, read loop, removal,
   start and close, with the proofs of ownership and of the second refinement of
   `StreamContract`. *Done.*
3. `Manager` (`manager.go`): `run`, `alloc`, `free`, with the proofs of types,
   exclusive starts and unused servers. *Done.*
4. `TimeoutTimer`: `Init`, `SetTimeout`, `Close` against late callbacks, with its
   proofs. *Done.*
5. `KeepChooser` and `StreamDispatch` (`keep-chooser.go`, `stream.go`): address
   and SSRC, losses, errors, with the proofs of sources and losses. *Done.*
6. `Layer`, `Framing`, `Frame`, `Delivery`, `Wire` (`rtp/*.go`, `frame.go`), with
   the proofs on frames and numbering. *Done.*
7. `PacketFlow` (`packet.go`, `frame-handler.go`, `tcp-channel.go`), with its
   proofs. *Done.*
8. Proofs of the invariants on TCP's streams and channels, on the manager's
   uses, on the chooser and on sizes. *Done.*
9. Proofs that the stream delivers: parsing, writing and parsing back, and the
   refinement of `Delivery`. *Done.*
10. Liveness of `AllReturned`, if handlers and users release in the end: the
   composition of `PacketFlow` with the closing of `TCPServer`.
