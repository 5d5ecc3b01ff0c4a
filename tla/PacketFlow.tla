------------------------------ MODULE PacketFlow ------------------------------
(***************************************************************************)
(* Who owns the bytes.  The loop of TCPChannel.run reads chunks, parses    *)
(* packets out of them whose contents point into the chunks, and gives the *)
(* packets to the bound stream, whose FrameRTPHandler collects them into   *)
(* frames for a user.  Chunks, packets and frames come from pools and go   *)
(* back when their reference count falls to zero (packet.go, frame.go and  *)
(* the relations of pool.Reference).  Meanwhile others bind and remove     *)
(* streams, and the user keeps, shares and releases what it was given.     *)
(* The bytes themselves are Wire's, the binding of streams TCPServer's.    *)
(***************************************************************************)
EXTENDS Naturals, Integers, FiniteSets

CONSTANTS Data, Packets, Frames,   \* what the pools can hand out
          Streams, Keys,           \* a key is a timestamp with a payload type
          None,
          Handlerless,      \* streams whose handler may be nil
          ReleasesAtStop,   \* whether a handler that asks for the end of its
                            \* stream has released the packet
          MaxReads   \* bound: chunks read

ASSUME FlowAssumption ==
  /\ IsFiniteSet(Data) /\ IsFiniteSet(Packets) /\ IsFiniteSet(Frames)
  /\ None \notin Data \cup Packets \cup Frames \cup Streams
  /\ Keys # {} /\ MaxReads \in Nat
  /\ Handlerless \subseteq Streams /\ ReleasesAtStop \in BOOLEAN

VARIABLES
  loop,        \* where run is: read, parse, handle, exit, done
  reads,       \* chunks read so far
  data, left,  \* the chunk in the loop, whether bytes of it are left
  cur,         \* c.packet
  cached,      \* chunks with bytes in the cache of the parser
  seen,        \* the stream HandlePacket is called on
  bound,       \* c.stream
  closing, closed,           \* streams to be told of their end, and told
  dataRef, packetRef, frameRef,   \* reference counts, 0 in the pool
  holds,       \* relations of a packet
  backing,     \* chunks the contents of a packet point into
  key, frameKey,
  content,     \* packets of a frame
  asm,         \* FrameRTPHandler.cur of each stream
  given,       \* frames the user has been given and not released
  kept,        \* packets the user has taken a reference to
  lost         \* packets nobody will release

loopVars == <<loop, reads, data, left, cur, cached, seen>>
streamVars == <<bound, closing, closed>>
frameVars == <<frameRef, frameKey, content, asm, given>>
vars == <<loopVars, streamVars, frameVars, dataRef, packetRef, holds, backing,
          key, kept, lost>>

AKey == CHOOSE k \in Keys : TRUE

Init ==
  /\ loop = "read" /\ reads = 0
  /\ data = None /\ left = FALSE
  /\ cur = None /\ cached = {} /\ seen = None
  /\ bound = None /\ closing = {} /\ closed = {}
  /\ dataRef = [d \in Data |-> 0]
  /\ packetRef = [p \in Packets |-> 0]
  /\ frameRef = [f \in Frames |-> 0]
  /\ holds = [p \in Packets |-> {}] /\ backing = [p \in Packets |-> {}]
  /\ key = [p \in Packets |-> AKey] /\ frameKey = [f \in Frames |-> AKey]
  /\ content = [f \in Frames |-> {}]
  /\ asm = [s \in Streams |-> None]
  /\ given = {} /\ kept = {} /\ lost = {}

(* ------------------------------ references ------------------------------ *)

One(b) == IF b THEN 1 ELSE 0

\* Release of each packet in ps; those at their last reference are cleared:
\* they release their chunks and go back to the pool.
Last(ps) == {p \in ps : packetRef[p] = 1}
Fewer(ps) == [p \in Packets |-> packetRef[p] - One(p \in ps)]
Cleared(ps) == [p \in Packets |-> IF p \in ps THEN {} ELSE holds[p]]

\* Chunks when the packets in ps are cleared and the loop lets go of ds.
Freed(ps, ds) ==
  [d \in Data |-> dataRef[d] - Cardinality({p \in ps : d \in holds[p]}) - One(d \in ds)]

ReleasePackets(ps, ds) ==
  /\ packetRef' = Fewer(ps)
  /\ holds' = Cleared(Last(ps))
  /\ dataRef' = Freed(Last(ps), ds)

\* The loop goes on with the chunk, or lets go of it and reads.
Rest(more) == IF more THEN {} ELSE {data}
GoOn(more) ==
  /\ loop' = IF more THEN "parse" ELSE "read"
  /\ data' = IF more THEN data ELSE None
  /\ left' = more
  /\ seen' = None

(* --------------------------------- run ---------------------------------- *)

Read == /\ loop = "read"
        /\ reads < MaxReads
        /\ \E d \in Data : /\ dataRef[d] = 0
                           /\ data' = d
                           /\ dataRef' = [dataRef EXCEPT ![d] = 1]
        /\ reads' = reads + 1
        /\ loop' = "parse" /\ left' = TRUE
        /\ UNCHANGED <<cur, cached, seen, streamVars, frameVars, packetRef,
                       holds, backing, key, kept, lost>>

GetPacket == /\ loop = "parse"
             /\ cur = None
             /\ \E p \in Packets : /\ packetRef[p] = 0
                                   /\ cur' = p
                                   /\ packetRef' = [packetRef EXCEPT ![p] = 1]
                                   /\ backing' = [backing EXCEPT ![p] = {}]
             /\ UNCHANGED <<loop, reads, data, left, cached, seen, streamVars,
                            frameVars, dataRef, holds, key, kept, lost>>

Parsing == loop = "parse" /\ cur # None

\* mutant
ParseMoreUnrelated ==
  /\ Parsing
  /\ cached' = cached \cup {data}
  /\ dataRef' = Freed({}, {data})
  /\ GoOn(FALSE)
  /\ UNCHANGED <<reads, cur, streamVars, frameVars, packetRef, holds, backing, key,
                 kept, lost>>

\* More bytes are needed: the packet keeps the chunk, the loop lets go of it.
ParseMore == /\ Parsing
             /\ cached' = cached \cup {data}
             /\ holds' = [holds EXCEPT ![cur] = @ \cup {data}]
             /\ GoOn(FALSE)
             /\ UNCHANGED <<reads, cur, streamVars, frameVars, dataRef, packetRef,
                            backing, key, kept, lost>>

\* A packet, for the bound stream.
ParsePacket ==
  /\ Parsing
  /\ bound # None
  /\ \E k \in Keys, more \in BOOLEAN : key' = [key EXCEPT ![cur] = k] /\ left' = more
  /\ holds' = [holds EXCEPT ![cur] = @ \cup {data}]
  /\ backing' = [backing EXCEPT ![cur] = cached \cup {data}]
  /\ dataRef' = [dataRef EXCEPT ![data] = @ + 1]
  /\ cached' = {}
  /\ seen' = bound
  /\ loop' = "handle"
  /\ UNCHANGED <<reads, data, cur, streamVars, frameVars, packetRef, kept, lost>>

\* A packet without a stream, or an error: the packet is cleared and used
\* again.  An error may be answered with the end of the loop.
Discard(more) ==
  /\ cached' = {}
  /\ holds' = Cleared({cur})
  /\ dataRef' = Freed({cur}, Rest(more))
  /\ backing' = [backing EXCEPT ![cur] = {}]

ParseDiscarded ==
  /\ Parsing
  /\ \E more \in BOOLEAN : Discard(more) /\ GoOn(more)
  /\ UNCHANGED <<reads, cur, streamVars, frameVars, packetRef, key, kept, lost>>

\* removeStream has won and run returns: it lets go of the chunk, and its
\* deferred function finds the packet, if it still has one.
Leave == /\ loop' = "exit"
         /\ data' = None /\ left' = FALSE /\ seen' = None
         /\ bound' = None
         /\ closing' = closing \cup ({bound} \ {None})

ParseRefused ==
  /\ Parsing
  /\ Discard(FALSE)
  /\ Leave
  /\ UNCHANGED <<reads, cur, closed, frameVars, packetRef, key, kept, lost>>

Handling == loop = "handle"

\* The loop forgets the packet, and nobody has released it: the stream has no
\* handler (stream.go:244); or it is closed, or its handler asks for its end without having
\* released the packet, but it was removed meanwhile and removeStream does nothing.
HandleForgotten ==
  /\ Handling
  /\ \/ seen \in Handlerless \ closed
     \/ bound # seen /\ (seen \in closed \/ ~ReleasesAtStop)
  /\ lost' = lost \cup {cur}
  /\ dataRef' = Freed({}, Rest(left))
  /\ cur' = None
  /\ GoOn(left)
  /\ UNCHANGED <<reads, cached, streamVars, frameVars, packetRef, holds, backing,
                 key, kept>>

\* The handler asks for the end of the bound stream: run returns, and its
\* deferred function still has the packet.
HandleStops ==
  /\ Handling
  /\ bound = seen
  /\ IF ReleasesAtStop THEN ReleasePackets({cur}, {data})
     ELSE dataRef' = Freed({}, {data}) /\ UNCHANGED <<packetRef, holds>>
  /\ Leave
  /\ UNCHANGED <<reads, cur, cached, closed, frameVars, backing, key, kept, lost>>

\* The packet is of another address or SSRC, and is released; or the handler
\* is done with it, and releases it.
HandleReleased ==
  /\ Handling
  /\ seen \notin closed
  /\ ReleasePackets({cur}, Rest(left))
  /\ cur' = None
  /\ GoOn(left)
  /\ UNCHANGED <<reads, cached, streamVars, frameVars, backing, key, kept, lost>>

\* mutant
MatchesAny(f) == f # None
\* FrameRTPHandler.HandlePacket: the packet belongs to the frame in assembly.
Matches(f) == f # None /\ frameKey[f] = key[cur]

HandleAppend ==
  LET f == asm[seen]
  IN  /\ Handling
      /\ seen \notin closed
      /\ Matches(f)
      /\ content' = [content EXCEPT ![f] = @ \cup {cur}]
      /\ dataRef' = Freed({}, Rest(left))
      /\ cur' = None
      /\ GoOn(left)
      /\ UNCHANGED <<reads, cached, streamVars, frameRef, frameKey, asm, given,
                     packetRef, holds, backing, key, kept, lost>>

\* It begins a frame, and the one before it goes to the user.
HandleNewFrame ==
  /\ Handling
  /\ seen \notin closed
  /\ ~Matches(asm[seen])
  /\ \E f \in Frames :
       /\ frameRef[f] = 0
       /\ frameRef' = [frameRef EXCEPT ![f] = 1]
       /\ frameKey' = [frameKey EXCEPT ![f] = key[cur]]
       /\ content' = [content EXCEPT ![f] = {cur}]
       /\ asm' = [asm EXCEPT ![seen] = f]
  /\ given' = given \cup ({asm[seen]} \ {None})
  /\ dataRef' = Freed({}, Rest(left))
  /\ cur' = None
  /\ GoOn(left)
  /\ UNCHANGED <<reads, cached, streamVars, packetRef, holds, backing, key, kept, lost>>

\* read reports the end of the connection.
ReadEnds == /\ loop = "read"
            /\ Leave
            /\ UNCHANGED <<reads, cur, cached, closed, frameVars, dataRef, packetRef,
                           holds, backing, key, kept, lost>>

\* mutant
ExitKeepsPacket ==
  /\ loop = "exit"
  /\ loop' = "done"
  /\ cur' = None /\ cached' = {}
  /\ UNCHANGED <<reads, data, left, seen, streamVars, frameVars, dataRef, packetRef,
                 holds, backing, key, kept, lost>>

\* The deferred function of run.
Exit == /\ loop = "exit"
        /\ loop' = "done"
        /\ ReleasePackets({cur} \ {None}, {})
        /\ cur' = None /\ cached' = {}
        /\ UNCHANGED <<reads, data, left, seen, streamVars, frameVars, backing,
                       key, kept, lost>>

(* -------------------------- other goroutines ---------------------------- *)

\* A stream is bound, and one it displaces is to be closed; or the bound
\* stream is removed.
Rebind == /\ loop \notin {"exit", "done"}
          /\ \E s \in (Streams \ (closing \cup closed \cup {bound})) \cup {None} :
               /\ bound' = s
               /\ s # bound
          /\ closing' = closing \cup ({bound} \ {None})
          /\ UNCHANGED <<loopVars, closed, frameVars, dataRef, packetRef, holds,
                         backing, key, kept, lost>>

\* OnStreamClosed: the user gets the frame in assembly.
CloseStream == /\ \E s \in closing : /\ closing' = closing \ {s}
                                     /\ closed' = closed \cup {s}
                                     /\ asm' = [asm EXCEPT ![s] = None]
                                     /\ given' = given \cup ({asm[s]} \ {None})
               /\ UNCHANGED <<loopVars, bound, frameRef, frameKey, content, dataRef,
                              packetRef, holds, backing, key, kept, lost>>

\* The user takes another reference to a frame or to a packet of it, and
\* gives its references back.
ShareFrame == /\ \E f \in given : /\ frameRef[f] = 1
                                  /\ frameRef' = [frameRef EXCEPT ![f] = 2]
              /\ UNCHANGED <<loopVars, streamVars, frameKey, content, asm, given,
                             dataRef, packetRef, holds, backing, key, kept, lost>>

KeepPacket == /\ \E f \in given : \E p \in content[f] \ kept :
                   /\ kept' = kept \cup {p}
                   /\ packetRef' = [packetRef EXCEPT ![p] = @ + 1]
              /\ UNCHANGED <<loopVars, streamVars, frameVars, dataRef, holds,
                             backing, key, lost>>

ReleasePacket == /\ \E p \in kept : kept' = kept \ {p} /\ ReleasePackets({p}, {})
                 /\ UNCHANGED <<loopVars, streamVars, frameVars, backing, key, lost>>

ReleaseShare == /\ \E f \in given : /\ frameRef[f] = 2
                                    /\ frameRef' = [frameRef EXCEPT ![f] = 1]
                /\ UNCHANGED <<loopVars, streamVars, frameKey, content, asm, given,
                               dataRef, packetRef, holds, backing, key, kept, lost>>

\* mutant
ReleaseFrameOnly ==
  /\ \E f \in given : /\ frameRef[f] = 1
                      /\ frameRef' = [frameRef EXCEPT ![f] = 0]
                      /\ given' = given \ {f}
                      /\ content' = [content EXCEPT ![f] = {}]
  /\ UNCHANGED <<loopVars, streamVars, frameKey, asm, backing, key, kept, lost,
                 dataRef, packetRef, holds>>

\* The last reference: IncomingFrame.Clear, and back to the pool.
ReleaseFrame == /\ \E f \in given : /\ frameRef[f] = 1
                                    /\ frameRef' = [frameRef EXCEPT ![f] = 0]
                                    /\ given' = given \ {f}
                                    /\ content' = [content EXCEPT ![f] = {}]
                                    /\ ReleasePackets(content[f], {})
                /\ UNCHANGED <<loopVars, streamVars, frameKey, asm, backing, key,
                               kept, lost>>

Next ==
  \/ Read \/ GetPacket \/ ParseMore \/ ParsePacket \/ ParseDiscarded \/ ParseRefused
  \/ HandleForgotten \/ HandleStops \/ HandleReleased \/ HandleAppend \/ HandleNewFrame
  \/ ReadEnds \/ Exit
  \/ Rebind \/ CloseStream
  \/ ShareFrame \/ KeepPacket \/ ReleasePacket \/ ReleaseShare \/ ReleaseFrame

Spec == Init /\ [][Next]_vars
===============================================================================
