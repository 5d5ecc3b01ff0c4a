---------------------------- MODULE StreamDispatch ----------------------------
(***************************************************************************)
(* A stream receiving datagrams (src/server/stream.go, HandlePacket,       *)
(* OnParseError, OnStreamClosed) behind a keepChooserHandler               *)
(* (keep-chooser.go).  The read loop calls HandlePacket, which holds       *)
(* handlerLock but reads and latches the remote address and the SSRC with  *)
(* atomic operations of their own: users set both at any time.  The sender *)
(* numbers its packets modulo 2^16 (here W); the network loses, reorders   *)
(* and duplicates them, and brings those of other senders.                 *)
(***************************************************************************)
EXTENDS KeepChooser, Integers

CONSTANTS Addrs, SSRCs, NoAddr, NoSSRC,
          Me, MySSRC,    \* the sender that is meant
          W,             \* sequence numbers, 2^16 in the code
          FirstSeq,
          MaxSent, MaxEvents, MaxSets, MaxTime
          \* bounds: packets sent, datagrams received, user calls, clock

ASSUME DispatchAssumption ==
  /\ Me \in Addrs /\ MySSRC \in SSRCs /\ NoAddr \notin Addrs /\ NoSSRC \notin SSRCs
  /\ W \in Nat \ {0} /\ FirstSeq \in 0 .. W - 1 /\ MaxSent \in Nat

VARIABLES
  clock, events,   \* time; datagrams received so far
  sets,        \* calls of SetRemoteAddr and SetSSRC so far
  pc, packet,  \* where HandlePacket is, and its packet
  addr, ssrc,  \* remoteAddr, ssrc
  isInit, seq, \* of the loss count
  closed,
  chooser,     \* of the handler
  (* history *)
  accepted,    \* packets given to the handler of this stream, till it is closed
  losses,      \* sum of what OnLossPacket was told
  touched,     \* whether a user has set the address or SSRC of this stream
  addrsInForce, ssrcsInForce,   \* their values since HandlePacket began
  calls        \* what the chooser was told and answered for this stream

streamVars == <<addr, ssrc, isInit, seq, closed, accepted, losses, touched>>
forceVars == <<addrsInForce, ssrcsInForce>>
vars == <<clock, events, sets, pc, packet, streamVars, forceVars, chooser, calls>>

\* newUDPStream: the address and SSRC may be given or left open.
NewStream(a, r) ==
  /\ addr' = a /\ ssrc' = r
  /\ isInit' = FALSE /\ seq' = 0 /\ closed' = FALSE
  /\ accepted' = <<>> /\ losses' = 0 /\ touched' = FALSE

NoPacket == [addr |-> NoAddr, ssrc |-> NoSSRC, n |-> 0]

Init ==
  /\ clock = 0 /\ events = 0 /\ sets = 0
  /\ pc = "idle" /\ packet = NoPacket
  /\ addr \in {NoAddr, Me} /\ ssrc \in {NoSSRC, MySSRC}
  /\ isInit = FALSE /\ seq = 0 /\ closed = FALSE
  /\ accepted = <<>> /\ losses = 0 /\ touched = FALSE
  /\ addrsInForce = {} /\ ssrcsInForce = {}
  /\ chooser = NewChooser /\ calls = <<>>

SeqOf(p) == (FirstSeq + p.n) % W

Told(what, keep) == calls' = Append(calls, [what |-> what, at |-> clock, keep |-> keep])

(* -------------------------------- network ------------------------------- *)

\* Only the chooser reads the time, so it passes between the calls.
Tick == /\ pc = "idle"
        /\ clock < MaxTime
        /\ clock' = clock + 1
        /\ UNCHANGED <<events, sets, pc, packet, streamVars, forceVars, chooser, calls>>

\* Of the packets that were sent any may arrive, in any order, again or never;
\* others come from other addresses or sources.
Mine == {[addr |-> Me, ssrc |-> MySSRC, n |-> n] : n \in 0 .. MaxSent - 1}
Others == [addr : Addrs, ssrc : SSRCs, n : {0}] \ [addr : {Me}, ssrc : {MySSRC}, n : {0}]

(* ----------------------------- HandlePacket ----------------------------- *)

Receiving == pc = "idle" /\ events < MaxEvents /\ events' = events + 1

\* The lock, the test of closed and the first CompareAndSwap.
HandlePacket ==
  /\ Receiving
  /\ ~closed
  /\ packet' \in Mine \cup Others
  /\ addr' = IF addr = NoAddr THEN packet'.addr ELSE addr
  /\ pc' = IF addr = NoAddr THEN "ssrc" ELSE "compareAddr"
  /\ addrsInForce' = {addr'}
  /\ ssrcsInForce' = {ssrc}
  /\ UNCHANGED <<clock, sets, ssrc, isInit, seq, closed, accepted, losses, touched,
                 chooser, calls>>

\* HandlePacket is done with the packet; one that does not match is released.
Done == pc' = "idle" /\ packet' = NoPacket /\ addrsInForce' = {} /\ ssrcsInForce' = {}

\* mutant
CompareAddrSkipped ==
  /\ pc = "compareAddr"
  /\ pc' = "ssrc"
  /\ UNCHANGED <<clock, events, sets, packet, streamVars, forceVars, chooser, calls>>

\* The address is loaded again: a user may have opened it since the first
\* CompareAndSwap has failed, and then the nil pointer is followed.
CompareAddr ==
  /\ pc = "compareAddr"
  /\ \/ /\ addr = NoAddr
        /\ pc' = "panicked"
        /\ UNCHANGED <<packet, forceVars>>
     \/ /\ addr = packet.addr
        /\ pc' = "ssrc"
        /\ UNCHANGED <<packet, forceVars>>
     \/ addr \notin {NoAddr, packet.addr} /\ Done
  /\ UNCHANGED <<clock, events, sets, streamVars, chooser, calls>>

LatchSSRC ==
  /\ pc = "ssrc"
  /\ ssrc' = IF ssrc = NoSSRC THEN packet.ssrc ELSE ssrc
  /\ pc' = IF ssrc = NoSSRC THEN "count" ELSE "compareSSRC"
  /\ ssrcsInForce' = ssrcsInForce \cup {ssrc'}
  /\ UNCHANGED <<clock, events, sets, packet, addr, isInit, seq, closed, accepted,
                 losses, touched, addrsInForce, chooser, calls>>

\* mutant
CompareSSRCSkipped ==
  /\ pc = "compareSSRC"
  /\ pc' = "count"
  /\ UNCHANGED <<clock, events, sets, packet, streamVars, forceVars, chooser, calls>>

CompareSSRC ==
  /\ pc = "compareSSRC"
  /\ IF ssrc = packet.ssrc THEN pc' = "count" /\ UNCHANGED <<packet, forceVars>> ELSE Done
  /\ UNCHANGED <<clock, events, sets, streamVars, chooser, calls>>

\* The difference is taken in uint16; the callback is told one less.
Diff == (SeqOf(packet) - seq) % W
\* mutant
ReportedForward == IF ~isInit \/ Diff <= 1 THEN 0 ELSE Diff - 1

Reported == IF ~isInit \/ Diff = 1 THEN 0 ELSE (Diff - 1) % W

\* The loss count and the handler, which tells its chooser of a success.
Accept ==
  /\ pc = "count"
  /\ losses' = losses + Reported
  /\ isInit' = TRUE
  /\ seq' = SeqOf(packet)
  /\ accepted' = Append(accepted, packet)
  /\ chooser' = OnSuccess(chooser)
  /\ Told("success", TRUE)
  /\ Done
  /\ UNCHANGED <<clock, events, sets, addr, ssrc, closed, touched>>

\* A datagram that does not parse: the wrapped handler decides, then the
\* chooser.  Otherwise the server removes the stream.
ParseError ==
  LET r == OnError(chooser, clock)
  IN  /\ Receiving
      /\ ~closed
      /\ \/ /\ chooser' = r.chooser
            /\ Told("error", r.keep)
            /\ pc' = IF r.keep THEN "idle" ELSE "remove"
         \/ /\ pc' = "remove"
            /\ UNCHANGED <<chooser, calls>>
      /\ UNCHANGED <<clock, sets, packet, streamVars, forceVars>>

\* OnStreamClosed, which resets the chooser; by the loop, or by another as
\* soon as HandlePacket has let go of the lock.
CloseStream ==
  /\ pc \in {"idle", "remove"}
  /\ ~closed
  /\ closed' = TRUE
  /\ chooser' = Reset(chooser)
  /\ pc' = "idle"
  /\ calls' = <<>> /\ accepted' = <<>> /\ losses' = 0
  /\ UNCHANGED <<clock, events, sets, packet, addr, ssrc, isInit, seq, touched, forceVars>>

(* --------------------------------- users -------------------------------- *)

Setting == ~closed /\ pc # "panicked" /\ sets < MaxSets /\ sets' = sets + 1

\* A nil *net.UDPAddr is stored like any other: the address is open again.
SetRemoteAddr ==
  /\ Setting
  /\ \E a \in Addrs \cup {NoAddr} : a # addr /\ addr' = a
  /\ addrsInForce' = IF pc = "idle" THEN {} ELSE addrsInForce \cup {addr'}
  /\ touched' = TRUE
  /\ UNCHANGED <<clock, events, pc, packet, ssrc, isInit, seq, closed, accepted,
                 losses, ssrcsInForce, chooser, calls>>

SetSSRC ==
  /\ Setting
  /\ \E r \in SSRCs \cup {NoSSRC} : r # ssrc /\ ssrc' = r
  /\ ssrcsInForce' = IF pc = "idle" THEN {} ELSE ssrcsInForce \cup {ssrc'}
  /\ touched' = TRUE
  /\ UNCHANGED <<clock, events, pc, packet, addr, isInit, seq, closed, accepted,
                 losses, addrsInForce, chooser, calls>>

\* Another stream with the same handler.
Reuse == /\ closed
         /\ events < MaxEvents
         /\ NewStream(NoAddr, NoSSRC)
         /\ UNCHANGED <<clock, events, sets, pc, packet, forceVars, chooser, calls>>

Next == \/ Tick
        \/ HandlePacket \/ CompareAddr \/ LatchSSRC \/ CompareSSRC \/ Accept
        \/ ParseError \/ CloseStream
        \/ SetRemoteAddr \/ SetSSRC \/ Reuse

Spec == Init /\ [][Next]_vars
===============================================================================
