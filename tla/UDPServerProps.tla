---------------------------- MODULE UDPServerProps ----------------------------
(* What must hold of the UDP server. *)
EXTENDS UDPServer, FiniteSets

\* Where the local variable of the goroutine must hold a stream.
UsesCur == {"expired", "handle", "handling", "remove", "drop", "exitDrop"}

\* Types, and no nil pointer is followed: the local stream and the listener
\* are there where the read loop uses them.
TypeOK ==
  /\ call \in [Streams -> {"new", "open", "refused"}]
  /\ closed \in [Streams -> BOOLEAN]
  /\ busy \in [Streams -> BOOLEAN]
  /\ stamped \in [Streams -> BOOLEAN]
  /\ bound \in StreamOrNil
  /\ displaced \in StreamOrNil
  /\ removing \in [Streams -> {"no", "drop", "close"}]
  /\ listening \in BOOLEAN
  /\ lsnFlag \in BOOLEAN
  /\ socket \in {"none", "open", "closed"}
  /\ deadline \in {"none", "ahead", "passed"}
  /\ spc \in RunPCs \cup {"idle", "failed", "done"}
  /\ cur \in StreamOrNil
  /\ spc \in UsesCur => cur # NoStream
  /\ spc \in RunPCs \ {"swap", "exitDrop"} => listening

Open(s) == call[s] = "open" /\ ~closed[s]

\* The places of a stream, each with the party that will close it.
Holding(s) ==
  {p \in {"bound", "displaced", "dropping", "removing"} :
     \/ p = "bound" /\ bound = s
     \/ p = "displaced" /\ displaced = s
     \/ p = "dropping" /\ spc \in {"drop", "exitDrop"} /\ cur = s
     \/ p = "removing" /\ removing[s] = "drop"}

\* An open stream is in exactly one place and a closed one in none, whatever
\* the interleaving of Stream(), RemoveStream(), the read loop and the end of
\* the server: every stream is closed, by one party (bindStream, removeStream
\* and the deferred part of run).
OneOwner == \A s \in Streams :
  IF Open(s) THEN \E p \in Holding(s) : Holding(s) = {p} ELSE Holding(s) = {}

\* A server that has ended leaves no stream open but one that a call of
\* RemoveStream is about to close (run, deferred).
ShutdownComplete ==
  spc = "done" => \A s \in Streams : Open(s) => removing[s] = "drop"

\* Unlike on TCP, the read loop never judges a timeout by the zero time: the
\* time is set under the listener's lock before the swap, or by start().
JudgedByOwnTime == bound # NoStream /\ listening => stamped[bound]

\* The callbacks of every stream keep the contract of a Handler.
Phase == [s \in Streams |-> IF closed[s] THEN "closed" ELSE call[s]]

Contract == INSTANCE StreamContract WITH phase <- Phase

HandlerContract == Contract!CSpec

-------------------------------------------------------------------------------
(* Liveness, under FairSpec. *)

\* A server told to close stops.
CloseTerminates == lsnFlag ~> spc = "done"

\* Each stream open when the server is told to close is told so.
StreamsClosedAtShutdown ==
  \A s \in Streams : (lsnFlag /\ Open(s)) ~> closed[s]

\* With the option closeOnStreamClosed the server stops when a stream is
\* removed from it, by its user or by the read loop, unless the stream was
\* registered to keep the connection (removeStream).
ServerFollowsStream ==
  CloseOnStreamClosed => \A s \in Streams \ KeepConn :
    /\ (Started /\ removing[s] = "drop") ~> spc = "done"
    /\ (spc = "drop" /\ cur = s) ~> spc = "done"

-------------------------------------------------------------------------------
(* What the repository says of itself and the code does not keep.          *)
(* README.md, section 3, names the instance that refutes each.             *)

\* tools/rtp-dumper/rtp-dumper.go:66: a timeout of 0 never times out.
TimeoutZeroNeverExpires == spc = "expired" => cur \in Timed

\* udp-server.go:292: the time of a stream bound while the server listens is
\* set for its timeout to be judged by, so the read loop does not wait for
\* ever on a silent peer with a timed stream bound.
SilentStreamTimesOut == []<>~(spc = "wait" /\ bound \in Timed)
===============================================================================
