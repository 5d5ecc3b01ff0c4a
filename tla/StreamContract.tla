---------------------------- MODULE StreamContract ----------------------------
(***************************************************************************)
(* What the server package promises the Handler of one stream, whatever    *)
(* transport carries it (src/server/handler.go, abstractStream).  A stream *)
(* is registered or refused by Stream(); the callbacks HandlePacket and    *)
(* OnParseError enter and leave one at a time; OnStreamClosed runs once,   *)
(* with no other callback in progress, and no callback enters after it.    *)
(* A transport is checked against this module by refinement.               *)
(***************************************************************************)
CONSTANT Streams

VARIABLES phase,   \* phase[s]: how far the life of stream s has come
          busy     \* busy[s]: a callback of the handler of s is in progress

cvars == <<phase, busy>>

Phases == {"new", "open", "refused", "closed"}

CInit == /\ phase = [s \in Streams |-> "new"]
         /\ busy = [s \in Streams |-> FALSE]

Become(s, from, to) == /\ phase[s] = from
                       /\ phase' = [phase EXCEPT ![s] = to]
                       /\ UNCHANGED busy

Register(s) == Become(s, "new", "open")

Refuse(s) == Become(s, "new", "refused")

\* A callback starts only on an open stream that has none in progress.
Enter(s) == /\ phase[s] = "open"
            /\ ~busy[s]
            /\ busy' = [busy EXCEPT ![s] = TRUE]
            /\ UNCHANGED phase

Leave(s) == /\ busy[s]
            /\ busy' = [busy EXCEPT ![s] = FALSE]
            /\ UNCHANGED phase

\* OnStreamClosed.
Close(s) == ~busy[s] /\ Become(s, "open", "closed")

CNext == \E s \in Streams :
           Register(s) \/ Refuse(s) \/ Enter(s) \/ Leave(s) \/ Close(s)

CSpec == CInit /\ [][CNext]_cvars
===============================================================================
