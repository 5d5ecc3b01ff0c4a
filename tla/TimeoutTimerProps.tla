--------------------------- MODULE TimeoutTimerProps ---------------------------
(* What must hold of a timeout that is set, moved, stopped and late. *)
EXTENDS TimeoutTimer

TypeOK ==
  /\ clock \in 0 .. MaxTime /\ calls \in 0 .. MaxCalls
  /\ time \in 0 .. clock /\ timeout \in Timeouts /\ timer \in Timers \cup {None}
  /\ armed \subseteq Timers /\ used \subseteq Timers /\ at \in [Timers -> Nat]
  /\ callbacks \in [Timers -> SUBSET Stages]
  /\ begun \in BOOLEAN /\ ran \in BOOLEAN

\* A runtime timer that will fire can still be stopped: it is the one that
\* Close and SetTimeout stop, whatever late callbacks did meanwhile.
NoOrphan == armed \subseteq {timer}

\* Nothing fires before the timeout in force has passed since the time of
\* last use, moved by SetTimeout or not, and nothing fires without a timeout.
NotEarly == \A t \in armed : timeout > 0 /\ at[t] >= time + timeout

\* What Init began is never forgotten: until Close or a timeout of 0, a timer
\* is armed, its callback is on its way, or f has run, which in every use ends
\* what the timer guards (TCPServer.removeStream, TCPChannel.Close).  Without
\* that use it would not hold: the Close of a callback that has run f stops
\* the timer of an Init in between.
Guarded == begun => armed # {} \/ ran \/ \E t \in Timers : "f" \in callbacks[t]

\* So f runs in the end, unless the timer is closed or set to 0, as long as
\* the timeout ends within the bound of the clock.
RunsInTheEnd ==
  (begun /\ \A t \in armed : at[t] <= MaxTime) ~>
     (ran \/ ~begun \/ \E t \in armed : at[t] > MaxTime)
===============================================================================
