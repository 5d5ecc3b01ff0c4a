----------------------------- MODULE TimeoutTimer -----------------------------
(***************************************************************************)
(* timeoutTimer (src/server/timeout-timer.go): the time something was last *)
(* heard of, a timeout, and between Init and Close a runtime timer whose   *)
(* callback, in a goroutine of its own, runs f and then Close.  Init,      *)
(* SetTimeout and Close exclude each other by timerLock; a callback that   *)
(* has begun cannot be stopped.                                            *)
(***************************************************************************)
EXTENDS Naturals

CONSTANTS Timers,    \* runtime timers, one for each Init that makes one
          None,
          Timeouts,  \* what the timeout may be set to, 0 for none
          MaxTime, MaxCalls   \* bounds: the clock, calls of Init

ASSUME TimerAssumption ==
  /\ None \notin Timers /\ Timeouts \subseteq Nat
  /\ MaxTime \in Nat /\ MaxCalls \in Nat

VARIABLES
  clock, calls,
  time, timeout, timer,
  armed,      \* runtime timers that will fire
  at,         \* when
  used,       \* runtime timers made so far
  callbacks,  \* of each: goroutines that have f to run, and Close
  (* history *)
  begun,      \* between Init that made a timer and Close, or a timeout of 0
  ran         \* f has run

settings == <<time, timeout, timer>>
runtime == <<armed, at, used>>
history == <<begun, ran>>
vars == <<clock, calls, settings, runtime, callbacks, history>>

Stages == {"f", "close"}

Init ==
  /\ clock = 0 /\ calls = 0
  /\ time = 0 /\ timeout \in Timeouts /\ timer = None
  /\ armed = {} /\ at = [t \in Timers |-> 0] /\ used = {}
  /\ callbacks = [t \in Timers |-> {}]
  /\ begun = FALSE /\ ran = FALSE

Larger(a, b) == IF a < b THEN b ELSE a

\* mutant
StartAgain ==
  /\ calls < MaxCalls
  /\ calls' = calls + 1
  /\ timeout > 0
  /\ \E t \in Timers \ used : /\ timer' = t
                              /\ used' = used \cup {t}
                              /\ armed' = armed \cup {t}
                              /\ at' = [at EXCEPT ![t] = clock + timeout]
  /\ time' = clock /\ begun' = TRUE
  /\ UNCHANGED <<clock, timeout, callbacks, ran>>

\* timeoutTimer.Init(f).
Start ==
  /\ calls < MaxCalls
  /\ calls' = calls + 1
  /\ IF timer # None THEN UNCHANGED <<settings, runtime, begun>>
     ELSE /\ time' = clock
          /\ \/ /\ timeout = 0
                /\ UNCHANGED <<timer, runtime, begun>>
             \/ /\ timeout > 0
                /\ \E t \in Timers \ used :
                     /\ timer' = t
                     /\ used' = used \cup {t}
                     /\ armed' = armed \cup {t}
                     /\ at' = [at EXCEPT ![t] = clock + timeout]
                /\ begun' = TRUE
          /\ UNCHANGED timeout
  /\ UNCHANGED <<clock, callbacks, ran>>

\* Stop, and forget the timer; one that has fired stays so.
Forget == armed' = armed \ {timer} /\ timer' = None

\* By who called Init; the callback calls it as well.
Close == /\ Forget
         /\ timer # None
         /\ begun' = FALSE
         /\ UNCHANGED <<clock, calls, time, timeout, at, used, callbacks, ran>>

\* mutants
RearmNever(v) == UNCHANGED <<armed, at, timer, begun>>
RearmPassed(v) == /\ armed' = IF time + v > clock THEN armed \cup {timer}
                                                  ELSE armed \ {timer}
                  /\ at' = [at EXCEPT ![timer] = time + v]
                  /\ UNCHANGED <<timer, begun>>

\* Reset arms a timer again that has fired and is not closed yet.
Rearm(v) == /\ armed' = armed \cup {timer}
            /\ at' = [at EXCEPT ![timer] = Larger(clock, time + v)]
            /\ UNCHANGED <<timer, begun>>

SetTimeout(v) ==
  /\ timeout' = v
  /\ \/ timer = None /\ UNCHANGED <<timer, armed, at, begun>>
     \/ timer # None /\ v = 0 /\ Forget /\ begun' = FALSE /\ UNCHANGED at
     \/ timer # None /\ v > 0 /\ Rearm(v)
  /\ UNCHANGED <<clock, calls, time, used, callbacks, ran>>

\* Servers and channels stamp what has no timer running: a stream bound to a
\* channel or to a UDP server.
SetTime == /\ timer = None
           /\ time # clock
           /\ time' = clock
           /\ UNCHANGED <<clock, calls, timeout, timer, runtime, callbacks, history>>

\* The runtime starts the callback.
Fire(t) == /\ t \in armed
           /\ at[t] <= clock
           /\ "f" \notin callbacks[t]
           /\ armed' = armed \ {t}
           /\ callbacks' = [callbacks EXCEPT ![t] = @ \cup {"f"}]
           /\ UNCHANGED <<clock, calls, settings, at, used, history>>

RunF(t) == /\ "f" \in callbacks[t] /\ "close" \notin callbacks[t]
           /\ callbacks' = [callbacks EXCEPT ![t] = (@ \ {"f"}) \cup {"close"}]
           /\ ran' = TRUE
           /\ UNCHANGED <<clock, calls, settings, runtime, begun>>

\* Whatever timer there is now is closed, with the one that fired or not.
CallbackCloses(t) ==
  /\ "close" \in callbacks[t]
  /\ callbacks' = [callbacks EXCEPT ![t] = @ \ {"close"}]
  /\ Forget
  /\ UNCHANGED <<clock, calls, time, timeout, at, used, history>>

Tick == /\ clock < MaxTime
        /\ clock' = clock + 1
        /\ UNCHANGED <<calls, settings, runtime, callbacks, history>>

Next == \/ Start \/ Close \/ SetTime \/ Tick
        \/ \E v \in Timeouts : SetTimeout(v)
        \/ \E t \in Timers : Fire(t) \/ RunF(t) \/ CallbackCloses(t)

Spec == Init /\ [][Next]_vars

\* The runtime fires what is due and runs what it fired; time passes.
FairSpec == /\ Spec /\ WF_vars(Tick)
            /\ \A t \in Timers : WF_vars(Fire(t)) /\ WF_vars(RunF(t))
                                   /\ WF_vars(CallbackCloses(t))
===============================================================================
