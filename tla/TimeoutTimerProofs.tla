-------------------------- MODULE TimeoutTimerProofs --------------------------
(* Proofs about a timeout, for any timers, timeouts and calls.              *)
EXTENDS TimeoutTimerProps, TLAPS

USE TimerAssumption DEF settings, runtime, history

\* Who closes after f has run it: the only Close that no one asked for.
LateCloseHasRun == \A t \in Timers : "close" \in callbacks[t] => ran

\* The inductive invariant.
Inv == TypeOK /\ NoOrphan /\ NotEarly /\ LateCloseHasRun /\ Guarded

LEMMA InitInv == Init => Inv
<1> SUFFICES ASSUME Init PROVE Inv
  OBVIOUS
<1>1. TypeOK
  <2>1. /\ clock \in 0 .. MaxTime /\ calls \in 0 .. MaxCalls /\ time \in 0 .. clock
        /\ timeout \in Timeouts /\ timer \in Timers \cup {None}
    BY DEF Init
  <2>2. armed \subseteq Timers /\ used \subseteq Timers /\ at \in [Timers -> Nat]
    BY DEF Init
  <2>3. callbacks \in [Timers -> SUBSET Stages]
    BY DEF Init
  <2>4. begun \in BOOLEAN /\ ran \in BOOLEAN
    BY DEF Init
  <2> QED
    BY <2>1, <2>2, <2>3, <2>4 DEF TypeOK
<1>2. NoOrphan /\ NotEarly /\ LateCloseHasRun
  BY DEF Init, NoOrphan, NotEarly, LateCloseHasRun
<1>3. Guarded
  BY DEF Init, Guarded
<1> QED
  BY <1>1, <1>2, <1>3 DEF Inv

LEMMA StartInv == ASSUME Inv, Start PROVE Inv'
<1>1. TypeOK'
  <2>1. /\ clock' = clock /\ calls' = calls + 1 /\ calls < MaxCalls
        /\ UNCHANGED <<timeout, callbacks, ran>> /\ time' \in {time, clock}
    BY DEF Start
  <2>2. /\ clock' \in 0 .. MaxTime /\ calls' \in 0 .. MaxCalls
        /\ time' \in 0 .. clock' /\ timeout' \in Timeouts
        /\ callbacks' \in [Timers -> SUBSET Stages]
    BY <2>1 DEF Inv, TypeOK
  <2>3. ran' \in BOOLEAN /\ begun' \in BOOLEAN
    BY DEF Inv, TypeOK, Start
  <2>4. CASE UNCHANGED <<timer, armed, at, used>>
    BY <2>2, <2>3, <2>4 DEF Inv, TypeOK
  <2>5. CASE \E t \in Timers : /\ timer' = t /\ used' = used \cup {t}
                               /\ armed' = armed \cup {t}
                               /\ at' = [at EXCEPT ![t] = clock + timeout]
    <3>1. clock + timeout \in Nat
      BY DEF Inv, TypeOK
    <3>2. /\ timer' \in Timers \cup {None} /\ used' \subseteq Timers
          /\ armed' \subseteq Timers /\ at' \in [Timers -> Nat]
      BY <2>5, <3>1 DEF Inv, TypeOK
    <3> QED
      BY <2>2, <2>3, <3>2 DEF TypeOK
  <2> QED
    BY <2>4, <2>5 DEF Start
<1>2. CASE timer # None \/ timeout = 0
  <2>1. UNCHANGED <<timer, armed, at, timeout, callbacks, ran, begun>>
    BY <1>2 DEF Inv, TypeOK, Start
  <2>2. armed # {} => time' = time
    BY <1>2 DEF Inv, TypeOK, NoOrphan, Start
  <2>3. NotEarly'
    BY <2>1, <2>2 DEF Inv, NotEarly
  <2> QED
    BY <1>1, <2>1, <2>3 DEF Inv, NoOrphan, LateCloseHasRun, Guarded
<1>3. CASE timer = None /\ timeout # 0
  <2>1. armed = {}
    BY <1>3 DEF Inv, TypeOK, NoOrphan
  <2>2. PICK t \in Timers : /\ timer' = t /\ armed' = armed \cup {t}
                            /\ at' = [at EXCEPT ![t] = clock + timeout]
    BY <1>3 DEF Start
  <2>3. armed' = {t} /\ at'[t] = clock + timeout /\ time' = clock
          /\ UNCHANGED <<timeout, callbacks, ran>>
    BY <1>3, <2>1, <2>2 DEF Inv, TypeOK, Start
  <2>4. timeout \in Nat /\ clock \in Nat /\ timeout > 0
    BY <1>3 DEF Inv, TypeOK
  <2>5. NoOrphan' /\ Guarded'
    BY <2>2, <2>3 DEF NoOrphan, Guarded
  <2>6. NotEarly'
    BY <2>3, <2>4 DEF NotEarly
  <2>7. LateCloseHasRun'
    BY <2>3 DEF Inv, LateCloseHasRun
  <2> QED
    BY <1>1, <2>5, <2>6, <2>7 DEF Inv
<1> QED
  BY <1>2, <1>3

LEMMA SetTimeoutInv == ASSUME Inv, NEW v \in Timeouts, SetTimeout(v) PROVE Inv'
<1>1. time \in Nat /\ clock \in Nat /\ v \in Nat
  BY DEF Inv, TypeOK
<1>2. Larger(clock, time + v) \in Nat /\ Larger(clock, time + v) >= time + v
  BY <1>1 DEF Larger
<1>3. UNCHANGED <<time, callbacks, ran>> /\ timeout' = v
  BY DEF SetTimeout
<1>4. CASE timer = None
  <2>1. armed' = {} /\ UNCHANGED <<timer, begun, at, armed>>
    BY <1>4 DEF Inv, TypeOK, NoOrphan, SetTimeout
  <2>2. TypeOK' /\ NoOrphan' /\ NotEarly'
    BY <1>3, <2>1 DEF Inv, TypeOK, NoOrphan, NotEarly, SetTimeout
  <2>3. LateCloseHasRun' /\ Guarded'
    BY <1>3, <2>1 DEF Inv, LateCloseHasRun, Guarded
  <2> QED
    BY <2>2, <2>3 DEF Inv
<1>5. CASE timer # None /\ v = 0
  <2>1. armed' = {} /\ timer' = None /\ begun' = FALSE /\ at' = at
    BY <1>5 DEF Inv, TypeOK, NoOrphan, SetTimeout, Forget
  <2>2. TypeOK'
    BY <1>3, <2>1 DEF Inv, TypeOK, SetTimeout
  <2>4. NoOrphan' /\ NotEarly'
    BY <2>1 DEF NoOrphan, NotEarly
  <2>3. LateCloseHasRun' /\ Guarded'
    BY <1>3, <2>1 DEF Inv, LateCloseHasRun, Guarded
  <2> QED
    BY <2>2, <2>3, <2>4 DEF Inv
<1>6. CASE timer # None /\ v > 0
  <2>1. /\ armed' = {timer} /\ UNCHANGED <<timer, begun>> /\ timer \in Timers
        /\ at' = [at EXCEPT ![timer] = Larger(clock, time + v)]
    BY <1>1, <1>6 DEF Inv, TypeOK, NoOrphan, SetTimeout, Rearm
  <2>2. TypeOK'
    BY <1>2, <1>3, <2>1 DEF Inv, TypeOK, SetTimeout
  <2>3. at'[timer] = Larger(clock, time + v)
    BY <2>1 DEF Inv, TypeOK
  <2> QED
    BY <1>2, <1>3, <1>6, <2>1, <2>2, <2>3
       DEF Inv, NoOrphan, NotEarly, LateCloseHasRun, Guarded
<1> QED
  BY <1>1, <1>4, <1>5, <1>6

LEMMA CallbackInv ==
  ASSUME Inv, NEW t \in Timers, Fire(t) \/ RunF(t) \/ CallbackCloses(t)
  PROVE  Inv'
<1>1. CASE Fire(t)
  <2>1. callbacks'[t] = callbacks[t] \cup {"f"}
          /\ \A u \in Timers \ {t} : callbacks'[u] = callbacks[u]
    BY <1>1 DEF Inv, TypeOK, Fire
  <2> QED
    BY <1>1, <2>1
       DEF Inv, TypeOK, NoOrphan, NotEarly, LateCloseHasRun, Guarded, Fire, Stages
<1>2. CASE RunF(t)
  BY <1>2 DEF Inv, TypeOK, NoOrphan, NotEarly, LateCloseHasRun, Guarded, RunF, Stages
<1>3. CASE CallbackCloses(t)
  <2>1. ran /\ ran' = ran
    BY <1>3 DEF Inv, LateCloseHasRun, CallbackCloses
  <2>2. armed' = {} /\ timer' = None
    BY <1>3 DEF Inv, NoOrphan, CallbackCloses, Forget
  <2> QED
    BY <1>3, <2>1, <2>2
       DEF Inv, TypeOK, NoOrphan, NotEarly, LateCloseHasRun, Guarded, CallbackCloses
<1> QED
  BY <1>1, <1>2, <1>3

LEMMA NextInv == ASSUME Inv, [Next]_vars PROVE Inv'
<1>1. CASE Start
  BY <1>1, StartInv
<1>2. CASE Close
  BY <1>2 DEF Inv, TypeOK, NoOrphan, NotEarly, LateCloseHasRun, Guarded, Close, Forget
<1>3. CASE SetTime
  BY <1>3 DEF Inv, TypeOK, NoOrphan, NotEarly, LateCloseHasRun, Guarded, SetTime
<1>4. CASE Tick
  BY <1>4 DEF Inv, TypeOK, NoOrphan, NotEarly, LateCloseHasRun, Guarded, Tick
<1>5. ASSUME NEW v \in Timeouts, SetTimeout(v) PROVE Inv'
  BY <1>5, SetTimeoutInv
<1>6. ASSUME NEW t \in Timers, Fire(t) \/ RunF(t) \/ CallbackCloses(t) PROVE Inv'
  BY <1>6, CallbackInv
<1>7. CASE UNCHANGED vars
  BY <1>7 DEF vars, Inv, TypeOK, NoOrphan, NotEarly, LateCloseHasRun, Guarded
<1> QED
  BY <1>1, <1>2, <1>3, <1>4, <1>5, <1>6, <1>7 DEF Next

LEMMA Invariance == Spec => []Inv
  BY InitInv, NextInv, PTL DEF Spec

\* Types, and that no time lies ahead of the clock.
THEOREM TypeCorrect == Spec => []TypeOK
  BY Invariance, PTL DEF Inv

\* However late callbacks come, the one runtime timer that may still fire is
\* the one that Close and SetTimeout stop (timeout-timer.go:43, 76).
THEOREM TimerCanBeStopped == Spec => []NoOrphan
  BY Invariance, PTL DEF Inv

\* No timer fires before the timeout in force has passed since the last use.
THEOREM NeverEarly == Spec => []NotEarly
  BY Invariance, PTL DEF Inv

\* What Init began is not forgotten before f has run, Close or a timeout of 0.
THEOREM NeverForgotten == Spec => []Guarded
  BY Invariance, PTL DEF Inv
===============================================================================
