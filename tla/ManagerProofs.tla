----------------------------- MODULE ManagerProofs -----------------------------
(***************************************************************************)
(* Theorems about Manager, for every value of its constants.               *)
(***************************************************************************)
EXTENDS ManagerProps, TLAPS, FiniteSetTheorems

USE ManagerAssumption
    DEF serverVars, tracerVars, contextVars, userVars, stopVars, UserGoto

-------------------------------------------------------------------------------
(* Types                                                                   *)

LEMMA NextOfRing == ASSUME NEW i \in Contexts PROVE (i + 1) % N \in Contexts
  BY DEF Contexts

LEMMA InitTypeOK == Init => TypeOK
<1>1. 0 \in Contexts
  BY DEF Contexts
<1> QED
  BY <1>1 DEF Init, TypeOK, HasContext, Starts

LEMMA NextTypeOK ==
  ASSUME TypeOK, [Next]_vars
  PROVE  TypeOK'
<1> USE DEF TypeOK, HasContext, Starts
<1>1. ASSUME NEW u \in Users, Alloc(u) PROVE TypeOK'
  BY <1>1 DEF Alloc
<1>2. ASSUME NEW u \in Users, Probe(u) PROVE TypeOK'
  <2> DEFINE x == curIndex
  <2>0. /\ x \in Contexts
        /\ curIndex' \in Contexts
        /\ UNCHANGED <<stopped, server, ran, tracers, seen, mpc, sweepAt, startWait,
                       startedOk, closeWait>>
        /\ pc[u] = "scan"
    BY <1>2, NextOfRing DEF Probe
  <2>1. CASE Allocatable(x)
    <3>1. /\ used' = [used EXCEPT ![x] = used[x] + 1]
          /\ at' = [at EXCEPT ![u] = x]
          /\ pc' = [pc EXCEPT ![u] = "using"]
          /\ tries' = [tries EXCEPT ![u] = 0]
          /\ starting' = starting
      BY <1>2, <2>1 DEF Probe
    <3>2. ~stopped[x]
      BY <2>1 DEF Allocatable
    <3>3. used' \in [Contexts -> Nat]
      BY <2>0, <3>1
    <3> QED
      BY <2>0, <3>1, <3>2, <3>3
  <2>2. CASE ~Allocatable(x) /\ Startable(x)
    <3>1. /\ used' = [used EXCEPT ![x] = used[x] + 1]
          /\ at' = [at EXCEPT ![u] = x]
          /\ pc' = [pc EXCEPT ![u] = "starting"]
          /\ starting' = [starting EXCEPT ![x] = TRUE]
          /\ tries' = tries
      BY <1>2, <2>2 DEF Probe
    <3>2. stopped[x] /\ ~starting[x]
      BY <2>2 DEF Startable
    <3>3. used' \in [Contexts -> Nat]
      BY <2>0, <3>1
    <3> QED
      BY <2>0, <3>1, <3>2, <3>3
  <2>3. CASE ~Allocatable(x) /\ ~Startable(x)
    <3>1. /\ TryAgain(u, "scan")
          /\ UNCHANGED <<used, starting, at>>
      BY <1>2, <2>3 DEF Probe
    <3>2. /\ pc' = [pc EXCEPT ![u] = "idle"] \/ pc' = [pc EXCEPT ![u] = "scan"]
          /\ tries' \in [Users -> Nat]
      BY <3>1 DEF TryAgain, Tried
    <3>3. CASE pc' = [pc EXCEPT ![u] = "idle"]
      BY <2>0, <3>1, <3>2, <3>3
    <3>4. CASE pc' = [pc EXCEPT ![u] = "scan"]
      BY <2>0, <3>1, <3>2, <3>4
    <3> QED
      BY <3>2, <3>3, <3>4
  <2> QED
    BY <2>1, <2>2, <2>3
<1>3. ASSUME NEW u \in Users, StartSucceeds(u) PROVE TypeOK'
  BY <1>3 DEF StartSucceeds
<1>4. ASSUME NEW u \in Users, StartFails(u) PROVE TypeOK'
  BY <1>4 DEF StartFails
<1>5. ASSUME NEW u \in Users, KeepStarted(u) PROVE TypeOK'
  BY <1>5 DEF KeepStarted, CloseTraced, CloseServer, Forget
<1>6. ASSUME NEW u \in Users, GiveUpStart(u) PROVE TypeOK'
  BY <1>6 DEF GiveUpStart, TryAgain, Tried, UsedAfterFailure, Forget
<1>7. ASSUME NEW u \in Users, Free(u) PROVE TypeOK'
  BY <1>7 DEF Free, FreeContext, CloseTraced, CloseServer, Forget
<1>8. ASSUME NEW x \in Contexts, ServerDown(x) PROVE TypeOK'
  BY <1>8 DEF ServerDown
<1>9. ASSUME NEW x \in Contexts, TracerSees(x) PROVE TypeOK'
  BY <1>9 DEF TracerSees
<1>10. ASSUME NEW x \in Contexts, TracerMarks(x) PROVE TypeOK'
  BY <1>10 DEF TracerMarks
<1>11. CASE Interrupt
  BY <1>11 DEF Interrupt
<1>12. CASE Sweep
  <2>1. sweepAt \in Contexts
    BY <1>12 DEF Sweep
  <2>2. sweepAt + 1 \in Nat /\ (sweepAt + 1 # N => sweepAt + 1 \in Contexts)
    BY <2>1 DEF Contexts
  <2>3. /\ mpc' \in {"sweep", "waitStarted"}
        /\ sweepAt' \in Nat
        /\ mpc' = "sweep" => sweepAt' \in Contexts
    BY <1>12, <2>2 DEF Sweep, NextToSweep
  <2>4. used' \in [Contexts -> Nat]
    BY <1>12 DEF Sweep
  <2>5. server' \in [Contexts -> {"down", "up", "closing"}]
    BY <1>12 DEF Sweep, CloseServer
  <2>6. UNCHANGED <<starting, stopped, ran, tracers, seen, pc, at, tries, curIndex>>
    BY <1>12 DEF Sweep
  <2>7. CASE starting[sweepAt]
    <3>1. startWait' = startWait \/ startWait' = startWait \cup {sweepAt}
      BY <1>12, <2>7, Zenon DEF Sweep
    <3>2. startedOk' = startedOk \/ startedOk' = startedOk \cup {sweepAt}
      BY <1>12, <2>7, Zenon DEF Sweep
    <3>3. closeWait' = closeWait
      BY <1>12, <2>7 DEF Sweep
    <3> QED
      BY <2>1, <2>3, <2>4, <2>5, <2>6, <3>1, <3>2, <3>3
  <2>8. CASE ~starting[sweepAt]
    <3>1. /\ closeWait' \subseteq Contexts
          /\ startWait' = startWait
          /\ startedOk' = startedOk
      BY <1>12, <2>1, <2>8 DEF Sweep
    <3> QED
      BY <2>3, <2>4, <2>5, <2>6, <3>1
  <2> QED
    BY <2>7, <2>8
<1>13. CASE EndStartWait
  BY <1>13 DEF EndStartWait
<1>14. CASE IndexPanics
  BY <1>14 DEF IndexPanics
<1>15. CASE Finish
  BY <1>15 DEF Finish
<1>16. CASE UNCHANGED vars
  BY <1>16 DEF vars
<1> QED
  BY <1>1, <1>2, <1>3, <1>4, <1>5, <1>6, <1>7, <1>8, <1>9, <1>10, <1>11,
     <1>12, <1>13, <1>14, <1>15, <1>16 DEF Next, AllocSteps, ContextSteps,
     StopSteps, Terminated

\* The variables keep their types: no count goes below zero, and a user that
\* starts or uses a server has a context (alloc, free, run).
THEOREM TypeCorrect == Spec => []TypeOK
<1>1. Init => TypeOK
  BY InitTypeOK
<1>2. TypeOK /\ [Next]_vars => TypeOK'
  BY NextTypeOK
<1> QED
  BY <1>1, <1>2, PTL DEF Spec

-------------------------------------------------------------------------------
(* The starting flag is a lock                                             *)

LEMMA InitOneStarter == Init => OneStarter
  BY DEF Init, OneStarter, Starts

LEMMA NextOneStarter ==
  ASSUME TypeOK, OneStarter, [Next]_vars
  PROVE  OneStarter'
<1> USE DEF TypeOK, HasContext, Starts, OneStarter
<1>1. ASSUME NEW u \in Users, Alloc(u) PROVE OneStarter'
  BY <1>1 DEF Alloc
<1>2. ASSUME NEW u \in Users, Probe(u) PROVE OneStarter'
  BY <1>2 DEF Probe, Allocatable, Startable, TryAgain, Tried
<1>3. ASSUME NEW u \in Users, StartSucceeds(u) PROVE OneStarter'
  BY <1>3 DEF StartSucceeds
<1>4. ASSUME NEW u \in Users, StartFails(u) PROVE OneStarter'
  BY <1>4 DEF StartFails
<1>5. ASSUME NEW u \in Users, KeepStarted(u) PROVE OneStarter'
  BY <1>5 DEF KeepStarted, CloseTraced, CloseServer, Forget
<1>6. ASSUME NEW u \in Users, GiveUpStart(u) PROVE OneStarter'
  BY <1>6 DEF GiveUpStart, TryAgain, Tried, UsedAfterFailure, Forget
<1>7. ASSUME NEW u \in Users, Free(u) PROVE OneStarter'
  BY <1>7 DEF Free, FreeContext, CloseTraced, CloseServer, Forget
<1>8. ASSUME NEW x \in Contexts, ServerDown(x) PROVE OneStarter'
  BY <1>8 DEF ServerDown
<1>9. ASSUME NEW x \in Contexts, TracerSees(x) PROVE OneStarter'
  BY <1>9 DEF TracerSees
<1>10. ASSUME NEW x \in Contexts, TracerMarks(x) PROVE OneStarter'
  BY <1>10 DEF TracerMarks
<1>11. CASE Interrupt
  BY <1>11 DEF Interrupt
<1>12. CASE Sweep
  BY <1>12 DEF Sweep, NextToSweep, CloseServer, StartersOf
<1>13. CASE EndStartWait
  BY <1>13 DEF EndStartWait
<1>14. CASE IndexPanics
  BY <1>14 DEF IndexPanics
<1>15. CASE Finish
  BY <1>15 DEF Finish
<1>16. CASE UNCHANGED vars
  BY <1>16 DEF vars
<1> QED
  BY <1>1, <1>2, <1>3, <1>4, <1>5, <1>6, <1>7, <1>8, <1>9, <1>10, <1>11,
     <1>12, <1>13, <1>14, <1>15, <1>16 DEF Next, AllocSteps, ContextSteps,
     StopSteps, Terminated

\* However many users call Alloc and Free, and whatever the manager does when
\* it is closed, no two calls start the server of one context at a time.
THEOREM StartIsExclusive == Spec => []OneStarter
<1>1. Init => OneStarter
  BY InitOneStarter
<1>2. TypeOK /\ OneStarter /\ [Next]_vars => OneStarter'
  BY NextOneStarter
<1> QED
  BY <1>1, <1>2, TypeCorrect, PTL DEF Spec

-------------------------------------------------------------------------------
(* Who keeps a server up                                                   *)

\* What is known of a server that cannot be started again: it has run if it is
\* not down or if anyone has a reference to it; once somebody waits for it to
\* be closed it is not up any more; and it is up with the stopped flag only
\* between the return of Start and the section after it.
RunsOnce ==
  /\ \A x \in Contexts :
       /\ server[x] # "down" => ran[x]
       /\ ~stopped[x] => ran[x]
       /\ tracers[x] > 0 \/ seen[x] > 0 => ran[x] /\ server[x] # "up"
       /\ server[x] = "up" /\ stopped[x] => starting[x]
  /\ \A u \in Users :
       /\ pc[u] \in {"starting", "failed"} => server[at[u]] # "up"
       /\ pc[u] = "started" => ran[at[u]]
       /\ pc[u] \in {"using", "idle", "retry", "scan"} /\ at[u] # NoContext
            => ran[at[u]]

KeptUp == RunsOnce /\ UpServerIsUsed

LEMMA InitKeptUp == Init => KeptUp
  BY DEF Init, KeptUp, RunsOnce, UpServerIsUsed

LEMMA NextKeptUp ==
  ASSUME ~Restartable, TypeOK, OneStarter, KeptUp, [Next]_vars
  PROVE  KeptUp'
<1> USE DEF TypeOK, HasContext, Starts, OneStarter, KeptUp, RunsOnce,
            UpServerIsUsed
<1>1. ASSUME NEW u \in Users, Alloc(u) PROVE KeptUp'
  BY <1>1 DEF Alloc
<1>2. ASSUME NEW u \in Users, Probe(u) PROVE KeptUp'
  <2> DEFINE x == curIndex
  <2>0. /\ x \in Contexts
        /\ curIndex' \in Contexts
        /\ UNCHANGED <<stopped, server, ran, tracers, seen, mpc, sweepAt, startWait,
                       startedOk, closeWait>>
        /\ pc[u] = "scan"
    BY <1>2, NextOfRing DEF Probe
  <2>1. CASE Allocatable(x)
    <3>1. /\ used' = [used EXCEPT ![x] = used[x] + 1]
          /\ at' = [at EXCEPT ![u] = x]
          /\ pc' = [pc EXCEPT ![u] = "using"]
          /\ tries' = [tries EXCEPT ![u] = 0]
          /\ starting' = starting
      BY <1>2, <2>1 DEF Probe
    <3>2. ~stopped[x]
      BY <2>1 DEF Allocatable
    <3>3. used' \in [Contexts -> Nat]
      BY <2>0, <3>1
    <3> QED
      BY <2>0, <3>1, <3>2, <3>3
  <2>2. CASE ~Allocatable(x) /\ Startable(x)
    <3>1. /\ used' = [used EXCEPT ![x] = used[x] + 1]
          /\ at' = [at EXCEPT ![u] = x]
          /\ pc' = [pc EXCEPT ![u] = "starting"]
          /\ starting' = [starting EXCEPT ![x] = TRUE]
          /\ tries' = tries
      BY <1>2, <2>2 DEF Probe
    <3>2. stopped[x] /\ ~starting[x]
      BY <2>2 DEF Startable
    <3>3. used' \in [Contexts -> Nat]
      BY <2>0, <3>1
    <3> QED
      BY <2>0, <3>1, <3>2, <3>3
  <2>3. CASE ~Allocatable(x) /\ ~Startable(x)
    <3>1. /\ TryAgain(u, "scan")
          /\ UNCHANGED <<used, starting, at>>
      BY <1>2, <2>3 DEF Probe
    <3>2. /\ pc' = [pc EXCEPT ![u] = "idle"] \/ pc' = [pc EXCEPT ![u] = "scan"]
          /\ tries' \in [Users -> Nat]
      BY <3>1 DEF TryAgain, Tried
    <3>3. CASE pc' = [pc EXCEPT ![u] = "idle"]
      BY <2>0, <3>1, <3>2, <3>3
    <3>4. CASE pc' = [pc EXCEPT ![u] = "scan"]
      BY <2>0, <3>1, <3>2, <3>4
    <3> QED
      BY <3>2, <3>3, <3>4
  <2> QED
    BY <2>1, <2>2, <2>3
<1>3. ASSUME NEW u \in Users, StartSucceeds(u) PROVE KeptUp'
  BY <1>3 DEF StartSucceeds
<1>4. ASSUME NEW u \in Users, StartFails(u) PROVE KeptUp'
  BY <1>4 DEF StartFails
<1>5. ASSUME NEW u \in Users, KeepStarted(u) PROVE KeptUp'
  BY <1>5 DEF KeepStarted, CloseTraced, CloseServer, Forget
<1>6. ASSUME NEW u \in Users, GiveUpStart(u) PROVE KeptUp'
  BY <1>6 DEF GiveUpStart, TryAgain, Tried, UsedAfterFailure, Forget
<1>7. ASSUME NEW u \in Users, Free(u) PROVE KeptUp'
  BY <1>7 DEF Free, FreeContext, CloseTraced, CloseServer, Forget
<1>8. ASSUME NEW x \in Contexts, ServerDown(x) PROVE KeptUp'
  BY <1>8 DEF ServerDown
<1>9. ASSUME NEW x \in Contexts, TracerSees(x) PROVE KeptUp'
  BY <1>9 DEF TracerSees
<1>10. ASSUME NEW x \in Contexts, TracerMarks(x) PROVE KeptUp'
  BY <1>10 DEF TracerMarks
<1>11. CASE Interrupt
  BY <1>11 DEF Interrupt
<1>12. CASE Sweep
  BY <1>12 DEF Sweep, NextToSweep, CloseServer, StartersOf
<1>13. CASE EndStartWait
  BY <1>13 DEF EndStartWait
<1>14. CASE IndexPanics
  BY <1>14 DEF IndexPanics
<1>15. CASE Finish
  BY <1>15 DEF Finish
<1>16. CASE UNCHANGED vars
  BY <1>16 DEF vars
<1> QED
  BY <1>1, <1>2, <1>3, <1>4, <1>5, <1>6, <1>7, <1>8, <1>9, <1>10, <1>11,
     <1>12, <1>13, <1>14, <1>15, <1>16 DEF Next, AllocSteps, ContextSteps,
     StopSteps, Terminated

\* A server of the package, which cannot be started twice, is up only while it
\* is used or being started: whoever takes the last use away closes it (free,
\* run, alloc after Start).
THEOREM UnusedServerIsClosed == ASSUME ~Restartable PROVE Spec => []UpServerIsUsed
<1>1. Init => KeptUp
  BY InitKeptUp
<1>2. TypeOK /\ OneStarter /\ KeptUp /\ [Next]_vars => KeptUp'
  BY NextKeptUp
<1>3. KeptUp => UpServerIsUsed
  BY DEF KeptUp
<1> QED
  BY <1>1, <1>2, <1>3, TypeCorrect, StartIsExclusive, PTL DEF Spec

-------------------------------------------------------------------------------
(* How often a server is used                                              *)

\* The count of a context and its users.  They agree while its server is up
\* and nobody starts it; a manager that is closed takes the count, not the
\* users.
CountedAt(x) ==
  /\ IsFiniteSet(UsersOf(x))
  /\ ~starting[x] => used[x] <= Cardinality(UsersOf(x))
  /\ server[x] = "up" /\ ~starting[x] =>
       Cardinality(UsersOf(x)) <= used[x] /\ used[x] <= MaxUsed
  /\ starting[x] => \E u \in Users : Starts(u) /\ at[u] = x

\* A start that may succeed, or has, is for the first user.
FirstStart(u) ==
  pc[u] = "started" \/ (pc[u] = "starting" /\ ~ran[at[u]]) =>
    used[at[u]] <= 1 /\ stopped[at[u]] /\ UsersOf(at[u]) = {}

Counted == (\A x \in Contexts : CountedAt(x)) /\ (\A u \in Users : FirstStart(u))

LEMMA InitCounted == Init => Counted
<1> SUFFICES ASSUME Init PROVE Counted
  OBVIOUS
<1>1. \A x \in Contexts : UsersOf(x) = {}
  BY DEF Init, UsersOf
<1> QED
  BY <1>1, FS_EmptySet DEF Init, Counted, CountedAt, FirstStart

\* Steps that leave the counts and the users alone, and no server up that was
\* not.
LEMMA QuietCounted ==
  ASSUME TypeOK, Counted,
         UNCHANGED <<used, starting, pc, at, ran>>,
         \A x \in Contexts : /\ server'[x] = "up" => server[x] = "up"
                             /\ stopped[x] => stopped'[x]
  PROVE  Counted'
<1>1. \A x \in Contexts : UsersOf(x)' = UsersOf(x)
  BY DEF UsersOf
<1> QED
  BY <1>1 DEF TypeOK, HasContext, Starts, Counted, CountedAt, FirstStart

\* A user takes a use of a context that runs.
LEMMA ShareCounted ==
  ASSUME TypeOK, OneStarter, KeptUp, Counted, NEW u \in Users, Probe(u),
         Allocatable(curIndex)
  PROVE  Counted'
<1> USE DEF TypeOK, HasContext, Starts
<1>0. PICK x \in Contexts : x = curIndex
  OBVIOUS
<1>1. /\ pc[u] = "scan"
      /\ used' = [used EXCEPT ![x] = used[x] + 1]
      /\ at' = [at EXCEPT ![u] = x]
      /\ pc' = [pc EXCEPT ![u] = "using"]
      /\ UNCHANGED <<starting, stopped, server, ran>>
  BY <1>0 DEF Probe
<1>2. ~stopped[x] /\ used[x] < MaxUsed
  BY <1>0 DEF Allocatable
<1>3. /\ UsersOf(x)' = UsersOf(x) \cup {u}
      /\ u \notin UsersOf(x)
      /\ \A y \in Contexts \ {x} : UsersOf(y)' = UsersOf(y)
  BY <1>1 DEF UsersOf
<1>4. IsFiniteSet(UsersOf(x)) /\ Cardinality(UsersOf(x)) \in Nat
  BY <1>1, FS_CardinalityType DEF Counted, CountedAt
<1>5. /\ IsFiniteSet(UsersOf(x)')
      /\ Cardinality(UsersOf(x)') = Cardinality(UsersOf(x)) + 1
  BY <1>3, <1>4, FS_AddElement
<1>6. CountedAt(x)'
  BY <1>1, <1>2, <1>4, <1>5 DEF Counted, CountedAt
<1>7. ASSUME NEW y \in Contexts, y # x PROVE CountedAt(y)'
  BY <1>1, <1>3, <1>7 DEF Counted, CountedAt
<1>8. ASSUME NEW v \in Users PROVE FirstStart(v)'
  BY <1>1, <1>2, <1>3, <1>8 DEF Counted, FirstStart, KeptUp, RunsOnce
<1> QED
  BY <1>6, <1>7, <1>8 DEF Counted

\* A user begins to start a context: nobody has used one that never ran.
LEMMA StartCounted ==
  ASSUME TypeOK, OneStarter, KeptUp, Counted, NEW u \in Users, Probe(u),
         ~Allocatable(curIndex), Startable(curIndex)
  PROVE  Counted'
<1> USE DEF TypeOK, HasContext, Starts
<1>0. PICK x \in Contexts : x = curIndex
  OBVIOUS
<1>1. /\ pc[u] = "scan"
      /\ used' = [used EXCEPT ![x] = used[x] + 1]
      /\ at' = [at EXCEPT ![u] = x]
      /\ pc' = [pc EXCEPT ![u] = "starting"]
      /\ starting' = [starting EXCEPT ![x] = TRUE]
      /\ UNCHANGED <<stopped, server, ran>>
  BY <1>0 DEF Probe
<1>2. stopped[x] /\ ~starting[x]
  BY <1>0 DEF Startable
<1>3. \A y \in Contexts : UsersOf(y)' = UsersOf(y)
  BY <1>1 DEF UsersOf
<1>4. ASSUME NEW y \in Contexts PROVE CountedAt(y)'
  BY <1>1, <1>3, <1>4 DEF Counted, CountedAt
<1>5. ASSUME NEW v \in Users, v # u PROVE FirstStart(v)'
  BY <1>1, <1>2, <1>3, <1>5 DEF Counted, FirstStart, OneStarter
<1>6. ASSUME ~ran[x] PROVE UsersOf(x) = {} /\ used[x] = 0
  <2>1. UsersOf(x) = {}
    BY <1>6 DEF UsersOf, KeptUp, RunsOnce
  <2>2. used[x] <= Cardinality({})
    BY <1>1, <1>2, <2>1 DEF Counted, CountedAt
  <2> QED
    BY <1>1, <2>1, <2>2, FS_EmptySet
<1>7. FirstStart(u)'
  BY <1>1, <1>2, <1>3, <1>6 DEF FirstStart
<1> QED
  BY <1>4, <1>5, <1>7 DEF Counted

\* Start has returned, and the starter takes the use it started for.
LEMMA KeepCounted ==
  ASSUME TypeOK, OneStarter, KeptUp, Counted, NEW u \in Users, KeepStarted(u)
  PROVE  Counted'
<1> USE DEF TypeOK, HasContext, Starts
<1>0. PICK x \in Contexts : x = at[u]
  BY DEF KeepStarted
<1>1. /\ pc[u] = "started"
      /\ starting' = [starting EXCEPT ![x] = FALSE]
      /\ stopped' = [stopped EXCEPT ![x] = FALSE]
      /\ UNCHANGED <<used, ran>>
  BY <1>0 DEF KeepStarted, CloseTraced
<1>2. UsersOf(x) = {} /\ used[x] <= 1
  BY <1>0, <1>1 DEF Counted, FirstStart
<1>3. \A v \in Users \ {u} : Starts(v) => at[v] # x
  BY <1>0, <1>1 DEF OneStarter
<1>4. CASE used[x] = 0
  <2>1. /\ server' = [server EXCEPT ![x] = IF @ = "up" THEN "closing" ELSE @]
        /\ pc' = [pc EXCEPT ![u] = "idle"]
        /\ at' = [at EXCEPT ![u] = NoContext]
    BY <1>0, <1>4 DEF KeepStarted, CloseTraced, CloseServer, Forget
  <2>2. \A y \in Contexts : UsersOf(y)' = UsersOf(y)
    BY <1>1, <2>1 DEF UsersOf
  <2>3. CountedAt(x)'
    <3>1. IsFiniteSet(UsersOf(x)') /\ Cardinality(UsersOf(x)') = 0
      BY <1>2, <2>2, FS_EmptySet
    <3>2. server'[x] # "up" /\ ~starting'[x] /\ used'[x] = 0
      BY <1>1, <1>4, <2>1
    <3> QED
      BY <3>1, <3>2 DEF CountedAt
  <2>4. ASSUME NEW y \in Contexts, y # x PROVE CountedAt(y)'
    BY <1>0, <1>1, <2>1, <2>2, <2>4 DEF Counted, CountedAt
  <2>5. ASSUME NEW v \in Users PROVE FirstStart(v)'
    BY <1>1, <1>3, <2>1, <2>2, <2>5 DEF Counted, FirstStart
  <2> QED
    BY <2>3, <2>4, <2>5 DEF Counted
<1>5. CASE used[x] # 0
  <2>1. pc' = [pc EXCEPT ![u] = "using"] /\ UNCHANGED <<server, at>>
    BY <1>0, <1>5 DEF KeepStarted
  <2>2. UsersOf(x)' = {u} /\ \A y \in Contexts \ {x} : UsersOf(y)' = UsersOf(y)
    BY <1>0, <1>1, <1>2, <2>1 DEF UsersOf
  <2>3. IsFiniteSet({u}) /\ Cardinality({u}) = 1
    BY FS_Singleton
  <2>4. CountedAt(x)'
    BY <1>1, <1>2, <1>5, <2>1, <2>2, <2>3 DEF CountedAt
  <2>5. ASSUME NEW y \in Contexts, y # x PROVE CountedAt(y)'
    BY <1>0, <1>1, <2>1, <2>2, <2>5 DEF Counted, CountedAt
  <2>6. ASSUME NEW v \in Users PROVE FirstStart(v)'
    BY <1>1, <1>3, <2>1, <2>2, <2>6 DEF Counted, FirstStart
  <2> QED
    BY <2>4, <2>5, <2>6 DEF Counted
<1> QED
  BY <1>4, <1>5

\* A start that failed takes every use of its context away.
LEMMA GiveUpCounted ==
  ASSUME TypeOK, OneStarter, KeptUp, Counted, NEW u \in Users, GiveUpStart(u)
  PROVE  Counted'
<1> USE DEF TypeOK, HasContext, Starts
<1>0. PICK x \in Contexts : x = at[u]
  BY DEF GiveUpStart
<1>1. /\ pc[u] = "failed"
      /\ starting' = [starting EXCEPT ![x] = FALSE]
      /\ used' = [used EXCEPT ![x] = 0]
      /\ \E l \in {"idle", "retry"} : pc' = [pc EXCEPT ![u] = l]
      /\ at' = [at EXCEPT ![u] = NoContext]
      /\ UNCHANGED <<stopped, server, ran>>
  BY <1>0 DEF GiveUpStart, UsedAfterFailure, TryAgain, Forget
<1>2. server[x] # "up"
  BY <1>0, <1>1 DEF KeptUp, RunsOnce
<1>3. \A y \in Contexts : UsersOf(y)' = UsersOf(y)
  BY <1>1 DEF UsersOf
<1>4. CountedAt(x)'
  BY <1>1, <1>2, <1>3, FS_CardinalityType DEF Counted, CountedAt
<1>5. ASSUME NEW y \in Contexts, y # x PROVE CountedAt(y)'
  BY <1>0, <1>1, <1>3, <1>5 DEF Counted, CountedAt
<1>6. ASSUME NEW v \in Users PROVE FirstStart(v)'
  BY <1>1, <1>3, <1>6 DEF Counted, FirstStart, OneStarter
<1> QED
  BY <1>4, <1>5, <1>6 DEF Counted

\* A user frees the server it uses.
LEMMA FreeCounted ==
  ASSUME ~FreesTwice, TypeOK, OneStarter, KeptUp, Counted, NEW u \in Users, Free(u)
  PROVE  Counted'
<1> USE DEF TypeOK, HasContext, Starts
<1>0. PICK x \in Contexts : x = at[u]
  BY DEF Free
<1>1. /\ pc[u] = "using"
      /\ pc' = [pc EXCEPT ![u] = "idle"]
      /\ at' = [at EXCEPT ![u] = NoContext]
      /\ UNCHANGED <<starting, stopped, ran>>
      /\ FreeContext(x)
  BY <1>0 DEF Free, FreeContext, CloseTraced, Forget
<1>2. /\ u \in UsersOf(x)
      /\ UsersOf(x)' = UsersOf(x) \ {u}
      /\ \A y \in Contexts \ {x} : UsersOf(y)' = UsersOf(y)
  BY <1>0, <1>1 DEF UsersOf
<1>3. IsFiniteSet(UsersOf(x)) /\ Cardinality(UsersOf(x)) \in Nat
  BY <1>1, FS_CardinalityType DEF Counted, CountedAt
<1>4. /\ IsFiniteSet(UsersOf(x)')
      /\ Cardinality(UsersOf(x)') = Cardinality(UsersOf(x)) - 1
  BY <1>2, <1>3, FS_RemoveElement
<1>5. Cardinality(UsersOf(x)) # 0
  BY <1>2, <1>3, FS_EmptySet
<1>6. \/ (used[x] = 0 \/ starting[x]) /\ UNCHANGED <<used, server>>
      \/ /\ used[x] # 0 /\ ~starting[x]
         /\ used' = [used EXCEPT ![x] = used[x] - 1]
         /\ \A y \in Contexts : /\ server'[y] = "up" => server[y] = "up"
  BY <1>1 DEF FreeContext, CloseTraced, CloseServer
<1>7. CountedAt(x)'
  BY <1>1, <1>3, <1>4, <1>5, <1>6 DEF Counted, CountedAt
<1>8. ASSUME NEW y \in Contexts, y # x PROVE CountedAt(y)'
  BY <1>1, <1>2, <1>6, <1>8 DEF Counted, CountedAt
<1>9. ASSUME NEW v \in Users PROVE FirstStart(v)'
  BY <1>1, <1>2, <1>6, <1>9 DEF Counted, FirstStart
<1> QED
  BY <1>7, <1>8, <1>9 DEF Counted

\* The manager that is closed takes the uses of a context away, and closes its
\* server if it runs.
LEMMA SweepCounted ==
  ASSUME TypeOK, KeptUp, Counted, Sweep
  PROVE  Counted'
<1> USE DEF TypeOK, HasContext, Starts
<1>0. PICK x \in Contexts : x = sweepAt
  BY DEF Sweep
<1>1. /\ used' = [used EXCEPT ![x] = 0]
      /\ UNCHANGED <<starting, stopped, ran, pc, at>>
      /\ \A y \in Contexts \ {x} : server'[y] = server[y]
  BY <1>0 DEF Sweep, CloseServer
<1>2. ~starting[x] => server'[x] # "up"
  BY <1>1 DEF Sweep, CloseServer, KeptUp, RunsOnce, UpServerIsUsed
<1>3. \A y \in Contexts : UsersOf(y)' = UsersOf(y)
  BY <1>1 DEF UsersOf
<1>4. CountedAt(x)'
  BY <1>1, <1>2, <1>3, FS_CardinalityType DEF Counted, CountedAt
<1>5. ASSUME NEW y \in Contexts, y # x PROVE CountedAt(y)'
  BY <1>1, <1>3, <1>5 DEF Counted, CountedAt
<1>6. ASSUME NEW v \in Users PROVE FirstStart(v)'
  BY <1>1, <1>3, <1>6 DEF Counted, FirstStart
<1> QED
  BY <1>4, <1>5, <1>6 DEF Counted

LEMMA NextCounted ==
  ASSUME ~Restartable, ~FreesTwice, TypeOK, OneStarter, KeptUp, Counted, [Next]_vars
  PROVE  Counted'
<1> USE DEF TypeOK, HasContext, Starts
<1>1. ASSUME NEW u \in Users, Alloc(u) PROVE Counted'
  <2>1. \A y \in Contexts : UsersOf(y)' = UsersOf(y)
    BY <1>1 DEF Alloc, UsersOf
  <2> QED
    BY <1>1, <2>1 DEF Alloc, Counted, CountedAt, FirstStart
<1>2. ASSUME NEW u \in Users, Probe(u), ~Allocatable(curIndex), ~Startable(curIndex)
      PROVE  Counted'
  <2>1. /\ UNCHANGED <<used, starting, stopped, server, ran, at>>
        /\ pc[u] = "scan"
        /\ \E l \in {"idle", "scan"} : pc' = [pc EXCEPT ![u] = l]
    BY <1>2 DEF Probe, TryAgain
  <2>2. \A y \in Contexts : UsersOf(y)' = UsersOf(y)
    BY <2>1 DEF UsersOf
  <2> QED
    BY <2>1, <2>2 DEF Counted, CountedAt, FirstStart
<1>3. ASSUME NEW u \in Users, StartSucceeds(u) \/ StartFails(u) PROVE Counted'
  <2>1. \A y \in Contexts : UsersOf(y)' = UsersOf(y)
    BY <1>3 DEF StartSucceeds, StartFails, UsersOf
  <2>2. starting[at[u]]
    BY <1>3 DEF StartSucceeds, StartFails, OneStarter
  <2>3. ASSUME NEW x \in Contexts PROVE CountedAt(x)'
    BY <1>3, <2>1, <2>2, <2>3 DEF StartSucceeds, StartFails, Counted, CountedAt
  <2>4. ASSUME NEW v \in Users PROVE FirstStart(v)'
    BY <1>3, <2>1, <2>4 DEF StartSucceeds, StartFails, Counted, FirstStart, OneStarter
  <2> QED
    BY <2>3, <2>4 DEF Counted
<1>4. ASSUME NEW x \in Contexts, ServerDown(x) \/ TracerSees(x) \/ TracerMarks(x)
      PROVE  Counted'
  BY <1>4, QuietCounted DEF ServerDown, TracerSees, TracerMarks
<1>5. CASE Interrupt \/ EndStartWait \/ IndexPanics \/ Finish \/ UNCHANGED vars
  BY <1>5, QuietCounted DEF Interrupt, EndStartWait, IndexPanics, Finish, vars
<1> QED
  BY <1>1, <1>2, <1>3, <1>4, <1>5, ShareCounted, StartCounted, KeepCounted,
     GiveUpCounted, FreeCounted, SweepCounted
     DEF Next, AllocSteps, ContextSteps, StopSteps, Terminated

LEMMA CountedInvariant ==
  ASSUME ~Restartable, ~FreesTwice
  PROVE  Spec => [](TypeOK /\ OneStarter /\ KeptUp /\ Counted)
<1>1. Init => OneStarter /\ KeptUp /\ Counted
  BY InitOneStarter, InitKeptUp, InitCounted
<1>2. TypeOK /\ OneStarter /\ KeptUp /\ Counted /\ [Next]_vars
      => OneStarter' /\ KeptUp' /\ Counted'
  BY NextOneStarter, NextKeptUp, NextCounted
<1> QED
  BY <1>1, <1>2, TypeCorrect, PTL DEF Spec

\* Among users that free what they have been given once: a server of the
\* package that works is shared by no more users than serverMaxUsed, however
\* their calls, the starts that fail and the closing manager interleave.
THEOREM UpServerIsShared ==
  ASSUME ~Restartable, ~FreesTwice PROVE Spec => []UpServerNotOverused
<1>1. ASSUME TypeOK, OneStarter, KeptUp, Counted, NEW x \in Contexts, server[x] = "up"
      PROVE  Cardinality(UsersOf(x)) <= MaxUsed
  <2>1. Cardinality(UsersOf(x)) \in Nat
    BY FS_CardinalityType, <1>1 DEF Counted, CountedAt
  <2>2. CASE ~starting[x]
    BY <1>1, <2>1, <2>2 DEF TypeOK, Counted, CountedAt
  <2>3. CASE starting[x]
    <3>1. PICK u \in Users : Starts(u) /\ at[u] = x
      BY <1>1, <2>3 DEF Counted, CountedAt
    <3>2. pc[u] = "started"
      BY <1>1, <3>1 DEF Starts, KeptUp, RunsOnce
    <3>3. UsersOf(x) = {}
      BY <1>1, <3>1, <3>2 DEF Counted, FirstStart
    <3> QED
      BY <3>3, FS_EmptySet
  <2> QED
    BY <2>2, <2>3
<1>2. TypeOK /\ OneStarter /\ KeptUp /\ Counted => UpServerNotOverused
  BY <1>1 DEF UpServerNotOverused
<1> QED
  BY <1>2, CountedInvariant, PTL

\* Among the same users: a context that nobody starts has no use that none of
\* them can free, so it is not kept from its next user.
THEOREM UseIsSomebodys ==
  ASSUME ~Restartable, ~FreesTwice PROVE Spec => []UsedHasUser
<1>1. Counted => UsedHasUser
  BY DEF Counted, CountedAt, UsedHasUser
<1> QED
  BY <1>1, CountedInvariant, PTL
===============================================================================
