-------------------------------- MODULE Manager --------------------------------
(***************************************************************************)
(* The server manager (src/server/manager.go): users allocate servers from *)
(* a ring of contexts, one per port, and free them; a context starts its   *)
(* server for the first user and closes it after the last; the manager,    *)
(* when closed, takes all of them down.  An action is one section under    *)
(* the mutex of a context.  The lifecycle of a server is external: Start   *)
(* answers after a while, Close only begins the closing, ClosedWaiter      *)
(* answers once the server is down.                                        *)
(***************************************************************************)
EXTENDS Naturals

CONSTANTS
  N,            \* number of contexts (ports)
  Users,        \* goroutines that call Alloc and Free
  NoContext,    \* the nil *serverContext
  MaxUsed,      \* serverMaxUsed
  MaxRetry,     \* allocMaxRetry
  Restartable,  \* whether Start can succeed on a server that has run before;
                \*   not so for a TCPServer or a UDPServer
  FreesTwice,   \* whether users may free a server they have freed
  MaxTracers    \* bound: goroutines waiting for one server to be closed

Contexts == 0 .. N - 1

ASSUME ManagerAssumption ==
  /\ N \in Nat \ {0}
  /\ NoContext \notin Contexts
  /\ MaxUsed \in Nat \ {0}
  /\ MaxRetry \in Nat
  /\ Restartable \in BOOLEAN
  /\ FreesTwice \in BOOLEAN
  /\ MaxTracers \in Nat \ {0}

VARIABLES
  \* a context, and its server
  used,       \* used[x]
  starting,   \* the flags of state[x]; stopping is tested and never set
  stopped,
  server,     \* server[x]: down, up, closing
  ran,        \* ran[x]: it has been up
  tracers,    \* goroutines that wait for the server of x to be down
  seen,       \* those that have seen it down, and will mark x stopped
  \* users
  pc,         \* where the goroutine of u is
  at,         \* the context u starts or uses; if it FreesTwice, freed last
  tries,      \* retryCount of u
  curIndex,   \* the next context of the ring
  \* the manager's goroutine
  mpc,        \* running, sweep, waitStarted, waitClosed, done, panicked
  sweepAt,    \* the context it comes to next
  startWait,  \* runningFutures that have no answer yet
  startedOk,  \* runningFutures that answered nil
  closeWait   \* closedFutures that have no answer yet

serverVars  == <<server, ran>>
tracerVars  == <<tracers, seen>>
contextVars == <<used, starting, stopped>>
userVars    == <<pc, at, tries, curIndex>>
stopVars    == <<mpc, sweepAt, startWait, startedOk, closeWait>>
vars == <<contextVars, serverVars, tracerVars, userVars, stopVars>>

Init ==
  /\ used = [x \in Contexts |-> 0]
  /\ starting = [x \in Contexts |-> FALSE]
  /\ stopped = [x \in Contexts |-> TRUE]
  /\ server = [x \in Contexts |-> "down"]
  /\ ran = [x \in Contexts |-> FALSE]
  /\ tracers = [x \in Contexts |-> 0]
  /\ seen = [x \in Contexts |-> 0]
  /\ pc = [u \in Users |-> "idle"]
  /\ at = [u \in Users |-> NoContext]
  /\ tries = [u \in Users |-> 0]
  /\ curIndex = 0
  /\ mpc = "running"
  /\ sweepAt = 0
  /\ startWait = {}
  /\ startedOk = {}
  /\ closeWait = {}

-------------------------------------------------------------------------------
(* Helpers, each after what it would be with a bug (a mutant).             *)

AllocatableOneMore(x) == ~stopped[x] /\ used[x] <= MaxUsed           \* mutant
\* A running context with room: given out at once.
Allocatable(x)        == ~stopped[x] /\ used[x] < MaxUsed

StartableTwice(x) == stopped[x]                                      \* mutant
\* A stopped context nobody is starting: started, then given out.
Startable(x)      == stopped[x] /\ ~starting[x]

CloseServerNot(x) == server                                          \* mutant
\* server.Close begins to close a server that is up.
CloseServer(x)    == [server EXCEPT ![x] = IF @ = "up" THEN "closing" ELSE @]

UsedAfterFailureKept(x) == used[x]                                   \* mutant
\* A failed start takes back the use it was for.
UsedAfterFailure(x)     == 0

TriedFree(u) == tries[u]                                             \* mutant
Tried(u)     == tries[u] + 1

\* A panic ends the process.
Alive == mpc # "panicked"

MuFree == \A u \in Users : pc[u] # "scan"

Forget(u) == at' = [at EXCEPT ![u] = NoContext]

UserGoto(u, label) == pc' = [pc EXCEPT ![u] = label]

\* Go back to the ring, or give up when the budget is spent.
TryAgain(u, label) ==
  IF Tried(u) > MaxRetry
    THEN UserGoto(u, "idle") /\ tries' = [tries EXCEPT ![u] = 0]
    ELSE UserGoto(u, label) /\ tries' = [tries EXCEPT ![u] = Tried(u)]

\* close the server and leave a goroutine behind that waits for it.
CloseTraced(x) ==
  /\ tracers[x] + seen[x] < MaxTracers
  /\ server' = CloseServer(x)
  /\ tracers' = [tracers EXCEPT ![x] = @ + 1]
  /\ UNCHANGED <<ran, seen>>

-------------------------------------------------------------------------------
(* alloc()                                                                 *)

\* Takes m.mu; users do not come to a manager that is being closed, but their
\* calls may still be under way.
Alloc(u) ==
  /\ Alive
  /\ MuFree
  /\ \/ pc[u] = "idle" /\ mpc = "running"
     \/ pc[u] = "retry"
  /\ UserGoto(u, "scan")
  /\ UNCHANGED <<contextVars, serverVars, tracerVars, at, tries, curIndex,
                 stopVars>>

\* One turn of the loop: the section under the mutex of the next context.
Probe(u) ==
  LET x == curIndex
  IN /\ Alive
     /\ pc[u] = "scan"
     /\ curIndex' = (curIndex + 1) % N
     /\ \/ /\ Allocatable(x)
           /\ used' = [used EXCEPT ![x] = @ + 1]
           /\ at' = [at EXCEPT ![u] = x]
           /\ tries' = [tries EXCEPT ![u] = 0]
           /\ UserGoto(u, "using")
           /\ UNCHANGED starting
        \/ /\ ~Allocatable(x)
           /\ Startable(x)
           /\ used' = [used EXCEPT ![x] = @ + 1]
           /\ starting' = [starting EXCEPT ![x] = TRUE]
           /\ at' = [at EXCEPT ![u] = x]
           /\ UserGoto(u, "starting")
           /\ UNCHANGED tries
        \/ /\ ~Allocatable(x)
           /\ ~Startable(x)
           /\ TryAgain(u, "scan")
           /\ UNCHANGED <<used, starting, at>>
     /\ UNCHANGED <<stopped, serverVars, tracerVars, stopVars>>

\* server.Start returns nil.  The future of a manager that waits for it does.
StartSucceeds(u) ==
  LET x == at[u]
  IN /\ Alive
     /\ pc[u] = "starting"
     /\ server[x] = "down"
     /\ Restartable \/ ~ran[x]
     /\ server' = [server EXCEPT ![x] = "up"]
     /\ ran' = [ran EXCEPT ![x] = TRUE]
     /\ startWait' = startWait \ {x}
     /\ startedOk' = startedOk \cup (startWait \cap {x})
     /\ UserGoto(u, "started")
     /\ UNCHANGED <<contextVars, tracerVars, at, tries, curIndex, mpc, sweepAt,
                    closeWait>>

StartFails(u) ==
  /\ Alive
  /\ pc[u] = "starting"
  /\ startWait' = startWait \ {at[u]}
  /\ UserGoto(u, "failed")
  /\ UNCHANGED <<contextVars, serverVars, tracerVars, at, tries, curIndex, mpc,
                 sweepAt, startedOk, closeWait>>

\* The section after a start that succeeded: the use may be gone, taken by the
\* manager that is being closed.
KeepStarted(u) ==
  LET x == at[u]
  IN /\ Alive
     /\ pc[u] = "started"
     /\ starting' = [starting EXCEPT ![x] = FALSE]
     /\ stopped' = [stopped EXCEPT ![x] = FALSE]
     /\ tries' = [tries EXCEPT ![u] = 0]
     /\ IF used[x] = 0
          THEN CloseTraced(x) /\ UserGoto(u, "idle") /\ Forget(u)
          ELSE UNCHANGED <<serverVars, tracerVars, at>> /\ UserGoto(u, "using")
     /\ UNCHANGED <<used, curIndex, stopVars>>

\* The section after a start that failed.
GiveUpStart(u) ==
  LET x == at[u]
  IN /\ Alive
     /\ pc[u] = "failed"
     /\ starting' = [starting EXCEPT ![x] = FALSE]
     /\ used' = [used EXCEPT ![x] = IF @ = 0 THEN 0 ELSE UsedAfterFailure(x)]
     /\ IF used[x] = 0
          THEN UserGoto(u, "idle") /\ tries' = [tries EXCEPT ![u] = 0]
          ELSE TryAgain(u, "retry")
     /\ Forget(u)
     /\ UNCHANGED <<stopped, serverVars, tracerVars, curIndex, stopVars>>

-------------------------------------------------------------------------------
(* free()                                                                  *)

\* mutant: a context without users is not told apart.
FreeContextUnchecked(x) ==
  IF starting[x]
    THEN UNCHANGED <<used, serverVars, tracerVars>>
    ELSE /\ used' = [used EXCEPT ![x] = @ - 1]
         /\ IF used[x] = 1 THEN CloseTraced(x)
                           ELSE UNCHANGED <<serverVars, tracerVars>>
\* Nothing happens to a context without users, or one that is being started.
FreeContext(x) ==
  IF used[x] = 0 \/ starting[x]
    THEN UNCHANGED <<used, serverVars, tracerVars>>
    ELSE /\ used' = [used EXCEPT ![x] = @ - 1]
         /\ IF used[x] = 1 THEN CloseTraced(x)
                           ELSE UNCHANGED <<serverVars, tracerVars>>

Free(u) ==
  /\ Alive
  /\ \/ pc[u] = "using"
     \/ FreesTwice /\ pc[u] = "idle" /\ at[u] # NoContext
  /\ FreeContext(at[u])
  /\ UserGoto(u, "idle")
  /\ IF FreesTwice THEN UNCHANGED at ELSE Forget(u)
  /\ UNCHANGED <<starting, stopped, tries, curIndex, stopVars>>

-------------------------------------------------------------------------------
(* The server goes down, and the goroutines that wait for it               *)

ServerDown(x) ==
  /\ Alive
  /\ server[x] = "closing"
  /\ server' = [server EXCEPT ![x] = "down"]
  /\ closeWait' = closeWait \ {x}
  /\ UNCHANGED <<contextVars, ran, tracerVars, userVars, mpc, sweepAt,
                 startWait, startedOk>>

TracerSees(x) ==
  /\ Alive
  /\ tracers[x] > 0
  /\ server[x] = "down"
  /\ tracers' = [tracers EXCEPT ![x] = @ - 1]
  /\ seen' = [seen EXCEPT ![x] = @ + 1]
  /\ UNCHANGED <<contextVars, serverVars, userVars, stopVars>>

\* Stopped takes the place of stopping in the state.
TracerMarks(x) ==
  /\ Alive
  /\ seen[x] > 0
  /\ seen' = [seen EXCEPT ![x] = @ - 1]
  /\ stopped' = [stopped EXCEPT ![x] = TRUE]
  /\ UNCHANGED <<used, starting, serverVars, tracers, userVars, stopVars>>

-------------------------------------------------------------------------------
(* run()                                                                   *)

\* The manager is closed.
Interrupt ==
  /\ mpc = "running"
  /\ mpc' = "sweep"
  /\ UNCHANGED <<contextVars, serverVars, tracerVars, userVars, sweepAt,
                 startWait, startedOk, closeWait>>

StartersOf(x, label) == {u \in Users : pc[u] = label /\ at[u] = x}

\* mutant: the loop goes round the ring.
NextToSweepForever(x) == sweepAt' = (x + 1) % N /\ mpc' = "sweep"
NextToSweep(x) ==
  /\ sweepAt' = x + 1
  /\ mpc' = IF x + 1 = N THEN "waitStarted" ELSE "sweep"

\* The section of the next context: it loses its users; a starting one is
\* waited for by its start, a running one is closed and waited for.  A future
\* of a start that has failed already answers at once.
Sweep ==
  LET x == sweepAt
  IN /\ mpc = "sweep"
     /\ NextToSweep(x)
     /\ used' = [used EXCEPT ![x] = 0]
     /\ IF starting[x]
          THEN /\ startWait' = IF StartersOf(x, "starting") = {} THEN startWait
                               ELSE startWait \cup {x}
               /\ startedOk' = IF StartersOf(x, "started") = {} THEN startedOk
                               ELSE startedOk \cup {x}
               /\ UNCHANGED <<server, closeWait>>
          ELSE /\ server' = IF used[x] > 0 /\ ~stopped[x] THEN CloseServer(x) ELSE server
               /\ closeWait' = IF stopped[x] \/ server[x] = "down" THEN closeWait
                               ELSE closeWait \cup {x}
               /\ UNCHANGED <<startWait, startedOk>>
     /\ UNCHANGED <<starting, stopped, ran, tracerVars, userVars>>

\* No start to follow.
EndStartWait ==
  /\ mpc = "waitStarted"
  /\ startWait = {}
  /\ startedOk = {}
  /\ mpc' = "waitClosed"
  /\ UNCHANGED <<contextVars, serverVars, tracerVars, userVars, sweepAt,
                 startWait, startedOk, closeWait>>

\* A start to follow: startingEndpoints, which nothing fills, is indexed when
\* its future and those before it have answered.
IndexPanics ==
  /\ mpc = "waitStarted"
  /\ \E x \in startedOk : \A y \in startWait : y > x
  /\ mpc' = "panicked"
  /\ UNCHANGED <<contextVars, serverVars, tracerVars, userVars, sweepAt,
                 startWait, startedOk, closeWait>>

Finish ==
  /\ mpc = "waitClosed"
  /\ closeWait = {}
  /\ mpc' = "done"
  /\ UNCHANGED <<contextVars, serverVars, tracerVars, userVars, sweepAt,
                 startWait, startedOk, closeWait>>

-------------------------------------------------------------------------------
StopSteps == Sweep \/ EndStartWait \/ IndexPanics \/ Finish

AllocSteps(u) ==
  \/ Probe(u)
  \/ StartSucceeds(u) \/ StartFails(u) \/ KeepStarted(u) \/ GiveUpStart(u)

ContextSteps(x) == ServerDown(x) \/ TracerSees(x) \/ TracerMarks(x)

\* The process has panicked, or all is quiet after the manager has stopped.
Terminated ==
  /\ \/ mpc = "panicked"
     \/ /\ mpc = "done"
        /\ \A u \in Users : pc[u] = "idle"
        /\ \A x \in Contexts :
             server[x] # "closing" /\ tracers[x] = 0 /\ seen[x] = 0
  /\ UNCHANGED vars

Next ==
  \/ \E u \in Users : Alloc(u) \/ AllocSteps(u) \/ Free(u)
  \/ \E x \in Contexts : ContextSteps(x)
  \/ Interrupt
  \/ StopSteps
  \/ Terminated

Spec == Init /\ [][Next]_vars

(***************************************************************************)
(* Fairness: calls of Alloc go on (strongly where they wait for m.mu, that *)
(* Go's mutexes hand over in turn), Start answers, closing ends, the       *)
(* goroutines that wait run.  Users need not free, nobody need close.      *)
(***************************************************************************)
Fairness ==
  /\ WF_vars(StopSteps)
  /\ \A u \in Users : /\ WF_vars(AllocSteps(u))
                      /\ SF_vars(pc[u] = "retry" /\ Alloc(u))
  /\ \A x \in Contexts : WF_vars(ContextSteps(x))

FairSpec == Spec /\ Fairness
===============================================================================
