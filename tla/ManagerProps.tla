----------------------------- MODULE ManagerProps -----------------------------
(* What must hold of the manager. *)
EXTENDS Manager, FiniteSets

Starts(u) == pc[u] \in {"starting", "started", "failed"}

HasContext(u) == Starts(u) \/ pc[u] = "using"

\* Types; a user that starts or uses a context has one.
TypeOK ==
  /\ used \in [Contexts -> Nat]
  /\ starting \in [Contexts -> BOOLEAN]
  /\ stopped \in [Contexts -> BOOLEAN]
  /\ server \in [Contexts -> {"down", "up", "closing"}]
  /\ ran \in [Contexts -> BOOLEAN]
  /\ tracers \in [Contexts -> Nat]
  /\ seen \in [Contexts -> Nat]
  /\ pc \in [Users -> {"idle", "retry", "scan", "starting", "started", "failed",
                       "using"}]
  /\ at \in [Users -> Contexts \cup {NoContext}]
  /\ tries \in [Users -> Nat]
  /\ curIndex \in Contexts
  /\ mpc \in {"running", "sweep", "waitStarted", "waitClosed", "done", "panicked"}
  /\ sweepAt \in Nat
  /\ mpc \in {"running", "sweep"} => sweepAt \in Contexts
  /\ startWait \subseteq Contexts
  /\ startedOk \subseteq Contexts
  /\ closeWait \subseteq Contexts
  /\ \A u \in Users : HasContext(u) => at[u] \in Contexts

\* The starting flag is a lock: no two calls of Alloc ever start the server of
\* one context, whatever is freed or closed meanwhile (alloc, second section).
OneStarter ==
  \A u, v \in Users :
    /\ Starts(u) => starting[at[u]]
    /\ Starts(u) /\ Starts(v) /\ u # v => at[u] # at[v]

UsersOf(x) == {u \in Users : pc[u] = "using" /\ at[u] = x}

\* A server that works is shared by no more users than serverMaxUsed.
UpServerNotOverused ==
  \A x \in Contexts : server[x] = "up" => Cardinality(UsersOf(x)) <= MaxUsed

\* Once nobody starts it, a context counts no use twice and none of nobody: it
\* is not kept from its next user, nor its server kept up, by a use that no
\* user can free.
UsedHasUser ==
  \A x \in Contexts : ~starting[x] => used[x] <= Cardinality(UsersOf(x))

\* A server is up only while somebody uses it or is starting it: whoever takes
\* the last use away closes it (free, run, alloc after Start).
UpServerIsUsed ==
  \A x \in Contexts : server[x] = "up" => used[x] > 0 \/ starting[x]

-------------------------------------------------------------------------------
(* Liveness, under FairSpec. *)

\* A manager that is closed comes to an end.
StopTerminates == mpc = "sweep" ~> mpc \in {"done", "panicked"}

\* A call of Alloc returns: with a server, or with nil when its budget of
\* tries is spent.
AllocReturns ==
  \A u \in Users : pc[u] \in {"scan", "retry", "starting"}
                     ~> pc[u] \in {"using", "idle"} \/ mpc = "panicked"

-------------------------------------------------------------------------------
(* What the repository says of itself and the code does not keep.          *)
(* README.md, section 3, names the instance that refutes each.             *)

\* manager.go:186: a server that is allocated at once is not being closed.
AllocatedNotClosing ==
  [][\A u \in Users : pc[u] = "scan" /\ pc'[u] = "using"
       => server[at'[u]] # "closing"]_vars

\* manager.go:199: a context that is stopped and not starting has used 0.
StoppedMeansUnused ==
  \A x \in Contexts : Startable(x) => used[x] = 0

\* manager.go:279: only a server freed twice is freed while it is starting.
NobodyUsesStarting ==
  ~FreesTwice => \A u \in Users : pc[u] = "using" => ~starting[at[u]]

\* manager.go:153: a start that succeeds while the manager closes is followed
\* until its server is closed.
StartIsFollowed == mpc # "panicked"

\* manager.go:157: the manager waits until all servers are closed.
AllClosedAtEnd == mpc = "done" => \A x \in Contexts : server[x] = "down"
===============================================================================
