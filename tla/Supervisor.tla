----------------------------- MODULE Supervisor -----------------------------
(***************************************************************************)
(* supervise() in src/korvex/_serve.py: the parent process that forks the  *)
(* workers, replaces the ones that exit, and passes a stop on to them.     *)
(*                                                                         *)
(* Python runs a signal handler between two bytecodes of the main thread,  *)
(* so every point of spawn() and of the wait loop where a signal makes a   *)
(* difference is a value of `pc`.  A worker starts as a copy of the parent *)
(* with the parent's handler still installed.                              *)
(*                                                                         *)
(* A worker is known by the number of its fork; pids are not reused.  Of   *)
(* time only one thing counts: whether a worker is younger than            *)
(* STARTUP_WINDOW.                                                         *)
(***************************************************************************)
EXTENDS Naturals, FiniteSets

CONSTANTS Workers,    \* the number of workers asked for
          MaxCrashes, \* bound on the workers that exit on their own
          MaxSignals, \* bound on the signals the parent gets
          ForkFails   \* whether os.fork() may raise

ASSUME SupervisorAssumption ==
  /\ Workers \in Nat \ {0} /\ MaxCrashes \in Nat /\ MaxSignals \in Nat
  /\ ForkFails \in BOOLEAN

Pid == 1..(Workers + MaxCrashes)

VARIABLES pc,        \* where the parent's main thread is
          todo,      \* workers the first loop has still to fork
          forks,     \* workers forked so far; the last one is Pid `forks`
          dead,      \* the pid os.wait() returned
          children,  \* the parent's dict of pids
          stopping, failed,
          listening, \* the parent's listener is open
          signals,   \* stop signals the parent got
          worker,    \* where each worker is
          code,      \* its exit code, 0 or 1
          fresh,     \* it started less than STARTUP_WINDOW ago
          listens,   \* its copy of the listener is open
          known,     \* its copy of `children`
          term,      \* a stop signal is pending for it
          crashes    \* workers that exited on their own

parentVars == <<pc, todo, forks, dead, children, stopping, failed, listening, signals>>
workerVars == <<worker, code, fresh, listens, known, term, crashes>>
vars == <<parentVars, workerVars>>

ParentState == {"spawn", "forked", "recorded", "wait", "reaped", "judge",
                "exited", "raised"}
WorkerState == {"none", "forked", "default", "serving", "stopping", "zombie", "reaped"}

Alive(p) == worker[p] \in {"forked", "default", "serving", "stopping"}
Unreaped == {p \in Pid : Alive(p) \/ worker[p] = "zombie"}

\* The handlers are installed, and the first loop starts.
Init ==
  /\ pc = "spawn" /\ todo = Workers /\ forks = 0 /\ dead = 0
  /\ children = {} /\ stopping = FALSE /\ failed = FALSE
  /\ listening = TRUE /\ signals = 0
  /\ worker = [p \in Pid |-> "none"]
  /\ code = [p \in Pid |-> 0]
  /\ fresh = [p \in Pid |-> TRUE]
  /\ listens = [p \in Pid |-> FALSE]
  /\ known = [p \in Pid |-> {}]
  /\ term = [p \in Pid |-> FALSE]
  /\ crashes = 0

\* os.kill(pid, SIGTERM) for each of a set; one that is gone is passed over.
Killed(ps) == [p \in Pid |-> term[p] \/ (p \in ps /\ Alive(p))]

-----------------------------------------------------------------------------
(* The parent.                                                             *)

\* spawn(): os.fork()
Fork ==
  /\ pc = "spawn" /\ forks + 1 \in Pid
  /\ pc' = "forked"
  /\ todo' = IF todo > 0 THEN todo - 1 ELSE 0
  /\ forks' = forks + 1
  /\ worker' = [worker EXCEPT ![forks + 1] = "forked"]
  /\ listens' = [listens EXCEPT ![forks + 1] = listening]
  /\ known' = [known EXCEPT ![forks + 1] = children]
  /\ UNCHANGED <<dead, children, stopping, failed, listening, signals, code, fresh, term, crashes>>

\* os.fork() raises: the exception leaves supervise(), through the `finally`
\* that closes the listener once the wait loop has begun.
ForkRaises ==
  /\ ForkFails /\ pc = "spawn"
  /\ pc' = "raised"
  /\ listening' = (listening /\ todo > 0)
  /\ UNCHANGED <<todo, forks, dead, children, stopping, failed, signals, workerVars>>

\* children[pid] = time.monotonic()
Record ==
  /\ pc = "forked"
  /\ pc' = "recorded"
  /\ children' = children \union {forks}
  /\ UNCHANGED <<todo, forks, dead, stopping, failed, listening, signals, workerVars>>

AfterSpawn == IF todo > 0 THEN "spawn" ELSE "wait"

\* Mutant of KillIfStopping: a signal that came during the fork is forgotten.
KillIfStoppingForgets ==
  /\ pc = "recorded"
  /\ pc' = AfterSpawn
  /\ UNCHANGED <<todo, forks, dead, children, stopping, failed, listening, signals, workerVars>>

\* if stopping: os.kill(pid, SIGTERM)
KillIfStopping ==
  /\ pc = "recorded"
  /\ pc' = AfterSpawn
  /\ term' = IF stopping THEN Killed({forks}) ELSE term
  /\ UNCHANGED <<todo, forks, dead, children, stopping, failed, listening, signals,
                 worker, code, fresh, listens, known, crashes>>

\* os.wait() returns one of the workers that exited.
Wait(p) ==
  /\ pc = "wait" /\ children # {}
  /\ worker[p] = "zombie"
  /\ worker' = [worker EXCEPT ![p] = "reaped"]
  /\ dead' = p
  /\ pc' = "reaped"
  /\ UNCHANGED <<todo, forks, children, stopping, failed, listening, signals,
                 code, fresh, listens, known, term, crashes>>

\* children.pop(pid); nothing more to do about it while stopping
Pop ==
  /\ pc = "reaped"
  /\ children' = children \ {dead}
  /\ pc' = IF stopping THEN "wait" ELSE "judge"
  /\ UNCHANGED <<todo, forks, dead, stopping, failed, listening, signals, workerVars>>

\* stop(): the signal handler, also called for a worker that failed to start
Stop ==
  /\ stopping' = TRUE
  /\ listening' = FALSE
  /\ term' = Killed(children)

\* A worker that failed soon after its start stops everything ...
FailedToStart ==
  /\ pc = "judge" /\ code[dead] # 0 /\ fresh[dead]
  /\ pc' = "wait"
  /\ failed' = TRUE
  /\ Stop
  /\ UNCHANGED <<todo, forks, dead, children, signals, worker, code, fresh, listens, known, crashes>>

\* ... another one is replaced.
Replace ==
  /\ pc = "judge" /\ ~(code[dead] # 0 /\ fresh[dead])
  /\ pc' = "spawn"
  /\ UNCHANGED <<todo, forks, dead, children, stopping, failed, listening, signals, workerVars>>

\* while children: ... is over; finally: listener.close()
LoopEnds ==
  /\ pc = "wait" /\ children = {}
  /\ pc' = "exited"
  /\ listening' = FALSE
  /\ UNCHANGED <<todo, forks, dead, children, stopping, failed, signals, workerVars>>

Running == pc \notin {"exited", "raised"}

\* SIGTERM or SIGINT to the parent alone
Signal ==
  /\ Running /\ signals < MaxSignals
  /\ signals' = signals + 1
  /\ Stop
  /\ UNCHANGED <<pc, todo, forks, dead, children, failed,
                 worker, code, fresh, listens, known, crashes>>

\* Ctrl+C at a terminal: SIGINT to the whole process group
Interrupt ==
  /\ Running /\ signals < MaxSignals
  /\ signals' = signals + 1
  /\ stopping' = TRUE /\ listening' = FALSE
  /\ term' = Killed(Pid)
  /\ UNCHANGED <<pc, todo, forks, dead, children, failed,
                 worker, code, fresh, listens, known, crashes>>

-----------------------------------------------------------------------------
(* A worker.                                                               *)

Exits(p, c) ==
  /\ worker' = [worker EXCEPT ![p] = "zombie"]
  /\ code' = [code EXCEPT ![p] = c]

\* The signal finds the parent's handler: stop() runs in the worker, closes
\* its listener and signals its older siblings.
InheritedStop(p) ==
  /\ worker[p] = "forked" /\ term[p]
  /\ listens' = [listens EXCEPT ![p] = FALSE]
  /\ term' = [Killed(known[p]) EXCEPT ![p] = FALSE]
  /\ UNCHANGED <<parentVars, worker, code, fresh, known, crashes>>

\* signal.signal(..., SIG_DFL), which runs a pending handler first
ResetHandlers(p) ==
  /\ worker[p] = "forked" /\ ~term[p]
  /\ worker' = [worker EXCEPT ![p] = "default"]
  /\ UNCHANGED <<parentVars, code, fresh, listens, known, term, crashes>>

\* SIG_DFL: the signal kills.
DieOfSignal(p) ==
  /\ worker[p] = "default" /\ term[p]
  /\ Exits(p, 1)
  /\ UNCHANGED <<parentVars, fresh, listens, known, term, crashes>>

\* serve_process() got the descriptor of a closed socket, -1.
NoListener(p) ==
  /\ worker[p] = "default" /\ ~listens[p]
  /\ Exits(p, 1)
  /\ UNCHANGED <<parentVars, fresh, listens, known, term, crashes>>

\* serve() has installed its own handlers.
Serve(p) ==
  /\ worker[p] = "default" /\ ~term[p] /\ listens[p]
  /\ worker' = [worker EXCEPT ![p] = "serving"]
  /\ UNCHANGED <<parentVars, code, fresh, listens, known, term, crashes>>

\* serve(): the stop event, requests in progress, then the shutdown hooks
BeginStop(p) ==
  /\ worker[p] = "serving" /\ term[p]
  /\ worker' = [worker EXCEPT ![p] = "stopping"]
  /\ UNCHANGED <<parentVars, code, fresh, listens, known, term, crashes>>

EndStop(p) ==
  /\ worker[p] = "stopping"
  /\ Exits(p, 0)
  /\ UNCHANGED <<parentVars, fresh, listens, known, term, crashes>>

\* A failing startup hook, a crash, an exit of the app's own.
ExitOnItsOwn(p, c) ==
  /\ worker[p] \in {"default", "serving"} /\ ~term[p] /\ listens[p]
  /\ crashes < MaxCrashes
  /\ crashes' = crashes + 1
  /\ Exits(p, c)
  /\ UNCHANGED <<parentVars, fresh, listens, known, term>>

\* STARTUP_WINDOW is over for the worker.
Age(p) ==
  /\ p \in Unreaped /\ fresh[p]
  /\ fresh' = [fresh EXCEPT ![p] = FALSE]
  /\ UNCHANGED <<parentVars, worker, code, listens, known, term, crashes>>

-----------------------------------------------------------------------------
Parent == Fork \/ Record \/ KillIfStopping \/ (\E p \in Pid : Wait(p)) \/ Pop
            \/ FailedToStart \/ Replace \/ LoopEnds

Stops(p) == InheritedStop(p) \/ ResetHandlers(p) \/ DieOfSignal(p)
              \/ NoListener(p) \/ Serve(p) \/ BeginStop(p) \/ EndStop(p)

Next ==
  \/ Parent \/ ForkRaises \/ Signal \/ Interrupt
  \/ \E p \in Pid : Stops(p) \/ Age(p) \/ \E c \in {0, 1} : ExitOnItsOwn(p, c)

SafeSpec == Init /\ [][Next]_vars

\* Fairness: every process runs, and a worker that was told to stop does
\* (serve() bounds its last requests by graceful_timeout).
Spec == SafeSpec /\ WF_vars(Parent) /\ \A p \in Pid : WF_vars(Stops(p))

-----------------------------------------------------------------------------
(* Properties.                                                             *)

\* Every variable keeps its type; no fork is made beyond one per worker asked
\* for and one per worker that exited.
TypeOK ==
  /\ pc \in ParentState
  /\ todo \in 0..Workers /\ forks \in 0..(Workers + MaxCrashes)
  /\ dead \in Pid \union {0}
  /\ children \subseteq Pid
  /\ stopping \in BOOLEAN /\ failed \in BOOLEAN /\ listening \in BOOLEAN
  /\ worker \in [Pid -> WorkerState]
  /\ code \in [Pid -> {0, 1}]
  /\ fresh \in [Pid -> BOOLEAN]
  /\ listens \in [Pid -> BOOLEAN]
  /\ known \in [Pid -> SUBSET Pid]
  /\ term \in [Pid -> BOOLEAN]
  /\ crashes \in 0..MaxCrashes /\ signals \in 0..MaxSignals

\* `children` is what os.wait() can still return, except between a fork or a
\* wait and the line that records it: while it is not empty, os.wait() has a
\* child to wait for (the ChildProcessError branch of supervise() is dead).
ChildrenExact ==
  Unreaped = (children \union (IF pc = "forked" THEN {forks} ELSE {}))
               \ (IF pc = "reaped" THEN {dead} ELSE {})

\* The worker will exit: it is told to, on its way, or without a socket.
Doomed(p) ==
  \/ term[p]
  \/ worker[p] = "stopping"
  \/ worker[p] \in {"forked", "default"} /\ ~listens[p]

\* Whenever the stop comes, no worker escapes it (_serve.py, spawn(): "a signal
\* arrived while forking"), not even one forked afterwards.
StopReachesAll ==
  stopping /\ pc \notin {"forked", "recorded"} =>
    \A p \in Pid : Alive(p) => Doomed(p)

\* The parent does not go before its workers (_serve.py, supervise(): it "keeps
\* them running until SIGINT or SIGTERM, which is passed on to them"), unless
\* a fork failed.
NoOrphans == pc = "exited" => \A p \in Pid : ~Alive(p)

\* With no stop asked for, every worker that exited is replaced.
FullStrength ==
  pc = "wait" /\ ~stopping => Cardinality(children) = Workers

\* A stop ends the parent, with every worker reaped, unless a fork failed.
StopEnds == stopping ~> ~Running

-----------------------------------------------------------------------------
(* The inductive invariant.                                                *)

\* How far the parent is, and what it holds: the pids in use are those of the
\* forks made, and `dead` is a worker that was reaped.
Bookkeeping ==
  /\ \A p \in Pid : worker[p] = "none" <=> p > forks
  /\ pc \in {"forked", "recorded"} => forks \in Pid
  /\ pc = "forked" => forks \notin children
  /\ pc \in {"reaped", "judge"} => dead \in Pid /\ worker[dead] = "reaped"
  /\ pc = "reaped" => dead \in children
  /\ pc \in {"wait", "reaped", "judge"} => todo = 0
  /\ pc = "exited" => children = {}

\* The stop reaches every worker but the one whose fork is being recorded, and
\* no later worker gets a listener.
StopCovers ==
  stopping =>
    /\ ~listening
    /\ \A p \in Pid : Alive(p) =>
         Doomed(p) \/ (pc \in {"forked", "recorded"} /\ p = forks)

\* Workers that are not in `children`: still to be forked, just forked, or to
\* be replaced.
Missing == todo + (IF \/ pc \in {"forked", "judge"}
                      \/ pc = "spawn" /\ todo = 0
                   THEN 1 ELSE 0)

Strength == ~stopping /\ Running => Cardinality(children) + Missing = Workers

IInv == TypeOK /\ ChildrenExact /\ Bookkeeping /\ StopCovers
=============================================================================
