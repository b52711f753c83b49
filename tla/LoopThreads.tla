----------------------------- MODULE LoopThreads -----------------------------
(***************************************************************************)
(* serve_process() in src/korvex/_serve.py with several threads: one event *)
(* loop per thread, and stop_all(), which tells them all to stop.          *)
(*                                                                         *)
(* stop_all() is the main thread's signal handler, and what a thread whose *)
(* loop failed calls.  Python runs the handler between two bytecodes of    *)
(* the main thread, of another run of the handler too, so the main thread  *)
(* has a stack of them.  The lock is a threading.Lock, and so is the one    *)
(* inside the threading.Event: not reentrant.                              *)
(***************************************************************************)
EXTENDS Naturals, Sequences, SequencesExt

CONSTANTS Thread,     \* the threads, one event loop each
          Main,       \* the main thread
          Nobody,     \* holds the lock when no thread does
          MaxSignals, \* bound on the signals
          Faults      \* what may fail in a thread, out of FaultKind

FaultKind == {"startup",   \* a startup hook
              "exit",      \* a handler, with SystemExit
              "shutdown"}  \* a shutdown hook

ASSUME LoopThreadsAssumption ==
  /\ Main \notin Thread /\ Nobody \notin Thread /\ Main # Nobody
  /\ MaxSignals \in Nat /\ Faults \subseteq FaultKind

VARIABLES main,      \* "starting" threads, in its "join" loop, "done" or "raised"
          frames,    \* its runs of stop_all(), innermost last
          thread,    \* where each thread is
          left,      \* loops a thread's stop_all() has still to tell
          lock,      \* who holds `lock`
          loops,     \* the list of loops that joined, by thread
          stopping,  \* the threading.Event's flag
          told,      \* loops whose stop event is set, or about to be
          failures,  \* threads whose serve() raised
          signals    \* signals so far

vars == <<main, frames, thread, left, lock, loops, stopping, told, failures, signals>>

ThreadState == {"new", "startup", "joining", "joined", "serving", "draining",
                "failed", "setting", "locking", "telling", "ended", "crashed"}

\* asyncio.run() is over: call_soon_threadsafe() on the loop raises.
Closed(t) == thread[t] \in {"failed", "setting", "locking", "telling", "ended", "crashed"}

Frame == [at : {"set", "setting", "flagged", "lock", "tell"}, left : Seq(Thread)]
Top == frames[Len(frames)]
WithTop(f) == [frames EXCEPT ![Len(frames)] = f]

\* The signal handlers are installed, and the threads about to be started.
Init ==
  /\ main = "starting" /\ frames = <<>>
  /\ thread = [t \in Thread |-> "new"]
  /\ left = [t \in Thread |-> <<>>]
  /\ lock = Nobody /\ loops = <<>> /\ stopping = FALSE
  /\ told = {} /\ failures = {} /\ signals = 0

-----------------------------------------------------------------------------
(* The main thread.                                                        *)

\* thread.start()
StartThread(t) ==
  /\ main = "starting" /\ frames = <<>> /\ thread[t] = "new"
  /\ thread' = [thread EXCEPT ![t] = "startup"]
  /\ main' = IF \A u \in Thread \ {t} : thread[u] # "new" THEN "join" ELSE main
  /\ UNCHANGED <<frames, left, lock, loops, stopping, told, failures, signals>>

\* No thread is alive any more; a failure is raised again after this.
JoinAll ==
  /\ main = "join" /\ frames = <<>>
  /\ \A t \in Thread : thread[t] \in {"ended", "crashed"}
  /\ main' = "done"
  /\ UNCHANGED <<frames, thread, left, lock, loops, stopping, told, failures, signals>>

\* SIGINT or SIGTERM: the handler runs on top of what the main thread does.
Signal ==
  /\ main \in {"starting", "join"} /\ signals < MaxSignals
  /\ signals' = signals + 1
  /\ frames' = Append(frames, [at |-> "set", left |-> <<>>])
  /\ UNCHANGED <<main, thread, left, lock, loops, stopping, told, failures>>

\* The main thread, or any, is inside stopping.set(), with the event's lock.
MainInEvent == \E i \in DOMAIN frames : frames[i].at \in {"setting", "flagged"}
EventFree == ~MainInEvent /\ \A t \in Thread : thread[t] # "setting"

\* stopping.set(): the event's lock is taken: for a handler that interrupted
\* another one's set(), never ...
MainEnters ==
  /\ frames # <<>> /\ Top.at = "set" /\ EventFree
  /\ frames' = WithTop([Top EXCEPT !.at = "setting"])
  /\ UNCHANGED <<main, thread, left, lock, loops, stopping, told, failures, signals>>

\* ... the flag is set ...
MainSets ==
  /\ frames # <<>> /\ Top.at = "setting"
  /\ stopping' = TRUE
  /\ frames' = WithTop([Top EXCEPT !.at = "flagged"])
  /\ UNCHANGED <<main, thread, left, lock, loops, told, failures, signals>>

\* ... and the lock is given back.
MainLeaves ==
  /\ frames # <<>> /\ Top.at = "flagged"
  /\ frames' = WithTop([Top EXCEPT !.at = "lock"])
  /\ UNCHANGED <<main, thread, left, lock, loops, stopping, told, failures, signals>>

\* with lock: for a handler that interrupted one that holds it, never.
MainLocks ==
  /\ frames # <<>> /\ Top.at = "lock" /\ lock = Nobody
  /\ lock' = Main
  /\ frames' = WithTop([at |-> "tell", left |-> loops])
  /\ UNCHANGED <<main, thread, left, loops, stopping, told, failures, signals>>

\* loop.call_soon_threadsafe(stop.set), for the next loop
MainTells ==
  /\ frames # <<>> /\ Top.at = "tell" /\ Top.left # <<>>
  /\ ~Closed(Head(Top.left))
  /\ told' = told \union {Head(Top.left)}
  /\ frames' = WithTop([Top EXCEPT !.left = Tail(@)])
  /\ UNCHANGED <<main, thread, left, lock, loops, stopping, failures, signals>>

\* ... which is closed: RuntimeError leaves the handlers, the join loop and
\* serve_process().
MainRaises ==
  /\ frames # <<>> /\ Top.at = "tell" /\ Top.left # <<>>
  /\ Closed(Head(Top.left))
  /\ lock' = Nobody
  /\ frames' = <<>>
  /\ main' = "raised"
  /\ UNCHANGED <<thread, left, loops, stopping, told, failures, signals>>

MainUnlocks ==
  /\ frames # <<>> /\ Top.at = "tell" /\ Top.left = <<>>
  /\ lock' = Nobody
  /\ frames' = Front(frames)
  /\ UNCHANGED <<main, thread, left, loops, stopping, told, failures, signals>>

-----------------------------------------------------------------------------
(* A thread: run_loop(), serve() in it, and stop_all() when that raises.   *)

Goes(t, state) == thread' = [thread EXCEPT ![t] = state]

\* The startup hooks, and the server's start.
StartsUp(t) ==
  /\ thread[t] = "startup"
  /\ Goes(t, "joining")
  /\ UNCHANGED <<main, frames, left, lock, loops, stopping, told, failures, signals>>

\* asyncio.run() raises: failures.append(error)
Fails(t) ==
  /\ \/ thread[t] = "startup" /\ "startup" \in Faults
     \/ thread[t] \in {"serving", "draining"} /\ "exit" \in Faults
     \/ thread[t] = "draining" /\ "shutdown" \in Faults
  /\ Goes(t, "failed")
  /\ failures' = failures \union {t}
  /\ UNCHANGED <<main, frames, left, lock, loops, stopping, told, signals>>

\* joined(): the loop joins the list, under the lock ...
Joins(t) ==
  /\ thread[t] = "joining" /\ lock = Nobody
  /\ loops' = Append(loops, t)
  /\ Goes(t, "joined")
  /\ UNCHANGED <<main, frames, left, lock, stopping, told, failures, signals>>

\* ... and then looks whether it was asked to stop before.
ChecksStopping(t) ==
  /\ thread[t] = "joined"
  /\ told' = IF stopping THEN told \union {t} ELSE told
  /\ Goes(t, "serving")
  /\ UNCHANGED <<main, frames, left, lock, loops, stopping, failures, signals>>

\* stopping.wait() is over: requests in progress finish.
Drains(t) ==
  /\ thread[t] = "serving" /\ t \in told
  /\ Goes(t, "draining")
  /\ UNCHANGED <<main, frames, left, lock, loops, stopping, told, failures, signals>>

Ends(t) ==
  /\ thread[t] = "draining"
  /\ Goes(t, "ended")
  /\ UNCHANGED <<main, frames, left, lock, loops, stopping, told, failures, signals>>

\* stop_all() in the thread that failed: stopping.set() takes the event's lock ...
ThreadEnters(t) ==
  /\ thread[t] = "failed" /\ EventFree
  /\ Goes(t, "setting")
  /\ UNCHANGED <<main, frames, left, lock, loops, stopping, told, failures, signals>>

\* ... sets the flag and gives the lock back ...
ThreadSets(t) ==
  /\ thread[t] = "setting"
  /\ stopping' = TRUE
  /\ Goes(t, "locking")
  /\ UNCHANGED <<main, frames, left, lock, loops, told, failures, signals>>

ThreadLocks(t) ==
  /\ thread[t] = "locking" /\ lock = Nobody
  /\ lock' = t
  /\ left' = [left EXCEPT ![t] = loops]
  /\ Goes(t, "telling")
  /\ UNCHANGED <<main, frames, loops, stopping, told, failures, signals>>

ThreadTells(t) ==
  /\ thread[t] = "telling" /\ left[t] # <<>> /\ ~Closed(Head(left[t]))
  /\ told' = told \union {Head(left[t])}
  /\ left' = [left EXCEPT ![t] = Tail(@)]
  /\ UNCHANGED <<main, frames, thread, lock, loops, stopping, failures, signals>>

\* RuntimeError ends the thread; the loops after the closed one are not told.
ThreadRaises(t) ==
  /\ thread[t] = "telling" /\ left[t] # <<>> /\ Closed(Head(left[t]))
  /\ lock' = Nobody
  /\ left' = [left EXCEPT ![t] = <<>>]
  /\ Goes(t, "crashed")
  /\ UNCHANGED <<main, frames, loops, stopping, told, failures, signals>>

\* Mutant of ThreadUnlocks: the lock is kept.
ThreadKeepsLock(t) ==
  /\ thread[t] = "telling" /\ left[t] = <<>>
  /\ Goes(t, "ended")
  /\ UNCHANGED <<main, frames, left, lock, loops, stopping, told, failures, signals>>

ThreadUnlocks(t) ==
  /\ thread[t] = "telling" /\ left[t] = <<>>
  /\ lock' = Nobody
  /\ Goes(t, "ended")
  /\ UNCHANGED <<main, frames, left, loops, stopping, told, failures, signals>>

-----------------------------------------------------------------------------
MainStep == (\E t \in Thread : StartThread(t)) \/ JoinAll
              \/ MainEnters \/ MainSets \/ MainLeaves \/ MainLocks \/ MainTells \/ MainRaises \/ MainUnlocks

ThreadStep(t) == StartsUp(t) \/ Joins(t) \/ ChecksStopping(t) \/ Drains(t)
                   \/ Ends(t) \/ ThreadEnters(t) \/ ThreadSets(t) \/ ThreadLocks(t)
                   \/ ThreadTells(t) \/ ThreadRaises(t) \/ ThreadUnlocks(t)

Next == MainStep \/ Signal \/ \E t \in Thread : ThreadStep(t) \/ Fails(t)

SafeSpec == Init /\ [][Next]_vars

\* Fairness: threads run, and requests in progress end (graceful_timeout
\* bounds them).  The locks are taken finitely often, so that they stay free
\* for whoever waits: weak fairness is enough.
Spec == SafeSpec /\ WF_vars(MainStep) /\ \A t \in Thread : WF_vars(ThreadStep(t))

-----------------------------------------------------------------------------
(* Properties.                                                             *)

\* Every variable keeps its type.
TypeOK ==
  /\ main \in {"starting", "join", "done", "raised"}
  /\ frames \in Seq(Frame)
  /\ thread \in [Thread -> ThreadState]
  /\ left \in [Thread -> Seq(Thread)]
  /\ lock \in Thread \union {Main, Nobody}
  /\ loops \in Seq(Thread)
  /\ stopping \in BOOLEAN
  /\ told \subseteq Thread /\ failures \subseteq Thread
  /\ signals \in 0..MaxSignals

\* A run of stop_all() has met a closed loop and died.
StopAllDied == main = "raised" \/ \E t \in Thread : thread[t] = "crashed"

\* The main thread waits for a lock it holds itself, in a handler that
\* interrupted another one: stop_all()'s, or the one inside its event.
WaitsForItself ==
  frames # <<>> /\ ((Top.at = "lock" /\ lock = Main) \/ (Top.at = "set" /\ MainInEvent))

\* Once asked to stop, the process ends, unless a run of stop_all() died or
\* waits for itself: nothing else keeps the loops from stopping.
StopEnds == stopping ~> main = "done" \/ StopAllDied \/ WaitsForItself
=============================================================================
