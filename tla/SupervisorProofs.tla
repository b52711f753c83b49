-------------------------- MODULE SupervisorProofs --------------------------
(***************************************************************************)
(* Proofs about Supervisor, for any number of workers, crashes and         *)
(* signals: the stop reaches every worker, the parent outlives them all    *)
(* unless a fork fails, and keeps their number.                            *)
(***************************************************************************)
EXTENDS Supervisor, FiniteSetTheorems, TLAPS

\* Pids are numbered from 1, one for each worker that can ever be forked.
LEMMA PidFacts ==
  /\ Pid \subseteq Nat \ {0}
  /\ \A p \in Pid : p <= Workers + MaxCrashes
  BY SupervisorAssumption DEF Pid

\* Signalling some workers leaves every worker with a signal pending or not.
LEMMA KilledType ==
  ASSUME NEW ps PROVE Killed(ps) \in [Pid -> BOOLEAN]
<1>1. \A p \in Pid : (term[p] \/ (p \in ps /\ Alive(p))) \in BOOLEAN
  BY Zenon
<1> QED
  BY <1>1, Zenon DEF Killed

\* supervise() starts in a state of the invariant.
LEMMA InitIInv == Init => IInv
<1> SUFFICES ASSUME Init PROVE IInv
  OBVIOUS
<1> USE SupervisorAssumption, PidFacts DEF Init
<1>1. TypeOK
  <2>1. /\ fresh \in [Pid -> BOOLEAN] /\ listens \in [Pid -> BOOLEAN]
        /\ term \in [Pid -> BOOLEAN] /\ code \in [Pid -> {0, 1}]
        /\ known \in [Pid -> SUBSET Pid]
    OBVIOUS
  <2>2. worker \in [Pid -> WorkerState]
    BY DEF WorkerState
  <2>3. stopping \in BOOLEAN /\ failed \in BOOLEAN /\ listening \in BOOLEAN
    OBVIOUS
  <2> QED
    BY <2>1, <2>2, <2>3 DEF TypeOK, ParentState
<1>2. ChildrenExact
  BY DEF ChildrenExact, Unreaped, Alive
<1>3. Bookkeeping
  BY DEF Bookkeeping
<1>4. StopCovers
  BY DEF StopCovers
<1> QED
  BY <1>1, <1>2, <1>3, <1>4 DEF IInv

\* Every action keeps the types.
LEMMA NextTypeOK == IInv /\ [Next]_vars => TypeOK'
<1> SUFFICES ASSUME IInv, [Next]_vars PROVE TypeOK'
  OBVIOUS
<1> USE SupervisorAssumption, PidFacts DEF IInv, TypeOK, ParentState, WorkerState
<1>1. CASE Fork
  BY <1>1 DEF Fork
<1>2. CASE ForkRaises
  BY <1>2 DEF ForkRaises, workerVars
<1>3. CASE Record
  <2>1. children' \subseteq Pid
    BY <1>3 DEF Record, workerVars, Bookkeeping
  <2> QED
    BY <1>3, <2>1 DEF Record, workerVars
<1>4. CASE KillIfStopping
  <2>1. term' \in [Pid -> BOOLEAN]
    <3>1. CASE stopping
      BY <1>4, <3>1, KilledType, Zenon DEF KillIfStopping
    <3>2. CASE ~stopping
      BY <1>4, <3>2 DEF KillIfStopping
    <3> QED
      BY <3>1, <3>2
  <2> QED
    BY <1>4, <2>1 DEF KillIfStopping, AfterSpawn
<1>5. ASSUME NEW p \in Pid, Wait(p) PROVE TypeOK'
  BY <1>5 DEF Wait
<1>6. CASE Pop
  BY <1>6 DEF Pop, workerVars
<1>7. CASE FailedToStart
  <2>1. term' = Killed(children)
    BY <1>7 DEF FailedToStart, Stop
  <2>2. term' \in [Pid -> BOOLEAN]
    BY <2>1, KilledType
  <2>3. signals' \in 0..MaxSignals
    BY <1>7 DEF FailedToStart, Stop
  <2> QED
    BY <1>7, <2>2, <2>3 DEF FailedToStart, Stop
<1>8. CASE Replace
  BY <1>8 DEF Replace, workerVars
<1>9. CASE LoopEnds
  BY <1>9 DEF LoopEnds, workerVars
<1>10. CASE Signal
  <2>1. term' = Killed(children)
    BY <1>10 DEF Signal, Stop, Running
  <2>2. term' \in [Pid -> BOOLEAN]
    BY <2>1, KilledType
  <2>3. signals' \in 0..MaxSignals
    BY <1>10 DEF Signal, Stop, Running
  <2> QED
    BY <1>10, <2>2, <2>3 DEF Signal, Stop, Running
<1>11. CASE Interrupt
  <2>1. term' = Killed(Pid)
    BY <1>11 DEF Interrupt, Running
  <2>2. term' \in [Pid -> BOOLEAN]
    BY <2>1, KilledType
  <2>3. signals' \in 0..MaxSignals
    BY <1>11 DEF Interrupt, Running
  <2> QED
    BY <1>11, <2>2, <2>3 DEF Interrupt, Running
<1>12. ASSUME NEW p \in Pid, InheritedStop(p) PROVE TypeOK'
  BY <1>12 DEF InheritedStop, Killed, Alive, parentVars
<1>13. ASSUME NEW p \in Pid, ResetHandlers(p) PROVE TypeOK'
  BY <1>13 DEF ResetHandlers, parentVars
<1>14. ASSUME NEW p \in Pid, DieOfSignal(p) PROVE TypeOK'
  BY <1>14 DEF DieOfSignal, Exits, parentVars
<1>15. ASSUME NEW p \in Pid, NoListener(p) PROVE TypeOK'
  BY <1>15 DEF NoListener, Exits, parentVars
<1>16. ASSUME NEW p \in Pid, Serve(p) PROVE TypeOK'
  BY <1>16 DEF Serve, parentVars
<1>17. ASSUME NEW p \in Pid, BeginStop(p) PROVE TypeOK'
  BY <1>17 DEF BeginStop, parentVars
<1>18. ASSUME NEW p \in Pid, EndStop(p) PROVE TypeOK'
  BY <1>18 DEF EndStop, Exits, parentVars
<1>19. ASSUME NEW p \in Pid, Age(p) PROVE TypeOK'
  BY <1>19 DEF Age, Unreaped, Alive, parentVars
<1>20. ASSUME NEW p \in Pid, NEW c \in {0, 1}, ExitOnItsOwn(p, c) PROVE TypeOK'
  BY <1>20 DEF ExitOnItsOwn, Exits, parentVars
<1>21. CASE UNCHANGED vars
  BY <1>21 DEF vars, parentVars, workerVars
<1> QED
  BY <1>1, <1>2, <1>3, <1>4, <1>5, <1>6, <1>7, <1>8, <1>9, <1>10, <1>11, <1>12, <1>13, <1>14, <1>15, <1>16, <1>17, <1>18, <1>19, <1>20, <1>21 DEF Next, Parent, Stops

\* fork and wait change what there is to wait for, and the line after each
\* records it.
LEMMA NextChildren == IInv /\ [Next]_vars => ChildrenExact'
<1> SUFFICES ASSUME IInv, [Next]_vars PROVE ChildrenExact'
  OBVIOUS
<1> USE PidFacts DEF IInv, TypeOK, ChildrenExact, Bookkeeping, Unreaped, Alive
<1>1. CASE Fork
  BY <1>1 DEF Fork
<1>2. CASE ForkRaises
  BY <1>2 DEF ForkRaises, workerVars
<1>3. CASE Record
  BY <1>3 DEF Record, workerVars
<1>4. CASE KillIfStopping
  BY <1>4 DEF KillIfStopping, Killed, Alive, AfterSpawn
<1>5. ASSUME NEW p \in Pid, Wait(p) PROVE ChildrenExact'
  BY <1>5 DEF Wait
<1>6. CASE Pop
  BY <1>6 DEF Pop, workerVars
<1>7. CASE FailedToStart
  BY <1>7 DEF FailedToStart, Stop, Killed, Alive
<1>8. CASE Replace
  BY <1>8 DEF Replace, workerVars
<1>9. CASE LoopEnds
  BY <1>9 DEF LoopEnds, workerVars
<1>10. CASE Signal
  BY <1>10 DEF Signal, Stop, Killed, Alive, Running
<1>11. CASE Interrupt
  BY <1>11 DEF Interrupt, Killed, Alive, Running
<1>12. ASSUME NEW p \in Pid, InheritedStop(p) PROVE ChildrenExact'
  BY <1>12 DEF InheritedStop, Killed, Alive, parentVars
<1>13. ASSUME NEW p \in Pid, ResetHandlers(p) PROVE ChildrenExact'
  BY <1>13 DEF ResetHandlers, parentVars
<1>14. ASSUME NEW p \in Pid, DieOfSignal(p) PROVE ChildrenExact'
  BY <1>14 DEF DieOfSignal, Exits, parentVars
<1>15. ASSUME NEW p \in Pid, NoListener(p) PROVE ChildrenExact'
  BY <1>15 DEF NoListener, Exits, parentVars
<1>16. ASSUME NEW p \in Pid, Serve(p) PROVE ChildrenExact'
  BY <1>16 DEF Serve, parentVars
<1>17. ASSUME NEW p \in Pid, BeginStop(p) PROVE ChildrenExact'
  BY <1>17 DEF BeginStop, parentVars
<1>18. ASSUME NEW p \in Pid, EndStop(p) PROVE ChildrenExact'
  BY <1>18 DEF EndStop, Exits, parentVars
<1>19. ASSUME NEW p \in Pid, Age(p) PROVE ChildrenExact'
  BY <1>19 DEF Age, Unreaped, Alive, parentVars
<1>20. ASSUME NEW p \in Pid, NEW c \in {0, 1}, ExitOnItsOwn(p, c) PROVE ChildrenExact'
  BY <1>20 DEF ExitOnItsOwn, Exits, parentVars
<1>21. CASE UNCHANGED vars
  BY <1>21 DEF vars, parentVars, workerVars
<1> QED
  BY <1>1, <1>2, <1>3, <1>4, <1>5, <1>6, <1>7, <1>8, <1>9, <1>10, <1>11, <1>12, <1>13, <1>14, <1>15, <1>16, <1>17, <1>18, <1>19, <1>20, <1>21 DEF Next, Parent, Stops

\* A pid is used once, by the next fork.
LEMMA NextBookkeeping == IInv /\ [Next]_vars => Bookkeeping'
<1> SUFFICES ASSUME IInv, [Next]_vars PROVE Bookkeeping'
  OBVIOUS
<1> USE PidFacts DEF IInv, TypeOK, Bookkeeping
<1>1. CASE Fork
  BY <1>1 DEF Fork, ChildrenExact, Unreaped, Alive
<1>2. CASE ForkRaises
  BY <1>2 DEF ForkRaises, workerVars
<1>3. CASE Record
  BY <1>3 DEF Record, workerVars
<1>4. CASE KillIfStopping
  BY <1>4 DEF KillIfStopping, Killed, Alive, AfterSpawn
<1>5. ASSUME NEW p \in Pid, Wait(p) PROVE Bookkeeping'
  BY <1>5 DEF Wait, ChildrenExact, Unreaped, Alive
<1>6. CASE Pop
  BY <1>6 DEF Pop, workerVars
<1>7. CASE FailedToStart
  BY <1>7 DEF FailedToStart, Stop, Killed, Alive
<1>8. CASE Replace
  BY <1>8 DEF Replace, workerVars
<1>9. CASE LoopEnds
  BY <1>9 DEF LoopEnds, workerVars
<1>10. CASE Signal
  BY <1>10 DEF Signal, Stop, Killed, Alive, Running
<1>11. CASE Interrupt
  BY <1>11 DEF Interrupt, Killed, Alive, Running
<1>12. ASSUME NEW p \in Pid, InheritedStop(p) PROVE Bookkeeping'
  BY <1>12 DEF InheritedStop, Killed, Alive, parentVars
<1>13. ASSUME NEW p \in Pid, ResetHandlers(p) PROVE Bookkeeping'
  BY <1>13 DEF ResetHandlers, parentVars
<1>14. ASSUME NEW p \in Pid, DieOfSignal(p) PROVE Bookkeeping'
  BY <1>14 DEF DieOfSignal, Exits, parentVars
<1>15. ASSUME NEW p \in Pid, NoListener(p) PROVE Bookkeeping'
  BY <1>15 DEF NoListener, Exits, parentVars
<1>16. ASSUME NEW p \in Pid, Serve(p) PROVE Bookkeeping'
  BY <1>16 DEF Serve, parentVars
<1>17. ASSUME NEW p \in Pid, BeginStop(p) PROVE Bookkeeping'
  BY <1>17 DEF BeginStop, parentVars
<1>18. ASSUME NEW p \in Pid, EndStop(p) PROVE Bookkeeping'
  BY <1>18 DEF EndStop, Exits, parentVars
<1>19. ASSUME NEW p \in Pid, Age(p) PROVE Bookkeeping'
  BY <1>19 DEF Age, Unreaped, Alive, parentVars
<1>20. ASSUME NEW p \in Pid, NEW c \in {0, 1}, ExitOnItsOwn(p, c) PROVE Bookkeeping'
  BY <1>20 DEF ExitOnItsOwn, Exits, parentVars
<1>21. CASE UNCHANGED vars
  BY <1>21 DEF vars, parentVars, workerVars
<1> QED
  BY <1>1, <1>2, <1>3, <1>4, <1>5, <1>6, <1>7, <1>8, <1>9, <1>10, <1>11, <1>12, <1>13, <1>14, <1>15, <1>16, <1>17, <1>18, <1>19, <1>20, <1>21 DEF Next, Parent, Stops

\* A worker that is to stop stays so until it is gone; one forked after the
\* stop has no listener.
LEMMA NextStopCovers == IInv /\ [Next]_vars => StopCovers'
<1> SUFFICES ASSUME IInv, [Next]_vars PROVE StopCovers'
  OBVIOUS
<1> USE PidFacts DEF IInv, TypeOK, Bookkeeping, StopCovers, Doomed, Alive
<1>1. CASE Fork
  BY <1>1 DEF Fork
<1>2. CASE ForkRaises
  BY <1>2 DEF ForkRaises, workerVars
<1>3. CASE Record
  BY <1>3 DEF Record, workerVars
<1>4. CASE KillIfStopping
  BY <1>4 DEF KillIfStopping, Killed, Alive, AfterSpawn
<1>5. ASSUME NEW p \in Pid, Wait(p) PROVE StopCovers'
  BY <1>5 DEF Wait
<1>6. CASE Pop
  BY <1>6 DEF Pop, workerVars
<1>7. CASE FailedToStart
  BY <1>7 DEF FailedToStart, Stop, Killed, Alive, ChildrenExact, Unreaped
<1>8. CASE Replace
  BY <1>8 DEF Replace, workerVars
<1>9. CASE LoopEnds
  BY <1>9 DEF LoopEnds, workerVars
<1>10. CASE Signal
  BY <1>10 DEF Signal, Stop, Killed, Alive, Running, ChildrenExact, Unreaped
<1>11. CASE Interrupt
  BY <1>11 DEF Interrupt, Killed, Alive, Running
<1>12. ASSUME NEW p \in Pid, InheritedStop(p) PROVE StopCovers'
  BY <1>12 DEF InheritedStop, Killed, Alive, parentVars
<1>13. ASSUME NEW p \in Pid, ResetHandlers(p) PROVE StopCovers'
  BY <1>13 DEF ResetHandlers, parentVars
<1>14. ASSUME NEW p \in Pid, DieOfSignal(p) PROVE StopCovers'
  BY <1>14 DEF DieOfSignal, Exits, parentVars
<1>15. ASSUME NEW p \in Pid, NoListener(p) PROVE StopCovers'
  BY <1>15 DEF NoListener, Exits, parentVars
<1>16. ASSUME NEW p \in Pid, Serve(p) PROVE StopCovers'
  BY <1>16 DEF Serve, parentVars
<1>17. ASSUME NEW p \in Pid, BeginStop(p) PROVE StopCovers'
  BY <1>17 DEF BeginStop, parentVars
<1>18. ASSUME NEW p \in Pid, EndStop(p) PROVE StopCovers'
  BY <1>18 DEF EndStop, Exits, parentVars
<1>19. ASSUME NEW p \in Pid, Age(p) PROVE StopCovers'
  BY <1>19 DEF Age, Unreaped, Alive, parentVars
<1>20. ASSUME NEW p \in Pid, NEW c \in {0, 1}, ExitOnItsOwn(p, c) PROVE StopCovers'
  BY <1>20 DEF ExitOnItsOwn, Exits, parentVars
<1>21. CASE UNCHANGED vars
  BY <1>21 DEF vars, parentVars, workerVars
<1> QED
  BY <1>1, <1>2, <1>3, <1>4, <1>5, <1>6, <1>7, <1>8, <1>9, <1>10, <1>11, <1>12, <1>13, <1>14, <1>15, <1>16, <1>17, <1>18, <1>19, <1>20, <1>21 DEF Next, Parent, Stops

\* `children` is a finite set.
LEMMA ChildrenFinite ==
  ASSUME TypeOK PROVE IsFiniteSet(children) /\ Cardinality(children) \in Nat
<1>1. IsFiniteSet(Pid)
  BY SupervisorAssumption, FS_Interval DEF Pid
<1> QED
  BY <1>1, FS_Subset, FS_CardinalityType DEF TypeOK

\* Every worker that leaves `children` is counted as missing until another one
\* takes its place.
LEMMA NextStrength == IInv /\ Strength /\ [Next]_vars => Strength'
<1> SUFFICES ASSUME IInv, Strength, [Next]_vars, ~stopping', Running'
             PROVE (Cardinality(children) + Missing)' = Workers
  BY DEF Strength
<1> USE SupervisorAssumption, PidFacts DEF IInv, TypeOK, Missing, Strength, Running, ParentState
<1>0. IsFiniteSet(children) /\ Cardinality(children) \in Nat
  BY ChildrenFinite
<1>1. CASE Fork
  BY <1>0, <1>1 DEF Fork
<1>2. CASE Record
  <2>1. Cardinality(children') = Cardinality(children) + 1
    BY <1>0, <1>2, FS_AddElement DEF Record, Bookkeeping
  <2> QED
    BY <1>0, <1>2, <2>1 DEF Record, workerVars
<1>3. CASE KillIfStopping
  BY <1>0, <1>3 DEF KillIfStopping, AfterSpawn
<1>4. ASSUME NEW p \in Pid, Wait(p) PROVE (Cardinality(children) + Missing)' = Workers
  BY <1>0, <1>4 DEF Wait
<1>5. CASE Pop
  <2>1. Cardinality(children') = Cardinality(children) - 1
    BY <1>0, <1>5, FS_RemoveElement DEF Pop, Bookkeeping
  <2> QED
    BY <1>0, <1>5, <2>1 DEF Pop, Bookkeeping, workerVars
<1>6. CASE Replace
  BY <1>0, <1>6 DEF Replace, Bookkeeping, workerVars
<1>7. CASE ForkRaises \/ LoopEnds \/ FailedToStart \/ Signal \/ Interrupt
  BY <1>7 DEF ForkRaises, LoopEnds, FailedToStart, Signal, Interrupt, Stop
<1>8. ASSUME UNCHANGED <<children, pc, todo, stopping>>
      PROVE  (Cardinality(children) + Missing)' = Workers
  BY <1>0, <1>8
<1>9. ASSUME NEW p \in Pid, Stops(p) \/ Age(p) \/ \E c \in {0, 1} : ExitOnItsOwn(p, c)
      PROVE  UNCHANGED <<children, pc, todo, stopping>>
  BY <1>9 DEF Stops, InheritedStop, ResetHandlers, DieOfSignal, NoListener, Serve,
              BeginStop, EndStop, Age, ExitOnItsOwn, parentVars
<1>10. CASE UNCHANGED vars
  BY <1>8, <1>10 DEF vars, parentVars
<1> QED
  BY <1>1, <1>2, <1>3, <1>4, <1>5, <1>6, <1>7, <1>8, <1>9, <1>10 DEF Next, Parent

\* The invariant holds throughout.
THEOREM Invariance == SafeSpec => []IInv
<1>1. IInv /\ [Next]_vars => IInv'
  BY NextTypeOK, NextChildren, NextBookkeeping, NextStopCovers DEF IInv
<1> QED
  BY InitIInv, <1>1, PTL DEF SafeSpec

\* Every variable of supervise() and its workers keeps its type.
THEOREM TypeCorrect == SafeSpec => []TypeOK
<1>1. IInv => TypeOK
  BY DEF IInv
<1> QED
  BY Invariance, <1>1, PTL

\* os.wait() always has a child to wait for, and the dict knows it.
THEOREM ChildrenKnown == SafeSpec => []ChildrenExact
<1>1. IInv => ChildrenExact
  BY DEF IInv
<1> QED
  BY Invariance, <1>1, PTL

\* A stop reaches every worker, whenever in spawn() or the wait loop the signal
\* comes.
THEOREM StopReaches == SafeSpec => []StopReachesAll
<1>1. IInv => StopReachesAll
  BY DEF IInv, StopCovers, StopReachesAll
<1> QED
  BY Invariance, <1>1, PTL

\* A parent that ends its wait loop is the last to go.
THEOREM ParentLast == SafeSpec => []NoOrphans
<1>1. IInv => NoOrphans
  BY DEF IInv, Bookkeeping, ChildrenExact, Unreaped, NoOrphans
<1> QED
  BY Invariance, <1>1, PTL

\* While nobody asked for a stop, the parent that waits has all its workers.
THEOREM StrengthKept == SafeSpec => []FullStrength
<1>1. Init => Strength
  BY SupervisorAssumption, FS_EmptySet DEF Init, Strength, Missing, Running
<1>2. Strength /\ IInv => FullStrength
  <2> SUFFICES ASSUME Strength, IInv, pc = "wait", ~stopping
               PROVE  Cardinality(children) = Workers
    BY DEF FullStrength
  <2>1. Cardinality(children) \in Nat
    BY ChildrenFinite DEF IInv
  <2> QED
    BY <2>1 DEF Strength, Missing, Running, IInv, Bookkeeping
<1> QED
  BY Invariance, NextStrength, <1>1, <1>2, PTL DEF SafeSpec

=============================================================================
