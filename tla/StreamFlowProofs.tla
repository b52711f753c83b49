-------------------------- MODULE StreamFlowProofs --------------------------
(***************************************************************************)
(* Proofs about StreamFlow, for any water marks, chunk sizes and stream    *)
(* length: IInv is inductive.  From it follow the bound on the backlog,    *)
(* that the counter never wraps, that a wake-up belongs to one wait, and   *)
(* that a waiting Python has its wake-up coming while the client is there. *)
(***************************************************************************)
EXTENDS StreamFlow, TLAPS

\* Init establishes the inductive invariant.
LEMMA InitIInv == Init => IInv
<1> USE StreamFlowAssumption
<1> SUFFICES ASSUME Init PROVE IInv
  OBVIOUS
<1>0. body \in {"idle", "dropped"}
  BY DEF Init
<1>1. flag \in BOOLEAN /\ sender \in BOOLEAN
  BY DEF Init
<1>2. channel \in Seq(0..MaxOffset)
  BY DEF Init
<1>3. TypeOK
  BY <1>0, <1>1, <1>2 DEF Init, TypeOK, PyState, BodyState
<1>4. Accounted /\ Phase /\ FlagOwned /\ NoSurplusWakeup
  BY <1>0 DEF Init, Accounted, Phase, FlagOwned, NoSurplusWakeup, WakeupQueued, ToldToWait
<1>5. WaitCovered /\ Levels
  BY <1>0 DEF Init, WaitCovered, Levels, WakeupQueued, Polled
<1> QED
  BY <1>3, <1>4, <1>5 DEF IInv

\* Every step keeps the types and the account of what is in flight.
LEMMA NextAccounted ==
  TypeOK /\ Accounted /\ [Next]_vars => TypeOK' /\ Accounted'
<1> USE StreamFlowAssumption DEF TypeOK, Accounted, PyState, BodyState, WrapAdd, WrapSub, SaturatingSub, ReceiverOpen
<1> SUFFICES ASSUME TypeOK, Accounted, [Next]_vars
             PROVE  TypeOK' /\ Accounted'
  OBVIOUS
<1>1. ASSUME NEW n \in ChunkSize, AddBytes(n) PROVE TypeOK' /\ Accounted'
  BY <1>1 DEF AddBytes, pyVars, rustVars
<1>2. CASE StoreWaiting
  BY <1>2 DEF StoreWaiting, pyVars, rustVars
<1>3. CASE Recheck
  BY <1>3 DEF Recheck, pyVars, rustVars
<1>4. CASE Unflag
  BY <1>4 DEF Unflag, pyVars, rustVars
<1>5. CASE SendChunk
  <2>1. CASE ReceiverOpen
    <3>1. channel' = Append(channel, counted)
      BY <1>5, <2>1 DEF SendChunk
    <3>2. channel' \in Seq(0..MaxOffset) /\ Len(channel') = Len(channel) + 1
      BY <3>1
    <3>3. \A i \in 1..Len(channel') : channel'[i] = IF i <= Len(channel) THEN channel[i] ELSE counted
      BY <3>1
    <3>4. UNCHANGED <<bytes, flag, sender, verdict, counted, body, popped, subbed, events>>
      BY <1>5 DEF SendChunk, rustVars
    <3>5. TypeOK'
      BY <1>5, <2>1, <3>2, <3>4 DEF SendChunk
    <3>6. ASSUME NEW i \in 1..Len(channel') PROVE popped <= channel'[i] /\ channel'[i] <= counted
      <4>1. CASE i <= Len(channel)
        <5>1. i \in 1..Len(channel) /\ channel'[i] = channel[i]
          BY <3>2, <3>3, <4>1
        <5> QED
          BY <5>1
      <4>2. CASE ~(i <= Len(channel))
        <5>1. channel'[i] = counted
          BY <3>3, <4>2
        <5> QED
          BY <5>1
      <4> QED
        BY <4>1, <4>2
    <3>7. ASSUME NEW i \in 1..Len(channel'), NEW j \in 1..Len(channel'), i <= j
          PROVE  channel'[i] <= channel'[j]
      <4>1. CASE j <= Len(channel)
        <5>1. i \in 1..Len(channel) /\ j \in 1..Len(channel)
          BY <3>7, <4>1
        <5>2. channel'[i] = channel[i] /\ channel'[j] = channel[j]
          BY <3>3, <4>1, <5>1
        <5>3. channel[i] <= channel[j]
          BY <3>7, <5>1 DEF Accounted
        <5> QED
          BY <5>2, <5>3
      <4>2. CASE j > Len(channel)
        BY <3>2, <3>3, <3>6, <3>7, <4>2
      <4> QED
        BY <4>1, <4>2
    <3>8. Accounted'
      BY <3>4, <3>6, <3>7
    <3> QED
      BY <3>5, <3>8
  <2>2. CASE ~ReceiverOpen
    BY <1>5, <2>2 DEF SendChunk, rustVars
  <2> QED
    BY <2>1, <2>2
<1>6. CASE Resume
  BY <1>6 DEF Resume, pyVars, rustVars
<1>7. CASE StreamEnds
  BY <1>7 DEF StreamEnds, pyVars, rustVars
<1>8. CASE Cancelled
  BY <1>8 DEF Cancelled, pyVars, rustVars
<1>9. CASE EndStream
  BY <1>9 DEF EndStream, pyVars, rustVars
<1>10. CASE Finish
  BY <1>10 DEF Finish, pyVars, rustVars
<1>11. CASE TakeWritable
  BY <1>11 DEF TakeWritable, pyVars, rustVars
<1>12. CASE PollFrame
  BY <1>12 DEF PollFrame, pyVars, rustVars
<1>13. CASE Taken
  BY <1>13 DEF Taken, pyVars, rustVars
<1>14. CASE Wake
  BY <1>14 DEF Wake, pyVars, rustVars
<1>15. CASE PushWritable
  BY <1>15 DEF PushWritable, pyVars, rustVars
<1>16. CASE BodyEnds
  BY <1>16 DEF BodyEnds, pyVars, rustVars
<1>17. CASE ClientGone
  BY <1>17 DEF ClientGone, pyVars, rustVars
<1>18. CASE DropWake
  BY <1>18 DEF DropWake, pyVars, rustVars
<1>19. CASE DropPush
  BY <1>19 DEF DropPush, pyVars, rustVars
<1>20. CASE DropReceiver
  BY <1>20 DEF DropReceiver, pyVars, rustVars
<1>21. CASE UNCHANGED vars
  BY <1>21 DEF vars, pyVars, rustVars
<1> QED
  BY <1>1, <1>2, <1>3, <1>4, <1>5, <1>6, <1>7, <1>8, <1>9, <1>10, <1>11, <1>12, <1>13, <1>14, <1>15, <1>16, <1>17, <1>18, <1>19, <1>20, <1>21
  DEF Next, Python, PySend, PyEnd, Rust, Drop

\* Every step keeps the future and the verdict in step with the task.
LEMMA NextPhase ==
  TypeOK /\ Phase /\ [Next]_vars => Phase'
<1> USE StreamFlowAssumption DEF TypeOK, Phase, PyState, BodyState
<1> SUFFICES ASSUME TypeOK, Phase, [Next]_vars
             PROVE  Phase'
  OBVIOUS
<1>1. ASSUME NEW n \in ChunkSize, AddBytes(n) PROVE Phase'
  BY <1>1 DEF AddBytes, pyVars, rustVars
<1>2. CASE StoreWaiting
  BY <1>2 DEF StoreWaiting, pyVars, rustVars
<1>3. CASE Recheck
  BY <1>3 DEF Recheck, pyVars, rustVars
<1>4. CASE Unflag
  BY <1>4 DEF Unflag, pyVars, rustVars
<1>5. CASE SendChunk
  BY <1>5 DEF SendChunk, pyVars, rustVars
<1>6. CASE Resume
  BY <1>6 DEF Resume, pyVars, rustVars
<1>7. CASE StreamEnds
  BY <1>7 DEF StreamEnds, pyVars, rustVars
<1>8. CASE Cancelled
  BY <1>8 DEF Cancelled, pyVars, rustVars
<1>9. CASE EndStream
  BY <1>9 DEF EndStream, pyVars, rustVars
<1>10. CASE Finish
  BY <1>10 DEF Finish, pyVars, rustVars
<1>11. CASE TakeWritable
  BY <1>11 DEF TakeWritable, pyVars, rustVars
<1>12. CASE PollFrame
  BY <1>12 DEF PollFrame, pyVars, rustVars
<1>13. CASE Taken
  BY <1>13 DEF Taken, pyVars, rustVars
<1>14. CASE Wake
  BY <1>14 DEF Wake, pyVars, rustVars
<1>15. CASE PushWritable
  BY <1>15 DEF PushWritable, pyVars, rustVars
<1>16. CASE BodyEnds
  BY <1>16 DEF BodyEnds, pyVars, rustVars
<1>17. CASE ClientGone
  BY <1>17 DEF ClientGone, pyVars, rustVars
<1>18. CASE DropWake
  BY <1>18 DEF DropWake, pyVars, rustVars
<1>19. CASE DropPush
  BY <1>19 DEF DropPush, pyVars, rustVars
<1>20. CASE DropReceiver
  BY <1>20 DEF DropReceiver, pyVars, rustVars
<1>21. CASE UNCHANGED vars
  BY <1>21 DEF vars, pyVars, rustVars
<1> QED
  BY <1>1, <1>2, <1>3, <1>4, <1>5, <1>6, <1>7, <1>8, <1>9, <1>10, <1>11, <1>12, <1>13, <1>14, <1>15, <1>16, <1>17, <1>18, <1>19, <1>20, <1>21
  DEF Next, Python, PySend, PyEnd, Rust, Drop

\* Every step keeps one wake-up for one wait.
LEMMA NextWakeups ==
  TypeOK /\ Phase /\ FlagOwned /\ NoSurplusWakeup /\ [Next]_vars => FlagOwned' /\ NoSurplusWakeup'
<1> USE StreamFlowAssumption DEF TypeOK, Phase, PyState, BodyState, FlagOwned, NoSurplusWakeup, WakeupQueued, ToldToWait
<1> SUFFICES ASSUME TypeOK, Phase, FlagOwned, NoSurplusWakeup, [Next]_vars
             PROVE  FlagOwned' /\ NoSurplusWakeup'
  OBVIOUS
<1>1. ASSUME NEW n \in ChunkSize, AddBytes(n) PROVE FlagOwned' /\ NoSurplusWakeup'
  BY <1>1 DEF AddBytes, pyVars, rustVars
<1>2. CASE StoreWaiting
  BY <1>2 DEF StoreWaiting, pyVars, rustVars
<1>3. CASE Recheck
  BY <1>3 DEF Recheck, pyVars, rustVars
<1>4. CASE Unflag
  BY <1>4 DEF Unflag, pyVars, rustVars
<1>5. CASE SendChunk
  BY <1>5 DEF SendChunk, pyVars, rustVars
<1>6. CASE Resume
  BY <1>6 DEF Resume, pyVars, rustVars
<1>7. CASE StreamEnds
  BY <1>7 DEF StreamEnds, pyVars, rustVars
<1>8. CASE Cancelled
  BY <1>8 DEF Cancelled, pyVars, rustVars
<1>9. CASE EndStream
  BY <1>9 DEF EndStream, pyVars, rustVars
<1>10. CASE Finish
  BY <1>10 DEF Finish, pyVars, rustVars
<1>11. CASE TakeWritable
  BY <1>11 DEF TakeWritable, pyVars, rustVars
<1>12. CASE PollFrame
  BY <1>12 DEF PollFrame, pyVars, rustVars
<1>13. CASE Taken
  BY <1>13 DEF Taken, pyVars, rustVars
<1>14. CASE Wake
  BY <1>14 DEF Wake, pyVars, rustVars
<1>15. CASE PushWritable
  BY <1>15 DEF PushWritable, pyVars, rustVars
<1>16. CASE BodyEnds
  BY <1>16 DEF BodyEnds, pyVars, rustVars
<1>17. CASE ClientGone
  BY <1>17 DEF ClientGone, pyVars, rustVars
<1>18. CASE DropWake
  BY <1>18 DEF DropWake, pyVars, rustVars
<1>19. CASE DropPush
  BY <1>19 DEF DropPush, pyVars, rustVars
<1>20. CASE DropReceiver
  BY <1>20 DEF DropReceiver, pyVars, rustVars
<1>21. CASE UNCHANGED vars
  BY <1>21 DEF vars, pyVars, rustVars
<1> QED
  BY <1>1, <1>2, <1>3, <1>4, <1>5, <1>6, <1>7, <1>8, <1>9, <1>10, <1>11, <1>12, <1>13, <1>14, <1>15, <1>16, <1>17, <1>18, <1>19, <1>20, <1>21
  DEF Next, Python, PySend, PyEnd, Rust, Drop

\* Every step keeps a wake-up coming for a waiting task.
LEMMA NextWaitCovered ==
  TypeOK /\ Accounted /\ Phase /\ WaitCovered /\ [Next]_vars => WaitCovered'
<1> USE StreamFlowAssumption DEF TypeOK, Accounted, Phase, PyState, BodyState, WaitCovered, WakeupQueued, Polled, WrapAdd, WrapSub, SaturatingSub, ReceiverOpen
<1> SUFFICES ASSUME TypeOK, Accounted, Phase, WaitCovered, [Next]_vars
             PROVE  WaitCovered'
  OBVIOUS
<1>1. ASSUME NEW n \in ChunkSize, AddBytes(n) PROVE WaitCovered'
  BY <1>1 DEF AddBytes, pyVars, rustVars
<1>2. CASE StoreWaiting
  BY <1>2 DEF StoreWaiting, pyVars, rustVars
<1>3. CASE Recheck
  BY <1>3 DEF Recheck, pyVars, rustVars
<1>4. CASE Unflag
  BY <1>4 DEF Unflag, pyVars, rustVars
<1>5. CASE SendChunk
  BY <1>5 DEF SendChunk, pyVars, rustVars
<1>6. CASE Resume
  BY <1>6 DEF Resume, pyVars, rustVars
<1>7. CASE StreamEnds
  BY <1>7 DEF StreamEnds, pyVars, rustVars
<1>8. CASE Cancelled
  BY <1>8 DEF Cancelled, pyVars, rustVars
<1>9. CASE EndStream
  BY <1>9 DEF EndStream, pyVars, rustVars
<1>10. CASE Finish
  BY <1>10 DEF Finish, pyVars, rustVars
<1>11. CASE TakeWritable
  BY <1>11 DEF TakeWritable, pyVars, rustVars
<1>12. CASE PollFrame
  BY <1>12 DEF PollFrame, pyVars, rustVars
<1>13. CASE Taken
  BY <1>13 DEF Taken, pyVars, rustVars
<1>14. CASE Wake
  BY <1>14 DEF Wake, pyVars, rustVars
<1>15. CASE PushWritable
  BY <1>15 DEF PushWritable, pyVars, rustVars
<1>16. CASE BodyEnds
  BY <1>16 DEF BodyEnds, pyVars, rustVars
<1>17. CASE ClientGone
  BY <1>17 DEF ClientGone, pyVars, rustVars
<1>18. CASE DropWake
  BY <1>18 DEF DropWake, pyVars, rustVars
<1>19. CASE DropPush
  BY <1>19 DEF DropPush, pyVars, rustVars
<1>20. CASE DropReceiver
  BY <1>20 DEF DropReceiver, pyVars, rustVars
<1>21. CASE UNCHANGED vars
  BY <1>21 DEF vars, pyVars, rustVars
<1> QED
  BY <1>1, <1>2, <1>3, <1>4, <1>5, <1>6, <1>7, <1>8, <1>9, <1>10, <1>11, <1>12, <1>13, <1>14, <1>15, <1>16, <1>17, <1>18, <1>19, <1>20, <1>21
  DEF Next, Python, PySend, PyEnd, Rust, Drop

\* Every step keeps the backlog within its levels.
LEMMA NextLevels ==
  TypeOK /\ Accounted /\ Phase /\ NoSurplusWakeup /\ FlagOwned /\ Levels /\ [Next]_vars => Levels'
<1> USE StreamFlowAssumption DEF TypeOK, Accounted, Phase, PyState, BodyState, NoSurplusWakeup, FlagOwned, ToldToWait, Levels, WakeupQueued, Polled, WrapAdd, WrapSub, SaturatingSub, ReceiverOpen
<1> SUFFICES ASSUME TypeOK, Accounted, Phase, NoSurplusWakeup, FlagOwned, Levels, [Next]_vars
             PROVE  Levels'
  OBVIOUS
<1>1. ASSUME NEW n \in ChunkSize, AddBytes(n) PROVE Levels'
  BY <1>1 DEF AddBytes, pyVars, rustVars
<1>2. CASE StoreWaiting
  BY <1>2 DEF StoreWaiting, pyVars, rustVars
<1>3. CASE Recheck
  BY <1>3 DEF Recheck, pyVars, rustVars
<1>4. CASE Unflag
  BY <1>4 DEF Unflag, pyVars, rustVars
<1>5. CASE SendChunk
  BY <1>5 DEF SendChunk, pyVars, rustVars
<1>6. CASE Resume
  BY <1>6 DEF Resume, pyVars, rustVars
<1>7. CASE StreamEnds
  BY <1>7 DEF StreamEnds, pyVars, rustVars
<1>8. CASE Cancelled
  BY <1>8 DEF Cancelled, pyVars, rustVars
<1>9. CASE EndStream
  BY <1>9 DEF EndStream, pyVars, rustVars
<1>10. CASE Finish
  BY <1>10 DEF Finish, pyVars, rustVars
<1>11. CASE TakeWritable
  BY <1>11 DEF TakeWritable, pyVars, rustVars
<1>12. CASE PollFrame
  BY <1>12 DEF PollFrame, pyVars, rustVars
<1>13. CASE Taken
  BY <1>13 DEF Taken, pyVars, rustVars
<1>14. CASE Wake
  BY <1>14 DEF Wake, pyVars, rustVars
<1>15. CASE PushWritable
  BY <1>15 DEF PushWritable, pyVars, rustVars
<1>16. CASE BodyEnds
  BY <1>16 DEF BodyEnds, pyVars, rustVars
<1>17. CASE ClientGone
  BY <1>17 DEF ClientGone, pyVars, rustVars
<1>18. CASE DropWake
  BY <1>18 DEF DropWake, pyVars, rustVars
<1>19. CASE DropPush
  BY <1>19 DEF DropPush, pyVars, rustVars
<1>20. CASE DropReceiver
  BY <1>20 DEF DropReceiver, pyVars, rustVars
<1>21. CASE UNCHANGED vars
  BY <1>21 DEF vars, pyVars, rustVars
<1> QED
  BY <1>1, <1>2, <1>3, <1>4, <1>5, <1>6, <1>7, <1>8, <1>9, <1>10, <1>11, <1>12, <1>13, <1>14, <1>15, <1>16, <1>17, <1>18, <1>19, <1>20, <1>21
  DEF Next, Python, PySend, PyEnd, Rust, Drop

\* IInv holds in every reachable state.
THEOREM Invariance == SafeSpec => []IInv
<1>1. IInv /\ [Next]_vars => IInv'
  BY NextAccounted, NextPhase, NextWakeups, NextWaitCovered, NextLevels DEF IInv
<1> QED
  BY <1>1, InitIInv, PTL DEF SafeSpec

\* The types hold, and so the atomic byte counter never wraps.
THEOREM TypeCorrect == SafeSpec => []TypeOK
<1>1. IInv => TypeOK
  BY DEF IInv
<1> QED
  BY <1>1, Invariance, PTL

\* However Python and the Rust thread interleave, a connected client never has
\* more than two chunks over HIGH_WATER waiting for it.
THEOREM Bounded == SafeSpec => []BacklogBound
<1>1. IInv => BacklogBound
  BY DEF IInv, Levels, BacklogBound
<1> QED
  BY <1>1, Invariance, PTL

\* A Writable event belongs to one wait, the current one.
THEOREM OneWakeup == SafeSpec => []NoSurplusWakeup
<1>1. IInv => NoSurplusWakeup
  BY DEF IInv
<1> QED
  BY <1>1, Invariance, PTL

\* A suspended task has its wake-up coming while the client is there.
THEOREM WakeupSafe == SafeSpec => []WakeupComing
<1>1. IInv => WakeupComing
  BY DEF IInv, WaitCovered, WakeupComing, WakeupQueued, Polled
<1> QED
  BY <1>1, Invariance, PTL
=============================================================================
