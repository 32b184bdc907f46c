-------------------------- MODULE GraphWorkerProofs --------------------------
(***************************************************************************)
(* Safety of GraphWorker for any number of workers and updates, any length *)
(* of the work queue and any number of spurious wake-ups.                  *)
(***************************************************************************)
EXTENDS GraphWorker, TLAPS

USE DEF Working, Pausing, Reading, MainPC, Ops

(***************************************************************************)
(* Type correctness.                                                       *)
(***************************************************************************)
\* The constructor leaves well-typed state.
LEMMA TypeInit == Init => TypeOK
<1> SUFFICES ASSUME Init PROVE TypeOK
  OBVIOUS
<1>1. thr_paused \in [Workers -> BOOLEAN] /\ hold \in [Workers -> SUBSET Updates]
  BY DEF Init
<1>2. wpc \in [Workers -> Working \cup Pausing]
  BY DEF Init
<1>3. spurious \in 0..MaxSpurious
  BY BoundsAssumption DEF Init
<1>4. QED
  BY Zenon, <1>1, <1>2, <1>3 DEF Init, TypeOK

\* Every step of the client and of a worker keeps it.
LEMMA TypeNext == TypeOK /\ [Next]_vars => TypeOK'
<1> SUFFICES ASSUME TypeOK, [Next]_vars PROVE TypeOK'
  OBVIOUS
<1> USE BoundsAssumption DEF TypeOK, flagVars, waitVars, dataVars, graphVars, mainVars, Goto, MainGoto
<1>1. CASE UNCHANGED vars
  BY <1>1 DEF vars
<1>2. CASE Construct
  BY Zenon, <1>2 DEF Construct, start_workers
<1>3. ASSUME NEW u \in Updates, Update(u) PROVE TypeOK'
  BY <1>3 DEF Update
<1>4. ASSUME NEW o \in Ops, Call(o) PROVE TypeOK'
  BY <1>4 DEF Call
<1>5. CASE Destroy
  BY <1>5 DEF Destroy
<1>6. CASE InsertPush
  BY <1>6 DEF InsertPush, PushNode
<1>7. CASE FlushNode
  BY <1>7 DEF FlushNode, PushNode
<1>8. CASE FlushDone \/ SetPaused \/ PauseNonBlock \/ PauseReturn
  <2>1. CASE FlushDone \/ SetPaused
    BY <2>1 DEF FlushDone, SetPaused
  <2>2. CASE PauseNonBlock
    BY <2>2 DEF PauseNonBlock
  <2>3. CASE PauseReturn
    BY <2>3 DEF PauseReturn
  <2>4. QED
    BY ONLY <1>8, <2>1, <2>2, <2>3
<1>9. CASE BoruvkaStart \/ BoruvkaEnd \/ UnlockUpdates \/ SaveEnd
  <2>1. CASE BoruvkaStart \/ BoruvkaEnd
    BY ZenonT(40), <2>1 DEF BoruvkaStart, BoruvkaEnd
  <2>2. CASE UnlockUpdates \/ SaveEnd
    BY ZenonT(40), <2>2 DEF UnlockUpdates, SaveEnd
  <2>3. QED
    BY ONLY <1>9, <2>1, <2>2
<1>10. CASE UnpauseBlock \/ ClearPaused \/ NotifyWorkers \/ UnpauseReturn
  <2>1. CASE UnpauseBlock \/ ClearPaused
    BY <2>1 DEF UnpauseBlock, ClearPaused
  <2>2. CASE NotifyWorkers
    BY <2>2 DEF NotifyWorkers, Notified
  <2>3. CASE UnpauseReturn
    BY <2>3 DEF UnpauseReturn
  <2>4. QED
    BY ONLY <1>10, <2>1, <2>2, <2>3
<1>11. CASE FreeSupernodes \/ SetShutdown \/ StopNonBlock \/ StopNotify \/ JoinWorkers
  <2>1. CASE StopNotify
    BY <2>1 DEF StopNotify, Notified
  <2>2. CASE FreeSupernodes \/ SetShutdown
    BY <2>2 DEF FreeSupernodes, SetShutdown
  <2>3. CASE StopNonBlock \/ JoinWorkers
    BY <2>3 DEF StopNonBlock, JoinWorkers
  <2>4. QED
    BY ONLY <1>11, <2>1, <2>2, <2>3
<1>12. ASSUME NEW w \in Workers, GetData(w) \/ ApplyDelta(w) PROVE TypeOK'
  BY <1>12 DEF GetData, ApplyDelta
<1>13. ASSUME NEW w \in Workers,
              \/ GetNothing(w) \/ BatchUpdate(w) \/ GetDataCallback(w)
              \/ TestShutdown(w) \/ TestPaused(w) \/ WaitPredicate(w) \/ WriteFreed(w)
       PROVE TypeOK'
  BY <1>13 DEF GetNothing, BatchUpdate, WriteFreed, GetDataCallback, TestShutdown, TestPaused, WaitPredicate
<1>14. ASSUME NEW w \in Workers,
              Block(w) \/ SpuriousWake(w) \/ Relock(w) \/ LeavePause(w)
       PROVE TypeOK'
  <2>1. CASE SpuriousWake(w)
    BY <2>1 DEF SpuriousWake
  <2>2. CASE LeavePause(w)
    BY <2>2 DEF LeavePause
  <2>3. QED
    BY <1>14, <2>1, <2>2 DEF Block, Relock
<1>15. ASSUME NEW w \in Workers, LockAndPause(w) \/ NotifyUnpaused(w) PROVE TypeOK'
  <2>1. Notified(wpc) \in [Workers -> Working \cup Pausing]
    BY DEF Notified
  <2>2. CASE LockAndPause(w)
    BY <2>1, <2>2 DEF LockAndPause
  <2>3. CASE NotifyUnpaused(w)
    BY <2>1, <2>3 DEF NotifyUnpaused
  <2>4. QED
    BY <1>15, <2>2, <2>3
<1>16. QED
  BY Zenon, <1>1, <1>2, <1>3, <1>4, <1>5, <1>6, <1>7, <1>8, <1>9, <1>10, <1>11, <1>12, <1>13, <1>14, <1>15
     DEF Next, ClientCall, MainStep, Worker

(***************************************************************************)
(* Exactly-once ingestion.                                                 *)
(***************************************************************************)
\* Only these steps move an update: update itself, the pushes of the
\* guttering system, get_data, the end of batch_update, and a new Graph.
LEMMA DataSteps ==
  ASSUME [Next]_vars
  PROVE  \/ UNCHANGED <<gutter, queue, hold, applied, inserted>>
         \/ Construct
         \/ \E u \in Updates : Update(u)
         \/ InsertPush \/ FlushNode
         \/ \E w \in Workers : GetData(w) \/ ApplyDelta(w)
<1> USE DEF dataVars, mainVars
<1>1. CASE UNCHANGED vars
  BY <1>1 DEF vars
<1>2. CASE ClientCall
  BY <1>2 DEF ClientCall, Call, Destroy
<1>3. CASE MainStep
  BY <1>3 DEF MainStep, FlushDone, SetPaused, PauseNonBlock, PauseReturn, BoruvkaStart,
     BoruvkaEnd, UnlockUpdates, SaveEnd, UnpauseBlock, ClearPaused, NotifyWorkers,
     UnpauseReturn, FreeSupernodes, SetShutdown, StopNonBlock, StopNotify, JoinWorkers
<1>4. ASSUME NEW w \in Workers, Worker(w) \/ SpuriousWake(w)
      PROVE  UNCHANGED <<gutter, queue, hold, applied, inserted>> \/ GetData(w) \/ ApplyDelta(w)
  BY <1>4 DEF Worker, SpuriousWake, GetNothing, BatchUpdate, WriteFreed, GetDataCallback,
     TestShutdown, TestPaused, LockAndPause, WaitPredicate, Block, Relock, LeavePause,
     NotifyUnpaused
<1>5. QED
  BY <1>1, <1>2, <1>3, <1>4 DEF Next

\* A worker holds updates only from get_data to the end of its batches.
HoldInv == \A w \in Workers : wpc[w] \notin {"batch", "delta", "terminated", "crashed"} => hold[w] = {}

\* No step lets go of a DataNode early or fills one twice.
LEMMA HoldInvNext == TypeOK /\ HoldInv /\ [Next]_vars => HoldInv'
<1> SUFFICES ASSUME TypeOK, HoldInv, [Next]_vars PROVE HoldInv'
  OBVIOUS
<1> USE DEF TypeOK, HoldInv, dataVars, Goto
<1>1. CASE UNCHANGED <<hold, wpc>>
  BY <1>1
<1>2. CASE Construct
  BY <1>2 DEF Construct, start_workers
<1>3. CASE wpc' = Notified(wpc) /\ UNCHANGED hold
  BY <1>3 DEF Notified
<1>4. ASSUME NEW w \in Workers, GetData(w) \/ ApplyDelta(w) PROVE HoldInv'
  BY <1>4 DEF GetData, ApplyDelta
<1>5. ASSUME NEW w \in Workers, LockAndPause(w) \/ NotifyUnpaused(w) PROVE HoldInv'
  BY Zenon, <1>5 DEF LockAndPause, NotifyUnpaused, Notified
<1>6. ASSUME NEW w \in Workers,
             \/ GetNothing(w) \/ BatchUpdate(w) \/ GetDataCallback(w) \/ TestShutdown(w)
             \/ TestPaused(w) \/ WaitPredicate(w) \/ Block(w) \/ SpuriousWake(w)
             \/ Relock(w) \/ LeavePause(w) \/ WriteFreed(w)
      PROVE  HoldInv'
  BY <1>6 DEF GetNothing, BatchUpdate, WriteFreed, GetDataCallback, TestShutdown, TestPaused,
     WaitPredicate, Block, SpuriousWake, Relock, LeavePause
<1>7. CASE UNCHANGED vars
  BY <1>1, <1>7 DEF vars
<1>8. CASE ClientCall
  BY <1>1, <1>2, <1>8 DEF ClientCall, Update, Call, Destroy
<1>9. CASE MainStep
  BY <1>1, <1>3, <1>9 DEF MainStep, InsertPush, FlushNode, PushNode, FlushDone, SetPaused,
     PauseNonBlock, PauseReturn, BoruvkaStart, BoruvkaEnd, UnlockUpdates, SaveEnd,
     UnpauseBlock, ClearPaused, NotifyWorkers, UnpauseReturn, FreeSupernodes,
     SetShutdown, StopNonBlock, StopNotify, JoinWorkers
<1>10. QED
  BY Zenon, <1>4, <1>5, <1>6, <1>7, <1>8, <1>9 DEF Next, Worker

\* An update stays in one place at a time on its way to the sketches.
LEMMA ExactlyOnceNext == TypeOK /\ HoldInv /\ ExactlyOnce /\ [Next]_vars => ExactlyOnce'
<1> SUFFICES ASSUME TypeOK, HoldInv, ExactlyOnce, [Next]_vars PROVE ExactlyOnce'
  OBVIOUS
<1> USE DEF TypeOK, ExactlyOnce
<1>1. CASE UNCHANGED <<gutter, queue, hold, applied, inserted>>
  BY <1>1
<1>2. CASE Construct
  BY <1>2 DEF Construct
<1>3. ASSUME NEW u \in Updates, Update(u) PROVE ExactlyOnce'
  BY <1>3 DEF Update
<1>4. ASSUME PushNode PROVE ExactlyOnce'
  <2>1. PICK node \in (SUBSET gutter) \ {{}} : queue' = queue \cup {node} /\ gutter' = gutter \ node
    BY <1>4 DEF PushNode
  <2>2. UNCHANGED <<hold, applied, inserted>>
    BY <1>4 DEF PushNode
  <2>3. QED
    BY <2>1, <2>2
<1>5. ASSUME NEW w \in Workers, GetData(w) PROVE ExactlyOnce'
  <2>1. PICK node \in queue : /\ queue' = queue \ {node}
                              /\ hold' = [hold EXCEPT ![w] = node]
    BY Zenon, <1>5 DEF GetData
  <2>2. UNCHANGED <<gutter, applied, inserted>>
    BY <1>5 DEF GetData, mainVars
  <2>3. hold[w] = {}
    BY <1>5 DEF GetData, HoldInv
  <2>4. /\ hold'[w] = node
        /\ \A v \in Workers \ {w} : hold'[v] = hold[v]
    BY <2>1
  <2>5. QED
    BY <2>1, <2>2, <2>3, <2>4
<1>6. ASSUME NEW w \in Workers, ApplyDelta(w) PROVE ExactlyOnce'
  BY <1>6 DEF ApplyDelta, mainVars
<1>7. QED
  BY <1>1, <1>2, <1>3, <1>4, <1>5, <1>6, DataSteps DEF InsertPush, FlushNode

(***************************************************************************)
(* The pause protocol.                                                     *)
(***************************************************************************)
\* The control state of a worker tells what it holds and what its flag says.
LEMMA WorkerInvNext == TypeOK /\ WorkerInv /\ MainInv /\ [Next]_vars => WorkerInv'
<1> SUFFICES ASSUME TypeOK, WorkerInv, MainInv, [Next]_vars PROVE WorkerInv'
  OBVIOUS
<1> USE DEF TypeOK, WorkerInv, waitVars, dataVars
<1>1. CASE UNCHANGED <<queue, hold, thr_paused, wpc>>
  BY <1>1
<1>2. CASE Construct
  BY <1>2 DEF Construct, start_workers
<1>3. CASE PushNode
  <2>1. PICK node \in (SUBSET gutter) \ {{}} : queue' = queue \cup {node}
    BY <1>3 DEF PushNode
  <2>2. {} \notin queue'
    BY <2>1
  <2>3. QED
    BY <1>3, <2>2 DEF PushNode
<1>4. CASE wpc' = Notified(wpc) /\ UNCHANGED <<queue, hold, thr_paused>>
  BY <1>4 DEF Notified
<1>5. ASSUME NEW w \in Workers, GetData(w) \/ ApplyDelta(w) PROVE WorkerInv'
  BY <1>5 DEF GetData, ApplyDelta, Goto
<1>6. ASSUME NEW w \in Workers, BatchUpdate(w) PROVE WorkerInv'
  <2>1. ~update_locked
    BY <1>6 DEF BatchUpdate, MainInv, Drained
  <2>2. QED
    BY <1>6, <2>1 DEF BatchUpdate, Goto
<1>7. ASSUME NEW w \in Workers,
             \/ GetNothing(w) \/ WriteFreed(w) \/ GetDataCallback(w)
             \/ TestShutdown(w) \/ TestPaused(w)
      PROVE  WorkerInv'
  BY <1>7 DEF GetNothing, WriteFreed, GetDataCallback, TestShutdown, TestPaused, Goto
<1>8. ASSUME NEW w \in Workers, LockAndPause(w) PROVE WorkerInv'
  BY <1>8 DEF LockAndPause, Notified
<1>9. ASSUME NEW w \in Workers,
             WaitPredicate(w) \/ Block(w) \/ SpuriousWake(w) \/ Relock(w) \/ LeavePause(w)
      PROVE  WorkerInv'
  BY <1>9 DEF WaitPredicate, Block, SpuriousWake, Relock, LeavePause, Goto
<1>10. ASSUME NEW w \in Workers, NotifyUnpaused(w) PROVE WorkerInv'
  BY <1>10 DEF NotifyUnpaused, Notified
<1>11. CASE UNCHANGED vars
  BY <1>1, <1>11 DEF vars
<1>12. CASE ClientCall
  BY <1>1, <1>2, <1>12 DEF ClientCall, Update, Call, Destroy
<1>13. CASE MainStep
  BY Zenon, <1>1, <1>3, <1>4, <1>13 DEF MainStep, InsertPush, FlushNode, FlushDone, SetPaused,
     PauseNonBlock, PauseReturn, BoruvkaStart, BoruvkaEnd, UnlockUpdates, SaveEnd,
     UnpauseBlock, ClearPaused, NotifyWorkers, UnpauseReturn, FreeSupernodes,
     SetShutdown, StopNonBlock, StopNotify, JoinWorkers
<1>14. QED
  BY Zenon, <1>5, <1>6, <1>7, <1>8, <1>9, <1>10, <1>11, <1>12, <1>13 DEF Next, Worker

\* Updates that are all in the sketches are nowhere else.
LEMMA AppliedIsDrained ==
  ASSUME TypeOK, WorkerInv, ExactlyOnce, inserted \subseteq applied
  PROVE  Drained
<1> USE DEF TypeOK, WorkerInv, ExactlyOnce
<1>1. gutter = {}
  OBVIOUS
<1>2. \A w \in Workers : hold[w] = {}
  OBVIOUS
<1>3. ASSUME NEW n \in queue PROVE FALSE
  <2>1. n # {} /\ n \subseteq Updates
    BY Zenon, <1>3 DEF TypeOK, WorkerInv
  <2> PICK u \in n : TRUE
    BY <2>1
  <2>2. u \in inserted /\ u \notin applied
    BY <2>1
  <2>3. QED
    BY <2>2
<1>4. QED
  BY <1>1, <1>2, <1>3 DEF Drained

\* And the other way round.
LEMMA DrainedIsApplied ==
  ASSUME TypeOK, ExactlyOnce, Drained
  PROVE  applied = inserted
<1>1. ASSUME NEW u \in Updates PROVE u \in applied <=> u \in inserted
  BY DEF ExactlyOnce, Drained
<1>2. QED
  BY <1>1 DEF TypeOK

\* A worker that moves about in its wait concerns nobody else.
InWait == {"pred", "block", "waiting", "relock"}
LEMMA WaitKeepsMain ==
  ASSUME TypeOK, MainInv, NEW w \in Workers, wpc[w] \in InWait,
         NEW pc \in InWait, wpc' = [wpc EXCEPT ![w] = pc],
         UNCHANGED <<flagVars, dataVars, graphVars, mainVars>>
  PROVE  MainInv'
<1>1. \A v \in Workers : wpc'[v] = wpc[v] \/ (wpc[v] \in InWait /\ wpc'[v] \in InWait)
  <2>1. DOMAIN wpc = Workers
    BY DEF TypeOK
  <2>2. wpc'[w] = pc
    BY Zenon, <2>1
  <2>3. \A v \in Workers : v # w => wpc'[v] = wpc[v]
    BY Zenon, <2>1
  <2>4. QED
    BY Zenon, <2>2, <2>3
<1>2. (Parked => Parked') /\ (AtWork => AtWork') /\ (Drained => Drained')
  BY Zenon, <1>1 DEF Parked, AtWork, Drained, InWait, dataVars
<1>3. \A v \in Workers :
        /\ wpc'[v] \in {"leave", "exited"} <=> wpc[v] \in {"leave", "exited"}
        /\ wpc'[v] \in Pausing \cup {"shutdown?", "paused?", "lock"}
             => wpc[v] \in Pausing \cup {"shutdown?", "paused?", "lock"}
        /\ wpc[v] \in Pausing \cup {"notify", "get_data"}
             => wpc'[v] \in Pausing \cup {"notify", "get_data"}
        /\ wpc[v] = "exited" => wpc'[v] = "exited"
  BY Zenon, <1>1 DEF Pausing, InWait
<1>4. QED
  BY Zenon, <1>2, <1>3 DEF MainInv, Settled, flagVars, dataVars, graphVars, mainVars

\* The client's control state tells the flags and where the workers are.
LEMMA MainInvNext ==
  ~UpdateAfterSave /\ TypeOK /\ WorkerInv /\ ExactlyOnce /\ MainInv /\ [Next]_vars => MainInv'
<1> SUFFICES ASSUME ~UpdateAfterSave, TypeOK, WorkerInv, ExactlyOnce, MainInv, [Next]_vars
             PROVE  MainInv'
  OBVIOUS
<1> USE WorkersAssumption
    DEF TypeOK, WorkerInv, MainInv, Settled, Closing, Drained, Parked, AtWork,
        flagVars, waitVars, dataVars, graphVars, mainVars, MainGoto, Goto
<1>1. CASE UNCHANGED vars
  BY <1>1 DEF vars
<1>2. ASSUME NEW u \in Updates, Update(u) PROVE MainInv'
  BY Zenon, <1>2 DEF Update
<1>3. ASSUME NEW o \in Ops, Call(o) PROVE MainInv'
  BY <1>3 DEF Call
<1>4. CASE Construct
  BY <1>4 DEF Construct, start_workers
<1>5. CASE Destroy
  BY <1>5 DEF Destroy
<1>6. CASE InsertPush
  <2>1. PICK node \in (SUBSET gutter) \ {{}} : gutter' = gutter \ node
    BY <1>6 DEF InsertPush, PushNode
  <2>2. gutter # {}
    BY <2>1
  <2>3. UNCHANGED <<flagVars, waitVars, wpc, hold, applied, graphVars, op, inserted, synced>>
    BY <1>6 DEF InsertPush, PushNode
  <2>4. ~paused /\ ~update_locked
    BY <1>6, <2>2 DEF InsertPush
  <2>5. QED
    BY <1>6, <2>2, <2>3, <2>4 DEF InsertPush
<1>7. CASE FlushNode
  <2>1. PICK node \in (SUBSET gutter) \ {{}} : gutter' = gutter \ node
    BY <1>7 DEF FlushNode, PushNode
  <2>2. gutter # {}
    BY <2>1
  <2>3. UNCHANGED <<flagVars, waitVars, wpc, hold, applied, graphVars, op, inserted, synced>>
    BY <1>7 DEF FlushNode, PushNode
  <2>4. ~paused /\ ~update_locked
    BY <1>7, <2>2 DEF FlushNode
  <2>5. QED
    BY Zenon, <1>7, <2>2, <2>3, <2>4 DEF FlushNode
<1>8. CASE FlushDone
  BY <1>8 DEF FlushDone
<1>9. CASE SetPaused
  BY <1>9 DEF SetPaused
<1>10. CASE PauseNonBlock
  BY <1>10 DEF PauseNonBlock
<1>11. CASE PauseReturn
  <2>1. Parked
    BY <1>11 DEF PauseReturn
  <2>2. queue = {}
    BY <1>11, <2>1 DEF PauseReturn
  <2>3. Drained
    BY <1>11, <2>1, <2>2 DEF PauseReturn
  <2>4. applied = inserted
    BY <2>3, DrainedIsApplied
  <2>5. QED
    BY <1>11, <2>1, <2>3, <2>4 DEF PauseReturn
<1>12. CASE BoruvkaStart
  BY Zenon, <1>12 DEF BoruvkaStart
<1>13. CASE BoruvkaEnd
  BY <1>13 DEF BoruvkaEnd
<1>14. CASE UnlockUpdates
  BY <1>14 DEF UnlockUpdates
<1>15. CASE SaveEnd
  BY <1>15 DEF SaveEnd
<1>16. CASE UnpauseBlock
  BY <1>16 DEF UnpauseBlock
<1>17. CASE ClearPaused
  BY <1>17 DEF ClearPaused
<1>18. CASE NotifyWorkers
  BY <1>18 DEF NotifyWorkers, Notified
<1>19. CASE UnpauseReturn
  BY <1>19 DEF UnpauseReturn
<1>20. CASE FreeSupernodes
  BY <1>20 DEF FreeSupernodes
<1>21. CASE SetShutdown
  BY <1>21 DEF SetShutdown
<1>22. CASE StopNonBlock
  BY <1>22 DEF StopNonBlock
<1>23. CASE StopNotify
  BY <1>23 DEF StopNotify, Notified
<1>24. CASE JoinWorkers
  BY <1>24 DEF JoinWorkers
<1>25. ASSUME NEW w \in Workers, GetData(w) PROVE MainInv'
  BY ZenonT(40), <1>25 DEF GetData
<1>26. ASSUME NEW w \in Workers, GetNothing(w) PROVE MainInv'
  BY ZenonT(40), <1>26 DEF GetNothing
<1>27. ASSUME NEW w \in Workers, BatchUpdate(w) PROVE MainInv'
  BY ZenonT(40), <1>27 DEF BatchUpdate
<1>28. ASSUME NEW w \in Workers, ApplyDelta(w) PROVE MainInv'
  BY ZenonT(40), <1>28 DEF ApplyDelta
<1>29. ASSUME NEW w \in Workers, GetDataCallback(w) PROVE MainInv'
  BY ZenonT(40), <1>29 DEF GetDataCallback
<1>30. ASSUME NEW w \in Workers, TestShutdown(w) PROVE MainInv'
  BY ZenonT(40), <1>30 DEF TestShutdown
<1>31. ASSUME NEW w \in Workers, TestPaused(w) PROVE MainInv'
  BY ZenonT(40), <1>31 DEF TestPaused
<1>32. ASSUME NEW w \in Workers, LockAndPause(w) PROVE MainInv'
  BY ZenonT(40), <1>32 DEF LockAndPause, Notified
<1>33. ASSUME NEW w \in Workers, WaitPredicate(w) PROVE MainInv'
  <2>1. CASE paused /\ ~shutdown
    BY Zenon, <1>33, <2>1, WaitKeepsMain DEF WaitPredicate, InWait
  <2>2. CASE ~paused \/ shutdown
    BY ZenonT(40), <1>33, <2>2 DEF WaitPredicate
  <2>3. QED
    BY ONLY <2>1, <2>2
<1>34. ASSUME NEW w \in Workers, Block(w) PROVE MainInv'
  BY Zenon, <1>34, WaitKeepsMain DEF Block, InWait
<1>35. ASSUME NEW w \in Workers, SpuriousWake(w) PROVE MainInv'
  BY Zenon, <1>35, WaitKeepsMain DEF SpuriousWake, InWait
<1>36. ASSUME NEW w \in Workers, Relock(w) PROVE MainInv'
  BY Zenon, <1>36, WaitKeepsMain DEF Relock, InWait
<1>37. ASSUME NEW w \in Workers, LeavePause(w) PROVE MainInv'
  BY ZenonT(40), <1>37 DEF LeavePause
<1>38. ASSUME NEW w \in Workers, NotifyUnpaused(w) PROVE MainInv'
  BY ZenonT(40), <1>38 DEF NotifyUnpaused, Notified
<1>39. ASSUME NEW w \in Workers, WriteFreed(w) PROVE MainInv'
  BY ZenonT(40), <1>39 DEF WriteFreed
<1>40. QED
  BY Zenon, <1>1, <1>2, <1>3, <1>4, <1>5, <1>6, <1>7, <1>8, <1>9, <1>10, <1>11, <1>12, <1>13,
     <1>14, <1>15, <1>16, <1>17, <1>18, <1>19, <1>20, <1>21, <1>22, <1>23, <1>24, <1>25,
     <1>26, <1>27, <1>28, <1>29, <1>30, <1>31, <1>32, <1>33, <1>34, <1>35, <1>36, <1>37,
     <1>38, <1>39
     DEF Next, ClientCall, MainStep, Worker

-----------------------------------------------------------------------------
(***************************************************************************)
(* The theorems.                                                           *)
(***************************************************************************)
\* The state of the threads, the queue and the client stays well typed.
THEOREM TypeCorrect == Spec => []TypeOK
<1>1. Init => TypeOK
  BY TypeInit
<1>2. TypeOK /\ [Next]_vars => TypeOK'
  BY TypeNext
<1>3. QED
  BY <1>1, <1>2, PTL DEF Spec

\* Whatever calls the client makes, and in whatever order do_work and the
\* guttering system take their steps, no update is lost or applied twice.
THEOREM NothingLostOrDoubled == Spec => []ExactlyOnce
<1>1. Init => HoldInv /\ ExactlyOnce
  BY DEF Init, HoldInv, ExactlyOnce
<1>2. TypeOK /\ HoldInv /\ [Next]_vars => HoldInv'
  BY HoldInvNext
<1>3. TypeOK /\ HoldInv /\ ExactlyOnce /\ [Next]_vars => ExactlyOnce'
  BY ExactlyOnceNext
<1>4. QED
  BY <1>1, <1>2, <1>3, TypeCorrect, PTL DEF Spec

\* The pause protocol of pause_workers, unpause_workers and do_work keeps its
\* invariant for a client that does not update between write_binary and the
\* next query that resumes the workers.
THEOREM PauseProtocolHolds ==
  ASSUME ~UpdateAfterSave
  PROVE  Spec => []PauseProtocol
<1>1. Init => PauseProtocol
  BY DEF Init, PauseProtocol, WorkerInv, MainInv, Settled, Closing, Parked, AtWork
<1>2. TypeOK /\ ExactlyOnce /\ PauseProtocol /\ [Next]_vars => PauseProtocol'
  BY WorkerInvNext, MainInvNext DEF PauseProtocol
<1>3. QED
  BY <1>1, <1>2, TypeCorrect, NothingLostOrDoubled, PTL DEF Spec

\* When connected_components, point_query or write_binary reads the
\* supernodes, they hold every update and no worker changes them.
THEOREM QueriesSeeAllUpdates ==
  ASSUME ~UpdateAfterSave
  PROVE  Spec => []QuerySeesAllUpdates
<1>1. TypeOK /\ ExactlyOnce /\ PauseProtocol => QuerySeesAllUpdates
  BY DrainedIsApplied DEF PauseProtocol, MainInv, Parked, QuerySeesAllUpdates
<1>2. QED
  BY <1>1, TypeCorrect, NothingLostOrDoubled, PauseProtocolHolds, PTL

\* No UpdateLockedException ends a worker thread and no delta is added under a
\* query.  ~Graph may be called at any time: a delta reaches a supernode that
\* it freed only if some update was not covered by a query that flushed.
THEOREM WorkersStaySafe ==
  ASSUME ~UpdateAfterSave
  PROVE  Spec => []WorkersAreSafe
<1>1. TypeOK /\ ExactlyOnce /\ PauseProtocol => WorkersAreSafe
  <2> SUFFICES ASSUME TypeOK, ExactlyOnce, PauseProtocol, NEW w \in Workers
               PROVE  /\ wpc[w] # "terminated"
                      /\ wpc[w] = "delta" => ~update_locked
                      /\ wpc[w] \in {"delta", "crashed"} => synced # inserted
    BY DEF WorkersAreSafe
  <2>1. wpc[w] # "terminated" /\ (wpc[w] = "delta" => ~update_locked)
    BY DEF PauseProtocol, WorkerInv, MainInv, Drained
  <2>2. ASSUME wpc[w] \in {"delta", "crashed"}, synced = inserted PROVE FALSE
    <3>1. inserted \subseteq applied
      BY <2>2 DEF PauseProtocol, MainInv
    <3>2. Drained
      BY <3>1, AppliedIsDrained DEF PauseProtocol
    <3>3. QED
      BY <2>2, <3>2 DEF Drained, PauseProtocol, WorkerInv
  <2>3. QED
    BY <2>1, <2>2
<1>2. QED
  BY <1>1, TypeCorrect, NothingLostOrDoubled, PauseProtocolHolds, PTL

(***************************************************************************)
(* GraphWorker implements Ingest.  A step that moves no update and does    *)
(* not cross the border of Reading is a stutter; ApplyDelta is Apply;      *)
(* PauseReturn is BeginRead.                                               *)
(***************************************************************************)
\* The invariant that the refinement needs.
IInv == TypeOK /\ ExactlyOnce /\ PauseProtocol

\* Every step of the threads is a step of Ingest or a stutter.
LEMMA StepSimulation ==
  IInv /\ [Next]_vars => [Abstract!Next]_(Abstract!vars)
<1> SUFFICES ASSUME IInv, [Next]_vars
             PROVE  Abstract!Next \/ UNCHANGED Abstract!vars
  OBVIOUS
<1> USE DEF IInv, TypeOK, Abstract!Next, Abstract!vars, MainGoto,
        flagVars, waitVars, dataVars, graphVars, mainVars
<1>1. mpc \in Reading => applied = inserted
  BY DrainedIsApplied DEF PauseProtocol, MainInv
<1>2. CASE UNCHANGED <<inserted, applied>> /\ ((mpc \in Reading) <=> (mpc' \in Reading))
  BY <1>2
<1>3. CASE /\ UNCHANGED <<inserted, applied>>
           /\ mpc \in Reading /\ mpc' \notin Reading
  BY <1>3 DEF Abstract!EndRead
<1>4. CASE PauseReturn
  <2>1. queue = {} /\ Parked
    BY <1>4, WorkersAssumption DEF PauseReturn, PauseProtocol, MainInv, WorkerInv, Parked
  <2>2. Drained
    BY <1>4, <2>1 DEF PauseReturn, PauseProtocol, MainInv, WorkerInv, Parked, Drained
  <2>3. applied = inserted
    BY <2>2, DrainedIsApplied
  <2>4. QED
    BY <1>4, <2>3 DEF PauseReturn, Abstract!BeginRead
<1>5. CASE Construct
  BY <1>5 DEF Construct, Abstract!Renew
<1>6. ASSUME NEW u \in Updates, Update(u) PROVE Abstract!Next
  <2>1. u \notin applied /\ applied \subseteq inserted
    BY <1>6 DEF Update, ExactlyOnce
  <2>2. Abstract!Insert(u)
    BY <1>6, <2>1 DEF Update, Abstract!Insert
  <2>3. QED
    BY <2>2
<1>7. ASSUME NEW w \in Workers, ApplyDelta(w) PROVE Abstract!Next
  <2>1. PICK u \in hold[w] : applied' = applied \cup {u}
    BY <1>7 DEF ApplyDelta
  <2>2. u \in Updates /\ u \in inserted /\ u \notin applied
    BY DEF ExactlyOnce
  <2>3. mpc \notin Reading
    BY <1>1, <2>2
  <2>4. Abstract!Apply(u)
    BY <1>7, <2>1, <2>2, <2>3 DEF ApplyDelta, Abstract!Apply
  <2>5. QED
    BY <2>2, <2>4
<1>8. CASE UNCHANGED vars
  BY <1>2, <1>8 DEF vars
<1>9. CASE ClientCall
  BY <1>2, <1>5, <1>6, <1>9 DEF ClientCall, Call, Destroy
<1>10. CASE MainStep
  BY Zenon, <1>2, <1>3, <1>4, <1>10 DEF MainStep, InsertPush, FlushNode, PushNode, FlushDone, SetPaused,
     PauseNonBlock, BoruvkaStart, BoruvkaEnd, UnlockUpdates, SaveEnd,
     UnpauseBlock, ClearPaused, NotifyWorkers, UnpauseReturn, FreeSupernodes,
     SetShutdown, StopNonBlock, StopNotify, JoinWorkers
<1>11. ASSUME NEW w \in Workers, Worker(w) \/ SpuriousWake(w), ~ApplyDelta(w)
       PROVE  UNCHANGED <<inserted, applied, mpc>>
  BY Zenon, <1>11 DEF Worker, SpuriousWake, GetData, GetNothing, BatchUpdate, WriteFreed,
     GetDataCallback, TestShutdown, TestPaused, LockAndPause, WaitPredicate, Block, Relock,
     LeavePause, NotifyUnpaused
<1>12. QED
  BY <1>2, <1>7, <1>8, <1>9, <1>10, <1>11 DEF Next

\* The threads, flags and queues of GraphWorker implement the ingestion that
\* the queries of Graph rely on.
THEOREM Refinement ==
  ASSUME ~UpdateAfterSave
  PROVE  Spec => ImplementsIngest
<1>1. Init => Abstract!Init
  BY DEF Init, Abstract!Init
<1>2. IInv /\ [Next]_vars => [Abstract!Next]_(Abstract!vars)
  BY StepSimulation
<1>3. Spec => []IInv
  BY TypeCorrect, NothingLostOrDoubled, PauseProtocolHolds, PTL DEF IInv
<1>4. QED
  BY <1>1, <1>2, <1>3, PTL DEF Spec, ImplementsIngest, Abstract!Spec
=============================================================================
