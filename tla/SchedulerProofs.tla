-------------------------- MODULE SchedulerProofs --------------------------
(* Proofs about Scheduler, for any number of threads and fibers.           *)
EXTENDS Scheduler, SequenceTheorems, FiniteSetTheorems, TLAPS

(* Where the element at position k of RemoveAt(s, i) was in s.             *)
LEMMA RemoveAtShift ==
    ASSUME NEW S, NEW s \in Seq(S), NEW i \in 1..Len(s)
    PROVE  /\ RemoveAt(s, i) \in Seq(S) /\ Len(s) \in Nat
           /\ DOMAIN RemoveAt(s, i) = 1..(Len(s) - 1)
           /\ \A k \in 1..(Len(s) - 1) :
                RemoveAt(s, i)[k] = IF k < i THEN s[k] ELSE s[k + 1]
<1> DEFINE a == SubSeq(s, 1, i - 1)
           b == SubSeq(s, i + 1, Len(s))
<1>0. Len(s) \in Nat /\ i \in Int
  BY LenProperties
<1>1. /\ a \in Seq(S) /\ Len(a) = i - 1
      /\ \A k \in 1..Len(a) : a[k] = s[k]
  BY SubSeqProperties
<1>2. /\ b \in Seq(S) /\ Len(b) = Len(s) - i
      /\ \A k \in 1..Len(b) : b[k] = s[i + k]
  BY SubSeqProperties
<1>3. RemoveAt(s, i) = a \o b
  BY DEF RemoveAt
<1> HIDE DEF a, b
<1>4. /\ a \o b \in Seq(S) /\ Len(a \o b) = Len(a) + Len(b)
      /\ \A k \in 1..(Len(a) + Len(b)) :
            (a \o b)[k] = IF k <= Len(a) THEN a[k] ELSE b[k - Len(a)]
  BY <1>1, <1>2, ConcatProperties, Zenon
<1>5. Len(a) = i - 1 /\ Len(b) = Len(s) - i /\ Len(a) + Len(b) = Len(s) - 1
  BY <1>0, <1>1, <1>2
<1>6. DOMAIN (a \o b) = 1..(Len(s) - 1)
  BY <1>4, <1>5, LenProperties
<1>7. ASSUME NEW k \in 1..(Len(s) - 1)
      PROVE  (a \o b)[k] = IF k < i THEN s[k] ELSE s[k + 1]
  <2>0. k \in Int /\ k \in 1..(Len(a) + Len(b))
    BY <1>0, <1>5
  <2>1. CASE k < i
    <3>1. k <= Len(a) /\ k \in 1..Len(a)
      BY <1>0, <1>5, <2>0, <2>1
    <3>2. (a \o b)[k] = a[k] /\ a[k] = s[k]
      BY <1>1, <1>4, <2>0, <3>1, Zenon
    <3> QED BY <2>1, <3>2
  <2>2. CASE ~(k < i)
    <3>1. /\ ~(k <= Len(a)) /\ k - Len(a) \in 1..Len(b)
          /\ i + (k - Len(a)) = k + 1
      BY <1>0, <1>5, <2>0, <2>2
    <3>2. (a \o b)[k] = b[k - Len(a)] /\ b[k - Len(a)] = s[i + (k - Len(a))]
      BY <1>2, <1>4, <2>0, <3>1, Zenon
    <3> QED BY <2>2, <3>1, <3>2
  <2> QED BY <2>1, <2>2
<1> QED BY <1>0, <1>3, <1>4, <1>6, <1>7

(* What erasing a task leaves in the queue: a queue of the tasks that were *)
(* there before (m_tasks.erase in run()).                                  *)
LEMMA RemoveAtFacts ==
    ASSUME NEW S, NEW s \in Seq(S), NEW i \in 1..Len(s)
    PROVE  /\ RemoveAt(s, i) \in Seq(S)
           /\ \A k \in DOMAIN RemoveAt(s, i) :
                \E j \in DOMAIN s : RemoveAt(s, i)[k] = s[j]
<1>1. ASSUME NEW k \in 1..(Len(s) - 1)
      PROVE  \E j \in DOMAIN s : RemoveAt(s, i)[k] = s[j]
  <2>1. DOMAIN s = 1..Len(s) /\ Len(s) \in Nat
    BY LenProperties
  <2>2. k \in 1..Len(s) /\ k + 1 \in 1..Len(s)
    BY <2>1
  <2> QED BY <2>1, <2>2, RemoveAtShift
<1> QED BY <1>1, RemoveAtShift

-----------------------------------------------------------------------------
(* Type correctness                                                        *)

USE DEF Threads

(* The state the constructor and start() leave is well typed.              *)
LEMMA InitType == Init => TypeOK
<1> SUFFICES ASSUME Init PROVE TypeOK
  OBVIOUS
<1>1. m_tasks \in Seq(Tasks)
  BY EmptySeq DEF Init
<1>2. task \in [Threads -> Tasks]
  BY DEF Init, NoTask, Tasks
<1>3. pc \in [Threads -> Labels]
  BY DEF Init, Labels, RunLabels, StopLabels
<1>4. /\ cbs \in [Threads -> SUBSET Fibers]
      /\ ready \in [Threads -> SUBSET Fibers]
      /\ m_state \in [Fibers -> {"NONE", "READY", "RUNNING", "TERM"}]
      /\ m_mutex \in [Fibers -> Threads \cup {NoThread}]
      /\ waits \in [Fibers -> Nat]
  BY DEF Init
<1>5. m_stopping \in BOOLEAN
  BY DEF Init
<1>6. /\ kicks \in Nat /\ submitted \in Nat /\ m_activeThreadCount \in Int
      /\ m_idleThreadCount \in Int /\ m_pendingEventCount \in Int
  BY DEF Init
<1>7. /\ notify \subseteq Threads /\ drain \subseteq Threads
      /\ idleTerm \subseteq Threads /\ timers \subseteq Fibers
      /\ events \subseteq Fibers /\ pipe \subseteq {"byte", "edge"}
  BY DEF Init
<1> QED
  BY <1>1, <1>2, <1>3, <1>4, <1>5, <1>6, <1>7 DEF TypeOK

(* What the locked part of scheduleLock does to the queue and to the       *)
(* threads that owe a tickle.                                              *)
LEMMA ScheduleLockType ==
    ASSUME TypeOK, NEW t \in Threads, NEW tk \in Tasks, ScheduleLock(t, tk)
    PROVE  m_tasks' \in Seq(Tasks) /\ notify' \subseteq Threads
  BY AppendProperties DEF TypeOK, ScheduleLock

(* A thread that holds a fiber's mutex has a fiber in its hand.            *)
HolderLabels == {"resume", "exec", "yield", "unlock"}
CurIsFiber == \A t \in Threads : pc[t] \in HolderLabels => Cur(t) \in Fibers

(* Every step of run() and of a fiber body keeps the variables in their    *)
(* types.                                                                  *)
LEMMA RunType ==
    ASSUME TypeOK, CurIsFiber, NEW t \in Threads, RunStep(t)
    PROVE  TypeOK'
<1> USE DEF At, Goto, Cur, Labels, RunLabels, counters, fiberVars, ioVars
<1>1. CASE Tickle(t)
  BY <1>1 DEF TypeOK, Tickle, WritePipe
<1>2. CASE TakeTask(t)
  <2>1. PICK i \in Eligible(t) : /\ task' = [task EXCEPT ![t] = m_tasks[i]]
                                 /\ m_tasks' = RemoveAt(m_tasks, i)
    BY <1>2 DEF TakeTask
  <2>2. m_tasks \in Seq(Tasks) /\ i \in 1..Len(m_tasks)
    BY LenProperties DEF TypeOK, Eligible
  <2>3. m_tasks' \in Seq(Tasks) /\ m_tasks[i] \in Tasks
    BY <2>1, <2>2, RemoveAtFacts, ElementOfSeq
  <2> QED BY <1>2, <2>1, <2>3 DEF TypeOK, TakeTask
<1>3. CASE TakeNothing(t)
  BY <1>3 DEF TypeOK, TakeNothing
<1>4. CASE LockFiber(t)
  BY <1>4 DEF TypeOK, LockFiber
<1>5. CASE NewFiber(t)
  <2> PICK f \in Fibers :
        /\ task' = [task EXCEPT ![t] = [task[t] EXCEPT !.fiber = f]]
        /\ m_state' = [m_state EXCEPT ![f] = "READY"]
        /\ m_mutex' = [m_mutex EXCEPT ![f] = t]
    BY <1>5 DEF NewFiber
  <2>2. task[t] \in Tasks /\ task[t].kind = "cb"
    BY <1>5 DEF NewFiber, TypeOK
  <2>3. [task[t] EXCEPT !.fiber = f] \in Tasks
    BY <2>2 DEF Tasks
  <2>1. task' \in [Threads -> Tasks]
    BY <2>3 DEF TypeOK
  <2> QED BY <1>5, <2>1 DEF TypeOK, NewFiber
<1>6. CASE RunTimerCb(t)
  <2>1. FiberTask(Cur(t)) \in Tasks
    BY <1>6 DEF TypeOK, RunTimerCb, FiberTask, Tasks
  <2>2. m_tasks' \in Seq(Tasks) /\ notify' \subseteq Threads
    BY <1>6, <2>1, ScheduleLockType DEF RunTimerCb
  <2> QED BY <1>6, <2>2 DEF TypeOK, RunTimerCb
<1>7. CASE Resume(t)
  BY <1>7 DEF TypeOK, Resume
<1>8. CASE Yield(t)
  BY <1>8 DEF TypeOK, Yield
<1>9. CASE UnlockFiber(t)
  BY <1>9 DEF TypeOK, UnlockFiber
<1>10. CASE DecActive(t)
  <2>1. NoTask \in Tasks
    BY DEF NoTask, Tasks
  <2> QED BY <1>10, <2>1 DEF TypeOK, DecActive
<1>11. CASE Sleep(t)
  BY <1>11 DEF TypeOK, Sleep, CurIsFiber, HolderLabels
<1>12. CASE WaitIO(t)
  BY <1>12 DEF TypeOK, WaitIO, CurIsFiber, HolderLabels
<1>13. CASE Spawn(t)
  <2>1. CbTask(NoThread) \in Tasks
    BY DEF CbTask, Tasks
  <2>2. m_tasks' \in Seq(Tasks) /\ notify' \subseteq Threads
    BY <1>13, <2>1, ScheduleLockType DEF Spawn
  <2> QED BY <1>13, <2>2 DEF TypeOK, Spawn
<1>14. CASE Finish(t)
  BY <1>14 DEF TypeOK, Finish
<1> QED
  BY <1>1, <1>2, <1>3, <1>4, <1>5, <1>6, <1>7, <1>8, <1>9, <1>10, <1>11,
     <1>12, <1>13, <1>14 DEF RunStep

(* Every step of idle() and of the exit from run() keeps the types.        *)
LEMMA IdleType ==
    ASSUME TypeOK, NEW t \in Threads, IdleStep(t)
    PROVE  TypeOK'
<1> USE DEF At, Goto, Labels, IdleLabels, RunLabels, counters, fiberVars, ioVars
<1>1. CASE ExitRun(t)
  BY <1>1 DEF TypeOK, ExitRun
<1>2. CASE EnterIdle(t)
  BY <1>2 DEF TypeOK, EnterIdle
<1>3. CASE CheckTimers(t)
  BY <1>3 DEF TypeOK, CheckTimers
<1>4. CASE CheckEvents(t)
  BY <1>4 DEF TypeOK, CheckEvents
<1>5. CASE CheckTasks(t)
  BY <1>5 DEF TypeOK, CheckTasks
<1>6. CASE EpollWait(t)
  BY <1>6 DEF TypeOK, EpollWait
<1>7. ASSUME NEW due \in SUBSET timers, ListExpiredCb(t, due)
      PROVE  TypeOK'
  BY <1>7 DEF TypeOK, ListExpiredCb
<1>8. CASE ScheduleCb(t)
  <2> PICK f \in cbs[t] : /\ ScheduleLock(t, TimerTask(f))
                          /\ cbs' = [cbs EXCEPT ![t] = cbs[t] \ {f}]
    BY <1>8 DEF ScheduleCb
  <2>1. TimerTask(f) \in Tasks
    BY DEF TypeOK, TimerTask, Tasks
  <2>2. m_tasks' \in Seq(Tasks) /\ notify' \subseteq Threads
    BY <2>1, ScheduleLockType
  <2> QED BY <1>8, <2>2 DEF TypeOK, ScheduleCb
<1>9. CASE CbsDone(t)
  BY <1>9 DEF TypeOK, CbsDone
<1>10. CASE DrainPipe(t)
  BY <1>10 DEF TypeOK, DrainPipe
<1>11. CASE TriggerEvent(t)
  <2> PICK f \in ready[t] :
        /\ ready' = [ready EXCEPT ![t] = ready[t] \ {f}]
        /\ events' = events \ {f}
        /\ IF f \in events
             THEN ScheduleLock(t, FiberTask(f)) /\ Goto(t, "decPending")
             ELSE UNCHANGED <<m_tasks, notify, pc>>
    BY <1>11 DEF TriggerEvent
  <2>1. FiberTask(f) \in Tasks
    BY DEF TypeOK, FiberTask, Tasks
  <2>2. m_tasks' \in Seq(Tasks) /\ notify' \subseteq Threads
    BY <2>1, ScheduleLockType DEF TypeOK
  <2> QED BY <1>11, <2>2 DEF TypeOK, TriggerEvent
<1>12. CASE DecPending(t)
  BY <1>12 DEF TypeOK, DecPending
<1>13. CASE IdleYield(t)
  BY <1>13 DEF TypeOK, IdleYield
<1>14. CASE LeaveIdle(t)
  BY <1>14 DEF TypeOK, LeaveIdle
<1> QED
  BY <1>1, <1>2, <1>3, <1>4, <1>5, <1>6, <1>7, <1>8, <1>9, <1>10, <1>11,
     <1>12, <1>13, <1>14 DEF IdleStep

(* Every step of the owner (scheduleLock and stop()) keeps the types.      *)
LEMMA StopType ==
    ASSUME TypeOK, StopStep
    PROVE  TypeOK'
<1> USE DEF At, Goto, Labels, StopLabels, RunLabels, counters, fiberVars, ioVars
<1>1. CASE Submit
  <2> PICK thr \in Workers \cup {NoThread} : ScheduleLock(Caller, CbTask(thr))
    BY <1>1 DEF Submit
  <2>1. CbTask(thr) \in Tasks
    BY DEF CbTask, Tasks, Workers
  <2>2. m_tasks' \in Seq(Tasks) /\ notify' \subseteq Threads
    BY <2>1, ScheduleLockType
  <2> QED BY <1>1, <2>2 DEF TypeOK, Submit
<1>2. CASE StopBegin
  <2>1. Cardinality(Pool) \in Nat
    BY ThreadsAssumption, FS_CardinalityType
  <2> QED BY <1>2, <2>1 DEF TypeOK, StopBegin
<1>3. CASE StopTickle
  BY <1>3 DEF TypeOK, StopTickle, WritePipe
<1>4. CASE StopRun
  BY <1>4 DEF TypeOK, StopRun
<1>5. CASE StopJoin
  BY <1>5 DEF TypeOK, StopJoin
<1> QED
  BY <1>1, <1>2, <1>3, <1>4, <1>5 DEF StopStep

-----------------------------------------------------------------------------
(* Fiber exclusion                                                         *)

(* The mutex of the fiber in hand is held from before resume() until the   *)
(* switch back is complete.                                                *)
MutexHeld ==
    \A t \in Threads : pc[t] \in HolderLabels => m_mutex[Cur(t)] = t

(* The state the holder of a fiber's mutex finds it in.                    *)
HeldState ==
    /\ FiberAsserts
    /\ \A t \in Threads : pc[t] = "unlock" => m_state[Cur(t)] \in {"READY", "TERM"}

RunningIsHeld ==
    \A f \in Fibers : m_state[f] = "RUNNING" => m_mutex[f] # NoThread

(* Nothing refers to a fiber before it is created.                         *)
UnbornUnknown ==
    \A f \in Fibers : m_state[f] = "NONE" =>
        /\ f \notin timers /\ f \notin events
        /\ \A t \in Threads : f \notin cbs[t] /\ Cur(t) # f
        /\ \A i \in DOMAIN m_tasks : m_tasks[i].fiber # f

FiberInv == CurIsFiber /\ MutexHeld /\ HeldState /\ RunningIsHeld /\ UnbornUnknown
IInv == TypeOK /\ FiberInv

(* A step that leaves the fibers and the tasks in hand alone, and moves    *)
(* its thread among labels without the mutex, keeps the fiber invariant if *)
(* the queue, the timers, the events and the callbacks only name fibers    *)
(* that exist.                                                             *)
LEMMA FrameFiber ==
    ASSUME IInv, NEW t \in Threads, NEW l,
           UNCHANGED <<task, m_state, m_mutex>>,
           pc' = [pc EXCEPT ![t] = l], l \notin HolderLabels,
           UnbornUnknown'
    PROVE  FiberInv'
  BY DEF IInv, TypeOK, FiberInv, CurIsFiber, MutexHeld, HeldState, FiberAsserts,
         RunningIsHeld, HolderLabels, Cur

(* A queue that does not name fiber f still does not after scheduleLock of *)
(* a task that does not.                                                   *)
LEMMA ScheduleLockNames ==
    ASSUME TypeOK, NEW t \in Threads, NEW tk \in Tasks, ScheduleLock(t, tk),
           NEW f, tk.fiber # f, \A i \in DOMAIN m_tasks : m_tasks[i].fiber # f
    PROVE  \A i \in DOMAIN m_tasks' : m_tasks'[i].fiber # f
<1>1. m_tasks \in Seq(Tasks) /\ m_tasks' = Append(m_tasks, tk)
  BY DEF TypeOK, ScheduleLock
<1>2. /\ m_tasks' \in Seq(Tasks) /\ Len(m_tasks') = Len(m_tasks) + 1
      /\ \A i \in 1..Len(m_tasks) : m_tasks'[i] = m_tasks[i]
      /\ m_tasks'[Len(m_tasks) + 1] = tk
  BY <1>1, AppendProperties
<1>3. DOMAIN m_tasks = 1..Len(m_tasks) /\ DOMAIN m_tasks' = 1..Len(m_tasks')
      /\ Len(m_tasks) \in Nat
  BY <1>1, <1>2, LenProperties
<1> QED BY <1>2, <1>3

(* Every step of run() and of a fiber body preserves the fiber invariant:  *)
(* mutex, state and stack of each fiber agree.                             *)
LEMMA RunFiber ==
    ASSUME IInv, NEW t \in Threads, RunStep(t)
    PROVE  FiberInv'
<1> USE DEF At, Goto, Cur, HolderLabels, counters, fiberVars, ioVars
<1>0. TypeOK /\ FiberInv
  BY DEF IInv
<1>1. CASE Tickle(t)
  BY <1>0, <1>1 DEF Tickle, FiberInv, CurIsFiber, MutexHeld, HeldState,
       FiberAsserts, RunningIsHeld, UnbornUnknown
<1>2. CASE TakeTask(t)
  <2>1. PICK i \in Eligible(t) : /\ task' = [task EXCEPT ![t] = m_tasks[i]]
                                 /\ m_tasks' = RemoveAt(m_tasks, i)
    BY <1>2 DEF TakeTask
  <2>2. m_tasks \in Seq(Tasks) /\ i \in 1..Len(m_tasks) /\ i \in DOMAIN m_tasks
    BY <1>0, LenProperties DEF TypeOK, Eligible
  <2>3. \A k \in DOMAIN m_tasks' : \E j \in DOMAIN m_tasks : m_tasks'[k] = m_tasks[j]
    BY <2>1, <2>2, RemoveAtFacts
  <2>4. UnbornUnknown'
    BY <1>0, <1>2, <2>1, <2>2, <2>3 DEF TypeOK, TakeTask, FiberInv, UnbornUnknown
  <2>5. /\ pc' = [pc EXCEPT ![t] = "dispatch"] /\ UNCHANGED <<m_state, m_mutex>>
        /\ pc \in [Threads -> Labels] /\ task \in [Threads -> Tasks]
    BY <1>0, <1>2 DEF TakeTask, TypeOK
  <2> QED
    BY <1>0, <2>1, <2>4, <2>5 DEF FiberInv, CurIsFiber, MutexHeld, HeldState,
         FiberAsserts, RunningIsHeld
<1>3. CASE TakeNothing(t)
  <2>1. UnbornUnknown'
    BY <1>0, <1>3 DEF TakeNothing, FiberInv, UnbornUnknown
  <2> QED BY <1>3, <2>1, FrameFiber DEF TakeNothing
<1>4. CASE LockFiber(t)
  <2>1. Cur(t) \in Fibers
    BY <1>0, <1>4 DEF LockFiber, TypeOK, Tasks
  <2>2. m_state[Cur(t)] \in {"READY", "TERM"}
    BY <1>0, <1>4, <2>1 DEF LockFiber, TypeOK, FiberInv, RunningIsHeld, UnbornUnknown
  <2>3. UnbornUnknown'
    BY <1>0, <1>4 DEF LockFiber, FiberInv, UnbornUnknown
  <2> QED
    BY <1>0, <1>4, <2>1, <2>2, <2>3, ThreadsAssumption DEF LockFiber, TypeOK,
         FiberInv, CurIsFiber, MutexHeld, HeldState, FiberAsserts, RunningIsHeld
<1>5. CASE NewFiber(t)
  <2> PICK f \in Fibers :
        /\ m_state[f] = "NONE"
        /\ m_state' = [m_state EXCEPT ![f] = "READY"]
        /\ m_mutex' = [m_mutex EXCEPT ![f] = t]
        /\ task' = [task EXCEPT ![t] = [task[t] EXCEPT !.fiber = f]]
    BY <1>5 DEF NewFiber
  <2>1. /\ pc' = [pc EXCEPT ![t] = "resume"]
        /\ UNCHANGED <<timers, events, cbs, m_tasks>>
    BY <1>5 DEF NewFiber
  <2>2. Cur(t)' = f /\ \A u \in Threads \ {t} : Cur(u)' = Cur(u) /\ Cur(u) # f
    BY <1>0 DEF TypeOK, Tasks, FiberInv, UnbornUnknown
  <2>3. UnbornUnknown'
    BY <1>0, <2>1, <2>2 DEF TypeOK, FiberInv, UnbornUnknown
  <2> QED
    BY <1>0, <2>1, <2>2, <2>3, ThreadsAssumption DEF TypeOK, FiberInv,
         CurIsFiber, MutexHeld, HeldState, FiberAsserts, RunningIsHeld
<1>6. CASE RunTimerCb(t)
  <2>1. FiberTask(Cur(t)) \in Tasks /\ Cur(t) \in Fibers
    BY <1>0, <1>6 DEF TypeOK, RunTimerCb, FiberTask, Tasks
  <2>2. ASSUME NEW f \in Fibers, m_state[f] = "NONE"
        PROVE  \A i \in DOMAIN m_tasks' : m_tasks'[i].fiber # f
    <3>1. FiberTask(Cur(t)).fiber # f /\ \A i \in DOMAIN m_tasks : m_tasks[i].fiber # f
      BY <1>0, <2>2 DEF FiberInv, UnbornUnknown, FiberTask
    <3> QED BY <1>0, <1>6, <2>1, <3>1, ScheduleLockNames DEF RunTimerCb
  <2>3. UnbornUnknown'
    BY <1>0, <1>6, <2>2 DEF RunTimerCb, FiberInv, UnbornUnknown
  <2> QED BY <1>6, <2>3, FrameFiber DEF RunTimerCb
<1>7. CASE Resume(t)
  <2>1. Cur(t) \in Fibers /\ m_mutex[Cur(t)] = t /\ m_state[Cur(t)] = "READY"
    BY <1>0, <1>7 DEF Resume, FiberInv, CurIsFiber, MutexHeld, HeldState, FiberAsserts
  <2>2. UnbornUnknown'
    BY <1>0, <1>7, <2>1 DEF Resume, TypeOK, FiberInv, UnbornUnknown
  <2> QED
    BY <1>0, <1>7, <2>1, <2>2, ThreadsAssumption DEF Resume, TypeOK, FiberInv,
         CurIsFiber, MutexHeld, HeldState, FiberAsserts, RunningIsHeld
<1>8. CASE Yield(t)
  <2>1. /\ Cur(t) \in Fibers /\ m_mutex[Cur(t)] = t
        /\ m_state[Cur(t)] \in {"RUNNING", "TERM"}
    BY <1>0, <1>8 DEF Yield, FiberInv, CurIsFiber, MutexHeld, HeldState, FiberAsserts
  <2>2. UnbornUnknown'
    BY <1>0, <1>8, <2>1 DEF Yield, TypeOK, FiberInv, UnbornUnknown
  <2> QED
    BY <1>0, <1>8, <2>1, <2>2 DEF Yield, TypeOK, FiberInv,
         CurIsFiber, MutexHeld, HeldState, FiberAsserts, RunningIsHeld
<1>9. CASE UnlockFiber(t)
  <2>1. /\ Cur(t) \in Fibers /\ m_mutex[Cur(t)] = t
        /\ m_state[Cur(t)] \in {"READY", "TERM"}
    BY <1>0, <1>9 DEF UnlockFiber, FiberInv, CurIsFiber, MutexHeld, HeldState
  <2>2. UnbornUnknown'
    BY <1>0, <1>9 DEF UnlockFiber, FiberInv, UnbornUnknown
  <2> QED
    BY <1>0, <1>9, <2>1, <2>2 DEF UnlockFiber, TypeOK, FiberInv,
         CurIsFiber, MutexHeld, HeldState, FiberAsserts, RunningIsHeld
<1>10. CASE DecActive(t)
  <2>1. UnbornUnknown'
    BY <1>0, <1>10, FibersAssumption DEF DecActive, NoTask, TypeOK, FiberInv, UnbornUnknown
  <2> QED
    BY <1>0, <1>10, <2>1 DEF DecActive, TypeOK, FiberInv, CurIsFiber,
         MutexHeld, HeldState, FiberAsserts, RunningIsHeld
<1>11. CASE Sleep(t)
  <2>1. Cur(t) \in Fibers /\ m_state[Cur(t)] = "RUNNING"
    BY <1>0, <1>11 DEF Sleep, FiberInv, CurIsFiber, HeldState, FiberAsserts
  <2>2. UnbornUnknown'
    BY <1>0, <1>11, <2>1 DEF Sleep, FiberInv, UnbornUnknown
  <2> QED
    BY <1>0, <1>11, <2>1, <2>2 DEF Sleep, TypeOK, FiberInv, CurIsFiber,
         MutexHeld, HeldState, FiberAsserts, RunningIsHeld
<1>12. CASE WaitIO(t)
  <2>1. Cur(t) \in Fibers /\ m_state[Cur(t)] = "RUNNING"
    BY <1>0, <1>12 DEF WaitIO, FiberInv, CurIsFiber, HeldState, FiberAsserts
  <2>2. UnbornUnknown'
    BY <1>0, <1>12, <2>1 DEF WaitIO, FiberInv, UnbornUnknown
  <2> QED
    BY <1>0, <1>12, <2>1, <2>2 DEF WaitIO, TypeOK, FiberInv, CurIsFiber,
         MutexHeld, HeldState, FiberAsserts, RunningIsHeld
<1>13. CASE Spawn(t)
  <2>1. CbTask(NoThread) \in Tasks /\ CbTask(NoThread).fiber = NoFiber
    BY DEF CbTask, Tasks
  <2>2. ASSUME NEW f \in Fibers, m_state[f] = "NONE"
        PROVE  \A i \in DOMAIN m_tasks' : m_tasks'[i].fiber # f
    <3>1. CbTask(NoThread).fiber # f /\ \A i \in DOMAIN m_tasks : m_tasks[i].fiber # f
      BY <1>0, <2>1, <2>2, FibersAssumption DEF FiberInv, UnbornUnknown
    <3> QED BY <1>0, <1>13, <2>1, <3>1, ScheduleLockNames DEF Spawn
  <2>3. UnbornUnknown'
    BY <1>0, <1>13, <2>2 DEF Spawn, FiberInv, UnbornUnknown
  <2> QED
    BY <1>0, <1>13, <2>3 DEF Spawn, FiberInv, CurIsFiber, MutexHeld, HeldState,
         FiberAsserts, RunningIsHeld
<1>14. CASE Finish(t)
  <2>1. /\ Cur(t) \in Fibers /\ m_mutex[Cur(t)] = t
    BY <1>0, <1>14 DEF Finish, FiberInv, CurIsFiber, MutexHeld
  <2>2. UnbornUnknown'
    BY <1>0, <1>14, <2>1 DEF Finish, TypeOK, FiberInv, UnbornUnknown
  <2> QED
    BY <1>0, <1>14, <2>1, <2>2 DEF Finish, TypeOK, FiberInv,
         CurIsFiber, MutexHeld, HeldState, FiberAsserts, RunningIsHeld
<1> QED
  BY <1>1, <1>2, <1>3, <1>4, <1>5, <1>6, <1>7, <1>8, <1>9, <1>10, <1>11,
     <1>12, <1>13, <1>14 DEF RunStep

(* Every step of idle() preserves the fiber invariant: it only moves wake- *)
(* ups of existing fibers.                                                 *)
LEMMA IdleFiber ==
    ASSUME IInv, NEW t \in Threads, IdleStep(t)
    PROVE  FiberInv'
<1> USE DEF At, Goto, HolderLabels, counters, fiberVars, ioVars
<1>0. TypeOK /\ FiberInv
  BY DEF IInv
<1>1. CASE ExitRun(t)
  <2>1. UnbornUnknown'
    BY <1>0, <1>1 DEF ExitRun, FiberInv, UnbornUnknown, Cur
  <2> QED BY <1>1, <2>1, FrameFiber DEF ExitRun
<1>2. CASE EnterIdle(t)
  <2>1. UnbornUnknown'
    BY <1>0, <1>2 DEF EnterIdle, FiberInv, UnbornUnknown, Cur
  <2> QED BY <1>2, <2>1, FrameFiber DEF EnterIdle
<1>3. CASE CheckTimers(t)
  <2>1. UnbornUnknown'
    BY <1>0, <1>3 DEF CheckTimers, FiberInv, UnbornUnknown, Cur
  <2> QED BY <1>3, <2>1, FrameFiber DEF CheckTimers
<1>4. CASE CheckEvents(t)
  <2>1. UnbornUnknown'
    BY <1>0, <1>4 DEF CheckEvents, FiberInv, UnbornUnknown, Cur
  <2> QED BY <1>4, <2>1, FrameFiber DEF CheckEvents
<1>5. CASE CheckTasks(t)
  <2>1. UnbornUnknown'
    BY <1>0, <1>5 DEF CheckTasks, FiberInv, UnbornUnknown, Cur
  <2> QED BY <1>5, <2>1, FrameFiber DEF CheckTasks
<1>6. CASE EpollWait(t)
  <2>1. UnbornUnknown'
    BY <1>0, <1>6 DEF EpollWait, FiberInv, UnbornUnknown, Cur
  <2> QED BY <1>6, <2>1, FrameFiber DEF EpollWait
<1>7. ASSUME NEW due \in SUBSET timers, ListExpiredCb(t, due)
      PROVE  FiberInv'
  <2>1. UnbornUnknown'
    BY <1>0, <1>7 DEF ListExpiredCb, TypeOK, FiberInv, UnbornUnknown, Cur
  <2> QED BY <1>7, <2>1, FrameFiber DEF ListExpiredCb
<1>8. CASE ScheduleCb(t)
  <2> PICK g \in cbs[t] : /\ ScheduleLock(t, TimerTask(g))
                          /\ cbs' = [cbs EXCEPT ![t] = cbs[t] \ {g}]
    BY <1>8 DEF ScheduleCb
  <2>1. TimerTask(g) \in Tasks /\ TimerTask(g).fiber = g
    BY <1>0 DEF TypeOK, TimerTask, Tasks
  <2>2. ASSUME NEW f \in Fibers, m_state[f] = "NONE"
        PROVE  \A i \in DOMAIN m_tasks' : m_tasks'[i].fiber # f
    <3>1. TimerTask(g).fiber # f /\ \A i \in DOMAIN m_tasks : m_tasks[i].fiber # f
      BY <1>0, <2>1, <2>2 DEF FiberInv, UnbornUnknown
    <3> QED BY <1>0, <2>1, <3>1, ScheduleLockNames
  <2>3. UnbornUnknown'
    BY <1>0, <1>8, <2>2 DEF ScheduleCb, TypeOK, FiberInv, UnbornUnknown, Cur
  <2>4. pc' = [pc EXCEPT ![t] = "cbs"] /\ UNCHANGED <<task, m_state, m_mutex>>
    BY <1>0, <1>8 DEF ScheduleCb, TypeOK
  <2> QED BY <2>3, <2>4, FrameFiber
<1>9. CASE CbsDone(t)
  <2>1. UnbornUnknown'
    BY <1>0, <1>9 DEF CbsDone, FiberInv, UnbornUnknown, Cur
  <2> QED BY <1>9, <2>1, FrameFiber DEF CbsDone
<1>10. CASE DrainPipe(t)
  <2>1. UnbornUnknown'
    BY <1>0, <1>10 DEF DrainPipe, FiberInv, UnbornUnknown, Cur
  <2>2. pc' = [pc EXCEPT ![t] = "events"] /\ UNCHANGED <<task, m_state, m_mutex>>
    BY <1>0, <1>10 DEF DrainPipe, TypeOK
  <2> QED BY <2>1, <2>2, FrameFiber
<1>11. CASE TriggerEvent(t)
  <2> PICK g \in ready[t] :
        /\ events' = events \ {g}
        /\ IF g \in events
             THEN ScheduleLock(t, FiberTask(g)) /\ Goto(t, "decPending")
             ELSE UNCHANGED <<m_tasks, notify, pc>>
    BY <1>11 DEF TriggerEvent
  <2>1. FiberTask(g) \in Tasks /\ FiberTask(g).fiber = g
    BY <1>0 DEF TypeOK, FiberTask, Tasks
  <2>2. ASSUME NEW f \in Fibers, m_state[f] = "NONE"
        PROVE  \A i \in DOMAIN m_tasks' : m_tasks'[i].fiber # f
    <3>1. CASE g \in events
      <4>1. /\ FiberTask(g).fiber # f
            /\ \A i \in DOMAIN m_tasks : m_tasks[i].fiber # f
        BY <1>0, <2>1, <2>2, <3>1 DEF FiberInv, UnbornUnknown
      <4> QED BY <1>0, <2>1, <3>1, <4>1, ScheduleLockNames
    <3>2. CASE g \notin events
      BY <1>0, <2>2, <3>2 DEF FiberInv, UnbornUnknown
    <3> QED BY <3>1, <3>2
  <2>3. UnbornUnknown'
    BY <1>0, <1>11, <2>2 DEF TriggerEvent, FiberInv, UnbornUnknown, Cur
  <2>4. /\ \/ pc' = [pc EXCEPT ![t] = "decPending"]
           \/ pc' = [pc EXCEPT ![t] = "events"]
        /\ UNCHANGED <<task, m_state, m_mutex>>
    BY <1>0, <1>11 DEF TriggerEvent, TypeOK
  <2> QED BY <2>3, <2>4, FrameFiber
<1>12. CASE DecPending(t)
  <2>1. UnbornUnknown'
    BY <1>0, <1>12 DEF DecPending, FiberInv, UnbornUnknown, Cur
  <2> QED BY <1>12, <2>1, FrameFiber DEF DecPending
<1>13. CASE IdleYield(t)
  <2>1. UnbornUnknown'
    BY <1>0, <1>13 DEF IdleYield, FiberInv, UnbornUnknown, Cur
  <2> QED BY <1>13, <2>1, FrameFiber DEF IdleYield
<1>14. CASE LeaveIdle(t)
  <2>1. UnbornUnknown'
    BY <1>0, <1>14 DEF LeaveIdle, FiberInv, UnbornUnknown, Cur
  <2> QED BY <1>14, <2>1, FrameFiber DEF LeaveIdle
<1> QED
  BY <1>1, <1>2, <1>3, <1>4, <1>5, <1>6, <1>7, <1>8, <1>9, <1>10, <1>11,
     <1>12, <1>13, <1>14 DEF IdleStep

(* Every step of scheduleLock by the owner and of stop() preserves the     *)
(* fiber invariant.                                                        *)
LEMMA StopFiber ==
    ASSUME IInv, StopStep
    PROVE  FiberInv'
<1> USE DEF At, Goto, HolderLabels, counters, fiberVars, ioVars
<1>0. TypeOK /\ FiberInv /\ Caller \in Threads
  BY DEF IInv
<1>1. CASE Submit
  <2> PICK thr \in Workers \cup {NoThread} : ScheduleLock(Caller, CbTask(thr))
    BY <1>1 DEF Submit
  <2>1. CbTask(thr) \in Tasks /\ CbTask(thr).fiber = NoFiber
    BY DEF CbTask, Tasks, Workers
  <2>2. ASSUME NEW f \in Fibers, m_state[f] = "NONE"
        PROVE  \A i \in DOMAIN m_tasks' : m_tasks'[i].fiber # f
    <3>1. CbTask(thr).fiber # f /\ \A i \in DOMAIN m_tasks : m_tasks[i].fiber # f
      BY <1>0, <2>1, <2>2, FibersAssumption DEF FiberInv, UnbornUnknown
    <3> QED BY <1>0, <2>1, <3>1, ScheduleLockNames
  <2>3. UnbornUnknown'
    BY <1>0, <1>1, <2>2 DEF Submit, FiberInv, UnbornUnknown, Cur
  <2>4. pc' = [pc EXCEPT ![Caller] = "main"] /\ UNCHANGED <<task, m_state, m_mutex>>
    BY <1>0, <1>1 DEF Submit, TypeOK
  <2> QED BY <1>0, <2>3, <2>4, FrameFiber
<1>2. CASE StopBegin
  <2>1. UnbornUnknown'
    BY <1>0, <1>2 DEF StopBegin, FiberInv, UnbornUnknown, Cur
  <2> QED BY <1>0, <1>2, <2>1, FrameFiber DEF StopBegin
<1>3. CASE StopTickle
  <2>1. UnbornUnknown'
    BY <1>0, <1>3 DEF StopTickle, FiberInv, UnbornUnknown, Cur
  <2>2. pc' = [pc EXCEPT ![Caller] = "stopTickle"] /\ UNCHANGED <<task, m_state, m_mutex>>
    BY <1>0, <1>3 DEF StopTickle, TypeOK
  <2> QED BY <1>0, <2>1, <2>2, FrameFiber
<1>4. CASE StopRun
  <2>1. UnbornUnknown'
    BY <1>0, <1>4 DEF StopRun, FiberInv, UnbornUnknown, Cur
  <2> QED BY <1>0, <1>4, <2>1, FrameFiber DEF StopRun
<1>5. CASE StopJoin
  <2>1. UnbornUnknown'
    BY <1>0, <1>5 DEF StopJoin, FiberInv, UnbornUnknown, Cur
  <2> QED BY <1>0, <1>5, <2>1, FrameFiber DEF StopJoin
<1> QED
  BY <1>1, <1>2, <1>3, <1>4, <1>5 DEF StopStep

(* The fiber invariant holds initially: no fiber object exists.            *)
LEMMA InitFiber == Init => FiberInv
  BY FibersAssumption DEF Init, NoTask, FiberInv, CurIsFiber, MutexHeld,
       HeldState, FiberAsserts, RunningIsHeld, UnbornUnknown, HolderLabels, Cur

(* The inductive invariant is preserved by every step and by stuttering.   *)
LEMMA NextInv == IInv /\ [Next]_vars => IInv'
<1> SUFFICES ASSUME IInv, [Next]_vars PROVE IInv'
  OBVIOUS
<1>0. TypeOK /\ FiberInv /\ CurIsFiber
  BY DEF IInv, FiberInv
<1>1. ASSUME NEW t \in Threads, RunStep(t) PROVE IInv'
  BY <1>0, <1>1, RunType, RunFiber DEF IInv
<1>2. ASSUME NEW t \in Threads, IdleStep(t) PROVE IInv'
  BY <1>0, <1>2, IdleType, IdleFiber DEF IInv
<1>3. CASE StopStep
  BY <1>0, <1>3, StopType, StopFiber DEF IInv
<1>4. CASE UNCHANGED vars
  BY <1>4 DEF vars, local, counters, fiberVars, ioVars, IInv, TypeOK, FiberInv,
       CurIsFiber, MutexHeld, HeldState, FiberAsserts, RunningIsHeld,
       UnbornUnknown, Cur
<1> QED
  BY <1>1, <1>2, <1>3, <1>4 DEF Next, Stopped

(* The scheduler keeps every variable in its type: every task names a      *)
(* fiber or a callback, every label is one of run(), idle() or stop().     *)
THEOREM TypeCorrect == Spec => []TypeOK
<1>1. Init => IInv
  BY InitType, InitFiber DEF IInv
<1>2. IInv => TypeOK
  BY DEF IInv
<1> QED BY <1>1, <1>2, NextInv, PTL DEF Spec

(* run() never has two threads on one fiber's stack: a fiber woken by a    *)
(* timer or an event before it has yielded waits for its mutex.            *)
THEOREM Exclusion == Spec => []FiberExclusion
<1>1. Init => IInv
  BY InitType, InitFiber DEF IInv
<1>2. IInv => FiberExclusion
  BY DEF IInv, FiberInv, MutexHeld, FiberExclusion, OnStack, HolderLabels
<1> QED BY <1>1, <1>2, NextInv, PTL DEF Spec

(* The assertions of Fiber::resume, Fiber::yield and IOManager::addEvent   *)
(* on the fiber's state never fail.                                        *)
THEOREM AssertsHold == Spec => []FiberAsserts
<1>1. Init => IInv
  BY InitType, InitFiber DEF IInv
<1>2. IInv => FiberAsserts
  BY DEF IInv, FiberInv, HeldState
<1> QED BY <1>1, <1>2, NextInv, PTL DEF Spec

(* A fiber in TERM stays there: resume() is only reached by a READY fiber, *)
(* and the yield() a fiber ends with does not make it READY again.         *)
THEOREM TermFinal == Spec => TermIsFinal
<1> DEFINE Kept == \A f \in Fibers : m_state[f] = "TERM" => m_state'[f] = "TERM"
<1>1. Init => IInv
  BY InitType, InitFiber DEF IInv
<1>2. IInv /\ [Next]_vars => [Kept]_vars
  <2> SUFFICES ASSUME IInv, [Next]_vars PROVE Kept \/ UNCHANGED vars
    OBVIOUS
  <2> USE DEF counters, fiberVars, ioVars
  <2>0. TypeOK /\ CurIsFiber /\ FiberAsserts
    BY DEF IInv, FiberInv, HeldState
  <2>1. ASSUME NEW t \in Threads, RunStep(t) PROVE Kept
    <3>1. CASE Resume(t)
      BY <2>0, <3>1 DEF Resume, At, Cur, TypeOK, FiberAsserts
    <3>2. CASE Yield(t)
      BY <2>0, <3>2 DEF Yield, At, Cur, TypeOK
    <3>3. CASE NewFiber(t)
      BY <2>0, <3>3 DEF NewFiber, TypeOK
    <3>4. CASE Finish(t)
      BY <2>0, <3>4 DEF Finish, TypeOK
    <3>5. CASE UNCHANGED m_state
      BY <3>5
    <3> QED
      BY <2>1, <3>1, <3>2, <3>3, <3>4, <3>5 DEF RunStep, Tickle, TakeTask,
           TakeNothing, LockFiber, RunTimerCb, UnlockFiber, DecActive, Sleep,
           WaitIO, Spawn
  <2>2. ASSUME NEW t \in Threads, IdleStep(t) PROVE Kept
    BY <2>2 DEF IdleStep, ExitRun, EnterIdle, CheckTimers, CheckEvents,
         CheckTasks, EpollWait, ListExpiredCb, ScheduleCb, CbsDone, DrainPipe,
         TriggerEvent, DecPending, IdleYield, LeaveIdle
  <2>3. CASE StopStep
    BY <2>3 DEF StopStep, Submit, StopBegin, StopTickle, StopRun, StopJoin
  <2> QED
    BY <2>1, <2>2, <2>3 DEF Next, Stopped
<1> QED BY <1>1, <1>2, NextInv, PTL DEF Spec, TermIsFinal

-----------------------------------------------------------------------------
(* The thread counters                                                     *)

In(l, L) == IF l \in L THEN 1 ELSE 0

(* How moving one thread changes the number of threads at the labels of L. *)
LEMMA CountMove ==
    ASSUME NEW t \in Threads, NEW L,
           \A u \in Threads \ {t} : pc'[u] = pc[u]
    PROVE  Cardinality({u \in Threads : pc'[u] \in L})
             = Cardinality({u \in Threads : pc[u] \in L})
               + In(pc'[t], L) - In(pc[t], L)
<1> DEFINE A == {u \in Threads : pc[u] \in L}
           B == {u \in Threads : pc'[u] \in L}
<1>1. IsFiniteSet(Threads)
  BY ThreadsAssumption, FS_AddElement
<1>2. IsFiniteSet(A) /\ Cardinality(A) \in Nat
  BY <1>1, FS_Subset, FS_CardinalityType
<1>4. CASE pc'[t] \in L /\ pc[t] \in L
  <2>1. B = A
    BY <1>4
  <2>2. Cardinality(B) = Cardinality(A)
    BY <2>1
  <2>3. In(pc'[t], L) = In(pc[t], L) /\ In(pc[t], L) \in Int
    BY <1>4 DEF In
  <2> HIDE DEF A, B
  <2>4. Cardinality(B) = Cardinality(A) + In(pc'[t], L) - In(pc[t], L)
    BY <1>2, <2>2, <2>3
  <2> QED BY <2>4 DEF A, B
<1>5. CASE pc'[t] \in L /\ pc[t] \notin L
  <2>1. B = A \cup {t} /\ t \notin A
    BY <1>5
  <2>2. In(pc'[t], L) = 1 /\ In(pc[t], L) = 0
    BY <1>5 DEF In
  <2> HIDE DEF A, B
  <2>3. Cardinality(B) = Cardinality(A) + 1
    BY <1>2, <2>1, FS_AddElement
  <2>4. Cardinality(B) = Cardinality(A) + In(pc'[t], L) - In(pc[t], L)
    BY <1>2, <2>2, <2>3
  <2> QED BY <2>4 DEF A, B
<1>6. CASE pc'[t] \notin L /\ pc[t] \in L
  <2>1. B = A \ {t} /\ t \in A
    BY <1>6
  <2>2. In(pc'[t], L) = 0 /\ In(pc[t], L) = 1
    BY <1>6 DEF In
  <2> HIDE DEF A, B
  <2>3. Cardinality(B) = Cardinality(A) - 1
    BY <1>2, <2>1, FS_RemoveElement
  <2>4. Cardinality(B) = Cardinality(A) + In(pc'[t], L) - In(pc[t], L)
    BY <1>2, <2>2, <2>3
  <2> QED BY <2>4 DEF A, B
<1>7. CASE pc'[t] \notin L /\ pc[t] \notin L
  <2>1. B = A
    BY <1>7
  <2>2. Cardinality(B) = Cardinality(A)
    BY <2>1
  <2>3. In(pc'[t], L) = In(pc[t], L) /\ In(pc[t], L) \in Int
    BY <1>7 DEF In
  <2> HIDE DEF A, B
  <2>4. Cardinality(B) = Cardinality(A) + In(pc'[t], L) - In(pc[t], L)
    BY <1>2, <2>2, <2>3
  <2> QED BY <2>4 DEF A, B
<1> QED BY <1>4, <1>5, <1>6, <1>7

(* The counters stay exact when each changes by what the move of thread t  *)
(* changes in the number of active and of idle threads.                    *)
LEMMA CountersMove ==
    ASSUME ThreadCountersExact, NEW t \in Threads,
           \A u \in Threads \ {t} : pc'[u] = pc[u],
           m_activeThreadCount' = m_activeThreadCount
             + In(pc'[t], ActiveLabels) - In(pc[t], ActiveLabels),
           m_idleThreadCount' = m_idleThreadCount
             + In(pc'[t], IdleLabels) - In(pc[t], IdleLabels)
    PROVE  ThreadCountersExact'
  BY CountMove DEF ThreadCountersExact

(* Every step changes the two thread counters by what it changes in the    *)
(* number of active and of idle threads.                                   *)
LEMMA NextCounters == IInv /\ ThreadCountersExact /\ [Next]_vars => ThreadCountersExact'
<1> SUFFICES ASSUME IInv, ThreadCountersExact, [Next]_vars
             PROVE  ThreadCountersExact'
  OBVIOUS
<1> USE DEF counters, At, Goto
<1>0. /\ pc \in [Threads -> Labels]
      /\ m_activeThreadCount \in Int /\ m_idleThreadCount \in Int
  BY DEF IInv, TypeOK
<1>1. CASE UNCHANGED <<pc, m_activeThreadCount, m_idleThreadCount>>
  BY <1>1 DEF ThreadCountersExact
<1>2. ASSUME NEW t \in Threads, RunStep(t) PROVE ThreadCountersExact'
  <2> USE DEF ActiveLabels, IdleLabels, In
  <2>1. CASE TakeTask(t)
    BY <1>0, <2>1, CountersMove DEF TakeTask
  <2>2. CASE TakeNothing(t)
    BY <1>0, <2>2, CountersMove DEF TakeNothing
  <2>3. CASE LockFiber(t)
    BY <1>0, <2>3, CountersMove DEF LockFiber
  <2>4. CASE NewFiber(t)
    BY <1>0, <2>4, CountersMove DEF NewFiber
  <2>5. CASE RunTimerCb(t)
    BY <1>0, <2>5, CountersMove DEF RunTimerCb
  <2>6. CASE Resume(t)
    BY <1>0, <2>6, CountersMove DEF Resume
  <2>7. CASE Yield(t)
    BY <1>0, <2>7, CountersMove DEF Yield
  <2>8. CASE UnlockFiber(t)
    BY <1>0, <2>8, CountersMove DEF UnlockFiber
  <2>9. CASE DecActive(t)
    BY <1>0, <2>9, CountersMove DEF DecActive
  <2>10. CASE Sleep(t)
    BY <1>0, <2>10, CountersMove DEF Sleep
  <2>11. CASE WaitIO(t)
    BY <1>0, <2>11, CountersMove DEF WaitIO
  <2>12. CASE Finish(t)
    BY <1>0, <2>12, CountersMove DEF Finish
  <2> QED
    BY <1>1, <1>2, <2>1, <2>2, <2>3, <2>4, <2>5, <2>6,
       <2>7, <2>8, <2>9, <2>10, <2>11, <2>12 DEF RunStep, Tickle, Spawn
<1>3. ASSUME NEW t \in Threads, IdleStep(t) PROVE ThreadCountersExact'
  <2> USE DEF ActiveLabels, IdleLabels, In
  <2>1. CASE ExitRun(t)
    BY <1>0, <2>1, CountersMove DEF ExitRun
  <2>2. CASE EnterIdle(t)
    BY <1>0, <2>2, CountersMove DEF EnterIdle
  <2>3. CASE CheckTimers(t)
    BY <1>0, <2>3, CountersMove DEF CheckTimers
  <2>4. CASE CheckEvents(t)
    BY <1>0, <2>4, CountersMove DEF CheckEvents
  <2>5. CASE CheckTasks(t)
    BY <1>0, <2>5, CountersMove DEF CheckTasks
  <2>6. CASE EpollWait(t)
    BY <1>0, <2>6, CountersMove DEF EpollWait
  <2>7. CASE CbsDone(t)
    BY <1>0, <2>7, CountersMove DEF CbsDone
  <2>8. CASE DecPending(t)
    BY <1>0, <2>8, CountersMove DEF DecPending
  <2>9. CASE IdleYield(t)
    BY <1>0, <2>9, CountersMove DEF IdleYield
  <2>10. CASE LeaveIdle(t)
    BY <1>0, <2>10, CountersMove DEF LeaveIdle
  <2>11. ASSUME NEW due \in SUBSET timers, ListExpiredCb(t, due)
        PROVE  ThreadCountersExact'
    BY <1>0, <2>11, CountersMove DEF ListExpiredCb
  <2>12. CASE TriggerEvent(t)
    <3>1. CASE UNCHANGED pc
      BY <1>1, <2>12, <3>1 DEF TriggerEvent
    <3>2. CASE Goto(t, "decPending")
      BY <1>0, <2>12, <3>2, CountersMove DEF TriggerEvent
    <3> QED BY <2>12, <3>1, <3>2 DEF TriggerEvent
  <2> QED
    BY <1>1, <1>3, <2>1, <2>2, <2>3, <2>4, <2>5, <2>6,
       <2>7, <2>8, <2>9, <2>10, <2>11, <2>12 DEF IdleStep, ScheduleCb, DrainPipe
<1>4. CASE StopStep
  <2> USE DEF ActiveLabels, IdleLabels, In
  <2>0. Caller \in Threads
    OBVIOUS
  <2>1. CASE StopBegin
    BY <1>0, <2>0, <2>1, CountersMove DEF StopBegin
  <2>2. CASE StopRun
    BY <1>0, <2>0, <2>2, CountersMove DEF StopRun
  <2>3. CASE StopJoin
    BY <1>0, <2>0, <2>3, CountersMove DEF StopJoin
  <2> QED
    BY <1>1, <1>4, <2>1, <2>2, <2>3 DEF StopStep, Submit, StopTickle
<1>5. CASE UNCHANGED vars
  BY <1>1, <1>5 DEF vars, local
<1> QED
  BY <1>2, <1>3, <1>4, <1>5 DEF Next, Stopped

(* m_activeThreadCount and m_idleThreadCount are at every moment the       *)
(* number of threads executing a task and the number inside idle(): they   *)
(* never wrap below zero and stopping() and tickle() decide on true counts.*)
THEOREM CountersAreExact == Spec => []ThreadCountersExact
<1>1. Init => IInv
  BY InitType, InitFiber DEF IInv
<1>2. Init => ThreadCountersExact
  <2> SUFFICES ASSUME Init PROVE ThreadCountersExact
    OBVIOUS
  <2>1. {t \in Threads : pc[t] \in ActiveLabels} = {}
    BY DEF Init, ActiveLabels
  <2>2. {t \in Threads : pc[t] \in IdleLabels} = {}
    BY DEF Init, IdleLabels
  <2> QED BY <2>1, <2>2, FS_EmptySet DEF Init, ThreadCountersExact
<1> QED BY <1>1, <1>2, NextInv, NextCounters, PTL DEF Spec
=============================================================================
