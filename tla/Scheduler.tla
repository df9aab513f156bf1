----------------------------- MODULE Scheduler -----------------------------
(***************************************************************************)
(* The coroutine scheduler: Scheduler::run / scheduleLock / stop           *)
(* (scheduler.{h,cpp}), the fibers it resumes (fiber.cpp), and the part of *)
(* IOManager that drives it: idle(), stopping() and tickle()               *)
(* (ioscheduler.cpp).                                                      *)
(*                                                                         *)
(* Every worker thread has a program counter.  A step is one critical      *)
(* section, one atomic operation or one system call of the code, so the    *)
(* interleavings are those of the real threads.  The timer heap and the    *)
(* table of fd contexts are reduced to the sets of fibers waiting in them; *)
(* modules TimerManager and IOEvents model them in full.                   *)
(***************************************************************************)
EXTENDS Integers, Sequences, FiniteSets, SequencesExt

CONSTANTS
    Pool,       \* the threads created by Scheduler::start()
    Caller,     \* the thread that owns the IOManager: schedules, stops, joins
    UseCaller,  \* m_useCaller: Caller also works, from stop() on
    Fibers,     \* the Fiber objects that run() may create, one per callback
    MaxWaits,   \* bound: suspensions of one fiber
    NoThread, NoFiber

ASSUME ThreadsAssumption ==
    /\ Caller \notin Pool
    /\ NoThread \notin Pool \cup {Caller}
    /\ UseCaller \in BOOLEAN
    /\ IsFiniteSet(Pool)
ASSUME FibersAssumption == NoFiber \notin Fibers /\ IsFiniteSet(Fibers)
ASSUME MaxWaitsAssumption == MaxWaits \in Nat

Threads == Pool \cup {Caller}
Workers == IF UseCaller THEN Threads ELSE Pool

(* assert(threads>0) in the constructor: some thread works.                *)
ASSUME WorkersAssumption == Workers # {}

VARIABLES
    pc,         \* thread -> where it is in run(), idle() or stop()
    notify,     \* threads that still owe the tickle() of a scheduleLock/run scan
    task,       \* thread -> the ScheduleTask taken from the queue
    cbs,        \* thread -> expired timer callbacks not yet scheduled by idle()
    ready,      \* thread -> epoll results (waiting fibers) not yet handled
    drain,      \* threads whose epoll results contain the tickle pipe
    idleTerm,   \* threads whose idle fiber is in state TERM
    kicks,      \* tickle() calls stop() still has to make
    m_tasks, m_activeThreadCount, m_idleThreadCount, m_stopping,
    m_state,    \* fiber -> Fiber::m_state, "NONE" before the object exists
    m_mutex,    \* fiber -> thread holding Fiber::m_mutex
    waits,      \* fiber -> suspensions so far (bounded by MaxWaits)
    submitted,  \* callbacks handed to scheduleLock so far
    timers,     \* fibers with an armed timer
    events,     \* fibers registered for an fd event
    m_pendingEventCount,
    pipe        \* the tickle pipe: "byte" unread data, "edge" an epoll edge

local == <<pc, notify, task, cbs, ready, drain, idleTerm, kicks>>
counters == <<m_activeThreadCount, m_idleThreadCount, m_stopping>>
fiberVars == <<m_state, m_mutex, waits, submitted>>
ioVars == <<timers, events, m_pendingEventCount>>
vars == <<local, m_tasks, counters, fiberVars, ioVars, pipe>>

(* A ScheduleTask: a fiber to resume, a user callback to run in a new      *)
(* fiber, or the callback of an expired timer (it wakes a sleeping fiber). *)
Tasks == [kind : {"fiber", "timer"}, fiber : Fibers,
          thread : Threads \cup {NoThread}]
         \cup [kind : {"cb", "none"}, fiber : Fibers \cup {NoFiber},
               thread : Threads \cup {NoThread}]
NoTask == [kind |-> "none", fiber |-> NoFiber, thread |-> NoThread]
FiberTask(f) == [kind |-> "fiber", fiber |-> f, thread |-> NoThread]
TimerTask(f) == [kind |-> "timer", fiber |-> f, thread |-> NoThread]
CbTask(thr) == [kind |-> "cb", fiber |-> NoFiber, thread |-> thr]

RunLabels == {"take", "dispatch", "resume", "exec", "yield", "unlock", "dec"}
IdleLabels == {"chkTimers", "chkEvents", "chkTasks", "wait", "expire", "cbs",
               "events", "decPending", "leaveIdle"}
StopLabels == {"main", "stopTickle", "joined"}
Labels == RunLabels \cup IdleLabels \cup StopLabels \cup {"enterIdle", "exit"}

Init ==
    /\ pc = [t \in Threads |-> IF t = Caller THEN "main" ELSE "take"]
    /\ notify = {}
    /\ task = [t \in Threads |-> NoTask]
    /\ cbs = [t \in Threads |-> {}]
    /\ ready = [t \in Threads |-> {}]
    /\ drain = {}
    /\ idleTerm = {}
    /\ kicks = 0
    /\ m_tasks = <<>>
    /\ m_activeThreadCount = 0
    /\ m_idleThreadCount = 0
    /\ m_stopping = FALSE
    /\ m_state = [f \in Fibers |-> "NONE"]
    /\ m_mutex = [f \in Fibers |-> NoThread]
    /\ waits = [f \in Fibers |-> 0]
    /\ submitted = 0
    /\ timers = {}
    /\ events = {}
    /\ m_pendingEventCount = 0
    /\ pipe = {}

(* Thread t is at label l and owes no tickle().                            *)
At(t, l) == pc[t] = l /\ t \notin notify
Goto(t, l) == pc' = [pc EXCEPT ![t] = l]
Cur(t) == task[t].fiber

-----------------------------------------------------------------------------
(* scheduleLock and tickle                                                 *)

(* The locked part of scheduleLock: push the task; the tickle() follows    *)
(* after the unlock iff the queue was empty.                               *)
ScheduleLock(t, tk) ==
    /\ m_tasks' = Append(m_tasks, tk)
    /\ notify' = IF m_tasks = <<>> THEN notify \cup {t} ELSE notify

(* IOManager::tickle(): a byte into the pipe, only if some thread is idle. *)
WritePipe == pipe' = IF m_idleThreadCount > 0 THEN {"byte", "edge"} ELSE pipe

Tickle(t) ==
    /\ t \in notify
    /\ notify' = notify \ {t}
    /\ WritePipe
    /\ UNCHANGED <<pc, task, cbs, ready, drain, idleTerm, kicks, m_tasks,
                   counters, fiberVars, ioVars>>

-----------------------------------------------------------------------------
(* Scheduler::run                                                          *)

(* Tasks of the queue that thread t may run.                               *)
Eligible(t) == {i \in DOMAIN m_tasks : m_tasks[i].thread \in {NoThread, t}}

TakeTask(t) ==
    /\ At(t, "take")
    /\ \E i \in Eligible(t) :
         /\ \A j \in Eligible(t) : i <= j
         /\ task' = [task EXCEPT ![t] = m_tasks[i]]
         /\ m_tasks' = RemoveAt(m_tasks, i)
    /\ m_activeThreadCount' = m_activeThreadCount + 1
    /\ notify' = IF Len(m_tasks) > 1 THEN notify \cup {t} ELSE notify
    /\ Goto(t, "dispatch")
    /\ UNCHANGED <<cbs, ready, drain, idleTerm, kicks, m_idleThreadCount,
                   m_stopping, fiberVars, ioVars, pipe>>

TakeNothing(t) ==
    /\ At(t, "take")
    /\ Eligible(t) = {}
    /\ notify' = IF m_tasks # <<>> THEN notify \cup {t} ELSE notify
    /\ Goto(t, "enterIdle")
    /\ UNCHANGED <<task, cbs, ready, drain, idleTerm, kicks, m_tasks, counters,
                   fiberVars, ioVars, pipe>>

(* Mutant: run() resumes the fiber without taking its mutex.               *)
LockFiberNoGuard(t) ==
    /\ At(t, "dispatch")
    /\ task[t].kind = "fiber"
    /\ Goto(t, IF m_state[Cur(t)] # "TERM" THEN "resume" ELSE "unlock")
    /\ UNCHANGED <<notify, task, cbs, ready, drain, idleTerm, kicks, m_tasks,
                   counters, fiberVars, ioVars, pipe>>

(* task.fiber: lock the fiber's mutex; a fiber in TERM is not resumed.     *)
LockFiber(t) ==
    /\ At(t, "dispatch")
    /\ task[t].kind = "fiber"
    /\ m_mutex[Cur(t)] = NoThread
    /\ m_mutex' = [m_mutex EXCEPT ![Cur(t)] = t]
    /\ Goto(t, IF m_state[Cur(t)] # "TERM" THEN "resume" ELSE "unlock")
    /\ UNCHANGED <<notify, task, cbs, ready, drain, idleTerm, kicks, m_tasks,
                   counters, m_state, waits, submitted, ioVars, pipe>>

(* task.cb: create a fiber for the callback and lock its mutex.            *)
NewFiber(t) ==
    /\ At(t, "dispatch")
    /\ task[t].kind = "cb"
    /\ \E f \in Fibers :
         /\ m_state[f] = "NONE"
         /\ m_state' = [m_state EXCEPT ![f] = "READY"]
         /\ m_mutex' = [m_mutex EXCEPT ![f] = t]
         /\ task' = [task EXCEPT ![t] = [@ EXCEPT !.fiber = f]]
    /\ Goto(t, "resume")
    /\ UNCHANGED <<notify, cbs, ready, drain, idleTerm, kicks, m_tasks,
                   counters, waits, submitted, ioVars, pipe>>

(* task.cb of an expired timer: the callback of the sleep hooks schedules  *)
(* the fiber; the short-lived fiber it runs in is seen by no other thread. *)
RunTimerCb(t) ==
    /\ At(t, "dispatch")
    /\ task[t].kind = "timer"
    /\ ScheduleLock(t, FiberTask(Cur(t)))
    /\ Goto(t, "dec")
    /\ UNCHANGED <<task, cbs, ready, drain, idleTerm, kicks, counters,
                   fiberVars, ioVars, pipe>>

(* Mutant: the guard on the fiber's mutex ends before resume().            *)
ResumeUnlocked(t) ==
    /\ At(t, "resume")
    /\ m_state' = [m_state EXCEPT ![Cur(t)] = "RUNNING"]
    /\ m_mutex' = [m_mutex EXCEPT ![Cur(t)] = NoThread]
    /\ Goto(t, "exec")
    /\ UNCHANGED <<notify, task, cbs, ready, drain, idleTerm, kicks, m_tasks,
                   counters, waits, submitted, ioVars, pipe>>

(* Fiber::resume up to swapcontext.                                        *)
Resume(t) ==
    /\ At(t, "resume")
    /\ m_state' = [m_state EXCEPT ![Cur(t)] = "RUNNING"]
    /\ Goto(t, "exec")
    /\ UNCHANGED <<notify, task, cbs, ready, drain, idleTerm, kicks, m_tasks,
                   counters, m_mutex, waits, submitted, ioVars, pipe>>

(* Mutant: yield() without the m_state != TERM test.                       *)
YieldAlwaysReady(t) ==
    /\ At(t, "yield")
    /\ m_state' = [m_state EXCEPT ![Cur(t)] = "READY"]
    /\ Goto(t, "unlock")
    /\ UNCHANGED <<notify, task, cbs, ready, drain, idleTerm, kicks, m_tasks,
                   counters, m_mutex, waits, submitted, ioVars, pipe>>

(* Mutant: yield() forgets to set READY.                                   *)
YieldKeepsRunning(t) ==
    /\ At(t, "yield")
    /\ Goto(t, "unlock")
    /\ UNCHANGED <<notify, task, cbs, ready, drain, idleTerm, kicks, m_tasks,
                   counters, fiberVars, ioVars, pipe>>

(* Fiber::yield up to swapcontext: READY although the stack is in use; a   *)
(* terminated fiber leaves through yield() too and stays TERM.             *)
Yield(t) ==
    /\ At(t, "yield")
    /\ m_state' = [m_state EXCEPT ![Cur(t)] = IF @ # "TERM" THEN "READY" ELSE @]
    /\ Goto(t, "unlock")
    /\ UNCHANGED <<notify, task, cbs, ready, drain, idleTerm, kicks, m_tasks,
                   counters, m_mutex, waits, submitted, ioVars, pipe>>

(* Mutant: the fiber's mutex is not released after resume().               *)
UnlockForgotten(t) ==
    /\ At(t, "unlock")
    /\ Goto(t, "dec")
    /\ UNCHANGED <<notify, task, cbs, ready, drain, idleTerm, kicks, m_tasks,
                   counters, fiberVars, ioVars, pipe>>

(* swapcontext has saved the stack, resume() returns, the guard unlocks.   *)
UnlockFiber(t) ==
    /\ At(t, "unlock")
    /\ m_mutex' = [m_mutex EXCEPT ![Cur(t)] = NoThread]
    /\ Goto(t, "dec")
    /\ UNCHANGED <<notify, task, cbs, ready, drain, idleTerm, kicks, m_tasks,
                   counters, m_state, waits, submitted, ioVars, pipe>>

DecActive(t) ==
    /\ At(t, "dec")
    /\ m_activeThreadCount' = m_activeThreadCount - 1
    /\ task' = [task EXCEPT ![t] = NoTask]
    /\ Goto(t, "take")
    /\ UNCHANGED <<notify, cbs, ready, drain, idleTerm, kicks, m_tasks,
                   m_idleThreadCount, m_stopping, fiberVars, ioVars, pipe>>

-----------------------------------------------------------------------------
(* The body of a user fiber, running on thread t                           *)

(* sleep/usleep/nanosleep: addTimer, then yield.  front: the timer became  *)
(* the first one and addTimer calls onTimerInsertedAtFront() -> tickle().  *)
Sleep(t) ==
    /\ At(t, "exec")
    /\ waits[Cur(t)] < MaxWaits
    /\ waits' = [waits EXCEPT ![Cur(t)] = @ + 1]
    /\ timers' = timers \cup {Cur(t)}
    /\ \E front \in BOOLEAN :
         notify' = IF front THEN notify \cup {t} ELSE notify
    /\ Goto(t, "yield")
    /\ UNCHANGED <<task, cbs, ready, drain, idleTerm, kicks, m_tasks, counters,
                   m_state, m_mutex, submitted, events, m_pendingEventCount,
                   pipe>>

(* A hooked I/O call that would block: addEvent, then yield.               *)
WaitIO(t) ==
    /\ At(t, "exec")
    /\ waits[Cur(t)] < MaxWaits
    /\ waits' = [waits EXCEPT ![Cur(t)] = @ + 1]
    /\ events' = events \cup {Cur(t)}
    /\ m_pendingEventCount' = m_pendingEventCount + 1
    /\ Goto(t, "yield")
    /\ UNCHANGED <<notify, task, cbs, ready, drain, idleTerm, kicks, m_tasks,
                   counters, m_state, m_mutex, submitted, timers, pipe>>

(* The fiber hands another callback to the scheduler, for any thread: no   *)
(* caller of scheduleLock in a fiber gives its thread argument.  The model *)
(* is restricted to that; only the owner pins tasks (Submit).              *)
Spawn(t) ==
    /\ At(t, "exec")
    /\ submitted < Cardinality(Fibers)
    /\ submitted' = submitted + 1
    /\ ScheduleLock(t, CbTask(NoThread))
    /\ UNCHANGED <<pc, task, cbs, ready, drain, idleTerm, kicks, counters,
                   m_state, m_mutex, waits, ioVars, pipe>>

(* The callback returns: MainFunc sets TERM and calls yield().             *)
Finish(t) ==
    /\ At(t, "exec")
    /\ m_state' = [m_state EXCEPT ![Cur(t)] = "TERM"]
    /\ Goto(t, "yield")
    /\ UNCHANGED <<notify, task, cbs, ready, drain, idleTerm, kicks, m_tasks,
                   counters, m_mutex, waits, submitted, ioVars, pipe>>

-----------------------------------------------------------------------------
(* No task: the idle fiber, IOManager::idle                                *)

ExitRun(t) ==
    /\ At(t, "enterIdle")
    /\ t \in idleTerm
    /\ Goto(t, "exit")
    /\ UNCHANGED <<notify, task, cbs, ready, drain, idleTerm, kicks, m_tasks,
                   counters, fiberVars, ioVars, pipe>>

EnterIdle(t) ==
    /\ At(t, "enterIdle")
    /\ t \notin idleTerm
    /\ m_idleThreadCount' = m_idleThreadCount + 1
    /\ Goto(t, "chkTimers")
    /\ UNCHANGED <<notify, task, cbs, ready, drain, idleTerm, kicks, m_tasks,
                   m_activeThreadCount, m_stopping, fiberVars, ioVars, pipe>>

(* IOManager::stopping() is three reads, not one.                          *)
CheckTimers(t) ==
    /\ At(t, "chkTimers")
    /\ Goto(t, IF timers = {} THEN "chkEvents" ELSE "wait")
    /\ UNCHANGED <<notify, task, cbs, ready, drain, idleTerm, kicks, m_tasks,
                   counters, fiberVars, ioVars, pipe>>

CheckEvents(t) ==
    /\ At(t, "chkEvents")
    /\ Goto(t, IF m_pendingEventCount = 0 THEN "chkTasks" ELSE "wait")
    /\ UNCHANGED <<notify, task, cbs, ready, drain, idleTerm, kicks, m_tasks,
                   counters, fiberVars, ioVars, pipe>>

(* Mutant: Scheduler::stopping() also waits for the idle threads, one of   *)
(* which is always the thread that asks.                                   *)
StoppingWaitsForIdle ==
    /\ m_stopping /\ m_tasks = <<>>
    /\ m_activeThreadCount = 0 /\ m_idleThreadCount = 0

(* Scheduler::stopping(), under m_mutex.                                   *)
SchedulerStopping ==
    m_stopping /\ m_tasks = <<>> /\ m_activeThreadCount = 0

CheckTasks(t) ==
    /\ At(t, "chkTasks")
    /\ IF SchedulerStopping
         THEN idleTerm' = idleTerm \cup {t} /\ Goto(t, "leaveIdle")
         ELSE UNCHANGED idleTerm /\ Goto(t, "wait")
    /\ UNCHANGED <<notify, task, cbs, ready, drain, kicks, m_tasks, counters,
                   fiberVars, ioVars, pipe>>

(* Mutant: epoll_wait without MAX_TIMEOUT, waiting for ever when no timer  *)
(* is armed.                                                               *)
EpollWaitNoTimeout(t) ==
    /\ At(t, "wait")
    /\ timers # {} \/ pipe = {"byte", "edge"}
    /\ \E fired \in SUBSET events : ready' = [ready EXCEPT ![t] = fired]
    /\ drain' = IF pipe = {"byte", "edge"} THEN drain \cup {t} ELSE drain
    /\ pipe' = pipe \ {"edge"}
    /\ Goto(t, "expire")
    /\ UNCHANGED <<notify, task, cbs, idleTerm, kicks, m_tasks, counters,
                   fiberVars, ioVars>>

(* epoll_wait returns: a timeout (at most MAX_TIMEOUT later), some of the  *)
(* armed events, or the edge of the tickle pipe.  The kernel drops an edge *)
(* whose bytes another thread has drained.                                 *)
EpollWait(t) ==
    /\ At(t, "wait")
    /\ \E fired \in SUBSET events : ready' = [ready EXCEPT ![t] = fired]
    /\ drain' = IF pipe = {"byte", "edge"} THEN drain \cup {t} ELSE drain
    /\ pipe' = pipe \ {"edge"}
    /\ Goto(t, "expire")
    /\ UNCHANGED <<notify, task, cbs, idleTerm, kicks, m_tasks, counters,
                   fiberVars, ioVars>>

(* listExpiredCb: the due timers leave the heap in one critical section.   *)
ListExpiredCb(t, due) ==
    /\ At(t, "expire")
    /\ timers' = timers \ due
    /\ cbs' = [cbs EXCEPT ![t] = due]
    /\ Goto(t, "cbs")
    /\ UNCHANGED <<notify, task, ready, drain, idleTerm, kicks, m_tasks,
                   counters, fiberVars, events, m_pendingEventCount, pipe>>

ScheduleCb(t) ==
    /\ At(t, "cbs")
    /\ \E f \in cbs[t] :
         /\ ScheduleLock(t, TimerTask(f))
         /\ cbs' = [cbs EXCEPT ![t] = @ \ {f}]
    /\ UNCHANGED <<pc, task, ready, drain, idleTerm, kicks, counters,
                   fiberVars, ioVars, pipe>>

CbsDone(t) ==
    /\ At(t, "cbs")
    /\ cbs[t] = {}
    /\ Goto(t, "events")
    /\ UNCHANGED <<notify, task, cbs, ready, drain, idleTerm, kicks, m_tasks,
                   counters, fiberVars, ioVars, pipe>>

DrainPipe(t) ==
    /\ At(t, "events")
    /\ t \in drain
    /\ drain' = drain \ {t}
    /\ pipe' = pipe \ {"byte"}
    /\ UNCHANGED <<pc, notify, task, cbs, ready, idleTerm, kicks, m_tasks,
                   counters, fiberVars, ioVars>>

(* Mutant: triggerEvent does not clear the event it triggers.              *)
TriggerKeepsEvent(t) ==
    /\ At(t, "events")
    /\ \E f \in ready[t] :
         /\ ready' = [ready EXCEPT ![t] = @ \ {f}]
         /\ IF f \in events
              THEN ScheduleLock(t, FiberTask(f)) /\ Goto(t, "decPending")
              ELSE UNCHANGED <<m_tasks, notify, pc>>
    /\ UNCHANGED <<task, cbs, drain, idleTerm, kicks, counters, fiberVars,
                   ioVars, pipe>>

(* Mutant: idle() decrements m_pendingEventCount also for skipped results.  *)
TriggerCountsSkipped(t) ==
    /\ At(t, "events")
    /\ \E f \in ready[t] :
         /\ ready' = [ready EXCEPT ![t] = @ \ {f}]
         /\ events' = events \ {f}
         /\ Goto(t, "decPending")
         /\ IF f \in events
              THEN ScheduleLock(t, FiberTask(f))
              ELSE UNCHANGED <<m_tasks, notify>>
    /\ UNCHANGED <<task, cbs, drain, idleTerm, kicks, counters, fiberVars,
                   timers, m_pendingEventCount, pipe>>

(* One epoll result, under FdContext::mutex: an event that is no longer    *)
(* registered is skipped, a registered one is triggered, and only then is  *)
(* m_pendingEventCount decremented.                                        *)
TriggerEvent(t) ==
    /\ At(t, "events")
    /\ \E f \in ready[t] :
         /\ ready' = [ready EXCEPT ![t] = @ \ {f}]
         /\ events' = events \ {f}
         /\ IF f \in events
              THEN ScheduleLock(t, FiberTask(f)) /\ Goto(t, "decPending")
              ELSE UNCHANGED <<m_tasks, notify, pc>>
    /\ UNCHANGED <<task, cbs, drain, idleTerm, kicks, counters, fiberVars,
                   timers, m_pendingEventCount, pipe>>

DecPending(t) ==
    /\ At(t, "decPending")
    /\ m_pendingEventCount' = m_pendingEventCount - 1
    /\ Goto(t, "events")
    /\ UNCHANGED <<notify, task, cbs, ready, drain, idleTerm, kicks, m_tasks,
                   counters, fiberVars, timers, events, pipe>>

(* Mutant: m_idleThreadCount-- is missing after idle_fiber->resume().      *)
LeaveIdleUncounted(t) ==
    /\ At(t, "leaveIdle")
    /\ Goto(t, "take")
    /\ UNCHANGED <<notify, task, cbs, ready, drain, idleTerm, kicks, m_tasks,
                   counters, fiberVars, ioVars, pipe>>

IdleYield(t) ==
    /\ At(t, "events")
    /\ t \notin drain
    /\ ready[t] = {}
    /\ Goto(t, "leaveIdle")
    /\ UNCHANGED <<notify, task, cbs, ready, drain, idleTerm, kicks, m_tasks,
                   counters, fiberVars, ioVars, pipe>>

LeaveIdle(t) ==
    /\ At(t, "leaveIdle")
    /\ m_idleThreadCount' = m_idleThreadCount - 1
    /\ Goto(t, "take")
    /\ UNCHANGED <<notify, task, cbs, ready, drain, idleTerm, kicks, m_tasks,
                   m_activeThreadCount, m_stopping, fiberVars, ioVars, pipe>>

-----------------------------------------------------------------------------
(* The owner of the IOManager: scheduleLock, then stop()                   *)

Submit ==
    /\ At(Caller, "main")
    /\ submitted < Cardinality(Fibers)
    /\ submitted' = submitted + 1
    /\ \E thr \in Workers \cup {NoThread} : ScheduleLock(Caller, CbTask(thr))
    /\ UNCHANGED <<pc, task, cbs, ready, drain, idleTerm, kicks, counters,
                   m_state, m_mutex, waits, ioVars, pipe>>

(* Mutant: the loop over m_threadCount has no bound.                       *)
StopTickleUnbounded ==
    /\ At(Caller, "stopTickle")
    /\ kicks' = kicks - 1
    /\ WritePipe
    /\ UNCHANGED <<pc, notify, task, cbs, ready, drain, idleTerm, m_tasks,
                   counters, fiberVars, ioVars>>

StopBegin ==
    /\ At(Caller, "main")
    /\ m_stopping' = TRUE
    /\ kicks' = Cardinality(Pool) + IF UseCaller THEN 1 ELSE 0
    /\ Goto(Caller, "stopTickle")
    /\ UNCHANGED <<notify, task, cbs, ready, drain, idleTerm, m_tasks,
                   m_activeThreadCount, m_idleThreadCount, fiberVars, ioVars,
                   pipe>>

StopTickle ==
    /\ At(Caller, "stopTickle")
    /\ kicks > 0
    /\ kicks' = kicks - 1
    /\ WritePipe
    /\ UNCHANGED <<pc, notify, task, cbs, ready, drain, idleTerm, m_tasks,
                   counters, fiberVars, ioVars>>

(* Mutant: stop() returns without joining the pool threads.                *)
ExitedCaller == pc[Caller] = "exit"

(* m_schedulerFiber->resume(): the caller works too, until run() returns.  *)
StopRun ==
    /\ At(Caller, "stopTickle")
    /\ kicks = 0
    /\ Goto(Caller, IF UseCaller THEN "take" ELSE "exit")
    /\ UNCHANGED <<notify, task, cbs, ready, drain, idleTerm, kicks, m_tasks,
                   counters, fiberVars, ioVars, pipe>>

Exited == \A t \in Threads : pc[t] \in {"exit", "joined"}

StopJoin ==
    /\ At(Caller, "exit")
    /\ Exited
    /\ Goto(Caller, "joined")
    /\ UNCHANGED <<notify, task, cbs, ready, drain, idleTerm, kicks, m_tasks,
                   counters, fiberVars, ioVars, pipe>>

Stopped == pc[Caller] = "joined" /\ UNCHANGED vars

-----------------------------------------------------------------------------
RunStep(t) ==
    \/ Tickle(t)
    \/ TakeTask(t) \/ TakeNothing(t)
    \/ LockFiber(t) \/ NewFiber(t) \/ RunTimerCb(t)
    \/ Resume(t) \/ Yield(t) \/ UnlockFiber(t) \/ DecActive(t)
    \/ Sleep(t) \/ WaitIO(t) \/ Spawn(t) \/ Finish(t)

IdleStep(t) ==
    \/ ExitRun(t) \/ EnterIdle(t)
    \/ CheckTimers(t) \/ CheckEvents(t) \/ CheckTasks(t)
    \/ EpollWait(t)
    \/ \E due \in SUBSET timers : ListExpiredCb(t, due)
    \/ ScheduleCb(t) \/ CbsDone(t)
    \/ DrainPipe(t) \/ TriggerEvent(t) \/ DecPending(t)
    \/ IdleYield(t) \/ LeaveIdle(t)

StopStep == Submit \/ StopBegin \/ StopTickle \/ StopRun \/ StopJoin

Next == (\E t \in Threads : RunStep(t) \/ IdleStep(t)) \/ StopStep \/ Stopped

Spec == Init /\ [][Next]_vars

(* Every thread the operating system runs keeps going: blocked mutexes are *)
(* released, epoll_wait returns within MAX_TIMEOUT, a fiber's code reaches *)
(* its next suspension.  Time passes, so an armed timer is found due by    *)
(* some pass of listExpiredCb.  Nothing is assumed of the fds, nor that    *)
(* the owner of the IOManager ever calls stop().                           *)
Fairness ==
    /\ \A t \in Threads : WF_vars(RunStep(t) \/ IdleStep(t))
    /\ WF_vars(StopTickle \/ StopRun \/ StopJoin)
    /\ \A f \in Fibers : SF_vars(\E t \in Threads :
          \E due \in SUBSET timers : f \in due /\ ListExpiredCb(t, due))

FairSpec == Spec /\ Fairness
-----------------------------------------------------------------------------
(* Properties                                                              *)

TypeOK ==
    /\ pc \in [Threads -> Labels]
    /\ notify \subseteq Threads
    /\ task \in [Threads -> Tasks]
    /\ cbs \in [Threads -> SUBSET Fibers]
    /\ ready \in [Threads -> SUBSET Fibers]
    /\ drain \subseteq Threads
    /\ idleTerm \subseteq Threads
    /\ kicks \in Nat
    /\ m_tasks \in Seq(Tasks)
    /\ m_activeThreadCount \in Int
    /\ m_idleThreadCount \in Int
    /\ m_stopping \in BOOLEAN
    /\ m_state \in [Fibers -> {"NONE", "READY", "RUNNING", "TERM"}]
    /\ m_mutex \in [Fibers -> Threads \cup {NoThread}]
    /\ waits \in [Fibers -> Nat]
    /\ submitted \in Nat
    /\ timers \subseteq Fibers
    /\ events \subseteq Fibers
    /\ m_pendingEventCount \in Int
    /\ pipe \subseteq {"byte", "edge"}

(* Thread t executes on the stack of fiber f, or is about to switch.       *)
OnStack(t, f) == pc[t] \in {"exec", "yield", "unlock"} /\ Cur(t) = f

(* No two threads are on the stack of one fiber: a fiber that is woken     *)
(* (scheduleLock by a timer or an event) before it has yielded is not      *)
(* resumed on a second thread while the first still uses its context.      *)
FiberExclusion ==
    \A t1, t2 \in Threads, f \in Fibers :
        OnStack(t1, f) /\ OnStack(t2, f) => t1 = t2

(* The assertions of the code hold: resume() finds its fiber READY,        *)
(* addEvent() finds the calling fiber RUNNING, yield() RUNNING or TERM.    *)
FiberAsserts ==
    \A t \in Threads :
        /\ pc[t] = "resume" => m_state[Cur(t)] = "READY"
        /\ pc[t] = "exec" => m_state[Cur(t)] = "RUNNING"
        /\ pc[t] = "yield" => m_state[Cur(t)] \in {"RUNNING", "TERM"}

(* The wake-ups of fiber f in flight: its timer, its event registration,   *)
(* an expired callback in idle(), a queued task, a task in a thread's hand.*)
WakeUps(f) ==
    Cardinality({x \in {"timer", "event"} :
                   f \in IF x = "timer" THEN timers ELSE events})
    + Cardinality({t \in Threads : f \in cbs[t]})
    + Cardinality({i \in DOMAIN m_tasks : m_tasks[i].fiber = f})
    + Cardinality({t \in Threads : pc[t] \in {"dispatch", "resume"} /\ Cur(t) = f})

(* Exactly one wake-up is in flight for a fiber that is suspended or about *)
(* to be, none for any other: no fiber is forgotten, none is resumed twice *)
(* for one wait, however timers, events and workers interleave.            *)
OneWakeUp ==
    \A f \in Fibers :
        WakeUps(f) = IF \/ m_state[f] = "READY"
                        \/ /\ m_state[f] = "RUNNING"
                           /\ \E t \in Threads : pc[t] = "yield" /\ Cur(t) = f
                     THEN 1 ELSE 0

ActiveLabels == {"dispatch", "resume", "exec", "yield", "unlock", "dec"}

(* The two atomic counters that stopping() and tickle() decide on are      *)
(* exact: m_activeThreadCount counts the threads between taking a task and *)
(* the end of its execution, m_idleThreadCount those inside idle().        *)
ThreadCountersExact ==
    /\ m_activeThreadCount = Cardinality({t \in Threads : pc[t] \in ActiveLabels})
    /\ m_idleThreadCount = Cardinality({t \in Threads : pc[t] \in IdleLabels})

(* m_pendingEventCount, the other input of stopping(), counts the          *)
(* registered events and the one an idle thread has triggered but not yet  *)
(* subtracted: a fiber never registers an event it is still registered for.*)
PendingExact ==
    m_pendingEventCount =
        Cardinality(events) + Cardinality({t \in Threads : pc[t] = "decPending"})

(* When stop() has joined every thread, the destructor's                   *)
(* assert(stopping()==true) holds: no thread leaves run() while a task is  *)
(* queued or running that no remaining thread would still pick up.         *)
DestructorAssert ==
    pc[Caller] = "joined" =>
        m_stopping /\ m_tasks = <<>> /\ m_activeThreadCount = 0

(* "no timers left and no pending events left with the                     *)
(* Scheduler::stopping()" (IOManager::stopping): when stop() has joined    *)
(* every thread no timer or event is armed and every callback ever given   *)
(* to scheduleLock has run to its end.                                     *)
StopLosesNothing ==
    pc[Caller] = "joined" =>
        /\ timers = {} /\ events = {} /\ m_pendingEventCount = 0
        /\ Cardinality({f \in Fibers : m_state[f] = "TERM"}) = submitted

(* A terminated fiber is never brought back: a late wake-up of a TERM      *)
(* fiber is dropped by the state test in run().                            *)
TermIsFinal ==
    [][\A f \in Fibers : m_state[f] = "TERM" => m_state'[f] = "TERM"]_vars

(* The life of fiber f as FiberLife has it: it waits while its timer or    *)
(* its event is armed, and is ready from then on until it is resumed, also *)
(* while its thread is still on the way to swapcontext.                    *)
Life(f) ==
    IF m_state[f] = "NONE" THEN "new"
    ELSE IF m_state[f] = "TERM" THEN "done"
    ELSE IF f \in timers \cup events THEN "waiting"
    ELSE IF m_state[f] = "READY" \/ (\E t \in Threads : pc[t] = "yield" /\ Cur(t) = f) THEN "ready"
    ELSE "running"

Lives == INSTANCE FiberLife WITH
    life <- [f \in Fibers |-> Life(f)],
    stack <- {f \in Fibers : \E t \in Threads : OnStack(t, f)}

(* The scheduler implements FiberLife: whatever the interleaving of run(), *)
(* idle(), the hooks and stop(), a fiber is resumed on a free stack, only  *)
(* after the timer or event it last waited for has woken it, and once.     *)
ImplementsFiberLife == Lives!Spec

(* A suspended fiber that is not waiting for an fd runs again, unless the  *)
(* whole scheduler is gone first: its timer expires, the callback is       *)
(* scheduled, queued, taken, and the fiber is resumed.  A wake-up lost     *)
(* between the queue scan and idle() only delays it, because epoll_wait    *)
(* returns after MAX_TIMEOUT.                                              *)
WokenFiberRuns ==
    \A f \in Fibers :
        (m_state[f] = "READY" /\ f \notin events)
            ~> (m_state[f] = "RUNNING" \/ pc[Caller] = "joined")

(* A queued task does not stay queued: whatever a pool thread may run is   *)
(* taken, even when its tickle() found no idle thread and was dropped.     *)
(* Fibers pin no task to a thread (Spawn); one pinned to a thread that has *)
(* left run() would stay.                                                  *)
QueueDrains ==
    LET PoolTask == \E i \in DOMAIN m_tasks :
                      m_tasks[i].thread \in Pool \cup {NoThread}
    IN PoolTask ~> ~PoolTask

(* Once called, stop() returns unless fd events keep being pending, given  *)
(* that fibers pin no task to a thread (Spawn).                            *)
StopReturns ==
    <>m_stopping /\ <>[](m_pendingEventCount = 0) => <>(pc[Caller] = "joined")

(* "empty -> all thread is idle -> need to be waken up" (scheduleLock): a  *)
(* task pushed on an empty queue wakes a thread.  Stated as: it never      *)
(* happens that a task is queued, no tickle is owed or in the pipe, and    *)
(* every pool thread sleeps in epoll_wait.                                 *)
QueuedTaskWakesAThread ==
    m_tasks # <<>> /\ notify = {} /\ pc[Caller] = "main"
        /\ (\A t \in Pool : pc[t] = "wait")
      => "edge" \in pipe
=============================================================================
