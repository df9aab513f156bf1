------------------------------- MODULE HookIO -------------------------------
(***************************************************************************)
(* The hooked system calls of CoroutineLibrary/hook.cpp together with the  *)
(* FdManager they consult.  A fiber calls socket, accept, connect, recv,   *)
(* send, close, fcntl, ioctl or setsockopt; a call that would block arms a *)
(* timer, registers the fiber with the IOManager and yields.  The timer's  *)
(* callback, the idle threads with the results of an epoll_wait made       *)
(* earlier, and a close() by another fiber all race to end the wait.       *)
(*                                                                         *)
(* IOManager::addEvent, cancelEvent and cancelAll are one step each here   *)
(* (module IOEvents has their inside), and so is a step of the Timer heap  *)
(* (module TimerManager).  Every FdCtx is that of a socket: only socket()  *)
(* and accept() create one, and nothing ever sets m_isClosed.  All fibers  *)
(* run inside Scheduler::run, which enables the hooks.                     *)
(***************************************************************************)
EXTENDS Naturals, FiniteSets

CONSTANTS
    Fibers,     \* fibers that make system calls
    Fds,        \* file descriptor numbers; a closed one is given out again
    Clients,    \* the numbers that hold a client connection at the start
    Timers,     \* Timer objects with their callback (bounds the ones alive)
    IdleThreads, \* threads inside IOManager::idle()
    MaxCalls,   \* bound on the system calls made (0 calls left ends them)
    NoFiber,    \* the empty EventContext
    NoTimer,    \* the null Timer::ptr
    NoCtx       \* the null FdCtx of m_datas

ASSUME BoundAssumption == MaxCalls \in Nat /\ Clients \subseteq Fds
ASSUME NoValues == /\ NoFiber \notin Fibers
                   /\ NoTimer \notin Timers
                   /\ NoCtx \notin [user: BOOLEAN, timed: SUBSET {"READ", "WRITE"}]

VARIABLES
    \* the kernel
    sock,       \* state of the socket behind each number
    nonblock,   \* numbers whose socket has O_NONBLOCK
    ready,      \* events for which the socket is ready
    interest,   \* what epoll watches for each number
    \* FdManager and IOManager
    fdctx,      \* m_datas: NoCtx, or m_userNonblock and the set timeouts
    waiter,     \* the fiber in the EventContext of each number and event
    timer,      \* each Timer: its state, whose call, which event, call alive
    results,    \* each idle thread: what epoll_wait gave it and it has not handled
    \* the calls in progress
    pc,         \* where each fiber is in its hooked call
    call,       \* its call: function, fd, timeout wanted, Timer
    cancelled,  \* fibers whose call's timer_info::cancelled is ETIMEDOUT
    ret,        \* what the call is about to return
    calls,      \* system calls made so far
    \* history
    fired,      \* fibers the Timer of whose present round has expired
    overdue,    \* fibers the Timer of an earlier round of whose call had expired
    early,      \* fibers whose timeout callback ran cancelEvent before their addEvent
    stale,      \* fibers whose fd was closed since they looked up its FdCtx
    nudged,     \* fibers whose wait in connect ended without its event
    cleared     \* numbers made blocking by ioctl(FIONBIO, 0)

kernel == <<sock, nonblock, ready, interest>>
local == <<pc, call, cancelled, ret>>
history == <<fired, overdue, early, stale, nudged, cleared>>
vars == <<kernel, fdctx, waiter, timer, results, local, calls, history>>

Events == {"READ", "WRITE"}
DoIO == {"accept", "recv", "send"}
Event(op) == IF op \in {"accept", "recv"} THEN "READ" ELSE "WRITE"
Ctxs == [user: BOOLEAN, timed: SUBSET Events]
(* FdCtx::init of a socket; its timeouts are unset, and getTimeout.        *)
NewCtx == [user |-> FALSE, timed |-> {}]
HasTimeout(c, e) == e \in c.timed
NoCall == [op |-> "none", timed |-> FALSE, timer |-> NoTimer]
Labels == {"idle", "try", "raw", "connect", "rawConnect", "arm", "add", "wait", "woken",
           "sockErr", "getCtx", "cancelAll", "del", "closeFd", "return"}

Open(fd) == sock[fd] # "closed"
Free == {fd \in Fds : sock[fd] = "closed"}
Registered(fd) == {e \in Events : waiter[fd][e] # NoFiber}
At(f, l) == pc[f] = l
In(f, fd) == pc[f] # "idle" /\ call[f].fd = fd
Opening(fd) == \E f \in Fibers : At(f, "getCtx") /\ In(f, fd)
Closing(fd) == \E f \in Fibers : pc[f] \in {"cancelAll", "del", "closeFd"} /\ In(f, fd)

Goto(f, l) == pc' = [pc EXCEPT ![f] = l]

Return(f, r) ==
    /\ Goto(f, "return")
    /\ ret' = [ret EXCEPT ![f] = r]

(* A free Timer object holds no callback.                                  *)
FreeTimer == [state |-> "free"]

(* Some numbers hold client connections accepted earlier, with the receive *)
(* timeout that TcpServer::startAccept gives them.                         *)
Init ==
    /\ sock = [fd \in Fds |-> IF fd \in Clients THEN "connected" ELSE "closed"]
    /\ nonblock = Clients
    /\ ready = [fd \in Fds |-> {}]
    /\ interest = [fd \in Fds |-> {}]
    /\ fdctx = [fd \in Fds |-> IF fd \in Clients THEN [user |-> FALSE, timed |-> {"READ"}] ELSE NoCtx]
    /\ waiter = [fd \in Fds |-> [e \in Events |-> NoFiber]]
    /\ timer = [t \in Timers |-> FreeTimer]
    /\ results = [t \in IdleThreads |-> {}]
    /\ pc = [f \in Fibers |-> "idle"]
    /\ call = [f \in Fibers |-> NoCall]
    /\ cancelled = {} /\ fired = {} /\ overdue = {} /\ early = {} /\ stale = {}
    /\ nudged = {} /\ cleared = {}
    /\ ret = [f \in Fibers |-> "none"]
    /\ calls = 0
-----------------------------------------------------------------------------
(* The kernel under the calls.                                             *)

(* Data, a peer or buffer space arrives.                                   *)
BecomeReady(fd, e) ==
    /\ \/ sock[fd] = "connected"
       \/ sock[fd] = "listening" /\ e = "READ"
    /\ e \notin ready[fd]
    /\ ready' = [ready EXCEPT ![fd] = @ \cup {e}]
    /\ UNCHANGED <<sock, nonblock, interest, fdctx, waiter, timer, results, local, history>>

(* A connection attempt ends; a failed one is ready for both events.       *)
ConnectEnds(fd) ==
    /\ sock[fd] = "connecting"
    /\ \/ /\ sock' = [sock EXCEPT ![fd] = "connected"]
          /\ ready' = [ready EXCEPT ![fd] = {"WRITE"}]
       \/ /\ sock' = [sock EXCEPT ![fd] = "failed"]
          /\ ready' = [ready EXCEPT ![fd] = Events]
    /\ UNCHANGED <<nonblock, interest, fdctx, waiter, timer, results, local, history>>

(* bind() and listen(), which are not hooked.                              *)
Listen(fd) ==
    /\ sock[fd] = "new" /\ fdctx[fd] # NoCtx /\ ~Closing(fd)
    /\ sock' = [sock EXCEPT ![fd] = "listening"]
    /\ UNCHANGED <<nonblock, ready, interest, fdctx, waiter, timer, results, local, history>>

(* The original function fails on this socket, or succeeds on it; if       *)
(* neither, it would block.                                                *)
Fails(op, fd) ==
    CASE op = "accept" -> sock[fd] # "listening" \/ (Free = {} /\ "READ" \in ready[fd])
      [] OTHER -> sock[fd] \notin {"connecting", "connected"}
Succeeds(op, fd) == ~Fails(op, fd) /\ sock[fd] # "connecting" /\ Event(op) \in ready[fd]

(* epoll_ctl: ADD wants an open fd that is not watched, MOD and DEL one    *)
(* that is.                                                                *)
CtlAdd(fd) == Open(fd) /\ (Registered(fd) = {} <=> interest[fd] = {})
CtlDel(fd) == Open(fd) /\ interest[fd] # {}
-----------------------------------------------------------------------------
(* Registration with the IOManager.                                        *)

(* Mutant: the EventContext is not reset when its fiber is scheduled.      *)
TriggerKeepsWaiter(fd, es) ==
    LET woken == {waiter[fd][e] : e \in es} IN
    /\ interest' = [interest EXCEPT ![fd] = Registered(fd) \ es]
    /\ pc' = [f \in Fibers |-> IF f \in woken THEN "woken" ELSE pc[f]]
    /\ UNCHANGED waiter

(* A fiber that is triggered is scheduled; it is taken out of its          *)
(* EventContext.                                                           *)
Trigger(fd, es) ==
    LET woken == {waiter[fd][e] : e \in es} IN
    /\ waiter' = [waiter EXCEPT ![fd] = [e \in Events |-> IF e \in es THEN NoFiber ELSE @[e]]]
    /\ interest' = [interest EXCEPT ![fd] = Registered(fd) \ es]
    /\ pc' = [f \in Fibers |-> IF f \in woken THEN "woken" ELSE pc[f]]

(* A connect() that is waiting is woken without its event.                 *)
Nudge(fs) == nudged \cup {f \in fs : call[f].op = "connect"}

(* What epoll_wait may report of a number it watches: the events asked for *)
(* that the socket is ready for, and a hang-up, which is never asked for,  *)
(* of a socket that has no connection.                                     *)
Reported(fd) ==
    IF interest[fd] = {} THEN {}
    ELSE (ready[fd] \cap interest[fd]) \cup (IF sock[fd] \in {"new", "failed"} THEN {"HUP"} ELSE {})

(* epoll_wait returns to an idle thread, with any of the numbers that have *)
(* something to report (module IOEvents keeps the edge-triggered list).    *)
EpollWait(t) ==
    /\ results[t] = {}
    /\ \E ds \in SUBSET {fd \in Fds : Reported(fd) # {}} \ {{}} :
         results' = [results EXCEPT ![t] = {[fd |-> fd, ev |-> Reported(fd), old |-> FALSE] : fd \in ds}]
    /\ UNCHANGED <<kernel, fdctx, waiter, timer, local, history>>

(* real_events of a result: a hang-up stands for the events registered     *)
(* now, the others are taken as they were reported.                        *)
RealEvents(r) ==
    (IF "HUP" \in r.ev THEN r.ev \cup Registered(r.fd) ELSE r.ev) \cap Events

(* idle() handles one result, however long after it was reported: nobody   *)
(* looks at the socket again, and the number may be that of another one by *)
(* now.  When only some of the events are registered the assert in         *)
(* triggerEvent ends the process (module IOEvents), and this model.        *)
HandleResult(t) ==
    \E r \in results[t] :
        LET real == RealEvents(r) IN
        /\ results' = [results EXCEPT ![t] = @ \ {r}]
        /\ \/ /\ real \cap Registered(r.fd) = {} \/ ~CtlDel(r.fd)
              /\ UNCHANGED <<interest, waiter, pc, nudged>>
           \/ /\ real # {} /\ real \subseteq Registered(r.fd) /\ CtlDel(r.fd)
              /\ Trigger(r.fd, real)
              /\ nudged' = IF r.old THEN Nudge({waiter[r.fd][e] : e \in real}) ELSE nudged
        /\ UNCHANGED <<sock, nonblock, ready, fdctx, timer, call, cancelled, ret,
                       fired, overdue, early, stale, cleared>>

(* The results that are out for a number when a new connection is          *)
(* attempted on it.                                                        *)
Aged(fd) ==
    [t \in IdleThreads |-> {[fd |-> r.fd, ev |-> r.ev, old |-> r.old \/ r.fd = fd] : r \in results[t]}]

(* timer->cancel() of a Timer that has not expired.                        *)
TimerCancelled(f) ==
    [t \in Timers |-> IF t = call[f].timer /\ timer[t].state = "armed" THEN FreeTimer ELSE timer[t]]
-----------------------------------------------------------------------------
(* do_io: accept, read, recv, write, send and their variants.              *)

(* do_io finds the FdCtx; without one, or when the user asked for          *)
(* non-blocking mode, the original function is called and that is all.     *)
Begin(f, op, fd) ==
    LET c == fdctx[fd]
        hooked == c # NoCtx /\ (c = NoCtx \/ ~c.user) IN
    /\ At(f, "idle") /\ Open(fd) /\ ~Opening(fd)
    /\ Goto(f, IF hooked THEN "try" ELSE "raw")
    /\ call' = [call EXCEPT ![f] = [op |-> op, fd |-> fd, timer |-> NoTimer,
                                    timed |-> hooked /\ HasTimeout(c, Event(op))]]
    /\ UNCHANGED <<kernel, fdctx, waiter, timer, results, cancelled, ret, history>>

(* The original function succeeds and may have taken all there was.        *)
Done(f) ==
    LET fd == call[f].fd IN
    \E r \in {ready[fd], ready[fd] \ {Event(call[f].op)}} :
        /\ Succeeds(call[f].op, fd)
        /\ ready' = [ready EXCEPT ![fd] = r]
        /\ Return(f, "ok")
        /\ UNCHANGED <<sock, nonblock, interest, fdctx, waiter, timer, results, call, cancelled, history>>

(* accept() takes a connection: the new fd has no O_NONBLOCK and no FdCtx  *)
(* until FdManager::get(fd, true).                                         *)
Accepted(f) ==
    LET lfd == call[f].fd IN
    \E fd \in Free, r \in {ready[lfd], {}} :
        /\ Succeeds("accept", lfd)
        /\ sock' = [sock EXCEPT ![fd] = "connected"]
        /\ ready' = [ready EXCEPT ![fd] = {"WRITE"}, ![lfd] = r]
        /\ nonblock' = nonblock \ {fd}
        /\ call' = [call EXCEPT ![f] = [@ EXCEPT !.fd = fd]]
        /\ stale' = stale \ {f}
        /\ Goto(f, "getCtx")
        /\ UNCHANGED <<interest, fdctx, waiter, timer, results, cancelled, ret, fired, overdue, early, nudged, cleared>>

Finished(f) == IF call[f].op = "accept" THEN Accepted(f) ELSE Done(f)

Failed(f) ==
    /\ Fails(call[f].op, call[f].fd)
    /\ Return(f, "error")
    /\ UNCHANGED <<kernel, fdctx, waiter, timer, results, call, cancelled, history>>

(* fun(fd, ...) under the hook: EAGAIN goes on to wait for the event; a    *)
(* blocking socket that is not ready holds the whole thread here.          *)
Try(f) ==
    LET c == call[f] IN
    /\ At(f, "try")
    /\ \/ Finished(f)
       \/ Failed(f)
       \/ /\ ~Succeeds(c.op, c.fd) /\ ~Fails(c.op, c.fd) /\ c.fd \in nonblock
          /\ Goto(f, "arm")
          /\ UNCHANGED <<kernel, fdctx, waiter, timer, results, call, cancelled, ret, history>>

(* The same call without the hook: EAGAIN is handed to the caller.         *)
RawCall(f) ==
    LET c == call[f] IN
    /\ At(f, "raw")
    /\ \/ Finished(f)
       \/ Failed(f)
       \/ /\ ~Succeeds(c.op, c.fd) /\ ~Fails(c.op, c.fd) /\ c.fd \in nonblock
          /\ Return(f, "again")
          /\ UNCHANGED <<kernel, fdctx, waiter, timer, results, call, cancelled, history>>

(* addConditionTimer, when the call has a timeout.  Every round of do_io   *)
(* has a Timer of its own; they share the call's timer_info.               *)
Arm(f) ==
    LET c == call[f] IN
    /\ At(f, "arm")
    /\ Goto(f, "add")
    /\ \/ ~c.timed /\ UNCHANGED <<timer, call>>
       \/ /\ c.timed
          /\ \E t \in Timers :
                /\ timer[t].state = "free"
                /\ timer' = [timer EXCEPT ![t] = [state |-> "armed", of |-> f, fd |-> c.fd,
                                                  event |-> Event(c.op), alive |-> TRUE]]
                /\ call' = [call EXCEPT ![f].timer = t]
    /\ overdue' = overdue \cup (fired \cap {f})
    /\ fired' = fired \ {f}
    /\ UNCHANGED <<kernel, fdctx, waiter, results, cancelled, ret, early, stale, nudged, cleared>>

(* Mutant: the Timer is not cancelled when addEvent fails.                 *)
AddKeepsTimer(f) ==
    LET c == call[f]
        e == Event(c.op)
        ok == waiter[c.fd][e] = NoFiber /\ CtlAdd(c.fd) IN
    /\ At(f, "add")
    /\ \/ /\ ok
          /\ waiter' = [waiter EXCEPT ![c.fd][e] = f]
          /\ interest' = [interest EXCEPT ![c.fd] = Registered(c.fd) \cup {e}]
          /\ Goto(f, "wait")
          /\ UNCHANGED ret
       \/ ~ok /\ Return(f, "error") /\ UNCHANGED <<waiter, interest>>
    /\ UNCHANGED <<sock, nonblock, ready, fdctx, timer, results, call, cancelled, history>>

(* addEvent: refused when the event is registered or epoll_ctl fails.  The *)
(* Timer is cancelled then; do_io returns -1 and connect_with_timeout goes *)
(* on to SO_ERROR.                                                         *)
Add(f) ==
    LET c == call[f]
        e == Event(c.op)
        ok == waiter[c.fd][e] = NoFiber /\ CtlAdd(c.fd) IN
    /\ At(f, "add")
    /\ \/ /\ ok
          /\ waiter' = [waiter EXCEPT ![c.fd][e] = f]
          /\ interest' = [interest EXCEPT ![c.fd] = Registered(c.fd) \cup {e}]
          /\ Goto(f, "wait")
          /\ UNCHANGED <<timer, ret, nudged>>
       \/ /\ ~ok
          /\ timer' = TimerCancelled(f)
          /\ nudged' = Nudge({f})
          /\ IF c.op = "connect" THEN Goto(f, "sockErr") /\ UNCHANGED ret
                                 ELSE Return(f, "error")
          /\ UNCHANGED <<waiter, interest>>
    /\ call' = IF ok THEN call ELSE [call EXCEPT ![f].timer = NoTimer]
    /\ UNCHANGED <<sock, nonblock, ready, fdctx, results, cancelled, fired, overdue, early, stale, cleared>>

(* Resumed after the yield: cancel the Timer, then look at the flag.       *)
Woken(f) ==
    /\ At(f, "woken")
    /\ timer' = TimerCancelled(f)
    /\ \/ f \in cancelled /\ Return(f, "timeout")
       \/ /\ f \notin cancelled
          /\ Goto(f, IF call[f].op = "connect" THEN "sockErr" ELSE "try")
          /\ UNCHANGED ret
    /\ call' = [call EXCEPT ![f].timer = NoTimer]
    /\ UNCHANGED <<kernel, fdctx, waiter, results, cancelled, history>>

(* The call returns and its timer_info goes: a callback that has not yet   *)
(* locked its weak_ptr finds nothing.                                      *)
EndCall(f) ==
    /\ At(f, "return")
    /\ Goto(f, "idle")
    /\ call' = [call EXCEPT ![f] = NoCall]
    /\ ret' = [ret EXCEPT ![f] = "none"]
    /\ timer' = [t \in Timers |-> IF timer[t].state # "free" /\ timer[t].of = f
                                  THEN [timer[t] EXCEPT !.alive = FALSE] ELSE timer[t]]
    /\ cancelled' = cancelled \ {f}
    /\ fired' = fired \ {f} /\ overdue' = overdue \ {f} /\ early' = early \ {f}
    /\ stale' = stale \ {f} /\ nudged' = nudged \ {f}
    /\ UNCHANGED <<kernel, fdctx, waiter, results, cleared>>
-----------------------------------------------------------------------------
(* The timeout callback of do_io and connect_with_timeout.                 *)

(* listExpiredCb takes the Timer from the heap and its callback is         *)
(* scheduled; cancel() has no effect from here on.                         *)
Expire(t) ==
    /\ timer[t].state = "armed"
    /\ timer' = [timer EXCEPT ![t].state = "queued"]
    /\ fired' = IF timer[t].alive THEN fired \cup {timer[t].of} ELSE fired
    /\ UNCHANGED <<kernel, fdctx, waiter, results, local, overdue, early, stale, nudged, cleared>>

(* winfo.lock() and the test of the flag.                                  *)
CbLock(t) ==
    /\ timer[t].state = "queued"
    /\ timer' = [timer EXCEPT ![t] = IF @.alive /\ @.of \notin cancelled
                                     THEN [@ EXCEPT !.state = "locked"] ELSE FreeTimer]
    /\ UNCHANGED <<kernel, fdctx, waiter, results, local, history>>

(* Mutant: one timer_info per fiber, which outlives the call.              *)
CbFlagAnyCall(t) ==
    /\ timer[t].state = "locked"
    /\ timer' = [timer EXCEPT ![t].state = "flagged"]
    /\ cancelled' = cancelled \cup {timer[t].of}
    /\ UNCHANGED <<kernel, fdctx, waiter, results, pc, call, ret, history>>

(* t->cancelled = ETIMEDOUT, on the timer_info of that very call.          *)
CbFlag(t) ==
    /\ timer[t].state = "locked"
    /\ timer' = [timer EXCEPT ![t].state = "flagged"]
    /\ cancelled' = IF timer[t].alive THEN cancelled \cup {timer[t].of} ELSE cancelled
    /\ UNCHANGED <<kernel, fdctx, waiter, results, pc, call, ret, history>>

(* Mutant: the flag is set and the event is left alone.                    *)
CbCancelNothing(t) ==
    /\ timer[t].state = "flagged"
    /\ timer' = [timer EXCEPT ![t] = FreeTimer]
    /\ UNCHANGED <<kernel, fdctx, waiter, results, local, history>>

(* iom->cancelEvent(fd, event), whoever waits there now.                   *)
CbCancel(t) ==
    LET c == timer[t] IN
    /\ c.state = "flagged"
    /\ timer' = [timer EXCEPT ![t] = FreeTimer]
    /\ \/ /\ c.event \in Registered(c.fd) /\ CtlDel(c.fd)
          /\ Trigger(c.fd, {c.event})
          /\ nudged' = Nudge({waiter[c.fd][c.event]})
       \/ /\ ~(c.event \in Registered(c.fd) /\ CtlDel(c.fd))
          /\ UNCHANGED <<interest, waiter, pc, nudged>>
    /\ early' = IF c.alive /\ pc[c.of] \in {"try", "arm", "add"} THEN early \cup {c.of} ELSE early
    /\ UNCHANGED <<sock, nonblock, ready, fdctx, results, call, cancelled, ret, fired, overdue, stale, cleared>>
-----------------------------------------------------------------------------
(* connect_with_timeout.                                                   *)

(* The FdCtx is looked up; timed is the caller's timeout_ms # -1.          *)
BeginConnect(f, fd, timed) ==
    LET c == fdctx[fd] IN
    /\ At(f, "idle") /\ Open(fd) /\ ~Opening(fd)
    /\ call' = [call EXCEPT ![f] = [op |-> "connect", fd |-> fd, timed |-> timed, timer |-> NoTimer]]
    /\ \/ c = NoCtx /\ Return(f, "error")
       \/ c # NoCtx /\ Goto(f, IF c.user THEN "rawConnect" ELSE "connect") /\ UNCHANGED ret
    /\ UNCHANGED <<kernel, fdctx, waiter, timer, results, cancelled, history>>

(* connect_f: at once, refused, or EINPROGRESS on a non-blocking socket.   *)
Connect(f) ==
    LET fd == call[f].fd IN
    /\ pc[f] \in {"connect", "rawConnect"}
    /\ \/ /\ sock[fd] = "new"
          /\ \/ /\ sock' = [sock EXCEPT ![fd] = "connected"]
                /\ Return(f, "ok")
             \/ /\ sock' = [sock EXCEPT ![fd] = "failed"]
                /\ Return(f, "error")
             \/ /\ fd \in nonblock
                /\ sock' = [sock EXCEPT ![fd] = "connecting"]
                /\ IF At(f, "connect") THEN Goto(f, "arm") /\ UNCHANGED ret ELSE Return(f, "again")
          /\ results' = Aged(fd)
       \/ sock[fd] # "new" /\ Return(f, "error") /\ UNCHANGED <<sock, results>>
    /\ UNCHANGED <<nonblock, ready, interest, fdctx, waiter, timer, call, cancelled, history>>

(* Mutant: the error number is returned instead of -1.                     *)
SockErrReturnsErrno(f) ==
    /\ At(f, "sockErr")
    /\ Return(f, IF sock[call[f].fd] \in {"closed", "failed"} THEN "errno" ELSE "ok")
    /\ UNCHANGED <<kernel, fdctx, waiter, timer, results, call, cancelled, history>>

(* Mutant: only the return value of getsockopt is looked at.               *)
SockErrIgnored(f) ==
    /\ At(f, "sockErr")
    /\ Return(f, IF sock[call[f].fd] = "closed" THEN "error" ELSE "ok")
    /\ UNCHANGED <<kernel, fdctx, waiter, timer, results, call, cancelled, history>>

(* getsockopt(SO_ERROR): no pending error counts as connected.             *)
SockErr(f) ==
    /\ At(f, "sockErr")
    /\ Return(f, IF sock[call[f].fd] \in {"closed", "failed"} THEN "error" ELSE "ok")
    /\ UNCHANGED <<kernel, fdctx, waiter, timer, results, call, cancelled, history>>
-----------------------------------------------------------------------------
(* socket, close and the options.                                          *)

(* socket_f gives out a free number, blocking and without FdCtx.           *)
Socket(f, fd) ==
    /\ At(f, "idle") /\ fd \in Free
    /\ sock' = [sock EXCEPT ![fd] = "new"]
    /\ nonblock' = nonblock \ {fd}
    /\ call' = [call EXCEPT ![f] = [op |-> "socket", fd |-> fd, timed |-> FALSE, timer |-> NoTimer]]
    /\ Goto(f, "getCtx")
    /\ UNCHANGED <<ready, interest, fdctx, waiter, timer, results, cancelled, ret, history>>

(* FdManager::get(fd, true): an FdCtx that is there is kept, else a new    *)
(* one is made and its constructor sets O_NONBLOCK.                        *)
GetCtx(f) ==
    LET fd == call[f].fd IN
    /\ At(f, "getCtx")
    /\ \/ fdctx[fd] # NoCtx /\ UNCHANGED <<fdctx, nonblock>>
       \/ /\ fdctx[fd] = NoCtx
          /\ fdctx' = [fdctx EXCEPT ![fd] = NewCtx]
          /\ nonblock' = nonblock \cup {fd}
    /\ Return(f, "ok")
    /\ UNCHANGED <<sock, ready, interest, waiter, timer, results, call, cancelled, history>>

(* Mutant: close() leaves the FdCtx in m_datas.                            *)
BeginCloseKeepsCtx(f, fd) ==
    /\ At(f, "idle") /\ Open(fd) /\ ~Opening(fd) /\ ~Closing(fd)
    /\ call' = [call EXCEPT ![f] = [op |-> "close", fd |-> fd, timed |-> FALSE, timer |-> NoTimer]]
    /\ Goto(f, "closeFd")
    /\ UNCHANGED <<kernel, fdctx, waiter, timer, results, cancelled, ret, history>>

(* close() looks up the FdCtx; a number is closed once per socket.         *)
BeginClose(f, fd) ==
    /\ At(f, "idle") /\ Open(fd) /\ ~Opening(fd) /\ ~Closing(fd)
    /\ call' = [call EXCEPT ![f] = [op |-> "close", fd |-> fd, timed |-> FALSE, timer |-> NoTimer]]
    /\ Goto(f, IF fdctx[fd] # NoCtx THEN "cancelAll" ELSE "closeFd")
    /\ UNCHANGED <<kernel, fdctx, waiter, timer, results, cancelled, ret, history>>

(* iom->cancelAll(fd) wakes both waiters.                                  *)
CancelAll(f) ==
    LET fd == call[f].fd
        ok == Registered(fd) # {} /\ CtlDel(fd) IN
    /\ At(f, "cancelAll")
    /\ waiter' = IF ok THEN [waiter EXCEPT ![fd] = [e \in Events |-> NoFiber]] ELSE waiter
    /\ interest' = IF ok THEN [interest EXCEPT ![fd] = {}] ELSE interest
    /\ LET woken == IF ok THEN {waiter[fd][e] : e \in Registered(fd)} ELSE {} IN
       /\ pc' = [g \in Fibers |-> IF g = f THEN "del" ELSE IF g \in woken THEN "woken" ELSE pc[g]]
       /\ nudged' = Nudge(woken)
    /\ UNCHANGED <<sock, nonblock, ready, fdctx, timer, results, call, cancelled, ret, fired, overdue, early, stale, cleared>>

(* FdManager::del(fd).                                                     *)
Del(f) ==
    /\ At(f, "del")
    /\ fdctx' = [fdctx EXCEPT ![call[f].fd] = NoCtx]
    /\ Goto(f, "closeFd")
    /\ UNCHANGED <<kernel, waiter, timer, results, call, cancelled, ret, history>>

(* close_f: the kernel forgets the socket and what epoll watched on it.    *)
CloseFd(f) ==
    LET fd == call[f].fd IN
    /\ At(f, "closeFd")
    /\ sock' = [sock EXCEPT ![fd] = "closed"]
    /\ ready' = [ready EXCEPT ![fd] = {}]
    /\ interest' = [interest EXCEPT ![fd] = {}]
    /\ nonblock' = nonblock \ {fd}
    /\ stale' = stale \cup {g \in Fibers \ {f} : In(g, fd)}
    /\ cleared' = cleared \ {fd}
    /\ Return(f, "ok")
    /\ UNCHANGED <<fdctx, waiter, timer, results, call, cancelled, fired, overdue, early, nudged>>

(* Mutant: fcntl(F_SETFL) gives the user's flags to the kernel.            *)
FcntlObeysUser(fd, on) ==
    /\ Open(fd) /\ ~Opening(fd) /\ ~Closing(fd)
    /\ fdctx[fd] # NoCtx
    /\ fdctx' = [fdctx EXCEPT ![fd].user = on]
    /\ nonblock' = IF on THEN nonblock \cup {fd} ELSE nonblock \ {fd}
    /\ UNCHANGED <<sock, ready, interest, waiter, timer, results, local, history>>

(* fcntl(F_SETFL): the user's wish is noted, the socket stays as the       *)
(* system set it.  Without FdCtx, and for every other command, the kernel  *)
(* is asked directly.                                                      *)
Fcntl(fd, on) ==
    /\ Open(fd) /\ ~Opening(fd) /\ ~Closing(fd)
    /\ fdctx[fd] # NoCtx
    /\ fdctx' = [fdctx EXCEPT ![fd].user = on]
    /\ nonblock' = nonblock \cup {fd}
    /\ UNCHANGED <<sock, ready, interest, waiter, timer, results, local, history>>

(* ioctl(FIONBIO): the user's wish is noted and also given to the kernel.  *)
Ioctl(fd, on) ==
    /\ Open(fd) /\ ~Opening(fd) /\ ~Closing(fd)
    /\ fdctx[fd] # NoCtx
    /\ fdctx' = [fdctx EXCEPT ![fd].user = on]
    /\ nonblock' = IF on THEN nonblock \cup {fd} ELSE nonblock \ {fd}
    /\ cleared' = IF on THEN cleared ELSE cleared \cup {fd}
    /\ UNCHANGED <<sock, ready, interest, waiter, timer, results, local, fired, overdue, early, stale, nudged>>

(* setsockopt(SO_RCVTIMEO or SO_SNDTIMEO): any value, 0 too, is a timeout. *)
SetTimeout(fd, e) ==
    /\ Open(fd) /\ ~Opening(fd) /\ ~Closing(fd)
    /\ fdctx[fd] # NoCtx
    /\ fdctx' = [fdctx EXCEPT ![fd].timed = @ \cup {e}]
    /\ UNCHANGED <<kernel, waiter, timer, results, local, history>>
-----------------------------------------------------------------------------
FiberStep(f) ==
    \/ Try(f) \/ RawCall(f) \/ Arm(f) \/ Add(f) \/ Woken(f) \/ EndCall(f)
    \/ Connect(f) \/ SockErr(f) \/ GetCtx(f) \/ CancelAll(f) \/ Del(f) \/ CloseFd(f)

NewCall(f) ==
    \E fd \in Fds :
        \/ \E op \in DoIO : Begin(f, op, fd)
        \/ \E timed \in BOOLEAN : BeginConnect(f, fd, timed)
        \/ Socket(f, fd) \/ BeginClose(f, fd)

TimerStep(t) == Expire(t) \/ CbLock(t) \/ CbFlag(t) \/ CbCancel(t)

Option(fd) ==
    \/ \E on \in BOOLEAN : Fcntl(fd, on) \/ Ioctl(fd, on)
    \/ \E e \in Events : SetTimeout(fd, e)

KernelStep(fd) ==
    \/ Listen(fd) \/ ConnectEnds(fd)
    \/ \E e \in Events : BecomeReady(fd, e)

IdleStep(t) == EpollWait(t) \/ HandleResult(t)

Next ==
    \/ /\ calls < MaxCalls
       /\ calls' = calls + 1
       /\ (\E f \in Fibers : NewCall(f)) \/ (\E fd \in Fds : Option(fd))
    \/ /\ UNCHANGED calls
       /\ \/ \E f \in Fibers : FiberStep(f)
          \/ \E t \in Timers : TimerStep(t)
          \/ \E fd \in Fds : KernelStep(fd)
          \/ \E t \in IdleThreads : IdleStep(t)

Spec == Init /\ [][Next]_vars
-----------------------------------------------------------------------------
(* Properties                                                              *)

CallsInProgress == [op: DoIO \cup {"connect", "socket", "close"}, fd: Fds, timed: BOOLEAN,
                    timer: Timers \cup {NoTimer}]
TimersInUse == [state: {"armed", "queued", "locked", "flagged"}, of: Fibers, fd: Fds,
                event: Events, alive: BOOLEAN]
Results == [fd: Fds, ev: SUBSET (Events \cup {"HUP"}), old: BOOLEAN]

(* Type of the state: the kernel's sockets, m_datas, the EventContexts,    *)
(* the Timers and where each hooked call is.                               *)
TypeOK ==
    /\ sock \in [Fds -> {"closed", "new", "listening", "connecting", "connected", "failed"}]
    /\ nonblock \subseteq Fds /\ cleared \subseteq Fds
    /\ ready \in [Fds -> SUBSET Events]
    /\ interest \in [Fds -> SUBSET Events]
    /\ fdctx \in [Fds -> Ctxs \cup {NoCtx}]
    /\ waiter \in [Fds -> [Events -> Fibers \cup {NoFiber}]]
    /\ timer \in [Timers -> {FreeTimer} \cup TimersInUse]
    /\ results \in [IdleThreads -> SUBSET Results]
    /\ pc \in [Fibers -> Labels]
    /\ call \in [Fibers -> CallsInProgress \cup {NoCall}]
    /\ ret \in [Fibers -> {"none", "ok", "error", "again", "timeout"}]
    /\ calls \in 0..MaxCalls
    /\ {cancelled, fired, overdue, early, stale, nudged} \subseteq SUBSET Fibers

(* ETIMEDOUT is returned only when the Timer of the round that ends has    *)
(* expired, however late the callbacks of earlier calls of the fiber run.  *)
(* The exception: a Timer of an earlier round of do_io expired when its    *)
(* fiber had been woken, too late for cancel(); the rounds share the       *)
(* timer_info, and its callback ends a later round.  connect has one round.*)
TimeoutIsReal ==
    \A f \in Fibers : ret[f] = "timeout" =>
        f \in fired \/ (f \in overdue /\ call[f].op # "connect")

(* A Timer is armed only while its call is between addConditionTimer and   *)
(* timer->cancel(): no return path of do_io or connect_with_timeout        *)
(* leaves a Timer in the heap.                                             *)
NoStrayTimer ==
    \A t \in Timers : timer[t].state = "armed" =>
        LET f == timer[t].of IN
        pc[f] \in {"add", "wait", "woken"} /\ call[f].timer = t /\ timer[t].alive

(* A fiber is suspended in a hooked call exactly while the EventContext of *)
(* its fd and event holds it: no trigger, callback or close() resumes a    *)
(* fiber that is somewhere else, or forgets one that is suspended.         *)
WaiterWaits ==
    \A f \in Fibers, fd \in Fds, e \in Events :
        waiter[fd][e] = f <=> At(f, "wait") /\ call[f].fd = fd /\ Event(call[f].op) = e

(* When the timeout flag of a suspended call is set, its callback is about *)
(* to cancel the event and wake it.  Two calls are missed and wait on: one *)
(* whose callback ran before its addEvent, and one whose number was closed *)
(* meanwhile.                                                              *)
TimeoutReachesWaiter ==
    \A f \in Fibers : At(f, "wait") /\ f \in cancelled =>
        \/ \E t \in Timers : timer[t].state = "flagged" /\ timer[t].of = f /\ timer[t].alive
        \/ f \in early \cup stale

(* A hooked call holds its thread inside the kernel only when the user     *)
(* made the socket blocking with ioctl(FIONBIO, 0), or when the number     *)
(* was closed and given out again after the call looked at its FdCtx.      *)
HookedCallNeverBlocks ==
    \A f \in Fibers : pc[f] \in {"try", "connect"} /\ call[f].fd \notin nonblock =>
        call[f].fd \in cleared \/ f \in stale

(* m_datas mirrors the kernel: an FdCtx belongs to an open socket, and an  *)
(* open socket has one unless it is being created or closed.               *)
CtxMatchesKernel ==
    \A fd \in Fds :
        /\ fdctx[fd] # NoCtx => Open(fd)
        /\ Open(fd) /\ ~Opening(fd) /\ ~Closing(fd) => fdctx[fd] # NoCtx

(* connect() returns 0 for a connection that is not established only when  *)
(* its wait ended without its event (close() or another call's timeout     *)
(* callback cancelled it, addEvent refused it, or it was woken by a result *)
(* that epoll_wait gave before this connection was attempted) or when the  *)
(* number was closed under it.                                             *)
ConnectEstablished ==
    \A f \in Fibers :
        call[f].op = "connect" /\ ret[f] = "ok" /\ sock[call[f].fd] # "connected"
            => f \in nudged \cup stale
=============================================================================
