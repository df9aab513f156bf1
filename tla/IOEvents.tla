------------------------------ MODULE IOEvents ------------------------------
(***************************************************************************)
(* IOManager's event table (ioscheduler.{h,cpp}): addEvent, delEvent,      *)
(* cancelEvent, cancelAll, the part of idle() that handles the results of  *)
(* epoll_wait, and the close() hook, over one epoll instance shared by     *)
(* several idle threads.                                                   *)
(*                                                                         *)
(* An operation finds its FdContext under IOManager::m_mutex, then works   *)
(* on it under FdContext::mutex: two steps, and a third when the table has *)
(* to grow.  The results of epoll_wait are handled one at a time, long     *)
(* after the kernel reported them.  The kernel is edge-triggered.          *)
(***************************************************************************)
EXTENDS Integers, FiniteSets, FiniteSetsExt

CONSTANTS
    Fds,            \* file descriptors
    Fibers,         \* the fibers calling the IOManager
    IdleThreads,    \* threads inside idle()
    InitSize,       \* initial size of m_fdContexts (32 in the constructor)
    MaxContexts,    \* bound: FdContext objects ever created for one fd
    NoFiber

Events == {"READ", "WRITE"}

ASSUME FdsAssumption == Fds \subseteq Nat /\ Fds # {}
ASSUME FibersAssumption == NoFiber \notin Fibers
ASSUME SizeAssumption == InitSize \in Nat /\ InitSize >= 2 /\ MaxContexts \in Nat \ {0}

(* FdContext objects: the n-th one created for its fd.                     *)
Contexts == [fd : Fds, n : 1 .. MaxContexts]
Ctx(fd, n) == [fd |-> fd, n |-> n]

VARIABLES
    size,       \* m_fdContexts.size()
    slot,       \* fd -> n of the context the table holds, 0 if none
    created,    \* fd -> contexts created so far
    events,     \* context -> FdContext::events
    waiter,     \* context, event -> the fiber its EventContext holds
    m_pendingEventCount,
    pc,         \* fiber -> where it is
    arg,        \* fiber -> operation, fd, event and the context found
    results,    \* idle thread -> epoll results it has not handled yet
    aborted,    \* an assert() has failed
    open,       \* kernel: open fds
    level,      \* kernel: fd -> its current readiness
    interest,   \* kernel: fd -> events registered, {} if not in the epoll set
    data,       \* kernel: fd -> epoll_event.data.ptr
    armed,      \* kernel: fds on the epoll ready list
    stranded    \* contexts whose fd was closed with events registered

table == <<size, slot, created>>
ctxVars == <<events, waiter, m_pendingEventCount>>
kernel == <<open, level, interest, data, armed>>
vars == <<table, ctxVars, pc, arg, results, aborted, kernel, stranded>>

Ops == {"add", "del", "cancel", "cancelAll", "close"}
AnyFd == CHOOSE fd \in Fds : TRUE
NoArg == [op |-> "del", event |-> "READ", ctx |-> Ctx(AnyFd, 1)]

Init ==
    /\ size = InitSize
    /\ slot = [fd \in Fds |-> IF fd < InitSize THEN 1 ELSE 0]
    /\ created = slot
    /\ events = [c \in Contexts |-> {}]
    /\ waiter = [c \in Contexts |-> [e \in Events |-> NoFiber]]
    /\ m_pendingEventCount = 0
    /\ pc = [f \in Fibers |-> "run"]
    /\ arg = [f \in Fibers |-> NoArg]
    /\ results = [t \in IdleThreads |-> {}]
    /\ aborted = FALSE
    /\ open = Fds
    /\ level = [fd \in Fds |-> {}]
    /\ interest = [fd \in Fds |-> {}]
    /\ data = [fd \in Fds |-> Ctx(fd, 1)]
    /\ armed = {}
    /\ stranded = {}

At(f, l) == ~aborted /\ pc[f] = l
Goto(f, l) == pc' = [pc EXCEPT ![f] = l]
-----------------------------------------------------------------------------
(* The kernel, as the code uses it                                         *)

(* What epoll_wait reports for fd; EPOLLERR and EPOLLHUP need no interest. *)
Reported(fd) == level[fd] \cap (interest[fd] \cup {"HUP"})

(* epoll_ctl with the op the code chooses from ctx.events: ADD fails when  *)
(* the fd is already in the set, MOD and DEL when it is not, all of them   *)
(* when it is closed.                                                      *)
CtlOk(c) == c.fd \in open /\ (events[c] = {} <=> interest[c.fd] = {})

(* A successful epoll_ctl; ADD and MOD look at the readiness anew.         *)
EpollCtl(c, new) ==
    /\ interest' = [interest EXCEPT ![c.fd] = new]
    /\ data' = [data EXCEPT ![c.fd] = c]
    /\ armed' = IF new = {} THEN armed \ {c.fd}
                ELSE IF level[c.fd] \cap (new \cup {"HUP"}) # {} THEN armed \cup {c.fd}
                ELSE armed
    /\ UNCHANGED <<open, level>>

-----------------------------------------------------------------------------
(* The table of contexts                                                   *)

(* The read-locked lookup of every operation.  Beyond the table addEvent   *)
(* goes on to resize it, the others return false (close() still closes).   *)
Lookup(f) ==
    /\ At(f, "run")
    /\ \E fd \in Fds, op \in Ops, e \in Events :
         /\ op \in {"cancelAll", "close"} => e = "READ"
         /\ op \in {"del", "cancel", "cancelAll"} => fd < size
         /\ op = "close" => fd \in open
         /\ arg' = [arg EXCEPT ![f] =
                      [op |-> op, event |-> e,
                       ctx |-> Ctx(fd, IF fd < size THEN slot[fd] ELSE 1)]]
         /\ Goto(f, IF fd < size THEN "locked"
                    ELSE IF op = "add" THEN "resize" ELSE "close_f")
    /\ UNCHANGED <<table, ctxVars, results, aborted, kernel, stranded>>

(* contextResize(n): slots from n on are dropped, new ones get a context.  *)
Resized(n) ==
    [fd \in Fds |-> IF fd >= n THEN 0
                    ELSE IF slot[fd] = 0 THEN created[fd] + 1 ELSE slot[fd]]

(* Mutant: the table grows to fd, so that its last index is fd - 1.        *)
NewSizeExact(fd) == fd

NewSize(fd) == (fd * 3) \div 2    \* fd * 1.5, truncated

(* addEvent's write-locked part.  The size is not looked at again.         *)
Resize(f) ==
    /\ At(f, "resize")
    /\ LET fd == arg[f].ctx.fd
           n == NewSize(fd)
       IN /\ \A x \in Fds : Resized(n)[x] <= MaxContexts
          /\ size' = n
          /\ slot' = Resized(n)
          /\ created' = [x \in Fds |-> Max({created[x], Resized(n)[x]})]
          /\ arg' = [arg EXCEPT ![f].ctx = Ctx(fd, Resized(n)[fd])]
    /\ Goto(f, "locked")
    /\ UNCHANGED <<ctxVars, results, aborted, kernel, stranded>>

-----------------------------------------------------------------------------
(* The operations, under FdContext::mutex                                  *)

(* Mutant: resetEventContext is forgotten.                                 *)
UnregisterKeepsWaiter(c, evs) ==
    /\ events' = [events EXCEPT ![c] = @ \ evs]
    /\ m_pendingEventCount' = m_pendingEventCount - Cardinality(evs)
    /\ UNCHANGED waiter

(* Mutant: m_pendingEventCount is decremented once, however many events.   *)
UnregisterDecOnce(c, evs) ==
    /\ events' = [events EXCEPT ![c] = @ \ evs]
    /\ waiter' = [waiter EXCEPT ![c] =
                    [e \in Events |-> IF e \in evs THEN NoFiber ELSE @[e]]]
    /\ m_pendingEventCount' = m_pendingEventCount - 1

(* triggerEvent for each event of evs, and the same part of delEvent: the  *)
(* event is removed, its EventContext reset, the counter decremented.      *)
Unregister(c, evs) ==
    /\ events' = [events EXCEPT ![c] = @ \ evs]
    /\ waiter' = [waiter EXCEPT ![c] =
                    [e \in Events |-> IF e \in evs THEN NoFiber ELSE @[e]]]
    /\ m_pendingEventCount' = m_pendingEventCount - Cardinality(evs)

(* The fibers triggerEvent hands to scheduleLock.                          *)
Woken(c, evs) == {waiter[c][e] : e \in evs}

(* Mutant: addEvent registers the new event only.                          *)
NewEventsAlone(c, e) == {e}

(* What addEvent asks the kernel for.                                      *)
NewEvents(c, e) == events[c] \cup {e}

(* addEvent: -1 if the event is already added or epoll_ctl fails, else     *)
(* registered, and the hook yields the fiber.                              *)
AddEvent(f) ==
    /\ At(f, "locked") /\ arg[f].op = "add"
    /\ LET c == arg[f].ctx
           e == arg[f].event
       IN IF e \in events[c] \/ ~CtlOk(c)
            THEN Goto(f, "run") /\ UNCHANGED <<ctxVars, kernel>>
            ELSE /\ EpollCtl(c, NewEvents(c, e))
                 /\ events' = [events EXCEPT ![c] = @ \cup {e}]
                 /\ waiter' = [waiter EXCEPT ![c][e] = f]
                 /\ m_pendingEventCount' = m_pendingEventCount + 1
                 /\ Goto(f, "wait")
    /\ arg' = [arg EXCEPT ![f] = NoArg]
    /\ UNCHANGED <<table, results, aborted, stranded>>

(* delEvent: unregister without waking anyone.                             *)
DelEvent(f) ==
    /\ At(f, "locked") /\ arg[f].op = "del"
    /\ LET c == arg[f].ctx
           e == arg[f].event
       IN IF e \notin events[c] \/ ~CtlOk(c)
            THEN Goto(f, "run") /\ UNCHANGED <<ctxVars, kernel>>
            ELSE /\ EpollCtl(c, events[c] \ {e})
                 /\ Unregister(c, {e})
                 /\ pc' = [pc EXCEPT ![f] = "run", ![waiter[c][e]] = "deleted"]
    /\ arg' = [arg EXCEPT ![f] = NoArg]
    /\ UNCHANGED <<table, results, aborted, stranded>>

(* cancelEvent: unregister and wake the waiting fiber.                     *)
CancelEvent(f) ==
    /\ At(f, "locked") /\ arg[f].op = "cancel"
    /\ LET c == arg[f].ctx
           e == arg[f].event
       IN IF e \notin events[c] \/ ~CtlOk(c)
            THEN Goto(f, "run") /\ UNCHANGED <<ctxVars, kernel>>
            ELSE /\ EpollCtl(c, events[c] \ {e})
                 /\ Unregister(c, {e})
                 /\ pc' = [pc EXCEPT ![f] = "run", ![waiter[c][e]] = "run"]
    /\ arg' = [arg EXCEPT ![f] = NoArg]
    /\ UNCHANGED <<table, results, aborted, stranded>>

(* cancelAll: unregister every event of the fd and wake its fibers.  Also  *)
(* the first half of the close() hook.                                     *)
CancelAll(f) ==
    /\ At(f, "locked") /\ arg[f].op \in {"cancelAll", "close"}
    /\ LET c == arg[f].ctx
           next == IF arg[f].op = "close" THEN "close_f" ELSE "run"
       IN IF events[c] = {} \/ ~CtlOk(c)
            THEN Goto(f, next) /\ UNCHANGED <<ctxVars, kernel>>
            ELSE /\ EpollCtl(c, {})
                 /\ Unregister(c, events[c])
                 /\ pc' = [g \in Fibers |-> IF g = f THEN next
                                            ELSE IF g \in Woken(c, events[c]) THEN "run"
                                            ELSE pc[g]]
    /\ arg' = [arg EXCEPT ![f] = IF @.op = "close" THEN @ ELSE NoArg]
    /\ UNCHANGED <<table, results, aborted, stranded>>

(* close_f: the kernel forgets the fd and drops it from the epoll set.     *)
CloseFd(f) ==
    /\ At(f, "close_f")
    /\ LET fd == arg[f].ctx.fd
       IN /\ open' = open \ {fd}
          /\ level' = [level EXCEPT ![fd] = {}]
          /\ interest' = [interest EXCEPT ![fd] = {}]
          /\ armed' = armed \ {fd}
          /\ stranded' = stranded \cup {c \in Contexts : c.fd = fd /\ events[c] # {}}
    /\ Goto(f, "run")
    /\ arg' = [arg EXCEPT ![f] = NoArg]
    /\ UNCHANGED <<table, ctxVars, results, aborted, data>>

-----------------------------------------------------------------------------
(* idle(): the results of epoll_wait                                       *)

(* epoll_wait: this thread gets the ready list, which is then empty.       *)
EpollWait(t) ==
    /\ ~aborted
    /\ results[t] = {} /\ armed # {}
    /\ results' = [results EXCEPT ![t] =
                     {[ctx |-> data[fd], ev |-> Reported(fd)] :
                         fd \in {x \in armed : Reported(x) # {}}}]
    /\ armed' = {}
    /\ UNCHANGED <<table, ctxVars, pc, arg, aborted, open, level, interest, data,
                   stranded>>

(* Mutant: EPOLLERR and EPOLLHUP are not converted.                        *)
RealEventsNoHup(r) == r.ev \cap Events

(* real_events of a result: EPOLLERR and EPOLLHUP stand for the events     *)
(* registered now, EPOLLIN and EPOLLOUT are taken as they were reported.   *)
RealEvents(r) ==
    (IF "HUP" \in r.ev THEN r.ev \cup events[r.ctx] ELSE r.ev) \cap Events

(* One result of epoll_wait.  Each of the real_events is triggered; the    *)
(* assert in triggerEvent aborts the process if one is not registered.     *)
HandleResult(t) ==
    /\ ~aborted
    /\ \E r \in results[t] :
         /\ results' = [results EXCEPT ![t] = @ \ {r}]
         /\ LET c == r.ctx
                real == RealEvents(r)
                known == real \cap events[c]
            IN IF known = {} \/ ~CtlOk(c)
                 THEN UNCHANGED <<ctxVars, kernel, pc, aborted>>
                 ELSE /\ EpollCtl(c, events[c] \ real)
                      /\ Unregister(c, known)
                      /\ pc' = [g \in Fibers |->
                                  IF g \in Woken(c, known) THEN "run" ELSE pc[g]]
                      /\ aborted' = (real # known)
    /\ UNCHANGED <<table, arg, stranded>>

-----------------------------------------------------------------------------
(* The outside world                                                       *)

(* Data, buffer space or a hang-up arrives.                                *)
BecomeReady(fd, e) ==
    /\ fd \in open /\ e \notin level[fd]
    /\ level' = [level EXCEPT ![fd] = @ \cup {e}]
    /\ armed' = IF interest[fd] # {} /\ e \in interest[fd] \cup {"HUP"}
                  THEN armed \cup {fd} ELSE armed
    /\ UNCHANGED <<table, ctxVars, pc, arg, results, aborted, open, interest, data,
                   stranded>>

(* A running fiber reads or writes until EAGAIN.                           *)
Consume(fd, e) ==
    /\ e \in level[fd]
    /\ \E f \in Fibers : At(f, "run")
    /\ level' = [level EXCEPT ![fd] = @ \ {e}]
    /\ UNCHANGED <<table, ctxVars, pc, arg, results, aborted, open, interest, data,
                   armed, stranded>>

(* socket() or accept() returns the number of a closed fd.                 *)
Reopen(fd) ==
    /\ fd \notin open
    /\ open' = open \cup {fd}
    /\ UNCHANGED <<table, ctxVars, pc, arg, results, aborted, level, interest, data,
                   armed, stranded>>

FiberStep(f) ==
    \/ Lookup(f) \/ Resize(f)
    \/ AddEvent(f) \/ DelEvent(f) \/ CancelEvent(f) \/ CancelAll(f) \/ CloseFd(f)

IdleStep(t) == EpollWait(t) \/ HandleResult(t)

WorldStep(fd) ==
    \/ \E e \in Events \cup {"HUP"} : BecomeReady(fd, e)
    \/ \E e \in Events : Consume(fd, e)
    \/ Reopen(fd)

Aborted == aborted /\ UNCHANGED vars

Next ==
    \/ \E f \in Fibers : FiberStep(f)
    \/ \E t \in IdleThreads : IdleStep(t)
    \/ \E fd \in Fds : WorldStep(fd)
    \/ Aborted

Spec == Init /\ [][Next]_vars
-----------------------------------------------------------------------------
(* Properties                                                              *)

(* The types of the variables.                                             *)
TypeOK ==
    /\ size \in Nat
    /\ slot \in [Fds -> 0 .. MaxContexts] /\ created \in [Fds -> 0 .. MaxContexts]
    /\ \A fd \in Fds : slot[fd] # 0 <=> fd < size
    /\ events \in [Contexts -> SUBSET Events]
    /\ waiter \in [Contexts -> [Events -> Fibers \cup {NoFiber}]]
    /\ m_pendingEventCount \in Int
    /\ pc \in [Fibers -> {"run", "resize", "locked", "close_f", "wait", "deleted"}]
    /\ arg \in [Fibers -> [op : Ops, event : Events, ctx : Contexts]]
    /\ results \in [IdleThreads ->
                      SUBSET [ctx : Contexts, ev : SUBSET (Events \cup {"HUP"})]]
    /\ aborted \in BOOLEAN
    /\ open \subseteq Fds /\ armed \subseteq Fds
    /\ level \in [Fds -> SUBSET (Events \cup {"HUP"})]
    /\ interest \in [Fds -> SUBSET Events]
    /\ data \in [Fds -> Contexts]
    /\ stranded \subseteq Contexts

(* Every (context, event) pair that is registered.                         *)
Registered == {r \in Contexts \X Events : r[2] \in events[r[1]]}

(* m_pendingEventCount, which keeps stopping() from returning true, is the *)
(* number of registered events, through every mix of add, del, cancel,     *)
(* close and stale epoll results.                                          *)
PendingExact == m_pendingEventCount = Cardinality(Registered)

(* The assert of addEvent and more: an EventContext holds a fiber exactly  *)
(* when its event is registered, that fiber is suspended, and a suspended  *)
(* fiber is held by exactly one EventContext, so it is woken once.         *)
WaiterRegisteredOnce ==
    /\ \A c \in Contexts, e \in Events : waiter[c][e] # NoFiber <=> e \in events[c]
    /\ \A f \in Fibers :
         Cardinality({r \in Registered : waiter[r[1]][r[2]] = f})
           = IF pc[f] = "wait" THEN 1 ELSE 0

(* As long as no fd was closed under a registered event, the kernel's      *)
(* interest in an fd is what the FdContext it points to has registered,    *)
(* and any other context of the fd has none.                               *)
KernelMirrors ==
    stranded = {} =>
        \A fd \in Fds :
            /\ interest[fd] = events[data[fd]]
            /\ \A c \in Contexts : c.fd = fd /\ events[c] # {} => c = data[fd]

(* No edge is lost: while no fd was closed under a registered event, a     *)
(* registered event whose fd is ready or hung up is on the kernel's ready  *)
(* list, or in the results of an idle thread that will wake the fiber with *)
(* it, although the kernel reports every edge to one thread only.          *)
NoLostEdge ==
    stranded = {} /\ ~aborted =>
        \A r \in Registered : \A q \in {r[2], "HUP"} \cap level[r[1].fd] :
            \/ r[1].fd \in armed
            \/ \E t \in IdleThreads : \E x \in results[t] : x.ctx = r[1] /\ q \in x.ev

(* "assert(events & event)" (triggerEvent): idle() triggers only events    *)
(* that are still registered when it handles a result of epoll_wait.       *)
TriggerAssert == ~aborted

(* "store fdcontexts for each fd" (m_fdContexts): the context of a         *)
(* registered event is the one the table holds, so delEvent, cancelEvent   *)
(* and cancelAll find it.                                                  *)
TableHoldsContexts ==
    \A r \in Registered : slot[r[1].fd] = r[1].n
=============================================================================
