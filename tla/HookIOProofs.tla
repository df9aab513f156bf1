---------------------------- MODULE HookIOProofs ----------------------------
(***************************************************************************)
(* Proofs about the hooked system calls of module HookIO, for any sets of  *)
(* fibers, descriptor numbers, Timers and idle threads.                    *)
(*                                                                         *)
(* The inductive invariant IInv is the conjunction of the properties       *)
(* themselves and of nine facts they rest on:                              *)
(*   CallShape  the record of a call agrees with the label the call is at; *)
(*   OwnedFds   the call that creates or closes a number is alone with it; *)
(*   HookedFds  a hooked call works on an open, non-blocking socket;       *)
(*   Watched    epoll watches for the event of a suspended fiber;          *)
(*   LiveTimers the Timers of a call in progress are about its wait;       *)
(*   Expired    only expired Timers of the call set its timeout flag;      *)
(*   Reaching   a flag that is set has its callback still to come;         *)
(*   Reports    an epoll result tells of this connection attempt, or is    *)
(*              marked old;                                                *)
(*   Connected  a connect that saw its event has the result of it.         *)
(* Types (which contains WaiterWaits) is inductive by itself; the others   *)
(* are shown preserved in any step from IInv.                              *)
(*                                                                         *)
(* Several actions update a field of a record inside a function.  For each *)
(* of these a lemma first rewrites the action into its flat form (ArmForm, *)
(* AddOk, ...), with the new record written out; the preservation proofs   *)
(* use only the flat forms.                                                *)
(***************************************************************************)
EXTENDS HookIO, TLAPS

Closers == {"cancelAll", "del", "closeFd"}
Owners == {"getCtx"} \cup Closers
Hooked == {"try", "connect", "arm", "add", "wait", "woken"}
Waits == {"arm", "add", "wait", "woken"}
Pending == {"try", "arm", "add", "wait"}
Rounds == Pending \cup {"woken"}
Ops == DoIO \cup {"connect", "socket", "close"}
Rets == {"none", "ok", "error", "again", "timeout"}
States == {"armed", "queued", "locked", "flagged"}

(* The record of a call and its result, at a label of the call.            *)
Shape(l, c, r) ==
    /\ IF l = "idle" THEN c = NoCall ELSE c \in CallsInProgress
    /\ l \in {"try", "raw"} => c.op \in DoIO
    /\ l \in {"connect", "rawConnect", "sockErr"} => c.op = "connect"
    /\ l \in Waits => c.op \in DoIO \cup {"connect"}
    /\ l = "getCtx" => c.op \in {"socket", "accept"}
    /\ l \in Closers => c.op = "close"
    /\ l # "return" => r = "none"

CallShape == \A f \in Fibers : Shape(pc[f], call[f], ret[f])

Types == TypeOK /\ CallShape /\ WaiterWaits

(* A number being created or closed is open and belongs to one call; when  *)
(* close_f is due the FdCtx is gone.                                       *)
OwnedFds ==
    /\ \A f \in Fibers : pc[f] \in Owners => Open(call[f].fd)
    /\ \A f, g \in Fibers :
            f # g /\ pc[f] \in Owners /\ pc[g] \in Owners => call[f].fd # call[g].fd
    /\ \A f \in Fibers : pc[f] = "closeFd" => fdctx[call[f].fd] = NoCtx

(* FdCtx's constructor made the socket non-blocking, and only ioctl undid  *)
(* it; the same holds of the socket a hooked call works on.                *)
HookedFds ==
    /\ \A fd \in Fds : fdctx[fd] # NoCtx => fd \in nonblock \cup cleared
    /\ \A f \in Fibers : pc[f] \in Hooked /\ f \notin stale =>
            Open(call[f].fd) /\ call[f].fd \in nonblock \cup cleared

(* The event of a suspended fiber is watched, unless its number was closed.*)
Watched ==
    \A f \in Fibers : pc[f] = "wait" /\ f \notin stale => Event(call[f].op) \in interest[call[f].fd]

(* A live Timer is that of a call which has begun to wait, and while the   *)
(* call is in a round of waiting the Timer is about its fd and event.      *)
LiveTimers ==
    \A t \in Timers : timer[t].state # "free" /\ timer[t].alive =>
        /\ pc[timer[t].of] \notin {"idle", "connect"}
        /\ pc[timer[t].of] \in Rounds => /\ timer[t].fd = call[timer[t].of].fd
                                        /\ timer[t].event = Event(call[timer[t].of].op)

(* A callback under way for a live call, a set flag, and so a timeout that *)
(* is returned, mean an expiry of a Timer of the call: of this round, or   *)
(* of an earlier one, which connect has not.                               *)
Expired ==
    /\ \A t \in Timers : timer[t].state \in {"queued", "locked", "flagged"} /\ timer[t].alive
            => timer[t].of \in fired \cup overdue
    /\ cancelled \subseteq fired \cup overdue
    /\ \A f \in Fibers :
          /\ pc[f] \in {"idle", "connect"} \/ (pc[f] = "arm" /\ call[f].op = "connect") => f \notin fired
          /\ pc[f] = "idle" \/ call[f].op = "connect" => f \notin overdue
          /\ ret[f] = "timeout" => f \in cancelled

(* A flag that is set and that its call has not seen yet has its callback  *)
(* still to cancel the event.                                              *)
Reaching ==
    \A f \in Fibers : f \in cancelled /\ pc[f] \in Pending =>
        \/ \E t \in Timers : timer[t].state = "flagged" /\ timer[t].of = f /\ timer[t].alive
        \/ f \in early \cup stale

(* An epoll result says that a socket is writable or hung up only when no  *)
(* attempt is under way, unless it was given before the attempt.           *)
Reports ==
    \A t \in IdleThreads : \A r \in results[t] :
        r.ev \cap {"WRITE", "HUP"} # {} => r.old \/ sock[r.fd] # "connecting"

(* A socket is writable only once its connection attempt has ended; so a   *)
(* connect that made an attempt and was woken by its event finds it ended. *)
Connected ==
    /\ \A fd \in Fds : "WRITE" \in ready[fd] => sock[fd] \in {"connected", "failed"}
    /\ \A f \in Fibers : pc[f] \in {"arm", "add", "wait"} /\ call[f].op = "connect" =>
            f \in stale \/ sock[call[f].fd] \in {"connecting", "connected", "failed"}
    /\ \A f \in Fibers : pc[f] \in {"woken", "sockErr"} /\ call[f].op = "connect" =>
            f \in nudged \cup stale \/ sock[call[f].fd] \in {"connected", "failed"}

IInv ==
    /\ Types /\ NoStrayTimer
    /\ CtxMatchesKernel /\ OwnedFds /\ HookedFds
    /\ Watched
    /\ LiveTimers /\ Expired /\ Reaching
    /\ Reports /\ Connected /\ ConnectEstablished

(* The parts of TypeOK.                                                    *)
LocalTypes == /\ pc \in [Fibers -> Labels]
              /\ call \in [Fibers -> CallsInProgress \cup {NoCall}]
              /\ ret \in [Fibers -> Rets]
KernelTypes == /\ sock \in [Fds -> {"closed", "new", "listening", "connecting", "connected", "failed"}]
               /\ nonblock \subseteq Fds /\ cleared \subseteq Fds
               /\ ready \in [Fds -> SUBSET Events]
               /\ interest \in [Fds -> SUBSET Events]
TableTypes == /\ fdctx \in [Fds -> Ctxs \cup {NoCtx}]
              /\ waiter \in [Fds -> [Events -> Fibers \cup {NoFiber}]]
TimerTypes == timer \in [Timers -> {FreeTimer} \cup TimersInUse]
ResultTypes == results \in [IdleThreads -> SUBSET Results]
SetTypes == {cancelled, fired, overdue, early, stale, nudged} \subseteq SUBSET Fibers

LEMMA TypeParts ==
    TypeOK <=> /\ LocalTypes /\ KernelTypes /\ TableTypes /\ TimerTypes /\ ResultTypes /\ SetTypes
               /\ calls \in 0..MaxCalls
BY DEF TypeOK, LocalTypes, KernelTypes, TableTypes, TimerTypes, ResultTypes, SetTypes, Rets
-----------------------------------------------------------------------------
(* The records.                                                            *)

LEMMA CallFields ==
    ASSUME NEW c \in CallsInProgress
    PROVE  c.op \in Ops /\ c.fd \in Fds /\ c.timed \in BOOLEAN /\ c.timer \in Timers \cup {NoTimer}
BY DEF CallsInProgress, Ops, DoIO

LEMMA CallRecord ==
    ASSUME NEW op \in Ops, NEW fd \in Fds, NEW b \in BOOLEAN, NEW t \in Timers \cup {NoTimer}
    PROVE  [op |-> op, fd |-> fd, timed |-> b, timer |-> t] \in CallsInProgress
BY DEF CallsInProgress, Ops, DoIO

LEMMA CallUpdateTimer ==
    ASSUME NEW c \in CallsInProgress, NEW t \in Timers \cup {NoTimer}
    PROVE  [c EXCEPT !.timer = t] = [op |-> c.op, fd |-> c.fd, timed |-> c.timed, timer |-> t]
BY DEF CallsInProgress

LEMMA CallUpdateFd ==
    ASSUME NEW c \in CallsInProgress, NEW fd \in Fds
    PROVE  [c EXCEPT !.fd = fd] = [op |-> c.op, fd |-> fd, timed |-> c.timed, timer |-> c.timer]
BY DEF CallsInProgress

LEMMA TimerFields ==
    ASSUME NEW c \in TimersInUse
    PROVE  /\ c.state \in States /\ c.of \in Fibers /\ c.fd \in Fds
           /\ c.event \in Events /\ c.alive \in BOOLEAN
BY DEF TimersInUse, States

LEMMA TimerRecord ==
    ASSUME NEW s \in States, NEW f \in Fibers, NEW fd \in Fds, NEW e \in Events, NEW b \in BOOLEAN
    PROVE  [state |-> s, of |-> f, fd |-> fd, event |-> e, alive |-> b] \in TimersInUse
BY DEF TimersInUse, States

LEMMA TimerUpdateState ==
    ASSUME NEW c \in TimersInUse, NEW s
    PROVE  [c EXCEPT !.state = s]
                = [state |-> s, of |-> c.of, fd |-> c.fd, event |-> c.event, alive |-> c.alive]
BY DEF TimersInUse

LEMMA TimerUpdateAlive ==
    ASSUME NEW c \in TimersInUse, NEW b
    PROVE  [c EXCEPT !.alive = b]
                = [state |-> c.state, of |-> c.of, fd |-> c.fd, event |-> c.event, alive |-> b]
BY DEF TimersInUse

LEMMA TimerInUse ==
    ASSUME TypeOK, NEW t \in Timers, timer[t].state # "free"
    PROVE  timer[t] \in TimersInUse
BY DEF TypeOK, FreeTimer

LEMMA CtxUser ==
    ASSUME NEW c \in Ctxs, NEW on \in BOOLEAN
    PROVE  [c EXCEPT !.user = on] \in Ctxs
BY DEF Ctxs

LEMMA CtxTimed ==
    ASSUME NEW c \in Ctxs, NEW e \in Events
    PROVE  [c EXCEPT !.timed = @ \cup {e}] \in Ctxs
BY DEF Ctxs, Events

LEMMA EventType ==
    ASSUME NEW op
    PROVE  Event(op) \in Events
BY DEF Event, Events

LEMMA InCall ==
    ASSUME Types, NEW f \in Fibers, pc[f] # "idle"
    PROVE  /\ call[f] \in CallsInProgress
           /\ call[f].op \in Ops /\ call[f].fd \in Fds /\ call[f].timed \in BOOLEAN
           /\ call[f].timer \in Timers \cup {NoTimer}
BY CallFields DEF Types, CallShape, Shape

(* The update of one field inside a function, as the update of a record.   *)
WithTimer(c, t) == [c EXCEPT !.timer = t]
WithState(c, s) == [c EXCEPT !.state = s]
CallWith(f, t) == [op |-> call[f].op, fd |-> call[f].fd, timed |-> call[f].timed, timer |-> t]
TimerWith(t, s) == [state |-> s, of |-> timer[t].of, fd |-> timer[t].fd,
                    event |-> timer[t].event, alive |-> timer[t].alive]

LEMMA CallSetTimer ==
    ASSUME NEW f \in Fibers, call[f] \in CallsInProgress,
           NEW t \in Timers \cup {NoTimer}, call' = [call EXCEPT ![f].timer = t]
    PROVE  call' = [call EXCEPT ![f] = CallWith(f, t)]
<1>1. WithTimer(call[f], t) = CallWith(f, t)
  BY CallUpdateTimer DEF WithTimer, CallWith
<1>2. call' = [call EXCEPT ![f] = WithTimer(call[f], t)]
  BY Zenon DEF WithTimer
<1> QED BY <1>1, <1>2, Zenon

LEMMA TimerSetState ==
    ASSUME NEW t \in Timers, timer[t] \in TimersInUse, NEW s, timer' = [timer EXCEPT ![t].state = s]
    PROVE  timer' = [timer EXCEPT ![t] = TimerWith(t, s)]
<1>1. WithState(timer[t], s) = TimerWith(t, s)
  BY TimerUpdateState DEF WithState, TimerWith
<1>2. timer' = [timer EXCEPT ![t] = WithState(timer[t], s)]
  BY Zenon DEF WithState
<1> QED BY <1>1, <1>2, Zenon

LEMMA CtxSet ==
    ASSUME TypeOK, NEW fd \in Fds, fdctx[fd] # NoCtx, NEW on \in BOOLEAN, NEW e \in Events,
           \/ fdctx' = [fdctx EXCEPT ![fd].user = on]
           \/ fdctx' = [fdctx EXCEPT ![fd].timed = @ \cup {e}]
    PROVE  /\ fdctx' \in [Fds -> Ctxs \cup {NoCtx}]
           /\ \A d \in Fds : fdctx'[d] = NoCtx <=> fdctx[d] = NoCtx
<1>1. fdctx[fd] \in Ctxs /\ NoCtx \notin Ctxs
  BY NoValues DEF TypeOK, Ctxs, Events
<1>2. PICK c \in Ctxs : fdctx' = [fdctx EXCEPT ![fd] = c]
  <2>1. CASE fdctx' = [fdctx EXCEPT ![fd].user = on]
    BY <1>1, <2>1, CtxUser, Zenon
  <2>2. CASE fdctx' = [fdctx EXCEPT ![fd].timed = @ \cup {e}]
    BY <1>1, <2>2, CtxTimed, Zenon
  <2> QED BY <2>1, <2>2
<1>3. fdctx \in [Fds -> Ctxs \cup {NoCtx}]
  BY DEF TypeOK
<1>4. /\ fdctx' \in [Fds -> Ctxs \cup {NoCtx}]
      /\ fdctx'[fd] = c
      /\ \A d \in Fds \ {fd} : fdctx'[d] = fdctx[d]
  BY <1>2, <1>3
<1> QED BY <1>1, <1>4
-----------------------------------------------------------------------------
(* The flat forms of the actions.                                          *)

ArmForm(f) ==
    /\ pc[f] = "arm" /\ pc' = [pc EXCEPT ![f] = "add"]
    /\ \/ UNCHANGED <<timer, call>>
       \/ \E t \in Timers :
             /\ timer[t].state = "free"
             /\ timer' = [timer EXCEPT ![t] = [state |-> "armed", of |-> f, fd |-> call[f].fd,
                                               event |-> Event(call[f].op), alive |-> TRUE]]
             /\ call' = [call EXCEPT ![f] = CallWith(f, t)]
    /\ overdue' = overdue \cup (fired \cap {f}) /\ fired' = fired \ {f}
    /\ UNCHANGED <<sock, nonblock, ready, interest, fdctx, waiter, cancelled, ret,
                   early, stale, nudged, cleared>>

LEMMA ArmFlat ==
    ASSUME Types, NEW f \in Fibers, Arm(f)
    PROVE  ArmForm(f)
<1>1. call[f] \in CallsInProgress
  BY InCall DEF Arm, At
<1>2. CASE ~call[f].timed
  BY <1>2, Zenon DEF Arm, At, Goto, kernel, history, ArmForm
<1>3. CASE call[f].timed
  <2>1. PICK t \in Timers :
           /\ timer[t].state = "free"
           /\ timer' = [timer EXCEPT ![t] = [state |-> "armed", of |-> f, fd |-> call[f].fd,
                                             event |-> Event(call[f].op), alive |-> TRUE]]
           /\ call' = [call EXCEPT ![f].timer = t]
    BY <1>3, Zenon DEF Arm
  <2>2. call' = [call EXCEPT ![f] = CallWith(f, t)]
    BY <1>1, <2>1, CallSetTimer
  <2> QED BY <2>1, <2>2, Zenon DEF Arm, At, Goto, kernel, history, ArmForm
<1> QED BY <1>2, <1>3

AddOk(f, fd, e) ==
    /\ waiter[fd][e] = NoFiber /\ CtlAdd(fd)
    /\ waiter' = [waiter EXCEPT ![fd] = [waiter[fd] EXCEPT ![e] = f]]
    /\ interest' = [interest EXCEPT ![fd] = Registered(fd) \cup {e}]
    /\ pc' = [pc EXCEPT ![f] = "wait"]
    /\ UNCHANGED <<timer, ret, nudged, call>>

AddRefused(f) ==
    /\ timer' = TimerCancelled(f)
    /\ nudged' = nudged \cup {g \in {f} : call[g].op = "connect"}
    /\ \/ call[f].op = "connect" /\ pc' = [pc EXCEPT ![f] = "sockErr"] /\ ret' = ret
       \/ /\ call[f].op # "connect" /\ pc' = [pc EXCEPT ![f] = "return"]
          /\ ret' = [ret EXCEPT ![f] = "error"]
    /\ call' = [call EXCEPT ![f] = CallWith(f, NoTimer)]
    /\ UNCHANGED <<waiter, interest>>

LEMMA AddFlat ==
    ASSUME Types, NEW f \in Fibers, Add(f)
    PROVE  /\ pc[f] = "add"
           /\ AddOk(f, call[f].fd, Event(call[f].op)) \/ AddRefused(f)
           /\ UNCHANGED <<sock, nonblock, ready, fdctx, cancelled, fired, overdue, early, stale, cleared>>
<1> DEFINE ok == waiter[call[f].fd][Event(call[f].op)] = NoFiber /\ CtlAdd(call[f].fd)
<1>1. call[f] \in CallsInProgress
  BY InCall DEF Add, At
<1>2. CASE ok
  BY <1>2, Zenon DEF Add, At, Goto, AddOk
<1>3. CASE ~ok
  <2>1. call' = [call EXCEPT ![f].timer = NoTimer]
    BY <1>3, Zenon DEF Add
  <2>2. call' = [call EXCEPT ![f] = CallWith(f, NoTimer)]
    BY <1>1, <2>1, CallSetTimer
  <2>3. CASE call[f].op = "connect"
    BY <1>3, <2>2, <2>3, Zenon DEF Add, At, Goto, Return, Nudge, AddRefused
  <2>4. CASE call[f].op # "connect"
    BY <1>3, <2>2, <2>4, Zenon DEF Add, At, Goto, Return, Nudge, AddRefused
  <2> QED BY <2>3, <2>4
<1> QED BY <1>2, <1>3

WokenForm(f) ==
    /\ pc[f] = "woken"
    /\ timer' = TimerCancelled(f)
    /\ \/ /\ f \in cancelled /\ pc' = [pc EXCEPT ![f] = "return"]
          /\ ret' = [ret EXCEPT ![f] = "timeout"]
       \/ /\ f \notin cancelled /\ call[f].op = "connect"
          /\ pc' = [pc EXCEPT ![f] = "sockErr"] /\ ret' = ret
       \/ /\ f \notin cancelled /\ call[f].op # "connect"
          /\ pc' = [pc EXCEPT ![f] = "try"] /\ ret' = ret
    /\ call' = [call EXCEPT ![f] = CallWith(f, NoTimer)]
    /\ UNCHANGED <<sock, nonblock, ready, interest, fdctx, waiter, cancelled,
                   fired, overdue, early, stale, nudged, cleared>>

LEMMA WokenFlat ==
    ASSUME Types, NEW f \in Fibers, Woken(f)
    PROVE  WokenForm(f)
<1>1. call[f] \in CallsInProgress
  BY InCall DEF Woken, At
<1>2. call' = [call EXCEPT ![f] = CallWith(f, NoTimer)]
  BY <1>1, CallSetTimer DEF Woken
<1>3. CASE call[f].op = "connect"
  BY <1>2, <1>3, Zenon DEF Woken, At, Goto, Return, kernel, history, WokenForm
<1>4. CASE call[f].op # "connect"
  BY <1>2, <1>4, Zenon DEF Woken, At, Goto, Return, kernel, history, WokenForm
<1> QED BY <1>3, <1>4

EndCallForm(f) ==
    /\ pc[f] = "return" /\ pc' = [pc EXCEPT ![f] = "idle"]
    /\ call' = [call EXCEPT ![f] = NoCall]
    /\ ret' = [ret EXCEPT ![f] = "none"]
    /\ timer' = [t \in Timers |->
         IF timer[t].state # "free" /\ timer[t].of = f
         THEN [state |-> timer[t].state, of |-> timer[t].of, fd |-> timer[t].fd,
               event |-> timer[t].event, alive |-> FALSE]
         ELSE timer[t]]
    /\ cancelled' = cancelled \ {f} /\ fired' = fired \ {f} /\ overdue' = overdue \ {f}
    /\ early' = early \ {f} /\ stale' = stale \ {f} /\ nudged' = nudged \ {f}
    /\ UNCHANGED <<sock, nonblock, ready, interest, fdctx, waiter, cleared>>

LEMMA EndCallFlat ==
    ASSUME Types, NEW f \in Fibers, EndCall(f)
    PROVE  EndCallForm(f)
<1>1. \A t \in Timers : timer[t].state # "free" =>
        [timer[t] EXCEPT !.alive = FALSE] =
            [state |-> timer[t].state, of |-> timer[t].of, fd |-> timer[t].fd,
             event |-> timer[t].event, alive |-> FALSE]
  BY TimerInUse, TimerUpdateAlive DEF Types
<1>2. timer' = [t \in Timers |->
                IF timer[t].state # "free" /\ timer[t].of = f
                THEN [state |-> timer[t].state, of |-> timer[t].of, fd |-> timer[t].fd,
                      event |-> timer[t].event, alive |-> FALSE]
                ELSE timer[t]]
  BY <1>1, Zenon DEF EndCall
<1> QED BY <1>2, Zenon DEF EndCall, At, Goto, kernel, EndCallForm

ExpireForm(t) ==
    /\ timer[t] \in TimersInUse /\ timer[t].state = "armed"
    /\ timer' = [timer EXCEPT ![t] = TimerWith(t, "queued")]
    /\ fired' = IF timer[t].alive THEN fired \cup {timer[t].of} ELSE fired
    /\ UNCHANGED <<sock, nonblock, ready, interest, fdctx, waiter, pc, call, cancelled, ret,
                   overdue, early, stale, nudged, cleared>>

LEMMA ExpireFlat ==
    ASSUME Types, NEW t \in Timers, Expire(t)
    PROVE  ExpireForm(t)
<1>1. timer[t] \in TimersInUse
  BY TimerInUse DEF Types, Expire
<1>2. timer' = [timer EXCEPT ![t] = TimerWith(t, "queued")]
  BY <1>1, TimerSetState DEF Expire
<1> QED BY <1>1, <1>2, Zenon DEF Expire, kernel, local, ExpireForm

CbLockForm(t) ==
    /\ timer[t] \in TimersInUse /\ timer[t].state = "queued"
    /\ \/ timer' = [timer EXCEPT ![t] = TimerWith(t, "locked")]
       \/ timer' = [timer EXCEPT ![t] = FreeTimer]
    /\ UNCHANGED <<sock, nonblock, ready, interest, fdctx, waiter, pc, call, cancelled, ret,
                   fired, overdue, early, stale, nudged, cleared>>

LEMMA CbLockFlat ==
    ASSUME Types, NEW t \in Timers, CbLock(t)
    PROVE  CbLockForm(t)
<1>1. timer[t] \in TimersInUse
  BY TimerInUse DEF Types, CbLock
<1>2. WithState(timer[t], "locked") = TimerWith(t, "locked")
  BY <1>1, TimerUpdateState DEF WithState, TimerWith
<1>3. \/ timer' = [timer EXCEPT ![t] = WithState(timer[t], "locked")]
      \/ timer' = [timer EXCEPT ![t] = FreeTimer]
  <2>1. CASE timer[t].alive /\ timer[t].of \notin cancelled
    BY <2>1, Zenon DEF CbLock, WithState
  <2>2. CASE ~(timer[t].alive /\ timer[t].of \notin cancelled)
    BY <2>2, Zenon DEF CbLock
  <2> QED BY <2>1, <2>2
<1> QED BY <1>1, <1>2, <1>3, Zenon DEF CbLock, kernel, local, history, CbLockForm

CbFlagForm(t) ==
    /\ timer[t] \in TimersInUse /\ timer[t].state = "locked"
    /\ timer' = [timer EXCEPT ![t] = TimerWith(t, "flagged")]
    /\ cancelled' = IF timer[t].alive THEN cancelled \cup {timer[t].of} ELSE cancelled
    /\ UNCHANGED <<sock, nonblock, ready, interest, fdctx, waiter, pc, call, ret,
                   fired, overdue, early, stale, nudged, cleared>>

LEMMA CbFlagFlat ==
    ASSUME Types, NEW t \in Timers, CbFlag(t)
    PROVE  CbFlagForm(t)
<1>1. timer[t] \in TimersInUse
  BY TimerInUse DEF Types, CbFlag
<1>2. timer' = [timer EXCEPT ![t] = TimerWith(t, "flagged")]
  BY <1>1, TimerSetState DEF CbFlag
<1> QED BY <1>1, <1>2, Zenon DEF CbFlag, kernel, history, CbFlagForm

DoneForm(f) ==
    /\ \E r \in SUBSET ready[call[f].fd] : ready' = [ready EXCEPT ![call[f].fd] = r]
    /\ pc' = [pc EXCEPT ![f] = "return"] /\ ret' = [ret EXCEPT ![f] = "ok"]
    /\ UNCHANGED <<sock, nonblock, call, stale>>

AcceptedForm(f, fd) ==
    /\ call[f].op = "accept"
    /\ sock[fd] = "closed" /\ sock[call[f].fd] = "listening"
    /\ sock' = [sock EXCEPT ![fd] = "connected"]
    /\ \E r \in SUBSET ready[call[f].fd] :
            ready' = [[ready EXCEPT ![fd] = {"WRITE"}] EXCEPT ![call[f].fd] = r]
    /\ nonblock' = nonblock \ {fd}
    /\ call' = [call EXCEPT ![f] = [op |-> call[f].op, fd |-> fd,
                                    timed |-> call[f].timed, timer |-> call[f].timer]]
    /\ stale' = stale \ {f}
    /\ pc' = [pc EXCEPT ![f] = "getCtx"] /\ ret' = ret

LEMMA FinishedFlat ==
    ASSUME Types, NEW f \in Fibers, pc[f] \in {"try", "raw"}, Finished(f)
    PROVE  /\ DoneForm(f) \/ \E fd \in Fds : AcceptedForm(f, fd)
           /\ UNCHANGED <<interest, fdctx, waiter, timer, cancelled, fired, overdue, early, nudged, cleared>>
<1>1. call[f] \in CallsInProgress
  BY InCall
<1>2. CASE call[f].op # "accept"
  <2>1. PICK r \in {ready[call[f].fd], ready[call[f].fd] \ {Event(call[f].op)}} :
           /\ ready' = [ready EXCEPT ![call[f].fd] = r]
           /\ Return(f, "ok")
           /\ UNCHANGED <<sock, nonblock, interest, fdctx, waiter, timer, call, cancelled, history>>
    BY <1>2, Zenon DEF Finished, Done
  <2>2. r \in SUBSET ready[call[f].fd]
    OBVIOUS
  <2> QED BY <2>1, <2>2, Zenon DEF Return, Goto, history, DoneForm
<1>3. CASE call[f].op = "accept"
  <2>1. PICK fd \in Free, r \in {ready[call[f].fd], {}} :
            /\ Succeeds("accept", call[f].fd)
            /\ sock' = [sock EXCEPT ![fd] = "connected"]
            /\ ready' = [[ready EXCEPT ![fd] = {"WRITE"}] EXCEPT ![call[f].fd] = r]
            /\ nonblock' = nonblock \ {fd}
            /\ call' = [call EXCEPT ![f] = [call[f] EXCEPT !.fd = fd]]
            /\ stale' = stale \ {f}
            /\ Goto(f, "getCtx")
            /\ UNCHANGED <<interest, fdctx, waiter, timer, cancelled, ret, fired, overdue, early, nudged, cleared>>
    BY <1>3, Zenon DEF Finished, Accepted
  <2>2. fd \in Fds /\ sock[fd] = "closed" /\ r \in SUBSET ready[call[f].fd]
    BY DEF Free
  <2>3. sock[call[f].fd] = "listening"
    BY <2>1 DEF Succeeds, Fails
  <2>4. [call[f] EXCEPT !.fd = fd] = [op |-> call[f].op, fd |-> fd,
                                      timed |-> call[f].timed, timer |-> call[f].timer]
    BY <1>1, <2>2, CallUpdateFd
  <2>5. call' = [call EXCEPT ![f] = [op |-> call[f].op, fd |-> fd,
                                     timed |-> call[f].timed, timer |-> call[f].timer]]
    BY <2>1, <2>4, Zenon
  <2> QED BY <1>3, <2>1, <2>2, <2>3, <2>5, Zenon DEF Goto, AcceptedForm
<1> QED BY <1>2, <1>3

(* The waiters of the events es, the set W, are woken.                     *)
TriggerForm(fd, es, W) ==
    /\ fd \in Fds
    /\ \A g \in W : pc[g] = "wait" /\ call[g].fd = fd /\ Event(call[g].op) \in es
    /\ \A g \in Fibers : pc[g] = "wait" /\ call[g].fd = fd /\ Event(call[g].op) \in es => g \in W
    /\ pc' = [g \in Fibers |-> IF g \in W THEN "woken" ELSE pc[g]]
    /\ waiter' = [waiter EXCEPT ![fd] = [e \in Events |-> IF e \in es THEN NoFiber ELSE waiter[fd][e]]]
    /\ interest' = [interest EXCEPT ![fd] = Registered(fd) \ es]

LEMMA TriggerFlat ==
    ASSUME Types, NEW fd \in Fds, NEW es \in SUBSET Events, es \subseteq Registered(fd), Trigger(fd, es)
    PROVE  \E W \in SUBSET Fibers : W = {waiter[fd][e] : e \in es} /\ TriggerForm(fd, es, W)
<1> DEFINE W == {waiter[fd][e] : e \in es}
<1>1. ASSUME NEW e \in es
      PROVE  /\ waiter[fd][e] \in Fibers /\ pc[waiter[fd][e]] = "wait"
             /\ call[waiter[fd][e]].fd = fd /\ Event(call[waiter[fd][e]].op) = e
  <2>1. e \in Events /\ waiter[fd][e] \in Fibers
    BY DEF Types, TypeOK, Registered
  <2> QED BY <2>1 DEF Types, WaiterWaits, At
<1>2. W \in SUBSET Fibers /\ \A g \in W : pc[g] = "wait" /\ call[g].fd = fd /\ Event(call[g].op) \in es
  BY <1>1
<1>3. ASSUME NEW g \in Fibers, pc[g] = "wait", call[g].fd = fd, Event(call[g].op) \in es
      PROVE  g \in W
  <2>1. waiter[fd][Event(call[g].op)] = g
    BY <1>3, EventType DEF Types, WaiterWaits, At
  <2> QED BY <1>3, <2>1
<1>4. /\ pc' = [g \in Fibers |-> IF g \in W THEN "woken" ELSE pc[g]]
      /\ waiter' = [waiter EXCEPT ![fd] = [e \in Events |-> IF e \in es THEN NoFiber ELSE waiter[fd][e]]]
      /\ interest' = [interest EXCEPT ![fd] = Registered(fd) \ es]
  BY Zenon DEF Trigger
<1> HIDE DEF W
<1>5. TriggerForm(fd, es, W)
  BY <1>2, <1>3, <1>4 DEF TriggerForm
<1> QED BY <1>2, <1>5 DEF W

(* What the trigger leaves well typed.                                     *)
LEMMA TriggerTypes ==
    ASSUME Types, NEW fd \in Fds, NEW es \in SUBSET Events, NEW W \in SUBSET Fibers, TriggerForm(fd, es, W)
    PROVE  /\ interest' \in [Fds -> SUBSET Events]
           /\ waiter' \in [Fds -> [Events -> Fibers \cup {NoFiber}]]
<1>1. Registered(fd) \in SUBSET Events
  BY DEF Registered
<1>2. [e \in Events |-> IF e \in es THEN NoFiber ELSE waiter[fd][e]] \in [Events -> Fibers \cup {NoFiber}]
  BY DEF Types, TypeOK
<1> QED BY <1>1, <1>2 DEF TriggerForm, Types, TypeOK

(* All waiters of the number, the set W, are woken, or none is.            *)
CancelAllForm(f, W) ==
    /\ pc[f] = "cancelAll"
    /\ \A g \in W : pc[g] = "wait" /\ call[g].fd = call[f].fd
    /\ pc' = [g \in Fibers |-> IF g = f THEN "del" ELSE IF g \in W THEN "woken" ELSE pc[g]]
    /\ nudged' = nudged \cup {g \in W : call[g].op = "connect"}
    /\ \/ W = {} /\ UNCHANGED <<waiter, interest>>
       \/ /\ waiter' = [waiter EXCEPT ![call[f].fd] = [e \in Events |-> NoFiber]]
          /\ interest' = [interest EXCEPT ![call[f].fd] = {}]
          /\ \A g \in Fibers : pc[g] = "wait" /\ call[g].fd = call[f].fd => g \in W
    /\ interest' \in [Fds -> SUBSET Events]
    /\ UNCHANGED <<sock, nonblock, ready, fdctx, timer, call, cancelled, ret,
                   fired, overdue, early, stale, cleared>>

LEMMA CancelAllFlat ==
    ASSUME Types, NEW f \in Fibers, CancelAll(f)
    PROVE  \E W \in SUBSET (Fibers \ {f}) : CancelAllForm(f, W)
<1> DEFINE fd == call[f].fd
           ok == Registered(fd) # {} /\ CtlDel(fd)
           W == IF ok THEN {waiter[fd][e] : e \in Registered(fd)} ELSE {}
<1>1. pc[f] = "cancelAll" /\ fd \in Fds
  BY InCall DEF CancelAll, At
<1>2. /\ waiter' = IF ok THEN [waiter EXCEPT ![fd] = [e \in Events |-> NoFiber]] ELSE waiter
      /\ interest' = IF ok THEN [interest EXCEPT ![fd] = {}] ELSE interest
      /\ pc' = [g \in Fibers |-> IF g = f THEN "del" ELSE IF g \in W THEN "woken" ELSE pc[g]]
      /\ nudged' = nudged \cup {g \in W : call[g].op = "connect"}
      /\ UNCHANGED <<sock, nonblock, ready, fdctx, timer, call, cancelled, ret,
                     fired, overdue, early, stale, cleared>>
  BY Zenon DEF CancelAll, Nudge
<1> HIDE DEF ok
<1>3. ASSUME NEW e \in Events, waiter[fd][e] # NoFiber
      PROVE  /\ waiter[fd][e] \in Fibers \ {f} /\ pc[waiter[fd][e]] = "wait"
             /\ call[waiter[fd][e]].fd = fd
  BY <1>1, <1>3 DEF Types, TypeOK, WaiterWaits, At
<1>4. W \in SUBSET (Fibers \ {f}) /\ \A g \in W : pc[g] = "wait" /\ call[g].fd = fd
  BY <1>3 DEF Registered
<1>5. ASSUME ok, NEW g \in Fibers, pc[g] = "wait", call[g].fd = fd
      PROVE  g \in W
  <2>1. waiter[fd][Event(call[g].op)] = g
    BY <1>1, <1>5, EventType DEF Types, WaiterWaits, At
  <2>2. Event(call[g].op) \in Registered(fd)
    BY <2>1, EventType, NoValues DEF Registered
  <2> QED BY <1>5, <2>1, <2>2
<1>6. interest' \in [Fds -> SUBSET Events]
  BY <1>1, <1>2 DEF Types, TypeOK
<1>7. \/ W = {} /\ UNCHANGED <<waiter, interest>>
      \/ /\ waiter' = [waiter EXCEPT ![fd] = [e \in Events |-> NoFiber]]
         /\ interest' = [interest EXCEPT ![fd] = {}]
         /\ \A g \in Fibers : pc[g] = "wait" /\ call[g].fd = fd => g \in W
  <2>1. CASE ok BY <2>1, <1>2, <1>5
  <2>2. CASE ~ok BY <2>2, <1>2
  <2> QED BY <2>1, <2>2
<1> HIDE DEF W
<1> QED BY <1>1, <1>2, <1>4, <1>6, <1>7 DEF CancelAllForm

(* cancelEvent from the timeout callback wakes whoever waits, or nobody.   *)
CbCancelForm(t) ==
    /\ timer[t] \in TimersInUse /\ timer[t].state = "flagged"
    /\ timer' = [timer EXCEPT ![t] = FreeTimer]
    /\ \/ \E W \in SUBSET Fibers :
             /\ TriggerForm(timer[t].fd, {timer[t].event}, W)
             /\ nudged' = nudged \cup {h \in W : call[h].op = "connect"}
       \/ /\ ~(timer[t].event \in Registered(timer[t].fd) /\ CtlDel(timer[t].fd))
          /\ UNCHANGED <<interest, waiter, pc, nudged>>
    /\ early' = IF timer[t].alive /\ pc[timer[t].of] \in {"try", "arm", "add"}
                THEN early \cup {timer[t].of} ELSE early
    /\ UNCHANGED <<sock, nonblock, ready, fdctx, call, cancelled, ret, fired, overdue, stale, cleared>>

LEMMA CbCancelFlat ==
    ASSUME Types, NEW t \in Timers, CbCancel(t)
    PROVE  CbCancelForm(t)
<1> DEFINE fd == timer[t].fd
           e == timer[t].event
<1>1. /\ timer[t] \in TimersInUse
      /\ fd \in Fds /\ e \in Events
  BY TimerInUse, TimerFields DEF CbCancel, Types
<1>2. CASE e \in Registered(fd) /\ CtlDel(fd)
  <2>1. Trigger(fd, {e}) /\ nudged' = nudged \cup {h \in {waiter[fd][e]} : call[h].op = "connect"}
    BY <1>2, Zenon DEF CbCancel, Nudge
  <2>2. PICK W \in SUBSET Fibers : W = {waiter[fd][d] : d \in {e}} /\ TriggerForm(fd, {e}, W)
    BY <1>1, <1>2, <2>1, TriggerFlat
  <2>3. nudged' = nudged \cup {h \in W : call[h].op = "connect"}
    BY <2>1, <2>2
  <2> QED BY <1>1, <2>2, <2>3, Zenon DEF CbCancel, CbCancelForm
<1>3. CASE ~(e \in Registered(fd) /\ CtlDel(fd))
  BY <1>1, <1>3, Zenon DEF CbCancel, CbCancelForm
<1> QED BY <1>2, <1>3

(* A result is handled: it is dropped, or it wakes the waiters of its      *)
(* events, and then a writer only when it says that the socket is writable *)
(* or hung up.                                                             *)
HandleForm(t, r) ==
    /\ results' = [results EXCEPT ![t] = results[t] \ {r}]
    /\ \/ UNCHANGED <<interest, waiter, pc, nudged>>
       \/ \E es \in SUBSET Events, W \in SUBSET Fibers :
             /\ TriggerForm(r.fd, es, W)
             /\ "WRITE" \in es => r.ev \cap {"WRITE", "HUP"} # {}
             /\ nudged' = IF r.old THEN nudged \cup {h \in W : call[h].op = "connect"} ELSE nudged
    /\ UNCHANGED <<sock, nonblock, ready, fdctx, timer, call, cancelled, ret,
                   fired, overdue, early, stale, cleared>>

LEMMA HandleFlat ==
    ASSUME Types, NEW t \in IdleThreads, HandleResult(t)
    PROVE  \E r \in results[t] : r \in Results /\ HandleForm(t, r)
<1>1. PICK r \in results[t] :
         /\ results' = [results EXCEPT ![t] = results[t] \ {r}]
         /\ \/ UNCHANGED <<interest, waiter, pc, nudged>>
            \/ /\ RealEvents(r) \subseteq Registered(r.fd)
               /\ Trigger(r.fd, RealEvents(r))
               /\ nudged' = IF r.old THEN Nudge({waiter[r.fd][e] : e \in RealEvents(r)}) ELSE nudged
         /\ UNCHANGED <<sock, nonblock, ready, fdctx, timer, call, cancelled, ret,
                        fired, overdue, early, stale, cleared>>
  BY Zenon DEF HandleResult
<1>2. r \in Results /\ r.fd \in Fds
  BY DEF Types, TypeOK, Results
<1>3. RealEvents(r) \in SUBSET Events /\ ("WRITE" \in RealEvents(r) => r.ev \cap {"WRITE", "HUP"} # {})
  BY DEF RealEvents
<1>4. CASE UNCHANGED <<interest, waiter, pc, nudged>>
  BY <1>1, <1>2, <1>4 DEF HandleForm
<1>5. CASE ~UNCHANGED <<interest, waiter, pc, nudged>>
  <2>1. PICK W \in SUBSET Fibers :
           W = {waiter[r.fd][e] : e \in RealEvents(r)} /\ TriggerForm(r.fd, RealEvents(r), W)
    BY <1>1, <1>2, <1>3, <1>5, TriggerFlat
  <2>2. nudged' = IF r.old THEN nudged \cup {h \in W : call[h].op = "connect"} ELSE nudged
    BY <1>1, <1>5, <2>1, Zenon DEF Nudge
  <2> QED BY <1>1, <1>2, <1>3, <2>1, <2>2, Zenon DEF HandleForm
<1> QED BY <1>4, <1>5

(* The results that epoll_wait gives.                                      *)
EpollWaitForm(t) ==
    /\ \E ds \in SUBSET Fds :
          results' = [results EXCEPT ![t] = {[fd |-> fd, ev |-> Reported(fd), old |-> FALSE] : fd \in ds}]
    /\ UNCHANGED <<sock, nonblock, ready, interest, fdctx, waiter, timer, pc, call, cancelled, ret,
                   fired, overdue, early, stale, nudged, cleared>>

LEMMA EpollWaitFlat ==
    ASSUME NEW t \in IdleThreads, EpollWait(t)
    PROVE  EpollWaitForm(t)
<1>1. PICK ds \in SUBSET {fd \in Fds : Reported(fd) # {}} \ {{}} :
         results' = [results EXCEPT ![t] = {[fd |-> fd, ev |-> Reported(fd), old |-> FALSE] : fd \in ds}]
  BY Zenon DEF EpollWait
<1>2. ds \in SUBSET Fds
  OBVIOUS
<1> QED BY <1>1, <1>2, Zenon DEF EpollWait, EpollWaitForm, kernel, local, history

(* What an idle thread and the last step of a timeout callback do to the   *)
(* fibers: nothing, or some that wait are woken.                           *)
Wakes ==
    \/ UNCHANGED <<interest, waiter, pc>>
    \/ \E fd \in Fds, es \in SUBSET Events, W \in SUBSET Fibers : TriggerForm(fd, es, W)

LEMMA WakesMove ==
    ASSUME Types, Wakes, NEW g \in Fibers
    PROVE  pc'[g] = pc[g] \/ (pc[g] = "wait" /\ pc'[g] = "woken")
BY DEF Wakes, TriggerForm

LEMMA CbCancelWakes ==
    ASSUME NEW t \in Timers, CbCancelForm(t)
    PROVE  Wakes
<1>1. timer[t].fd \in Fds /\ {timer[t].event} \in SUBSET Events
  BY TimerFields DEF CbCancelForm
<1> QED BY <1>1, Zenon DEF CbCancelForm, Wakes

LEMMA IdleStepWakes ==
    ASSUME Types, NEW t \in IdleThreads, IdleStep(t)
    PROVE  /\ Wakes
           /\ UNCHANGED <<sock, nonblock, ready, fdctx, timer, call, cancelled, ret,
                          fired, overdue, early, stale, cleared>>
<1>1. CASE EpollWait(t)
  BY <1>1, EpollWaitFlat DEF EpollWaitForm, Wakes
<1>2. CASE HandleResult(t)
  <2>1. PICK r \in results[t] : r \in Results /\ HandleForm(t, r)
    BY <1>2, HandleFlat
  <2>2. r.fd \in Fds
    BY <2>1 DEF Results
  <2> QED BY <2>1, <2>2, Zenon DEF HandleForm, Wakes
<1> QED BY <1>1, <1>2 DEF IdleStep
-----------------------------------------------------------------------------
(* Types: the state is well typed, the record of a call fits its label.    *)

Step ==
    \/ \E f \in Fibers : NewCall(f) \/ FiberStep(f)
    \/ \E t \in Timers : TimerStep(t)
    \/ \E fd \in Fds : Option(fd) \/ KernelStep(fd)
    \/ \E t \in IdleThreads : IdleStep(t)

LEMMA NextIsStep ==
    ASSUME calls \in 0..MaxCalls, Next
    PROVE  Step /\ calls' \in 0..MaxCalls
<1>1. Step
  BY Zenon DEF Next, Step
<1>2. calls' \in 0..MaxCalls
  BY BoundAssumption DEF Next
<1> QED BY <1>1, <1>2

(* One fiber moves to a label whose shape its call has.                    *)
LEMMA Moves ==
    ASSUME Types, NEW f \in Fibers, NEW l \in Labels, NEW c \in CallsInProgress \cup {NoCall},
           NEW r \in Rets, Shape(l, c, r),
           pc' = [pc EXCEPT ![f] = l], call' = [call EXCEPT ![f] = c], ret' = [ret EXCEPT ![f] = r]
    PROVE  LocalTypes' /\ CallShape'
<1>1. LocalTypes'
  BY DEF Types, TypeOK, Rets, LocalTypes
<1>2. ASSUME NEW g \in Fibers
      PROVE  Shape(pc'[g], call'[g], ret'[g])
  <2>1. CASE g = f
    BY <2>1, Zenon DEF Types, TypeOK
  <2>2. CASE g # f
    BY <2>2 DEF Types, TypeOK, CallShape
  <2> QED BY <2>1, <2>2
<1> QED BY <1>1, <1>2 DEF CallShape

(* The same when the record of the call stays as it is.                    *)
LEMMA MovesOn ==
    ASSUME Types, NEW f \in Fibers, NEW l \in Labels, NEW r \in Rets, Shape(l, call[f], r),
           pc' = [pc EXCEPT ![f] = l], call' = call, ret' = [ret EXCEPT ![f] = r]
    PROVE  LocalTypes' /\ CallShape'
<1>1. call[f] \in CallsInProgress \cup {NoCall} /\ call' = [call EXCEPT ![f] = call[f]]
  BY DEF Types, TypeOK
<1> QED BY <1>1, Moves

LEMMA RetStays ==
    ASSUME Types, NEW f \in Fibers, ret[f] = "none"
    PROVE  ret = [ret EXCEPT ![f] = "none"]
BY DEF Types, TypeOK

LEMMA Returns ==
    ASSUME Types, NEW f \in Fibers, pc[f] # "idle", NEW r \in Rets,
           pc' = [pc EXCEPT ![f] = "return"], call' = call, ret' = [ret EXCEPT ![f] = r]
    PROVE  LocalTypes' /\ CallShape'
<1>1. Shape("return", call[f], r)
  BY InCall DEF Shape, Waits, Closers
<1>2. "return" \in Labels
  BY DEF Labels
<1> QED BY <1>1, <1>2, MovesOn

(* No fiber moves.                                                         *)
LEMMA NoMove ==
    ASSUME Types, UNCHANGED <<pc, call, ret>>
    PROVE  LocalTypes' /\ CallShape'
BY DEF Types, TypeOK, LocalTypes, CallShape, Rets

(* Fibers that wait are woken.                                             *)
LEMMA WakesUp ==
    ASSUME Types, NEW fd \in Fds, NEW es, NEW W \in SUBSET Fibers, TriggerForm(fd, es, W),
           UNCHANGED <<call, ret>>
    PROVE  LocalTypes' /\ CallShape'
<1>1. LocalTypes'
  BY DEF TriggerForm, Types, TypeOK, LocalTypes, Labels, Rets
<1>2. ASSUME NEW g \in Fibers
      PROVE  Shape(pc'[g], call[g], ret[g])
  <2>1. Shape(pc[g], call[g], ret[g])
    BY DEF Types, CallShape
  <2> QED BY <2>1 DEF TriggerForm, Shape, Closers, Waits
<1> QED BY <1>1, <1>2 DEF CallShape

(* Only idle threads touch the epoll results they hold, and a connection   *)
(* attempt that ages them.                                                 *)
LEMMA ResultsStay ==
    ASSUME \/ \E f \in Fibers : NewCall(f) \/ (FiberStep(f) /\ ~Connect(f))
           \/ \E t \in Timers : TimerStep(t)
           \/ \E fd \in Fds : Option(fd) \/ KernelStep(fd)
    PROVE  results' = results
<1>1. ASSUME NEW f \in Fibers, NewCall(f)
      PROVE  results' = results
  BY <1>1 DEF NewCall, Begin, BeginConnect, Socket, BeginClose
<1>2. ASSUME NEW f \in Fibers, FiberStep(f), ~Connect(f)
      PROVE  results' = results
  <2>1. CASE Try(f) \/ RawCall(f)
    BY <2>1 DEF Try, RawCall, Finished, Done, Accepted, Failed
  <2>2. CASE Arm(f) \/ Add(f) \/ Woken(f) \/ EndCall(f)
    BY <2>2 DEF Arm, Add, Woken, EndCall
  <2>3. CASE SockErr(f) \/ GetCtx(f) \/ CancelAll(f) \/ Del(f) \/ CloseFd(f)
    BY <2>3 DEF SockErr, GetCtx, CancelAll, Del, CloseFd
  <2> QED BY <1>2, <2>1, <2>2, <2>3, Zenon DEF FiberStep
<1>3. ASSUME NEW t \in Timers, TimerStep(t)
      PROVE  results' = results
  BY <1>3 DEF TimerStep, Expire, CbLock, CbFlag, CbCancel
<1>4. ASSUME NEW fd \in Fds, Option(fd)
      PROVE  results' = results
  BY <1>4 DEF Option, Fcntl, Ioctl, SetTimeout
<1>5. ASSUME NEW fd \in Fds, KernelStep(fd)
      PROVE  results' = results
  BY <1>5 DEF KernelStep, Listen, ConnectEnds, BecomeReady
<1> QED BY <1>1, <1>2, <1>3, <1>4, <1>5, Zenon

LEMMA ResultFields ==
    ASSUME NEW r \in Results
    PROVE  r.fd \in Fds /\ r.ev \in SUBSET (Events \cup {"HUP"}) /\ r.old \in BOOLEAN
BY DEF Results

LEMMA ResultRecord ==
    ASSUME NEW fd \in Fds, NEW ev \in SUBSET (Events \cup {"HUP"}), NEW b \in BOOLEAN
    PROVE  [fd |-> fd, ev |-> ev, old |-> b] \in Results
BY DEF Results

LEMMA ReportedTypes ==
    ASSUME Types, NEW fd \in Fds
    PROVE  Reported(fd) \in SUBSET (Events \cup {"HUP"})
<1>1. ready[fd] \subseteq Events
  BY DEF Types, TypeOK
<1> QED BY <1>1 DEF Reported

LEMMA StepResults ==
    ASSUME Types, Step
    PROVE  ResultTypes'
<1>1. results \in [IdleThreads -> SUBSET Results]
  BY DEF Types, TypeOK
<1>2. ASSUME NEW f \in Fibers, Connect(f)
      PROVE  ResultTypes'
  <2>1. CASE results' = Aged(call[f].fd)
    <3>1. ASSUME NEW t \in IdleThreads, NEW r \in results[t]
          PROVE  [fd |-> r.fd, ev |-> r.ev, old |-> r.old \/ r.fd = call[f].fd] \in Results
      <4>1. r \in Results
        BY <1>1
      <4>2. (r.old \/ r.fd = call[f].fd) \in BOOLEAN
        OBVIOUS
      <4> QED BY <4>1, <4>2, ResultFields, ResultRecord
    <3> QED BY <2>1, <3>1 DEF Aged, ResultTypes
  <2>2. CASE results' = results
    BY <1>1, <2>2 DEF ResultTypes
  <2> QED BY <1>2, <2>1, <2>2 DEF Connect
<1>3. ASSUME NEW t \in IdleThreads, EpollWait(t)
      PROVE  ResultTypes'
  <2>1. PICK ds \in SUBSET Fds :
           results' = [results EXCEPT ![t] = {[fd |-> fd, ev |-> Reported(fd), old |-> FALSE] : fd \in ds}]
    BY <1>3, EpollWaitFlat, Zenon DEF EpollWaitForm
  <2>2. \A fd \in ds : [fd |-> fd, ev |-> Reported(fd), old |-> FALSE] \in Results
    BY ReportedTypes, ResultRecord
  <2>3. {[fd |-> fd, ev |-> Reported(fd), old |-> FALSE] : fd \in ds} \in SUBSET Results
    BY <2>2
  <2> QED BY <1>1, <2>1, <2>3 DEF ResultTypes
<1>4. ASSUME NEW t \in IdleThreads, HandleResult(t)
      PROVE  ResultTypes'
  BY <1>1, <1>4, HandleFlat DEF HandleForm, ResultTypes
<1>5. CASE results' = results
  BY <1>1, <1>5 DEF ResultTypes
<1>6. ASSUME NEW f \in Fibers, FiberStep(f), ~Connect(f)
      PROVE  results' = results
  BY <1>6, ResultsStay, Zenon
<1>7. ASSUME ~\E f \in Fibers : FiberStep(f), ~\E t \in IdleThreads : IdleStep(t)
      PROVE  results' = results
  BY <1>7, ResultsStay, Zenon DEF Step
<1> QED BY <1>2, <1>3, <1>4, <1>5, <1>6, <1>7, Zenon DEF IdleStep

LEMMA NewCallTypes ==
    ASSUME Types, ResultTypes', calls' \in 0..MaxCalls, NEW f \in Fibers, NewCall(f)
    PROVE  TypeOK' /\ CallShape'
<1>0. ASSUME LocalTypes', CallShape', KernelTypes', UNCHANGED <<fdctx, waiter, timer, cancelled, history>>
      PROVE  TypeOK' /\ CallShape'
  BY <1>0 DEF ResultTypes, history, Types, TypeOK, LocalTypes, KernelTypes, Rets
<1>k. ASSUME UNCHANGED kernel, cleared' = cleared
      PROVE  KernelTypes'
  BY <1>k DEF kernel, KernelTypes, Types, TypeOK
<1>1. ASSUME pc[f] = "idle"
      PROVE  ret[f] = "none" /\ ret = [ret EXCEPT ![f] = "none"]
  BY <1>1, RetStays DEF Types, CallShape, Shape
<1>2. ASSUME NEW fd \in Fds, NEW op \in DoIO, Begin(f, op, fd)
      PROVE  TypeOK' /\ CallShape'
  <2>1. PICK b \in BOOLEAN, l \in {"try", "raw"} :
           /\ pc[f] = "idle" /\ pc' = [pc EXCEPT ![f] = l]
           /\ call' = [call EXCEPT ![f] = [op |-> op, fd |-> fd, timed |-> b, timer |-> NoTimer]]
    BY <1>2 DEF Begin, At, Goto
  <2> DEFINE c == [op |-> op, fd |-> fd, timed |-> b, timer |-> NoTimer]
  <2>2. c \in CallsInProgress /\ c.op = op
    BY CallRecord DEF Ops
  <2>3. Shape(l, c, "none") /\ l \in Labels /\ "none" \in Rets
    BY <2>2 DEF Shape, Waits, Closers, Labels, Rets
  <2> HIDE DEF c
  <2>4. LocalTypes' /\ CallShape'
    BY <1>1, <1>2, <2>1, <2>2, <2>3, Moves DEF Begin, c
  <2>5. UNCHANGED <<kernel, fdctx, waiter, timer, cancelled, history>>
    BY <1>2, Zenon DEF Begin
  <2> QED BY <1>0, <1>k, <2>4, <2>5 DEF history
<1>3. ASSUME NEW fd \in Fds, NEW b \in BOOLEAN, BeginConnect(f, fd, b)
      PROVE  TypeOK' /\ CallShape'
  <2> DEFINE c == [op |-> "connect", fd |-> fd, timed |-> b, timer |-> NoTimer]
  <2>1. c \in CallsInProgress /\ c.op = "connect"
    BY CallRecord DEF Ops
  <2>2. pc[f] = "idle" /\ call' = [call EXCEPT ![f] = c]
    BY <1>3 DEF BeginConnect, At
  <2> HIDE DEF c
  <2>u. UNCHANGED <<kernel, fdctx, waiter, timer, cancelled, history>>
    BY <1>3, Zenon DEF BeginConnect
  <2>3. CASE fdctx[fd] = NoCtx
    <3>1. Shape("return", c, "error") /\ "return" \in Labels /\ "error" \in Rets
      BY <2>1 DEF Shape, Waits, Closers, Labels, Rets
    <3>2. LocalTypes' /\ CallShape'
      BY <1>3, <2>1, <2>2, <2>3, <3>1, Moves DEF BeginConnect, Return, Goto
    <3> QED BY <1>0, <1>k, <2>u, <3>2 DEF history
  <2>4. CASE fdctx[fd] # NoCtx
    <3>1. PICK l \in {"connect", "rawConnect"} : pc' = [pc EXCEPT ![f] = l] /\ ret' = ret
      BY <1>3, <2>4 DEF BeginConnect, Goto
    <3>2. Shape(l, c, "none") /\ l \in Labels /\ "none" \in Rets
      BY <2>1 DEF Shape, Waits, Closers, Labels, Rets
    <3>3. LocalTypes' /\ CallShape'
      BY <1>1, <2>1, <2>2, <3>1, <3>2, Moves
    <3> QED BY <1>0, <1>k, <2>u, <3>3 DEF history
  <2> QED BY <2>3, <2>4
<1>4. ASSUME NEW fd \in Fds, Socket(f, fd)
      PROVE  TypeOK' /\ CallShape'
  <2> DEFINE c == [op |-> "socket", fd |-> fd, timed |-> FALSE, timer |-> NoTimer]
  <2>1. c \in CallsInProgress /\ c.op = "socket"
    BY CallRecord DEF Ops
  <2>2. Shape("getCtx", c, "none") /\ "getCtx" \in Labels /\ "none" \in Rets
    BY <2>1 DEF Shape, Waits, Closers, Labels, Rets
  <2>3. pc[f] = "idle" /\ pc' = [pc EXCEPT ![f] = "getCtx"] /\ call' = [call EXCEPT ![f] = c] /\ ret' = ret
    BY <1>4 DEF Socket, At, Goto
  <2> HIDE DEF c
  <2>4. LocalTypes' /\ CallShape'
    BY <1>1, <2>1, <2>2, <2>3, Moves
  <2> QED BY <1>0, <1>4, <2>4 DEF Socket, KernelTypes, Types, TypeOK, history
<1>5. ASSUME NEW fd \in Fds, BeginClose(f, fd)
      PROVE  TypeOK' /\ CallShape'
  <2> DEFINE c == [op |-> "close", fd |-> fd, timed |-> FALSE, timer |-> NoTimer]
  <2>1. c \in CallsInProgress /\ c.op = "close"
    BY CallRecord DEF Ops
  <2>2. PICK l \in {"cancelAll", "closeFd"} :
           pc[f] = "idle" /\ pc' = [pc EXCEPT ![f] = l] /\ call' = [call EXCEPT ![f] = c] /\ ret' = ret
    BY <1>5 DEF BeginClose, At, Goto
  <2>3. Shape(l, c, "none") /\ l \in Labels /\ "none" \in Rets
    BY <2>1 DEF Shape, Waits, Closers, Labels, Rets
  <2> HIDE DEF c
  <2>4. LocalTypes' /\ CallShape'
    BY <1>1, <2>1, <2>2, <2>3, Moves
  <2> QED BY <1>0, <1>5, <2>4 DEF BeginClose, KernelTypes, Types, TypeOK, history, kernel
<1> QED BY <1>2, <1>3, <1>4, <1>5, Zenon DEF NewCall

LEMMA OptionTypes ==
    ASSUME Types, ResultTypes', calls' \in 0..MaxCalls, NEW fd \in Fds, Option(fd)
    PROVE  TypeOK' /\ CallShape'
<1> USE DEF Types, TypeOK, ResultTypes, CallShape, kernel, history, local
<1>1. ASSUME NEW on \in BOOLEAN, Fcntl(fd, on)
      PROVE  TypeOK' /\ CallShape'
  <2>1. fdctx' \in [Fds -> Ctxs \cup {NoCtx}]
    BY <1>1, CtxSet DEF Fcntl, Events
  <2> QED BY <1>1, <2>1 DEF Fcntl
<1>2. ASSUME NEW on \in BOOLEAN, Ioctl(fd, on)
      PROVE  TypeOK' /\ CallShape'
  <2>1. fdctx' \in [Fds -> Ctxs \cup {NoCtx}]
    BY <1>2, CtxSet DEF Ioctl, Events
  <2> QED BY <1>2, <2>1 DEF Ioctl
<1>3. ASSUME NEW e \in Events, SetTimeout(fd, e)
      PROVE  TypeOK' /\ CallShape'
  <2>1. fdctx' \in [Fds -> Ctxs \cup {NoCtx}]
    BY <1>3, CtxSet DEF SetTimeout
  <2> QED BY <1>3, <2>1 DEF SetTimeout
<1> QED BY <1>1, <1>2, <1>3, Zenon DEF Option

LEMMA FiberStepTypes ==
    ASSUME Types, ResultTypes', calls' \in 0..MaxCalls, NEW f \in Fibers, FiberStep(f)
    PROVE  TypeOK' /\ CallShape'
<1>0. ASSUME LocalTypes', CallShape', KernelTypes', TableTypes', TimerTypes', SetTypes'
      PROVE  TypeOK' /\ CallShape'
  BY <1>0 DEF TypeOK, LocalTypes, KernelTypes, TableTypes, TimerTypes, ResultTypes, SetTypes, Rets
<1>1. LocalTypes /\ KernelTypes /\ TableTypes /\ TimerTypes /\ SetTypes
  BY TypeParts DEF Types
<1>2. pc[f] # "idle" => /\ call[f] \in CallsInProgress
                        /\ call[f].fd \in Fds /\ call[f].op \in Ops /\ call[f].timed \in BOOLEAN
                        /\ call[f].timer \in Timers \cup {NoTimer}
  BY InCall
<1>3. Shape(pc[f], call[f], ret[f])
  BY DEF Types, CallShape
<1>4. ret[f] = "none" => ret = [ret EXCEPT ![f] = "none"]
  BY RetStays
<1>5. {"arm", "add", "wait", "getCtx", "sockErr", "try", "idle", "closeFd", "return"} \subseteq Labels
  BY DEF Labels
<1>6. ASSUME pc[f] \in {"try", "raw"}, Finished(f)
      PROVE  TypeOK' /\ CallShape'
  <2>1. UNCHANGED <<interest, fdctx, waiter, timer, cancelled, fired, overdue, early, nudged, cleared>>
    BY <1>6, FinishedFlat
  <2>2. CASE DoneForm(f)
    <3>1. LocalTypes' /\ CallShape'
      BY <1>6, <2>2, Returns DEF DoneForm, Rets
    <3>2. KernelTypes'
      BY <1>1, <1>2, <1>6, <2>1, <2>2 DEF DoneForm, KernelTypes
    <3> QED BY <1>0, <1>1, <2>1, <2>2, <3>1, <3>2 DEF DoneForm, TableTypes, TimerTypes, SetTypes
  <2>3. ASSUME NEW fd \in Fds, AcceptedForm(f, fd)
        PROVE  TypeOK' /\ CallShape'
    <3> DEFINE c == [op |-> call[f].op, fd |-> fd, timed |-> call[f].timed, timer |-> call[f].timer]
    <3>1. c \in CallsInProgress /\ c.op = "accept"
      BY <1>2, <1>6, <2>3, CallRecord DEF AcceptedForm
    <3>2. Shape("getCtx", c, "none") /\ ret[f] = "none" /\ "none" \in Rets
      BY <1>3, <1>6, <3>1 DEF Shape, Closers, Waits, Rets
    <3>3. pc' = [pc EXCEPT ![f] = "getCtx"] /\ call' = [call EXCEPT ![f] = c] /\ ret' = ret
      BY <2>3 DEF AcceptedForm
    <3> HIDE DEF c
    <3>4. LocalTypes' /\ CallShape'
      BY <1>4, <1>5, <3>1, <3>2, <3>3, Moves
    <3>5. KernelTypes'
      BY <1>1, <1>2, <1>6, <2>1, <2>3 DEF AcceptedForm, KernelTypes, Events
    <3> QED BY <1>0, <1>1, <2>1, <2>3, <3>4, <3>5 DEF AcceptedForm, TableTypes, TimerTypes, SetTypes
  <2> QED BY <1>6, <2>2, <2>3, FinishedFlat
<1>7. ASSUME pc[f] \in {"try", "raw"}, Failed(f)
      PROVE  TypeOK' /\ CallShape'
  <2>1. LocalTypes' /\ CallShape'
    BY <1>7, Returns DEF Failed, Return, Goto, Rets
  <2> QED BY <1>0, <1>1, <1>7, <2>1 DEF Failed, kernel, history, KernelTypes, TableTypes, TimerTypes, SetTypes
<1>8. CASE Try(f)
  <2>1. CASE Finished(f) \/ Failed(f)
    BY <1>6, <1>7, <1>8, <2>1 DEF Try, At
  <2>2. CASE ~(Finished(f) \/ Failed(f))
    <3>1. /\ pc[f] = "try" /\ pc' = [pc EXCEPT ![f] = "arm"]
          /\ UNCHANGED <<kernel, fdctx, waiter, timer, call, cancelled, ret, history>>
      BY <1>8, <2>2, Zenon DEF Try, At, Goto
    <3>2. Shape("arm", call[f], "none") /\ ret[f] = "none" /\ "none" \in Rets
      BY <1>3, <3>1 DEF Shape, Waits, Closers, Rets
    <3>3. LocalTypes' /\ CallShape'
      BY <1>4, <1>5, <3>1, <3>2, MovesOn
    <3> QED BY <1>0, <1>1, <3>1, <3>3 DEF kernel, history, KernelTypes, TableTypes, TimerTypes, SetTypes
  <2> QED BY <2>1, <2>2
<1>9. CASE RawCall(f)
  <2>1. CASE Finished(f) \/ Failed(f)
    BY <1>6, <1>7, <1>9, <2>1 DEF RawCall, At
  <2>2. CASE ~(Finished(f) \/ Failed(f))
    <3>1. /\ pc[f] = "raw" /\ pc' = [pc EXCEPT ![f] = "return"] /\ ret' = [ret EXCEPT ![f] = "again"]
          /\ UNCHANGED <<kernel, fdctx, waiter, timer, call, cancelled, history>>
      BY <1>9, <2>2, Zenon DEF RawCall, At, Goto, Return
    <3>2. LocalTypes' /\ CallShape'
      BY <3>1, Returns DEF Rets
    <3> QED BY <1>0, <1>1, <3>1, <3>2 DEF kernel, history, KernelTypes, TableTypes, TimerTypes, SetTypes
  <2> QED BY <2>1, <2>2
<1>10. CASE Arm(f)
  <2>1. ArmForm(f)
    BY <1>10, ArmFlat
  <2>2. pc[f] = "arm" /\ pc' = [pc EXCEPT ![f] = "add"] /\ ret' = ret
    BY <2>1 DEF ArmForm
  <2>3. Shape("add", call[f], "none") /\ ret[f] = "none" /\ "none" \in Rets
    BY <1>3, <2>2 DEF Shape, Waits, Closers, Rets
  <2>4. CASE UNCHANGED <<timer, call>>
    <3>1. LocalTypes' /\ CallShape'
      BY <1>4, <1>5, <2>2, <2>3, <2>4, MovesOn
    <3> QED BY <1>0, <1>1, <2>1, <2>4, <3>1 DEF ArmForm, KernelTypes, TableTypes, TimerTypes, SetTypes
  <2>5. CASE ~UNCHANGED <<timer, call>>
    <3>1. PICK t \in Timers :
             /\ timer' = [timer EXCEPT ![t] = [state |-> "armed", of |-> f, fd |-> call[f].fd,
                                               event |-> Event(call[f].op), alive |-> TRUE]]
             /\ call' = [call EXCEPT ![f] = CallWith(f, t)]
      BY <2>1, <2>5 DEF ArmForm
    <3>2. CallWith(f, t) \in CallsInProgress /\ CallWith(f, t).op = call[f].op
      BY <1>2, <2>2, CallRecord DEF CallWith
    <3>3. Shape("add", CallWith(f, t), "none")
      BY <2>3, <3>2 DEF Shape, Waits, Closers
    <3>4. LocalTypes' /\ CallShape'
      BY <1>4, <1>5, <2>2, <2>3, <3>1, <3>2, <3>3, Moves
    <3>5. TimerTypes'
      BY <1>1, <1>2, <2>2, <3>1, EventType, TimerRecord DEF TimerTypes, States
    <3> QED BY <1>0, <1>1, <2>1, <3>4, <3>5 DEF ArmForm, KernelTypes, TableTypes, SetTypes
  <2> QED BY <2>4, <2>5
<1>11. pc[f] # "idle" => CallWith(f, NoTimer) \in CallsInProgress /\ CallWith(f, NoTimer).op = call[f].op
  BY <1>2, CallRecord DEF CallWith
<1>12. TimerCancelled(f) \in [Timers -> {FreeTimer} \cup TimersInUse]
  BY <1>1 DEF TimerCancelled, TimerTypes
<1>13. CASE Add(f)
  <2>1. /\ pc[f] = "add"
        /\ UNCHANGED <<sock, nonblock, ready, fdctx, cancelled, fired, overdue, early, stale, cleared>>
    BY <1>13, AddFlat
  <2>2. call[f].op \in DoIO \cup {"connect"} /\ ret[f] = "none" /\ "none" \in Rets
    BY <1>3, <2>1 DEF Shape, Waits, Rets
  <2>3. CASE AddOk(f, call[f].fd, Event(call[f].op))
    <3>1. Shape("wait", call[f], "none")
      BY <1>2, <2>1, <2>2 DEF Shape, Waits, Closers
    <3>2. LocalTypes' /\ CallShape'
      BY <1>4, <1>5, <2>2, <2>3, <3>1, MovesOn DEF AddOk
    <3>3. KernelTypes' /\ TableTypes'
      BY <1>1, <1>2, <2>1, <2>3, EventType DEF AddOk, Registered, KernelTypes, TableTypes
    <3> QED BY <1>0, <1>1, <2>1, <2>3, <3>2, <3>3 DEF AddOk, TimerTypes, SetTypes
  <2>4. CASE AddRefused(f)
    <3>1. /\ call[f].op = "connect" => Shape("sockErr", CallWith(f, NoTimer), "none")
          /\ Shape("return", CallWith(f, NoTimer), "error") /\ "error" \in Rets
      BY <1>11, <2>1 DEF Shape, Waits, Closers, Rets
    <3>2. LocalTypes' /\ CallShape'
      BY <1>4, <1>5, <1>11, <2>1, <2>2, <2>4, <3>1, Moves DEF AddRefused
    <3> QED BY <1>0, <1>1, <1>12, <2>1, <2>4, <3>2 DEF AddRefused, KernelTypes, TableTypes, TimerTypes, SetTypes
  <2> QED BY <1>13, <2>3, <2>4, AddFlat
<1>14. CASE Woken(f)
  <2>1. WokenForm(f)
    BY <1>14, WokenFlat
  <2>2. pc[f] = "woken" /\ call[f].op \in DoIO \cup {"connect"} /\ ret[f] = "none" /\ "none" \in Rets
    BY <1>3, <2>1 DEF WokenForm, Shape, Waits, Rets
  <2>3. /\ call[f].op = "connect" => Shape("sockErr", CallWith(f, NoTimer), "none")
        /\ call[f].op # "connect" => Shape("try", CallWith(f, NoTimer), "none")
        /\ Shape("return", CallWith(f, NoTimer), "timeout") /\ "timeout" \in Rets
    BY <1>11, <2>2 DEF Shape, Waits, Closers, Rets
  <2>4. LocalTypes' /\ CallShape'
    BY <1>4, <1>5, <1>11, <2>1, <2>2, <2>3, Moves DEF WokenForm
  <2> QED BY <1>0, <1>1, <1>12, <2>1, <2>4 DEF WokenForm, KernelTypes, TableTypes, TimerTypes, SetTypes
<1>15. CASE EndCall(f)
  <2>1. EndCallForm(f)
    BY <1>15, EndCallFlat
  <2>2. Shape("idle", NoCall, "none") /\ "none" \in Rets
    BY DEF Shape, Waits, Closers, Rets
  <2>3. LocalTypes' /\ CallShape'
    BY <1>5, <2>1, <2>2, Moves DEF EndCallForm
  <2>4. TimerTypes'
    <3>1. \A t \in Timers : timer[t].state # "free" =>
            [state |-> timer[t].state, of |-> timer[t].of, fd |-> timer[t].fd,
             event |-> timer[t].event, alive |-> FALSE] \in TimersInUse
      BY TimerInUse, TimerFields, TimerRecord DEF Types
    <3> QED BY <1>1, <2>1, <3>1 DEF EndCallForm, TimerTypes
  <2> QED BY <1>0, <1>1, <2>1, <2>3, <2>4 DEF EndCallForm, KernelTypes, TableTypes, SetTypes
<1>16. CASE Connect(f)
  <2>1. pc[f] \in {"connect", "rawConnect"} /\ call[f].op = "connect" /\ ret[f] = "none" /\ "none" \in Rets
    BY <1>3, <1>16 DEF Connect, Shape, Rets
  <2>2. Shape("arm", call[f], "none") /\ "arm" \in Labels
    BY <1>2, <2>1 DEF Shape, Waits, Closers, Labels
  <2>3. \/ \E r \in {"ok", "error", "again"} : pc' = [pc EXCEPT ![f] = "return"] /\ ret' = [ret EXCEPT ![f] = r]
        \/ pc' = [pc EXCEPT ![f] = "arm"] /\ ret' = ret
    BY <1>16, Zenon DEF Connect, Return, Goto
  <2>4. call' = call
    BY <1>16 DEF Connect
  <2>5. LocalTypes' /\ CallShape'
    BY <1>4, <2>1, <2>2, <2>3, <2>4, Returns, MovesOn DEF Rets
  <2>6. sock' \in [Fds -> {"closed", "new", "listening", "connecting", "connected", "failed"}]
    BY <1>1, <1>16 DEF Connect, KernelTypes
  <2> QED BY <1>0, <1>1, <1>16, <2>5, <2>6 DEF Connect, KernelTypes, TableTypes, TimerTypes, SetTypes, history
<1>17. CASE SockErr(f)
  <2>1. LocalTypes' /\ CallShape'
    BY <1>17, Returns DEF SockErr, At, Return, Goto, Rets
  <2> QED BY <1>0, <1>1, <1>17, <2>1 DEF SockErr, kernel, history, KernelTypes, TableTypes, TimerTypes, SetTypes
<1>18. CASE GetCtx(f)
  <2>1. LocalTypes' /\ CallShape'
    BY <1>18, Returns DEF GetCtx, At, Return, Goto, Rets
  <2>2. fdctx' \in [Fds -> Ctxs \cup {NoCtx}] /\ nonblock' \subseteq Fds
    <3>1. NewCtx \in Ctxs
      BY DEF NewCtx, Ctxs
    <3> QED BY <1>1, <1>2, <1>18, <3>1 DEF GetCtx, At, KernelTypes, TableTypes
  <2> QED BY <1>0, <1>1, <1>18, <2>1, <2>2 DEF GetCtx, history, KernelTypes, TableTypes, TimerTypes, SetTypes
<1>19. CASE CancelAll(f)
  <2>1. PICK W \in SUBSET (Fibers \ {f}) : CancelAllForm(f, W)
    BY <1>19, CancelAllFlat
  <2>2. ASSUME NEW g \in Fibers
        PROVE  Shape(pc'[g], call[g], ret[g])
    <3>1. Shape(pc[g], call[g], ret[g])
      BY DEF Types, CallShape
    <3> QED BY <2>1, <3>1 DEF CancelAllForm, Shape, Closers, Waits
  <2>3. LocalTypes' /\ CallShape'
    BY <1>1, <2>1, <2>2 DEF CancelAllForm, LocalTypes, Labels, CallShape
  <2>4. KernelTypes' /\ TableTypes' /\ TimerTypes' /\ SetTypes'
    <3>1. KernelTypes' /\ TimerTypes'
      BY <1>1, <2>1 DEF CancelAllForm, KernelTypes, TimerTypes
    <3>2. TableTypes'
      BY <1>1, <1>2, <2>1 DEF CancelAllForm, TableTypes
    <3>3. SetTypes'
      BY <1>1, <2>1 DEF CancelAllForm, SetTypes
    <3> QED BY <3>1, <3>2, <3>3
  <2> QED BY <1>0, <2>3, <2>4
<1>20. CASE Del(f)
  <2>1. Shape("closeFd", call[f], "none") /\ ret[f] = "none" /\ "none" \in Rets
    BY <1>3, <1>20 DEF Del, At, Shape, Waits, Closers, Rets
  <2>2. LocalTypes' /\ CallShape'
    BY <1>4, <1>5, <1>20, <2>1, MovesOn DEF Del, Goto
  <2> QED BY <1>0, <1>1, <1>2, <1>20, <2>2 DEF Del, At, kernel, history, KernelTypes, TableTypes, TimerTypes, SetTypes
<1>21. CASE CloseFd(f)
  <2>1. LocalTypes' /\ CallShape'
    BY <1>21, Returns DEF CloseFd, At, Return, Goto, Rets
  <2>2. KernelTypes' /\ stale' \subseteq Fibers
    BY <1>1, <1>2, <1>21 DEF CloseFd, At, KernelTypes, SetTypes
  <2> QED BY <1>0, <1>1, <1>21, <2>1, <2>2 DEF CloseFd, TableTypes, TimerTypes, SetTypes
<1> QED BY <1>8, <1>9, <1>10, <1>13, <1>14, <1>15, <1>16, <1>17, <1>18, <1>19, <1>20, <1>21, Zenon
        DEF FiberStep

LEMMA TimerStepTypes ==
    ASSUME Types, ResultTypes', calls' \in 0..MaxCalls, NEW t \in Timers, TimerStep(t)
    PROVE  TypeOK' /\ CallShape'
<1>0. ASSUME LocalTypes', CallShape', KernelTypes', TableTypes', TimerTypes', SetTypes'
      PROVE  TypeOK' /\ CallShape'
  BY <1>0 DEF TypeOK, LocalTypes, KernelTypes, TableTypes, TimerTypes, ResultTypes, SetTypes, Rets
<1>1. LocalTypes /\ KernelTypes /\ TableTypes /\ TimerTypes /\ SetTypes
  BY TypeParts DEF Types
<1>2. ASSUME timer[t] \in TimersInUse, NEW s \in States
      PROVE  TimerWith(t, s) \in TimersInUse /\ timer[t].of \in Fibers
  BY <1>2, TimerFields, TimerRecord DEF TimerWith
<1>3. CASE Expire(t)
  <2>1. ExpireForm(t)
    BY <1>3, ExpireFlat
  <2>2. LocalTypes' /\ CallShape'
    BY <2>1, NoMove DEF ExpireForm
  <2>3. TimerTypes' /\ SetTypes'
    BY <1>1, <1>2, <2>1 DEF ExpireForm, TimerTypes, SetTypes, States
  <2> QED BY <1>0, <1>1, <2>1, <2>2, <2>3 DEF ExpireForm, KernelTypes, TableTypes
<1>4. CASE CbLock(t)
  <2>1. CbLockForm(t)
    BY <1>4, CbLockFlat
  <2>2. LocalTypes' /\ CallShape'
    BY <2>1, NoMove DEF CbLockForm
  <2>3. TimerTypes'
    BY <1>1, <1>2, <2>1 DEF CbLockForm, TimerTypes, States
  <2> QED BY <1>0, <1>1, <2>1, <2>2, <2>3 DEF CbLockForm, KernelTypes, TableTypes, SetTypes
<1>5. CASE CbFlag(t)
  <2>1. CbFlagForm(t)
    BY <1>5, CbFlagFlat
  <2>2. LocalTypes' /\ CallShape'
    BY <2>1, NoMove DEF CbFlagForm
  <2>3. TimerTypes' /\ SetTypes'
    BY <1>1, <1>2, <2>1 DEF CbFlagForm, TimerTypes, SetTypes, States
  <2> QED BY <1>0, <1>1, <2>1, <2>2, <2>3 DEF CbFlagForm, KernelTypes, TableTypes
<1>6. CASE CbCancel(t)
  <2>1. CbCancelForm(t) /\ timer[t].of \in Fibers /\ timer[t].fd \in Fds /\ timer[t].event \in Events
    BY <1>6, CbCancelFlat, TimerFields DEF CbCancelForm
  <2>2. TimerTypes'
    BY <1>1, <2>1 DEF CbCancelForm, TimerTypes
  <2>3. CASE UNCHANGED <<interest, waiter, pc, nudged>>
    <3>1. LocalTypes' /\ CallShape'
      BY <2>1, <2>3, NoMove DEF CbCancelForm
    <3>2. SetTypes'
      BY <1>1, <2>1, <2>3 DEF CbCancelForm, SetTypes
    <3> QED BY <1>0, <1>1, <2>1, <2>2, <2>3, <3>1, <3>2 DEF CbCancelForm, KernelTypes, TableTypes
  <2>4. CASE ~UNCHANGED <<interest, waiter, pc, nudged>>
    <3>1. PICK W \in SUBSET Fibers :
             /\ TriggerForm(timer[t].fd, {timer[t].event}, W)
             /\ nudged' = nudged \cup {h \in W : call[h].op = "connect"}
      BY <2>1, <2>4 DEF CbCancelForm
    <3>2. LocalTypes' /\ CallShape'
      BY <2>1, <3>1, WakesUp DEF CbCancelForm
    <3>3. SetTypes'
      BY <1>1, <2>1, <3>1 DEF CbCancelForm, SetTypes
    <3>4. KernelTypes' /\ TableTypes'
      <4>1. /\ interest' \in [Fds -> SUBSET Events]
            /\ waiter' \in [Fds -> [Events -> Fibers \cup {NoFiber}]]
        BY <2>1, <3>1, TriggerTypes
      <4> QED BY <1>1, <2>1, <4>1 DEF CbCancelForm, KernelTypes, TableTypes
    <3> QED BY <1>0, <2>2, <3>2, <3>3, <3>4
  <2> QED BY <2>3, <2>4
<1> QED BY <1>3, <1>4, <1>5, <1>6, Zenon DEF TimerStep

LEMMA KernelStepTypes ==
    ASSUME Types, ResultTypes', calls' \in 0..MaxCalls, NEW fd \in Fds, KernelStep(fd)
    PROVE  TypeOK' /\ CallShape'
<1>1. CASE Listen(fd)
  BY <1>1 DEF Listen, local, history, Types, TypeOK, CallShape
<1>2. CASE ConnectEnds(fd)
  <2>1. /\ sock' \in [Fds -> {"closed", "new", "listening", "connecting", "connected", "failed"}]
        /\ ready' \in [Fds -> SUBSET Events]
    <3>1. CASE sock' = [sock EXCEPT ![fd] = "connected"] /\ ready' = [ready EXCEPT ![fd] = {"WRITE"}]
      BY <3>1 DEF Types, TypeOK, Events
    <3>2. CASE sock' = [sock EXCEPT ![fd] = "failed"] /\ ready' = [ready EXCEPT ![fd] = Events]
      BY <3>2 DEF Types, TypeOK
    <3> QED BY <1>2, <3>1, <3>2 DEF ConnectEnds
  <2>2. UNCHANGED <<nonblock, interest, fdctx, waiter, timer, local, history>>
    BY <1>2, Zenon DEF ConnectEnds
  <2> QED BY <2>1, <2>2 DEF local, history, Types, TypeOK, ResultTypes, CallShape
<1>3. ASSUME NEW e \in Events, BecomeReady(fd, e)
      PROVE  TypeOK' /\ CallShape'
  BY <1>3 DEF BecomeReady, local, history, Types, TypeOK, CallShape
<1> QED BY <1>1, <1>2, <1>3, Zenon DEF KernelStep

LEMMA IdleStepTypes ==
    ASSUME Types, ResultTypes', calls' \in 0..MaxCalls, NEW t \in IdleThreads, IdleStep(t)
    PROVE  TypeOK' /\ CallShape'
<1>1. CASE EpollWait(t)
  BY <1>1, EpollWaitFlat DEF EpollWaitForm, Types, TypeOK, ResultTypes, CallShape
<1>2. ASSUME NEW r \in Results, HandleForm(t, r)
      PROVE  TypeOK' /\ CallShape'
  <2>1. CASE UNCHANGED <<interest, waiter, pc, nudged>>
    BY <1>2, <2>1 DEF HandleForm, Types, TypeOK, ResultTypes, CallShape
  <2>2. ASSUME NEW es \in SUBSET Events, NEW W \in SUBSET Fibers, TriggerForm(r.fd, es, W),
               nudged' = IF r.old THEN nudged \cup {h \in W : call[h].op = "connect"} ELSE nudged
        PROVE  TypeOK' /\ CallShape'
    <3>0. r.fd \in Fds
      BY ResultFields
    <3>1. LocalTypes' /\ CallShape'
      BY <1>2, <2>2, <3>0, WakesUp DEF HandleForm
    <3>2. /\ interest' \in [Fds -> SUBSET Events]
          /\ waiter' \in [Fds -> [Events -> Fibers \cup {NoFiber}]]
      BY <2>2, <3>0, TriggerTypes
    <3>3. nudged' \subseteq Fibers
      BY <2>2 DEF Types, TypeOK
    <3> QED BY <1>2, <3>1, <3>2, <3>3 DEF HandleForm, LocalTypes, Rets, Types, TypeOK, ResultTypes
  <2> QED BY <1>2, <2>1, <2>2, Zenon DEF HandleForm
<1> QED BY <1>1, <1>2, HandleFlat, Zenon DEF IdleStep

LEMMA StepTypes ==
    ASSUME Types, calls' \in 0..MaxCalls, Step
    PROVE  TypeOK' /\ CallShape'
<1>1. ResultTypes'
  BY StepResults
<1> QED BY <1>1, NewCallTypes, OptionTypes, FiberStepTypes, TimerStepTypes, KernelStepTypes, IdleStepTypes
        DEF Step
-----------------------------------------------------------------------------
(* WaiterWaits and NoStrayTimer.                                           *)

LEMMA WaitersStay ==
    ASSUME WaiterWaits, waiter' = waiter,
           \A g \in Fibers : /\ pc'[g] = "wait" <=> pc[g] = "wait"
                             /\ pc[g] = "wait" => call'[g] = call[g]
    PROVE  WaiterWaits'
BY DEF WaiterWaits, At

LEMMA WaiterTaken ==
    ASSUME Types, NEW fd \in Fds, NEW es \in SUBSET Events, NEW W \in SUBSET Fibers,
           TriggerForm(fd, es, W), call' = call
    PROVE  WaiterWaits'
<1>1. waiter \in [Fds -> [Events -> Fibers \cup {NoFiber}]] /\ pc \in [Fibers -> Labels]
  BY DEF Types, TypeOK
<1>2. ASSUME NEW h \in Fibers, NEW d \in Fds, NEW k \in Events
      PROVE  waiter'[d][k] = h <=> At(h, "wait")' /\ call[h].fd = d /\ Event(call[h].op) = k
  <2>1. waiter[d][k] = h <=> pc[h] = "wait" /\ call[h].fd = d /\ Event(call[h].op) = k
    BY DEF Types, WaiterWaits, At
  <2>2. waiter'[d][k] = IF d = fd /\ k \in es THEN NoFiber ELSE waiter[d][k]
    BY <1>1 DEF TriggerForm
  <2>3. pc'[h] = IF h \in W THEN "woken" ELSE pc[h]
    BY <1>1 DEF TriggerForm
  <2> QED BY <2>1, <2>2, <2>3, NoValues DEF TriggerForm, At
<1> QED BY <1>2 DEF WaiterWaits

LEMMA StepWaiters ==
    ASSUME Types, Step
    PROVE  WaiterWaits'
<1> USE DEF At, Goto, Return
<1>1. WaiterWaits /\ pc \in [Fibers -> Labels] /\ call \in [Fibers -> CallsInProgress \cup {NoCall}]
  BY DEF Types, TypeOK
<1>2. ASSUME waiter' = waiter, pc' = pc, call' = call
      PROVE  WaiterWaits'
  BY <1>1, <1>2, WaitersStay
<1>3. ASSUME waiter' = waiter, NEW f \in Fibers, pc[f] # "wait", NEW l, l # "wait",
             pc' = [pc EXCEPT ![f] = l],
             call' = call \/ \E c : call' = [call EXCEPT ![f] = c]
      PROVE  WaiterWaits'
  <2>1. \A g \in Fibers : /\ pc'[g] = "wait" <=> pc[g] = "wait"
                          /\ pc[g] = "wait" => call'[g] = call[g]
    BY <1>1, <1>3
  <2> QED BY <1>1, <1>3, <2>1, WaitersStay
<1>4. ASSUME NEW f \in Fibers, NewCall(f)
      PROVE  WaiterWaits'
  <2>1. ASSUME NEW fd \in Fds, NEW op \in DoIO, Begin(f, op, fd)
        PROVE  WaiterWaits'
    BY <1>3, <2>1 DEF Begin
  <2>2. ASSUME NEW fd \in Fds, NEW b \in BOOLEAN, BeginConnect(f, fd, b)
        PROVE  WaiterWaits'
    BY <1>3, <2>2 DEF BeginConnect
  <2>3. ASSUME NEW fd \in Fds, Socket(f, fd)
        PROVE  WaiterWaits'
    BY <1>3, <2>3 DEF Socket
  <2>4. ASSUME NEW fd \in Fds, BeginClose(f, fd)
        PROVE  WaiterWaits'
    BY <1>3, <2>4 DEF BeginClose
  <2> QED BY <1>4, <2>1, <2>2, <2>3, <2>4, Zenon DEF NewCall
<1>5. ASSUME NEW f \in Fibers, FiberStep(f)
      PROVE  WaiterWaits'
  <2>1. ASSUME pc[f] \in {"try", "raw"}, Finished(f)
        PROVE  WaiterWaits'
    <3>1. waiter' = waiter /\ (DoneForm(f) \/ \E fd \in Fds : AcceptedForm(f, fd))
      BY <2>1, FinishedFlat
    <3>2. CASE DoneForm(f)
      BY <1>3, <2>1, <3>1, <3>2 DEF DoneForm
    <3>3. ASSUME NEW fd \in Fds, AcceptedForm(f, fd)
          PROVE  WaiterWaits'
      BY <1>3, <2>1, <3>1, <3>3 DEF AcceptedForm
    <3> QED BY <3>1, <3>2, <3>3
  <2>2. ASSUME pc[f] \in {"try", "raw"}, Failed(f)
        PROVE  WaiterWaits'
    BY <1>3, <2>2 DEF Failed
  <2>3. CASE Try(f)
    BY <1>3, <2>1, <2>2, <2>3 DEF Try
  <2>4. CASE RawCall(f)
    BY <1>3, <2>1, <2>2, <2>4 DEF RawCall
  <2>5. CASE Arm(f)
    <3>1. ArmForm(f)
      BY <2>5, ArmFlat
    <3> QED BY <1>3, <3>1 DEF ArmForm
  <2>6. CASE Add(f)
    <3>1. pc[f] = "add" /\ call[f].fd \in Fds /\ Event(call[f].op) \in Events
      BY <2>6, AddFlat, InCall, EventType
    <3>2. CASE AddOk(f, call[f].fd, Event(call[f].op))
      <4>1. ASSUME NEW h \in Fibers, NEW d \in Fds, NEW k \in Events
            PROVE  waiter'[d][k] = h <=> At(h, "wait")' /\ call[h].fd = d /\ Event(call[h].op) = k
        <5>1. waiter[d][k] = h <=> pc[h] = "wait" /\ call[h].fd = d /\ Event(call[h].op) = k
          BY <1>1 DEF WaiterWaits
        <5>2. waiter'[d][k] = IF d = call[f].fd /\ k = Event(call[f].op) THEN f ELSE waiter[d][k]
          BY <3>1, <3>2 DEF AddOk, Types, TypeOK
        <5>3. pc'[h] = IF h = f THEN "wait" ELSE pc[h]
          BY <1>1, <3>2 DEF AddOk
        <5> QED BY <3>1, <3>2, <5>1, <5>2, <5>3, NoValues DEF AddOk
      <4> QED BY <3>2, <4>1 DEF WaiterWaits, AddOk
    <3>3. CASE AddRefused(f)
      BY <1>3, <3>1, <3>3 DEF AddRefused
    <3> QED BY <2>6, <3>2, <3>3, AddFlat
  <2>7. CASE Woken(f)
    <3>1. WokenForm(f)
      BY <2>7, WokenFlat
    <3> QED BY <1>3, <3>1 DEF WokenForm
  <2>8. CASE EndCall(f)
    BY <1>3, <2>8 DEF EndCall
  <2>9. CASE Connect(f)
    BY <1>3, <2>9 DEF Connect
  <2>10. CASE SockErr(f)
    BY <1>3, <2>10 DEF SockErr
  <2>11. CASE GetCtx(f)
    BY <1>3, <2>11 DEF GetCtx
  <2>12. CASE CancelAll(f)
    <3>1. PICK W \in SUBSET (Fibers \ {f}) : CancelAllForm(f, W)
      BY <2>12, CancelAllFlat
    <3>2. call[f].fd \in Fds /\ pc[f] = "cancelAll"
      BY <3>1, InCall DEF CancelAllForm
    <3>3. CASE W = {} /\ UNCHANGED waiter
      <4>1. \A g \in Fibers : pc'[g] = "wait" <=> pc[g] = "wait"
        BY <3>1, <3>2, <3>3 DEF CancelAllForm
      <4> QED BY <1>1, <3>1, <3>3, <4>1, WaitersStay DEF CancelAllForm
    <3>4. CASE /\ waiter' = [waiter EXCEPT ![call[f].fd] = [e \in Events |-> NoFiber]]
               /\ \A g \in Fibers : pc[g] = "wait" /\ call[g].fd = call[f].fd => g \in W
      <4>1. ASSUME NEW h \in Fibers, NEW d \in Fds, NEW k \in Events
            PROVE  waiter'[d][k] = h <=> At(h, "wait")' /\ call[h].fd = d /\ Event(call[h].op) = k
        <5>1. waiter[d][k] = h <=> pc[h] = "wait" /\ call[h].fd = d /\ Event(call[h].op) = k
          BY <1>1 DEF WaiterWaits
        <5>2. waiter'[d][k] = IF d = call[f].fd THEN NoFiber ELSE waiter[d][k]
          BY <3>2, <3>4 DEF Types, TypeOK
        <5>3. pc'[h] = IF h = f THEN "del" ELSE IF h \in W THEN "woken" ELSE pc[h]
          BY <3>1 DEF CancelAllForm
        <5> QED BY <3>1, <3>2, <3>4, <5>1, <5>2, <5>3, NoValues DEF CancelAllForm
      <4> QED BY <3>1, <4>1 DEF WaiterWaits, CancelAllForm
    <3> QED BY <3>1, <3>3, <3>4 DEF CancelAllForm
  <2>13. CASE Del(f)
    BY <1>3, <2>13 DEF Del
  <2>14. CASE CloseFd(f)
    BY <1>3, <2>14 DEF CloseFd
  <2> QED BY <1>5, <2>3, <2>4, <2>5, <2>6, <2>7, <2>8, <2>9, <2>10, <2>11, <2>12, <2>13, <2>14, Zenon
          DEF FiberStep
<1>6. ASSUME NEW t \in Timers, TimerStep(t)
      PROVE  WaiterWaits'
  <2>1. CASE Expire(t)
    BY <1>2, <2>1 DEF Expire, local
  <2>2. CASE CbLock(t)
    BY <1>2, <2>2 DEF CbLock, local
  <2>3. CASE CbFlag(t)
    BY <1>2, <2>3 DEF CbFlag
  <2>4. CASE CbCancel(t)
    <3>1. CbCancelForm(t) /\ timer[t].fd \in Fds /\ timer[t].event \in Events
      BY <2>4, CbCancelFlat, TimerFields DEF CbCancelForm
    <3> QED BY <1>2, <3>1, WaiterTaken DEF CbCancelForm
  <2> QED BY <1>6, <2>1, <2>2, <2>3, <2>4 DEF TimerStep
<1>7. ASSUME NEW fd \in Fds, Option(fd)
      PROVE  WaiterWaits'
  BY <1>2, <1>7 DEF Option, Fcntl, Ioctl, SetTimeout, local
<1>8. ASSUME NEW fd \in Fds, KernelStep(fd)
      PROVE  WaiterWaits'
  BY <1>2, <1>8 DEF KernelStep, Listen, ConnectEnds, BecomeReady, local
<1>9. ASSUME NEW t \in IdleThreads, IdleStep(t)
      PROVE  WaiterWaits'
  <2>1. CASE EpollWait(t)
    BY <1>2, <2>1 DEF EpollWait, local
  <2>2. ASSUME NEW r \in Results, HandleForm(t, r)
        PROVE  WaiterWaits'
    BY <1>2, <2>2, WaiterTaken, ResultFields DEF HandleForm
  <2> QED BY <1>9, <2>1, <2>2, HandleFlat, Zenon DEF IdleStep
<1> QED BY <1>4, <1>5, <1>6, <1>7, <1>8, <1>9 DEF Step

Armers == {"add", "wait", "woken"}

LEMMA ArmedStay ==
    ASSUME Types, NoStrayTimer,
           \A t \in Timers : timer'[t].state = "armed" =>
               timer[t].state = "armed" /\ timer'[t].of = timer[t].of /\ timer'[t].alive = timer[t].alive,
           \A g \in Fibers : pc[g] \in Armers => pc'[g] \in Armers /\ call'[g].timer = call[g].timer
    PROVE  NoStrayTimer'
BY TimerInUse, TimerFields DEF Types, NoStrayTimer, Armers

(* A Timer that is cancelled is no more armed, and it is the only one that *)
(* was armed for the call.                                                 *)
LEMMA ArmedCancelled ==
    ASSUME Types, NoStrayTimer, NEW f \in Fibers, timer' = TimerCancelled(f),
           \A g \in Fibers \ {f} : pc'[g] = pc[g] /\ call'[g] = call[g]
    PROVE  NoStrayTimer'
<1>1. ASSUME NEW t \in Timers, timer'[t].state = "armed"
      PROVE  /\ timer'[t] = timer[t] /\ t # call[f].timer
             /\ timer[t] \in TimersInUse
  BY <1>1, TimerInUse DEF TimerCancelled, FreeTimer, Types
<1>2. ASSUME NEW t \in Timers, timer'[t].state = "armed"
      PROVE  timer[t].of \in Fibers \ {f}
  BY <1>1, <1>2, TimerFields DEF NoStrayTimer
<1> QED BY <1>1, <1>2 DEF NoStrayTimer

LEMMA StepTimers ==
    ASSUME Types, NoStrayTimer, Step
    PROVE  NoStrayTimer'
<1> USE DEF At, Goto, Return, Armers
<1>1. pc \in [Fibers -> Labels] /\ call \in [Fibers -> CallsInProgress \cup {NoCall}]
  BY DEF Types, TypeOK
<1>2. ASSUME timer' = timer, pc' = pc, call' = call
      PROVE  NoStrayTimer'
  BY <1>2, ArmedStay
<1>3. ASSUME timer' = timer, NEW f \in Fibers, pc[f] \notin Armers, NEW l,
             pc' = [pc EXCEPT ![f] = l],
             call' = call \/ \E c : call' = [call EXCEPT ![f] = c]
      PROVE  NoStrayTimer'
  <2>1. \A g \in Fibers : pc[g] \in Armers => pc'[g] \in Armers /\ call'[g].timer = call[g].timer
    BY <1>1, <1>3
  <2> QED BY <1>3, <2>1, ArmedStay
<1>4. ASSUME timer' = timer, call' = call, NEW f \in Fibers, pc[f] \in {"wait", "add"}, NEW l \in {"wait", "woken"},
             pc' = [pc EXCEPT ![f] = l]
      PROVE  NoStrayTimer'
  <2>1. \A g \in Fibers : pc[g] \in Armers => pc'[g] \in Armers
    BY <1>1, <1>4
  <2> QED BY <1>4, <2>1, ArmedStay
<1>5. ASSUME NEW f \in Fibers, NewCall(f)
      PROVE  NoStrayTimer'
  <2>1. ASSUME NEW fd \in Fds, NEW op \in DoIO, Begin(f, op, fd)
        PROVE  NoStrayTimer'
    BY <1>3, <2>1 DEF Begin
  <2>2. ASSUME NEW fd \in Fds, NEW b \in BOOLEAN, BeginConnect(f, fd, b)
        PROVE  NoStrayTimer'
    BY <1>3, <2>2 DEF BeginConnect
  <2>3. ASSUME NEW fd \in Fds, Socket(f, fd)
        PROVE  NoStrayTimer'
    BY <1>3, <2>3 DEF Socket
  <2>4. ASSUME NEW fd \in Fds, BeginClose(f, fd)
        PROVE  NoStrayTimer'
    BY <1>3, <2>4 DEF BeginClose
  <2> QED BY <1>5, <2>1, <2>2, <2>3, <2>4, Zenon DEF NewCall
<1>6. ASSUME NEW f \in Fibers, FiberStep(f)
      PROVE  NoStrayTimer'
  <2>1. ASSUME pc[f] \in {"try", "raw"}, Finished(f)
        PROVE  NoStrayTimer'
    <3>1. timer' = timer /\ (DoneForm(f) \/ \E fd \in Fds : AcceptedForm(f, fd))
      BY <2>1, FinishedFlat
    <3>2. CASE DoneForm(f)
      BY <1>3, <2>1, <3>1, <3>2 DEF DoneForm
    <3>3. ASSUME NEW fd \in Fds, AcceptedForm(f, fd)
          PROVE  NoStrayTimer'
      BY <1>3, <2>1, <3>1, <3>3 DEF AcceptedForm
    <3> QED BY <3>1, <3>2, <3>3
  <2>2. ASSUME pc[f] \in {"try", "raw"}, Failed(f)
        PROVE  NoStrayTimer'
    BY <1>3, <2>2 DEF Failed
  <2>3. CASE Try(f)
    BY <1>3, <2>1, <2>2, <2>3 DEF Try
  <2>4. CASE RawCall(f)
    BY <1>3, <2>1, <2>2, <2>4 DEF RawCall
  <2>5. CASE Arm(f)
    <3>1. ArmForm(f)
      BY <2>5, ArmFlat
    <3>2. CASE UNCHANGED <<timer, call>>
      BY <1>3, <3>1, <3>2 DEF ArmForm
    <3>3. CASE ~UNCHANGED <<timer, call>>
      <4>1. PICK t \in Timers :
               /\ timer' = [timer EXCEPT ![t] = [state |-> "armed", of |-> f, fd |-> call[f].fd,
                                                 event |-> Event(call[f].op), alive |-> TRUE]]
               /\ call' = [call EXCEPT ![f] = CallWith(f, t)]
        BY <3>1, <3>3 DEF ArmForm
      <4>2. pc'[f] = "add" /\ call'[f].timer = t
        BY <1>1, <3>1, <4>1 DEF ArmForm, CallWith
      <4>3. timer'[t].of = f /\ timer'[t].alive
        BY <4>1 DEF Types, TypeOK
      <4>4. ASSUME NEW u \in Timers, u # t, timer'[u].state = "armed"
            PROVE  pc'[timer'[u].of] \in Armers /\ call'[timer'[u].of].timer = u /\ timer'[u].alive
        <5>1. timer'[u] = timer[u] /\ timer[u].of \in Fibers
          BY <4>1, <4>4, TimerInUse, TimerFields DEF Types, TypeOK
        <5>2. /\ pc[timer[u].of] \in Armers /\ call[timer[u].of].timer = u /\ timer[u].alive
          BY <4>4, <5>1 DEF NoStrayTimer
        <5>3. timer[u].of # f
          BY <3>1, <5>2 DEF ArmForm
        <5> QED BY <1>1, <3>1, <4>1, <5>1, <5>2, <5>3 DEF ArmForm
      <4> QED BY <4>2, <4>3, <4>4 DEF NoStrayTimer
    <3> QED BY <3>2, <3>3
  <2>6. CASE Add(f)
    <3>1. pc[f] = "add"
      BY <2>6, AddFlat
    <3>2. CASE AddOk(f, call[f].fd, Event(call[f].op))
      BY <1>4, <3>1, <3>2 DEF AddOk
    <3>3. CASE AddRefused(f)
      BY <1>1, <3>3, ArmedCancelled DEF AddRefused
    <3> QED BY <2>6, <3>2, <3>3, AddFlat
  <2>7. CASE Woken(f)
    <3>1. WokenForm(f)
      BY <2>7, WokenFlat
    <3> QED BY <1>1, <3>1, ArmedCancelled DEF WokenForm
  <2>8. CASE EndCall(f)
    <3>1. EndCallForm(f)
      BY <2>8, EndCallFlat
    <3>2. ASSUME NEW t \in Timers, timer'[t].state = "armed"
          PROVE  timer[t].state = "armed" /\ timer'[t].of = timer[t].of /\ timer'[t].alive = timer[t].alive
      <4>1. timer[t].state = "armed"
        BY <3>1, <3>2 DEF EndCallForm
      <4>2. timer[t].of # f
        BY <3>1, <4>1 DEF EndCallForm, NoStrayTimer
      <4> QED BY <3>1, <4>1, <4>2 DEF EndCallForm
    <3>3. \A g \in Fibers : pc[g] \in Armers => pc'[g] \in Armers /\ call'[g].timer = call[g].timer
      BY <1>1, <3>1 DEF EndCallForm
    <3> QED BY <3>2, <3>3, ArmedStay
  <2>9. CASE Connect(f)
    BY <1>3, <2>9 DEF Connect
  <2>10. CASE SockErr(f)
    BY <1>3, <2>10 DEF SockErr
  <2>11. CASE GetCtx(f)
    BY <1>3, <2>11 DEF GetCtx
  <2>12. CASE CancelAll(f)
    <3>1. PICK W \in SUBSET (Fibers \ {f}) : CancelAllForm(f, W)
      BY <2>12, CancelAllFlat
    <3>2. \A g \in Fibers : pc[g] \in Armers => pc'[g] \in Armers
      BY <3>1 DEF CancelAllForm
    <3> QED BY <3>1, <3>2, ArmedStay DEF CancelAllForm
  <2>13. CASE Del(f)
    BY <1>3, <2>13 DEF Del
  <2>14. CASE CloseFd(f)
    BY <1>3, <2>14 DEF CloseFd
  <2> QED BY <1>6, <2>3, <2>4, <2>5, <2>6, <2>7, <2>8, <2>9, <2>10, <2>11, <2>12, <2>13, <2>14, Zenon
          DEF FiberStep
<1>7. ASSUME NEW t \in Timers, TimerStep(t)
      PROVE  NoStrayTimer'
  <2>1. ASSUME NEW c, timer' = [timer EXCEPT ![t] = c], c.state # "armed", call' = call,
               \A g \in Fibers : pc[g] \in Armers => pc'[g] \in Armers
        PROVE  NoStrayTimer'
    BY <2>1, ArmedStay DEF Types, TypeOK
  <2>2. CASE Expire(t)
    <3>1. ExpireForm(t) /\ TimerWith(t, "queued").state # "armed"
      BY <2>2, ExpireFlat DEF TimerWith
    <3> QED BY <2>1, <3>1 DEF ExpireForm
  <2>3. CASE CbLock(t)
    BY <2>1, <2>3, CbLockFlat DEF CbLockForm, TimerWith, FreeTimer
  <2>4. CASE CbFlag(t)
    BY <2>1, <2>4, CbFlagFlat DEF CbFlagForm, TimerWith
  <2>5. CASE CbCancel(t)
    <3>1. CbCancelForm(t)
      BY <2>5, CbCancelFlat
    <3>2. \A g \in Fibers : pc[g] \in Armers => pc'[g] \in Armers
      BY <3>1, CbCancelWakes, WakesMove
    <3>3. timer' = [timer EXCEPT ![t] = FreeTimer] /\ FreeTimer.state # "armed" /\ call' = call
      BY <3>1 DEF CbCancelForm, FreeTimer
    <3> QED BY <2>1, <3>2, <3>3
  <2> QED BY <1>7, <2>2, <2>3, <2>4, <2>5 DEF TimerStep
<1>8. ASSUME NEW fd \in Fds, Option(fd)
      PROVE  NoStrayTimer'
  BY <1>2, <1>8 DEF Option, Fcntl, Ioctl, SetTimeout, local
<1>9. ASSUME NEW fd \in Fds, KernelStep(fd)
      PROVE  NoStrayTimer'
  BY <1>2, <1>9 DEF KernelStep, Listen, ConnectEnds, BecomeReady, local
<1>10. ASSUME NEW t \in IdleThreads, IdleStep(t)
       PROVE  NoStrayTimer'
  <2>1. Wakes /\ UNCHANGED <<timer, call>>
    BY <1>10, IdleStepWakes
  <2>2. \A g \in Fibers : pc[g] \in Armers => pc'[g] \in Armers
    BY <2>1, WakesMove
  <2> QED BY <2>1, <2>2, ArmedStay
<1> QED BY <1>5, <1>6, <1>7, <1>8, <1>9, <1>10 DEF Step
-----------------------------------------------------------------------------
(* CtxMatchesKernel, OwnedFds and HookedFds.                               *)

FdInv == CtxMatchesKernel /\ OwnedFds /\ HookedFds

(* Steps that open and close nothing: the calls that own a number go on    *)
(* owning it, and a call that becomes hooked found an FdCtx.               *)
LEMMA FdsStay ==
    ASSUME Types, FdInv,
           \A d \in Fds : /\ Open(d)' <=> Open(d)
                          /\ fdctx'[d] = NoCtx <=> fdctx[d] = NoCtx
                          /\ d \in nonblock \cup cleared => d \in nonblock' \cup cleared',
           \A g \in Fibers : /\ pc'[g] = "getCtx" <=> pc[g] = "getCtx"
                             /\ pc'[g] \in Closers <=> pc[g] \in Closers
                             /\ pc'[g] = "closeFd" <=> pc[g] = "closeFd"
                             /\ pc[g] \in Owners => call'[g].fd = call[g].fd,
           \A g \in Fibers : pc'[g] \in Hooked /\ g \notin stale' =>
               \/ pc[g] \in Hooked /\ g \notin stale /\ call'[g].fd = call[g].fd
               \/ call'[g].fd \in Fds /\ fdctx[call'[g].fd] # NoCtx
    PROVE  FdInv'
<1>1. \A d \in Fds : (Opening(d)' <=> Opening(d)) /\ (Closing(d)' <=> Closing(d))
  BY DEF Opening, Closing, At, In, Closers, Owners
<1>2. CtxMatchesKernel'
  BY <1>1 DEF FdInv, CtxMatchesKernel
<1>3. \A g \in Fibers : pc[g] # "idle" => call[g].fd \in Fds
  BY InCall
<1>4. OwnedFds'
  BY <1>3 DEF FdInv, OwnedFds, Owners, Closers
<1>5. HookedFds'
  BY <1>3 DEF FdInv, HookedFds, CtxMatchesKernel, Hooked
<1> QED BY <1>2, <1>4, <1>5 DEF FdInv

(* A new number: it was closed, so nobody used it.                         *)
LEMMA FdOpens ==
    ASSUME Types, FdInv, NEW f \in Fibers, NEW fd \in Fds, sock[fd] = "closed", pc[f] \notin Owners,
           NEW s \in {"new", "connected"}, sock' = [sock EXCEPT ![fd] = s],
           nonblock' = nonblock \ {fd}, cleared' = cleared, fdctx' = fdctx,
           pc' = [pc EXCEPT ![f] = "getCtx"], call'[f].fd = fd,
           \A g \in Fibers \ {f} : call'[g] = call[g] /\ (g \in stale' <=> g \in stale)
    PROVE  FdInv'
<1>1. /\ \A d \in Fds : sock'[d] = IF d = fd THEN s ELSE sock[d]
      /\ \A g \in Fibers : pc'[g] = IF g = f THEN "getCtx" ELSE pc[g]
      /\ \A g \in Fibers : pc[g] # "idle" => call[g].fd \in Fds
      /\ ~Open(fd)
  BY InCall DEF Types, TypeOK, Open
<1>2. \A d \in Fds : /\ Open(d)' <=> d = fd \/ Open(d)
                     /\ Opening(d)' <=> d = fd \/ Opening(d)
                     /\ Closing(d)' <=> Closing(d)
  <2>1. \A d \in Fds : Open(d)' <=> d = fd \/ Open(d)
    BY <1>1 DEF Open
  <2>2. \A d \in Fds : Opening(d)' <=> d = fd \/ Opening(d)
    BY <1>1 DEF Opening, At, In, Owners
  <2>3. \A d \in Fds : Closing(d)' <=> Closing(d)
    BY <1>1 DEF Closing, In, Owners, Closers
  <2> QED BY <2>1, <2>2, <2>3
<1>3. CtxMatchesKernel'
  BY <1>2 DEF FdInv, CtxMatchesKernel
<1>4. OwnedFds'
  BY <1>1, <1>2 DEF FdInv, OwnedFds, Owners, Closers
<1>5. HookedFds'
  BY <1>1, <1>2 DEF FdInv, HookedFds, CtxMatchesKernel, Hooked
<1> QED BY <1>3, <1>4, <1>5 DEF FdInv

LEMMA GetCtxFds ==
    ASSUME Types, FdInv, NEW f \in Fibers, GetCtx(f)
    PROVE  FdInv'
<1> DEFINE fd == call[f].fd
<1>1. /\ pc[f] = "getCtx" /\ pc' = [pc EXCEPT ![f] = "return"] /\ fd \in Fds
      /\ UNCHANGED <<sock, call, stale, cleared>>
  BY InCall DEF GetCtx, At, Return, Goto, history
<1>2. /\ fdctx'[fd] # NoCtx /\ \A d \in Fds \ {fd} : fdctx'[d] = fdctx[d]
      /\ nonblock \subseteq nonblock' /\ (fdctx[fd] = NoCtx => fd \in nonblock')
  <2>1. NewCtx # NoCtx
    <3>1. NewCtx \in [user: BOOLEAN, timed: SUBSET {"READ", "WRITE"}]
      BY DEF NewCtx
    <3> QED BY <3>1, NoValues, Zenon
  <2> QED BY <1>1, <2>1 DEF GetCtx, Types, TypeOK
<1>3. /\ \A g \in Fibers : pc'[g] = IF g = f THEN "return" ELSE pc[g]
      /\ \A g \in Fibers : pc[g] # "idle" => call[g].fd \in Fds
      /\ \A d \in Fds : Open(d)' <=> Open(d)
  BY <1>1, InCall DEF Types, TypeOK, Open
<1>4. \A d \in Fds : d # fd => (Opening(d)' <=> Opening(d)) /\ (Closing(d)' <=> Closing(d))
  BY <1>1, <1>3 DEF Opening, Closing, At, In
<1>5. CtxMatchesKernel'
  <2>1. Open(fd)
    BY <1>1 DEF FdInv, OwnedFds, Owners
  <2> QED BY <1>2, <1>3, <1>4, <2>1 DEF FdInv, CtxMatchesKernel
<1>6. OwnedFds'
  BY <1>1, <1>2, <1>3 DEF FdInv, OwnedFds, Owners, Closers
<1>7. HookedFds'
  BY <1>1, <1>2, <1>3 DEF FdInv, HookedFds, Hooked
<1> QED BY <1>5, <1>6, <1>7 DEF FdInv

LEMMA BeginCloseFds ==
    ASSUME Types, FdInv, NEW f \in Fibers, NEW fd \in Fds, BeginClose(f, fd)
    PROVE  FdInv'
<1>1. /\ pc[f] = "idle" /\ Open(fd) /\ ~Opening(fd) /\ ~Closing(fd)
      /\ call' = [call EXCEPT ![f] = [op |-> "close", fd |-> fd, timed |-> FALSE, timer |-> NoTimer]]
      /\ UNCHANGED <<sock, nonblock, fdctx, stale, cleared>>
  BY DEF BeginClose, At, kernel, history
<1>2. fdctx[fd] # NoCtx
  BY <1>1 DEF FdInv, CtxMatchesKernel
<1>3. pc' = [pc EXCEPT ![f] = "cancelAll"]
  BY <1>2 DEF BeginClose, Goto
<1>4. /\ \A g \in Fibers : pc'[g] = IF g = f THEN "cancelAll" ELSE pc[g]
      /\ \A g \in Fibers : call'[g].fd = IF g = f THEN fd ELSE call[g].fd
      /\ \A g \in Fibers : pc[g] # "idle" => call[g].fd \in Fds
      /\ \A d \in Fds : Open(d)' <=> Open(d)
  BY <1>1, <1>3, InCall DEF Types, TypeOK, Open
<1>5. \A d \in Fds : (Opening(d)' <=> Opening(d)) /\ (Closing(d)' <=> d = fd \/ Closing(d))
  <2>1. \A d \in Fds : Opening(d)' <=> Opening(d)
    BY <1>1, <1>4 DEF Opening, At, In
  <2>2. \A d \in Fds : Closing(d)' <=> d = fd \/ Closing(d)
    BY <1>1, <1>4 DEF Closing, In
  <2> QED BY <2>1, <2>2
<1>6. CtxMatchesKernel'
  BY <1>1, <1>4, <1>5 DEF FdInv, CtxMatchesKernel
<1>7. OwnedFds'
  <2>1. \A g \in Fibers : pc[g] \in Owners => call[g].fd # fd
    BY <1>1 DEF Opening, Closing, At, In, Owners, Closers
  <2> QED BY <1>1, <1>4, <2>1 DEF FdInv, OwnedFds, Owners, Closers
<1>8. HookedFds'
  BY <1>1, <1>4 DEF FdInv, HookedFds, Hooked
<1> QED BY <1>6, <1>7, <1>8 DEF FdInv

LEMMA DelFds ==
    ASSUME Types, FdInv, NEW f \in Fibers, Del(f)
    PROVE  FdInv'
<1> DEFINE fd == call[f].fd
<1>1. /\ pc[f] = "del" /\ pc' = [pc EXCEPT ![f] = "closeFd"] /\ fd \in Fds
      /\ fdctx' = [fdctx EXCEPT ![fd] = NoCtx]
      /\ UNCHANGED <<sock, nonblock, call, stale, cleared>>
  BY InCall DEF Del, At, Goto, kernel, history
<1>2. /\ \A g \in Fibers : pc'[g] = IF g = f THEN "closeFd" ELSE pc[g]
      /\ \A g \in Fibers : pc[g] # "idle" => call[g].fd \in Fds
      /\ \A d \in Fds : Open(d)' <=> Open(d)
      /\ \A d \in Fds : fdctx'[d] = IF d = fd THEN NoCtx ELSE fdctx[d]
  BY <1>1, InCall DEF Types, TypeOK, Open
<1>3. \A d \in Fds : (Opening(d)' <=> Opening(d)) /\ (Closing(d)' <=> Closing(d))
  BY <1>1, <1>2 DEF Opening, Closing, At, In
<1>4. Closing(fd)
  BY <1>1 DEF Closing, In
<1>5. CtxMatchesKernel'
  BY <1>2, <1>3, <1>4 DEF FdInv, CtxMatchesKernel
<1>6. OwnedFds'
  BY <1>1, <1>2 DEF FdInv, OwnedFds, Owners, Closers
<1>7. HookedFds'
  BY <1>1, <1>2 DEF FdInv, HookedFds, Hooked
<1> QED BY <1>5, <1>6, <1>7 DEF FdInv

LEMMA CloseFdFds ==
    ASSUME Types, FdInv, NEW f \in Fibers, CloseFd(f)
    PROVE  FdInv'
<1> DEFINE fd == call[f].fd
<1>1. /\ pc[f] = "closeFd" /\ pc' = [pc EXCEPT ![f] = "return"] /\ fd \in Fds
      /\ sock' = [sock EXCEPT ![fd] = "closed"]
      /\ nonblock' = nonblock \ {fd} /\ cleared' = cleared \ {fd}
      /\ stale' = stale \cup {g \in Fibers \ {f} : In(g, fd)}
      /\ UNCHANGED <<fdctx, call>>
  BY InCall DEF CloseFd, At, Goto, Return
<1>2. /\ \A g \in Fibers : pc'[g] = IF g = f THEN "return" ELSE pc[g]
      /\ \A g \in Fibers : pc[g] # "idle" => call[g].fd \in Fds
      /\ \A d \in Fds : Open(d)' <=> d # fd /\ Open(d)
  BY <1>1, InCall DEF Types, TypeOK, Open
<1>3. \A d \in Fds : d # fd => (Opening(d)' <=> Opening(d)) /\ (Closing(d)' <=> Closing(d))
  BY <1>1, <1>2 DEF Opening, Closing, At, In
<1>4. fdctx[fd] = NoCtx
  BY <1>1 DEF FdInv, OwnedFds
<1>5. CtxMatchesKernel'
  BY <1>1, <1>2, <1>3, <1>4 DEF FdInv, CtxMatchesKernel
<1>6. OwnedFds'
  BY <1>1, <1>2 DEF FdInv, OwnedFds, Owners, Closers
<1>7. HookedFds'
  BY <1>1, <1>2, <1>4 DEF FdInv, HookedFds, Hooked, In
<1> QED BY <1>5, <1>6, <1>7 DEF FdInv

LEMMA StepFds ==
    ASSUME Types, FdInv, Step
    PROVE  FdInv'
<1> USE DEF At, Goto, Return, Closers, Owners, Hooked
<1>1. /\ pc \in [Fibers -> Labels] /\ call \in [Fibers -> CallsInProgress \cup {NoCall}]
      /\ sock \in [Fds -> {"closed", "new", "listening", "connecting", "connected", "failed"}]
  BY DEF Types, TypeOK
<1>2. ASSUME UNCHANGED <<fdctx, nonblock, cleared>>, \A d \in Fds : Open(d)' <=> Open(d),
             NEW f \in Fibers, pc[f] \notin Owners, NEW l, l \notin Owners,
             pc' = [pc EXCEPT ![f] = l],
             call' = call \/ \E c : call' = [call EXCEPT ![f] = c],
             l \in Hooked => \/ pc[f] \in Hooked /\ call'[f].fd = call[f].fd
                             \/ call'[f].fd \in Fds /\ fdctx[call'[f].fd] # NoCtx,
             \/ stale' = stale
             \/ stale' = stale \ {f} /\ l \notin Hooked
      PROVE  FdInv'
  <2>1. \A g \in Fibers : /\ pc'[g] = "getCtx" <=> pc[g] = "getCtx"
                          /\ pc'[g] \in Closers <=> pc[g] \in Closers
                          /\ pc'[g] = "closeFd" <=> pc[g] = "closeFd"
                          /\ pc[g] \in Owners => call'[g].fd = call[g].fd
    BY <1>1, <1>2
  <2>2. \A g \in Fibers : pc'[g] \in Hooked /\ g \notin stale' =>
               \/ pc[g] \in Hooked /\ g \notin stale /\ call'[g].fd = call[g].fd
               \/ call'[g].fd \in Fds /\ fdctx[call'[g].fd] # NoCtx
    BY <1>1, <1>2
  <2> QED BY <1>2, <2>1, <2>2, FdsStay
<1>3. ASSUME pc' = pc, call' = call, stale' = stale, \A d \in Fds : Open(d)' <=> Open(d),
             \A d \in Fds : /\ fdctx'[d] = NoCtx <=> fdctx[d] = NoCtx
                            /\ d \in nonblock \cup cleared => d \in nonblock' \cup cleared'
      PROVE  FdInv'
  BY <1>3, FdsStay
<1>4. ASSUME sock' = sock
      PROVE  \A d \in Fds : Open(d)' <=> Open(d)
  BY <1>4 DEF Open
<1>w. ASSUME Wakes, UNCHANGED <<sock, nonblock, fdctx, call, stale, cleared>>
      PROVE  FdInv'
  <2>1. \A g \in Fibers : /\ pc'[g] = "getCtx" <=> pc[g] = "getCtx"
                          /\ pc'[g] \in Closers <=> pc[g] \in Closers
                          /\ pc'[g] = "closeFd" <=> pc[g] = "closeFd"
                          /\ pc'[g] \in Hooked => pc[g] \in Hooked
    BY <1>w, WakesMove
  <2> QED BY <1>4, <1>w, <2>1, FdsStay
<1>5. ASSUME NEW f \in Fibers, NewCall(f)
      PROVE  FdInv'
  <2>1. ASSUME NEW fd \in Fds, NEW op \in DoIO, Begin(f, op, fd)
        PROVE  FdInv'
    <3>1. PICK l \in {"try", "raw"} :
             /\ pc[f] = "idle" /\ pc' = [pc EXCEPT ![f] = l]
             /\ l = "try" => fdctx[fd] # NoCtx
      BY <2>1 DEF Begin
    <3>2. UNCHANGED <<sock, fdctx, nonblock, cleared, stale>>
      BY <2>1, Zenon DEF Begin, kernel, history
    <3>3. (\E c : call' = [call EXCEPT ![f] = c]) /\ call'[f].fd = fd
      BY <1>1, <2>1 DEF Begin
    <3> QED BY <1>2, <1>4, <3>1, <3>2, <3>3
  <2>2. ASSUME NEW fd \in Fds, NEW b \in BOOLEAN, BeginConnect(f, fd, b)
        PROVE  FdInv'
    <3>1. PICK l \in {"return", "connect", "rawConnect"} :
             /\ pc[f] = "idle" /\ pc' = [pc EXCEPT ![f] = l]
             /\ l = "connect" => fdctx[fd] # NoCtx
      BY <2>2 DEF BeginConnect
    <3>2. UNCHANGED <<sock, fdctx, nonblock, cleared, stale>>
      BY <2>2, Zenon DEF BeginConnect, kernel, history
    <3>3. (\E c : call' = [call EXCEPT ![f] = c]) /\ call'[f].fd = fd
      BY <1>1, <2>2 DEF BeginConnect
    <3> QED BY <1>2, <1>4, <3>1, <3>2, <3>3
  <2>3. ASSUME NEW fd \in Fds, Socket(f, fd)
        PROVE  FdInv'
    BY <1>1, <2>3, FdOpens DEF Socket, Free, history
  <2>4. ASSUME NEW fd \in Fds, BeginClose(f, fd)
        PROVE  FdInv'
    BY <2>4, BeginCloseFds
  <2> QED BY <1>5, <2>1, <2>2, <2>3, <2>4, Zenon DEF NewCall
<1>6. ASSUME NEW f \in Fibers, FiberStep(f)
      PROVE  FdInv'
  <2>1. ASSUME pc[f] \in {"try", "raw"}, Finished(f)
        PROVE  FdInv'
    <3>1. UNCHANGED <<fdctx, cleared>> /\ (DoneForm(f) \/ \E fd \in Fds : AcceptedForm(f, fd))
      BY <2>1, FinishedFlat
    <3>2. CASE DoneForm(f)
      BY <1>2, <1>4, <2>1, <3>1, <3>2 DEF DoneForm
    <3>3. ASSUME NEW fd \in Fds, AcceptedForm(f, fd)
          PROVE  FdInv'
      <4>1. call'[f].fd = fd /\ \A g \in Fibers \ {f} : call'[g] = call[g] /\ (g \in stale' <=> g \in stale)
        BY <1>1, <3>3 DEF AcceptedForm
      <4> QED BY <2>1, <3>1, <3>3, <4>1, FdOpens DEF AcceptedForm
    <3> QED BY <3>1, <3>2, <3>3
  <2>2. ASSUME pc[f] \in {"try", "raw"}, Failed(f)
        PROVE  FdInv'
    BY <1>2, <1>4, <2>2 DEF Failed, kernel, history
  <2>3. CASE Try(f)
    <3>1. CASE Finished(f) \/ Failed(f)
      BY <2>1, <2>2, <2>3, <3>1 DEF Try
    <3>2. CASE ~(Finished(f) \/ Failed(f))
      BY <1>2, <1>4, <2>3, <3>2 DEF Try, kernel, history
    <3> QED BY <3>1, <3>2
  <2>4. CASE RawCall(f)
    <3>1. CASE Finished(f) \/ Failed(f)
      BY <2>1, <2>2, <2>4, <3>1 DEF RawCall
    <3>2. CASE ~(Finished(f) \/ Failed(f))
      BY <1>2, <1>4, <2>4, <3>2 DEF RawCall, kernel, history
    <3> QED BY <3>1, <3>2
  <2>5. CASE Arm(f)
    <3>1. ArmForm(f)
      BY <2>5, ArmFlat
    <3>2. call'[f].fd = call[f].fd /\ (call' = call \/ \E c : call' = [call EXCEPT ![f] = c])
      BY <1>1, <3>1 DEF ArmForm, CallWith
    <3> QED BY <1>2, <1>4, <3>1, <3>2 DEF ArmForm
  <2>6. CASE Add(f)
    <3>1. pc[f] = "add" /\ UNCHANGED <<sock, nonblock, fdctx, stale, cleared>>
      BY <2>6, AddFlat
    <3>2. CASE AddOk(f, call[f].fd, Event(call[f].op))
      BY <1>2, <1>4, <3>1, <3>2 DEF AddOk
    <3>3. CASE AddRefused(f)
      BY <1>2, <1>4, <3>1, <3>3 DEF AddRefused
    <3> QED BY <2>6, <3>2, <3>3, AddFlat
  <2>7. CASE Woken(f)
    <3>1. WokenForm(f)
      BY <2>7, WokenFlat
    <3>2. call'[f].fd = call[f].fd
      BY <1>1, <3>1 DEF WokenForm, CallWith
    <3> QED BY <1>2, <1>4, <3>1, <3>2 DEF WokenForm
  <2>8. CASE EndCall(f)
    <3>1. EndCallForm(f)
      BY <2>8, EndCallFlat
    <3> QED BY <1>2, <1>4, <3>1 DEF EndCallForm
  <2>9. CASE Connect(f)
    <3>1. \A d \in Fds : Open(d)' <=> Open(d)
      BY <1>1, <2>9 DEF Connect, Open
    <3> QED BY <1>2, <2>9, <3>1 DEF Connect, history
  <2>10. CASE SockErr(f)
    BY <1>2, <1>4, <2>10 DEF SockErr, kernel, history
  <2>11. CASE GetCtx(f)
    BY <2>11, GetCtxFds
  <2>12. CASE CancelAll(f)
    <3>1. PICK W \in SUBSET (Fibers \ {f}) : CancelAllForm(f, W)
      BY <2>12, CancelAllFlat
    <3>2. \A g \in Fibers : /\ pc'[g] = "getCtx" <=> pc[g] = "getCtx"
                            /\ pc'[g] \in Closers <=> pc[g] \in Closers
                            /\ pc'[g] = "closeFd" <=> pc[g] = "closeFd"
                            /\ pc'[g] \in Hooked => pc[g] \in Hooked
      BY <3>1 DEF CancelAllForm
    <3> QED BY <1>4, <3>1, <3>2, FdsStay DEF CancelAllForm
  <2>13. CASE Del(f)
    BY <2>13, DelFds
  <2>14. CASE CloseFd(f)
    BY <2>14, CloseFdFds
  <2> QED BY <1>6, <2>3, <2>4, <2>5, <2>6, <2>7, <2>8, <2>9, <2>10, <2>11, <2>12, <2>13, <2>14, Zenon
          DEF FiberStep
<1>7. ASSUME NEW t \in Timers, TimerStep(t)
      PROVE  FdInv'
  <2>1. CASE Expire(t)
    BY <1>3, <1>4, <2>1 DEF Expire, local, kernel
  <2>2. CASE CbLock(t)
    BY <1>3, <1>4, <2>2 DEF CbLock, local, kernel, history
  <2>3. CASE CbFlag(t)
    BY <1>3, <1>4, <2>3 DEF CbFlag, kernel, history
  <2>4. CASE CbCancel(t)
    <3>1. CbCancelForm(t)
      BY <2>4, CbCancelFlat
    <3>2. Wakes
      BY <3>1, CbCancelWakes
    <3> QED BY <1>4, <1>w, <3>1, <3>2 DEF CbCancelForm
  <2> QED BY <1>7, <2>1, <2>2, <2>3, <2>4 DEF TimerStep
<1>8. ASSUME NEW fd \in Fds, Option(fd)
      PROVE  FdInv'
  <2>1. ASSUME NEW on \in BOOLEAN, Fcntl(fd, on)
        PROVE  FdInv'
    <3>1. \A d \in Fds : fdctx'[d] = NoCtx <=> fdctx[d] = NoCtx
      BY <2>1, CtxSet DEF Fcntl, Events, Types
    <3> QED BY <1>3, <1>4, <2>1, <3>1 DEF Fcntl, local, history
  <2>2. ASSUME NEW on \in BOOLEAN, Ioctl(fd, on)
        PROVE  FdInv'
    <3>1. \A d \in Fds : fdctx'[d] = NoCtx <=> fdctx[d] = NoCtx
      BY <2>2, CtxSet DEF Ioctl, Events, Types
    <3>2. \A d \in Fds : d \in nonblock \cup cleared => d \in nonblock' \cup cleared'
      BY <2>2 DEF Ioctl
    <3> QED BY <1>3, <1>4, <2>2, <3>1, <3>2 DEF Ioctl, local
  <2>3. ASSUME NEW e \in Events, SetTimeout(fd, e)
        PROVE  FdInv'
    <3>1. \A d \in Fds : fdctx'[d] = NoCtx <=> fdctx[d] = NoCtx
      BY <2>3, CtxSet DEF SetTimeout, Types
    <3> QED BY <1>3, <1>4, <2>3, <3>1 DEF SetTimeout, local, history, kernel
  <2> QED BY <1>8, <2>1, <2>2, <2>3 DEF Option
<1>9. ASSUME NEW fd \in Fds, KernelStep(fd)
      PROVE  FdInv'
  <2>1. CASE Listen(fd) \/ ConnectEnds(fd)
    <3>1. \A d \in Fds : Open(d)' <=> Open(d)
      BY <1>1, <2>1 DEF Listen, ConnectEnds, Open
    <3> QED BY <1>3, <2>1, <3>1 DEF Listen, ConnectEnds, local, history
  <2>2. ASSUME NEW e \in Events, BecomeReady(fd, e)
        PROVE  FdInv'
    BY <1>3, <1>4, <2>2 DEF BecomeReady, local, history
  <2> QED BY <1>9, <2>1, <2>2 DEF KernelStep
<1>10. ASSUME NEW t \in IdleThreads, IdleStep(t)
       PROVE  FdInv'
  BY <1>w, <1>10, IdleStepWakes
<1> QED BY <1>5, <1>6, <1>7, <1>8, <1>9, <1>10 DEF Step
-----------------------------------------------------------------------------
(* Watched.                                                                *)

LEMMA WatchedStay ==
    ASSUME Watched, NEW g \in Fibers, pc'[g] = "wait", g \notin stale',
           pc[g] = "wait", g \notin stale, call'[g] = call[g],
           Event(call[g].op) \in interest[call[g].fd] => Event(call[g].op) \in interest'[call[g].fd]
    PROVE  Event(call'[g].op) \in interest'[call'[g].fd]
BY DEF Watched

LEMMA StepWatched ==
    ASSUME Types, Watched, Step
    PROVE  Watched'
<1> USE DEF At, Goto, Return
<1>1. /\ pc \in [Fibers -> Labels] /\ call \in [Fibers -> CallsInProgress \cup {NoCall}]
      /\ interest \in [Fds -> SUBSET Events] /\ stale \subseteq Fibers
  BY DEF Types, TypeOK
<1>2. ASSUME UNCHANGED <<pc, call, interest, stale>>
      PROVE  Watched'
  BY <1>2 DEF Watched
<1>3. ASSUME interest' = interest, NEW f \in Fibers, NEW l, l # "wait", pc' = [pc EXCEPT ![f] = l],
             call' = call \/ \E c : call' = [call EXCEPT ![f] = c],
             stale' = stale \/ stale' = stale \ {f}
      PROVE  Watched'
  <2>1. \A g \in Fibers : pc'[g] = "wait" =>
            g # f /\ pc[g] = "wait" /\ call'[g] = call[g] /\ (g \in stale => g \in stale')
    BY <1>1, <1>3
  <2> QED BY <1>3, <2>1, WatchedStay DEF Watched
(* A fiber that waits is registered.                                       *)
<1>4. ASSUME NEW g \in Fibers, pc[g] = "wait"
      PROVE  call[g].fd \in Fds /\ Event(call[g].op) \in Registered(call[g].fd)
  <2>1. call[g].fd \in Fds /\ Event(call[g].op) \in Events
    BY <1>4, InCall, EventType
  <2>2. waiter[call[g].fd][Event(call[g].op)] = g
    BY <1>4, <2>1 DEF Types, WaiterWaits
  <2> QED BY <2>1, <2>2, NoValues DEF Registered
<1>w. ASSUME Wakes, UNCHANGED <<call, stale>>
      PROVE  Watched'
  <2>1. CASE UNCHANGED <<interest, waiter, pc>>
    BY <1>2, <1>w, <2>1
  <2>2. ASSUME NEW fd \in Fds, NEW es \in SUBSET Events, NEW W \in SUBSET Fibers, TriggerForm(fd, es, W),
               NEW g \in Fibers, pc'[g] = "wait", g \notin stale'
        PROVE  Event(call'[g].op) \in interest'[call'[g].fd]
    <3>1. pc[g] = "wait" /\ ~(call[g].fd = fd /\ Event(call[g].op) \in es)
      BY <2>2 DEF TriggerForm
    <3>2. interest'[call[g].fd] = IF call[g].fd = fd THEN Registered(fd) \ es ELSE interest[call[g].fd]
      BY <1>1, <1>4, <2>2, <3>1 DEF TriggerForm
    <3> QED BY <1>4, <1>w, <2>2, <3>1, <3>2, WatchedStay
  <2> QED BY <1>w, <2>1, <2>2, Zenon DEF Wakes, Watched
<1>5. ASSUME NEW f \in Fibers, NewCall(f)
      PROVE  Watched'
  <2>1. ASSUME NEW fd \in Fds, NEW op \in DoIO, Begin(f, op, fd)
        PROVE  Watched'
    BY <1>3, <2>1 DEF Begin, kernel, history
  <2>2. ASSUME NEW fd \in Fds, NEW b \in BOOLEAN, BeginConnect(f, fd, b)
        PROVE  Watched'
    BY <1>3, <2>2 DEF BeginConnect, kernel, history
  <2>3. ASSUME NEW fd \in Fds, Socket(f, fd)
        PROVE  Watched'
    BY <1>3, <2>3 DEF Socket, history
  <2>4. ASSUME NEW fd \in Fds, BeginClose(f, fd)
        PROVE  Watched'
    BY <1>3, <2>4 DEF BeginClose, kernel, history
  <2> QED BY <1>5, <2>1, <2>2, <2>3, <2>4, Zenon DEF NewCall
<1>6. ASSUME NEW f \in Fibers, FiberStep(f)
      PROVE  Watched'
  <2>1. ASSUME pc[f] \in {"try", "raw"}, Finished(f)
        PROVE  Watched'
    <3>1. interest' = interest /\ (DoneForm(f) \/ \E fd \in Fds : AcceptedForm(f, fd))
      BY <2>1, FinishedFlat
    <3>2. CASE DoneForm(f)
      BY <1>3, <3>1, <3>2 DEF DoneForm
    <3>3. ASSUME NEW fd \in Fds, AcceptedForm(f, fd)
          PROVE  Watched'
      BY <1>3, <3>1, <3>3 DEF AcceptedForm
    <3> QED BY <3>1, <3>2, <3>3
  <2>2. ASSUME pc[f] \in {"try", "raw"}, Failed(f)
        PROVE  Watched'
    BY <1>3, <2>2 DEF Failed, kernel, history
  <2>3. CASE Try(f)
    <3>1. CASE Finished(f) \/ Failed(f)
      BY <2>1, <2>2, <2>3, <3>1 DEF Try
    <3>2. CASE ~(Finished(f) \/ Failed(f))
      BY <1>3, <2>3, <3>2 DEF Try, kernel, history
    <3> QED BY <3>1, <3>2
  <2>4. CASE RawCall(f)
    <3>1. CASE Finished(f) \/ Failed(f)
      BY <2>1, <2>2, <2>4, <3>1 DEF RawCall
    <3>2. CASE ~(Finished(f) \/ Failed(f))
      BY <1>3, <2>4, <3>2 DEF RawCall, kernel, history
    <3> QED BY <3>1, <3>2
  <2>5. CASE Arm(f)
    <3>1. ArmForm(f)
      BY <2>5, ArmFlat
    <3>2. call' = call \/ \E c : call' = [call EXCEPT ![f] = c]
      BY <3>1 DEF ArmForm
    <3> QED BY <1>3, <3>1, <3>2 DEF ArmForm
  <2>6. CASE Add(f)
    <3>1. pc[f] = "add" /\ stale' = stale
      BY <2>6, AddFlat
    <3>2. CASE AddOk(f, call[f].fd, Event(call[f].op))
      <4>1. ASSUME NEW g \in Fibers, pc'[g] = "wait", g \notin stale'
            PROVE  Event(call'[g].op) \in interest'[call'[g].fd]
        <5>1. call' = call /\ (pc[g] = "wait" \/ g = f)
          BY <1>1, <3>2, <4>1 DEF AddOk
        <5>2. call[f].fd \in Fds
          BY <3>1, InCall
        <5>3. CASE g = f
          BY <1>1, <3>2, <5>1, <5>2, <5>3 DEF AddOk
        <5>4. CASE g # f
          <6>1. pc[g] = "wait"
            BY <5>1, <5>4
          <6>2. interest'[call[g].fd] = IF call[g].fd = call[f].fd
                                        THEN Registered(call[f].fd) \cup {Event(call[f].op)}
                                        ELSE interest[call[g].fd]
            BY <1>1, <1>4, <3>2, <6>1 DEF AddOk
          <6> QED BY <1>4, <3>1, <4>1, <5>1, <6>1, <6>2, WatchedStay
        <5> QED BY <5>3, <5>4
      <4> QED BY <4>1 DEF Watched
    <3>3. CASE AddRefused(f)
      BY <1>3, <3>1, <3>3 DEF AddRefused
    <3> QED BY <2>6, <3>2, <3>3, AddFlat
  <2>7. CASE Woken(f)
    <3>1. WokenForm(f)
      BY <2>7, WokenFlat
    <3> QED BY <1>3, <3>1 DEF WokenForm
  <2>8. CASE EndCall(f)
    BY <1>3, <2>8, EndCallFlat DEF EndCallForm
  <2>9. CASE Connect(f)
    BY <1>3, <2>9 DEF Connect, history
  <2>10. CASE SockErr(f)
    BY <1>3, <2>10 DEF SockErr, kernel, history
  <2>11. CASE GetCtx(f)
    BY <1>3, <2>11 DEF GetCtx, history
  <2>12. CASE CancelAll(f)
    <3>1. PICK W \in SUBSET (Fibers \ {f}) : CancelAllForm(f, W)
      BY <2>12, CancelAllFlat
    <3>2. ASSUME NEW g \in Fibers, pc'[g] = "wait"
          PROVE  pc[g] = "wait" /\ g \notin W
      BY <3>1, <3>2 DEF CancelAllForm
    <3>3. ASSUME NEW g \in Fibers, pc'[g] = "wait"
          PROVE  interest'[call[g].fd] = interest[call[g].fd]
      <4>1. CASE interest' = interest
        BY <4>1
      <4>2. CASE interest' # interest
        <5>1. /\ interest' = [interest EXCEPT ![call[f].fd] = {}]
              /\ pc[g] = "wait" /\ call[g].fd = call[f].fd => g \in W
          BY <3>1, <4>2 DEF CancelAllForm
        <5> QED BY <1>1, <1>4, <3>2, <3>3, <5>1
      <4> QED BY <4>1, <4>2
    <3> QED BY <3>1, <3>2, <3>3, WatchedStay DEF CancelAllForm, Watched
  <2>13. CASE Del(f)
    BY <1>3, <2>13 DEF Del, kernel, history
  <2>14. CASE CloseFd(f)
    <3>1. /\ pc' = [pc EXCEPT ![f] = "return"] /\ call' = call
          /\ interest' = [interest EXCEPT ![call[f].fd] = {}]
          /\ stale' = stale \cup {g \in Fibers \ {f} : In(g, call[f].fd)}
      BY <2>14 DEF CloseFd
    <3>2. ASSUME NEW g \in Fibers, pc'[g] = "wait", g \notin stale'
          PROVE  g # f /\ pc[g] = "wait" /\ g \notin stale /\ call[g].fd # call[f].fd
      BY <1>1, <3>1, <3>2 DEF In
    <3>3. \A d \in Fds : d # call[f].fd => interest'[d] = interest[d]
      BY <1>1, <3>1
    <3> QED BY <1>4, <3>1, <3>2, <3>3, WatchedStay DEF Watched
  <2> QED BY <1>6, <2>3, <2>4, <2>5, <2>6, <2>7, <2>8, <2>9, <2>10, <2>11, <2>12, <2>13, <2>14, Zenon
          DEF FiberStep
<1>7. ASSUME NEW t \in Timers, TimerStep(t)
      PROVE  Watched'
  <2>1. CASE Expire(t) \/ CbLock(t) \/ CbFlag(t)
    BY <1>2, <2>1 DEF Expire, CbLock, CbFlag, local, kernel, history
  <2>2. CASE CbCancel(t)
    BY <1>w, <2>2, CbCancelFlat, CbCancelWakes DEF CbCancelForm
  <2> QED BY <1>7, <2>1, <2>2 DEF TimerStep
<1>8. ASSUME NEW fd \in Fds, Option(fd)
      PROVE  Watched'
  BY <1>2, <1>8 DEF Option, Fcntl, Ioctl, SetTimeout, local, history, kernel
<1>9. ASSUME NEW fd \in Fds, KernelStep(fd)
      PROVE  Watched'
  BY <1>2, <1>9 DEF KernelStep, Listen, ConnectEnds, BecomeReady, local, history
<1>10. ASSUME NEW t \in IdleThreads, IdleStep(t)
       PROVE  Watched'
  BY <1>w, <1>10, IdleStepWakes
<1> QED BY <1>5, <1>6, <1>7, <1>8, <1>9, <1>10 DEF Step
-----------------------------------------------------------------------------
(* LiveTimers, Expired and Reaching.                                       *)

TimeoutInv == LiveTimers /\ Expired /\ Reaching

(* Steps in which the call of g begins, goes on or ends as calls do, and   *)
(* no callback of its Timers advances.                                     *)
Onward(g) ==
    /\ pc'[g] = "idle" => pc[g] = "idle"
    /\ pc'[g] = "connect" => pc[g] \in {"idle", "connect"}
    /\ pc'[g] \in Rounds => \/ pc[g] \in {"idle", "connect"}
                            \/ pc[g] \in Rounds /\ call'[g].fd = call[g].fd /\ call'[g].op = call[g].op
    /\ pc'[g] = "arm" /\ call'[g].op = "connect" =>
            pc[g] = "connect" \/ (pc[g] = "arm" /\ call[g].op = "connect")
    /\ call'[g].op = "connect" => call[g].op = "connect" \/ pc[g] = "idle"
    /\ pc'[g] \in Pending => /\ g \in stale => g \in stale'
                             /\ g \in cancelled => pc[g] # "woken"
    /\ ret'[g] = "timeout" => ret[g] = "timeout" \/ g \in cancelled

LEMMA TimeoutsStay ==
    ASSUME Types, TimeoutInv, UNCHANGED <<cancelled, fired, overdue, early>>,
           \A t \in Timers : timer'[t].state # "free" => timer'[t] = timer[t],
           \A t \in Timers : timer[t].state = "flagged" => timer'[t] = timer[t],
           \A g \in Fibers : Onward(g)
    PROVE  TimeoutInv'
<1>1. \A t \in Timers : timer[t].state # "free" => timer[t].of \in Fibers
  BY TimerInUse, TimerFields DEF Types
<1>2. LiveTimers'
  <2> SUFFICES ASSUME NEW t \in Timers, timer'[t].state # "free", timer'[t].alive
               PROVE  /\ pc'[timer'[t].of] \notin {"idle", "connect"}
                      /\ pc'[timer'[t].of] \in Rounds =>
                            /\ timer'[t].fd = call'[timer'[t].of].fd
                            /\ timer'[t].event = Event(call'[timer'[t].of].op)
    BY DEF LiveTimers
  <2>1. timer'[t] = timer[t] /\ timer[t].of \in Fibers
    BY <1>1
  <2>2. /\ pc[timer[t].of] \notin {"idle", "connect"}
        /\ pc[timer[t].of] \in Rounds => /\ timer[t].fd = call[timer[t].of].fd
                                        /\ timer[t].event = Event(call[timer[t].of].op)
    BY <2>1 DEF TimeoutInv, LiveTimers
  <2>3. Onward(timer[t].of)
    BY <2>1
  <2> QED BY <2>1, <2>2, <2>3 DEF Onward
<1>3. Expired'
  <2>1. \A t \in Timers : timer'[t].state \in {"queued", "locked", "flagged"} /\ timer'[t].alive
            => timer'[t].of \in fired \cup overdue
    BY DEF TimeoutInv, Expired
  <2>2. ASSUME NEW g \in Fibers
        PROVE  /\ pc'[g] \in {"idle", "connect"} \/ (pc'[g] = "arm" /\ call'[g].op = "connect") => g \notin fired
               /\ pc'[g] = "idle" \/ call'[g].op = "connect" => g \notin overdue
               /\ ret'[g] = "timeout" => g \in cancelled
    <3>1. Onward(g)
      OBVIOUS
    <3>2. /\ pc[g] \in {"idle", "connect"} \/ (pc[g] = "arm" /\ call[g].op = "connect") => g \notin fired
          /\ pc[g] = "idle" \/ call[g].op = "connect" => g \notin overdue
          /\ ret[g] = "timeout" => g \in cancelled
      BY DEF TimeoutInv, Expired
    <3> QED BY <3>1, <3>2 DEF Onward
  <2> QED BY <2>1, <2>2 DEF TimeoutInv, Expired
<1>4. Reaching'
  <2> SUFFICES ASSUME NEW g \in Fibers, g \in cancelled, pc'[g] \in Pending
               PROVE  \/ \E t \in Timers : timer'[t].state = "flagged" /\ timer'[t].of = g /\ timer'[t].alive
                      \/ g \in early \cup stale'
    BY DEF Reaching
  <2>1. Onward(g) /\ Shape(pc[g], call[g], ret[g])
    BY DEF Types, CallShape
  <2>2. pc[g] \notin {"idle", "connect"}
    BY <2>1 DEF TimeoutInv, Expired, Shape
  <2>3. pc[g] \in Pending /\ (g \in stale => g \in stale')
    BY <2>1, <2>2 DEF Onward, Rounds
  <2>4. \/ \E t \in Timers : timer[t].state = "flagged" /\ timer[t].of = g /\ timer[t].alive
        \/ g \in early \cup stale
    BY <2>3 DEF TimeoutInv, Reaching
  <2> QED BY <2>3, <2>4
<1> QED BY <1>2, <1>3, <1>4 DEF TimeoutInv

LEMMA StepTimeouts ==
    ASSUME Types, NoStrayTimer, FdInv, Watched, TimeoutInv, Step
    PROVE  TimeoutInv'
<1> USE DEF At, Goto, Return
<1>1. /\ pc \in [Fibers -> Labels] /\ call \in [Fibers -> CallsInProgress \cup {NoCall}]
      /\ ret \in [Fibers -> Rets] /\ timer \in [Timers -> {FreeTimer} \cup TimersInUse]
      /\ cancelled \subseteq Fibers /\ fired \subseteq Fibers /\ overdue \subseteq Fibers
  BY DEF Types, TypeOK, Rets
<1>2. \A t \in Timers : timer[t].state # "free" => timer[t] \in TimersInUse /\ timer[t].of \in Fibers
  BY TimerInUse, TimerFields DEF Types
<1>3. ASSUME NEW g \in Fibers, pc'[g] = pc[g], call'[g] = call[g], ret'[g] = ret[g], g \in stale => g \in stale',
             pc[g] # "woken" \/ pc'[g] \notin Pending
      PROVE  Onward(g)
  BY <1>3 DEF Onward
(* One call moves on; a Timer that is not flagged may be freed.            *)
<1>4. ASSUME UNCHANGED <<cancelled, fired, overdue, early>>, NEW f \in Fibers, Onward(f),
             timer' = timer \/ timer' = TimerCancelled(f),
             \A g \in Fibers \ {f} : /\ pc'[g] = pc[g] /\ call'[g] = call[g] /\ ret'[g] = ret[g]
                                     /\ g \in stale => g \in stale'
      PROVE  TimeoutInv'
  <2>1. \A t \in Timers : /\ timer'[t].state # "free" => timer'[t] = timer[t]
                          /\ timer[t].state = "flagged" => timer'[t] = timer[t]
    BY <1>4 DEF TimerCancelled, FreeTimer
  <2>2. \A g \in Fibers : Onward(g)
    BY <1>3, <1>4 DEF Pending
  <2> QED BY <1>4, <2>1, <2>2, TimeoutsStay
<1>5. ASSUME UNCHANGED <<cancelled, fired, overdue, early, timer>>, NEW f \in Fibers, NEW l,
             pc' = [pc EXCEPT ![f] = l],
             call' = call \/ \E c : call' = [call EXCEPT ![f] = c],
             ret' = ret \/ \E r \in {"ok", "error", "again"} : ret' = [ret EXCEPT ![f] = r],
             \A g \in Fibers \ {f} : g \in stale => g \in stale',
             \/ l \in {"return", "getCtx", "cancelAll", "del", "closeFd", "raw", "rawConnect"}
                  /\ (call'[f].op = "connect" => call[f].op = "connect" \/ pc[f] = "idle")
             \/ pc[f] = "idle" /\ l \in {"try", "connect"} /\ stale' = stale
             \/ pc[f] = "connect" /\ l = "arm" /\ call' = call /\ stale' = stale
             \/ pc[f] = "try" /\ l = "arm" /\ call' = call /\ stale' = stale /\ call[f].op # "connect"
             \/ pc[f] = "add" /\ l = "wait" /\ call' = call /\ stale' = stale
      PROVE  TimeoutInv'
  <2>1. pc'[f] = l /\ (ret'[f] = "timeout" => ret[f] = "timeout")
    BY <1>1, <1>5
  <2>2. \A g \in Fibers \ {f} : pc'[g] = pc[g] /\ call'[g] = call[g] /\ ret'[g] = ret[g]
    BY <1>1, <1>5
  <2>3. Onward(f)
    BY <1>5, <2>1 DEF Onward, Rounds, Pending
  <2> QED BY <1>4, <1>5, <2>2, <2>3
<1>6. ASSUME UNCHANGED <<timer, cancelled, fired, overdue, early, pc, call, ret, stale>>
      PROVE  TimeoutInv'
  BY <1>6 DEF TimeoutInv, LiveTimers, Expired, Reaching
<1>7. ASSUME NEW f \in Fibers, NewCall(f)
      PROVE  TimeoutInv'
  <2>1. ASSUME NEW fd \in Fds, NEW op \in DoIO, Begin(f, op, fd)
        PROVE  TimeoutInv'
    <3>1. /\ UNCHANGED <<cancelled, fired, overdue, early, timer, ret, stale>> /\ pc[f] = "idle"
          /\ \E c : call' = [call EXCEPT ![f] = c]
      BY <2>1 DEF Begin, history
    <3>2. PICK l \in {"try", "raw"} : pc' = [pc EXCEPT ![f] = l]
      BY <2>1 DEF Begin
    <3> QED BY <1>5, <3>1, <3>2
  <2>2. ASSUME NEW fd \in Fds, NEW b \in BOOLEAN, BeginConnect(f, fd, b)
        PROVE  TimeoutInv'
    <3>1. /\ UNCHANGED <<cancelled, fired, overdue, early, timer, stale>> /\ pc[f] = "idle"
          /\ \E c : call' = [call EXCEPT ![f] = c]
      BY <2>2 DEF BeginConnect, history
    <3>2. CASE fdctx[fd] = NoCtx
      BY <1>5, <2>2, <3>1, <3>2 DEF BeginConnect
    <3>3. CASE fdctx[fd] # NoCtx
      <4>1. PICK l \in {"connect", "rawConnect"} : pc' = [pc EXCEPT ![f] = l] /\ ret' = ret
        BY <2>2, <3>3 DEF BeginConnect
      <4> QED BY <1>5, <3>1, <4>1
    <3> QED BY <3>2, <3>3
  <2>3. ASSUME NEW fd \in Fds, Socket(f, fd)
        PROVE  TimeoutInv'
    BY <1>5, <2>3 DEF Socket, history
  <2>4. ASSUME NEW fd \in Fds, BeginClose(f, fd)
        PROVE  TimeoutInv'
    <3>1. PICK l \in {"cancelAll", "closeFd"} : pc' = [pc EXCEPT ![f] = l]
      BY <2>4 DEF BeginClose
    <3> QED BY <1>5, <2>4, <3>1 DEF BeginClose, history
  <2> QED BY <1>7, <2>1, <2>2, <2>3, <2>4, Zenon DEF NewCall
<1>8. ASSUME NEW f \in Fibers, FiberStep(f)
      PROVE  TimeoutInv'
  <2>0. Shape(pc[f], call[f], ret[f])
    BY DEF Types, CallShape
  <2>1. ASSUME pc[f] \in {"try", "raw"}, Finished(f)
        PROVE  TimeoutInv'
    <3>1. UNCHANGED <<timer, cancelled, fired, overdue, early>> /\ (DoneForm(f) \/ \E fd \in Fds : AcceptedForm(f, fd))
      BY <2>1, FinishedFlat
    <3>2. CASE DoneForm(f)
      BY <1>5, <3>1, <3>2 DEF DoneForm
    <3>3. ASSUME NEW fd \in Fds, AcceptedForm(f, fd)
          PROVE  TimeoutInv'
      <4>1. call'[f].op # "connect" /\ \A g \in Fibers \ {f} : g \in stale => g \in stale'
        BY <1>1, <3>3 DEF AcceptedForm
      <4> QED BY <1>5, <3>1, <3>3, <4>1 DEF AcceptedForm
    <3> QED BY <3>1, <3>2, <3>3
  <2>2. ASSUME pc[f] \in {"try", "raw"}, Failed(f)
        PROVE  TimeoutInv'
    BY <1>5, <2>2 DEF Failed, history
  <2>3. CASE Try(f)
    <3>1. CASE Finished(f) \/ Failed(f)
      BY <2>1, <2>2, <2>3, <3>1 DEF Try
    <3>2. CASE ~(Finished(f) \/ Failed(f))
      <4>1. call[f].op # "connect" /\ pc[f] = "try"
        BY <2>0, <2>3 DEF Try, Shape, DoIO
      <4> QED BY <1>5, <2>3, <3>2, <4>1 DEF Try, history
    <3> QED BY <3>1, <3>2
  <2>4. CASE RawCall(f)
    <3>1. CASE Finished(f) \/ Failed(f)
      BY <2>1, <2>2, <2>4, <3>1 DEF RawCall
    <3>2. CASE ~(Finished(f) \/ Failed(f))
      BY <1>5, <2>4, <3>2 DEF RawCall, history
    <3> QED BY <3>1, <3>2
  <2>5. CASE Arm(f)
    <3>1. ArmForm(f)
      BY <2>5, ArmFlat
    <3>2. /\ \A g \in Fibers : /\ pc'[g] = IF g = f THEN "add" ELSE pc[g]
                               /\ call'[g].fd = call[g].fd /\ call'[g].op = call[g].op
                               /\ g # f => call'[g] = call[g]
          /\ pc[f] = "arm"
      BY <1>1, <3>1 DEF ArmForm, CallWith
    <3>3. \A t \in Timers : \/ timer'[t] = timer[t]
                            \/ /\ timer[t].state = "free"
                               /\ timer'[t] = [state |-> "armed", of |-> f, fd |-> call[f].fd,
                                               event |-> Event(call[f].op), alive |-> TRUE]
      BY <1>1, <3>1 DEF ArmForm
    <3>4. LiveTimers'
      <4> SUFFICES ASSUME NEW t \in Timers, timer'[t].state # "free", timer'[t].alive
                   PROVE  /\ pc'[timer'[t].of] \notin {"idle", "connect"}
                          /\ pc'[timer'[t].of] \in Rounds =>
                                /\ timer'[t].fd = call'[timer'[t].of].fd
                                /\ timer'[t].event = Event(call'[timer'[t].of].op)
        BY DEF LiveTimers
      <4>1. CASE timer'[t] = timer[t]
        BY <1>2, <3>2, <4>1 DEF TimeoutInv, LiveTimers, Rounds, Pending
      <4>2. CASE timer'[t] # timer[t]
        BY <3>2, <3>3, <4>2
      <4> QED BY <4>1, <4>2
    <3>5. fired' \cup overdue' = fired \cup overdue /\ f \notin fired' /\ fired' \subseteq fired
      BY <3>1 DEF ArmForm
    <3>6. Expired'
      <4>1. \A t \in Timers : timer'[t].state \in {"queued", "locked", "flagged"} => timer'[t] = timer[t]
        BY <3>3
      <4>2. ASSUME NEW g \in Fibers
            PROVE  /\ pc'[g] \in {"idle", "connect"} \/ (pc'[g] = "arm" /\ call'[g].op = "connect") => g \notin fired'
                   /\ pc'[g] = "idle" \/ call'[g].op = "connect" => g \notin overdue'
                   /\ ret'[g] = "timeout" => g \in cancelled'
        <5>1. /\ pc[g] \in {"idle", "connect"} \/ (pc[g] = "arm" /\ call[g].op = "connect") => g \notin fired
              /\ pc[g] = "idle" \/ call[g].op = "connect" => g \notin overdue
              /\ ret[g] = "timeout" => g \in cancelled
          BY DEF TimeoutInv, Expired
        <5>2. overdue' = overdue \cup (fired \cap {f}) /\ UNCHANGED <<ret, cancelled>>
          BY <3>1 DEF ArmForm
        <5> QED BY <3>2, <3>5, <5>1, <5>2
      <4> QED BY <3>1, <3>5, <4>1, <4>2 DEF TimeoutInv, Expired, ArmForm
    <3>7. Reaching'
      <4>1. \A t \in Timers : timer[t].state = "flagged" => timer'[t] = timer[t]
        BY <3>3
      <4>2. \A g \in Fibers : pc'[g] \in Pending => pc[g] \in Pending
        BY <3>2 DEF Pending
      <4> QED BY <3>1, <4>1, <4>2 DEF TimeoutInv, Reaching, ArmForm
    <3> QED BY <3>4, <3>6, <3>7 DEF TimeoutInv
  <2>6. CASE Add(f)
    <3>1. pc[f] = "add" /\ UNCHANGED <<cancelled, fired, overdue, early, stale>>
      BY <2>6, AddFlat
    <3>2. CASE AddOk(f, call[f].fd, Event(call[f].op))
      BY <1>5, <3>1, <3>2 DEF AddOk
    <3>3. CASE AddRefused(f)
      <4>1. \A g \in Fibers \ {f} : pc'[g] = pc[g] /\ call'[g] = call[g] /\ ret'[g] = ret[g]
        BY <1>1, <3>3 DEF AddRefused
      <4>2. /\ pc'[f] \in {"sockErr", "return"} /\ call'[f].op = call[f].op
            /\ ret'[f] = "timeout" => ret[f] = "timeout"
        BY <1>1, <3>3 DEF AddRefused, CallWith
      <4>3. Onward(f)
        BY <4>2 DEF Onward, Rounds, Pending
      <4> QED BY <1>4, <3>1, <3>3, <4>1, <4>3 DEF AddRefused
    <3> QED BY <2>6, <3>2, <3>3, AddFlat
  <2>7. CASE Woken(f)
    <3>1. WokenForm(f)
      BY <2>7, WokenFlat
    <3>2. \A g \in Fibers \ {f} : pc'[g] = pc[g] /\ call'[g] = call[g] /\ ret'[g] = ret[g]
      BY <1>1, <3>1 DEF WokenForm
    <3>3. /\ pc'[f] \in {"sockErr", "return", "try"} /\ call'[f].op = call[f].op /\ call'[f].fd = call[f].fd
          /\ pc[f] = "woken"
          /\ ret'[f] = "timeout" => ret[f] = "timeout" \/ f \in cancelled
          /\ pc'[f] = "try" => f \notin cancelled
      BY <1>1, <3>1 DEF WokenForm, CallWith
    <3>4. UNCHANGED <<cancelled, fired, overdue, early, stale>> /\ timer' = TimerCancelled(f)
      BY <3>1 DEF WokenForm
    <3>5. Onward(f)
      BY <3>3, <3>4 DEF Onward, Rounds, Pending
    <3> QED BY <1>4, <3>2, <3>4, <3>5
  <2>8. CASE EndCall(f)
    <3>1. EndCallForm(f)
      BY <2>8, EndCallFlat
    <3>2. \A g \in Fibers \ {f} : pc'[g] = pc[g] /\ call'[g] = call[g] /\ ret'[g] = ret[g]
      BY <1>1, <3>1 DEF EndCallForm
    <3>3. pc'[f] = "idle" /\ ret'[f] = "none"
      BY <1>1, <3>1 DEF EndCallForm
    <3>4. ASSUME NEW t \in Timers, timer'[t].state # "free", timer'[t].alive
          PROVE  timer'[t] = timer[t] /\ timer[t].of \in Fibers \ {f}
      <4>1. timer[t].state # "free" /\ timer[t].of # f
        BY <3>1, <3>4 DEF EndCallForm, FreeTimer
      <4> QED BY <1>2, <3>1, <4>1 DEF EndCallForm
    <3>5. ASSUME NEW t \in Timers, timer[t].state # "free", timer[t].of # f
          PROVE  timer'[t] = timer[t]
      BY <3>1, <3>5 DEF EndCallForm
    <3>6. LiveTimers'
      BY <3>2, <3>4 DEF TimeoutInv, LiveTimers
    <3>7. \A g \in Fibers : /\ g \in fired' \cup overdue' <=> g # f /\ g \in fired \cup overdue
                            /\ g \in fired' => g # f /\ g \in fired
                            /\ g \in overdue' => g # f /\ g \in overdue
                            /\ g \in cancelled' <=> g # f /\ g \in cancelled
                            /\ g # f => (g \in early' \cup stale' <=> g \in early \cup stale)
      BY <3>1 DEF EndCallForm
    <3>8. Expired'
      <4>1. \A t \in Timers : timer'[t].state \in {"queued", "locked", "flagged"} /\ timer'[t].alive
                => timer'[t].of \in fired' \cup overdue'
        BY <3>4, <3>7 DEF TimeoutInv, Expired
      <4>2. cancelled' \subseteq fired' \cup overdue'
        BY <1>1, <3>1 DEF EndCallForm, TimeoutInv, Expired
      <4>3. ASSUME NEW g \in Fibers
            PROVE  /\ pc'[g] \in {"idle", "connect"} \/ (pc'[g] = "arm" /\ call'[g].op = "connect") => g \notin fired'
                   /\ pc'[g] = "idle" \/ call'[g].op = "connect" => g \notin overdue'
                   /\ ret'[g] = "timeout" => g \in cancelled'
        BY <3>2, <3>3, <3>7 DEF TimeoutInv, Expired
      <4> QED BY <4>1, <4>2, <4>3 DEF Expired
    <3>9. Reaching'
      <4> SUFFICES ASSUME NEW g \in Fibers, g \in cancelled', pc'[g] \in Pending
                   PROVE  \/ \E t \in Timers : timer'[t].state = "flagged" /\ timer'[t].of = g /\ timer'[t].alive
                          \/ g \in early' \cup stale'
        BY DEF Reaching
      <4>1. g # f /\ g \in cancelled /\ pc[g] \in Pending
        BY <3>2, <3>7
      <4>2. \/ \E t \in Timers : timer[t].state = "flagged" /\ timer[t].of = g /\ timer[t].alive
            \/ g \in early \cup stale
        BY <4>1 DEF TimeoutInv, Reaching
      <4> QED BY <3>5, <3>7, <4>1, <4>2
    <3> QED BY <3>6, <3>8, <3>9 DEF TimeoutInv
  <2>9. CASE Connect(f)
    <3>1. UNCHANGED <<timer, cancelled, fired, overdue, early, stale, call>>
      BY <2>9 DEF Connect, history
    <3>2. \/ pc' = [pc EXCEPT ![f] = "return"] /\ \E r \in {"ok", "error", "again"} : ret' = [ret EXCEPT ![f] = r]
          \/ pc[f] = "connect" /\ pc' = [pc EXCEPT ![f] = "arm"] /\ ret' = ret
      BY <2>9 DEF Connect
    <3> QED BY <1>5, <3>1, <3>2
  <2>10. CASE SockErr(f)
    BY <1>5, <2>10 DEF SockErr, history
  <2>11. CASE GetCtx(f)
    BY <1>5, <2>11 DEF GetCtx, history
  <2>12. CASE CancelAll(f)
    <3>1. PICK W \in SUBSET (Fibers \ {f}) : CancelAllForm(f, W)
      BY <2>12, CancelAllFlat
    <3>2. ASSUME NEW g \in Fibers
          PROVE  Onward(g)
      <4>1. \/ pc'[g] = pc[g] /\ pc[g] # "cancelAll"
            \/ pc'[g] = "del" \/ (pc'[g] = "woken" /\ pc[g] = "wait")
            \/ pc'[g] = pc[g]
        BY <3>1 DEF CancelAllForm
      <4> QED BY <3>1, <4>1 DEF CancelAllForm, Onward, Rounds, Pending
    <3> QED BY <3>1, <3>2, TimeoutsStay DEF CancelAllForm
  <2>13. CASE Del(f)
    BY <1>5, <2>13 DEF Del, history
  <2>14. CASE CloseFd(f)
    BY <1>5, <2>14 DEF CloseFd
  <2> QED BY <1>8, <2>3, <2>4, <2>5, <2>6, <2>7, <2>8, <2>9, <2>10, <2>11, <2>12, <2>13, <2>14, Zenon
          DEF FiberStep
<1>9. ASSUME NEW t \in Timers, TimerStep(t)
      PROVE  TimeoutInv'
  <2>0. ASSUME timer[t] \in TimersInUse, NEW s, timer' = [timer EXCEPT ![t] = TimerWith(t, s)]
        PROVE  /\ \A u \in Timers \ {t} : timer'[u] = timer[u]
               /\ timer'[t].state = s /\ timer'[t].of = timer[t].of /\ timer'[t].fd = timer[t].fd
               /\ timer'[t].event = timer[t].event /\ timer'[t].alive = timer[t].alive
               /\ timer[t].state # "free" /\ timer[t].of \in Fibers
    BY <1>1, <2>0, TimerFields DEF TimerWith, States
  <2>f. ASSUME timer' = [timer EXCEPT ![t] = FreeTimer]
        PROVE  /\ \A u \in Timers \ {t} : timer'[u] = timer[u]
               /\ timer'[t].state = "free"
    BY <1>1, <2>f DEF FreeTimer
  (* The callback of t goes on to s or ends, and no call moves.            *)
  <2>1. ASSUME timer[t] \in TimersInUse, NEW s,
               \/ timer' = [timer EXCEPT ![t] = TimerWith(t, s)]
               \/ timer' = [timer EXCEPT ![t] = FreeTimer],
               UNCHANGED <<pc, call>>
        PROVE  LiveTimers'
    <3> SUFFICES ASSUME NEW u \in Timers, timer'[u].state # "free", timer'[u].alive
                 PROVE  /\ pc[timer'[u].of] \notin {"idle", "connect"}
                        /\ pc[timer'[u].of] \in Rounds =>
                              /\ timer'[u].fd = call[timer'[u].of].fd
                              /\ timer'[u].event = Event(call[timer'[u].of].op)
      BY <2>1 DEF LiveTimers
    <3>1. CASE u # t
      BY <2>0, <2>1, <2>f, <3>1 DEF TimeoutInv, LiveTimers
    <3>2. CASE u = t
      BY <2>0, <2>1, <2>f, <3>2 DEF TimeoutInv, LiveTimers
    <3> QED BY <3>1, <3>2
  <2>2. CASE Expire(t)
    <3>1. ExpireForm(t)
      BY <2>2, ExpireFlat
    <3>2. /\ \A u \in Timers \ {t} : timer'[u] = timer[u]
          /\ timer'[t].state = "queued" /\ timer'[t].of = timer[t].of /\ timer'[t].alive = timer[t].alive
          /\ timer[t].state = "armed" /\ timer[t].of \in Fibers
      BY <2>0, <3>1 DEF ExpireForm
    <3>3. pc[timer[t].of] \in {"add", "wait", "woken"} /\ timer[t].alive
      BY <3>2 DEF NoStrayTimer
    <3>4. /\ fired' = fired \cup {timer[t].of}
          /\ UNCHANGED <<pc, call, ret, cancelled, overdue, early, stale>>
      BY <3>1, <3>3 DEF ExpireForm
    <3>5. LiveTimers'
      BY <2>1, <3>1 DEF ExpireForm
    <3>6. Expired'
      <4>1. \A u \in Timers : timer'[u].state \in {"queued", "locked", "flagged"} /\ timer'[u].alive
                => timer'[u].of \in fired' \cup overdue'
        BY <3>2, <3>4 DEF TimeoutInv, Expired
      <4>2. ASSUME NEW g \in Fibers
            PROVE  /\ pc[g] \in {"idle", "connect"} \/ (pc[g] = "arm" /\ call[g].op = "connect") => g \notin fired'
                   /\ pc[g] = "idle" \/ call[g].op = "connect" => g \notin overdue
                   /\ ret[g] = "timeout" => g \in cancelled
        BY <3>3, <3>4 DEF TimeoutInv, Expired
      <4> QED BY <3>4, <4>1, <4>2 DEF TimeoutInv, Expired
    <3>7. Reaching'
      BY <3>2, <3>4 DEF TimeoutInv, Reaching
    <3> QED BY <3>5, <3>6, <3>7 DEF TimeoutInv
  <2>3. CASE CbLock(t)
    <3>1. CbLockForm(t)
      BY <2>3, CbLockFlat
    <3>2. /\ \A u \in Timers \ {t} : timer'[u] = timer[u]
          /\ timer[t].state = "queued"
          /\ \/ timer'[t].state = "free"
             \/ timer'[t].of = timer[t].of /\ timer'[t].alive = timer[t].alive
      BY <2>0, <2>f, <3>1 DEF CbLockForm
    <3>3. UNCHANGED <<pc, call, ret, cancelled, fired, overdue, early, stale>>
      BY <3>1 DEF CbLockForm
    <3>4. LiveTimers'
      BY <2>1, <3>1 DEF CbLockForm
    <3>5. Expired'
      BY <3>2, <3>3 DEF TimeoutInv, Expired
    <3>6. Reaching'
      BY <3>2, <3>3 DEF TimeoutInv, Reaching
    <3> QED BY <3>4, <3>5, <3>6 DEF TimeoutInv
  <2>4. CASE CbFlag(t)
    <3>1. CbFlagForm(t)
      BY <2>4, CbFlagFlat
    <3>2. /\ \A u \in Timers \ {t} : timer'[u] = timer[u]
          /\ timer'[t].state = "flagged" /\ timer'[t].of = timer[t].of /\ timer'[t].alive = timer[t].alive
          /\ timer[t].state = "locked" /\ timer[t].of \in Fibers
      BY <2>0, <3>1 DEF CbFlagForm
    <3>3. /\ cancelled' = IF timer[t].alive THEN cancelled \cup {timer[t].of} ELSE cancelled
          /\ UNCHANGED <<pc, call, ret, fired, overdue, early, stale>>
      BY <3>1 DEF CbFlagForm
    <3>4. LiveTimers'
      BY <2>1, <3>1, <3>3 DEF CbFlagForm
    <3>5. cancelled \subseteq cancelled' /\ cancelled' \subseteq fired \cup overdue
      BY <3>2, <3>3 DEF TimeoutInv, Expired
    <3>6. Expired'
      BY <3>2, <3>3, <3>5 DEF TimeoutInv, Expired
    <3>7. Reaching'
      <4> SUFFICES ASSUME NEW g \in Fibers, g \in cancelled', pc[g] \in Pending
                   PROVE  \/ \E u \in Timers : timer'[u].state = "flagged" /\ timer'[u].of = g /\ timer'[u].alive
                          \/ g \in early \cup stale
        BY <3>3 DEF Reaching
      <4>1. CASE g \in cancelled
        BY <3>2, <4>1 DEF TimeoutInv, Reaching
      <4>2. CASE g \notin cancelled
        BY <3>2, <3>3, <4>2
      <4> QED BY <4>1, <4>2
    <3> QED BY <3>4, <3>6, <3>7 DEF TimeoutInv
  <2>5. CASE CbCancel(t)
    <3>1. CbCancelForm(t) /\ timer[t].fd \in Fds /\ timer[t].event \in Events /\ timer[t].of \in Fibers
      BY <2>5, CbCancelFlat, TimerFields DEF CbCancelForm
    <3>2. /\ \A u \in Timers \ {t} : timer'[u] = timer[u]
          /\ timer'[t].state = "free"
      BY <2>f, <3>1 DEF CbCancelForm
    <3>3. UNCHANGED <<call, ret, cancelled, fired, overdue, stale>>
      BY <3>1 DEF CbCancelForm
    <3>4. \A g \in Fibers : pc'[g] = pc[g] \/ (pc[g] = "wait" /\ pc'[g] = "woken")
      BY <3>1, CbCancelWakes, WakesMove
    <3>5. LiveTimers'
      <4> SUFFICES ASSUME NEW u \in Timers, timer'[u].state # "free", timer'[u].alive
                   PROVE  /\ pc'[timer'[u].of] \notin {"idle", "connect"}
                          /\ pc'[timer'[u].of] \in Rounds =>
                                /\ timer'[u].fd = call[timer'[u].of].fd
                                /\ timer'[u].event = Event(call[timer'[u].of].op)
        BY <3>3 DEF LiveTimers
      <4>1. timer'[u] = timer[u] /\ timer[u].of \in Fibers
        BY <1>2, <3>2
      <4> QED BY <3>4, <4>1 DEF TimeoutInv, LiveTimers, Rounds, Pending
    <3>6. Expired'
      <4>1. \A u \in Timers : timer'[u].state \in {"queued", "locked", "flagged"} => timer'[u] = timer[u]
        BY <3>2
      <4>2. ASSUME NEW g \in Fibers
            PROVE  pc'[g] \in {"idle", "connect", "arm"} => pc'[g] = pc[g]
        BY <3>4
      <4> QED BY <3>3, <4>1, <4>2 DEF TimeoutInv, Expired
    <3>7. Reaching'
      <4> SUFFICES ASSUME NEW g \in Fibers, g \in cancelled, pc'[g] \in Pending
                   PROVE  \/ \E u \in Timers : timer'[u].state = "flagged" /\ timer'[u].of = g /\ timer'[u].alive
                          \/ g \in early' \cup stale
        BY <3>3 DEF Reaching
      <4>1. pc'[g] = pc[g] /\ pc[g] \in Pending
        BY <3>4 DEF Pending
      <4>2. early \subseteq early'
        BY <3>1 DEF CbCancelForm
      <4>3. \/ \E u \in Timers : timer[u].state = "flagged" /\ timer[u].of = g /\ timer[u].alive
            \/ g \in early \cup stale
        BY <4>1 DEF TimeoutInv, Reaching
      <4>4. CASE timer[t].of = g /\ timer[t].alive /\ pc[g] = "wait" /\ g \notin stale
        <5>1. timer[t].fd = call[g].fd /\ timer[t].event = Event(call[g].op)
          BY <3>1, <4>1, <4>4 DEF CbCancelForm, TimeoutInv, LiveTimers, Rounds
        <5>2. timer[t].event \in Registered(timer[t].fd)
          BY <3>1, <4>4, <5>1, NoValues DEF Registered, Types, WaiterWaits
        <5>3. CtlDel(timer[t].fd)
          BY <4>4, <5>1 DEF CtlDel, FdInv, HookedFds, Hooked, Watched
        <5>4. PICK W \in SUBSET Fibers : TriggerForm(timer[t].fd, {timer[t].event}, W)
          BY <3>1, <5>2, <5>3 DEF CbCancelForm
        <5>5. g \in W /\ pc'[g] = "woken"
          BY <4>4, <5>1, <5>4 DEF TriggerForm
        <5> QED BY <4>1, <4>4, <5>5
      <4>5. CASE timer[t].of = g /\ timer[t].alive /\ pc[g] # "wait"
        BY <3>1, <4>1, <4>5 DEF CbCancelForm, Pending
      <4>6. CASE ~(timer[t].of = g /\ timer[t].alive)
        BY <3>2, <4>2, <4>3, <4>6
      <4> QED BY <4>4, <4>5, <4>6
    <3> QED BY <3>5, <3>6, <3>7 DEF TimeoutInv
  <2> QED BY <1>9, <2>2, <2>3, <2>4, <2>5 DEF TimerStep
<1>10. ASSUME NEW fd \in Fds, Option(fd)
       PROVE  TimeoutInv'
  BY <1>6, <1>10 DEF Option, Fcntl, Ioctl, SetTimeout, local, history
<1>11. ASSUME NEW fd \in Fds, KernelStep(fd)
       PROVE  TimeoutInv'
  BY <1>6, <1>11 DEF KernelStep, Listen, ConnectEnds, BecomeReady, local, history
<1>12. ASSUME NEW t \in IdleThreads, IdleStep(t)
       PROVE  TimeoutInv'
  <2>1. Wakes /\ UNCHANGED <<timer, call, ret, cancelled, fired, overdue, early, stale>>
    BY <1>12, IdleStepWakes
  <2>2. ASSUME NEW g \in Fibers
        PROVE  Onward(g)
    <3>1. pc'[g] = pc[g] \/ (pc[g] = "wait" /\ pc'[g] = "woken")
      BY <2>1, WakesMove
    <3> QED BY <2>1, <3>1 DEF Onward, Rounds, Pending
  <2> QED BY <2>1, <2>2, TimeoutsStay
<1> QED BY <1>7, <1>8, <1>9, <1>10, <1>11, <1>12 DEF Step
-----------------------------------------------------------------------------
(* Reports.                                                                *)

(* Only connect_f starts a connection attempt.                             *)
LEMMA AttemptsStart ==
    ASSUME Types, Step, ~\E f \in Fibers : Connect(f), NEW d \in Fds, sock'[d] = "connecting"
    PROVE  sock[d] = "connecting"
<1>1. sock \in [Fds -> {"closed", "new", "listening", "connecting", "connected", "failed"}]
  BY DEF Types, TypeOK
<1>2. ASSUME sock' = sock \/ \E e, s : s # "connecting" /\ sock' = [sock EXCEPT ![e] = s]
      PROVE  sock[d] = "connecting"
  BY <1>1, <1>2
<1>3. ASSUME NEW f \in Fibers, NewCall(f)
      PROVE  sock' = sock \/ \E e, s : s # "connecting" /\ sock' = [sock EXCEPT ![e] = s]
  <2>1. CASE \E fd \in Fds : Socket(f, fd)
    BY <2>1 DEF Socket
  <2>2. CASE ~\E fd \in Fds : Socket(f, fd)
    BY <1>3, <2>2 DEF NewCall, Begin, BeginConnect, BeginClose, kernel
  <2> QED BY <2>1, <2>2
<1>4. ASSUME NEW f \in Fibers, FiberStep(f)
      PROVE  sock' = sock \/ \E e, s : s # "connecting" /\ sock' = [sock EXCEPT ![e] = s]
  <2>1. ASSUME pc[f] \in {"try", "raw"}, Finished(f)
        PROVE  sock' = sock \/ \E e, s : s # "connecting" /\ sock' = [sock EXCEPT ![e] = s]
    <3>1. CASE DoneForm(f)
      BY <3>1 DEF DoneForm
    <3>2. ASSUME NEW fd \in Fds, AcceptedForm(f, fd)
          PROVE  \E e, s : s # "connecting" /\ sock' = [sock EXCEPT ![e] = s]
      BY <3>2 DEF AcceptedForm
    <3> QED BY <2>1, <3>1, <3>2, FinishedFlat
  <2>2. CASE Try(f) \/ RawCall(f)
    BY <2>1, <2>2 DEF Try, RawCall, Failed, At, kernel
  <2>3. CASE Arm(f) \/ Add(f) \/ Woken(f) \/ EndCall(f)
    BY <2>3 DEF Arm, Add, Woken, EndCall, kernel
  <2>4. CASE SockErr(f) \/ GetCtx(f) \/ CancelAll(f) \/ Del(f)
    BY <2>4 DEF SockErr, GetCtx, CancelAll, Del, kernel
  <2>5. CASE CloseFd(f)
    BY <2>5 DEF CloseFd
  <2> QED BY <1>4, <2>2, <2>3, <2>4, <2>5, Zenon DEF FiberStep
<1>5. ASSUME NEW fd \in Fds, KernelStep(fd)
      PROVE  sock' = sock \/ \E e, s : s # "connecting" /\ sock' = [sock EXCEPT ![e] = s]
  BY <1>5 DEF KernelStep, Listen, ConnectEnds, BecomeReady
<1>6. CASE \/ \E t \in Timers : TimerStep(t)
           \/ \E fd \in Fds : Option(fd)
           \/ \E t \in IdleThreads : IdleStep(t)
  BY <1>6, IdleStepWakes DEF TimerStep, Expire, CbLock, CbFlag, CbCancel,
        Option, Fcntl, Ioctl, SetTimeout, kernel
<1> QED BY <1>2, <1>3, <1>4, <1>5, <1>6 DEF Step

LEMMA StepReports ==
    ASSUME Types, Connected, Reports, Step
    PROVE  Reports'
<1>1. /\ results \in [IdleThreads -> SUBSET Results]
      /\ sock \in [Fds -> {"closed", "new", "listening", "connecting", "connected", "failed"}]
  BY DEF Types, TypeOK
<1>2. \A t \in IdleThreads : \A r \in results[t] :
        /\ r.fd \in Fds
        /\ r.ev \cap {"WRITE", "HUP"} # {} => r.old \/ sock[r.fd] # "connecting"
  BY <1>1, ResultFields DEF Reports
<1>3. ASSUME NEW f \in Fibers, Connect(f)
      PROVE  Reports'
  <2>1. CASE sock[call[f].fd] # "new"
    BY <1>3, <2>1 DEF Connect, Reports
  <2>2. CASE sock[call[f].fd] = "new"
    <3>1. results' = Aged(call[f].fd) /\ \A d \in Fds : d # call[f].fd => sock'[d] = sock[d]
      BY <1>1, <1>3, <2>2 DEF Connect
    <3>2. ASSUME NEW t \in IdleThreads, NEW q \in results'[t], q.ev \cap {"WRITE", "HUP"} # {}
          PROVE  q.old \/ sock'[q.fd] # "connecting"
      <4>1. PICK r \in results[t] : q = [fd |-> r.fd, ev |-> r.ev, old |-> r.old \/ r.fd = call[f].fd]
        BY <3>1, <3>2 DEF Aged
      <4>2. q.fd = r.fd /\ q.ev = r.ev /\ (q.old <=> r.old \/ r.fd = call[f].fd)
        BY <4>1
      <4>3. CASE r.fd = call[f].fd
        BY <4>2, <4>3
      <4>4. CASE r.fd # call[f].fd
        <5>1. sock'[r.fd] = sock[r.fd] /\ (r.old \/ sock[r.fd] # "connecting")
          BY <1>2, <3>1, <3>2, <4>2, <4>4
        <5> QED BY <4>2, <5>1
      <4> QED BY <4>3, <4>4
    <3> QED BY <3>2 DEF Reports
  <2> QED BY <2>1, <2>2
<1>4. ASSUME NEW t \in IdleThreads, EpollWait(t)
      PROVE  Reports'
  <2>1. PICK ds \in SUBSET Fds :
           results' = [results EXCEPT ![t] = {[fd |-> fd, ev |-> Reported(fd), old |-> FALSE] : fd \in ds}]
    BY <1>4, EpollWaitFlat DEF EpollWaitForm
  <2>2. ASSUME NEW fd \in Fds, Reported(fd) \cap {"WRITE", "HUP"} # {}
        PROVE  sock[fd] # "connecting"
    <3>1. ready[fd] \subseteq Events
      BY DEF Types, TypeOK
    <3>2. CASE "WRITE" \in ready[fd]
      BY <3>2 DEF Connected
    <3>3. CASE "WRITE" \notin ready[fd]
      BY <2>2, <3>1, <3>3 DEF Reported, Events
    <3> QED BY <3>2, <3>3
  <2>3. ASSUME NEW u \in IdleThreads, NEW q \in results'[u], q.ev \cap {"WRITE", "HUP"} # {}
        PROVE  q.old \/ sock'[q.fd] # "connecting"
    <3>1. sock' = sock
      BY <1>4, EpollWaitFlat DEF EpollWaitForm
    <3>2. CASE u = t
      <4>1. PICK fd \in ds : q = [fd |-> fd, ev |-> Reported(fd), old |-> FALSE]
        BY <1>1, <2>1, <2>3, <3>2
      <4>2. q.fd = fd /\ q.ev = Reported(fd)
        BY <4>1
      <4> QED BY <2>2, <2>3, <3>1, <4>2
    <3>3. CASE u # t
      BY <1>1, <1>2, <2>1, <2>3, <3>1, <3>3
    <3> QED BY <3>2, <3>3
  <2> QED BY <2>3 DEF Reports
<1>5. ASSUME NEW t \in IdleThreads, HandleResult(t)
      PROVE  Reports'
  <2>1. PICK r \in results[t] : HandleForm(t, r)
    BY <1>5, HandleFlat
  <2>2. sock' = sock /\ \A u \in IdleThreads : results'[u] \subseteq results[u]
    BY <1>1, <2>1 DEF HandleForm
  <2> QED BY <2>2 DEF Reports
<1>6. ASSUME results' = results, ~\E f \in Fibers : Connect(f)
      PROVE  Reports'
  <2>1. \A d \in Fds : sock'[d] = "connecting" => sock[d] = "connecting"
    BY <1>6, AttemptsStart
  <2> QED BY <1>2, <1>6, <2>1 DEF Reports
<1>7. ASSUME ~\E f \in Fibers : Connect(f), ~\E t \in IdleThreads : IdleStep(t)
      PROVE  results' = results
  BY <1>7, ResultsStay, Zenon DEF Step
<1> QED BY <1>3, <1>4, <1>5, <1>6, <1>7, Zenon DEF IdleStep
-----------------------------------------------------------------------------
(* Connected and ConnectEstablished.                                       *)

ConnectInv == Connected /\ ConnectEstablished
Settled == {"connected", "failed"}
Attempted == {"connecting", "connected", "failed"}
Asks == {"woken", "sockErr"}
Attempts == {"arm", "add", "wait"}

(* The call of g is a connect whose wait nobody cut short.                 *)
Undisturbed(g) == call[g].op = "connect" /\ g \notin nudged \cup stale
Trying(g) == call[g].op = "connect" /\ g \notin stale

LEMMA ConnectStays ==
    ASSUME Types, ConnectInv,
           \A d \in Fds : "WRITE" \in ready'[d] => sock'[d] \in Settled,
           \A g \in Fibers : Trying(g)' /\ pc'[g] \in Attempts =>
               \/ sock'[call'[g].fd] \in Attempted
               \/ /\ Trying(g) /\ pc[g] \in Attempts /\ call'[g].fd = call[g].fd
                  /\ sock[call[g].fd] \in Attempted => sock'[call[g].fd] \in Attempted,
           \A g \in Fibers : Undisturbed(g)' /\ pc'[g] \in Asks =>
               \/ sock'[call'[g].fd] \in Settled
               \/ /\ Undisturbed(g) /\ pc[g] \in Asks /\ call'[g].fd = call[g].fd
                  /\ sock[call[g].fd] \in Settled => sock'[call[g].fd] \in Settled,
           \A g \in Fibers : Undisturbed(g)' /\ ret'[g] = "ok" =>
               \/ sock'[call'[g].fd] = "connected"
               \/ /\ Undisturbed(g) /\ ret[g] = "ok" /\ call'[g].fd = call[g].fd
                  /\ sock[call[g].fd] = "connected" => sock'[call[g].fd] = "connected"
    PROVE  ConnectInv'
<1>1. Connected'
  BY DEF ConnectInv, Connected, Settled, Attempted, Asks, Attempts, Undisturbed, Trying
<1>2. ConnectEstablished'
  BY DEF ConnectInv, ConnectEstablished, Undisturbed
<1> QED BY <1>1, <1>2 DEF ConnectInv

LEMMA StepConnect ==
    ASSUME Types, FdInv, Reports, ConnectInv, Step
    PROVE  ConnectInv'
<1> USE DEF At, Goto, Return, Settled, Attempted, Asks, Attempts
<1>1. /\ pc \in [Fibers -> Labels] /\ call \in [Fibers -> CallsInProgress \cup {NoCall}]
      /\ ret \in [Fibers -> Rets]
      /\ sock \in [Fds -> {"closed", "new", "listening", "connecting", "connected", "failed"}]
      /\ ready \in [Fds -> SUBSET Events]
  BY DEF Types, TypeOK, Rets
<1>2. \A d \in Fds : "WRITE" \in ready[d] => sock[d] \in Settled
  BY DEF ConnectInv, Connected
<1>3. \A g \in Fibers : /\ pc[g] # "idle" => call[g].fd \in Fds
                        /\ ret[g] = "ok" => pc[g] = "return"
  BY InCall DEF Types, CallShape, Shape
(* A step of one call that changes no socket.                              *)
<1>4. ASSUME sock' = sock, \A d \in Fds : ready'[d] \subseteq ready[d],
             NEW f \in Fibers, NEW l, pc' = [pc EXCEPT ![f] = l],
             \A g \in Fibers \ {f} : /\ call'[g] = call[g] /\ ret'[g] = ret[g]
                                     /\ g \in nudged => g \in nudged'
                                     /\ g \in stale => g \in stale',
             Trying(f)' /\ l \in Attempts =>
                \/ sock[call'[f].fd] \in Attempted
                \/ Trying(f) /\ pc[f] \in Attempts /\ call'[f].fd = call[f].fd,
             Undisturbed(f)' /\ l \in Asks =>
                \/ sock[call'[f].fd] \in Settled
                \/ Undisturbed(f) /\ pc[f] \in Asks /\ call'[f].fd = call[f].fd,
             Undisturbed(f)' /\ ret'[f] = "ok" => sock[call'[f].fd] = "connected"
      PROVE  ConnectInv'
  <2>1. \A d \in Fds : "WRITE" \in ready'[d] => sock'[d] \in Settled
    BY <1>2, <1>4
  <2>2. \A g \in Fibers \ {f} : pc'[g] = pc[g] /\ (Undisturbed(g)' => Undisturbed(g)) /\ (Trying(g)' => Trying(g))
    BY <1>1, <1>4 DEF Undisturbed, Trying
  <2>3. pc'[f] = l
    BY <1>1, <1>4
  <2> QED BY <1>4, <2>1, <2>2, <2>3, ConnectStays
<1>5. ASSUME UNCHANGED <<sock, ready, nudged, stale>>,
             NEW f \in Fibers, NEW l, l \notin Asks, pc' = [pc EXCEPT ![f] = l],
             call' = call \/ \E c : call' = [call EXCEPT ![f] = c],
             l \in Attempts /\ call'[f].op = "connect" =>
                pc[f] \in Attempts /\ call'[f].fd = call[f].fd /\ call[f].op = "connect",
             \/ pc[f] # "return" /\ ret' = ret
             \/ \E r : ret' = [ret EXCEPT ![f] = r] /\ (r = "ok" => call'[f].op # "connect")
      PROVE  ConnectInv'
  <2>1. \A g \in Fibers \ {f} : call'[g] = call[g] /\ ret'[g] = ret[g]
    BY <1>1, <1>5
  <2>2. ret'[f] = "ok" => call'[f].op # "connect"
    BY <1>1, <1>3, <1>5
  <2> QED BY <1>4, <1>5, <2>1, <2>2 DEF Undisturbed, Trying
<1>6. ASSUME UNCHANGED <<sock, ready, nudged, stale, pc, call, ret>>
      PROVE  ConnectInv'
  BY <1>6 DEF ConnectInv, Connected, ConnectEstablished
(* A step that moves no call, and only unsettled sockets.                  *)
<1>7. ASSUME UNCHANGED <<nudged, stale, pc, call, ret>>,
             \A d \in Fds : /\ sock[d] \in Settled => sock'[d] = sock[d]
                            /\ sock[d] \in Attempted => sock'[d] \in Attempted,
             \A d \in Fds : "WRITE" \in ready'[d] => sock'[d] \in Settled
      PROVE  ConnectInv'
  <2>1. \A g \in Fibers : /\ Undisturbed(g)' <=> Undisturbed(g)
                          /\ Trying(g)' <=> Trying(g)
                          /\ ret[g] = "ok" \/ pc[g] \in Asks \cup Attempts => call[g].fd \in Fds
    BY <1>3, <1>7 DEF Undisturbed, Trying
  <2> QED BY <1>7, <2>1, ConnectStays
(* Fibers that wait are woken, a connect among them by its event or nudged. *)
<1>w. ASSUME NEW fd \in Fds, NEW es \in SUBSET Events, NEW W \in SUBSET Fibers, TriggerForm(fd, es, W),
             UNCHANGED <<sock, ready, call, ret, stale>>, nudged \subseteq nudged',
             \A g \in W : call[g].op = "connect" => g \in nudged' \cup stale \/ sock[fd] \in Settled
      PROVE  ConnectInv'
  <2>1. ASSUME NEW g \in Fibers
        PROVE  /\ pc'[g] = pc[g] \/ (g \in W /\ pc'[g] = "woken" /\ call[g].fd = fd)
               /\ Undisturbed(g)' => Undisturbed(g)
               /\ Trying(g)' <=> Trying(g)
               /\ g \in W /\ Undisturbed(g)' => sock[fd] \in Settled
    BY <1>w DEF TriggerForm, Undisturbed, Trying
  <2> QED BY <1>2, <1>w, <2>1, ConnectStays
<1>8. ASSUME NEW f \in Fibers, NewCall(f)
      PROVE  ConnectInv'
  <2>1. ASSUME NEW fd \in Fds, NEW op \in DoIO, Begin(f, op, fd)
        PROVE  ConnectInv'
    <3>1. PICK l \in {"try", "raw"} : pc' = [pc EXCEPT ![f] = l] /\ pc[f] = "idle"
      BY <2>1 DEF Begin
    <3>2. /\ UNCHANGED <<sock, ready, nudged, stale, ret>>
          /\ \E c : call' = [call EXCEPT ![f] = c]
      BY <2>1 DEF Begin, kernel, history
    <3>3. l \notin Asks /\ pc[f] # "return"
      BY <3>1
    <3> QED BY <1>5, <3>1, <3>2, <3>3
  <2>2. ASSUME NEW fd \in Fds, NEW b \in BOOLEAN, BeginConnect(f, fd, b)
        PROVE  ConnectInv'
    <3>1. /\ UNCHANGED <<sock, ready, nudged, stale>>
          /\ \E c : call' = [call EXCEPT ![f] = c]
      BY <2>2 DEF BeginConnect, kernel, history
    <3>2. CASE fdctx[fd] = NoCtx
      <4>1. pc' = [pc EXCEPT ![f] = "return"] /\ ret' = [ret EXCEPT ![f] = "error"]
        BY <2>2, <3>2 DEF BeginConnect
      <4>2. \E r : ret' = [ret EXCEPT ![f] = r] /\ (r = "ok" => call'[f].op # "connect")
        <5> WITNESS "error"
        <5> QED BY <4>1
      <4> QED BY <1>5, <3>1, <4>1, <4>2
    <3>3. CASE fdctx[fd] # NoCtx
      <4>1. PICK l \in {"connect", "rawConnect"} : pc' = [pc EXCEPT ![f] = l] /\ ret' = ret /\ pc[f] = "idle"
        BY <2>2, <3>3 DEF BeginConnect
      <4> QED BY <1>5, <3>1, <4>1
    <3> QED BY <3>2, <3>3
  <2>3. ASSUME NEW fd \in Fds, Socket(f, fd)
        PROVE  ConnectInv'
    <3>1. /\ pc[f] = "idle" /\ pc' = [pc EXCEPT ![f] = "getCtx"]
          /\ \A g \in Fibers \ {f} : call'[g] = call[g]
          /\ UNCHANGED <<nudged, stale, ret, ready>>
          /\ call'[f].op = "socket"
      BY <1>1, <2>3 DEF Socket, history
    <3>2. \A d \in Fds : /\ sock[d] \in Attempted => sock'[d] = sock[d]
                         /\ "WRITE" \in ready'[d] => sock'[d] \in Settled
      BY <1>1, <1>2, <2>3 DEF Socket, Free
    <3>3. \A g \in Fibers :
            /\ Undisturbed(g)' => g # f /\ Undisturbed(g) /\ pc'[g] = pc[g] /\ call'[g] = call[g]
            /\ Trying(g)' => g # f /\ Trying(g) /\ pc'[g] = pc[g] /\ call'[g] = call[g]
      BY <1>1, <3>1 DEF Undisturbed, Trying
    <3> QED BY <1>3, <3>1, <3>2, <3>3, ConnectStays
  <2>4. ASSUME NEW fd \in Fds, BeginClose(f, fd)
        PROVE  ConnectInv'
    <3>1. PICK l \in {"cancelAll", "closeFd"} : pc' = [pc EXCEPT ![f] = l] /\ pc[f] = "idle"
      BY <2>4 DEF BeginClose
    <3>2. /\ UNCHANGED <<sock, ready, nudged, stale, ret>>
          /\ \E c : call' = [call EXCEPT ![f] = c]
      BY <2>4 DEF BeginClose, kernel, history
    <3> QED BY <1>5, <3>1, <3>2
  <2> QED BY <1>8, <2>1, <2>2, <2>3, <2>4, Zenon DEF NewCall
<1>9. ASSUME NEW f \in Fibers, FiberStep(f)
      PROVE  ConnectInv'
  <2>0. Shape(pc[f], call[f], ret[f])
    BY DEF Types, CallShape
  <2>1. ASSUME pc[f] \in {"try", "raw"}, Finished(f)
        PROVE  ConnectInv'
    <3>1. nudged' = nudged /\ (DoneForm(f) \/ \E fd \in Fds : AcceptedForm(f, fd))
      BY <2>1, FinishedFlat
    <3>2. call[f].op # "connect"
      BY <2>0, <2>1 DEF Shape, DoIO
    <3>3. CASE DoneForm(f)
      <4>1. \A d \in Fds : ready'[d] \subseteq ready[d]
        BY <1>1, <1>3, <2>1, <3>3 DEF DoneForm
      <4>2. \A g \in Fibers \ {f} : ret'[g] = ret[g]
        BY <1>1, <3>3 DEF DoneForm
      <4> QED BY <1>4, <3>1, <3>2, <3>3, <4>1, <4>2 DEF DoneForm, Undisturbed, Trying
    <3>4. ASSUME NEW fd \in Fds, AcceptedForm(f, fd)
          PROVE  ConnectInv'
      <4>1. \A d \in Fds : sock[d] \in Attempted => sock'[d] = sock[d]
        BY <1>1, <3>4 DEF AcceptedForm
      <4>2. \A d \in Fds : "WRITE" \in ready'[d] => d = fd \/ "WRITE" \in ready[d]
        BY <1>1, <1>3, <2>1, <3>4 DEF AcceptedForm
      <4>3. \A d \in Fds : "WRITE" \in ready'[d] => sock'[d] \in Settled
        BY <1>1, <1>2, <3>4, <4>1, <4>2 DEF AcceptedForm
      <4>4. \A g \in Fibers :
              /\ Undisturbed(g)' => g # f /\ Undisturbed(g) /\ pc'[g] = pc[g] /\ call'[g] = call[g]
              /\ Trying(g)' => g # f /\ Trying(g) /\ pc'[g] = pc[g] /\ call'[g] = call[g]
        BY <1>1, <3>1, <3>2, <3>4 DEF AcceptedForm, Undisturbed, Trying
      <4>5. ret' = ret
        BY <3>4 DEF AcceptedForm
      <4> QED BY <1>3, <4>1, <4>3, <4>4, <4>5, ConnectStays
    <3> QED BY <3>1, <3>3, <3>4
  <2>2. ASSUME pc[f] \in {"try", "raw"}, Failed(f)
        PROVE  ConnectInv'
    <3>1. /\ UNCHANGED <<sock, ready, nudged, stale, call>>
          /\ pc' = [pc EXCEPT ![f] = "return"] /\ ret' = [ret EXCEPT ![f] = "error"]
      BY <2>2, Zenon DEF Failed, kernel, history
    <3>2. \E r : ret' = [ret EXCEPT ![f] = r] /\ (r = "ok" => call'[f].op # "connect")
      <4> WITNESS "error"
      <4> QED BY <3>1
    <3> QED BY <1>5, <3>1, <3>2
  <2>3. CASE Try(f)
    <3>1. CASE Finished(f) \/ Failed(f)
      BY <2>1, <2>2, <2>3, <3>1 DEF Try
    <3>2. CASE ~(Finished(f) \/ Failed(f))
      <4>1. call[f].op # "connect"
        BY <2>0, <2>3 DEF Try, Shape, DoIO
      <4> QED BY <1>5, <2>3, <3>2, <4>1 DEF Try, kernel, history
    <3> QED BY <3>1, <3>2
  <2>4. CASE RawCall(f)
    <3>1. CASE Finished(f) \/ Failed(f)
      BY <2>1, <2>2, <2>4, <3>1 DEF RawCall
    <3>2. CASE ~(Finished(f) \/ Failed(f))
      BY <1>5, <2>4, <3>2 DEF RawCall, kernel, history
    <3> QED BY <3>1, <3>2
  <2>5. CASE Arm(f)
    <3>1. ArmForm(f)
      BY <2>5, ArmFlat
    <3>2. call' = call \/ \E c : call' = [call EXCEPT ![f] = c]
      BY <3>1 DEF ArmForm
    <3>3. call'[f].fd = call[f].fd /\ call'[f].op = call[f].op
      BY <1>1, <3>1 DEF ArmForm, CallWith
    <3> QED BY <1>5, <3>1, <3>2, <3>3 DEF ArmForm
  <2>6. CASE Add(f)
    <3>1. pc[f] = "add" /\ UNCHANGED <<sock, ready, stale>>
      BY <2>6, AddFlat
    <3>2. CASE AddOk(f, call[f].fd, Event(call[f].op))
      BY <1>5, <3>1, <3>2 DEF AddOk
    <3>3. CASE AddRefused(f)
      <4>1. \A g \in Fibers \ {f} : call'[g] = call[g] /\ ret'[g] = ret[g]
        BY <1>1, <3>3 DEF AddRefused
      <4>2. call'[f].op = call[f].op
        BY <1>1, <3>3 DEF AddRefused, CallWith
      <4>3. ~Undisturbed(f)' /\ nudged \subseteq nudged'
        BY <3>3, <4>2 DEF AddRefused, Undisturbed
      <4>4. \E l : l \notin Attempts /\ pc' = [pc EXCEPT ![f] = l]
        BY <3>3 DEF AddRefused
      <4> QED BY <1>4, <3>1, <4>1, <4>2, <4>3, <4>4 DEF Undisturbed
    <3> QED BY <2>6, <3>2, <3>3, AddFlat
  <2>7. CASE Woken(f)
    <3>1. WokenForm(f)
      BY <2>7, WokenFlat
    <3>2. \A g \in Fibers \ {f} : call'[g] = call[g] /\ ret'[g] = ret[g]
      BY <1>1, <3>1 DEF WokenForm
    <3>3. call'[f].op = call[f].op /\ call'[f].fd = call[f].fd
      BY <1>1, <3>1 DEF WokenForm, CallWith
    <3>4. ret'[f] # "ok" /\ UNCHANGED <<sock, ready, nudged, stale>> /\ pc[f] \in Asks
      BY <1>1, <1>3, <3>1 DEF WokenForm
    <3>5. PICK l : l \notin Attempts /\ pc' = [pc EXCEPT ![f] = l]
      BY <3>1 DEF WokenForm
    <3>6. Undisturbed(f)' => Undisturbed(f)
      BY <3>3, <3>4 DEF Undisturbed
    <3> QED BY <1>4, <3>2, <3>3, <3>4, <3>5, <3>6
  <2>8. CASE EndCall(f)
    <3>1. EndCallForm(f)
      BY <2>8, EndCallFlat
    <3>2. \A g \in Fibers \ {f} : /\ call'[g] = call[g] /\ ret'[g] = ret[g]
                                  /\ g \in nudged => g \in nudged'
                                  /\ g \in stale => g \in stale'
      BY <1>1, <3>1 DEF EndCallForm
    <3>3. ret'[f] # "ok" /\ UNCHANGED <<sock, ready>> /\ pc' = [pc EXCEPT ![f] = "idle"]
      BY <1>1, <3>1 DEF EndCallForm
    <3> QED BY <1>4, <3>2, <3>3
  <2>9. CASE Connect(f)
    <3> DEFINE fd == call[f].fd
    <3>1. /\ pc[f] \in {"connect", "rawConnect"} /\ fd \in Fds
          /\ UNCHANGED <<ready, nudged, stale, call>>
      BY <1>3, <2>9 DEF Connect, history
    <3>2. CASE sock' = sock
      <4>1. CASE sock[fd] # "new"
        BY <1>5, <2>9, <3>1, <3>2, <4>1 DEF Connect
      <4>2. CASE sock[fd] = "new"
        BY <1>1, <2>9, <3>1, <3>2, <4>2 DEF Connect
      <4> QED BY <4>1, <4>2
    <3>3. CASE sock' # sock
      <4>1. PICK s \in {"connected", "failed", "connecting"}, l \in {"return", "arm"} :
               /\ sock[fd] = "new" /\ sock' = [sock EXCEPT ![fd] = s]
               /\ pc' = [pc EXCEPT ![f] = l]
               /\ \/ ret' = ret
                  \/ \E r : ret' = [ret EXCEPT ![f] = r] /\ (r = "ok" => s = "connected")
        BY <2>9, <3>3 DEF Connect
      <4>2. \A d \in Fds : /\ sock[d] \in Attempted => sock'[d] = sock[d]
                           /\ "WRITE" \in ready'[d] => sock'[d] \in Settled
        BY <1>1, <1>2, <3>1, <4>1
      <4>3. \A g \in Fibers : (Undisturbed(g)' <=> Undisturbed(g)) /\ (Trying(g)' <=> Trying(g))
        BY <3>1 DEF Undisturbed, Trying
      <4>7. sock'[fd] \in Attempted /\ \A g \in Fibers : pc'[g] \in Attempts => g = f \/ pc[g] \in Attempts
        BY <1>1, <3>1, <4>1
      <4>4. \A g \in Fibers : pc'[g] \in Asks => pc[g] \in Asks
        BY <1>1, <4>1
      <4>5. ret'[f] = "ok" => sock'[fd] = "connected"
        BY <1>1, <1>3, <3>1, <4>1
      <4>6. \A g \in Fibers \ {f} : ret'[g] = ret[g]
        BY <1>1, <4>1
      <4> QED BY <1>3, <3>1, <4>2, <4>3, <4>4, <4>5, <4>6, <4>7, ConnectStays
    <3> QED BY <3>2, <3>3
  <2>10. CASE SockErr(f)
    <3>1. /\ pc[f] = "sockErr" /\ pc' = [pc EXCEPT ![f] = "return"]
          /\ \A g \in Fibers \ {f} : ret'[g] = ret[g]
          /\ ret'[f] = "ok" => sock[call[f].fd] \notin {"closed", "failed"}
          /\ UNCHANGED <<sock, ready, nudged, stale, call>>
      BY <1>1, <2>10 DEF SockErr, kernel, history
    <3>2. Undisturbed(f)' => sock[call[f].fd] \in Settled
      BY <3>1 DEF Undisturbed, ConnectInv, Connected
    <3> QED BY <1>4, <3>1, <3>2
  <2>11. CASE GetCtx(f)
    <3>1. call[f].op # "connect"
      BY <2>0, <2>11 DEF GetCtx, Shape
    <3> QED BY <1>5, <2>11, <3>1 DEF GetCtx, history
  <2>12. CASE CancelAll(f)
    <3>1. PICK W \in SUBSET (Fibers \ {f}) : CancelAllForm(f, W)
      BY <2>12, CancelAllFlat
    <3>2. ASSUME NEW g \in Fibers, Undisturbed(g)'
          PROVE  Undisturbed(g) /\ (pc'[g] \in Asks => pc[g] \in Asks)
      BY <3>1, <3>2 DEF CancelAllForm, Undisturbed
    <3>3. \A g \in Fibers : (Trying(g)' <=> Trying(g)) /\ (pc'[g] \in Attempts => pc[g] \in Attempts)
      BY <3>1 DEF CancelAllForm, Trying
    <3> QED BY <1>2, <3>1, <3>2, <3>3, ConnectStays DEF CancelAllForm
  <2>13. CASE Del(f)
    BY <1>5, <2>13 DEF Del, kernel, history
  <2>14. CASE CloseFd(f)
    <3> DEFINE fd == call[f].fd
    <3>1. /\ pc[f] = "closeFd" /\ pc' = [pc EXCEPT ![f] = "return"] /\ fd \in Fds
          /\ sock' = [sock EXCEPT ![fd] = "closed"] /\ ready' = [ready EXCEPT ![fd] = {}]
          /\ stale' = stale \cup {g \in Fibers \ {f} : In(g, fd)}
          /\ call[f].op = "close"
          /\ ret' = [ret EXCEPT ![f] = "ok"]
          /\ UNCHANGED <<call, nudged>>
      BY <1>3, <2>0, <2>14 DEF CloseFd, Shape, Closers
    <3>2. \A d \in Fds : /\ d # fd => sock'[d] = sock[d]
                         /\ "WRITE" \in ready'[d] => sock'[d] \in Settled
      BY <1>1, <1>2, <3>1
    <3>3. ASSUME NEW g \in Fibers, Trying(g)'
          PROVE  /\ g # f /\ Trying(g) /\ (Undisturbed(g)' => Undisturbed(g))
                 /\ pc'[g] = pc[g] /\ ret'[g] = ret[g]
                 /\ pc[g] # "idle" => call[g].fd # fd
      BY <1>1, <3>1, <3>3 DEF Undisturbed, Trying, In
    <3>4. \A g \in Fibers : Undisturbed(g)' => Trying(g)'
      BY DEF Undisturbed, Trying
    <3> QED BY <1>3, <3>1, <3>2, <3>3, <3>4, ConnectStays
  <2> QED BY <1>9, <2>3, <2>4, <2>5, <2>6, <2>7, <2>8, <2>9, <2>10, <2>11, <2>12, <2>13, <2>14, Zenon
          DEF FiberStep
<1>10. ASSUME NEW t \in Timers, TimerStep(t)
       PROVE  ConnectInv'
  <2>1. CASE Expire(t)
    BY <1>6, <2>1 DEF Expire, local, kernel
  <2>2. CASE CbLock(t)
    BY <1>6, <2>2 DEF CbLock, local, kernel, history
  <2>3. CASE CbFlag(t)
    BY <1>6, <2>3 DEF CbFlag, kernel, history
  <2>4. CASE CbCancel(t)
    <3>1. CbCancelForm(t)
      BY <2>4, CbCancelFlat
    <3>2. CASE UNCHANGED <<pc, nudged>>
      BY <1>6, <3>1, <3>2 DEF CbCancelForm
    <3>3. CASE ~UNCHANGED <<pc, nudged>>
      <4>1. PICK W \in SUBSET Fibers :
               /\ TriggerForm(timer[t].fd, {timer[t].event}, W)
               /\ nudged' = nudged \cup {h \in W : call[h].op = "connect"}
        BY <3>1, <3>3 DEF CbCancelForm
      <4>2. timer[t].fd \in Fds /\ {timer[t].event} \in SUBSET Events
        BY <3>1, TimerFields DEF CbCancelForm
      <4> QED BY <1>w, <3>1, <4>1, <4>2 DEF CbCancelForm
    <3> QED BY <3>2, <3>3
  <2> QED BY <1>10, <2>1, <2>2, <2>3, <2>4 DEF TimerStep
<1>11. ASSUME NEW fd \in Fds, Option(fd)
       PROVE  ConnectInv'
  BY <1>6, <1>11 DEF Option, Fcntl, Ioctl, SetTimeout, local, history, kernel
<1>12. ASSUME NEW fd \in Fds, KernelStep(fd)
       PROVE  ConnectInv'
  <2>1. CASE Listen(fd)
    <3>1. \A d \in Fds : /\ sock[d] \in Attempted => sock'[d] = sock[d]
                         /\ "WRITE" \in ready'[d] => sock'[d] \in Settled
      BY <1>1, <1>2, <2>1 DEF Listen
    <3> QED BY <1>7, <2>1, <3>1 DEF Listen, local, history
  <2>2. CASE ConnectEnds(fd)
    <3>1. \A d \in Fds : /\ sock[d] \in Settled => sock'[d] = sock[d]
                         /\ sock[d] \in Attempted => sock'[d] \in Attempted
                         /\ "WRITE" \in ready'[d] => sock'[d] \in Settled
      BY <1>1, <1>2, <2>2 DEF ConnectEnds
    <3> QED BY <1>7, <2>2, <3>1 DEF ConnectEnds, local, history
  <2>3. ASSUME NEW e \in Events, BecomeReady(fd, e)
        PROVE  ConnectInv'
    <3>1. \A d \in Fds : "WRITE" \in ready'[d] => sock[d] \in Settled
      BY <1>1, <1>2, <2>3 DEF BecomeReady
    <3> QED BY <1>7, <2>3, <3>1 DEF BecomeReady, local, history
  <2> QED BY <1>12, <2>1, <2>2, <2>3 DEF KernelStep
<1>13. ASSUME NEW t \in IdleThreads, IdleStep(t)
       PROVE  ConnectInv'
  <2>1. CASE EpollWait(t)
    BY <1>6, <2>1, EpollWaitFlat DEF EpollWaitForm
  <2>2. CASE HandleResult(t)
    <3>1. PICK r \in results[t] : r \in Results /\ HandleForm(t, r)
      BY <2>2, HandleFlat
    <3>2. CASE UNCHANGED <<pc, nudged>>
      BY <1>6, <3>1, <3>2 DEF HandleForm
    <3>3. CASE ~UNCHANGED <<pc, nudged>>
      <4>1. PICK es \in SUBSET Events, W \in SUBSET Fibers :
               /\ TriggerForm(r.fd, es, W)
               /\ "WRITE" \in es => r.ev \cap {"WRITE", "HUP"} # {}
               /\ nudged' = IF r.old THEN nudged \cup {h \in W : call[h].op = "connect"} ELSE nudged
        BY <3>1, <3>3 DEF HandleForm
      <4>2. nudged \subseteq nudged' /\ r.fd \in Fds
        BY <3>1, <4>1, ResultFields
      <4>3. ASSUME NEW g \in W, call[g].op = "connect", g \notin nudged' \cup stale
            PROVE  sock[r.fd] \in Settled
        <5>1. pc[g] = "wait" /\ call[g].fd = r.fd /\ Event(call[g].op) \in es
          BY <4>1 DEF TriggerForm
        <5>2. "WRITE" \in es
          BY <4>3, <5>1 DEF Event
        <5>3. ~r.old
          BY <4>1, <4>3
        <5>4. sock[r.fd] # "connecting"
          BY <4>1, <5>2, <5>3 DEF Reports
        <5>5. sock[r.fd] \in Attempted
          BY <4>3, <5>1 DEF ConnectInv, Connected
        <5> QED BY <5>4, <5>5
      <4> QED BY <1>w, <3>1, <4>1, <4>2, <4>3 DEF HandleForm
    <3> QED BY <3>2, <3>3
  <2> QED BY <1>13, <2>1, <2>2 DEF IdleStep
<1> QED BY <1>8, <1>9, <1>10, <1>11, <1>12, <1>13 DEF Step
-----------------------------------------------------------------------------
(* The theorems.                                                           *)

LEMMA InitInv == Init => IInv
<1> SUFFICES ASSUME Init PROVE IInv
  OBVIOUS
<1>1. TypeOK
  <2>1. [user |-> FALSE, timed |-> {"READ"}] \in Ctxs
    BY DEF Ctxs, Events
  <2> QED BY <2>1, BoundAssumption DEF Init, TypeOK, Labels, Events
<1>2. CallShape
  BY DEF Init, CallShape, Shape, Waits, Closers
<1>3. WaiterWaits
  BY NoValues DEF Init, WaiterWaits, At
<1>4. NoStrayTimer
  BY DEF Init, NoStrayTimer, FreeTimer
<1>5. CtxMatchesKernel /\ OwnedFds /\ HookedFds
  <2>1. [user |-> FALSE, timed |-> {"READ"}] # NoCtx
    <3>1. [user |-> FALSE, timed |-> {"READ"}] \in [user: BOOLEAN, timed: SUBSET {"READ", "WRITE"}]
      OBVIOUS
    <3> QED BY <3>1, NoValues, Zenon
  <2>2. CtxMatchesKernel
    BY <2>1 DEF Init, CtxMatchesKernel, Open
  <2>3. OwnedFds /\ HookedFds
    BY DEF Init, OwnedFds, HookedFds, Owners, Closers, Hooked
  <2> QED BY <2>2, <2>3
<1>6. Watched /\ LiveTimers /\ Expired /\ Reaching
  BY DEF Init, Watched, LiveTimers, Expired, Reaching, FreeTimer
<1>7. Reports /\ Connected /\ ConnectEstablished
  BY DEF Init, Reports, Connected, ConnectEstablished
<1> QED BY <1>1, <1>2, <1>3, <1>4, <1>5, <1>6, <1>7 DEF IInv, Types

LEMMA StepInv == IInv /\ [Next]_vars => IInv'
<1>1. ASSUME IInv, Next
      PROVE  IInv'
  <2>1. Types /\ Step /\ calls' \in 0..MaxCalls
    BY <1>1, NextIsStep DEF IInv, Types, TypeOK
  <2>2. Types'
    BY <2>1, StepTypes, StepWaiters DEF Types
  <2>3. NoStrayTimer'
    BY <1>1, <2>1, StepTimers DEF IInv
  <2>4. FdInv'
    BY <1>1, <2>1, StepFds DEF IInv, FdInv
  <2>5. Watched'
    BY <1>1, <2>1, StepWatched DEF IInv
  <2>6. TimeoutInv'
    BY <1>1, <2>1, StepTimeouts DEF IInv, FdInv, TimeoutInv
  <2>7. Reports'
    BY <1>1, <2>1, StepReports DEF IInv
  <2>8. ConnectInv'
    BY <1>1, <2>1, StepConnect DEF IInv, FdInv, ConnectInv
  <2> QED BY <2>2, <2>3, <2>4, <2>5, <2>6, <2>7, <2>8 DEF IInv, FdInv, TimeoutInv, ConnectInv
<1>2. ASSUME IInv, UNCHANGED vars
      PROVE  IInv'
  BY <1>2 DEF IInv, Types, TypeOK, CallShape, WaiterWaits, NoStrayTimer, CtxMatchesKernel, OwnedFds,
              HookedFds, Watched, LiveTimers, Expired, Reaching, Reports, Connected, ConnectEstablished,
              Open, Opening, Closing, At, In, vars, kernel, local, history
<1> QED BY <1>1, <1>2

(* The inductive invariant holds in every behaviour of the hooked calls:   *)
(* socket, accept, do_io, connect_with_timeout, close, the timeout         *)
(* callbacks and the kernel, interleaved in any order.                     *)
THEOREM Inductive == Spec => []IInv
BY InitInv, StepInv, PTL DEF Spec

(* The state of the hooked calls is well typed in every behaviour.         *)
THEOREM TypeCorrect == Spec => []TypeOK
<1>1. IInv => TypeOK
  BY DEF IInv, Types
<1> QED BY <1>1, Inductive, PTL

(* For any number of fibers, descriptors and Timers, a fiber is suspended  *)
(* in a hooked call exactly while the EventContext of its descriptor and   *)
(* event holds it: trigger, timeout callback and close() between them      *)
(* resume every suspended fiber once and no other.                         *)
THEOREM SuspendedIffRegistered == Spec => []WaiterWaits
<1>1. IInv => WaiterWaits
  BY DEF IInv, Types
<1> QED BY <1>1, Inductive, PTL

(* No return path of do_io or connect_with_timeout leaves a Timer in the   *)
(* heap.                                                                   *)
THEOREM TimersAreCancelled == Spec => []NoStrayTimer
<1>1. IInv => NoStrayTimer
  BY DEF IInv
<1> QED BY <1>1, Inductive, PTL

(* m_datas mirrors the kernel's open sockets whatever the order in which   *)
(* fibers create, use and close them.                                      *)
THEOREM FdCtxMirrorsKernel == Spec => []CtxMatchesKernel
<1>1. IInv => CtxMatchesKernel
  BY DEF IInv
<1> QED BY <1>1, Inductive, PTL

(* A hooked call holds its thread in the kernel only after ioctl(FIONBIO,  *)
(* 0) or when its number was closed under it.                              *)
THEOREM HookedCallsYield == Spec => []HookedCallNeverBlocks
<1>1. IInv => HookedCallNeverBlocks
  BY DEF IInv, HookedFds, HookedCallNeverBlocks, Hooked
<1> QED BY <1>1, Inductive, PTL

(* ETIMEDOUT is returned only when the Timer of the round that ends has    *)
(* expired, or, by a call other than connect, that of an earlier round     *)
(* which expired too late for its cancel().                                *)
THEOREM TimeoutsAreReal == Spec => []TimeoutIsReal
<1>1. IInv => TimeoutIsReal
  BY DEF IInv, Expired, TimeoutIsReal
<1> QED BY <1>1, Inductive, PTL

(* A suspended call whose timeout flag is set has the callback that set it *)
(* still to cancel its event, unless that callback ran before the call's   *)
(* addEvent or the number was closed under the call.                       *)
THEOREM TimeoutsReachTheirCall == Spec => []TimeoutReachesWaiter
<1>1. IInv => TimeoutReachesWaiter
  BY DEF IInv, Reaching, TimeoutReachesWaiter, At, Pending
<1> QED BY <1>1, Inductive, PTL

(* connect() reports success for a connection that is not established only *)
(* when its wait was cut short (close(), another call's callback, addEvent *)
(* refused, an epoll result older than the attempt) or the number was      *)
(* closed under it.                                                        *)
THEOREM ConnectSucceedsTruly == Spec => []ConnectEstablished
<1>1. IInv => ConnectEstablished
  BY DEF IInv
<1> QED BY <1>1, Inductive, PTL
=============================================================================
