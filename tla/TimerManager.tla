---------------------------- MODULE TimerManager ----------------------------
(***************************************************************************)
(* TimerManager and Timer (timer.{h,cpp}): the heap of timers ordered by   *)
(* m_next, shared by the idle threads that expire it and the fibers that   *)
(* add, cancel, refresh and reset timers.                                  *)
(*                                                                         *)
(* m_timers is a std::set whose comparator looks only at m_next, so two    *)
(* timers with equal m_next are one element to insert, find and erase.     *)
(* Each critical section of m_mutex is one step, except the loop of        *)
(* listExpiredCb, which takes a step per timer with the lock held.  What   *)
(* the code does outside the lock (reading the clock, recomputing m_next   *)
(* in reset) is a step of its own.  The clock may be set back.             *)
(***************************************************************************)
EXTENDS Integers, FiniteSets

CONSTANTS
    Threads,    \* threads calling into the manager
    Timers,     \* Timer objects that may be created
    Recurring,  \* those created with recurring = true
    Periods,    \* the m_ms values in use
    Hour,       \* the backward jump detectClockRollover() tolerates
    MaxTime,    \* bound: the clock
    MaxBacks,   \* bound: how often the clock is set back
    NoThread, NoTimer

ASSUME TimersAssumption == Recurring \subseteq Timers /\ NoTimer \notin Timers
ASSUME ThreadAssumption == NoThread \notin Threads
ASSUME TimeAssumption ==
    /\ Periods \subseteq Nat /\ Hour \in Nat
    /\ MaxTime \in Nat /\ MaxBacks \in Nat

VARIABLES
    now,            \* std::chrono::system_clock
    backs,          \* how often the clock has been set back
    m_timers,       \* the set, as the timers it holds
    m_next, m_ms,   \* timer -> absolute expiry, period
    hasCb,          \* timers whose m_cb is not null
    made, handles,  \* timers constructed; those addTimer() has returned
    m_tickled, m_previouseTime,
    holder,         \* the thread holding m_mutex over several steps
    pc,             \* thread -> where it is
    arg,            \* thread -> its operands
    cbs,            \* thread -> timers whose callback this pass collected
    known,          \* first expiry the last getNextTimer() saw, Never once
                    \* a later insert has set m_tickled
    cancelled,      \* timers for which cancel() has returned true
    fired,          \* one-shot timers whose callback has been collected
    dropped         \* timers refused or erased for an equal m_next of another

time == <<now, backs>>
heap == <<m_timers, m_next, m_ms, hasCb, made, handles>>
flags == <<m_tickled, m_previouseTime, holder, known>>
history == <<cancelled, fired, dropped>>
vars == <<time, heap, flags, pc, arg, cbs, history>>

Never == -1    \* getNextTimer() on an empty heap returns ~0ull
NoArg == [timer |-> NoTimer, ms |-> 0, fromNow |-> FALSE, now |-> 0, rollover |-> FALSE]

Init ==
    /\ now = 0 /\ backs = 0
    /\ m_timers = {} /\ hasCb = {} /\ made = {} /\ handles = {}
    /\ m_next = [x \in Timers |-> 0]
    /\ m_ms = [x \in Timers |-> 0]
    /\ m_tickled = FALSE /\ m_previouseTime = 0
    /\ holder = NoThread /\ known = Never
    /\ pc = [t \in Threads |-> "ready"]
    /\ arg = [t \in Threads |-> NoArg]
    /\ cbs = [t \in Threads |-> {}]
    /\ cancelled = {} /\ dropped = {} /\ fired = {}

Goto(t, l) == pc' = [pc EXCEPT ![t] = l]
Unlocked == holder = NoThread

(* m_timers.find(x): the element the comparator takes for x, if any.       *)
Find(x) == {y \in m_timers : m_next[y] = m_next[x]}
IsFirst(x, S, next) == x \in S /\ \A y \in S : next[x] <= next[y]

(* The set after inserting x, with expiry n, into rest.                    *)
Inserted(rest, x, n) ==
    IF \E y \in rest : m_next[y] = n THEN rest ELSE rest \cup {x}

-----------------------------------------------------------------------------
(* addTimer(ms, cb, recurring): the constructor reads the clock before the *)
(* lock is taken by addTimer(timer).                                       *)
NewTimer(t) ==
    /\ pc[t] = "ready"
    /\ \E x \in Timers \ made, ms \in Periods :
         /\ made' = made \cup {x}
         /\ hasCb' = hasCb \cup {x}
         /\ m_ms' = [m_ms EXCEPT ![x] = ms]
         /\ m_next' = [m_next EXCEPT ![x] = now + ms]
         /\ arg' = [arg EXCEPT ![t] = [NoArg EXCEPT !.timer = x]]
    /\ Goto(t, "insert")
    /\ UNCHANGED <<time, m_timers, handles, flags, cbs, history>>

(* Mutant: addTimer announces a new first timer only when the heap was     *)
(* empty.                                                                  *)
InsertTicklesEmpty(t) ==
    /\ pc[t] = "insert" /\ Unlocked
    /\ LET x == arg[t].timer IN
         /\ m_timers' = IF Find(x) = {} THEN m_timers \cup {x} ELSE m_timers
         /\ dropped' = IF Find(x) = {} THEN dropped ELSE dropped \cup {x}
         /\ m_tickled' = (m_tickled \/ m_timers = {})
         /\ known' = IF m_timers = {} THEN Never ELSE known
    /\ handles' = handles \cup {arg[t].timer}
    /\ Goto(t, "ready")
    /\ arg' = [arg EXCEPT ![t] = NoArg]
    /\ UNCHANGED <<time, m_next, m_ms, hasCb, made, m_previouseTime, holder,
                   cbs, cancelled, fired>>

(* addTimer(timer): insert; the first timer sets m_tickled and, after the  *)
(* unlock, calls onTimerInsertedAtFront().                                 *)
InsertTimer(t) ==
    /\ pc[t] = "insert" /\ Unlocked
    /\ LET x == arg[t].timer
           atFront == \A y \in m_timers : m_next[x] <= m_next[y]
       IN /\ m_timers' = IF Find(x) = {} THEN m_timers \cup {x} ELSE m_timers
          /\ dropped' = IF Find(x) = {} THEN dropped ELSE dropped \cup {x}
          /\ m_tickled' = (m_tickled \/ atFront)
          /\ known' = IF atFront THEN Never ELSE known
    /\ handles' = handles \cup {arg[t].timer}
    /\ Goto(t, "ready")
    /\ arg' = [arg EXCEPT ![t] = NoArg]
    /\ UNCHANGED <<time, m_next, m_ms, hasCb, made, m_previouseTime, holder,
                   cbs, cancelled, fired>>

(* Mutant: cancel() leaves m_cb in place.                                  *)
CancelKeepsCb(t) ==
    /\ pc[t] = "ready" /\ Unlocked
    /\ \E x \in hasCb \cap handles :
         /\ \/ Find(x) = {} /\ UNCHANGED <<m_timers, dropped>>
            \/ \E y \in Find(x) :
                 /\ m_timers' = m_timers \ {y}
                 /\ dropped' = dropped \cup ({y} \ {x})
         /\ cancelled' = cancelled \cup {x}
    /\ UNCHANGED <<time, m_next, m_ms, hasCb, made, handles, flags, pc, arg, cbs,
                   fired>>

Cancel(t) ==
    /\ pc[t] = "ready" /\ Unlocked
    /\ \E x \in hasCb \cap handles :
         /\ hasCb' = hasCb \ {x}
         /\ \/ Find(x) = {} /\ UNCHANGED <<m_timers, dropped>>
            \/ \E y \in Find(x) :
                 /\ m_timers' = m_timers \ {y}
                 /\ dropped' = dropped \cup ({y} \ {x})
         /\ cancelled' = cancelled \cup {x}
    /\ UNCHANGED <<time, m_next, m_ms, made, handles, flags, pc, arg, cbs, fired>>

(* Mutant: refresh() erases the timer and does not insert it again.        *)
RefreshErasesOnly(t) ==
    /\ pc[t] = "ready" /\ Unlocked
    /\ \E x \in hasCb \cap handles : \E y \in Find(x) :
         /\ m_next' = [m_next EXCEPT ![x] = now + m_ms[x]]
         /\ m_timers' = m_timers \ {y}
         /\ dropped' = dropped \cup ({y} \ {x})
    /\ UNCHANGED <<time, m_ms, hasCb, made, handles, flags, pc, arg, cbs,
                   cancelled, fired>>

(* refresh(): erase, recompute m_next, insert, in one critical section and *)
(* without the at_front test of addTimer.                                  *)
Refresh(t) ==
    /\ pc[t] = "ready" /\ Unlocked
    /\ \E x \in hasCb \cap handles : \E y \in Find(x) :
         /\ m_next' = [m_next EXCEPT ![x] = now + m_ms[x]]
         /\ m_timers' = Inserted(m_timers \ {y}, x, now + m_ms[x])
         /\ dropped' = dropped \cup ({y} \ {x})
                         \cup (IF x \in m_timers' THEN {} ELSE {x})
    /\ UNCHANGED <<time, m_ms, hasCb, made, handles, flags, pc, arg, cbs,
                   cancelled, fired>>

(* reset(ms, from_now), the locked part: erase.                            *)
ResetErase(t) ==
    /\ pc[t] = "ready" /\ Unlocked
    /\ \E x \in hasCb \cap handles, ms \in Periods, fromNow \in BOOLEAN :
         /\ ms # m_ms[x] \/ fromNow
         /\ \E y \in Find(x) :
              /\ m_timers' = m_timers \ {y}
              /\ dropped' = dropped \cup ({y} \ {x})
         /\ arg' = [arg EXCEPT ![t] =
                      [NoArg EXCEPT !.timer = x, !.ms = ms, !.fromNow = fromNow]]
    /\ Goto(t, "recompute")
    /\ UNCHANGED <<time, m_next, m_ms, hasCb, made, handles, flags, cbs,
                   cancelled, fired>>

(* reset(), outside the lock: the new m_ms and m_next; addTimer follows.   *)
ResetCompute(t) ==
    /\ pc[t] = "recompute"
    /\ LET x == arg[t].timer
           start == IF arg[t].fromNow THEN now ELSE m_next[x] - m_ms[x]
       IN /\ m_ms' = [m_ms EXCEPT ![x] = arg[t].ms]
          /\ m_next' = [m_next EXCEPT ![x] = start + arg[t].ms]
    /\ Goto(t, "insert")
    /\ UNCHANGED <<time, m_timers, hasCb, made, handles, flags, arg, cbs, history>>

(* getNextTimer(): the expiry an idle thread is going to wait for.         *)
GetNextTimer(t) ==
    /\ pc[t] = "ready" /\ Unlocked
    /\ m_tickled' = FALSE
    /\ \/ m_timers = {} /\ known' = Never
       \/ \E x \in m_timers : IsFirst(x, m_timers, m_next) /\ known' = m_next[x]
    /\ UNCHANGED <<time, heap, m_previouseTime, holder, pc, arg, cbs, history>>

-----------------------------------------------------------------------------
(* listExpiredCb: now is read before the lock is taken.                    *)
ReadNow(t) ==
    /\ pc[t] = "ready"
    /\ arg' = [arg EXCEPT ![t] = [NoArg EXCEPT !.now = now]]
    /\ Goto(t, "lock")
    /\ UNCHANGED <<time, heap, flags, cbs, history>>

(* Mutant: the pass runs without the write lock.                           *)
DetectUnlocked(t) ==
    /\ pc[t] = "lock" /\ Unlocked
    /\ arg' = [arg EXCEPT ![t].rollover = now < m_previouseTime - Hour]
    /\ m_previouseTime' = now
    /\ Goto(t, "pass")
    /\ UNCHANGED <<time, heap, m_tickled, holder, known, cbs, history>>

(* The write lock is taken; detectClockRollover() reads the clock again.   *)
DetectClockRollover(t) ==
    /\ pc[t] = "lock" /\ Unlocked
    /\ holder' = t
    /\ arg' = [arg EXCEPT ![t].rollover = now < m_previouseTime - Hour]
    /\ m_previouseTime' = now
    /\ Goto(t, "pass")
    /\ UNCHANGED <<time, heap, m_tickled, known, cbs, history>>

(* The loop condition: rollover clears all timers, else the due ones.      *)
Due(t, x) ==
    IsFirst(x, m_timers, m_next) /\ (arg[t].rollover \/ m_next[x] <= arg[t].now)

(* Mutant: the callback of a one-shot timer is not cleared.                *)
CollectKeepsCb(t) ==
    /\ pc[t] = "pass"
    /\ \E x \in m_timers :
         /\ Due(t, x)
         /\ cbs' = [cbs EXCEPT ![t] = IF x \in hasCb THEN @ \cup {x} ELSE @]
         /\ fired' = fired \cup ({x} \cap (hasCb \ Recurring))
         /\ IF x \in Recurring
              THEN LET n == arg[t].now + m_ms[x] IN
                   /\ m_next' = [m_next EXCEPT ![x] = n]
                   /\ m_timers' = Inserted(m_timers \ {x}, x, n)
                   /\ dropped' = IF x \in m_timers' THEN dropped ELSE dropped \cup {x}
              ELSE m_timers' = m_timers \ {x} /\ UNCHANGED <<m_next, dropped>>
    /\ UNCHANGED <<time, m_ms, hasCb, made, handles, flags, pc, arg, cancelled>>

(* One round of the loop.  A timer whose m_cb is null contributes an empty *)
(* callback, which scheduleLock drops.                                     *)
CollectFirst(t) ==
    /\ pc[t] = "pass"
    /\ \E x \in m_timers :
         /\ Due(t, x)
         /\ cbs' = [cbs EXCEPT ![t] = IF x \in hasCb THEN @ \cup {x} ELSE @]
         /\ fired' = fired \cup ({x} \cap (hasCb \ Recurring))
         /\ IF x \in Recurring
              THEN LET n == arg[t].now + m_ms[x] IN
                   /\ m_next' = [m_next EXCEPT ![x] = n]
                   /\ m_timers' = Inserted(m_timers \ {x}, x, n)
                   /\ dropped' = IF x \in m_timers' THEN dropped ELSE dropped \cup {x}
                   /\ UNCHANGED hasCb
              ELSE /\ m_timers' = m_timers \ {x}
                   /\ hasCb' = hasCb \ {x}
                   /\ UNCHANGED <<m_next, dropped>>
    /\ UNCHANGED <<time, m_ms, made, handles, flags, pc, arg, cancelled>>

(* The loop ends, the lock is released, idle() schedules the callbacks.    *)
PassDone(t) ==
    /\ pc[t] = "pass"
    /\ ~ \E x \in m_timers : Due(t, x)
    /\ holder' = NoThread
    /\ cbs' = [cbs EXCEPT ![t] = {}]
    /\ arg' = [arg EXCEPT ![t] = NoArg]
    /\ Goto(t, "ready")
    /\ UNCHANGED <<time, heap, m_tickled, m_previouseTime, known, history>>

-----------------------------------------------------------------------------
Tick ==
    /\ now < MaxTime
    /\ now' = now + 1
    /\ UNCHANGED <<backs, heap, flags, pc, arg, cbs, history>>

(* The system clock is set back (by an administrator or by NTP).           *)
SetBack ==
    /\ backs < MaxBacks
    /\ backs' = backs + 1
    /\ now' \in 0 .. (now - 1)
    /\ UNCHANGED <<heap, flags, pc, arg, cbs, history>>

Step(t) ==
    \/ NewTimer(t) \/ InsertTimer(t) \/ Cancel(t) \/ Refresh(t)
    \/ ResetErase(t) \/ ResetCompute(t) \/ GetNextTimer(t)
    \/ ReadNow(t) \/ DetectClockRollover(t) \/ CollectFirst(t) \/ PassDone(t)

Next == (\E t \in Threads : Step(t)) \/ Tick \/ SetBack

Spec == Init /\ [][Next]_vars
-----------------------------------------------------------------------------
(* Properties                                                              *)

(* The types of the variables; a thread in the loop of listExpiredCb, and  *)
(* only such a thread, holds the lock between steps.                       *)
TypeOK ==
    /\ now \in Nat /\ backs \in Nat
    /\ m_timers \subseteq made /\ hasCb \subseteq made /\ made \subseteq Timers
    /\ handles \subseteq made
    /\ m_next \in [Timers -> Int] /\ m_ms \in [Timers -> Nat]
    /\ m_tickled \in BOOLEAN /\ m_previouseTime \in Nat
    /\ holder \in Threads \cup {NoThread} /\ known \in Int
    /\ pc \in [Threads -> {"ready", "insert", "recompute", "lock", "pass"}]
    /\ \A t \in Threads : pc[t] = "pass" <=> holder = t
    /\ arg \in [Threads -> [timer : Timers \cup {NoTimer}, ms : Nat,
                            fromNow : BOOLEAN, now : Nat, rollover : BOOLEAN]]
    /\ cbs \in [Threads -> SUBSET Timers]
    /\ cancelled \subseteq Timers /\ dropped \subseteq Timers
    /\ fired \subseteq Timers

(* The callbacks a step adds to some thread's cbs.                         *)
Collected == UNION {cbs'[t] \ cbs[t] : t \in Threads}

(* Once cancel() has returned true the callback is never collected, even   *)
(* when the cancel() ran while reset() had the timer out of the heap and   *)
(* reset() put it back afterwards.                                         *)
CancelledNeverFires == [][Collected \cap cancelled = {}]_vars

(* A one-shot timer fires at most once, although refresh() and reset() of  *)
(* an expired timer may put it into the heap again.                        *)
OneShotFiresOnce == [][Collected \cap fired = {}]_vars

(* Some thread is between taking x out of the heap and inserting it.       *)
InFlight(x) ==
    \E t \in Threads : pc[t] \in {"insert", "recompute"} /\ arg[t].timer = x

(* A timer that still has its callback is in the heap or on its way into   *)
(* it, as long as no two timers ever had the same m_next: no interleaving  *)
(* of add, reset, refresh, cancel and expiry loses a timer.                *)
NoTimerLost ==
    dropped = {} => \A x \in hasCb : x \in m_timers \/ InFlight(x)

(* While the clock only moves forward and no two timers had the same       *)
(* m_next, no timer in the heap is earlier than what the last              *)
(* getNextTimer() saw unless m_tickled is set, that is, unless             *)
(* onTimerInsertedAtFront() has been called since: an idle thread is never *)
(* left waiting for a later expiry without a tickle.                       *)
EarlierTimerAnnounced ==
    backs = 0 /\ dropped = {} /\ ~m_tickled =>
        \A x \in m_timers : known # Never /\ known <= m_next[x]

(* "重新加入时间堆" (listExpiredCb): a recurring timer whose callback is     *)
(* collected goes back into the heap.                                      *)
RecurringReturns ==
    [][\A x \in Recurring : x \in Collected => x \in m_timers']_vars

(* "回退 -> 清理所有timer" (listExpiredCb): after a clock rollover one pass  *)
(* clears all timers, that is, it takes every timer out of the heap once.  *)
RolloverClearsAll ==
    \A t \in Threads :
        pc[t] = "pass" /\ arg[t].rollover => cbs[t] \cap m_timers = {}
=============================================================================
