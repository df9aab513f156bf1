----------------------- MODULE SchedulerWakeUpProofs ------------------------
(***************************************************************************)
(* Proofs about the wake-ups of fibers and about stop() in Scheduler, for  *)
(* any number of threads and fibers.                                       *)
(*                                                                         *)
(* WakeUps(f) is a sum of four numbers: the armed timer and event of f,    *)
(* the expired callbacks for f in idle(), the queued tasks for f and the   *)
(* threads with such a task in hand.  The counting lemmas say how each of  *)
(* them changes when one thread moves or one task is pushed or taken; the  *)
(* proof of OneWakeUp then only has to balance the changes of each step    *)
(* against the change of what f is owed.  PendingExact and the refinement  *)
(* of FiberLife rest on OneWakeUp, the destructor's assertion on StopInv.  *)
(***************************************************************************)
EXTENDS SchedulerProofs

-----------------------------------------------------------------------------
(* Counting                                                                *)

One(b) == IF b THEN 1 ELSE 0

(* Two subsets of a finite set that agree but for t.                       *)
LEMMA CountSwap ==
    ASSUME NEW T, IsFiniteSet(T), NEW A \in SUBSET T, NEW B \in SUBSET T, NEW t \in T,
           \A u \in T \ {t} : u \in B <=> u \in A
    PROVE  /\ Cardinality(A) \in Nat /\ Cardinality(B) \in Nat
           /\ Cardinality(B) = Cardinality(A) + One(t \in B) - One(t \in A)
<1>1. /\ IsFiniteSet(A) /\ Cardinality(A) \in Nat
      /\ IsFiniteSet(B) /\ Cardinality(B) \in Nat
  BY FS_Subset, FS_CardinalityType
<1>2. CASE t \in A /\ t \notin B
  <2>1. B = A \ {t}
    BY <1>2
  <2> QED BY <1>1, <1>2, <2>1, FS_RemoveElement DEF One
<1>3. CASE t \notin A /\ t \in B
  <2>1. B = A \cup {t}
    BY <1>3
  <2> QED BY <1>1, <1>3, <2>1, FS_AddElement DEF One
<1>4. CASE t \in A <=> t \in B
  <2>1. B = A
    BY <1>4
  <2> QED BY <1>1, <2>1 DEF One
<1> QED BY <1>2, <1>3, <1>4

(* The positions of a sequence whose elements name f.                      *)
Places(s, f) == {i \in DOMAIN s : s[i].fiber = f}

LEMMA PlacesFinite ==
    ASSUME NEW s \in Seq(Tasks), NEW f
    PROVE  IsFiniteSet(Places(s, f)) /\ Cardinality(Places(s, f)) \in Nat
<1>1. DOMAIN s = 1..Len(s) /\ Len(s) \in Nat
  BY LenProperties
<1>2. IsFiniteSet(1..Len(s)) /\ Places(s, f) \in SUBSET (1..Len(s))
  BY <1>1, FS_Interval DEF Places
<1> QED BY <1>2, FS_Subset, FS_CardinalityType

LEMMA PlacesPush ==
    ASSUME NEW s \in Seq(Tasks), NEW tk \in Tasks, NEW f
    PROVE  Cardinality(Places(Append(s, tk), f)) = Cardinality(Places(s, f)) + One(tk.fiber = f)
<1> DEFINE r == Append(s, tk)
           n == Len(s) + 1
<1>1. /\ r \in Seq(Tasks) /\ Len(r) = n
      /\ \A i \in 1..Len(s) : r[i] = s[i]
      /\ r[n] = tk
  BY AppendProperties
<1>2. DOMAIN s = 1..Len(s) /\ DOMAIN r = 1..n /\ Len(s) \in Nat
  BY <1>1, LenProperties
<1>3. n \in 1..n /\ n \notin 1..Len(s) /\ 1..n = 1..Len(s) \cup {n}
  BY <1>2
<1> HIDE DEF r, n
<1>4. Places(s, f) \in SUBSET (1..n) /\ Places(r, f) \in SUBSET (1..n)
  BY <1>2, <1>3 DEF Places
<1>5. \A i \in (1..n) \ {n} : i \in Places(r, f) <=> i \in Places(s, f)
  BY <1>1, <1>2, <1>3 DEF Places
<1>6. n \notin Places(s, f) /\ (n \in Places(r, f) <=> tk.fiber = f)
  BY <1>1, <1>2, <1>3 DEF Places
<1>7. n \in Int
  BY <1>2 DEF n
<1>8. IsFiniteSet(1..n)
  BY <1>7, FS_Interval
<1>9. /\ Cardinality(Places(s, f)) \in Nat
      /\ Cardinality(Places(r, f)) = Cardinality(Places(s, f)) + One(n \in Places(r, f)) - One(n \in Places(s, f))
  BY <1>3, <1>4, <1>5, <1>8, CountSwap
<1>10. One(n \in Places(s, f)) = 0 /\ One(n \in Places(r, f)) = One(tk.fiber = f)
  BY <1>6 DEF One
<1>11. One(tk.fiber = f) \in Int
  BY DEF One
<1>12. Cardinality(Places(r, f)) = Cardinality(Places(s, f)) + One(tk.fiber = f)
  BY <1>9, <1>10, <1>11
<1> QED BY <1>12 DEF r

(* Erasing position i moves the later elements one place down: a          *)
(* bijection between the positions that remain and those of the result.    *)
LEMMA PlacesTake ==
    ASSUME NEW s \in Seq(Tasks), NEW i \in 1..Len(s), NEW f
    PROVE  Cardinality(Places(RemoveAt(s, i), f)) = Cardinality(Places(s, f)) - One(s[i].fiber = f)
<1> DEFINE r == RemoveAt(s, i)
           A == Places(r, f)
           B == Places(s, f) \ {i}
           g == [k \in A |-> IF k < i THEN k ELSE k + 1]
<1>1. /\ r \in Seq(Tasks) /\ Len(s) \in Nat /\ DOMAIN r = 1..(Len(s) - 1)
      /\ \A k \in 1..(Len(s) - 1) : r[k] = IF k < i THEN s[k] ELSE s[k + 1]
      /\ DOMAIN s = 1..Len(s) /\ i \in Int
  <2>1. DOMAIN s = 1..Len(s) /\ i \in Int
    BY LenProperties
  <2>2. /\ r \in Seq(Tasks) /\ Len(s) \in Nat /\ DOMAIN r = 1..(Len(s) - 1)
        /\ \A k \in 1..(Len(s) - 1) : r[k] = IF k < i THEN s[k] ELSE s[k + 1]
    BY RemoveAtShift, Zenon
  <2> QED BY <2>1, <2>2
<1>2. \A k \in A : k \in 1..(Len(s) - 1) /\ r[k].fiber = f
  BY <1>1 DEF Places
<1>3. \A k \in B : k \in 1..Len(s) /\ s[k].fiber = f /\ k # i
  BY <1>1 DEF Places
<1> HIDE DEF r
<1>4. ASSUME NEW k \in A PROVE g[k] \in B
  <2>1. k \in 1..(Len(s) - 1) /\ r[k].fiber = f
    BY <1>2
  <2>2. CASE k < i
    BY <1>1, <2>1, <2>2 DEF Places
  <2>3. CASE ~(k < i)
    BY <1>1, <2>1, <2>3 DEF Places
  <2> QED BY <2>2, <2>3
<1>5. ASSUME NEW k \in A, NEW l \in A, g[k] = g[l] PROVE k = l
  BY <1>1, <1>2, <1>5
<1>6. ASSUME NEW k \in B PROVE \E l \in A : g[l] = k
  <2>1. k \in 1..Len(s) /\ s[k].fiber = f /\ k # i
    BY <1>3
  <2>2. CASE k < i
    <3>1. k \in 1..(Len(s) - 1) /\ r[k] = s[k]
      BY <1>1, <2>1, <2>2
    <3>2. k \in A
      BY <1>1, <2>1, <3>1 DEF Places
    <3> QED BY <2>2, <3>2
  <2>3. CASE ~(k < i)
    <3>1. k - 1 \in 1..(Len(s) - 1) /\ ~(k - 1 < i) /\ (k - 1) + 1 = k
      BY <1>1, <2>1, <2>3
    <3>2. r[k - 1] = s[k]
      BY <1>1, <3>1
    <3>3. k - 1 \in A
      BY <1>1, <2>1, <3>1, <3>2 DEF Places
    <3> QED BY <3>1, <3>3
  <2> QED BY <2>2, <2>3
<1>7. g \in [A -> B]
  BY <1>4
<1> HIDE DEF g, A, B
<1>8. g \in Bijection(A, B)
  BY <1>5, <1>6, <1>7 DEF Bijection, Injection, Surjection, IsInjective
<1>9. IsFiniteSet(A) /\ Cardinality(Places(s, f)) \in Nat /\ IsFiniteSet(Places(s, f))
  BY <1>1, PlacesFinite DEF A
<1>10. Cardinality(A) = Cardinality(B)
  BY <1>8, <1>9, FS_Bijection DEF ExistsBijection
<1>11. i \in Places(s, f) <=> s[i].fiber = f
  BY <1>1 DEF Places
<1>12. Cardinality(B) = Cardinality(Places(s, f)) - One(s[i].fiber = f)
  <2>1. Cardinality(B) = IF i \in Places(s, f) THEN Cardinality(Places(s, f)) - 1
                                               ELSE Cardinality(Places(s, f))
    BY <1>9, FS_RemoveElement DEF B
  <2> QED BY <1>9, <1>11, <2>1 DEF One
<1> QED BY <1>10, <1>12 DEF A, r

-----------------------------------------------------------------------------
(* The parts of WakeUps and what a fiber is owed                           *)

Armed(f) == One(f \in timers) + One(f \in events)
Collected(f) == Cardinality({t \in Threads : f \in cbs[t]})
Queued(f) == Cardinality(Places(m_tasks, f))
Holds(t, f) == pc[t] \in {"dispatch", "resume"} /\ Cur(t) = f
InHand(f) == Cardinality({t \in Threads : Holds(t, f)})

Yielding(f) == \E t \in Threads : pc[t] = "yield" /\ Cur(t) = f
Suspended(f) == m_state[f] = "READY" \/ (m_state[f] = "RUNNING" /\ Yielding(f))

LEMMA ThreadsFinite == IsFiniteSet(Threads)
  BY ThreadsAssumption, FS_AddElement DEF Threads

LEMMA CountArmed ==
    ASSUME NEW f, NEW T, NEW E
    PROVE  Cardinality({x \in {"timer", "event"} : f \in IF x = "timer" THEN T ELSE E})
             = One(f \in T) + One(f \in E)
<1> DEFINE S == {x \in {"timer", "event"} : f \in IF x = "timer" THEN T ELSE E}
<1>1. CASE f \in T /\ f \in E
  <2>1. S = {"timer"} \cup {"event"} /\ "event" \notin {"timer"}
    BY <1>1
  <2>2. IsFiniteSet({"timer"}) /\ Cardinality({"timer"}) = 1
    BY FS_Singleton
  <2>3. Cardinality({"timer"} \cup {"event"}) = 1 + 1
    BY <2>1, <2>2, FS_AddElement
  <2> QED BY <1>1, <2>1, <2>3 DEF One
<1>2. CASE f \in T /\ f \notin E
  <2>1. S = {"timer"}
    BY <1>2
  <2>2. Cardinality({"timer"}) = 1
    BY FS_Singleton
  <2> QED BY <1>2, <2>1, <2>2 DEF One
<1>3. CASE f \notin T /\ f \in E
  <2>1. S = {"event"}
    BY <1>3
  <2>2. Cardinality({"event"}) = 1
    BY FS_Singleton
  <2> QED BY <1>3, <2>1, <2>2 DEF One
<1>4. CASE f \notin T /\ f \notin E
  <2>1. S = {}
    BY <1>4
  <2> QED BY <1>4, <2>1, FS_EmptySet DEF One
<1> QED BY <1>1, <1>2, <1>3, <1>4

LEMMA WakeUpsSum ==
    ASSUME NEW f
    PROVE  /\ WakeUps(f) = Armed(f) + Collected(f) + Queued(f) + InHand(f)
           /\ WakeUps(f)' = Armed(f)' + Collected(f)' + Queued(f)' + InHand(f)'
<1>1. Cardinality({x \in {"timer", "event"} : f \in IF x = "timer" THEN timers ELSE events}) = Armed(f)
  BY CountArmed, Zenon DEF Armed
<1>2. Cardinality({x \in {"timer", "event"} : f \in IF x = "timer" THEN timers' ELSE events'}) = Armed(f)'
  BY CountArmed, Zenon DEF Armed
<1>3. WakeUps(f) = Armed(f) + Collected(f) + Queued(f) + InHand(f)
  BY <1>1, Zenon DEF WakeUps, Collected, Queued, InHand, Holds, Places
<1>4. WakeUps(f)' = Armed(f)' + Collected(f)' + Queued(f)' + InHand(f)'
  BY <1>2, Zenon DEF WakeUps, Collected, Queued, InHand, Holds, Places
<1> QED BY <1>3, <1>4

LEMMA PartsAreNumbers ==
    ASSUME TypeOK, TypeOK', NEW f
    PROVE  /\ Armed(f) \in Nat /\ Armed(f)' \in Nat
           /\ Collected(f) \in Nat /\ Collected(f)' \in Nat
           /\ Queued(f) \in Nat /\ Queued(f)' \in Nat
           /\ InHand(f) \in Nat /\ InHand(f)' \in Nat
<1>1. Armed(f) \in Nat /\ Armed(f)' \in Nat
  BY DEF Armed, One
<1>2. \A S \in SUBSET Threads : Cardinality(S) \in Nat
  BY ThreadsFinite, FS_Subset, FS_CardinalityType
<1>3. Collected(f) \in Nat /\ Collected(f)' \in Nat
  BY <1>2 DEF Collected
<1>4. InHand(f) \in Nat /\ InHand(f)' \in Nat
  BY <1>2 DEF InHand
<1>5. Queued(f) \in Nat /\ Queued(f)' \in Nat
  BY PlacesFinite DEF TypeOK, Queued
<1> QED BY <1>1, <1>3, <1>4, <1>5

LEMMA CollectedMove ==
    ASSUME NEW f, NEW t \in Threads, \A u \in Threads \ {t} : cbs'[u] = cbs[u]
    PROVE  Collected(f)' = Collected(f) + One(f \in cbs'[t]) - One(f \in cbs[t])
<1> DEFINE A == {u \in Threads : f \in cbs[u]}
           B == {u \in Threads : f \in cbs'[u]}
<1>1. A \in SUBSET Threads /\ B \in SUBSET Threads
  OBVIOUS
<1>2. \A u \in Threads \ {t} : u \in B <=> u \in A
  OBVIOUS
<1>3. One(t \in A) = One(f \in cbs[t]) /\ One(t \in B) = One(f \in cbs'[t])
  BY DEF One
<1>4. Collected(f) = Cardinality(A) /\ Collected(f)' = Cardinality(B)
  BY DEF Collected
<1> HIDE DEF A, B
<1> QED BY <1>1, <1>2, <1>3, <1>4, ThreadsFinite, CountSwap

LEMMA InHandMove ==
    ASSUME NEW f, NEW t \in Threads,
           \A u \in Threads \ {t} : pc'[u] = pc[u] /\ task'[u] = task[u]
    PROVE  InHand(f)' = InHand(f) + One(Holds(t, f)') - One(Holds(t, f))
<1> DEFINE A == {u \in Threads : Holds(u, f)}
           B == {u \in Threads : Holds(u, f)'}
<1>1. A \in SUBSET Threads /\ B \in SUBSET Threads
  OBVIOUS
<1>2. \A u \in Threads \ {t} : u \in B <=> u \in A
  BY DEF Holds, Cur
<1>3. One(t \in A) = One(Holds(t, f)) /\ One(t \in B) = One(Holds(t, f)')
  BY DEF One
<1>4. InHand(f) = Cardinality(A) /\ InHand(f)' = Cardinality(B)
  BY DEF InHand
<1> HIDE DEF A, B
<1> QED BY <1>1, <1>2, <1>3, <1>4, ThreadsFinite, CountSwap

LEMMA QueuedPush ==
    ASSUME TypeOK, NEW f, NEW t, NEW tk \in Tasks, ScheduleLock(t, tk)
    PROVE  Queued(f)' = Queued(f) + One(tk.fiber = f)
<1>1. m_tasks \in Seq(Tasks) /\ m_tasks' = Append(m_tasks, tk)
  BY DEF TypeOK, ScheduleLock
<1>2. Queued(f)' = Cardinality(Places(Append(m_tasks, tk), f))
  BY <1>1 DEF Queued, Places
<1> QED BY <1>1, <1>2, PlacesPush DEF Queued

(* A change of the parts that is a change of what each fiber is owed.      *)
LEMMA Balance ==
    ASSUME TypeOK, TypeOK', OneWakeUp,
           \A f \in Fibers :
             Armed(f)' + Collected(f)' + Queued(f)' + InHand(f)' - One(Suspended(f)')
               = Armed(f) + Collected(f) + Queued(f) + InHand(f) - One(Suspended(f))
    PROVE  OneWakeUp'
<1> SUFFICES ASSUME NEW f \in Fibers
             PROVE  WakeUps(f)' = One(Suspended(f)')
  BY DEF OneWakeUp, One, Suspended, Yielding
<1>1. WakeUps(f) = One(Suspended(f))
  BY Zenon DEF OneWakeUp, One, Suspended, Yielding
<1>2. One(Suspended(f)) \in Nat /\ One(Suspended(f)') \in Nat
  BY DEF One
<1> QED BY <1>1, <1>2, WakeUpsSum, PartsAreNumbers

(* One thread moves: the change is settled by looking at that thread.      *)
LEMMA Account ==
    ASSUME TypeOK, TypeOK', OneWakeUp, NEW t \in Threads,
           \A u \in Threads \ {t} : pc'[u] = pc[u] /\ task'[u] = task[u] /\ cbs'[u] = cbs[u],
           \A f \in Fibers :
             Armed(f)' + One(f \in cbs'[t]) + Queued(f)' + One(Holds(t, f)') - One(Suspended(f)')
               = Armed(f) + One(f \in cbs[t]) + Queued(f) + One(Holds(t, f)) - One(Suspended(f))
    PROVE  OneWakeUp'
<1> SUFFICES ASSUME NEW f \in Fibers
             PROVE  Armed(f)' + Collected(f)' + Queued(f)' + InHand(f)' - One(Suspended(f)')
                      = Armed(f) + Collected(f) + Queued(f) + InHand(f) - One(Suspended(f))
  BY Balance
<1>1. Collected(f)' = Collected(f) + One(f \in cbs'[t]) - One(f \in cbs[t])
  BY CollectedMove
<1>2. InHand(f)' = InHand(f) + One(Holds(t, f)') - One(Holds(t, f))
  BY InHandMove
<1>3. /\ One(f \in cbs'[t]) \in Int /\ One(f \in cbs[t]) \in Int
      /\ One(Holds(t, f)') \in Int /\ One(Holds(t, f)) \in Int
      /\ One(Suspended(f)') \in Int /\ One(Suspended(f)) \in Int
  BY DEF One
<1> QED BY <1>1, <1>2, <1>3, PartsAreNumbers

(* What f is owed does not change while its state and its own yield do not.*)
LEMMA SuspendedStays ==
    ASSUME NEW f \in Fibers, NEW t \in Threads, m_state'[f] = m_state[f],
           \A u \in Threads \ {t} : pc'[u] = pc[u] /\ task'[u] = task[u],
           (pc'[t] = "yield" /\ Cur(t)' = f) <=> (pc[t] = "yield" /\ Cur(t) = f)
    PROVE  Suspended(f)' <=> Suspended(f)
  BY DEF Suspended, Yielding, Cur

(* A step that touches no wake-up: t moves between labels without a task   *)
(* that is still to be executed.                                           *)
Carrying == {"dispatch", "resume", "yield"}

LEMMA Quiet ==
    ASSUME TypeOK, TypeOK', OneWakeUp, NEW t \in Threads, NEW l,
           pc' = [pc EXCEPT ![t] = l],
           (l = pc[t] /\ task' = task) \/ (l \notin Carrying /\ pc[t] \notin Carrying),
           \A u \in Threads \ {t} : task'[u] = task[u],
           UNCHANGED <<cbs, timers, events, m_state>>,
           \A f \in Fibers : Queued(f)' = Queued(f)
    PROVE  OneWakeUp'
<1> USE DEF Carrying
<1>1. pc'[t] = l /\ \A u \in Threads \ {t} : pc'[u] = pc[u]
  BY DEF TypeOK
<1>2. ASSUME NEW f \in Fibers PROVE Holds(t, f)' <=> Holds(t, f)
  BY <1>1 DEF Holds, Cur
<1>3. ASSUME NEW f \in Fibers PROVE Suspended(f)' <=> Suspended(f)
  <2>1. (pc'[t] = "yield" /\ Cur(t)' = f) <=> (pc[t] = "yield" /\ Cur(t) = f)
    BY <1>1 DEF Cur
  <2> QED BY <1>1, <2>1, SuspendedStays
<1>4. ASSUME NEW f \in Fibers
      PROVE  Armed(f)' + One(f \in cbs'[t]) + Queued(f)' + One(Holds(t, f)') - One(Suspended(f)')
               = Armed(f) + One(f \in cbs[t]) + Queued(f) + One(Holds(t, f)) - One(Suspended(f))
  <2>1. Armed(f)' = Armed(f) /\ One(f \in cbs'[t]) = One(f \in cbs[t])
    BY DEF Armed
  <2>2. One(Holds(t, f)') = One(Holds(t, f)) /\ One(Suspended(f)') = One(Suspended(f))
    BY <1>2, <1>3 DEF One
  <2> QED BY <2>1, <2>2, Zenon
<1> QED BY <1>1, <1>4, Account

(* A callback task names no fiber until run() creates one for it; expired  *)
(* callbacks exist only inside idle().                                     *)
CallbackTasks ==
    /\ \A i \in DOMAIN m_tasks : m_tasks[i].kind = "cb" => m_tasks[i].fiber = NoFiber
    /\ \A t \in Threads : pc[t] = "dispatch" /\ task[t].kind = "cb" => Cur(t) = NoFiber
CollectedInIdle == \A t \in Threads : pc[t] # "cbs" => cbs[t] = {}

WakeInv == IInv /\ CallbackTasks /\ CollectedInIdle /\ OneWakeUp

(* A fiber in a thread's hand is suspended, and has no other wake-up.      *)
LEMMA OnlyWakeUp ==
    ASSUME TypeOK, OneWakeUp, NEW f \in Fibers
    PROVE  /\ (\E t \in Threads : Holds(t, f)) => Suspended(f) /\ f \notin timers /\ f \notin events
           /\ f \in timers => Suspended(f) /\ f \notin events
           /\ f \in events => Suspended(f) /\ f \notin timers
           /\ ~Suspended(f) => f \notin timers /\ f \notin events /\ \A t \in Threads : ~Holds(t, f)
<1>1. Armed(f) + Collected(f) + Queued(f) + InHand(f) = One(Suspended(f))
  <2>1. WakeUps(f) = One(Suspended(f))
    BY Zenon DEF OneWakeUp, One, Suspended, Yielding
  <2> QED BY <2>1, WakeUpsSum, Zenon
<1>2. /\ Armed(f) \in Nat /\ Collected(f) \in Nat /\ Queued(f) \in Nat /\ InHand(f) \in Nat
  <2>1. \A S \in SUBSET Threads : Cardinality(S) \in Nat
    BY ThreadsFinite, FS_Subset, FS_CardinalityType
  <2>2. Armed(f) \in Nat
    BY DEF Armed, One
  <2>3. Collected(f) \in Nat /\ InHand(f) \in Nat
    BY <2>1 DEF Collected, InHand
  <2>4. Queued(f) \in Nat
    BY PlacesFinite DEF TypeOK, Queued
  <2> QED BY <2>2, <2>3, <2>4
<1>3. (\E t \in Threads : Holds(t, f)) => InHand(f) # 0
  <2>1. IsFiniteSet({t \in Threads : Holds(t, f)})
    BY ThreadsFinite, FS_Subset
  <2> QED BY <2>1, FS_EmptySet DEF InHand
<1>4. One(Suspended(f)) = IF Suspended(f) THEN 1 ELSE 0
  BY DEF One
<1>5. Armed(f) = (IF f \in timers THEN 1 ELSE 0) + (IF f \in events THEN 1 ELSE 0)
  BY DEF Armed, One
<1> QED BY <1>1, <1>2, <1>3, <1>4, <1>5

LEMMA RunWake ==
    ASSUME WakeInv, TypeOK', NEW t \in Threads, RunStep(t)
    PROVE  OneWakeUp'
<1> USE DEF At, Goto, counters, fiberVars, ioVars, Carrying
<1>0. TypeOK /\ OneWakeUp /\ CurIsFiber /\ MutexHeld /\ HeldState /\ UnbornUnknown /\ FiberAsserts
  BY DEF WakeInv, IInv, FiberInv, HeldState
<1>1. /\ pc \in [Threads -> Labels] /\ task \in [Threads -> Tasks]
      /\ cbs \in [Threads -> SUBSET Fibers] /\ m_tasks \in Seq(Tasks)
      /\ m_state \in [Fibers -> {"NONE", "READY", "RUNNING", "TERM"}]
  BY <1>0 DEF TypeOK
(* The queue as it was.                                                    *)
<1>2. ASSUME m_tasks' = m_tasks
      PROVE  \A f \in Fibers : Queued(f)' = Queued(f)
  BY <1>2 DEF Queued
<1>3. \A f \in Fibers : Queued(f) \in Nat /\ Queued(f)' \in Nat /\ Armed(f) \in Nat /\ Armed(f)' \in Nat
  BY <1>0, PartsAreNumbers
<1>4. CASE Tickle(t)
  <2>1. pc' = [pc EXCEPT ![t] = pc[t]] /\ UNCHANGED <<task, cbs, timers, events, m_state, m_tasks>>
    BY <1>1, <1>4 DEF Tickle
  <2> QED BY <1>0, <1>2, <2>1, Quiet
<1>5. CASE TakeTask(t)
  <2>1. PICK i \in Eligible(t) : /\ task' = [task EXCEPT ![t] = m_tasks[i]]
                                 /\ m_tasks' = RemoveAt(m_tasks, i)
    BY <1>5 DEF TakeTask
  <2>2. i \in 1..Len(m_tasks)
    BY <1>1, LenProperties DEF Eligible
  <2>3. pc[t] = "take" /\ pc' = [pc EXCEPT ![t] = "dispatch"] /\ UNCHANGED <<cbs, timers, events, m_state>>
    BY <1>5 DEF TakeTask
  <2>4. ASSUME NEW f \in Fibers
        PROVE  Armed(f)' + One(f \in cbs'[t]) + Queued(f)' + One(Holds(t, f)') - One(Suspended(f)')
                 = Armed(f) + One(f \in cbs[t]) + Queued(f) + One(Holds(t, f)) - One(Suspended(f))
    <3>1. Queued(f)' = Queued(f) - One(m_tasks[i].fiber = f)
      BY <1>1, <2>1, <2>2, PlacesTake DEF Queued
    <3>2. (Holds(t, f)' <=> m_tasks[i].fiber = f) /\ ~Holds(t, f)
      BY <1>1, <2>1, <2>3 DEF Holds, Cur
    <3>3. Suspended(f)' <=> Suspended(f)
      BY <1>1, <2>1, <2>3, SuspendedStays
    <3>4. Armed(f)' = Armed(f) /\ cbs' = cbs
      BY <2>3 DEF Armed
    <3> QED BY <1>3, <3>1, <3>2, <3>3, <3>4 DEF One
  <2> QED BY <1>0, <1>1, <2>1, <2>3, <2>4, Account
<1>6. CASE TakeNothing(t)
  BY <1>0, <1>2, <1>6, Quiet DEF TakeNothing
<1>7. CASE LockFiber(t)
  <2>1. /\ pc[t] = "dispatch" /\ UNCHANGED <<task, cbs, timers, events, m_state, m_tasks>>
        /\ Cur(t) \in Fibers
    BY <1>1, <1>7 DEF LockFiber, Tasks, Cur
  <2>2. m_state[Cur(t)] # "TERM"
    BY <1>0, <2>1, OnlyWakeUp DEF Holds, Suspended
  <2>3. pc' = [pc EXCEPT ![t] = "resume"]
    BY <1>7, <2>2 DEF LockFiber
  <2>4. ASSUME NEW f \in Fibers
        PROVE  Armed(f)' + One(f \in cbs'[t]) + Queued(f)' + One(Holds(t, f)') - One(Suspended(f)')
                 = Armed(f) + One(f \in cbs[t]) + Queued(f) + One(Holds(t, f)) - One(Suspended(f))
    <3>1. Holds(t, f)' <=> Holds(t, f)
      BY <1>1, <2>1, <2>3 DEF Holds, Cur
    <3>2. Suspended(f)' <=> Suspended(f)
      BY <1>1, <2>1, <2>3, SuspendedStays
    <3>3. Armed(f)' = Armed(f) /\ cbs' = cbs /\ Queued(f)' = Queued(f)
      BY <1>2, <2>1 DEF Armed
    <3> QED BY <1>3, <3>1, <3>2, <3>3 DEF One
  <2> QED BY <1>0, <1>1, <2>1, <2>3, <2>4, Account
<1>8. CASE NewFiber(t)
  <2>1. PICK g \in Fibers :
          /\ m_state[g] = "NONE" /\ m_state' = [m_state EXCEPT ![g] = "READY"]
          /\ task' = [task EXCEPT ![t] = [task[t] EXCEPT !.fiber = g]]
    BY <1>8 DEF NewFiber
  <2>2. /\ pc[t] = "dispatch" /\ Cur(t) = NoFiber /\ pc' = [pc EXCEPT ![t] = "resume"]
        /\ UNCHANGED <<cbs, timers, events, m_tasks>>
    BY <1>8 DEF NewFiber, WakeInv, CallbackTasks
  <2>3. Cur(t)' = g
    BY <1>1, <2>1 DEF Cur, Tasks
  <2>4. ASSUME NEW f \in Fibers
        PROVE  Armed(f)' + One(f \in cbs'[t]) + Queued(f)' + One(Holds(t, f)') - One(Suspended(f)')
                 = Armed(f) + One(f \in cbs[t]) + Queued(f) + One(Holds(t, f)) - One(Suspended(f))
    <3>1. ~Holds(t, f) /\ (Holds(t, f)' <=> f = g)
      BY <1>1, <2>2, <2>3, FibersAssumption DEF Holds
    <3>2. f # g => (Suspended(f)' <=> Suspended(f))
      BY <1>1, <2>1, <2>2, SuspendedStays
    <3>3. f = g => Suspended(f)' /\ ~Suspended(f)
      BY <1>1, <2>1 DEF Suspended
    <3>4. Armed(f)' = Armed(f) /\ cbs' = cbs /\ Queued(f)' = Queued(f)
      BY <1>2, <2>2 DEF Armed
    <3> QED BY <1>3, <3>1, <3>2, <3>3, <3>4 DEF One
  <2> QED BY <1>0, <1>1, <2>1, <2>2, <2>4, Account
<1>9. CASE RunTimerCb(t)
  <2>1. /\ pc[t] = "dispatch" /\ pc' = [pc EXCEPT ![t] = "dec"]
        /\ UNCHANGED <<task, cbs, timers, events, m_state>>
        /\ ScheduleLock(t, FiberTask(Cur(t)))
    BY <1>9 DEF RunTimerCb
  <2>2. FiberTask(Cur(t)) \in Tasks /\ FiberTask(Cur(t)).fiber = Cur(t)
    BY <1>1, <1>9 DEF RunTimerCb, FiberTask, Tasks, Cur
  <2>3. ASSUME NEW f \in Fibers
        PROVE  Armed(f)' + One(f \in cbs'[t]) + Queued(f)' + One(Holds(t, f)') - One(Suspended(f)')
                 = Armed(f) + One(f \in cbs[t]) + Queued(f) + One(Holds(t, f)) - One(Suspended(f))
    <3>1. Queued(f)' = Queued(f) + One(Cur(t) = f)
      BY <1>0, <2>1, <2>2, QueuedPush
    <3>2. ~Holds(t, f)' /\ (Holds(t, f) <=> Cur(t) = f)
      BY <1>1, <2>1 DEF Holds
    <3>3. Suspended(f)' <=> Suspended(f)
      BY <1>1, <2>1, SuspendedStays
    <3>4. Armed(f)' = Armed(f) /\ cbs' = cbs
      BY <2>1 DEF Armed
    <3> QED BY <1>3, <3>1, <3>2, <3>3, <3>4 DEF One
  <2> QED BY <1>0, <1>1, <2>1, <2>3, Account
(* The fiber whose mutex t holds is in no other thread's hand.             *)
<1>10. ASSUME pc[t] \in HolderLabels
       PROVE  Cur(t) \in Fibers /\ \A u \in Threads \ {t} : ~(pc[u] = "yield" /\ Cur(u) = Cur(t))
  BY <1>0, <1>10 DEF CurIsFiber, MutexHeld, HolderLabels
<1>11. CASE Resume(t)
  <2>1. /\ pc[t] = "resume" /\ pc' = [pc EXCEPT ![t] = "exec"]
        /\ m_state' = [m_state EXCEPT ![Cur(t)] = "RUNNING"]
        /\ UNCHANGED <<task, cbs, timers, events, m_tasks>>
    BY <1>11 DEF Resume
  <2>2. m_state[Cur(t)] = "READY" /\ pc[t] \in HolderLabels
    BY <1>0, <2>1 DEF FiberAsserts, HolderLabels
  <2>3. ASSUME NEW f \in Fibers
        PROVE  Armed(f)' + One(f \in cbs'[t]) + Queued(f)' + One(Holds(t, f)') - One(Suspended(f)')
                 = Armed(f) + One(f \in cbs[t]) + Queued(f) + One(Holds(t, f)) - One(Suspended(f))
    <3>1. ~Holds(t, f)' /\ (Holds(t, f) <=> f = Cur(t))
      BY <1>1, <2>1 DEF Holds
    <3>2. f # Cur(t) => (Suspended(f)' <=> Suspended(f))
      BY <1>1, <2>1, SuspendedStays
    <3>3. f = Cur(t) => ~Suspended(f)' /\ Suspended(f)
      BY <1>1, <1>10, <2>1, <2>2 DEF Suspended, Yielding, Cur
    <3>4. Armed(f)' = Armed(f) /\ cbs' = cbs /\ Queued(f)' = Queued(f)
      BY <1>2, <2>1 DEF Armed
    <3> QED BY <1>3, <3>1, <3>2, <3>3, <3>4 DEF One
  <2> QED BY <1>0, <1>1, <2>1, <2>3, Account
<1>12. CASE Yield(t)
  <2>1. /\ pc[t] = "yield" /\ pc' = [pc EXCEPT ![t] = "unlock"]
        /\ m_state' = [m_state EXCEPT ![Cur(t)] = IF @ # "TERM" THEN "READY" ELSE @]
        /\ UNCHANGED <<task, cbs, timers, events, m_tasks>>
    BY <1>12 DEF Yield
  <2>2. m_state[Cur(t)] \in {"RUNNING", "TERM"} /\ pc[t] \in HolderLabels
    BY <1>0, <2>1 DEF FiberAsserts, HolderLabels
  <2>3. ASSUME NEW f \in Fibers
        PROVE  Armed(f)' + One(f \in cbs'[t]) + Queued(f)' + One(Holds(t, f)') - One(Suspended(f)')
                 = Armed(f) + One(f \in cbs[t]) + Queued(f) + One(Holds(t, f)) - One(Suspended(f))
    <3>1. ~Holds(t, f)' /\ ~Holds(t, f)
      BY <1>1, <2>1 DEF Holds
    <3>2. f # Cur(t) => (Suspended(f)' <=> Suspended(f))
      BY <1>1, <2>1, SuspendedStays
    <3>3. f = Cur(t) => (Suspended(f)' <=> Suspended(f))
      BY <1>1, <2>1, <2>2 DEF Suspended, Yielding
    <3>4. Armed(f)' = Armed(f) /\ cbs' = cbs /\ Queued(f)' = Queued(f)
      BY <1>2, <2>1 DEF Armed
    <3> QED BY <1>3, <3>1, <3>2, <3>3, <3>4 DEF One
  <2> QED BY <1>0, <1>1, <2>1, <2>3, Account
<1>13. CASE UnlockFiber(t)
  BY <1>0, <1>2, <1>13, Quiet DEF UnlockFiber
<1>14. CASE DecActive(t)
  <2>1. \A u \in Threads \ {t} : task'[u] = task[u]
    BY <1>1, <1>14 DEF DecActive
  <2> QED BY <1>0, <1>2, <1>14, <2>1, Quiet DEF DecActive
(* The fiber executing on t has no wake-up; asking for one suspends it.    *)
<1>15. ASSUME pc[t] = "exec"
       PROVE  /\ Cur(t) \in Fibers /\ m_state[Cur(t)] = "RUNNING" /\ ~Suspended(Cur(t))
              /\ Cur(t) \notin timers /\ Cur(t) \notin events
  <2>1. Cur(t) \in Fibers /\ m_state[Cur(t)] = "RUNNING" /\ ~Suspended(Cur(t))
    BY <1>0, <1>10, <1>15 DEF FiberAsserts, HolderLabels, Suspended, Yielding
  <2> QED BY <1>0, <2>1, OnlyWakeUp
<1>16. ASSUME pc[t] = "exec", pc' = [pc EXCEPT ![t] = "yield"],
              UNCHANGED <<task, cbs, m_state, m_tasks>>,
              \A f \in Fibers : Armed(f)' = Armed(f) + One(f = Cur(t))
       PROVE  OneWakeUp'
  <2>1. ASSUME NEW f \in Fibers
        PROVE  Armed(f)' + One(f \in cbs'[t]) + Queued(f)' + One(Holds(t, f)') - One(Suspended(f)')
                 = Armed(f) + One(f \in cbs[t]) + Queued(f) + One(Holds(t, f)) - One(Suspended(f))
    <3>1. ~Holds(t, f)' /\ ~Holds(t, f)
      BY <1>1, <1>16 DEF Holds
    <3>2. f # Cur(t) => (Suspended(f)' <=> Suspended(f))
      <4>1. Cur(t)' = Cur(t) /\ pc'[t] = "yield"
        BY <1>1, <1>16 DEF Cur
      <4> QED BY <1>1, <1>16, <4>1, SuspendedStays
    <3>3. f = Cur(t) => Suspended(f)' /\ ~Suspended(f)
      BY <1>1, <1>15, <1>16 DEF Suspended, Yielding, Cur
    <3>4. cbs' = cbs /\ Queued(f)' = Queued(f) /\ Armed(f)' = Armed(f) + One(f = Cur(t))
      BY <1>2, <1>16
    <3> QED BY <1>3, <3>1, <3>2, <3>3, <3>4 DEF One
  <2> QED BY <1>0, <1>1, <1>16, <2>1, Account
<1>17. CASE Sleep(t)
  <2>1. \A f \in Fibers : Armed(f)' = Armed(f) + One(f = Cur(t))
    BY <1>15, <1>17 DEF Sleep, Armed, One
  <2> QED BY <1>16, <1>17, <2>1 DEF Sleep
<1>18. CASE WaitIO(t)
  <2>1. \A f \in Fibers : Armed(f)' = Armed(f) + One(f = Cur(t))
    BY <1>15, <1>18 DEF WaitIO, Armed, One
  <2> QED BY <1>16, <1>18, <2>1 DEF WaitIO
<1>19. CASE Spawn(t)
  <2>1. CbTask(NoThread) \in Tasks /\ CbTask(NoThread).fiber = NoFiber
    BY DEF CbTask, Tasks
  <2>2. \A f \in Fibers : Queued(f)' = Queued(f)
    BY <1>0, <1>3, <1>19, <2>1, QueuedPush, FibersAssumption DEF Spawn, One
  <2>3. pc' = [pc EXCEPT ![t] = pc[t]] /\ UNCHANGED <<task, cbs, timers, events, m_state>>
    BY <1>1, <1>19 DEF Spawn
  <2> QED BY <1>0, <2>2, <2>3, Quiet
<1>20. CASE Finish(t)
  <2>1. /\ pc[t] = "exec" /\ pc' = [pc EXCEPT ![t] = "yield"]
        /\ m_state' = [m_state EXCEPT ![Cur(t)] = "TERM"]
        /\ UNCHANGED <<task, cbs, timers, events, m_tasks>>
    BY <1>20 DEF Finish
  <2>2. ASSUME NEW f \in Fibers
        PROVE  Armed(f)' + One(f \in cbs'[t]) + Queued(f)' + One(Holds(t, f)') - One(Suspended(f)')
                 = Armed(f) + One(f \in cbs[t]) + Queued(f) + One(Holds(t, f)) - One(Suspended(f))
    <3>1. ~Holds(t, f)' /\ ~Holds(t, f)
      BY <1>1, <2>1 DEF Holds
    <3>2. f # Cur(t) => (Suspended(f)' <=> Suspended(f))
      <4>1. Cur(t)' = Cur(t) /\ pc'[t] = "yield"
        BY <1>1, <2>1 DEF Cur
      <4> QED BY <1>1, <2>1, <4>1, SuspendedStays
    <3>3. f = Cur(t) => ~Suspended(f)' /\ ~Suspended(f)
      BY <1>1, <1>15, <2>1 DEF Suspended
    <3>4. Armed(f)' = Armed(f) /\ cbs' = cbs /\ Queued(f)' = Queued(f)
      BY <1>2, <2>1 DEF Armed
    <3> QED BY <1>3, <3>1, <3>2, <3>3, <3>4 DEF One
  <2> QED BY <1>0, <1>1, <2>1, <2>2, Account
<1> QED
  BY <1>4, <1>5, <1>6, <1>7, <1>8, <1>9, <1>11, <1>12, <1>13, <1>14, <1>17,
     <1>18, <1>19, <1>20 DEF RunStep

LEMMA IdleWake ==
    ASSUME WakeInv, TypeOK', NEW t \in Threads, IdleStep(t)
    PROVE  OneWakeUp'
<1> USE DEF At, Goto, counters, fiberVars, ioVars, Carrying
<1>0. TypeOK /\ OneWakeUp
  BY DEF WakeInv, IInv
<1>1. /\ pc \in [Threads -> Labels] /\ cbs \in [Threads -> SUBSET Fibers]
      /\ timers \subseteq Fibers /\ events \subseteq Fibers
      /\ ready \in [Threads -> SUBSET Fibers]
  BY <1>0 DEF TypeOK
<1>2. ASSUME m_tasks' = m_tasks
      PROVE  \A f \in Fibers : Queued(f)' = Queued(f)
  BY <1>2 DEF Queued
<1>3. \A f \in Fibers : Queued(f) \in Nat /\ Queued(f)' \in Nat /\ Armed(f) \in Nat /\ Armed(f)' \in Nat
  BY <1>0, PartsAreNumbers
(* A wake-up changes its place while t goes on inside idle().              *)
<1>4. ASSUME NEW l, pc' = [pc EXCEPT ![t] = l], l \notin Carrying, pc[t] \notin Carrying,
             UNCHANGED <<task, m_state>>, \A u \in Threads \ {t} : cbs'[u] = cbs[u],
             \A f \in Fibers : Armed(f)' + One(f \in cbs'[t]) + Queued(f)'
                                 = Armed(f) + One(f \in cbs[t]) + Queued(f)
      PROVE  OneWakeUp'
  <2>1. pc'[t] = l /\ \A u \in Threads \ {t} : pc'[u] = pc[u]
    BY <1>1, <1>4
  <2>2. ASSUME NEW f \in Fibers
        PROVE  Armed(f)' + One(f \in cbs'[t]) + Queued(f)' + One(Holds(t, f)') - One(Suspended(f)')
                 = Armed(f) + One(f \in cbs[t]) + Queued(f) + One(Holds(t, f)) - One(Suspended(f))
    <3>1. ~Holds(t, f)' /\ ~Holds(t, f)
      BY <1>4, <2>1 DEF Holds
    <3>2. Suspended(f)' <=> Suspended(f)
      BY <1>4, <2>1, SuspendedStays
    <3>3. Armed(f)' + One(f \in cbs'[t]) + Queued(f)' = Armed(f) + One(f \in cbs[t]) + Queued(f)
      BY <1>4
    <3>4. One(Holds(t, f)') = One(Holds(t, f)) /\ One(Suspended(f)') = One(Suspended(f))
      BY <3>1, <3>2 DEF One
    <3> QED BY <3>3, <3>4, Zenon
  <2> QED BY <1>0, <1>4, <2>1, <2>2, Account
<1>5. CASE ExitRun(t)
  BY <1>0, <1>2, <1>5, Quiet DEF ExitRun
<1>6. CASE EnterIdle(t)
  BY <1>0, <1>2, <1>6, Quiet DEF EnterIdle
<1>7. CASE CheckTimers(t)
  BY <1>0, <1>2, <1>7, Quiet DEF CheckTimers
<1>8. CASE CheckEvents(t)
  BY <1>0, <1>2, <1>8, Quiet DEF CheckEvents
<1>9. CASE CheckTasks(t)
  BY <1>0, <1>2, <1>9, Quiet DEF CheckTasks
<1>10. CASE EpollWait(t)
  BY <1>0, <1>2, <1>10, Quiet DEF EpollWait
<1>11. ASSUME NEW due \in SUBSET timers, ListExpiredCb(t, due)
       PROVE  OneWakeUp'
  <2>1. /\ pc[t] = "expire" /\ pc' = [pc EXCEPT ![t] = "cbs"] /\ UNCHANGED <<task, m_state, m_tasks, events>>
        /\ timers' = timers \ due /\ cbs' = [cbs EXCEPT ![t] = due] /\ cbs[t] = {}
    BY <1>11 DEF ListExpiredCb, WakeInv, CollectedInIdle
  <2>2. ASSUME NEW f \in Fibers
        PROVE  Armed(f)' + One(f \in cbs'[t]) + Queued(f)' = Armed(f) + One(f \in cbs[t]) + Queued(f)
    BY <1>1, <1>2, <1>3, <2>1 DEF Armed, One
  <2> QED BY <1>1, <1>4, <2>1, <2>2
<1>12. CASE ScheduleCb(t)
  <2>1. PICK g \in cbs[t] : ScheduleLock(t, TimerTask(g)) /\ cbs' = [cbs EXCEPT ![t] = cbs[t] \ {g}]
    BY <1>12 DEF ScheduleCb
  <2>2. /\ pc[t] = "cbs" /\ pc' = [pc EXCEPT ![t] = "cbs"] /\ UNCHANGED <<task, m_state, timers, events>>
    BY <1>1, <1>12 DEF ScheduleCb
  <2>3. TimerTask(g) \in Tasks /\ TimerTask(g).fiber = g
    BY <1>1, <2>1 DEF TimerTask, Tasks
  <2>4. ASSUME NEW f \in Fibers
        PROVE  Armed(f)' + One(f \in cbs'[t]) + Queued(f)' = Armed(f) + One(f \in cbs[t]) + Queued(f)
    <3>1. Queued(f)' = Queued(f) + One(g = f)
      BY <1>0, <2>1, <2>3, QueuedPush
    <3>2. Armed(f)' = Armed(f)
      BY <2>2 DEF Armed
    <3> QED BY <1>1, <1>3, <2>1, <3>1, <3>2 DEF One
  <2> QED BY <1>1, <1>4, <2>1, <2>2, <2>4
<1>13. CASE CbsDone(t)
  BY <1>0, <1>2, <1>13, Quiet DEF CbsDone
<1>14. CASE DrainPipe(t)
  <2>1. pc' = [pc EXCEPT ![t] = pc[t]] /\ UNCHANGED <<task, cbs, timers, events, m_state, m_tasks>>
    BY <1>1, <1>14 DEF DrainPipe
  <2> QED BY <1>0, <1>2, <2>1, Quiet
<1>15. CASE TriggerEvent(t)
  <2>1. PICK g \in ready[t] : /\ events' = events \ {g}
                              /\ IF g \in events
                                   THEN ScheduleLock(t, FiberTask(g)) /\ Goto(t, "decPending")
                                   ELSE UNCHANGED <<m_tasks, notify, pc>>
    BY <1>15 DEF TriggerEvent
  <2>2. pc[t] = "events" /\ UNCHANGED <<task, m_state, timers, cbs>>
    BY <1>15 DEF TriggerEvent
  <2>3. CASE g \in events
    <3>1. FiberTask(g) \in Tasks /\ FiberTask(g).fiber = g
      BY <1>1, <2>1 DEF FiberTask, Tasks
    <3>2. ASSUME NEW f \in Fibers
          PROVE  Armed(f)' + One(f \in cbs'[t]) + Queued(f)' = Armed(f) + One(f \in cbs[t]) + Queued(f)
      <4>1. Queued(f)' = Queued(f) + One(g = f)
        BY <1>0, <2>1, <2>3, <3>1, QueuedPush
      <4>2. Armed(f)' = Armed(f) - One(g = f)
        BY <2>1, <2>2, <2>3 DEF Armed, One
      <4> QED BY <1>3, <2>2, <4>1, <4>2 DEF One
    <3> QED BY <1>4, <2>1, <2>2, <2>3, <3>2
  <2>4. CASE g \notin events
    <3>1. events' = events /\ pc' = [pc EXCEPT ![t] = pc[t]] /\ m_tasks' = m_tasks
      BY <1>1, <2>1, <2>4
    <3> QED BY <1>0, <1>2, <2>2, <3>1, Quiet
  <2> QED BY <2>3, <2>4
<1>16. CASE DecPending(t)
  BY <1>0, <1>2, <1>16, Quiet DEF DecPending
<1>17. CASE IdleYield(t)
  BY <1>0, <1>2, <1>17, Quiet DEF IdleYield
<1>18. CASE LeaveIdle(t)
  BY <1>0, <1>2, <1>18, Quiet DEF LeaveIdle
<1> QED
  BY <1>5, <1>6, <1>7, <1>8, <1>9, <1>10, <1>11, <1>12, <1>13, <1>14, <1>15,
     <1>16, <1>17, <1>18 DEF IdleStep

LEMMA StopWake ==
    ASSUME WakeInv, TypeOK', StopStep
    PROVE  OneWakeUp'
<1> USE DEF At, Goto, counters, fiberVars, ioVars, Carrying
<1>0. TypeOK /\ OneWakeUp /\ Caller \in Threads
  BY DEF WakeInv, IInv, Threads
<1>1. pc \in [Threads -> Labels]
  BY <1>0 DEF TypeOK
<1>2. ASSUME m_tasks' = m_tasks
      PROVE  \A f \in Fibers : Queued(f)' = Queued(f)
  BY <1>2 DEF Queued
<1>3. CASE Submit
  <2>1. PICK thr \in Workers \cup {NoThread} : ScheduleLock(Caller, CbTask(thr))
    BY <1>3 DEF Submit
  <2>2. CbTask(thr) \in Tasks /\ CbTask(thr).fiber = NoFiber
    BY DEF CbTask, Tasks, Workers, Threads
  <2>3. \A f \in Fibers : Queued(f) \in Nat /\ Queued(f)' = Queued(f) + One(NoFiber = f)
    BY <1>0, <2>1, <2>2, QueuedPush, PartsAreNumbers
  <2>4. \A f \in Fibers : Queued(f)' = Queued(f)
    BY <2>3, FibersAssumption DEF One
  <2>5. pc' = [pc EXCEPT ![Caller] = pc[Caller]] /\ UNCHANGED <<task, cbs, timers, events, m_state>>
    BY <1>1, <1>3 DEF Submit
  <2> QED BY <1>0, <2>4, <2>5, Quiet
<1>4. CASE StopBegin
  BY <1>0, <1>2, <1>4, Quiet DEF StopBegin
<1>5. CASE StopTickle
  <2>1. pc' = [pc EXCEPT ![Caller] = pc[Caller]] /\ UNCHANGED <<task, cbs, timers, events, m_state, m_tasks>>
    BY <1>1, <1>5 DEF StopTickle
  <2> QED BY <1>0, <1>2, <2>1, Quiet
<1>6. CASE StopRun
  BY <1>0, <1>2, <1>6, Quiet DEF StopRun
<1>7. CASE StopJoin
  BY <1>0, <1>2, <1>7, Quiet DEF StopJoin
<1> QED BY <1>3, <1>4, <1>5, <1>6, <1>7 DEF StopStep

(* A task pushed in this step: a callback task names no fiber, and only    *)
(* the owner, before stop(), pins a task to a thread.                      *)
Fresh(tk) ==
    /\ tk.kind = "cb" => tk.fiber = NoFiber
    /\ tk.thread # NoThread => pc[Caller] = "main"

LEMMA QueueSteps ==
    ASSUME IInv, Next
    PROVE  \/ m_tasks' = m_tasks
           \/ \E t \in Threads, tk \in Tasks : ScheduleLock(t, tk) /\ Fresh(tk)
           \/ \E t \in Threads : TakeTask(t)
<1> USE DEF At
<1>0. TypeOK /\ CurIsFiber
  BY DEF IInv, FiberInv
<1>1. ASSUME NEW t \in Threads, RunStep(t), m_tasks' # m_tasks
      PROVE  TakeTask(t) \/ \E tk \in Tasks : ScheduleLock(t, tk) /\ Fresh(tk)
  <2>1. CASE RunTimerCb(t)
    <3>1. FiberTask(Cur(t)) \in Tasks /\ Fresh(FiberTask(Cur(t)))
      BY <1>0, <2>1 DEF TypeOK, RunTimerCb, FiberTask, Tasks, Fresh, Cur
    <3> QED BY <2>1, <3>1 DEF RunTimerCb
  <2>2. CASE Spawn(t)
    <3>1. CbTask(NoThread) \in Tasks /\ Fresh(CbTask(NoThread))
      BY DEF CbTask, Tasks, Fresh
    <3> QED BY <2>2, <3>1 DEF Spawn
  <2> QED
    BY <1>1, <2>1, <2>2 DEF RunStep, Tickle, TakeNothing, LockFiber, NewFiber, Resume, Yield,
         UnlockFiber, DecActive, Sleep, WaitIO, Finish
<1>2. ASSUME NEW t \in Threads, IdleStep(t), m_tasks' # m_tasks
      PROVE  \E tk \in Tasks : ScheduleLock(t, tk) /\ Fresh(tk)
  <2>1. CASE ScheduleCb(t)
    <3>1. PICK f \in cbs[t] : ScheduleLock(t, TimerTask(f))
      BY <2>1 DEF ScheduleCb
    <3>2. TimerTask(f) \in Tasks /\ Fresh(TimerTask(f))
      BY <1>0 DEF TypeOK, TimerTask, Tasks, Fresh
    <3> QED BY <3>1, <3>2
  <2>2. CASE TriggerEvent(t)
    <3>1. PICK f \in ready[t] : ScheduleLock(t, FiberTask(f))
      BY <1>2, <2>2 DEF TriggerEvent
    <3>2. FiberTask(f) \in Tasks /\ Fresh(FiberTask(f))
      BY <1>0 DEF TypeOK, FiberTask, Tasks, Fresh
    <3> QED BY <3>1, <3>2
  <2> QED
    BY <1>2, <2>1, <2>2 DEF IdleStep, ExitRun, EnterIdle, CheckTimers, CheckEvents, CheckTasks,
         EpollWait, ListExpiredCb, CbsDone, DrainPipe, DecPending, IdleYield, LeaveIdle
<1>3. ASSUME StopStep, m_tasks' # m_tasks
      PROVE  \E tk \in Tasks : ScheduleLock(Caller, tk) /\ Fresh(tk)
  <2>1. Submit
    BY <1>3 DEF StopStep, StopBegin, StopTickle, StopRun, StopJoin
  <2>2. PICK thr \in Workers \cup {NoThread} : ScheduleLock(Caller, CbTask(thr))
    BY <2>1 DEF Submit
  <2>3. CbTask(thr) \in Tasks /\ Fresh(CbTask(thr))
    BY <2>1 DEF Submit, CbTask, Tasks, Workers, Threads, Fresh
  <2> QED BY <2>2, <2>3
<1>4. Caller \in Threads
  BY DEF Threads
<1>5. CASE Stopped
  BY <1>5 DEF Stopped, vars
<1> QED BY <1>1, <1>2, <1>3, <1>4, <1>5 DEF Next

(* What is in the queue after a step was there before or is fresh.         *)
LEMMA QueueNames ==
    ASSUME IInv, Next, NEW i \in DOMAIN m_tasks'
    PROVE  Fresh(m_tasks'[i]) \/ \E j \in DOMAIN m_tasks : m_tasks'[i] = m_tasks[j]
<1>0. m_tasks \in Seq(Tasks)
  BY DEF IInv, TypeOK
<1>1. CASE m_tasks' = m_tasks
  BY <1>1
<1>2. ASSUME NEW t \in Threads, NEW tk \in Tasks, ScheduleLock(t, tk), Fresh(tk)
      PROVE  Fresh(m_tasks'[i]) \/ \E j \in DOMAIN m_tasks : m_tasks'[i] = m_tasks[j]
  <2>1. m_tasks' = Append(m_tasks, tk)
    BY <1>2 DEF ScheduleLock
  <2>2. /\ m_tasks' \in Seq(Tasks) /\ Len(m_tasks') = Len(m_tasks) + 1
        /\ \A k \in 1..Len(m_tasks) : m_tasks'[k] = m_tasks[k]
        /\ m_tasks'[Len(m_tasks) + 1] = tk
    BY <1>0, <2>1, AppendProperties
  <2>3. /\ DOMAIN m_tasks = 1..Len(m_tasks) /\ DOMAIN m_tasks' = 1..(Len(m_tasks) + 1)
        /\ Len(m_tasks) \in Nat
    BY <1>0, <2>2, LenProperties
  <2>4. CASE i = Len(m_tasks) + 1
    BY <1>2, <2>2, <2>4 DEF Fresh
  <2>5. CASE i # Len(m_tasks) + 1
    BY <2>2, <2>3, <2>5
  <2> QED BY <2>4, <2>5
<1>3. ASSUME NEW t \in Threads, TakeTask(t)
      PROVE  \E j \in DOMAIN m_tasks : m_tasks'[i] = m_tasks[j]
  <2>1. PICK k \in Eligible(t) : m_tasks' = RemoveAt(m_tasks, k)
    BY <1>3 DEF TakeTask
  <2>2. k \in 1..Len(m_tasks)
    BY <1>0, LenProperties DEF Eligible
  <2> QED BY <1>0, <2>1, <2>2, RemoveAtFacts
<1> QED BY <1>1, <1>2, <1>3, QueueSteps

LEMMA NextCallbackTasks ==
    ASSUME IInv, CallbackTasks, Next
    PROVE  CallbackTasks'
<1> USE DEF At, Goto, counters, fiberVars, ioVars
<1>0. /\ pc \in [Threads -> Labels] /\ task \in [Threads -> Tasks] /\ m_tasks \in Seq(Tasks)
  BY DEF IInv, TypeOK
<1>1. \A i \in DOMAIN m_tasks' : m_tasks'[i].kind = "cb" => m_tasks'[i].fiber = NoFiber
  BY QueueNames DEF CallbackTasks, Fresh
<1>2. ASSUME NEW t \in Threads, NEW l, pc' = [pc EXCEPT ![t] = l], l # "dispatch",
             \A u \in Threads \ {t} : task'[u] = task[u]
      PROVE  CallbackTasks'
  BY <1>0, <1>1, <1>2 DEF CallbackTasks, Cur
<1>3. ASSUME UNCHANGED <<pc, task>> PROVE CallbackTasks'
  BY <1>1, <1>3 DEF CallbackTasks, Cur
<1>4. ASSUME NEW t \in Threads, RunStep(t) PROVE CallbackTasks'
  <2>1. CASE TakeTask(t)
    <3>1. PICK i \in DOMAIN m_tasks : task' = [task EXCEPT ![t] = m_tasks[i]]
      BY <2>1 DEF TakeTask, Eligible
    <3>2. pc' = [pc EXCEPT ![t] = "dispatch"]
      BY <2>1 DEF TakeTask
    <3> QED BY <1>0, <1>1, <3>1, <3>2 DEF CallbackTasks, Cur
  <2>2. CASE NewFiber(t)
    <3>1. \A u \in Threads \ {t} : task'[u] = task[u]
      BY <1>0, <2>2 DEF NewFiber
    <3> QED BY <1>2, <2>2, <3>1 DEF NewFiber
  <2>3. CASE DecActive(t)
    <3>1. \A u \in Threads \ {t} : task'[u] = task[u]
      BY <1>0, <2>3 DEF DecActive
    <3> QED BY <1>2, <2>3, <3>1 DEF DecActive
  <2>4. CASE LockFiber(t)
    BY <1>2, <2>4 DEF LockFiber
  <2>5. CASE Tickle(t) \/ Spawn(t)
    BY <1>3, <2>5 DEF Tickle, Spawn
  <2>6. CASE TakeNothing(t) \/ RunTimerCb(t) \/ Resume(t) \/ Yield(t) \/ UnlockFiber(t)
    BY <1>2, <2>6 DEF TakeNothing, RunTimerCb, Resume, Yield, UnlockFiber
  <2>7. CASE Sleep(t) \/ WaitIO(t) \/ Finish(t)
    BY <1>2, <2>7 DEF Sleep, WaitIO, Finish
  <2> QED BY <1>4, <2>1, <2>2, <2>3, <2>4, <2>5, <2>6, <2>7 DEF RunStep
<1>5. ASSUME NEW t \in Threads, IdleStep(t) PROVE CallbackTasks'
  <2>1. CASE ExitRun(t) \/ EnterIdle(t) \/ CheckTimers(t) \/ CheckEvents(t) \/ CheckTasks(t)
    BY <1>2, <2>1 DEF ExitRun, EnterIdle, CheckTimers, CheckEvents, CheckTasks
  <2>2. CASE EpollWait(t) \/ CbsDone(t) \/ DecPending(t) \/ IdleYield(t) \/ LeaveIdle(t)
    BY <1>2, <2>2 DEF EpollWait, CbsDone, DecPending, IdleYield, LeaveIdle
  <2>3. ASSUME NEW due \in SUBSET timers, ListExpiredCb(t, due) PROVE CallbackTasks'
    BY <1>2, <2>3 DEF ListExpiredCb
  <2>4. CASE ScheduleCb(t) \/ DrainPipe(t)
    BY <1>3, <2>4 DEF ScheduleCb, DrainPipe
  <2>5. CASE TriggerEvent(t)
    BY <1>2, <1>3, <2>5 DEF TriggerEvent
  <2> QED BY <1>5, <2>1, <2>2, <2>3, <2>4, <2>5 DEF IdleStep
<1>6. CASE StopStep
  <2>1. Caller \in Threads
    BY DEF Threads
  <2> QED BY <1>2, <1>3, <1>6, <2>1 DEF StopStep, Submit, StopBegin, StopTickle, StopRun, StopJoin
<1>7. CASE Stopped
  BY <1>3, <1>7 DEF Stopped, vars, local
<1> QED BY <1>4, <1>5, <1>6, <1>7 DEF Next

LEMMA NextCollected ==
    ASSUME IInv, CollectedInIdle, Next
    PROVE  CollectedInIdle'
<1> USE DEF At, Goto, counters, fiberVars, ioVars
<1>0. /\ pc \in [Threads -> Labels] /\ cbs \in [Threads -> SUBSET Fibers]
  BY DEF IInv, TypeOK
<1>1. ASSUME NEW t \in Threads, NEW l, pc' = [pc EXCEPT ![t] = l], pc[t] # "cbs", cbs' = cbs
      PROVE  CollectedInIdle'
  BY <1>0, <1>1 DEF CollectedInIdle
<1>2. ASSUME UNCHANGED <<pc, cbs>> PROVE CollectedInIdle'
  BY <1>2 DEF CollectedInIdle
<1>3. ASSUME NEW t \in Threads, RunStep(t) PROVE CollectedInIdle'
  <2>1. CASE Tickle(t) \/ Spawn(t)
    BY <1>2, <2>1 DEF Tickle, Spawn
  <2>2. CASE TakeTask(t) \/ TakeNothing(t) \/ LockFiber(t) \/ NewFiber(t) \/ RunTimerCb(t)
    BY <1>1, <2>2 DEF TakeTask, TakeNothing, LockFiber, NewFiber, RunTimerCb
  <2>3. CASE Resume(t) \/ Yield(t) \/ UnlockFiber(t) \/ DecActive(t)
    BY <1>1, <2>3 DEF Resume, Yield, UnlockFiber, DecActive
  <2>4. CASE Sleep(t) \/ WaitIO(t) \/ Finish(t)
    BY <1>1, <2>4 DEF Sleep, WaitIO, Finish
  <2> QED BY <1>3, <2>1, <2>2, <2>3, <2>4 DEF RunStep
<1>4. ASSUME NEW t \in Threads, IdleStep(t) PROVE CollectedInIdle'
  <2>1. CASE ExitRun(t) \/ EnterIdle(t) \/ CheckTimers(t) \/ CheckEvents(t) \/ CheckTasks(t)
    BY <1>1, <2>1 DEF ExitRun, EnterIdle, CheckTimers, CheckEvents, CheckTasks
  <2>2. CASE EpollWait(t) \/ DecPending(t) \/ IdleYield(t) \/ LeaveIdle(t)
    BY <1>1, <2>2 DEF EpollWait, DecPending, IdleYield, LeaveIdle
  <2>3. ASSUME NEW due \in SUBSET timers, ListExpiredCb(t, due) PROVE CollectedInIdle'
    BY <1>0, <2>3 DEF ListExpiredCb, CollectedInIdle
  <2>4. CASE ScheduleCb(t)
    BY <1>0, <2>4 DEF ScheduleCb, CollectedInIdle
  <2>5. CASE CbsDone(t)
    BY <1>0, <2>5 DEF CbsDone, CollectedInIdle
  <2>6. CASE DrainPipe(t)
    BY <1>2, <2>6 DEF DrainPipe
  <2>7. CASE TriggerEvent(t)
    BY <1>1, <1>2, <2>7 DEF TriggerEvent
  <2> QED BY <1>4, <2>1, <2>2, <2>3, <2>4, <2>5, <2>6, <2>7 DEF IdleStep
<1>5. CASE StopStep
  <2>1. Caller \in Threads
    BY DEF Threads
  <2> QED BY <1>1, <1>2, <1>5, <2>1 DEF StopStep, Submit, StopBegin, StopTickle, StopRun, StopJoin
<1>6. CASE Stopped
  BY <1>2, <1>6 DEF Stopped, vars, local
<1> QED BY <1>3, <1>4, <1>5, <1>6 DEF Next

LEMMA InitWake == Init => WakeInv
<1> SUFFICES ASSUME Init PROVE WakeInv
  OBVIOUS
<1>1. IInv /\ TypeOK
  BY InitType, InitFiber DEF IInv
<1>2. CallbackTasks /\ CollectedInIdle
  BY DEF Init, CallbackTasks, CollectedInIdle
<1>3. ASSUME NEW f \in Fibers PROVE WakeUps(f) = 0 /\ ~Suspended(f)
  <2>1. /\ {t \in Threads : f \in cbs[t]} = {} /\ {t \in Threads : Holds(t, f)} = {}
        /\ Places(m_tasks, f) = {}
    BY DEF Init, Holds, Places
  <2>2. Collected(f) = 0 /\ InHand(f) = 0 /\ Queued(f) = 0
    BY <2>1, FS_EmptySet DEF Collected, InHand, Queued
  <2>3. Armed(f) = 0
    BY DEF Init, Armed, One
  <2>4. WakeUps(f) = 0 + 0 + 0 + 0
    BY <2>2, <2>3, WakeUpsSum
  <2> QED BY <2>4 DEF Init, Suspended
<1>4. OneWakeUp
  BY <1>3 DEF OneWakeUp, Suspended, Yielding
<1> QED BY <1>1, <1>2, <1>4 DEF WakeInv

LEMMA NextWake == WakeInv /\ [Next]_vars => WakeInv'
<1> SUFFICES ASSUME WakeInv, [Next]_vars PROVE WakeInv'
  OBVIOUS
<1>1. IInv' /\ TypeOK'
  BY NextInv DEF WakeInv, IInv
<1>2. CASE Next
  <2>1. CallbackTasks' /\ CollectedInIdle'
    BY <1>2, NextCallbackTasks, NextCollected DEF WakeInv
  <2>2. ASSUME Stopped PROVE OneWakeUp'
    BY <2>2 DEF WakeInv, Stopped, vars, local, fiberVars, ioVars, OneWakeUp, WakeUps, Cur
  <2>3. ASSUME NEW t \in Threads, RunStep(t) \/ IdleStep(t) PROVE OneWakeUp'
    BY <1>1, <2>3, RunWake, IdleWake
  <2>4. ASSUME StopStep PROVE OneWakeUp'
    BY <1>1, <2>4, StopWake
  <2>5. OneWakeUp'
    BY <1>2, <2>2, <2>3, <2>4, Zenon DEF Next
  <2> QED BY <1>1, <2>1, <2>5 DEF WakeInv
<1>3. CASE UNCHANGED vars
  BY <1>1, <1>3 DEF WakeInv, vars, local, fiberVars, ioVars, OneWakeUp, WakeUps, Cur,
     CallbackTasks, CollectedInIdle
<1> QED BY <1>2, <1>3

(* Exactly one wake-up is in flight for a suspended fiber and none for any *)
(* other, for any number of threads and fibers: run(), idle(), the sleep   *)
(* and I/O hooks and stop() together neither lose a wake-up nor make two   *)
(* of one.                                                                 *)
THEOREM WakeUpsAreExact == Spec => []OneWakeUp
<1>1. WakeInv => OneWakeUp
  BY DEF WakeInv
<1> QED BY <1>1, InitWake, NextWake, PTL DEF Spec

-----------------------------------------------------------------------------
(* The pending events                                                      *)

LEMMA PendingMove ==
    ASSUME PendingExact, NEW t \in Threads,
           \A u \in Threads \ {t} : pc'[u] = pc[u],
           Cardinality(events) \in Nat, Cardinality(events') \in Nat,
           m_pendingEventCount' = m_pendingEventCount
             + (Cardinality(events') - Cardinality(events))
             + (One(pc'[t] = "decPending") - One(pc[t] = "decPending"))
    PROVE  PendingExact'
<1> DEFINE A == {u \in Threads : pc[u] = "decPending"}
           B == {u \in Threads : pc'[u] = "decPending"}
<1>1. A \in SUBSET Threads /\ B \in SUBSET Threads
  OBVIOUS
<1>2. \A u \in Threads \ {t} : u \in B <=> u \in A
  OBVIOUS
<1>3. One(t \in A) = One(pc[t] = "decPending") /\ One(t \in B) = One(pc'[t] = "decPending")
  BY DEF One
<1>4. One(t \in A) \in Int /\ One(t \in B) \in Int
  BY DEF One
<1>5. m_pendingEventCount = Cardinality(events) + Cardinality(A)
  BY DEF PendingExact
<1> HIDE DEF A, B
<1>6. /\ Cardinality(A) \in Nat /\ Cardinality(B) \in Nat
      /\ Cardinality(B) = Cardinality(A) + One(t \in B) - One(t \in A)
  BY <1>1, <1>2, ThreadsFinite, CountSwap
<1>7. m_pendingEventCount' = Cardinality(events') + Cardinality(B)
  BY <1>3, <1>4, <1>5, <1>6
<1> QED BY <1>7 DEF PendingExact, B

LEMMA NextPending == WakeInv /\ PendingExact /\ [Next]_vars => PendingExact'
<1> SUFFICES ASSUME WakeInv, PendingExact, [Next]_vars PROVE PendingExact'
  OBVIOUS
<1> USE DEF At, Goto, counters, fiberVars, ioVars
<1>0. TypeOK /\ OneWakeUp /\ CurIsFiber /\ MutexHeld /\ FiberAsserts
  BY DEF WakeInv, IInv, FiberInv, HeldState
<1>1. pc \in [Threads -> Labels] /\ m_pendingEventCount \in Int
  BY <1>0 DEF TypeOK
<1>2. IsFiniteSet(events) /\ Cardinality(events) \in Nat
  BY <1>0, FibersAssumption, FS_Subset, FS_CardinalityType DEF TypeOK
<1>3. ASSUME UNCHANGED <<pc, events, m_pendingEventCount>> PROVE PendingExact'
  BY <1>3 DEF PendingExact
<1>4. ASSUME NEW t \in Threads, NEW l, pc' = [pc EXCEPT ![t] = l],
             l # "decPending", pc[t] # "decPending",
             UNCHANGED <<events, m_pendingEventCount>>
      PROVE  PendingExact'
  BY <1>1, <1>2, <1>4, PendingMove DEF One
<1>5. ASSUME NEW t \in Threads, RunStep(t) PROVE PendingExact'
  <2>1. CASE Tickle(t) \/ Spawn(t)
    BY <1>3, <2>1 DEF Tickle, Spawn
  <2>2. CASE TakeTask(t) \/ TakeNothing(t) \/ NewFiber(t) \/ RunTimerCb(t)
    BY <1>4, <2>2 DEF TakeTask, TakeNothing, NewFiber, RunTimerCb
  <2>3. CASE LockFiber(t)
    BY <1>4, <2>3 DEF LockFiber
  <2>4. CASE Resume(t) \/ Yield(t) \/ UnlockFiber(t) \/ DecActive(t)
    BY <1>4, <2>4 DEF Resume, Yield, UnlockFiber, DecActive
  <2>5. CASE Sleep(t) \/ Finish(t)
    BY <1>4, <2>5 DEF Sleep, Finish
  <2>6. CASE WaitIO(t)
    <3>1. /\ pc[t] = "exec" /\ pc' = [pc EXCEPT ![t] = "yield"]
          /\ events' = events \cup {Cur(t)} /\ m_pendingEventCount' = m_pendingEventCount + 1
      BY <2>6 DEF WaitIO
    <3>2. Cur(t) \in Fibers /\ ~Suspended(Cur(t))
      BY <1>0, <3>1 DEF CurIsFiber, MutexHeld, FiberAsserts, HolderLabels, Suspended, Yielding
    <3>3. Cur(t) \notin events
      BY <1>0, <3>2, OnlyWakeUp
    <3>4. Cardinality(events') = Cardinality(events) + 1
      BY <1>2, <3>1, <3>3, FS_AddElement
    <3>5. pc'[t] = "yield" /\ \A u \in Threads \ {t} : pc'[u] = pc[u]
      BY <1>1, <3>1
    <3>6. One(pc'[t] = "decPending") = 0 /\ One(pc[t] = "decPending") = 0
      BY <3>1, <3>5 DEF One
    <3>7. m_pendingEventCount' = m_pendingEventCount
            + (Cardinality(events') - Cardinality(events))
            + (One(pc'[t] = "decPending") - One(pc[t] = "decPending"))
      BY <1>1, <1>2, <3>1, <3>4, <3>6
    <3>8. Cardinality(events') \in Nat
      BY <1>2, <3>4
    <3> QED BY <1>2, <3>5, <3>7, <3>8, PendingMove
  <2> QED BY <1>5, <2>1, <2>2, <2>3, <2>4, <2>5, <2>6 DEF RunStep
<1>6. ASSUME NEW t \in Threads, IdleStep(t) PROVE PendingExact'
  <2>1. CASE ExitRun(t) \/ EnterIdle(t) \/ CheckTimers(t) \/ CheckEvents(t) \/ CheckTasks(t)
    BY <1>4, <2>1 DEF ExitRun, EnterIdle, CheckTimers, CheckEvents, CheckTasks
  <2>2. CASE EpollWait(t) \/ CbsDone(t) \/ IdleYield(t) \/ LeaveIdle(t)
    BY <1>4, <2>2 DEF EpollWait, CbsDone, IdleYield, LeaveIdle
  <2>3. ASSUME NEW due \in SUBSET timers, ListExpiredCb(t, due) PROVE PendingExact'
    BY <1>4, <2>3 DEF ListExpiredCb
  <2>4. CASE ScheduleCb(t) \/ DrainPipe(t)
    BY <1>3, <2>4 DEF ScheduleCb, DrainPipe
  <2>5. CASE TriggerEvent(t)
    <3>1. PICK f \in ready[t] : /\ events' = events \ {f}
                                /\ IF f \in events THEN Goto(t, "decPending") ELSE pc' = pc
      BY <2>5 DEF TriggerEvent
    <3>2. pc[t] = "events" /\ m_pendingEventCount' = m_pendingEventCount
      BY <2>5 DEF TriggerEvent
    <3>3. CASE f \notin events
      <4>1. events' = events
        BY <3>1, <3>3
      <4> QED BY <1>3, <3>1, <3>2, <3>3, <4>1
    <3>4. CASE f \in events
      <4>1. Cardinality(events') = Cardinality(events) - 1 /\ Cardinality(events') \in Nat
        BY <1>2, <3>1, <3>4, FS_RemoveElement, FS_CardinalityType
      <4>2. pc'[t] = "decPending" /\ \A u \in Threads \ {t} : pc'[u] = pc[u]
        BY <1>1, <3>1, <3>4
      <4> QED BY <1>1, <1>2, <3>2, <4>1, <4>2, PendingMove DEF One
    <3> QED BY <3>3, <3>4
  <2>6. CASE DecPending(t)
    <3>1. /\ pc[t] = "decPending" /\ pc' = [pc EXCEPT ![t] = "events"]
          /\ events' = events /\ m_pendingEventCount' = m_pendingEventCount - 1
      BY <2>6 DEF DecPending
    <3>2. pc'[t] = "events" /\ \A u \in Threads \ {t} : pc'[u] = pc[u]
      BY <1>1, <3>1
    <3> QED BY <1>1, <1>2, <3>1, <3>2, PendingMove DEF One
  <2> QED BY <1>6, <2>1, <2>2, <2>3, <2>4, <2>5, <2>6 DEF IdleStep
<1>7. CASE StopStep
  <2>1. Caller \in Threads
    BY DEF Threads
  <2> QED BY <1>3, <1>4, <1>7, <2>1 DEF StopStep, Submit, StopBegin, StopTickle, StopRun, StopJoin
<1>8. CASE UNCHANGED vars
  BY <1>3, <1>8 DEF vars, local
<1> QED BY <1>5, <1>6, <1>7, <1>8 DEF Next, Stopped

(* m_pendingEventCount is the number of registered events and of those     *)
(* just triggered, whatever the interleaving of addEvent with the epoll    *)
(* results: it is never negative, and stopping() reads a true count.       *)
THEOREM PendingCountExact == Spec => []PendingExact
<1>1. Init => PendingExact
  <2> SUFFICES ASSUME Init PROVE PendingExact
    OBVIOUS
  <2>1. {t \in Threads : pc[t] = "decPending"} = {}
    BY DEF Init
  <2>2. events = {} /\ m_pendingEventCount = 0 /\ Cardinality({}) = 0
    BY FS_EmptySet DEF Init
  <2> QED BY <2>1, <2>2 DEF PendingExact
<1> QED BY <1>1, InitWake, NextWake, NextPending, PTL DEF Spec

-----------------------------------------------------------------------------
(* The end of stop()                                                       *)

Gone == {"exit", "joined"}

(* t will look at the queue no more.                                       *)
Late(t) == pc[t] \in Gone \/ (pc[t] = "enterIdle" /\ t \in idleTerm)

(* m_stopping is set when the owner enters stop().  An idle fiber ends     *)
(* only after that, and from then on no queued task is pinned to a thread. *)
(* A queued task always has a worker that will still look at the queue.    *)
StopInv ==
    /\ m_stopping <=> pc[Caller] # "main"
    /\ idleTerm # {} => m_stopping /\ \A i \in DOMAIN m_tasks : m_tasks[i].thread = NoThread
    /\ \A t \in Threads : pc[t] \notin StopLabels \cup {"exit"} => t \in Workers
    /\ \A t \in Workers : pc[t] \in Gone => t \in idleTerm
    /\ pc[Caller] = "joined" => Exited
    /\ m_tasks # <<>> => \E t \in Workers : ~Late(t)

(* How a step moves threads and changes what StopInv speaks of, besides    *)
(* the queue: t goes on to label l.                                        *)
LEMMA StopStays ==
    ASSUME IInv, IInv', StopInv, Next, NEW t \in Threads, NEW l,
           pc' = [pc EXCEPT ![t] = l], UNCHANGED <<m_stopping, idleTerm>>,
           pc[t] \notin {"main", "joined"}, pc[t] = "exit" => l = "joined", l # "main",
           l \notin StopLabels \cup {"exit"} => t \in Workers,
           l \in Gone /\ t \in Workers => t \in idleTerm,
           l = "joined" => Exited,
           m_tasks' # <<>> => \E u \in Workers : ~Late(u)'
    PROVE  StopInv'
<1>0. pc \in [Threads -> Labels] /\ Caller \in Threads
  BY DEF IInv, TypeOK, Threads
<1>1. pc'[t] = l /\ \A u \in Threads \ {t} : pc'[u] = pc[u]
  BY <1>0
<1>2. m_stopping' <=> pc'[Caller] # "main"
  BY <1>0, <1>1 DEF StopInv
<1>3. ASSUME idleTerm' # {}
      PROVE  m_stopping' /\ \A i \in DOMAIN m_tasks' : m_tasks'[i].thread = NoThread
  BY <1>3, QueueNames DEF StopInv, Fresh
<1>4. \A u \in Threads : pc'[u] \notin StopLabels \cup {"exit"} => u \in Workers
  BY <1>1 DEF StopInv
<1>5. \A u \in Workers : pc'[u] \in Gone => u \in idleTerm'
  BY <1>1 DEF StopInv, Workers, Threads
<1>6. ASSUME pc'[Caller] = "joined" PROVE Exited'
  <2>1. l = "joined" \/ pc[Caller] = "joined"
    BY <1>0, <1>1, <1>6
  <2>2. Exited
    BY <2>1 DEF StopInv
  <2>3. l = "joined"
    BY <2>2 DEF Exited
  <2> QED BY <1>1, <2>2, <2>3 DEF Exited
<1> QED BY <1>2, <1>3, <1>4, <1>5, <1>6 DEF StopInv

LEMMA NextStop ==
    ASSUME IInv, IInv', StopInv, Next
    PROVE  StopInv'
<1> USE DEF At, Goto, counters, fiberVars, ioVars, StopLabels, Gone
<1>0. pc \in [Threads -> Labels] /\ m_tasks \in Seq(Tasks) /\ idleTerm \subseteq Threads /\ Caller \in Threads
  BY DEF IInv, TypeOK, Threads
<1>1. Workers \subseteq Threads
  BY DEF Workers, Threads
<1>2. ASSUME UNCHANGED <<pc, m_stopping, idleTerm, m_tasks>> PROVE StopInv'
  BY <1>2 DEF StopInv, Late, Exited
(* A worker goes on and will look at the queue again.                      *)
<1>3. ASSUME NEW t \in Threads, NEW l, pc' = [pc EXCEPT ![t] = l], UNCHANGED <<m_stopping, idleTerm>>,
             pc[t] \notin StopLabels \cup {"exit"}, l \notin StopLabels \cup {"exit"},
             l = "enterIdle" => t \notin idleTerm
      PROVE  StopInv'
  <2>1. t \in Workers
    BY <1>3 DEF StopInv
  <2>2. pc'[t] = l
    BY <1>0, <1>3
  <2>3. ~Late(t)'
    BY <1>3, <2>2 DEF Late
  <2> QED BY <1>3, <2>1, <2>3, StopStays
<1>4. ASSUME NEW t \in Threads, RunStep(t) PROVE StopInv'
  <2>1. CASE Tickle(t)
    BY <1>2, <2>1 DEF Tickle
  <2>2. CASE TakeNothing(t)
    <3>1. /\ pc[t] = "take" /\ pc' = [pc EXCEPT ![t] = "enterIdle"] /\ Eligible(t) = {}
          /\ UNCHANGED <<m_stopping, idleTerm, m_tasks>>
      BY <2>2 DEF TakeNothing
    <3>2. CASE t \notin idleTerm
      BY <1>3, <3>1, <3>2
    <3>3. CASE t \in idleTerm
      <4>1. DOMAIN m_tasks = {}
        BY <3>1, <3>3 DEF StopInv, Eligible
      <4>2. m_tasks = <<>>
        BY <1>0, <4>1, EmptySeq, LenProperties
      <4>3. t \in Workers
        BY <3>1 DEF StopInv
      <4> QED BY <3>1, <4>2, <4>3, StopStays
    <3> QED BY <3>2, <3>3
  <2>3. CASE Spawn(t)
    <3>1. pc' = [pc EXCEPT ![t] = "exec"] /\ pc[t] = "exec" /\ UNCHANGED <<m_stopping, idleTerm>>
      BY <1>0, <2>3 DEF Spawn
    <3> QED BY <1>3, <3>1
  <2>4. CASE TakeTask(t) \/ NewFiber(t) \/ RunTimerCb(t) \/ LockFiber(t)
    BY <1>3, <2>4 DEF TakeTask, NewFiber, RunTimerCb, LockFiber
  <2>5. CASE Resume(t) \/ Yield(t) \/ UnlockFiber(t) \/ DecActive(t)
    BY <1>3, <2>5 DEF Resume, Yield, UnlockFiber, DecActive
  <2>6. CASE Sleep(t) \/ WaitIO(t) \/ Finish(t)
    BY <1>3, <2>6 DEF Sleep, WaitIO, Finish
  <2> QED BY <1>4, <2>1, <2>2, <2>3, <2>4, <2>5, <2>6 DEF RunStep
<1>5. ASSUME NEW t \in Threads, IdleStep(t) PROVE StopInv'
  <2>1. CASE ExitRun(t)
    <3>1. /\ pc[t] = "enterIdle" /\ t \in idleTerm /\ pc' = [pc EXCEPT ![t] = "exit"]
          /\ UNCHANGED <<m_stopping, idleTerm, m_tasks>>
      BY <2>1 DEF ExitRun
    <3>2. m_tasks' # <<>> => \E u \in Workers : ~Late(u)'
      BY <1>0, <1>1, <3>1 DEF StopInv, Late
    <3> QED BY <3>1, <3>2, StopStays
  <2>2. CASE CheckTasks(t)
    <3>1. pc[t] = "chkTasks" /\ t \in Workers /\ UNCHANGED <<m_stopping, m_tasks>>
      BY <2>2 DEF CheckTasks, StopInv
    <3>2. CASE ~SchedulerStopping
      BY <1>3, <2>2, <3>1, <3>2 DEF CheckTasks
    <3>3. CASE SchedulerStopping
      <4>1. /\ idleTerm' = idleTerm \cup {t} /\ pc' = [pc EXCEPT ![t] = "leaveIdle"]
            /\ m_stopping /\ m_tasks = <<>>
        BY <2>2, <3>3 DEF CheckTasks, SchedulerStopping
      <4>2. pc'[t] = "leaveIdle" /\ \A u \in Threads \ {t} : pc'[u] = pc[u]
        BY <1>0, <4>1
      <4>3. DOMAIN m_tasks' = {}
        BY <3>1, <4>1
      <4>4. m_stopping' <=> pc'[Caller] # "main"
        BY <1>0, <3>1, <4>2 DEF StopInv
      <4>5. pc[Caller] # "joined" /\ pc'[Caller] # "joined"
        BY <1>0, <3>1, <4>2 DEF StopInv, Exited
      <4> QED BY <1>1, <3>1, <4>1, <4>2, <4>3, <4>4, <4>5 DEF StopInv
    <3> QED BY <3>2, <3>3
  <2>3. CASE EnterIdle(t) \/ CheckTimers(t) \/ CheckEvents(t) \/ EpollWait(t)
    BY <1>3, <2>3 DEF EnterIdle, CheckTimers, CheckEvents, EpollWait
  <2>4. ASSUME NEW due \in SUBSET timers, ListExpiredCb(t, due) PROVE StopInv'
    BY <1>3, <2>4 DEF ListExpiredCb
  <2>5. CASE ScheduleCb(t)
    <3>1. pc' = [pc EXCEPT ![t] = "cbs"] /\ pc[t] = "cbs" /\ UNCHANGED <<m_stopping, idleTerm>>
      BY <1>0, <2>5 DEF ScheduleCb
    <3> QED BY <1>3, <3>1
  <2>6. CASE CbsDone(t) \/ DecPending(t) \/ IdleYield(t) \/ LeaveIdle(t)
    BY <1>3, <2>6 DEF CbsDone, DecPending, IdleYield, LeaveIdle
  <2>7. CASE DrainPipe(t)
    BY <1>2, <2>7 DEF DrainPipe
  <2>8. CASE TriggerEvent(t)
    <3>1. PICK l \in {"events", "decPending"} : pc' = [pc EXCEPT ![t] = l]
      BY <1>0, <2>8 DEF TriggerEvent
    <3>2. pc[t] = "events" /\ UNCHANGED <<m_stopping, idleTerm>>
      BY <2>8 DEF TriggerEvent
    <3> QED BY <1>3, <3>1, <3>2
  <2> QED BY <1>5, <2>1, <2>2, <2>3, <2>4, <2>5, <2>6, <2>7, <2>8 DEF IdleStep
<1>6. CASE Submit
  <2>1. pc[Caller] = "main" /\ UNCHANGED <<pc, m_stopping, idleTerm>>
    BY <1>6 DEF Submit
  <2>2. idleTerm = {} /\ ~m_stopping
    BY <2>1 DEF StopInv
  <2>3. \A u \in Workers : ~Late(u)'
    BY <2>1, <2>2 DEF StopInv, Late
  <2> QED BY <2>1, <2>2, <2>3, WorkersAssumption DEF StopInv, Exited
<1>7. CASE StopBegin
  <2>1. /\ pc[Caller] = "main" /\ pc' = [pc EXCEPT ![Caller] = "stopTickle"] /\ m_stopping' = TRUE
        /\ UNCHANGED <<idleTerm, m_tasks>>
    BY <1>7 DEF StopBegin
  <2>2. pc'[Caller] = "stopTickle" /\ \A u \in Threads \ {Caller} : pc'[u] = pc[u]
    BY <1>0, <2>1
  <2>3. \A u \in Workers : ~Late(u) => ~Late(u)'
    BY <1>1, <2>1, <2>2 DEF Late
  <2> QED BY <1>1, <2>1, <2>2, <2>3 DEF StopInv
<1>8. CASE StopTickle
  BY <1>2, <1>8 DEF StopTickle
<1>9. CASE StopRun
  <2>1. /\ pc[Caller] = "stopTickle" /\ pc' = [pc EXCEPT ![Caller] = IF UseCaller THEN "take" ELSE "exit"]
        /\ UNCHANGED <<m_stopping, idleTerm, m_tasks>>
    BY <1>9 DEF StopRun
  <2>2. UseCaller <=> Caller \in Workers
    BY ThreadsAssumption DEF Workers, Threads
  <2>3. \A u \in Workers : ~Late(u) => ~Late(u)'
    BY <1>0, <1>1, <2>1, <2>2 DEF Late
  <2>4. m_tasks' # <<>> => \E u \in Workers : ~Late(u)'
    BY <2>1, <2>3 DEF StopInv
  <2>5. CASE UseCaller
    BY <1>0, <2>1, <2>2, <2>4, <2>5, StopStays
  <2>6. CASE ~UseCaller
    BY <1>0, <2>1, <2>2, <2>4, <2>6, StopStays
  <2> QED BY <2>5, <2>6
<1>10. CASE StopJoin
  <2>1. /\ pc[Caller] = "exit" /\ pc' = [pc EXCEPT ![Caller] = "joined"] /\ Exited
        /\ UNCHANGED <<m_stopping, idleTerm, m_tasks>>
    BY <1>10 DEF StopJoin
  <2>2. m_tasks' # <<>> => \E u \in Workers : ~Late(u)'
    BY <1>0, <1>1, <2>1 DEF StopInv, Late
  <2>3. Caller \in Workers => Caller \in idleTerm
    BY <2>1 DEF StopInv
  <2> QED BY <1>0, <2>1, <2>2, <2>3, StopStays
<1>11. CASE Stopped
  BY <1>2, <1>11 DEF Stopped, vars, local
<1> QED BY <1>4, <1>5, <1>6, <1>7, <1>8, <1>9, <1>10, <1>11 DEF Next, StopStep

(* When stop() has joined all threads, every queued task was taken and     *)
(* executed and m_activeThreadCount is back at zero, for any number of     *)
(* threads, with and without use_caller: the assertion of the destructor.  *)
THEOREM DestructorAssertHolds == Spec => []DestructorAssert
<1>1. Init => IInv /\ ThreadCountersExact /\ StopInv
  <2> SUFFICES ASSUME Init PROVE IInv /\ ThreadCountersExact /\ StopInv
    OBVIOUS
  <2>1. IInv
    BY InitType, InitFiber DEF IInv
  <2>2. {t \in Threads : pc[t] \in ActiveLabels} = {} /\ {t \in Threads : pc[t] \in IdleLabels} = {}
    BY DEF Init, ActiveLabels, IdleLabels
  <2>3. ThreadCountersExact
    BY <2>2, FS_EmptySet DEF Init, ThreadCountersExact
  <2>4. StopInv
    BY DEF Init, StopInv, StopLabels, Gone, Workers, Threads
  <2> QED BY <2>1, <2>3, <2>4
<1>2. IInv /\ StopInv /\ [Next]_vars => StopInv'
  <2> SUFFICES ASSUME IInv, StopInv, [Next]_vars PROVE StopInv'
    OBVIOUS
  <2>1. CASE Next
    BY <2>1, NextInv, NextStop
  <2>2. CASE UNCHANGED vars
    BY <2>2 DEF vars, local, counters, StopInv, Late, Exited
  <2> QED BY <2>1, <2>2
<1>3. StopInv /\ ThreadCountersExact => DestructorAssert
  <2> SUFFICES ASSUME StopInv, ThreadCountersExact, pc[Caller] = "joined"
               PROVE  m_stopping /\ m_tasks = <<>> /\ m_activeThreadCount = 0
    BY DEF DestructorAssert
  <2>1. Exited /\ m_stopping
    BY DEF StopInv
  <2>2. \A t \in Workers : Late(t)
    BY <2>1 DEF Exited, Late, Gone, Workers, Threads
  <2>3. {t \in Threads : pc[t] \in ActiveLabels} = {}
    BY <2>1 DEF Exited, ActiveLabels
  <2>4. m_activeThreadCount = 0
    BY <2>3, FS_EmptySet DEF ThreadCountersExact
  <2> QED BY <2>1, <2>2, <2>4 DEF StopInv
<1> QED BY <1>1, <1>2, <1>3, NextInv, NextCounters, PTL DEF Spec

-----------------------------------------------------------------------------
(* The scheduler implements FiberLife                                      *)

On(f) == \E t \in Threads : OnStack(t, f)

(* The steps of FiberLife, in terms of the scheduler.                      *)
LEMMA LifeStutter ==
    ASSUME \A f \in Fibers : Life(f)' = Life(f) /\ (On(f)' <=> On(f))
    PROVE  UNCHANGED <<[f \in Fibers |-> Life(f)], {f \in Fibers : On(f)}>>
  OBVIOUS

LEMMA LifeCreate ==
    ASSUME NEW g \in Fibers, Life(g) = "new", Life(g)' = "ready",
           \A f \in Fibers \ {g} : Life(f)' = Life(f), \A f \in Fibers : On(f)' <=> On(f)
    PROVE  Lives!Create(g)
  BY DEF Lives!Create, On

LEMMA LifeRun ==
    ASSUME NEW g \in Fibers, Life(g) = "ready", Life(g)' = "running", ~On(g), On(g)',
           \A f \in Fibers \ {g} : Life(f)' = Life(f) /\ (On(f)' <=> On(f))
    PROVE  Lives!Run(g)
  BY DEF Lives!Run, On

LEMMA LifeWait ==
    ASSUME NEW g \in Fibers, Life(g) = "running", Life(g)' = "waiting",
           \A f \in Fibers \ {g} : Life(f)' = Life(f), \A f \in Fibers : On(f)' <=> On(f)
    PROVE  Lives!Wait(g)
  BY DEF Lives!Wait, On

LEMMA LifeEnd ==
    ASSUME NEW g \in Fibers, Life(g) = "running", Life(g)' = "done",
           \A f \in Fibers \ {g} : Life(f)' = Life(f), \A f \in Fibers : On(f)' <=> On(f)
    PROVE  Lives!End(g)
  BY DEF Lives!End, On

LEMMA LifeLeave ==
    ASSUME NEW g \in Fibers, Life(g) # "running", On(g), ~On(g)',
           \A f \in Fibers : Life(f)' = Life(f), \A f \in Fibers \ {g} : On(f)' <=> On(f)
    PROVE  Lives!Leave(g)
  BY DEF Lives!Leave, On

LEMMA LifeWake ==
    ASSUME NEW S \in SUBSET Fibers, \A f \in S : Life(f) = "waiting" /\ Life(f)' = "ready",
           \A f \in Fibers \ S : Life(f)' = Life(f), \A f \in Fibers : On(f)' <=> On(f)
    PROVE  Lives!Wake(S)
  BY DEF Lives!Wake, On

LivesStep == Lives!Next \/ UNCHANGED <<[f \in Fibers |-> Life(f)], {f \in Fibers : On(f)}>>

LEMMA LifeStays ==
    ASSUME NEW f \in Fibers, NEW t \in Threads, m_state'[f] = m_state[f],
           f \in timers' \cup events' <=> f \in timers \cup events,
           \A u \in Threads \ {t} : pc'[u] = pc[u] /\ task'[u] = task[u],
           (pc'[t] = "yield" /\ Cur(t)' = f) <=> (pc[t] = "yield" /\ Cur(t) = f)
    PROVE  Life(f)' = Life(f)
<1>1. Yielding(f)' <=> Yielding(f)
  BY DEF Yielding, Cur
<1> QED BY <1>1 DEF Life, Yielding

LEMMA OnStays ==
    ASSUME NEW f, NEW t \in Threads,
           \A u \in Threads \ {t} : pc'[u] = pc[u] /\ task'[u] = task[u],
           OnStack(t, f)' <=> OnStack(t, f)
    PROVE  On(f)' <=> On(f)
  BY DEF On, OnStack, Cur

(* A step that is none of FiberLife: no fiber's state, timer or event      *)
(* changes, and t moves off the stacks.                                    *)
OnLabels == {"exec", "yield", "unlock"}

LEMMA LifeQuiet ==
    ASSUME TypeOK, NEW t \in Threads, NEW l, pc' = [pc EXCEPT ![t] = l],
           (l = pc[t] /\ task' = task) \/ (l \notin OnLabels /\ pc[t] \notin OnLabels),
           \A u \in Threads \ {t} : task'[u] = task[u],
           UNCHANGED <<timers, events, m_state>>
    PROVE  LivesStep
<1> USE DEF OnLabels
<1>1. pc'[t] = l /\ \A u \in Threads \ {t} : pc'[u] = pc[u]
  BY DEF TypeOK
<1>2. ASSUME NEW f \in Fibers PROVE Life(f)' = Life(f) /\ (On(f)' <=> On(f))
  <2>1. OnStack(t, f)' <=> OnStack(t, f)
    BY <1>1 DEF OnStack, Cur
  <2>2. (pc'[t] = "yield" /\ Cur(t)' = f) <=> (pc[t] = "yield" /\ Cur(t) = f)
    BY <1>1 DEF Cur
  <2>3. f \in timers' \cup events' <=> f \in timers \cup events
    OBVIOUS
  <2> QED BY <1>1, <2>1, <2>2, <2>3, LifeStays, OnStays
<1> QED BY <1>2, LifeStutter DEF LivesStep

LEMMA RunLives ==
    ASSUME WakeInv, NEW t \in Threads, RunStep(t)
    PROVE  LivesStep
<1> USE DEF At, Goto, counters, fiberVars, ioVars, OnLabels
<1>0. TypeOK /\ OneWakeUp /\ CurIsFiber /\ MutexHeld /\ HeldState /\ UnbornUnknown /\ FiberAsserts
  BY DEF WakeInv, IInv, FiberInv, HeldState
<1>1. /\ pc \in [Threads -> Labels] /\ task \in [Threads -> Tasks]
      /\ m_state \in [Fibers -> {"NONE", "READY", "RUNNING", "TERM"}]
  BY <1>0 DEF TypeOK
(* The fiber whose mutex t holds is on no other thread's stack.            *)
<1>2. ASSUME pc[t] \in HolderLabels
      PROVE  Cur(t) \in Fibers /\ \A u \in Threads \ {t} : ~OnStack(u, Cur(t))
  BY <1>0, <1>2 DEF CurIsFiber, MutexHeld, HolderLabels, OnStack
<1>3. CASE Tickle(t) \/ Spawn(t)
  <2>1. pc' = [pc EXCEPT ![t] = pc[t]] /\ UNCHANGED <<task, timers, events, m_state>>
    BY <1>1, <1>3 DEF Tickle, Spawn
  <2> QED BY <1>0, <2>1, LifeQuiet
<1>4. CASE TakeTask(t)
  <2>1. \A u \in Threads \ {t} : task'[u] = task[u]
    BY <1>1, <1>4 DEF TakeTask
  <2> QED BY <1>0, <1>4, <2>1, LifeQuiet DEF TakeTask
<1>5. CASE DecActive(t)
  <2>1. \A u \in Threads \ {t} : task'[u] = task[u]
    BY <1>1, <1>5 DEF DecActive
  <2> QED BY <1>0, <1>5, <2>1, LifeQuiet DEF DecActive
<1>6. CASE TakeNothing(t)
  BY <1>0, <1>6, LifeQuiet DEF TakeNothing
<1>7. CASE RunTimerCb(t)
  BY <1>0, <1>7, LifeQuiet DEF RunTimerCb
<1>8. CASE LockFiber(t)
  <2>1. pc[t] = "dispatch" /\ UNCHANGED <<task, timers, events, m_state>> /\ Cur(t) \in Fibers
    BY <1>1, <1>8 DEF LockFiber, Tasks, Cur
  <2>2. m_state[Cur(t)] # "TERM"
    BY <1>0, <2>1, OnlyWakeUp DEF Holds, Suspended
  <2>3. pc' = [pc EXCEPT ![t] = "resume"]
    BY <1>8, <2>2 DEF LockFiber
  <2> QED BY <1>0, <2>1, <2>3, LifeQuiet
<1>9. CASE NewFiber(t)
  <2>1. PICK g \in Fibers :
          /\ m_state[g] = "NONE" /\ m_state' = [m_state EXCEPT ![g] = "READY"]
          /\ task' = [task EXCEPT ![t] = [task[t] EXCEPT !.fiber = g]]
    BY <1>9 DEF NewFiber
  <2>2. pc[t] = "dispatch" /\ pc' = [pc EXCEPT ![t] = "resume"] /\ UNCHANGED <<timers, events>>
    BY <1>9 DEF NewFiber
  <2>3. Life(g) = "new" /\ Life(g)' = "ready"
    BY <1>0, <1>1, <2>1, <2>2 DEF Life, UnbornUnknown
  <2>4. \A f \in Fibers \ {g} : Life(f)' = Life(f)
    BY <1>1, <2>1, <2>2, LifeStays
  <2>5. \A f \in Fibers : On(f)' <=> On(f)
    <3>1. \A f \in Fibers : ~OnStack(t, f)' /\ ~OnStack(t, f)
      BY <1>1, <2>2 DEF OnStack
    <3> QED BY <1>1, <2>1, <2>2, <3>1, OnStays
  <2>6. Lives!Create(g)
    BY <2>3, <2>4, <2>5, LifeCreate
  <2> QED BY <2>6 DEF LivesStep, Lives!Next
<1>10. CASE Resume(t)
  <2> PICK g \in Fibers : g = Cur(t)
    BY <1>2, <1>10 DEF Resume, HolderLabels
  <2>1. /\ pc[t] = "resume" /\ pc' = [pc EXCEPT ![t] = "exec"]
        /\ m_state' = [m_state EXCEPT ![g] = "RUNNING"] /\ UNCHANGED <<task, timers, events>>
    BY <1>10 DEF Resume
  <2>2. m_state[g] = "READY" /\ g \in Fibers /\ \A u \in Threads \ {t} : ~OnStack(u, g)
    BY <1>0, <1>2, <2>1 DEF FiberAsserts, HolderLabels
  <2>3. g \notin timers /\ g \notin events
    BY <1>0, <2>1, <2>2, OnlyWakeUp DEF Holds
  <2>4. pc'[t] = "exec" /\ Cur(t)' = g /\ \A u \in Threads \ {t} : pc'[u] = pc[u] /\ task'[u] = task[u]
    BY <1>1, <2>1 DEF Cur
  <2>5. Life(g) = "ready"
    BY <2>2, <2>3 DEF Life
  <2>6. ~Yielding(g)'
    BY <2>1, <2>2, <2>4 DEF Yielding, OnStack, Cur
  <2>7. Life(g)' = "running"
    BY <1>1, <2>1, <2>2, <2>3, <2>6 DEF Life, Yielding
  <2>8. ~On(g) /\ On(g)'
    BY <2>1, <2>2, <2>4 DEF On, OnStack
  <2>9. \A f \in Fibers \ {g} : Life(f)' = Life(f)
    BY <1>1, <2>1, <2>2, <2>4, LifeStays
  <2>10. \A f \in Fibers \ {g} : On(f)' <=> On(f)
    <3>1. \A f \in Fibers \ {g} : ~OnStack(t, f)' /\ ~OnStack(t, f)
      BY <2>1, <2>4 DEF OnStack
    <3> QED BY <2>4, <3>1, OnStays
  <2>11. Lives!Run(g)
    BY <2>2, <2>5, <2>7, <2>8, <2>9, <2>10, LifeRun
  <2> QED BY <2>2, <2>11 DEF LivesStep, Lives!Next
<1>11. CASE Yield(t)
  <2> PICK g \in Fibers : g = Cur(t)
    BY <1>2, <1>11 DEF Yield, HolderLabels
  <2>1. /\ pc[t] = "yield" /\ pc' = [pc EXCEPT ![t] = "unlock"]
        /\ m_state' = [m_state EXCEPT ![g] = IF @ # "TERM" THEN "READY" ELSE @]
        /\ UNCHANGED <<task, timers, events>>
    BY <1>11 DEF Yield
  <2>2. m_state[g] \in {"RUNNING", "TERM"} /\ g \in Fibers
    BY <1>0, <1>2, <2>1 DEF FiberAsserts, HolderLabels
  <2>3. pc'[t] = "unlock" /\ Cur(t)' = g /\ \A u \in Threads \ {t} : pc'[u] = pc[u] /\ task'[u] = task[u]
    BY <1>1, <2>1 DEF Cur
  <2>4. Life(g)' = Life(g)
    BY <1>1, <2>1, <2>2 DEF Life
  <2>5. \A f \in Fibers \ {g} : Life(f)' = Life(f)
    BY <1>1, <2>1, <2>2, <2>3, LifeStays
  <2>6. \A f \in Fibers : On(f)' <=> On(f)
    <3>1. \A f \in Fibers : OnStack(t, f)' <=> OnStack(t, f)
      BY <2>1, <2>3 DEF OnStack
    <3> QED BY <2>3, <3>1, OnStays
  <2> QED BY <2>4, <2>5, <2>6, LifeStutter DEF LivesStep
<1>12. CASE UnlockFiber(t)
  <2> PICK g \in Fibers : g = Cur(t)
    BY <1>2, <1>12 DEF UnlockFiber, HolderLabels
  <2>1. /\ pc[t] = "unlock" /\ pc' = [pc EXCEPT ![t] = "dec"]
        /\ UNCHANGED <<task, timers, events, m_state>>
    BY <1>12 DEF UnlockFiber
  <2>2. m_state[g] \in {"READY", "TERM"} /\ g \in Fibers /\ \A u \in Threads \ {t} : ~OnStack(u, g)
    BY <1>0, <1>2, <2>1 DEF HeldState, HolderLabels
  <2>3. pc'[t] = "dec" /\ Cur(t)' = g /\ \A u \in Threads \ {t} : pc'[u] = pc[u] /\ task'[u] = task[u]
    BY <1>1, <2>1 DEF Cur
  <2>4. Life(g) # "running"
    BY <2>2 DEF Life
  <2>5. \A f \in Fibers : Life(f)' = Life(f)
    BY <2>1, <2>3, LifeStays
  <2>6. On(g) /\ ~On(g)'
    BY <2>1, <2>2, <2>3 DEF On, OnStack, Cur
  <2>7. \A f \in Fibers \ {g} : On(f)' <=> On(f)
    <3>1. \A f \in Fibers \ {g} : ~OnStack(t, f)' /\ ~OnStack(t, f)
      BY <2>1, <2>3 DEF OnStack
    <3> QED BY <2>3, <3>1, OnStays
  <2>8. Lives!Leave(g)
    BY <2>2, <2>4, <2>5, <2>6, <2>7, LifeLeave
  <2> QED BY <2>2, <2>8 DEF LivesStep, Lives!Next
(* The fiber executing on t asks for a wake-up, or ends.                   *)
<1>13. ASSUME pc[t] = "exec"
       PROVE  Cur(t) \in Fibers /\ m_state[Cur(t)] = "RUNNING" /\ Life(Cur(t)) = "running"
  <2>1. Cur(t) \in Fibers /\ m_state[Cur(t)] = "RUNNING" /\ ~Yielding(Cur(t))
    BY <1>0, <1>2, <1>13 DEF FiberAsserts, HolderLabels, Yielding, OnStack
  <2>2. Cur(t) \notin timers /\ Cur(t) \notin events
    BY <1>0, <2>1, OnlyWakeUp DEF Suspended
  <2> QED BY <2>1, <2>2 DEF Life, Yielding
<1>14. ASSUME pc[t] = "exec", pc' = [pc EXCEPT ![t] = "yield"], task' = task,
              \A f \in Fibers \ {Cur(t)} : /\ m_state'[f] = m_state[f]
                                           /\ f \in timers' \cup events' <=> f \in timers \cup events
       PROVE  /\ \A f \in Fibers \ {Cur(t)} : Life(f)' = Life(f)
              /\ \A f \in Fibers : On(f)' <=> On(f)
  <2>1. pc'[t] = "yield" /\ Cur(t)' = Cur(t) /\ \A u \in Threads \ {t} : pc'[u] = pc[u] /\ task'[u] = task[u]
    BY <1>1, <1>14 DEF Cur
  <2>2. \A f \in Fibers : OnStack(t, f)' <=> OnStack(t, f)
    BY <1>14, <2>1 DEF OnStack
  <2> QED BY <1>14, <2>1, <2>2, LifeStays, OnStays
<1>15. CASE Sleep(t) \/ WaitIO(t)
  <2> PICK g \in Fibers : g = Cur(t)
    BY <1>2, <1>15 DEF Sleep, WaitIO, HolderLabels
  <2>1. /\ pc[t] = "exec" /\ pc' = [pc EXCEPT ![t] = "yield"] /\ UNCHANGED <<task, m_state>>
        /\ timers' \cup events' = timers \cup events \cup {g}
    BY <1>15 DEF Sleep, WaitIO
  <2>2. Life(g)' = "waiting" /\ Life(g) = "running" /\ g \in Fibers
    BY <1>13, <2>1 DEF Life
  <2>3. /\ \A f \in Fibers \ {g} : Life(f)' = Life(f)
        /\ \A f \in Fibers : On(f)' <=> On(f)
    BY <1>14, <2>1
  <2>4. Lives!Wait(g)
    BY <2>2, <2>3, LifeWait
  <2> QED BY <2>2, <2>4 DEF LivesStep, Lives!Next
<1>16. CASE Finish(t)
  <2> PICK g \in Fibers : g = Cur(t)
    BY <1>2, <1>16 DEF Finish, HolderLabels
  <2>1. /\ pc[t] = "exec" /\ pc' = [pc EXCEPT ![t] = "yield"] /\ UNCHANGED <<task, timers, events>>
        /\ m_state' = [m_state EXCEPT ![g] = "TERM"]
    BY <1>16 DEF Finish
  <2>2. Life(g)' = "done" /\ Life(g) = "running" /\ g \in Fibers
    BY <1>1, <1>13, <2>1 DEF Life
  <2>3. \A f \in Fibers \ {g} : m_state'[f] = m_state[f]
    BY <1>1, <2>1
  <2>4. /\ \A f \in Fibers \ {g} : Life(f)' = Life(f)
        /\ \A f \in Fibers : On(f)' <=> On(f)
    BY <1>14, <2>1, <2>3
  <2>5. Lives!End(g)
    BY <2>2, <2>4, LifeEnd
  <2> QED BY <2>2, <2>5 DEF LivesStep, Lives!Next
<1> QED
  BY <1>3, <1>4, <1>5, <1>6, <1>7, <1>8, <1>9, <1>10, <1>11, <1>12, <1>15, <1>16 DEF RunStep

LEMMA IdleLives ==
    ASSUME WakeInv, NEW t \in Threads, IdleStep(t)
    PROVE  LivesStep
<1> USE DEF At, Goto, counters, fiberVars, ioVars, OnLabels
<1>0. TypeOK /\ OneWakeUp
  BY DEF WakeInv, IInv
<1>1. /\ pc \in [Threads -> Labels] /\ timers \subseteq Fibers /\ events \subseteq Fibers
      /\ m_state \in [Fibers -> {"NONE", "READY", "RUNNING", "TERM"}]
  BY <1>0 DEF TypeOK
(* The fibers of S are woken by their timer or event.                      *)
<1>2. ASSUME NEW l, pc' = [pc EXCEPT ![t] = l], l \notin OnLabels, pc[t] \notin OnLabels,
             UNCHANGED <<task, m_state>>, NEW S \in SUBSET (timers \cup events),
             timers' \cup events' = (timers \cup events) \ S
      PROVE  LivesStep
  <2>1. pc'[t] = l /\ \A u \in Threads \ {t} : pc'[u] = pc[u]
    BY <1>1, <1>2
  <2>2. ASSUME NEW f \in S PROVE Life(f) = "waiting" /\ Life(f)' = "ready"
    <3>1. f \in Fibers /\ Suspended(f) /\ f \in timers \cup events
      BY <1>0, <1>1, <1>2, OnlyWakeUp
    <3>2. Yielding(f)' <=> Yielding(f)
      BY <1>2, <2>1 DEF Yielding, Cur
    <3>3. m_state'[f] = m_state[f] /\ f \notin timers' \cup events'
      BY <1>2
    <3> QED BY <3>1, <3>2, <3>3 DEF Life, Suspended, Yielding
  <2>3. \A f \in Fibers \ S : Life(f)' = Life(f)
    <3>1. \A f \in Fibers \ S : f \in timers' \cup events' <=> f \in timers \cup events
      BY <1>2
    <3> QED BY <1>2, <2>1, <3>1, LifeStays
  <2>4. \A f \in Fibers : On(f)' <=> On(f)
    <3>1. \A f \in Fibers : ~OnStack(t, f)' /\ ~OnStack(t, f)
      BY <1>2, <2>1 DEF OnStack
    <3> QED BY <1>2, <2>1, <3>1, OnStays
  <2>5. S \in SUBSET Fibers
    BY <1>1
  <2>6. Lives!Wake(S)
    BY <2>2, <2>3, <2>4, <2>5, LifeWake
  <2> QED BY <2>5, <2>6 DEF LivesStep, Lives!Next
<1>3. CASE ExitRun(t) \/ EnterIdle(t) \/ CheckTimers(t) \/ CheckEvents(t) \/ CheckTasks(t)
  BY <1>0, <1>3, LifeQuiet DEF ExitRun, EnterIdle, CheckTimers, CheckEvents, CheckTasks
<1>4. CASE EpollWait(t) \/ CbsDone(t) \/ DecPending(t) \/ IdleYield(t) \/ LeaveIdle(t)
  BY <1>0, <1>4, LifeQuiet DEF EpollWait, CbsDone, DecPending, IdleYield, LeaveIdle
<1>5. ASSUME NEW due \in SUBSET timers, ListExpiredCb(t, due)
      PROVE  LivesStep
  <2>1. /\ pc[t] = "expire" /\ pc' = [pc EXCEPT ![t] = "cbs"] /\ UNCHANGED <<task, m_state, events>>
        /\ timers' = timers \ due
    BY <1>5 DEF ListExpiredCb
  <2>2. \A f \in due : f \notin events
    BY <1>0, <1>1, <1>5, OnlyWakeUp
  <2>3. timers' \cup events' = (timers \cup events) \ due
    BY <2>1, <2>2
  <2> QED BY <1>2, <2>1, <2>3
<1>6. CASE ScheduleCb(t) \/ DrainPipe(t)
  <2>1. pc' = [pc EXCEPT ![t] = pc[t]] /\ UNCHANGED <<task, timers, events, m_state>>
    BY <1>1, <1>6 DEF ScheduleCb, DrainPipe
  <2> QED BY <1>0, <2>1, LifeQuiet
<1>7. CASE TriggerEvent(t)
  <2>1. PICK g \in ready[t] : /\ events' = events \ {g}
                              /\ IF g \in events THEN Goto(t, "decPending") ELSE pc' = pc
    BY <1>7 DEF TriggerEvent
  <2>2. pc[t] = "events" /\ UNCHANGED <<task, m_state, timers>>
    BY <1>7 DEF TriggerEvent
  <2>3. CASE g \in events
    <3>1. g \notin timers
      BY <1>0, <1>1, <2>3, OnlyWakeUp
    <3>2. timers' \cup events' = (timers \cup events) \ {g} /\ {g} \in SUBSET (timers \cup events)
      BY <2>1, <2>2, <2>3, <3>1
    <3> QED BY <1>2, <2>1, <2>2, <2>3, <3>2
  <2>4. CASE g \notin events
    <3>1. events' = events /\ pc' = [pc EXCEPT ![t] = pc[t]]
      BY <1>1, <2>1, <2>4
    <3> QED BY <1>0, <2>2, <3>1, LifeQuiet
  <2> QED BY <2>3, <2>4
<1> QED BY <1>3, <1>4, <1>5, <1>6, <1>7 DEF IdleStep

LEMMA StopLives ==
    ASSUME WakeInv, StopStep
    PROVE  LivesStep
<1> USE DEF At, Goto, counters, fiberVars, ioVars, OnLabels
<1>0. TypeOK /\ Caller \in Threads
  BY DEF WakeInv, IInv, Threads
<1>1. CASE Submit \/ StopTickle
  <2>1. pc' = [pc EXCEPT ![Caller] = pc[Caller]] /\ UNCHANGED <<task, timers, events, m_state>>
    BY <1>0, <1>1 DEF Submit, StopTickle, TypeOK
  <2> QED BY <1>0, <2>1, LifeQuiet
<1>2. CASE StopBegin \/ StopRun \/ StopJoin
  BY <1>0, <1>2, LifeQuiet DEF StopBegin, StopRun, StopJoin
<1> QED BY <1>1, <1>2 DEF StopStep

(* The scheduler implements FiberLife, for any number of threads and       *)
(* fibers: each step of run(), idle(), the hooks and stop() is a step of   *)
(* the abstract life of one fiber, a wake-up of some, or none of the       *)
(* fibers' concern.                                                        *)
THEOREM LivesRefined == Spec => ImplementsFiberLife
<1>1. Init => Lives!Init
  BY DEF Init, Lives!Init, Life, OnStack
<1>2. WakeInv /\ [Next]_vars
        => [Lives!Next]_<<[f \in Fibers |-> Life(f)], {f \in Fibers : \E t \in Threads : OnStack(t, f)}>>
  <2> SUFFICES ASSUME WakeInv, [Next]_vars PROVE LivesStep
    BY DEF LivesStep, On
  <2>1. ASSUME NEW t \in Threads, RunStep(t) \/ IdleStep(t) PROVE LivesStep
    BY <2>1, RunLives, IdleLives
  <2>2. CASE StopStep
    BY <2>2, StopLives
  <2>3. CASE UNCHANGED vars
    BY <2>3, LifeStutter DEF vars, local, fiberVars, ioVars, LivesStep, Life, On, OnStack, Cur
  <2> QED BY <2>1, <2>2, <2>3 DEF Next, Stopped
<1> QED BY <1>1, <1>2, InitWake, NextWake, PTL DEF Spec, ImplementsFiberLife, Lives!Spec
=============================================================================
