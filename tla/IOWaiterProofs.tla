--------------------------- MODULE IOWaiterProofs ---------------------------
(* Proofs about the fibers that wait in IOEvents and the edges they wait   *)
(* for, for any fds, fibers and idle threads.                              *)
EXTENDS IOEventsProofs

(* An EventContext holds a fiber exactly when its event is registered, and *)
(* that fiber is suspended.                                                *)
Holds ==
    \A c \in Contexts, e \in Events :
        /\ waiter[c][e] # NoFiber <=> e \in events[c]
        /\ e \in events[c] => waiter[c][e] \in Fibers /\ pc[waiter[c][e]] = "wait"

(* No two EventContexts hold the same fiber.                               *)
HeldOnce ==
    \A c, d \in Contexts : \A e, k \in Events :
        e \in events[c] /\ k \in events[d] /\ waiter[c][e] = waiter[d][k] => c = d /\ e = k

(* Some EventContext holds every suspended fiber.                          *)
HeldSomewhere ==
    \A f \in Fibers : pc[f] = "wait" =>
        \E c \in Contexts : \E e \in events[c] : waiter[c][e] = f

(* The inductive form of WaiterRegisteredOnce.                             *)
Waiters == Holds /\ HeldOnce /\ HeldSomewhere

(* Only finitely many events are registered at a time, however many        *)
(* contexts there may be.                                                  *)
FinitelyMany == IsFiniteSet(Registered)

(* The kernel watches open fds only.                                       *)
WatchedOpen == \A fd \in Fds : interest[fd] # {} => fd \in open

(* Where the edge q of a context is: on the ready list, or in a result.    *)
EdgeKept(c, q) ==
    \/ c.fd \in armed
    \/ \E t \in IdleThreads : \E x \in results[t] : x.ctx = c /\ q \in x.ev

(* NoLostEdge without the set of pairs.                                    *)
Edges ==
    stranded = {} /\ ~aborted =>
        \A c \in Contexts : \A e \in events[c] :
            \A q \in {e, "HUP"} \cap level[c.fd] : EdgeKept(c, q)

(* The inductive invariant.                                                *)
WaitInv == IInv /\ Waiters /\ FinitelyMany /\ PendingExact /\ WatchedOpen /\ Edges

(* Any set of events is finite.                                            *)
LEMMA EventsFinite == ASSUME NEW evs \in SUBSET Events PROVE IsFiniteSet(evs)
<1>1. IsFiniteSet({"READ"}) /\ Events = {"READ"} \cup {"WRITE"}
  BY FS_Singleton DEF Events
<1>2. IsFiniteSet(Events)
  BY <1>1, FS_AddElement
<1> QED BY <1>2, FS_Subset

(* As many (context, event) pairs of one context as events.                *)
LEMMA PairCount ==
    ASSUME NEW c, NEW evs \in SUBSET Events
    PROVE  /\ IsFiniteSet({c} \X evs)
           /\ Cardinality({c} \X evs) = Cardinality(evs)
<1>1. IsFiniteSet(evs) /\ IsFiniteSet({c}) /\ Cardinality({c}) = 1
  BY EventsFinite, FS_Singleton
<1>2. /\ IsFiniteSet({c} \X evs)
      /\ Cardinality({c} \X evs) = Cardinality({c}) * Cardinality(evs)
  BY <1>1, FS_Product
<1>3. Cardinality(evs) \in Nat
  BY <1>1, FS_CardinalityType
<1> QED BY <1>1, <1>2, <1>3

(* Registering one more event.                                             *)
LEMMA RegisterCounts ==
    ASSUME CtxType, FinitelyMany, PendingExact,
           NEW c \in Contexts, NEW e \in Events, e \notin events[c],
           events' = [events EXCEPT ![c] = events[c] \cup {e}],
           m_pendingEventCount' = m_pendingEventCount + 1
    PROVE  FinitelyMany' /\ PendingExact'
<1>1. Registered' = Registered \cup {<<c, e>>}
  <2>1. \A d \in Contexts : events'[d] = IF d = c THEN events[c] \cup {e} ELSE events[d]
    BY DEF CtxType
  <2> QED BY <2>1 DEF Registered
<1>2. <<c, e>> \notin Registered
  BY DEF Registered
<1>3. /\ IsFiniteSet(Registered \cup {<<c, e>>})
      /\ Cardinality(Registered \cup {<<c, e>>}) = Cardinality(Registered) + 1
  BY <1>2, FS_AddElement DEF FinitelyMany
<1> QED BY <1>1, <1>3 DEF FinitelyMany, PendingExact

(* Unregistering any of the registered events of a context.                *)
LEMMA UnregisterCounts ==
    ASSUME CtxType, FinitelyMany, PendingExact,
           NEW c \in Contexts, NEW evs \in SUBSET events[c], Unregister(c, evs)
    PROVE  FinitelyMany' /\ PendingExact'
<1>0. evs \in SUBSET Events
  BY DEF CtxType
<1>1. Registered' = Registered \ ({c} \X evs)
  <2>1. \A d \in Contexts : events'[d] = IF d = c THEN events[c] \ evs ELSE events[d]
    BY DEF CtxType, Unregister
  <2> QED BY <2>1 DEF Registered
<1>2. {c} \X evs \subseteq Registered
  BY <1>0 DEF Registered
<1>3. Registered \cap ({c} \X evs) = {c} \X evs
  BY <1>2
<1>4. /\ IsFiniteSet(Registered \ ({c} \X evs))
      /\ Cardinality(Registered \ ({c} \X evs))
           = Cardinality(Registered) - Cardinality(Registered \cap ({c} \X evs))
  BY FS_Difference DEF FinitelyMany
<1>5. Cardinality({c} \X evs) = Cardinality(evs)
  BY <1>0, PairCount
<1>6. Cardinality(Registered') = Cardinality(Registered) - Cardinality(evs)
  BY <1>1, <1>3, <1>4, <1>5
<1>7. m_pendingEventCount' = m_pendingEventCount - Cardinality(evs)
  BY DEF Unregister
<1> QED BY <1>1, <1>4, <1>6, <1>7 DEF FinitelyMany, PendingExact

(* addEvent registers the calling fiber, which was not waiting.            *)
LEMMA RegisterWaiters ==
    ASSUME CtxType, pc \in [Fibers -> Labels], Waiters,
           NEW c \in Contexts, NEW e \in Events, e \notin events[c],
           NEW f \in Fibers, pc[f] # "wait",
           events' = [events EXCEPT ![c] = events[c] \cup {e}],
           waiter' = [waiter EXCEPT ![c][e] = f],
           pc' = [pc EXCEPT ![f] = "wait"]
    PROVE  Waiters'
<1>1. \A d \in Contexts : events'[d] = IF d = c THEN events[c] \cup {e} ELSE events[d]
  BY DEF CtxType
<1>2. \A d \in Contexts, k \in Events :
        waiter'[d][k] = IF d = c /\ k = e THEN f ELSE waiter[d][k]
  BY DEF CtxType
<1>3. \A g \in Fibers : pc'[g] = IF g = f THEN "wait" ELSE pc[g]
  OBVIOUS
<1>4. \A d \in Contexts, k \in Events : k \in events[d] => waiter[d][k] # f
  BY DEF Waiters, Holds
<1>5. Holds'
  <2>1. SUFFICES ASSUME NEW d \in Contexts, NEW k \in Events
        PROVE  /\ waiter'[d][k] # NoFiber <=> k \in events'[d]
               /\ k \in events'[d] => waiter'[d][k] \in Fibers /\ pc'[waiter'[d][k]] = "wait"
    BY DEF Holds
  <2>2. CASE d = c /\ k = e
    BY <1>1, <1>2, <1>3, <2>2, FibersAssumption
  <2>3. CASE ~(d = c /\ k = e)
    <3>1. waiter'[d][k] = waiter[d][k] /\ (k \in events'[d] <=> k \in events[d])
      BY <1>1, <1>2, <2>3
    <3> QED BY <3>1, <1>3 DEF Waiters, Holds
  <2> QED BY <2>2, <2>3
<1>6. HeldOnce'
  <2>1. SUFFICES ASSUME NEW d1 \in Contexts, NEW d2 \in Contexts, NEW k1 \in Events,
                        NEW k2 \in Events, k1 \in events'[d1], k2 \in events'[d2],
                        waiter'[d1][k1] = waiter'[d2][k2]
                 PROVE  d1 = d2 /\ k1 = k2
    BY DEF HeldOnce
  <2>2. CASE d1 = c /\ k1 = e
    BY <1>1, <1>2, <1>4, <2>1, <2>2
  <2>3. CASE d2 = c /\ k2 = e
    BY <1>1, <1>2, <1>4, <2>1, <2>3
  <2>4. CASE ~(d1 = c /\ k1 = e) /\ ~(d2 = c /\ k2 = e)
    <3>1. k1 \in events[d1] /\ k2 \in events[d2] /\ waiter[d1][k1] = waiter[d2][k2]
      BY <1>1, <1>2, <2>1, <2>4
    <3> QED BY <3>1 DEF Waiters, HeldOnce
  <2> QED BY <2>2, <2>3, <2>4
<1>7. HeldSomewhere'
  <2>1. SUFFICES ASSUME NEW g \in Fibers, pc'[g] = "wait"
        PROVE  \E d \in Contexts : \E k \in events'[d] : waiter'[d][k] = g
    BY DEF HeldSomewhere
  <2>2. CASE g = f
    <3>1. e \in events'[c] /\ waiter'[c][e] = g
      BY <1>1, <1>2, <2>2
    <3> QED BY <3>1
  <2>3. CASE g # f
    <3>1. pc[g] = "wait"
      BY <1>3, <2>1, <2>3
    <3>2. PICK d \in Contexts : \E k \in events[d] : waiter[d][k] = g
      BY <3>1 DEF Waiters, HeldSomewhere
    <3>3. PICK k \in events[d] : waiter[d][k] = g
      BY <3>2
    <3>4. k \in Events /\ ~(d = c /\ k = e)
      BY <3>3 DEF CtxType
    <3>5. k \in events'[d] /\ waiter'[d][k] = g
      BY <3>3, <3>4, <1>1, <1>2
    <3> QED BY <3>5
  <2> QED BY <2>2, <2>3
<1> QED BY <1>5, <1>6, <1>7 DEF Waiters

(* Unregistering ends the wait of the fibers concerned and of no other.    *)
LEMMA UnregisterWaiters ==
    ASSUME CtxType, pc \in [Fibers -> Labels], Waiters,
           NEW c \in Contexts, NEW evs \in SUBSET events[c], Unregister(c, evs),
           \A g \in Fibers : pc'[g] = "wait" <=> pc[g] = "wait" /\ g \notin Woken(c, evs)
    PROVE  Waiters'
<1>1. \A d \in Contexts : events'[d] = IF d = c THEN events[c] \ evs ELSE events[d]
  BY DEF CtxType, Unregister
<1>2. \A d \in Contexts, k \in Events :
        waiter'[d][k] = IF d = c /\ k \in evs THEN NoFiber ELSE waiter[d][k]
  BY DEF CtxType, Unregister
<1>3. evs \in SUBSET Events
  BY DEF CtxType
<1>4. ASSUME NEW d \in Contexts, NEW k \in Events, k \in events'[d]
      PROVE  k \in events[d] /\ waiter'[d][k] = waiter[d][k] /\ waiter[d][k] \notin Woken(c, evs)
  <2>1. k \in events[d] /\ ~(d = c /\ k \in evs)
    BY <1>1, <1>4
  <2>2. waiter'[d][k] = waiter[d][k]
    BY <1>2, <2>1
  <2>3. ASSUME NEW j \in evs, waiter[c][j] = waiter[d][k] PROVE FALSE
    BY <1>3, <2>1, <2>3 DEF Waiters, HeldOnce
  <2> QED BY <2>1, <2>2, <2>3 DEF Woken
<1>5. Holds'
  <2>1. SUFFICES ASSUME NEW d \in Contexts, NEW k \in Events
        PROVE  /\ waiter'[d][k] # NoFiber <=> k \in events'[d]
               /\ k \in events'[d] => waiter'[d][k] \in Fibers /\ pc'[waiter'[d][k]] = "wait"
    BY DEF Holds
  <2>2. waiter'[d][k] # NoFiber <=> k \in events'[d]
    BY <1>1, <1>2, <1>3 DEF Waiters, Holds
  <2>3. ASSUME k \in events'[d] PROVE waiter'[d][k] \in Fibers /\ pc'[waiter'[d][k]] = "wait"
    BY <1>4, <2>3 DEF Waiters, Holds
  <2> QED BY <2>2, <2>3
<1>6. HeldOnce'
  <2>1. SUFFICES ASSUME NEW d1 \in Contexts, NEW d2 \in Contexts, NEW k1 \in Events,
                        NEW k2 \in Events, k1 \in events'[d1], k2 \in events'[d2],
                        waiter'[d1][k1] = waiter'[d2][k2]
                 PROVE  d1 = d2 /\ k1 = k2
    BY DEF HeldOnce
  <2>2. k1 \in events[d1] /\ k2 \in events[d2] /\ waiter[d1][k1] = waiter[d2][k2]
    BY <2>1, <1>4
  <2> QED BY <2>2 DEF Waiters, HeldOnce
<1>7. HeldSomewhere'
  <2>1. SUFFICES ASSUME NEW g \in Fibers, pc'[g] = "wait"
        PROVE  \E d \in Contexts : \E k \in events'[d] : waiter'[d][k] = g
    BY DEF HeldSomewhere
  <2>2. pc[g] = "wait" /\ g \notin Woken(c, evs)
    BY <2>1
  <2>3. PICK d \in Contexts : \E k \in events[d] : waiter[d][k] = g
    BY <2>2 DEF Waiters, HeldSomewhere
  <2>4. PICK k \in events[d] : waiter[d][k] = g
    BY <2>3
  <2>5. k \in Events /\ ~(d = c /\ k \in evs)
    BY <2>2, <2>4 DEF CtxType, Woken
  <2>6. k \in events'[d] /\ waiter'[d][k] = g
    BY <2>4, <2>5, <1>1, <1>2
  <2> QED BY <2>6
<1> QED BY <1>5, <1>6, <1>7 DEF Waiters

(* Every step keeps the waiting fibers and their number exact.             *)
LEMMA WaiterStep ==
    ASSUME TypeOK, Waiters, FinitelyMany, PendingExact, [Next]_vars
    PROVE  Waiters' /\ FinitelyMany' /\ PendingExact'
<1>0. CtxType /\ CallType /\ IdleType
  BY TypeParts
<1>a. pc \in [Fibers -> Labels]
  BY <1>0 DEF CallType
<1>1. ASSUME UNCHANGED ctxVars, \A g \in Fibers : pc'[g] = "wait" <=> pc[g] = "wait"
      PROVE  Waiters' /\ FinitelyMany' /\ PendingExact'
  <2>1. UNCHANGED <<events, waiter, m_pendingEventCount>>
    BY <1>1 DEF ctxVars
  <2>2. Registered' = Registered
    BY <2>1 DEF Registered
  <2>3. Holds'
    BY <1>1, <2>1 DEF Waiters, Holds
  <2>4. HeldOnce'
    BY <2>1 DEF Waiters, HeldOnce
  <2>5. HeldSomewhere'
    BY <1>1, <2>1 DEF Waiters, HeldSomewhere
  <2> QED BY <2>1, <2>2, <2>3, <2>4, <2>5 DEF Waiters, FinitelyMany, PendingExact
<1>2. ASSUME NEW f \in Fibers, Lookup(f) \/ Resize(f) \/ CloseFd(f)
      PROVE  Waiters' /\ FinitelyMany' /\ PendingExact'
  <2>1. UNCHANGED ctxVars
    BY <1>2 DEF Lookup, Resize, CloseFd
  <2>2. \A g \in Fibers : pc'[g] = "wait" <=> pc[g] = "wait"
    BY <1>2, <1>a DEF Lookup, Resize, CloseFd, At, Goto
  <2> QED BY <1>1, <2>1, <2>2
<1>3. ASSUME NEW f \in Fibers PROVE arg[f].ctx \in Contexts /\ arg[f].event \in Events
  BY <1>0 DEF CallType, Args
<1>4. ASSUME NEW f \in Fibers, AddEvent(f) PROVE Waiters' /\ FinitelyMany' /\ PendingExact'
  <2> DEFINE c == arg[f].ctx
             e == arg[f].event
  <2>0. pc[f] = "locked"
    BY <1>4 DEF AddEvent, At
  <2>1. CASE e \in events[c] \/ ~CtlOk(c)
    <3>1. UNCHANGED ctxVars /\ pc' = [pc EXCEPT ![f] = "run"]
      BY <1>4, <2>1 DEF AddEvent, Goto
    <3>2. \A g \in Fibers : pc'[g] = "wait" <=> pc[g] = "wait"
      BY <3>1, <1>a, <2>0
    <3> QED BY <1>1, <3>1, <3>2
  <2>2. CASE ~(e \in events[c] \/ ~CtlOk(c))
    <3>1. /\ events' = [events EXCEPT ![c] = events[c] \cup {e}]
          /\ waiter' = [waiter EXCEPT ![c][e] = f]
          /\ m_pendingEventCount' = m_pendingEventCount + 1
          /\ pc' = [pc EXCEPT ![f] = "wait"]
      BY <1>4, <2>2 DEF AddEvent, Goto
    <3>2. Waiters'
      BY <1>0, <1>a, <1>3, <2>0, <2>2, <3>1, RegisterWaiters
    <3>3. FinitelyMany' /\ PendingExact'
      BY <1>0, <1>3, <2>2, <3>1, RegisterCounts
    <3> QED BY <3>2, <3>3
  <2> QED BY <2>1, <2>2
<1>5. ASSUME NEW c \in Contexts, NEW evs \in SUBSET events[c], Unregister(c, evs),
             \A g \in Fibers : pc'[g] = "wait" <=> pc[g] = "wait" /\ g \notin Woken(c, evs)
      PROVE  Waiters' /\ FinitelyMany' /\ PendingExact'
  BY <1>0, <1>a, <1>5, UnregisterWaiters, UnregisterCounts
<1>6. ASSUME NEW f \in Fibers, DelEvent(f) \/ CancelEvent(f)
      PROVE  Waiters' /\ FinitelyMany' /\ PendingExact'
  <2> DEFINE c == arg[f].ctx
             e == arg[f].event
  <2>0. pc[f] = "locked"
    BY <1>6 DEF DelEvent, CancelEvent, At
  <2>1. CASE e \notin events[c] \/ ~CtlOk(c)
    <3>1. UNCHANGED ctxVars /\ pc' = [pc EXCEPT ![f] = "run"]
      BY <1>6, <2>1 DEF DelEvent, CancelEvent, Goto
    <3>2. \A g \in Fibers : pc'[g] = "wait" <=> pc[g] = "wait"
      BY <3>1, <1>a, <2>0
    <3> QED BY <1>1, <3>1, <3>2
  <2>2. CASE ~(e \notin events[c] \/ ~CtlOk(c))
    <3>1. Unregister(c, {e})
      BY <1>6, <2>2 DEF DelEvent, CancelEvent
    <3>2. PICK l \in {"run", "deleted"} :
            pc' = [pc EXCEPT ![f] = "run", ![waiter[c][e]] = l]
      BY <1>6, <2>2 DEF DelEvent, CancelEvent
    <3>3. Woken(c, {e}) = {waiter[c][e]}
      BY DEF Woken
    <3>4. \A g \in Fibers : pc'[g] = "wait" <=> pc[g] = "wait" /\ g \notin Woken(c, {e})
      BY <3>2, <3>3, <1>a, <2>0
    <3>5. {e} \in SUBSET events[c]
      BY <2>2
    <3> QED BY <1>3, <1>5, <3>1, <3>4, <3>5
  <2> QED BY <2>1, <2>2
<1>7. ASSUME NEW f \in Fibers, CancelAll(f) PROVE Waiters' /\ FinitelyMany' /\ PendingExact'
  <2> DEFINE c == arg[f].ctx
  <2>0. pc[f] = "locked"
    BY <1>7 DEF CancelAll, At
  <2>1. CASE events[c] = {} \/ ~CtlOk(c)
    <3>1. UNCHANGED ctxVars
      BY <1>7, <2>1 DEF CancelAll
    <3>2. PICK l \in {"run", "close_f"} : pc' = [pc EXCEPT ![f] = l]
      BY <1>7, <2>1 DEF CancelAll, Goto
    <3>3. \A g \in Fibers : pc'[g] = "wait" <=> pc[g] = "wait"
      BY <3>2, <1>a, <2>0
    <3> QED BY <1>1, <3>1, <3>3
  <2>2. CASE ~(events[c] = {} \/ ~CtlOk(c))
    <3>1. Unregister(c, events[c])
      BY <1>7, <2>2 DEF CancelAll
    <3>2. PICK l \in {"run", "close_f"} :
            pc' = [g \in Fibers |-> IF g = f THEN l
                                    ELSE IF g \in Woken(c, events[c]) THEN "run"
                                    ELSE pc[g]]
      BY <1>7, <2>2 DEF CancelAll
    <3>3. \A g \in Fibers : pc'[g] = "wait" <=> pc[g] = "wait" /\ g \notin Woken(c, events[c])
      BY <3>2, <2>0
    <3> QED BY <1>3, <1>5, <3>1, <3>3
  <2> QED BY <2>1, <2>2
<1>8. ASSUME NEW t \in IdleThreads, EpollWait(t) PROVE Waiters' /\ FinitelyMany' /\ PendingExact'
  BY <1>1, <1>8 DEF EpollWait
<1>9. ASSUME NEW t \in IdleThreads, HandleResult(t)
      PROVE  Waiters' /\ FinitelyMany' /\ PendingExact'
  <2>1. PICK r \in results[t] :
          IF RealEvents(r) \cap events[r.ctx] = {} \/ ~CtlOk(r.ctx)
            THEN UNCHANGED <<ctxVars, pc>>
            ELSE /\ Unregister(r.ctx, RealEvents(r) \cap events[r.ctx])
                 /\ pc' = [g \in Fibers |->
                             IF g \in Woken(r.ctx, RealEvents(r) \cap events[r.ctx])
                               THEN "run" ELSE pc[g]]
    BY <1>9 DEF HandleResult
  <2>2. r.ctx \in Contexts
    BY <1>0 DEF IdleType, Results
  <2>3. CASE RealEvents(r) \cap events[r.ctx] = {} \/ ~CtlOk(r.ctx)
    BY <1>1, <2>1, <2>3
  <2>4. CASE ~(RealEvents(r) \cap events[r.ctx] = {} \/ ~CtlOk(r.ctx))
    <3> DEFINE known == RealEvents(r) \cap events[r.ctx]
    <3>1. Unregister(r.ctx, known)
      BY <2>1, <2>4
    <3>2. pc' = [g \in Fibers |-> IF g \in Woken(r.ctx, known) THEN "run" ELSE pc[g]]
      BY <2>1, <2>4
    <3>3. known \in SUBSET events[r.ctx]
      OBVIOUS
    <3> HIDE DEF known
    <3>4. \A g \in Fibers : pc'[g] = "wait" <=> pc[g] = "wait" /\ g \notin Woken(r.ctx, known)
      BY <3>2
    <3> QED BY <1>5, <2>2, <3>1, <3>3, <3>4
  <2> QED BY <2>3, <2>4
<1>10. ASSUME NEW fd \in Fds, WorldStep(fd) PROVE Waiters' /\ FinitelyMany' /\ PendingExact'
  BY <1>1, <1>10 DEF WorldStep, BecomeReady, Consume, Reopen
<1>11. CASE UNCHANGED vars
  BY <1>1, <1>11 DEF vars
<1> QED BY <1>2, <1>4, <1>6, <1>7, <1>8, <1>9, <1>10, <1>11
        DEF Next, FiberStep, IdleStep, Aborted

(* Its two forms say the same.                                            *)
LEMMA EdgesSame == ASSUME CtxType PROVE NoLostEdge <=> Edges
<1>1. ASSUME NEW c \in Contexts, NEW e \in events[c]
      PROVE  <<c, e>> \in Registered /\ <<c, e>>[1] = c /\ <<c, e>>[2] = e
  BY <1>1 DEF Registered, CtxType
<1>2. \A r \in Registered : r[1] \in Contexts /\ r[2] \in events[r[1]]
  BY DEF Registered
<1>3. ASSUME NoLostEdge PROVE Edges
  <2>1. SUFFICES ASSUME stranded = {}, ~aborted, NEW c \in Contexts, NEW e \in events[c],
                        NEW q \in {e, "HUP"} \cap level[c.fd]
                 PROVE  EdgeKept(c, q)
    BY DEF Edges
  <2>2. PICK r \in Registered : r[1] = c /\ r[2] = e
    BY <1>1
  <2>3. q \in {r[2], "HUP"} \cap level[r[1].fd]
    BY <2>2
  <2>4. EdgeKept(r[1], q)
    BY <1>3, <2>1, <2>3 DEF NoLostEdge, EdgeKept
  <2> QED BY <2>2, <2>4
<1>4. ASSUME Edges PROVE NoLostEdge
  BY <1>2, <1>4 DEF NoLostEdge, Edges, EdgeKept
<1> QED BY <1>3, <1>4

(* A successful epoll_ctl for what its context then holds looks at the     *)
(* readiness anew, and no other context of the fd has an event.            *)
LEMMA CtlEdges ==
    ASSUME TypeOK, DataFd, KernelMirrors, WatchedOpen, Edges, ~aborted,
           NEW c \in Contexts, NEW new \in SUBSET Events,
           CtlOk(c), EpollCtl(c, new), events' = [events EXCEPT ![c] = new],
           stranded' = stranded,
           \A t \in IdleThreads : \A x \in results[t] : x.ctx # c => x \in results'[t]
    PROVE  WatchedOpen' /\ Edges'
<1>0. CtxType /\ KernelType /\ c.fd \in Fds
  BY TypeParts DEF Contexts
<1>1. /\ interest' = [interest EXCEPT ![c.fd] = new]
      /\ data' = [data EXCEPT ![c.fd] = c]
      /\ open' = open /\ level' = level
      /\ armed' = IF new = {} THEN armed \ {c.fd}
                  ELSE IF level[c.fd] \cap (new \cup {"HUP"}) # {} THEN armed \cup {c.fd}
                  ELSE armed
  BY DEF EpollCtl
<1>2. WatchedOpen'
  <2>1. SUFFICES ASSUME NEW fd \in Fds, interest'[fd] # {} PROVE fd \in open'
    BY DEF WatchedOpen
  <2>2. CASE fd = c.fd
    BY <1>1, <2>2 DEF CtlOk
  <2>3. CASE fd # c.fd
    BY <1>0, <1>1, <2>1, <2>3 DEF WatchedOpen, KernelType
  <2> QED BY <2>2, <2>3
<1>3. Edges'
  <2>1. SUFFICES ASSUME stranded' = {}, NEW d \in Contexts, NEW e \in events'[d],
                        NEW q \in {e, "HUP"} \cap level'[d.fd]
                 PROVE  EdgeKept(d, q)'
    BY DEF Edges
  <2>2. events'[c] = new /\ (d # c => events'[d] = events[d])
    BY <1>0 DEF CtxType
  <2>3. CASE d = c
    <3>1. e \in new /\ q \in level[c.fd] \cap (new \cup {"HUP"})
      BY <1>1, <2>1, <2>2, <2>3
    <3>2. c.fd \in armed'
      BY <1>1, <3>1
    <3> QED BY <2>3, <3>2 DEF EdgeKept
  <2>4. CASE d # c
    <3>1. d.fd # c.fd
      <4>1. SUFFICES ASSUME d.fd = c.fd PROVE FALSE
        OBVIOUS
      <4>2. KernelMirrors'
        BY CtlMirrors
      <4>3. d = data'[c.fd]
        BY <1>0, <2>1, <4>1, <4>2 DEF KernelMirrors
      <4>4. data'[c.fd] = c
        BY <1>0, <1>1 DEF KernelType
      <4> QED BY <2>4, <4>3, <4>4
    <3>2. EdgeKept(d, q)
      BY <1>1, <2>1, <2>2, <2>4 DEF Edges
    <3>3. CASE d.fd \in armed
      <4>1. d.fd \in armed'
        BY <1>1, <3>1, <3>3
      <4> QED BY <4>1 DEF EdgeKept
    <3>4. CASE \E t \in IdleThreads : \E x \in results[t] : x.ctx = d /\ q \in x.ev
      <4>1. PICK t \in IdleThreads : \E x \in results[t] : x.ctx = d /\ q \in x.ev
        BY <3>4
      <4>2. PICK x \in results[t] : x.ctx = d /\ q \in x.ev
        BY <4>1
      <4>3. x \in results'[t]
        BY <2>4, <4>2
      <4> QED BY <4>2, <4>3 DEF EdgeKept
    <3> QED BY <3>2, <3>3, <3>4 DEF EdgeKept
  <2> QED BY <2>3, <2>4
<1> QED BY <1>2, <1>3

(* A result that idle() skips reports no event that is registered.         *)
LEMMA SkippedIsStale ==
    ASSUME TypeOK, KernelMirrors, WatchedOpen, stranded = {},
           NEW r \in Results, NEW e \in events[r.ctx], NEW q \in {e, "HUP"}, q \in r.ev
    PROVE  RealEvents(r) \cap events[r.ctx] # {} /\ CtlOk(r.ctx)
<1>0. CtxType /\ r.ctx \in Contexts /\ r.ctx.fd \in Fds /\ e \in Events
  BY TypeParts DEF Contexts, CtxType, Results
<1>1. e \in RealEvents(r)
  BY <1>0 DEF RealEvents
<1>2. r.ctx = data[r.ctx.fd] /\ interest[r.ctx.fd] = events[r.ctx]
  BY <1>0 DEF KernelMirrors
<1>3. r.ctx.fd \in open
  BY <1>0, <1>2 DEF WatchedOpen
<1> QED BY <1>1, <1>2, <1>3 DEF CtlOk

(* Every step keeps the edges.                                             *)
LEMMA EdgeStep ==
    ASSUME TypeOK, DataFd, KernelMirrors, WatchedOpen, Edges, [Next]_vars
    PROVE  WatchedOpen' /\ Edges'
<1>0. CtxType /\ CallType /\ KernelType /\ IdleType
  BY TypeParts
<1>1. ASSUME UNCHANGED <<events, results, aborted, kernel, stranded>>
      PROVE  WatchedOpen' /\ Edges'
  <2>1. UNCHANGED <<events, results, aborted, open, level, interest, armed, stranded>>
    BY <1>1 DEF kernel
  <2>2. \A c, q : EdgeKept(c, q)' <=> EdgeKept(c, q)
    BY <2>1 DEF EdgeKept
  <2> QED BY <2>1, <2>2 DEF WatchedOpen, Edges
<1>2. ASSUME NEW f \in Fibers, Lookup(f) \/ Resize(f) PROVE WatchedOpen' /\ Edges'
  BY <1>1, <1>2 DEF Lookup, Resize, ctxVars
<1>3. ASSUME NEW f \in Fibers PROVE arg[f].ctx \in Contexts /\ arg[f].event \in Events
  BY <1>0 DEF CallType, Args
<1>4. ASSUME NEW f \in Fibers, AddEvent(f) PROVE WatchedOpen' /\ Edges'
  <2> DEFINE c == arg[f].ctx
             e == arg[f].event
  <2>0. UNCHANGED <<results, aborted, stranded>> /\ ~aborted
    BY <1>4 DEF AddEvent, At
  <2>1. CASE e \in events[c] \/ ~CtlOk(c)
    BY <1>1, <1>4, <2>0, <2>1 DEF AddEvent, ctxVars
  <2>2. CASE ~(e \in events[c] \/ ~CtlOk(c))
    <3>1. /\ EpollCtl(c, events[c] \cup {e})
          /\ events' = [events EXCEPT ![c] = events[c] \cup {e}]
      BY <1>4, <2>2 DEF AddEvent, NewEvents
    <3>2. events[c] \cup {e} \in SUBSET Events
      BY <1>0, <1>3 DEF CtxType
    <3> QED BY <1>3, <2>0, <2>2, <3>1, <3>2, CtlEdges
  <2> QED BY <2>1, <2>2
<1>5. ASSUME NEW f \in Fibers, DelEvent(f) \/ CancelEvent(f) PROVE WatchedOpen' /\ Edges'
  <2> DEFINE c == arg[f].ctx
             e == arg[f].event
  <2>0. UNCHANGED <<results, aborted, stranded>> /\ ~aborted
    BY <1>5 DEF DelEvent, CancelEvent, At
  <2>1. CASE e \notin events[c] \/ ~CtlOk(c)
    BY <1>1, <1>5, <2>0, <2>1 DEF DelEvent, CancelEvent, ctxVars
  <2>2. CASE ~(e \notin events[c] \/ ~CtlOk(c))
    <3>1. /\ EpollCtl(c, events[c] \ {e})
          /\ events' = [events EXCEPT ![c] = events[c] \ {e}]
      BY <1>5, <2>2 DEF DelEvent, CancelEvent, Unregister
    <3>2. events[c] \ {e} \in SUBSET Events
      BY <1>0, <1>3 DEF CtxType
    <3> QED BY <1>3, <2>0, <2>2, <3>1, <3>2, CtlEdges
  <2> QED BY <2>1, <2>2
<1>6. ASSUME NEW f \in Fibers, CancelAll(f) PROVE WatchedOpen' /\ Edges'
  <2> DEFINE c == arg[f].ctx
  <2>0. UNCHANGED <<results, aborted, stranded>> /\ ~aborted
    BY <1>6 DEF CancelAll, At
  <2>1. CASE events[c] = {} \/ ~CtlOk(c)
    BY <1>1, <1>6, <2>0, <2>1 DEF CancelAll, ctxVars
  <2>2. CASE ~(events[c] = {} \/ ~CtlOk(c))
    <3>1. /\ EpollCtl(c, {})
          /\ events' = [events EXCEPT ![c] = events[c] \ events[c]]
      BY <1>6, <2>2 DEF CancelAll, Unregister
    <3>2. events' = [events EXCEPT ![c] = {}]
      BY <3>1
    <3> QED BY <1>3, <2>0, <2>2, <3>1, <3>2, CtlEdges
  <2> QED BY <2>1, <2>2
<1>7. ASSUME NEW f \in Fibers, CloseFd(f) PROVE WatchedOpen' /\ Edges'
  <2> DEFINE fd == arg[f].ctx.fd
  <2>1. /\ open' = open \ {fd} /\ level' = [level EXCEPT ![fd] = {}]
        /\ interest' = [interest EXCEPT ![fd] = {}] /\ armed' = armed \ {fd}
        /\ UNCHANGED <<events, results, aborted>>
        /\ stranded' = {} => stranded = {}
    BY <1>7 DEF CloseFd, ctxVars
  <2> HIDE DEF fd
  <2>2. WatchedOpen'
    BY <1>0, <2>1 DEF WatchedOpen, KernelType
  <2>3. ASSUME stranded' = {}, ~aborted', NEW d \in Contexts, NEW e \in events'[d],
               NEW q \in {e, "HUP"} \cap level'[d.fd]
        PROVE  EdgeKept(d, q)'
    <3>1. d.fd \in Fds
      BY DEF Contexts
    <3>2. d.fd # fd /\ level'[d.fd] = level[d.fd]
      BY <1>0, <2>1, <2>3, <3>1 DEF KernelType
    <3>3. EdgeKept(d, q)
      BY <2>1, <2>3, <3>2 DEF Edges
    <3> QED BY <2>1, <3>2, <3>3 DEF EdgeKept
  <2> QED BY <2>2, <2>3 DEF Edges
<1>8. ASSUME NEW t \in IdleThreads, EpollWait(t) PROVE WatchedOpen' /\ Edges'
  <2>1. /\ UNCHANGED <<events, aborted, open, level, interest, data, stranded>> /\ ~aborted
        /\ results[t] = {}
        /\ results' = [results EXCEPT ![t] =
                     {[ctx |-> data[fd], ev |-> Reported(fd)] :
                         fd \in {x \in armed : Reported(x) # {}}}]
    BY <1>8 DEF EpollWait, ctxVars
  <2>2. WatchedOpen'
    BY <2>1 DEF WatchedOpen
  <2>3. ASSUME stranded' = {}, NEW d \in Contexts, NEW e \in events'[d],
               NEW q \in {e, "HUP"} \cap level'[d.fd]
        PROVE  EdgeKept(d, q)'
    <3>1. EdgeKept(d, q)
      BY <2>1, <2>3 DEF Edges
    <3>2. CASE d.fd \in armed
      <4>1. d.fd \in Fds
        BY DEF Contexts
      <4>2. d = data[d.fd] /\ interest[d.fd] = events[d]
        BY <2>1, <2>3, <4>1 DEF KernelMirrors
      <4>3. q \in Reported(d.fd)
        BY <2>1, <2>3, <4>2 DEF Reported
      <4>4. [ctx |-> data[d.fd], ev |-> Reported(d.fd)] \in results'[t]
        BY <1>0, <2>1, <3>2, <4>3 DEF IdleType
      <4>5. PICK x \in results'[t] : x = [ctx |-> data[d.fd], ev |-> Reported(d.fd)]
        BY <4>4
      <4>6. x.ctx = d /\ q \in x.ev
        BY <4>2, <4>3, <4>5
      <4> QED BY <4>6 DEF EdgeKept
    <3>3. CASE \E u \in IdleThreads : \E x \in results[u] : x.ctx = d /\ q \in x.ev
      <4>1. PICK u \in IdleThreads : \E x \in results[u] : x.ctx = d /\ q \in x.ev
        BY <3>3
      <4>2. u # t
        BY <2>1, <4>1
      <4>3. results'[u] = results[u]
        BY <1>0, <2>1, <4>2 DEF IdleType
      <4> QED BY <4>1, <4>3 DEF EdgeKept
    <3> QED BY <3>1, <3>2, <3>3 DEF EdgeKept
  <2> QED BY <2>2, <2>3 DEF Edges
<1>9. ASSUME NEW t \in IdleThreads, HandleResult(t) PROVE WatchedOpen' /\ Edges'
  <2>1. PICK r \in results[t] :
          /\ results' = [results EXCEPT ![t] = results[t] \ {r}]
          /\ IF RealEvents(r) \cap events[r.ctx] = {} \/ ~CtlOk(r.ctx)
               THEN UNCHANGED <<ctxVars, kernel, aborted>>
               ELSE /\ EpollCtl(r.ctx, events[r.ctx] \ RealEvents(r))
                    /\ Unregister(r.ctx, RealEvents(r) \cap events[r.ctx])
    BY <1>9 DEF HandleResult
  <2>2. r \in Results /\ r.ctx \in Contexts /\ stranded' = stranded /\ ~aborted
    BY <1>0, <1>9 DEF IdleType, Results, HandleResult
  <2>3. \A u \in IdleThreads : \A x \in results[u] : x # r => x \in results'[u]
    BY <1>0, <2>1 DEF IdleType
  <2>4. CASE RealEvents(r) \cap events[r.ctx] = {} \/ ~CtlOk(r.ctx)
    <3>1. UNCHANGED <<events, aborted, open, level, interest, armed>>
      BY <2>1, <2>4 DEF ctxVars, kernel
    <3>2. WatchedOpen'
      BY <3>1 DEF WatchedOpen
    <3>3. ASSUME stranded' = {}, NEW d \in Contexts, NEW e \in events'[d],
                 NEW q \in {e, "HUP"} \cap level'[d.fd]
          PROVE  EdgeKept(d, q)'
      <4>1. EdgeKept(d, q)
        BY <2>2, <3>1, <3>3 DEF Edges
      <4>2. CASE d.fd \in armed
        BY <3>1, <4>2 DEF EdgeKept
      <4>3. CASE \E u \in IdleThreads : \E x \in results[u] : x.ctx = d /\ q \in x.ev
        <5>1. PICK u \in IdleThreads : \E x \in results[u] : x.ctx = d /\ q \in x.ev
          BY <4>3
        <5>2. PICK x \in results[u] : x.ctx = d /\ q \in x.ev
          BY <5>1
        <5>3. x # r
          <6>1. SUFFICES ASSUME x = r PROVE FALSE
            OBVIOUS
          <6>2. e \in events[r.ctx] /\ q \in {e, "HUP"} /\ q \in r.ev
            BY <3>1, <3>3, <5>2, <6>1
          <6>3. stranded = {}
            BY <2>2, <3>3
          <6> QED BY <2>2, <2>4, <6>2, <6>3, SkippedIsStale
        <5>4. x \in results'[u]
          BY <2>3, <5>2, <5>3
        <5> QED BY <5>2, <5>4 DEF EdgeKept
      <4> QED BY <4>1, <4>2, <4>3 DEF EdgeKept
    <3> QED BY <3>2, <3>3 DEF Edges
  <2>5. CASE ~(RealEvents(r) \cap events[r.ctx] = {} \/ ~CtlOk(r.ctx))
    <3> DEFINE new == events[r.ctx] \ RealEvents(r)
    <3>1. events[r.ctx] \ (RealEvents(r) \cap events[r.ctx]) = new
      OBVIOUS
    <3>2. events' = [events EXCEPT ![r.ctx] =
                       events[r.ctx] \ (RealEvents(r) \cap events[r.ctx])]
      BY <2>1, <2>5 DEF Unregister
    <3>3. events' = [events EXCEPT ![r.ctx] = new]
      BY <3>1, <3>2
    <3>4. new \in SUBSET Events
      BY <1>0, <2>2 DEF CtxType
    <3>5. EpollCtl(r.ctx, new) /\ CtlOk(r.ctx)
      BY <2>1, <2>5
    <3>6. \A u \in IdleThreads : \A x \in results[u] : x.ctx # r.ctx => x \in results'[u]
      BY <2>3
    <3> HIDE DEF new
    <3> QED BY <2>2, <3>3, <3>4, <3>5, <3>6, CtlEdges
  <2> QED BY <2>4, <2>5
<1>10. ASSUME NEW fd \in Fds, WorldStep(fd) PROVE WatchedOpen' /\ Edges'
  <2>1. UNCHANGED <<events, results, aborted, interest, data, stranded>>
    BY <1>10 DEF WorldStep, BecomeReady, Consume, Reopen, ctxVars
  <2>2. open \subseteq open' /\ armed \subseteq armed'
    BY <1>10 DEF WorldStep, BecomeReady, Consume, Reopen
  <2>3. WatchedOpen'
    BY <2>1, <2>2 DEF WatchedOpen
  <2>4. ASSUME NEW x \in Fds, NEW q \in level'[x], q \notin level[x]
        PROVE  interest[x] # {} /\ q \in interest[x] \cup {"HUP"} => x \in armed'
    <3>1. PICK e \in Events \cup {"HUP"} : BecomeReady(fd, e)
      BY <1>10, <2>4, <1>0 DEF WorldStep, Consume, Reopen, KernelType
    <3>2. x = fd /\ q = e
      BY <1>0, <2>4, <3>1 DEF BecomeReady, KernelType
    <3> QED BY <3>1, <3>2 DEF BecomeReady
  <2>5. ASSUME stranded' = {}, ~aborted', NEW d \in Contexts, NEW e \in events'[d],
               NEW q \in {e, "HUP"} \cap level'[d.fd]
        PROVE  EdgeKept(d, q)'
    <3>1. d.fd \in Fds
      BY DEF Contexts
    <3>2. CASE q \in level[d.fd]
      <4>1. EdgeKept(d, q)
        BY <2>1, <2>5, <3>2 DEF Edges
      <4> QED BY <2>1, <2>2, <4>1 DEF EdgeKept
    <3>3. CASE q \notin level[d.fd]
      <4>1. d = data[d.fd] /\ interest[d.fd] = events[d]
        BY <2>1, <2>5, <3>1 DEF KernelMirrors
      <4>2. d.fd \in armed'
        BY <2>1, <2>4, <2>5, <3>1, <3>3, <4>1
      <4> QED BY <4>2 DEF EdgeKept
    <3> QED BY <3>2, <3>3
  <2> QED BY <2>3, <2>5 DEF Edges
<1>11. CASE UNCHANGED vars
  BY <1>1, <1>11 DEF vars, ctxVars
<1> QED BY <1>2, <1>4, <1>5, <1>6, <1>7, <1>8, <1>9, <1>10, <1>11
        DEF Next, FiberStep, IdleStep, Aborted

(* At first nothing is registered and nothing is watched.                  *)
LEMMA InitWait == Init => WaitInv
<1> SUFFICES ASSUME Init PROVE WaitInv
  OBVIOUS
<1>1. IInv
  BY InitInv
<1>2. Waiters
  BY DEF Init, Waiters, Holds, HeldOnce, HeldSomewhere
<1>3. Registered = {}
  BY DEF Init, Registered
<1>4. FinitelyMany /\ PendingExact
  BY <1>3, FS_EmptySet DEF Init, FinitelyMany, PendingExact
<1>5. WatchedOpen /\ Edges
  BY DEF Init, WatchedOpen, Edges
<1> QED BY <1>1, <1>2, <1>4, <1>5 DEF WaitInv

(* The inductive invariant holds throughout.                               *)
THEOREM WaitInvariance == Spec => []WaitInv
<1>1. WaitInv /\ [Next]_vars => WaitInv'
  <2> SUFFICES ASSUME WaitInv, [Next]_vars PROVE WaitInv'
    OBVIOUS
  <2>1. IInv'
    BY TypeStep, SizeStep, MirrorStep DEF WaitInv, IInv
  <2>2. Waiters' /\ FinitelyMany' /\ PendingExact'
    BY WaiterStep DEF WaitInv, IInv
  <2>3. WatchedOpen' /\ Edges'
    BY EdgeStep DEF WaitInv, IInv
  <2> QED BY <2>1, <2>2, <2>3 DEF WaitInv
<1> QED BY InitWait, <1>1, PTL DEF Spec

(* The pointwise form of the invariant gives the counts.                   *)
LEMMA WaitersCounted == ASSUME TypeOK, Waiters PROVE WaiterRegisteredOnce
<1>0. CtxType /\ pc \in [Fibers -> Labels]
  BY TypeParts DEF CallType
<1>1. \A c \in Contexts, e \in Events : waiter[c][e] # NoFiber <=> e \in events[c]
  BY DEF Waiters, Holds
<1>2. ASSUME NEW f \in Fibers
      PROVE  Cardinality({r \in Registered : waiter[r[1]][r[2]] = f})
               = IF pc[f] = "wait" THEN 1 ELSE 0
  <2> DEFINE held == {r \in Registered : waiter[r[1]][r[2]] = f}
  <2>1. CASE pc[f] = "wait"
    <3>1. PICK c \in Contexts : \E e \in events[c] : waiter[c][e] = f
      BY <2>1 DEF Waiters, HeldSomewhere
    <3>2. PICK e \in events[c] : waiter[c][e] = f
      BY <3>1
    <3>3. e \in Events
      BY <1>0, <3>2 DEF CtxType
    <3>4. <<c, e>> \in held
      BY <3>2, <3>3 DEF Registered
    <3>5. ASSUME NEW r \in held PROVE r = <<c, e>>
      <4>1. r \in Contexts \X Events /\ r[2] \in events[r[1]] /\ waiter[r[1]][r[2]] = f
        BY <3>5 DEF Registered
      <4>2. r[1] = c /\ r[2] = e
        BY <3>2, <3>3, <4>1 DEF Waiters, HeldOnce
      <4> QED BY <4>1, <4>2
    <3>6. held = {<<c, e>>}
      BY <3>4, <3>5
    <3> QED BY <2>1, <3>6, FS_Singleton
  <2>2. CASE pc[f] # "wait"
    <3>1. ASSUME NEW r \in held PROVE FALSE
      <4>1. r[1] \in Contexts /\ r[2] \in Events /\ r[2] \in events[r[1]]
            /\ waiter[r[1]][r[2]] = f
        BY <3>1 DEF Registered
      <4> QED BY <2>2, <4>1 DEF Waiters, Holds
    <3>2. held = {}
      BY <3>1
    <3> QED BY <2>2, <3>2, FS_EmptySet
  <2> QED BY <2>1, <2>2
<1> QED BY <1>1, <1>2 DEF WaiterRegisteredOnce

(* A fiber suspended by addEvent is held by exactly one EventContext, and  *)
(* any other fiber by none: triggerEvent, cancelEvent and cancelAll wake   *)
(* it once, whatever stale results the idle threads still have.            *)
THEOREM WaitersAreHeldOnce == Spec => []WaiterRegisteredOnce
<1>1. WaitInv => WaiterRegisteredOnce
  BY WaitersCounted DEF WaitInv, IInv
<1> QED BY WaitInvariance, <1>1, PTL

(* m_pendingEventCount is the number of registered events, for any number  *)
(* of fds, fibers and idle threads.                                        *)
THEOREM PendingCountExact == Spec => []PendingExact
<1>1. WaitInv => PendingExact
  BY DEF WaitInv
<1> QED BY WaitInvariance, <1>1, PTL

(* While no fd was closed under a registered event, a registered event     *)
(* whose fd is ready is on the ready list or in the results of a thread in *)
(* idle(), which will not skip it.                                         *)
THEOREM EdgesAreKept == Spec => []NoLostEdge
<1>1. WaitInv => NoLostEdge
  BY EdgesSame, TypeParts DEF WaitInv, IInv
<1> QED BY WaitInvariance, <1>1, PTL
=============================================================================
