--------------------------- MODULE IOEventsProofs ---------------------------
(* Proofs about IOEvents, for any fds, fibers and idle threads.            *)
EXTENDS IOEvents, FiniteSetTheorems, TLAPS

(* The table never gets smaller than it was at first, and a fiber resizes  *)
(* it only for an fd beyond that.                                          *)
SizeInv ==
    /\ size >= InitSize
    /\ \A f \in Fibers : pc[f] = "resize" => arg[f].ctx.fd >= InitSize

(* epoll_event.data.ptr of an fd is a context of that fd.                  *)
DataFd == \A fd \in Fds : data[fd].fd = fd

(* The inductive invariant.                                                *)
IInv == TypeOK /\ SizeInv /\ DataFd /\ KernelMirrors

(* The operands, the epoll results and the places of a fiber.               *)
Args == [op : Ops, event : Events, ctx : Contexts]
Results == [ctx : Contexts, ev : SUBSET (Events \cup {"HUP"})]
Labels == {"run", "resize", "locked", "close_f", "wait", "deleted"}

(* The types of the table, of the operations in progress and of the        *)
(* registrations with the kernel.                                          *)
TableType ==
    /\ size \in Nat
    /\ slot \in [Fds -> 0 .. MaxContexts] /\ created \in [Fds -> 0 .. MaxContexts]
    /\ \A fd \in Fds : slot[fd] # 0 <=> fd < size
CtxType ==
    /\ events \in [Contexts -> SUBSET Events]
    /\ waiter \in [Contexts -> [Events -> Fibers \cup {NoFiber}]]
    /\ m_pendingEventCount \in Int
CallType == pc \in [Fibers -> Labels] /\ arg \in [Fibers -> Args]
IdleType == results \in [IdleThreads -> SUBSET Results] /\ aborted \in BOOLEAN
KernelType ==
    /\ open \subseteq Fds /\ armed \subseteq Fds
    /\ level \in [Fds -> SUBSET (Events \cup {"HUP"})]
    /\ interest \in [Fds -> SUBSET Events]
    /\ data \in [Fds -> Contexts]
    /\ stranded \subseteq Contexts

(* The type invariant in its five parts.                                   *)
LEMMA TypeParts ==
    TypeOK <=> TableType /\ CtxType /\ CallType /\ IdleType /\ KernelType
BY Zenon DEF TypeOK, TableType, CtxType, CallType, IdleType, KernelType, Labels, Args, Results

(* The same of the state after a step.                                     *)
LEMMA TypePartsNext ==
    TableType' /\ CtxType' /\ CallType' /\ IdleType' /\ KernelType' => TypeOK'
BY Zenon DEF TypeOK, TableType, CtxType, CallType, IdleType, KernelType, Labels, Args, Results

(* A fiber that moves to a label with a well-typed operand.                *)
LEMMA CallSet ==
    ASSUME CallType, NEW f \in Fibers, NEW l \in Labels, NEW a \in Args,
           pc' = [pc EXCEPT ![f] = l], arg' = [arg EXCEPT ![f] = a]
    PROVE  CallType'
BY DEF CallType

(* The value a fiber's operand has outside an operation.                   *)
LEMMA NoArgType == NoArg \in Args
<1>1. AnyFd \in Fds
  BY FdsAssumption DEF AnyFd
<1> QED BY <1>1, SizeAssumption DEF NoArg, Args, Ops, Events, Ctx, Contexts

(* fd * 1.5 is larger than fd for the fds that are beyond the table.       *)
LEMMA NewSizeLarger == ASSUME NEW fd \in Nat, fd >= 2 PROVE NewSize(fd) \in Nat /\ NewSize(fd) > fd
BY DEF NewSize

(* What contextResize(n) leaves in the table.                              *)
LEMMA ResizedFacts ==
    ASSUME TableType, NEW n \in Nat, \A x \in Fds : Resized(n)[x] <= MaxContexts
    PROVE  /\ Resized(n) \in [Fds -> 0 .. MaxContexts]
           /\ \A fd \in Fds : Resized(n)[fd] # 0 <=> fd < n
BY FdsAssumption, SizeAssumption DEF Resized, TableType

(* The effect of an epoll_ctl on the types of the kernel's variables.      *)
LEMMA EpollCtlType ==
    ASSUME KernelType, NEW c \in Contexts, NEW new \in SUBSET Events,
           EpollCtl(c, new), stranded' = stranded
    PROVE  KernelType'
BY DEF KernelType, EpollCtl, Contexts

(* Unregistering events keeps the types of the contexts.                   *)
LEMMA UnregisterType ==
    ASSUME CtxType, NEW c \in Contexts, NEW evs \in SUBSET Events, Unregister(c, evs)
    PROVE  CtxType'
<1>1. events' \in [Contexts -> SUBSET Events]
  BY DEF CtxType, Unregister
<1>2. waiter' \in [Contexts -> [Events -> Fibers \cup {NoFiber}]]
  BY DEF CtxType, Unregister
<1>3. Cardinality(evs) \in Int
  <2>1. IsFiniteSet({"READ"}) /\ Events = {"READ"} \cup {"WRITE"}
    BY FS_Singleton DEF Events
  <2>2. IsFiniteSet(Events)
    BY <2>1, FS_AddElement
  <2>3. IsFiniteSet(evs)
    BY <2>2, FS_Subset
  <2> QED BY <2>3, FS_CardinalityType
<1> QED BY <1>1, <1>2, <1>3 DEF CtxType, Unregister

(* The constructor leaves a well-typed table that the kernel mirrors.      *)
LEMMA InitInv == Init => IInv
<1> SUFFICES ASSUME Init PROVE IInv
  OBVIOUS
<1>1. /\ AnyFd \in Fds
      /\ \A fd \in Fds : Ctx(fd, 1) \in Contexts /\ Ctx(fd, 1).fd = fd
  BY FdsAssumption, SizeAssumption DEF AnyFd, Ctx, Contexts
<1>2. TableType
  BY SizeAssumption, FdsAssumption DEF Init, TableType
<1>3. CtxType
  BY DEF Init, CtxType
<1>4. CallType
  <2> QED BY NoArgType DEF Init, CallType, Labels
<1>5. IdleType
  BY DEF Init, IdleType
<1>6. KernelType
  BY <1>1 DEF Init, KernelType
<1>7. SizeInv
  BY SizeAssumption DEF Init, SizeInv
<1>8. DataFd
  BY <1>1 DEF Init, DataFd
<1>9. KernelMirrors
  BY <1>1 DEF Init, KernelMirrors
<1> QED BY <1>2, <1>3, <1>4, <1>5, <1>6, <1>7, <1>8, <1>9, TypeParts DEF IInv

(* The operations of the fibers keep the types.                            *)
LEMMA FiberType ==
    ASSUME TypeOK, SizeInv, NEW f \in Fibers, FiberStep(f)
    PROVE  TypeOK'
<1>0. TableType /\ CtxType /\ CallType /\ IdleType /\ KernelType
  BY TypeParts
<1>b. /\ arg[f].ctx \in Contexts /\ arg[f].event \in Events
      /\ events[arg[f].ctx] \in SUBSET Events
  BY <1>0 DEF CallType, Args, CtxType
<1>1. ASSUME Lookup(f) PROVE TypeOK'
  <2>1. PICK fd \in Fds, op \in Ops, e \in Events :
         /\ arg' = [arg EXCEPT ![f] =
                      [op |-> op, event |-> e,
                       ctx |-> Ctx(fd, IF fd < size THEN slot[fd] ELSE 1)]]
         /\ Goto(f, IF fd < size THEN "locked"
                    ELSE IF op = "add" THEN "resize" ELSE "close_f")
    BY <1>1 DEF Lookup
  <2>2. Ctx(fd, IF fd < size THEN slot[fd] ELSE 1) \in Contexts
    BY <1>0, SizeAssumption DEF TableType, Ctx, Contexts
  <2>a. [op |-> op, event |-> e,
         ctx |-> Ctx(fd, IF fd < size THEN slot[fd] ELSE 1)] \in Args
    BY <2>2 DEF Args
  <2>b. PICK l \in Labels : pc' = [pc EXCEPT ![f] = l]
    BY <2>1 DEF Goto, Labels
  <2>3. CallType'
    BY <2>1, <2>a, <2>b, <1>0, CallSet
  <2>4. TableType' /\ CtxType' /\ IdleType' /\ KernelType'
    BY <1>0, <1>1 DEF Lookup, TableType, CtxType, IdleType, KernelType, table, ctxVars, kernel
  <2> QED BY <2>3, <2>4, TypePartsNext
<1>2. ASSUME Resize(f) PROVE TypeOK'
  <2> DEFINE fd == arg[f].ctx.fd
             n == NewSize(fd)
  <2>1. fd \in Fds /\ fd \in Nat /\ fd >= 2
    BY <1>2, <1>b, FdsAssumption, SizeAssumption DEF Resize, SizeInv, At, Contexts
  <2>2. n \in Nat /\ n > fd
    BY <2>1, NewSizeLarger
  <2>3. /\ \A x \in Fds : Resized(n)[x] <= MaxContexts
        /\ size' = n /\ slot' = Resized(n)
        /\ created' = [x \in Fds |-> Max({created[x], Resized(n)[x]})]
        /\ arg' = [arg EXCEPT ![f].ctx = Ctx(fd, Resized(n)[fd])]
    BY <1>2 DEF Resize
  <2> HIDE DEF n, fd
  <2>4. /\ Resized(n) \in [Fds -> 0 .. MaxContexts]
        /\ \A x \in Fds : Resized(n)[x] # 0 <=> x < n
    BY <1>0, <2>2, <2>3, ResizedFacts
  <2>5. created' \in [Fds -> 0 .. MaxContexts]
    <3>1. ASSUME NEW a \in 0 .. MaxContexts, NEW b \in 0 .. MaxContexts
          PROVE  Max({a, b}) \in 0 .. MaxContexts
      <4>1. \E x \in {a, b} : \A y \in {a, b} : x >= y
        BY SizeAssumption
      <4> QED BY <4>1 DEF Max
    <3> QED BY <3>1, <2>3, <2>4, <1>0 DEF TableType
  <2>6. Ctx(fd, Resized(n)[fd]) \in Contexts
    BY <2>1, <2>2, <2>4, SizeAssumption DEF Ctx, Contexts
  <2>a. [arg[f] EXCEPT !.ctx = Ctx(fd, Resized(n)[fd])] \in Args
    BY <2>6, <1>0 DEF CallType, Args
  <2>b. arg' = [arg EXCEPT ![f] = [arg[f] EXCEPT !.ctx = Ctx(fd, Resized(n)[fd])]]
    BY <2>3, <1>0 DEF CallType
  <2>7. CallType'
    BY <1>0, <1>2, <2>a, <2>b, CallSet DEF Resize, Goto, Labels
  <2>8. TableType'
    BY <2>2, <2>3, <2>4, <2>5 DEF TableType
  <2>9. CtxType' /\ IdleType' /\ KernelType'
    BY <1>0, <1>2 DEF Resize, CtxType, IdleType, KernelType, ctxVars, kernel
  <2> QED BY <2>7, <2>8, <2>9, TypePartsNext
<1>3. ASSUME AddEvent(f) PROVE TypeOK'
  <2> DEFINE c == arg[f].ctx
             e == arg[f].event
  <2>1. CASE UNCHANGED <<ctxVars, kernel>> /\ Goto(f, "run")
    <3>1. CallType'
      BY <2>1, <1>3, <1>0, NoArgType, CallSet DEF AddEvent, Goto, Labels
    <3>2. TableType' /\ CtxType' /\ IdleType' /\ KernelType'
      BY <2>1, <1>0, <1>3 DEF AddEvent, TableType, CtxType, IdleType, KernelType, table, ctxVars, kernel
    <3> QED BY <3>1, <3>2, TypePartsNext
  <2>2. CASE /\ EpollCtl(c, NewEvents(c, e))
             /\ events' = [events EXCEPT ![c] = @ \cup {e}]
             /\ waiter' = [waiter EXCEPT ![c][e] = f]
             /\ m_pendingEventCount' = m_pendingEventCount + 1
             /\ Goto(f, "wait")
    <3>1. CallType'
      BY <2>2, <1>3, <1>0, NoArgType, CallSet DEF AddEvent, Goto, Labels
    <3>2. CtxType'
      BY <2>2, <1>0, <1>b DEF CtxType
    <3>3. NewEvents(c, e) \in SUBSET Events
      BY <1>b DEF NewEvents
    <3>4. KernelType'
      BY <2>2, <3>3, <1>0, <1>b, <1>3, EpollCtlType DEF AddEvent
    <3>5. TableType' /\ IdleType'
      BY <1>0, <1>3 DEF AddEvent, TableType, IdleType, table
    <3> QED BY <3>1, <3>2, <3>4, <3>5, TypePartsNext
  <2> QED BY <1>3, <2>1, <2>2 DEF AddEvent
<1>4. ASSUME DelEvent(f) \/ CancelEvent(f) PROVE TypeOK'
  <2> DEFINE c == arg[f].ctx
             e == arg[f].event
  <2>0. TableType' /\ IdleType' /\ stranded' = stranded /\ arg' = [arg EXCEPT ![f] = NoArg]
    BY <1>0, <1>4 DEF DelEvent, CancelEvent, TableType, IdleType, table
  <2>1. CASE UNCHANGED <<ctxVars, kernel>> /\ Goto(f, "run")
    <3>1. CallType'
      BY <2>1, <2>0, <1>0, NoArgType, CallSet DEF Goto, Labels
    <3>2. CtxType' /\ KernelType'
      BY <2>1, <2>0, <1>0 DEF CtxType, KernelType, ctxVars, kernel
    <3> QED BY <2>0, <3>1, <3>2, TypePartsNext
  <2>2. CASE /\ EpollCtl(c, events[c] \ {e})
             /\ Unregister(c, {e})
             /\ \E l \in {"run", "deleted"} :
                  pc' = [pc EXCEPT ![f] = "run", ![waiter[c][e]] = l]
    <3>1. CallType'
      BY <2>2, <2>0, <1>0, NoArgType DEF CallType, Labels
    <3>2. CtxType'
      BY <2>2, <1>0, <1>b, UnregisterType
    <3>3. KernelType'
      BY <2>2, <2>0, <1>0, <1>b, EpollCtlType
    <3> QED BY <2>0, <3>1, <3>2, <3>3, TypePartsNext
  <2> QED BY <1>4, <2>1, <2>2 DEF DelEvent, CancelEvent
<1>5. ASSUME CancelAll(f) PROVE TypeOK'
  <2> DEFINE c == arg[f].ctx
  <2>0. TableType' /\ IdleType' /\ stranded' = stranded /\ arg' \in [Fibers -> Args]
    BY <1>0, <1>5, NoArgType DEF CancelAll, TableType, IdleType, table, CallType
  <2>1. pc' \in [Fibers -> Labels]
    BY <1>5, <1>0 DEF CancelAll, Goto, CallType, Labels
  <2>2. CASE UNCHANGED <<ctxVars, kernel>>
    <3>1. CtxType' /\ KernelType'
      BY <2>2, <2>0, <1>0 DEF CtxType, KernelType, ctxVars, kernel
    <3> QED BY <2>0, <2>1, <3>1, TypePartsNext DEF CallType
  <2>3. CASE EpollCtl(c, {}) /\ Unregister(c, events[c])
    <3>1. CtxType'
      BY <2>3, <1>0, <1>b, UnregisterType
    <3>2. KernelType'
      BY <2>3, <2>0, <1>0, <1>b, EpollCtlType
    <3> QED BY <2>0, <2>1, <3>1, <3>2, TypePartsNext DEF CallType
  <2> QED BY <1>5, <2>2, <2>3 DEF CancelAll
<1>6. ASSUME CloseFd(f) PROVE TypeOK'
  <2>1. CallType'
    BY <1>6, <1>0, NoArgType, CallSet DEF CloseFd, Goto, Labels
  <2>2. TableType' /\ CtxType' /\ IdleType'
    BY <1>6, <1>0 DEF CloseFd, TableType, CtxType, IdleType, table, ctxVars
  <2>3. KernelType'
    BY <1>6, <1>0, <1>b DEF CloseFd, KernelType, Contexts
  <2> QED BY <2>1, <2>2, <2>3, TypePartsNext
<1> QED BY <1>1, <1>2, <1>3, <1>4, <1>5, <1>6 DEF FiberStep

(* The results an idle thread takes and handles keep the types.            *)
LEMMA IdleTypes == ASSUME TypeOK, NEW t \in IdleThreads, IdleStep(t) PROVE TypeOK'
<1>0. TableType /\ CtxType /\ CallType /\ IdleType /\ KernelType
  BY TypeParts
<1>1. ASSUME EpollWait(t) PROVE TypeOK'
  <2>1. \A fd \in Fds : [ctx |-> data[fd], ev |-> Reported(fd)] \in Results
    BY <1>0 DEF KernelType, Reported, Results
  <2>2. {[ctx |-> data[fd], ev |-> Reported(fd)] :
            fd \in {x \in armed : Reported(x) # {}}} \in SUBSET Results
    BY <2>1, <1>0 DEF KernelType
  <2>3. IdleType'
    BY <2>2, <1>0, <1>1 DEF EpollWait, IdleType
  <2>4. TableType' /\ CtxType' /\ CallType' /\ KernelType'
    BY <1>0, <1>1 DEF EpollWait, TableType, CtxType, CallType, KernelType, table, ctxVars
  <2> QED BY <2>3, <2>4, TypePartsNext
<1>2. ASSUME HandleResult(t) PROVE TypeOK'
  <2>1. PICK r \in results[t] :
          /\ results' = [results EXCEPT ![t] = @ \ {r}]
          /\ IF RealEvents(r) \cap events[r.ctx] = {} \/ ~CtlOk(r.ctx)
               THEN UNCHANGED <<ctxVars, kernel, pc, aborted>>
               ELSE /\ EpollCtl(r.ctx, events[r.ctx] \ RealEvents(r))
                    /\ Unregister(r.ctx, RealEvents(r) \cap events[r.ctx])
                    /\ pc' = [g \in Fibers |->
                                IF g \in Woken(r.ctx, RealEvents(r) \cap events[r.ctx])
                                  THEN "run" ELSE pc[g]]
                    /\ aborted' = (RealEvents(r) # RealEvents(r) \cap events[r.ctx])
    BY <1>2 DEF HandleResult
  <2>2. r \in Results /\ r.ctx \in Contexts /\ events[r.ctx] \in SUBSET Events
    BY <1>0 DEF IdleType, Results, CtxType
  <2>3. results' \in [IdleThreads -> SUBSET Results]
    BY <2>1, <1>0 DEF IdleType
  <2>4. TableType' /\ UNCHANGED <<arg, stranded>>
    BY <1>0, <1>2 DEF HandleResult, TableType, table
  <2>5. CASE UNCHANGED <<ctxVars, kernel, pc, aborted>>
    <3>1. CtxType' /\ CallType' /\ KernelType' /\ IdleType'
      BY <1>0, <2>3, <2>4, <2>5
      DEF CtxType, CallType, KernelType, IdleType, ctxVars, kernel
    <3> QED BY <2>4, <3>1, TypePartsNext
  <2>6. CASE ~(RealEvents(r) \cap events[r.ctx] = {} \/ ~CtlOk(r.ctx))
    <3>1. CtxType'
      BY <1>0, <2>1, <2>2, <2>6, UnregisterType
    <3>2. KernelType'
      BY <1>0, <2>1, <2>2, <2>4, <2>6, EpollCtlType
    <3>3. CallType'
      BY <1>0, <2>1, <2>4, <2>6 DEF CallType, Labels
    <3>4. aborted' \in BOOLEAN
      BY <2>1, <2>6
    <3> QED BY <2>3, <2>4, <3>1, <3>2, <3>3, <3>4, TypePartsNext DEF IdleType
  <2> QED BY <2>1, <2>5, <2>6
<1> QED BY <1>1, <1>2 DEF IdleStep

(* What happens to the fds outside the program keeps the types.            *)
LEMMA WorldTypes == ASSUME TypeOK, NEW fd \in Fds, WorldStep(fd) PROVE TypeOK'
<1>0. TableType /\ CtxType /\ CallType /\ IdleType /\ KernelType
  BY TypeParts
<1>1. UNCHANGED <<table, ctxVars, pc, arg, results, aborted, interest, data, stranded>>
  BY DEF WorldStep, BecomeReady, Consume, Reopen
<1>2. TableType' /\ CtxType' /\ CallType' /\ IdleType'
  BY <1>0, <1>1 DEF TableType, CtxType, CallType, IdleType, table, ctxVars
<1>3. open' \subseteq Fds /\ armed' \subseteq Fds
  BY <1>0 DEF KernelType, WorldStep, BecomeReady, Consume, Reopen
<1>4. level' \in [Fds -> SUBSET (Events \cup {"HUP"})]
  BY <1>0 DEF KernelType, WorldStep, BecomeReady, Consume, Reopen
<1>5. KernelType'
  BY <1>0, <1>1, <1>3, <1>4 DEF KernelType
<1> QED BY <1>2, <1>5, TypePartsNext

(* A fiber reaches the resize only from a lookup beyond the table, and the *)
(* table it then makes is larger than the fd.                              *)
LEMMA SizeStep == ASSUME TypeOK, SizeInv, [Next]_vars PROVE SizeInv'
<1>0. TableType /\ CtxType /\ CallType /\ IdleType /\ KernelType
  BY TypeParts
<1>1. ASSUME UNCHANGED <<size, arg>>,
             \A g \in Fibers : pc'[g] = "resize" => pc[g] = "resize"
      PROVE  SizeInv'
  BY <1>1 DEF SizeInv
<1>2. ASSUME NEW f \in Fibers, Lookup(f) PROVE SizeInv'
  <2>1. PICK fd \in Fds, op \in Ops, e \in Events :
         /\ arg' = [arg EXCEPT ![f] =
                      [op |-> op, event |-> e,
                       ctx |-> Ctx(fd, IF fd < size THEN slot[fd] ELSE 1)]]
         /\ pc' = [pc EXCEPT ![f] = IF fd < size THEN "locked"
                    ELSE IF op = "add" THEN "resize" ELSE "close_f"]
    BY <1>2 DEF Lookup, Goto
  <2>2. size' = size /\ size \in Nat /\ fd \in Nat
    BY <1>0, <1>2, FdsAssumption DEF Lookup, table, TableType
  <2>3. ASSUME NEW g \in Fibers, g # f, pc'[g] = "resize"
        PROVE  arg'[g].ctx.fd >= InitSize
    BY <2>1, <2>3, <1>0 DEF SizeInv, CallType
  <2>4. ASSUME pc'[f] = "resize" PROVE arg'[f].ctx.fd >= InitSize
    <3>1. ~(fd < size)
      BY <2>1, <2>4, <1>0 DEF CallType
    <3>2. arg'[f].ctx.fd = fd
      BY <2>1, <1>0 DEF CallType, Ctx
    <3> QED BY <3>1, <3>2, <2>2, SizeAssumption DEF SizeInv
  <2> QED BY <2>2, <2>3, <2>4 DEF SizeInv
<1>3. ASSUME NEW f \in Fibers, Resize(f) PROVE SizeInv'
  <2>1. /\ arg[f].ctx.fd \in Nat /\ arg[f].ctx.fd >= InitSize
        /\ size' = NewSize(arg[f].ctx.fd)
    BY <1>0, <1>3, FdsAssumption DEF Resize, At, SizeInv, CallType, Args, Contexts
  <2>2. size' >= InitSize
    BY <2>1, NewSizeLarger, SizeAssumption
  <2>3. ASSUME NEW g \in Fibers, pc'[g] = "resize" PROVE arg'[g].ctx.fd >= InitSize
    <3>1. g # f /\ pc[g] = "resize"
      BY <1>0, <1>3, <2>3 DEF Resize, Goto, CallType
    <3>2. arg'[g] = arg[g]
      BY <1>0, <1>3, <3>1 DEF Resize, CallType
    <3> QED BY <3>1, <3>2 DEF SizeInv
  <2> QED BY <2>2, <2>3 DEF SizeInv
<1>4. ASSUME NEW f \in Fibers,
             AddEvent(f) \/ DelEvent(f) \/ CancelEvent(f) \/ CancelAll(f) \/ CloseFd(f)
      PROVE  SizeInv'
  <2>1. size' = size
    BY <1>4 DEF AddEvent, DelEvent, CancelEvent, CancelAll, CloseFd, table
  <2>2. \A g \in Fibers : g # f => arg'[g] = arg[g]
    BY <1>0, <1>4 DEF AddEvent, DelEvent, CancelEvent, CancelAll, CloseFd, CallType
  <2>3. pc'[f] # "resize" /\ \A g \in Fibers : pc'[g] = "resize" => pc[g] = "resize"
    <3>1. CASE AddEvent(f)
      BY <1>0, <3>1 DEF AddEvent, Goto, CallType
    <3>2. CASE DelEvent(f) \/ CancelEvent(f)
      BY <1>0, <3>2 DEF DelEvent, CancelEvent, Goto, CallType
    <3>3. CASE CancelAll(f)
      BY <1>0, <3>3 DEF CancelAll, Goto, CallType
    <3>4. CASE CloseFd(f)
      BY <1>0, <3>4 DEF CloseFd, Goto, CallType
    <3> QED BY <1>4, <3>1, <3>2, <3>3, <3>4
  <2> QED BY <2>1, <2>2, <2>3 DEF SizeInv
<1>5. ASSUME NEW t \in IdleThreads, IdleStep(t) PROVE SizeInv'
  <2>1. UNCHANGED <<size, arg>>
    BY <1>5 DEF IdleStep, EpollWait, HandleResult, table
  <2>2. \A g \in Fibers : pc'[g] = "resize" => pc[g] = "resize"
    BY <1>5 DEF IdleStep, EpollWait, HandleResult
  <2> QED BY <2>1, <2>2, <1>1
<1>6. ASSUME NEW fd \in Fds, WorldStep(fd) PROVE SizeInv'
  BY <1>1, <1>6 DEF WorldStep, BecomeReady, Consume, Reopen, table
<1>7. CASE UNCHANGED vars
  BY <1>1, <1>7 DEF vars, table
<1> QED BY <1>2, <1>3, <1>4, <1>5, <1>6, <1>7 DEF Next, FiberStep, Aborted

(* A successful epoll_ctl that registers for its context exactly what the  *)
(* context then holds: CtlOk makes the context the one the kernel knows,   *)
(* or the kernel know none.                                                *)
LEMMA CtlMirrors ==
    ASSUME TypeOK, DataFd, KernelMirrors, NEW c \in Contexts, NEW new \in SUBSET Events,
           CtlOk(c), EpollCtl(c, new), events' = [events EXCEPT ![c] = new],
           stranded' = stranded
    PROVE  DataFd' /\ KernelMirrors'
<1>0. CtxType /\ KernelType /\ c.fd \in Fds
  BY TypeParts DEF Contexts
<1>1. /\ interest' = [interest EXCEPT ![c.fd] = new]
      /\ data' = [data EXCEPT ![c.fd] = c]
  BY DEF EpollCtl
<1>2. DataFd'
  BY <1>0, <1>1 DEF DataFd, KernelType
<1>3. ASSUME stranded = {}, NEW fd \in Fds
      PROVE  /\ interest'[fd] = events'[data'[fd]]
             /\ \A d \in Contexts : d.fd = fd /\ events'[d] # {} => d = data'[fd]
  <2>1. CASE fd = c.fd
    <3>1. data'[fd] = c /\ interest'[fd] = new /\ events'[c] = new
      BY <1>0, <1>1, <2>1 DEF KernelType, CtxType
    <3>2. ASSUME NEW d \in Contexts, d.fd = fd, events'[d] # {}, d # c PROVE FALSE
      <4>1. events[d] # {}
        BY <1>0, <3>2 DEF CtxType
      <4>2. d = data[fd] /\ interest[fd] = events[d]
        BY <1>3, <3>2, <4>1 DEF KernelMirrors
      <4>3. events[c] # {}
        BY <4>1, <4>2, <2>1 DEF CtlOk
      <4>4. c = data[fd]
        BY <1>3, <2>1, <4>3 DEF KernelMirrors
      <4> QED BY <3>2, <4>2, <4>4
    <3> QED BY <3>1, <3>2
  <2>2. CASE fd # c.fd
    <3>1. data'[fd] = data[fd] /\ interest'[fd] = interest[fd] /\ data[fd] \in Contexts
      BY <1>0, <1>1, <2>2 DEF KernelType
    <3>2. \A d \in Contexts : d.fd = fd => events'[d] = events[d]
      BY <1>0, <2>2 DEF CtxType
    <3>3. data[fd].fd = fd
      BY DEF DataFd
    <3> QED BY <1>3, <3>1, <3>2, <3>3 DEF KernelMirrors
  <2> QED BY <2>1, <2>2
<1>4. KernelMirrors'
  BY <1>3 DEF KernelMirrors
<1> QED BY <1>2, <1>4

(* Every step keeps the kernel's registration and the contexts equal.      *)
LEMMA MirrorStep ==
    ASSUME TypeOK, DataFd, KernelMirrors, [Next]_vars
    PROVE  DataFd' /\ KernelMirrors'
<1>0. CtxType /\ CallType /\ KernelType /\ IdleType
  BY TypeParts
<1>1. ASSUME UNCHANGED <<events, interest, data, stranded>> PROVE DataFd' /\ KernelMirrors'
  BY <1>1 DEF DataFd, KernelMirrors
<1>2. ASSUME NEW f \in Fibers, Lookup(f) \/ Resize(f) PROVE DataFd' /\ KernelMirrors'
  BY <1>1, <1>2 DEF Lookup, Resize, ctxVars, kernel
<1>3. ASSUME NEW f \in Fibers PROVE arg[f].ctx \in Contexts /\ arg[f].event \in Events
  BY <1>0 DEF CallType, Args
<1>4. ASSUME NEW f \in Fibers, AddEvent(f) PROVE DataFd' /\ KernelMirrors'
  <2> DEFINE c == arg[f].ctx
             e == arg[f].event
  <2>1. CASE e \in events[c] \/ ~CtlOk(c)
    BY <1>1, <1>4, <2>1 DEF AddEvent, ctxVars, kernel
  <2>2. CASE ~(e \in events[c] \/ ~CtlOk(c))
    <3>1. /\ EpollCtl(c, events[c] \cup {e}) /\ stranded' = stranded
          /\ events' = [events EXCEPT ![c] = events[c] \cup {e}]
      BY <1>4, <2>2 DEF AddEvent, NewEvents
    <3>2. events[c] \cup {e} \in SUBSET Events
      BY <1>0, <1>3 DEF CtxType
    <3> QED BY <1>3, <2>2, <3>1, <3>2, CtlMirrors
  <2> QED BY <2>1, <2>2
<1>5. ASSUME NEW f \in Fibers, DelEvent(f) \/ CancelEvent(f) PROVE DataFd' /\ KernelMirrors'
  <2> DEFINE c == arg[f].ctx
             e == arg[f].event
  <2>1. CASE e \notin events[c] \/ ~CtlOk(c)
    BY <1>1, <1>5, <2>1 DEF DelEvent, CancelEvent, ctxVars, kernel
  <2>2. CASE ~(e \notin events[c] \/ ~CtlOk(c))
    <3>1. /\ EpollCtl(c, events[c] \ {e}) /\ stranded' = stranded
          /\ events' = [events EXCEPT ![c] = events[c] \ {e}]
      BY <1>5, <2>2 DEF DelEvent, CancelEvent, Unregister
    <3>2. events[c] \ {e} \in SUBSET Events
      BY <1>0, <1>3 DEF CtxType
    <3> QED BY <1>3, <2>2, <3>1, <3>2, CtlMirrors
  <2> QED BY <2>1, <2>2
<1>6. ASSUME NEW f \in Fibers, CancelAll(f) PROVE DataFd' /\ KernelMirrors'
  <2> DEFINE c == arg[f].ctx
  <2>1. CASE events[c] = {} \/ ~CtlOk(c)
    BY <1>1, <1>6, <2>1 DEF CancelAll, ctxVars, kernel
  <2>2. CASE ~(events[c] = {} \/ ~CtlOk(c))
    <3>1. /\ EpollCtl(c, {}) /\ stranded' = stranded
          /\ events' = [events EXCEPT ![c] = events[c] \ events[c]]
      BY <1>6, <2>2 DEF CancelAll, Unregister
    <3>2. events' = [events EXCEPT ![c] = {}]
      BY <3>1
    <3> QED BY <1>3, <2>2, <3>1, <3>2, CtlMirrors
  <2> QED BY <2>1, <2>2
<1>7. ASSUME NEW f \in Fibers, CloseFd(f) PROVE DataFd' /\ KernelMirrors'
  <2> DEFINE fd == arg[f].ctx.fd
  <2>1. /\ interest' = [interest EXCEPT ![fd] = {}] /\ UNCHANGED <<events, data>>
        /\ stranded' = stranded \cup {c \in Contexts : c.fd = fd /\ events[c] # {}}
    BY <1>7 DEF CloseFd, ctxVars
  <2> HIDE DEF fd
  <2>2. ASSUME stranded' = {}, NEW x \in Fds
        PROVE  /\ interest'[x] = events'[data'[x]]
               /\ \A c \in Contexts : c.fd = x /\ events'[c] # {} => c = data'[x]
    <3>1. stranded = {} /\ \A c \in Contexts : c.fd = fd => events[c] = {}
      BY <2>1, <2>2
    <3>2. data[x] \in Contexts /\ data[x].fd = x
      BY <1>0 DEF KernelType, DataFd
    <3>3. interest'[x] = IF x = fd THEN {} ELSE interest[x]
      BY <2>1, <1>0 DEF KernelType
    <3> QED BY <2>1, <3>1, <3>2, <3>3 DEF KernelMirrors
  <2> QED BY <2>1, <2>2 DEF DataFd, KernelMirrors
<1>8. ASSUME NEW t \in IdleThreads, EpollWait(t) PROVE DataFd' /\ KernelMirrors'
  BY <1>1, <1>8 DEF EpollWait, ctxVars
<1>9. ASSUME NEW t \in IdleThreads, HandleResult(t) PROVE DataFd' /\ KernelMirrors'
  <2>1. PICK r \in results[t] :
          IF RealEvents(r) \cap events[r.ctx] = {} \/ ~CtlOk(r.ctx)
            THEN UNCHANGED <<ctxVars, kernel>>
            ELSE /\ EpollCtl(r.ctx, events[r.ctx] \ RealEvents(r))
                 /\ Unregister(r.ctx, RealEvents(r) \cap events[r.ctx])
    BY <1>9 DEF HandleResult
  <2>2. r.ctx \in Contexts /\ stranded' = stranded
    BY <1>0, <1>9 DEF IdleType, Results, HandleResult
  <2>3. CASE RealEvents(r) \cap events[r.ctx] = {} \/ ~CtlOk(r.ctx)
    BY <1>1, <2>1, <2>2, <2>3 DEF ctxVars, kernel
  <2>4. CASE ~(RealEvents(r) \cap events[r.ctx] = {} \/ ~CtlOk(r.ctx))
    <3> DEFINE new == events[r.ctx] \ RealEvents(r)
    <3>1. events[r.ctx] \ (RealEvents(r) \cap events[r.ctx]) = new
      OBVIOUS
    <3>2. events' = [events EXCEPT ![r.ctx] =
                       events[r.ctx] \ (RealEvents(r) \cap events[r.ctx])]
      BY <2>1, <2>4 DEF Unregister
    <3>3. events' = [events EXCEPT ![r.ctx] = new]
      BY <3>1, <3>2
    <3>4. new \in SUBSET Events
      BY <1>0, <2>2 DEF CtxType
    <3> QED BY <2>1, <2>2, <2>4, <3>3, <3>4, CtlMirrors
  <2> QED BY <2>3, <2>4
<1>10. ASSUME NEW fd \in Fds, WorldStep(fd) PROVE DataFd' /\ KernelMirrors'
  BY <1>1, <1>10 DEF WorldStep, BecomeReady, Consume, Reopen, ctxVars
<1>11. CASE UNCHANGED vars
  BY <1>1, <1>11 DEF vars, ctxVars, kernel
<1> QED BY <1>2, <1>4, <1>5, <1>6, <1>7, <1>8, <1>9, <1>10, <1>11
        DEF Next, FiberStep, IdleStep, Aborted

(* Every step keeps the types.                                             *)
LEMMA TypeStep == ASSUME TypeOK, SizeInv, [Next]_vars PROVE TypeOK'
<1>1. CASE UNCHANGED vars
  <2>1. TableType /\ CtxType /\ CallType /\ IdleType /\ KernelType
    BY TypeParts
  <2>2. TableType' /\ CtxType' /\ CallType' /\ IdleType' /\ KernelType'
    BY <1>1, <2>1 DEF TableType, CtxType, CallType, IdleType, KernelType,
                      vars, table, ctxVars, kernel
  <2> QED BY <2>2, TypePartsNext
<1> QED BY <1>1, FiberType, IdleTypes, WorldTypes DEF Next, Aborted

(* The inductive invariant holds throughout.                               *)
THEOREM Invariance == Spec => []IInv
<1>1. IInv /\ [Next]_vars => IInv'
  BY TypeStep, SizeStep, MirrorStep DEF IInv
<1> QED BY InitInv, <1>1, PTL DEF Spec

(* The event table keeps its types, whatever the sizes addEvent gives it:  *)
(* in particular the slots below its size, and only they, hold a context,  *)
(* so that no operation works on a missing FdContext.                      *)
THEOREM TypeCorrect == Spec => []TypeOK
<1>1. IInv => TypeOK
  BY DEF IInv
<1> QED BY Invariance, <1>1, PTL

(* As long as no fd was closed under a registered event, what the kernel   *)
(* watches for an fd is what its FdContext has registered, for any number  *)
(* of fibers, idle threads and fds and however often the table changed.    *)
THEOREM KernelAgrees == Spec => []KernelMirrors
<1>1. IInv => KernelMirrors
  BY DEF IInv
<1> QED BY Invariance, <1>1, PTL
=============================================================================
