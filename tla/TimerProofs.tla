---------------------------- MODULE TimerProofs -----------------------------
(* Proofs about TimerManager, for any threads, timers, periods and clock.  *)
EXTENDS TimerManager, TLAPS

(* A timer that was cancelled, or a one-shot timer that fired, exists and  *)
(* has lost its callback.                                                  *)
SpentHasNoCb == cancelled \cup fired \subseteq made \ hasCb

(* The timer a thread is about to insert exists.                           *)
OperandMade ==
    \A t \in Threads : pc[t] \in {"insert", "recompute"} => arg[t].timer \in made

(* The inductive invariant.                                                *)
IInv == TypeOK /\ OperandMade /\ SpentHasNoCb /\ NoTimerLost

(* The operands a thread may hold.                                         *)
Args == [timer : Timers \cup {NoTimer}, ms : Nat, fromNow : BOOLEAN,
         now : Nat, rollover : BOOLEAN]

(* Inserting into the heap adds at most the inserted timer, and every      *)
(* heap it makes is part of what it was given.                             *)
LEMMA InsertedFacts ==
    ASSUME NEW rest, NEW x, NEW n
    PROVE  /\ Inserted(rest, x, n) \subseteq rest \cup {x}
           /\ rest \subseteq Inserted(rest, x, n)
BY DEF Inserted

(* The heap is empty and well typed when the manager is constructed.       *)
LEMMA InitInv == Init => IInv
<1> SUFFICES ASSUME Init PROVE IInv
  OBVIOUS
<1>1. NoArg \in Args
  BY DEF NoArg, Args
<1>2. TypeOK
  <2>1. /\ arg \in [Threads -> Args]
        /\ pc \in [Threads -> {"ready", "insert", "recompute", "lock", "pass"}]
        /\ \A t \in Threads : pc[t] = "pass" <=> holder = t
    BY <1>1, ThreadAssumption DEF Init
  <2>2. m_tickled \in BOOLEAN
    BY DEF Init
  <2>3. /\ now \in Nat /\ backs \in Nat /\ m_previouseTime \in Nat /\ known \in Int
        /\ m_next \in [Timers -> Int] /\ m_ms \in [Timers -> Nat]
    BY DEF Init, Never
  <2>4. /\ m_timers \subseteq made /\ hasCb \subseteq made /\ made \subseteq Timers
        /\ handles \subseteq made /\ holder \in Threads \cup {NoThread}
        /\ cbs \in [Threads -> SUBSET Timers] /\ cancelled \subseteq Timers
        /\ dropped \subseteq Timers /\ fired \subseteq Timers
    BY DEF Init
  <2> QED BY <2>1, <2>2, <2>3, <2>4 DEF TypeOK, Args
<1>3. OperandMade /\ SpentHasNoCb /\ NoTimerLost
  BY DEF Init, OperandMade, SpentHasNoCb, NoTimerLost
<1> QED BY <1>2, <1>3 DEF IInv

(* Every step keeps the variables in their types.                          *)
LEMMA NextType == TypeOK /\ OperandMade /\ [Next]_vars => TypeOK'
<1> SUFFICES ASSUME TypeOK, OperandMade, [Next]_vars PROVE TypeOK'
  OBVIOUS
<1> USE DEF TypeOK
<1>0. NoArg \in Args /\ arg \in [Threads -> Args]
  BY DEF NoArg, Args
<1>1. ASSUME NEW t \in Threads, NewTimer(t) PROVE TypeOK'
  <2>1. PICK x \in Timers \ made, ms \in Periods :
          /\ made' = made \cup {x} /\ hasCb' = hasCb \cup {x}
          /\ m_ms' = [m_ms EXCEPT ![x] = ms]
          /\ m_next' = [m_next EXCEPT ![x] = now + ms]
          /\ arg' = [arg EXCEPT ![t] = [NoArg EXCEPT !.timer = x]]
    BY <1>1 DEF NewTimer
  <2>2. ms \in Nat
    BY TimeAssumption
  <2>3. arg' \in [Threads -> Args]
    BY <2>1, <1>0 DEF NoArg, Args
  <2> QED BY <2>1, <2>2, <2>3, <1>1, ThreadAssumption
        DEF NewTimer, Goto, time, flags, history, Args
<1>2. ASSUME NEW t \in Threads, InsertTimer(t) PROVE TypeOK'
  <2>1. arg' \in [Threads -> Args]
    BY <1>2, <1>0 DEF InsertTimer
  <2>2. m_tickled' \in BOOLEAN
    BY <1>2, Zenon DEF InsertTimer
  <2>3. arg[t].timer \in made
    BY <1>2 DEF InsertTimer, OperandMade
  <2>4. /\ m_timers' \subseteq made' /\ handles' \subseteq made' /\ known' \in Int
        /\ dropped' \subseteq Timers
    BY <2>3, <1>2 DEF InsertTimer, Never
  <2>5. /\ pc' \in [Threads -> {"ready", "insert", "recompute", "lock", "pass"}]
        /\ \A u \in Threads : pc'[u] = "pass" <=> holder' = u
    BY <1>2, ThreadAssumption DEF InsertTimer, Goto, Unlocked
  <2> QED BY <2>1, <2>2, <2>4, <2>5, <1>2 DEF InsertTimer, time, Args
<1>3. ASSUME NEW t \in Threads, Cancel(t) PROVE TypeOK'
  BY <1>3 DEF Cancel, time, flags, Find
<1>4. ASSUME NEW t \in Threads, Refresh(t) PROVE TypeOK'
  <2>0. PICK x \in hasCb \cap handles : \E y \in Find(x) :
         /\ m_next' = [m_next EXCEPT ![x] = now + m_ms[x]]
         /\ m_timers' = Inserted(m_timers \ {y}, x, now + m_ms[x])
         /\ dropped' = dropped \cup ({y} \ {x})
                         \cup (IF x \in m_timers' THEN {} ELSE {x})
    BY <1>4 DEF Refresh
  <2>1. PICK y \in Find(x) :
         /\ m_next' = [m_next EXCEPT ![x] = now + m_ms[x]]
         /\ m_timers' = Inserted(m_timers \ {y}, x, now + m_ms[x])
         /\ dropped' = dropped \cup ({y} \ {x})
                         \cup (IF x \in m_timers' THEN {} ELSE {x})
    BY <2>0
  <2>2. m_timers' \subseteq made /\ m_ms[x] \in Nat /\ y \in m_timers /\ x \in Timers
    BY <2>1, InsertedFacts DEF Find
  <2>3. dropped' \subseteq Timers
    BY <2>1, <2>2
  <2>4. m_next' \in [Timers -> Int]
    BY <2>1, <2>2
  <2> QED BY <2>2, <2>3, <2>4, <1>4 DEF Refresh, time, flags
<1>5. ASSUME NEW t \in Threads, ResetErase(t) PROVE TypeOK'
  <2>1. PICK x \in hasCb \cap handles, ms \in Periods, fromNow \in BOOLEAN :
          /\ \E y \in Find(x) : /\ m_timers' = m_timers \ {y}
                                /\ dropped' = dropped \cup ({y} \ {x})
          /\ arg' = [arg EXCEPT ![t] =
                      [NoArg EXCEPT !.timer = x, !.ms = ms, !.fromNow = fromNow]]
    BY <1>5 DEF ResetErase
  <2>2. arg' \in [Threads -> Args]
    BY <2>1, <1>0, TimeAssumption DEF NoArg, Args
  <2>3. m_timers' \subseteq made /\ dropped' \subseteq Timers
    BY <2>1 DEF Find
  <2> QED BY <2>2, <2>3, <1>5, ThreadAssumption DEF ResetErase, Goto, time, flags, Args
<1>6. ASSUME NEW t \in Threads, ResetCompute(t) PROVE TypeOK'
  <2>1. arg[t].timer \in Timers /\ arg[t].ms \in Nat
    BY <1>6, <1>0 DEF ResetCompute, OperandMade, Args
  <2>2. m_ms[arg[t].timer] \in Nat /\ m_next[arg[t].timer] \in Int
    BY <2>1
  <2>3. m_ms' \in [Timers -> Nat]
    BY <2>1, <1>6 DEF ResetCompute
  <2>4. m_next' \in [Timers -> Int]
    <3>1. ASSUME NEW b \in BOOLEAN
          PROVE  (IF b THEN now ELSE m_next[arg[t].timer] - m_ms[arg[t].timer]) + arg[t].ms \in Int
      BY <2>1, <2>2
    <3>2. arg[t].fromNow \in BOOLEAN
      BY <1>0, Zenon DEF Args
    <3>3. (IF arg[t].fromNow THEN now ELSE m_next[arg[t].timer] - m_ms[arg[t].timer])
              + arg[t].ms \in Int
      BY <3>1, <3>2, Zenon
    <3> QED BY <3>3, <2>1, <1>6, Zenon DEF ResetCompute
  <2>5. /\ pc' \in [Threads -> {"ready", "insert", "recompute", "lock", "pass"}]
        /\ \A u \in Threads : pc'[u] = "pass" <=> holder' = u
    BY <1>6, ThreadAssumption DEF ResetCompute, Goto, flags
  <2> QED BY <2>3, <2>4, <2>5, <1>6 DEF ResetCompute, time, flags, history
<1>7. ASSUME NEW t \in Threads, GetNextTimer(t) PROVE TypeOK'
  <2>1. m_tickled' \in BOOLEAN
    BY <1>7, Zenon DEF GetNextTimer
  <2>2. known' \in Int
    BY <1>7 DEF GetNextTimer, Never
  <2> QED BY <2>1, <2>2, <1>7 DEF GetNextTimer, time, heap, history
<1>8. ASSUME NEW t \in Threads, ReadNow(t) PROVE TypeOK'
  <2>1. arg' \in [Threads -> Args]
    BY <1>8, <1>0 DEF ReadNow, NoArg, Args
  <2> QED BY <2>1, <1>8 DEF ReadNow, Goto, time, heap, flags, history, Args
<1>9. ASSUME NEW t \in Threads, DetectClockRollover(t) PROVE TypeOK'
  <2>0. (now < m_previouseTime - Hour) \in BOOLEAN
    OBVIOUS
  <2>1. arg' \in [Threads -> Args]
    <3>1. ASSUME NEW b \in BOOLEAN
          PROVE  [arg EXCEPT ![t].rollover = b] \in [Threads -> Args]
      BY <1>0 DEF Args
    <3> QED BY <3>1, <2>0, <1>9, Zenon DEF DetectClockRollover
  <2> QED BY <2>1, <1>9, ThreadAssumption
        DEF DetectClockRollover, Goto, Unlocked, time, heap, history, Args
<1>10. ASSUME NEW t \in Threads, CollectFirst(t) PROVE TypeOK'
  <2>1. PICK x \in m_timers :
         /\ cbs' = [cbs EXCEPT ![t] = IF x \in hasCb THEN @ \cup {x} ELSE @]
         /\ fired' = fired \cup ({x} \cap (hasCb \ Recurring))
         /\ IF x \in Recurring
              THEN LET n == arg[t].now + m_ms[x] IN
                   /\ m_next' = [m_next EXCEPT ![x] = n]
                   /\ m_timers' = Inserted(m_timers \ {x}, x, n)
                   /\ dropped' = IF x \in m_timers' THEN dropped ELSE dropped \cup {x}
                   /\ UNCHANGED hasCb
              ELSE /\ m_timers' = m_timers \ {x}
                   /\ hasCb' = hasCb \ {x}
                   /\ UNCHANGED <<m_next, dropped>>
    BY <1>10 DEF CollectFirst
  <2>2. m_timers' \subseteq made /\ hasCb' \subseteq made /\ fired' \subseteq Timers
        /\ dropped' \subseteq Timers
    BY <2>1, InsertedFacts
  <2>3. arg[t].now + m_ms[x] \in Int /\ x \in Timers
    BY <2>1
  <2>4. m_next' \in [Timers -> Int] /\ cbs' \in [Threads -> SUBSET Timers]
    BY <2>1, <2>3
  <2> QED BY <2>2, <2>4, <1>10 DEF CollectFirst, time, flags
<1>11. ASSUME NEW t \in Threads, PassDone(t) PROVE TypeOK'
  <2>1. arg' \in [Threads -> Args]
    BY <1>11, <1>0 DEF PassDone
  <2> QED BY <2>1, <1>11, ThreadAssumption
        DEF PassDone, Goto, time, heap, history, Args
<1>12. CASE Tick
  BY <1>12 DEF Tick, heap, flags, history
<1>13. CASE SetBack
  BY <1>13 DEF SetBack, heap, flags, history
<1>14. CASE UNCHANGED vars
  BY <1>14 DEF vars, time, heap, flags, history
<1> QED
  BY <1>1, <1>2, <1>3, <1>4, <1>5, <1>6, <1>7, <1>8, <1>9, <1>10, <1>11, <1>12,
     <1>13, <1>14 DEF Next, Step

(* Only addTimer, reset() and a new timer put a thread before the insert.  *)
LEMMA NextOperand == TypeOK /\ OperandMade /\ [Next]_vars => OperandMade'
<1> SUFFICES ASSUME TypeOK, OperandMade, [Next]_vars PROVE OperandMade'
  OBVIOUS
<1> USE DEF OperandMade
<1>0. /\ pc \in [Threads -> {"ready", "insert", "recompute", "lock", "pass"}]
      /\ arg \in [Threads -> Args] /\ hasCb \subseteq made
  BY DEF TypeOK, Args
<1>1. ASSUME NEW t \in Threads, NewTimer(t) PROVE OperandMade'
  <2>1. PICK x \in Timers \ made :
          /\ made' = made \cup {x}
          /\ arg' = [arg EXCEPT ![t] = [NoArg EXCEPT !.timer = x]]
    BY <1>1 DEF NewTimer
  <2>2. [NoArg EXCEPT !.timer = x].timer = x
    BY DEF NoArg
  <2>3. arg'[t].timer \in made' /\ \A u \in Threads \ {t} : arg'[u] = arg[u]
    BY <2>1, <2>2, <1>0
  <2>4. \A u \in Threads \ {t} : pc'[u] = pc[u]
    BY <1>1, <1>0 DEF NewTimer, Goto
  <2> QED BY <2>1, <2>3, <2>4
<1>2. ASSUME NEW t \in Threads,
             \/ InsertTimer(t) \/ ReadNow(t) \/ DetectClockRollover(t) \/ PassDone(t)
      PROVE  OperandMade'
  <2>1. made' = made /\ pc'[t] \in {"ready", "lock", "pass"}
    BY <1>2, <1>0 DEF InsertTimer, ReadNow, DetectClockRollover, PassDone, Goto, heap
  <2>2. \A u \in Threads \ {t} : pc'[u] = pc[u] /\ arg'[u] = arg[u]
    BY <1>2, <1>0 DEF InsertTimer, ReadNow, DetectClockRollover, PassDone, Goto
  <2> QED BY <2>1, <2>2
<1>3. ASSUME NEW t \in Threads, ResetErase(t) PROVE OperandMade'
  <2>1. PICK x \in hasCb \cap handles, ms \in Periods, fromNow \in BOOLEAN :
          arg' = [arg EXCEPT ![t] =
                    [NoArg EXCEPT !.timer = x, !.ms = ms, !.fromNow = fromNow]]
    BY <1>3 DEF ResetErase
  <2>2. [NoArg EXCEPT !.timer = x, !.ms = ms, !.fromNow = fromNow].timer = x
    BY DEF NoArg
  <2>3. arg'[t].timer \in made' /\ \A u \in Threads \ {t} : arg'[u] = arg[u]
    BY <2>1, <2>2, <1>0, <1>3 DEF ResetErase
  <2>4. made' = made /\ \A u \in Threads \ {t} : pc'[u] = pc[u]
    BY <1>3, <1>0 DEF ResetErase, Goto
  <2> QED BY <2>3, <2>4
<1>4. ASSUME NEW t \in Threads, ResetCompute(t) PROVE OperandMade'
  <2>1. /\ made' = made /\ arg' = arg /\ pc[t] = "recompute"
        /\ \A u \in Threads \ {t} : pc'[u] = pc[u]
    BY <1>4, <1>0 DEF ResetCompute, Goto
  <2> QED BY <2>1
<1>5. ASSUME NEW t \in Threads,
             Cancel(t) \/ Refresh(t) \/ GetNextTimer(t) \/ CollectFirst(t)
      PROVE  OperandMade'
  <2>1. made' = made /\ pc' = pc /\ arg' = arg
    BY <1>5 DEF Cancel, Refresh, GetNextTimer, CollectFirst, heap
  <2> QED BY <2>1
<1>6. ASSUME Tick \/ SetBack \/ UNCHANGED vars PROVE OperandMade'
  BY <1>6 DEF Tick, SetBack, vars, heap
<1> QED BY <1>1, <1>2, <1>3, <1>4, <1>5, <1>6 DEF Next, Step

(* A callback that cancel() or the expiry of a one-shot timer has removed  *)
(* never comes back: no operation sets m_cb of an existing timer.          *)
LEMMA NextSpent == TypeOK /\ SpentHasNoCb /\ [Next]_vars => SpentHasNoCb'
<1> SUFFICES ASSUME TypeOK, SpentHasNoCb, [Next]_vars PROVE SpentHasNoCb'
  OBVIOUS
<1> USE DEF SpentHasNoCb
<1>0. hasCb \subseteq made /\ m_timers \subseteq made
  BY DEF TypeOK
<1>1. ASSUME NEW t \in Threads, NewTimer(t) PROVE SpentHasNoCb'
  BY <1>1 DEF NewTimer, history
<1>2. ASSUME NEW t \in Threads, Cancel(t) PROVE SpentHasNoCb'
  <2>1. PICK x \in hasCb \cap handles :
          hasCb' = hasCb \ {x} /\ cancelled' = cancelled \cup {x}
    BY <1>2 DEF Cancel
  <2>2. made' = made /\ fired' = fired
    BY <1>2 DEF Cancel
  <2> QED BY <2>1, <2>2, <1>0
<1>3. ASSUME NEW t \in Threads, CollectFirst(t) PROVE SpentHasNoCb'
  <2>1. PICK x \in m_timers :
         /\ fired' = fired \cup ({x} \cap (hasCb \ Recurring))
         /\ x \in Recurring => hasCb' = hasCb
         /\ x \notin Recurring => hasCb' = hasCb \ {x}
    BY <1>3 DEF CollectFirst
  <2>2. made' = made /\ cancelled' = cancelled
    BY <1>3 DEF CollectFirst
  <2> QED BY <2>1, <2>2, <1>0
<1>4. ASSUME NEW t \in Threads,
             \/ InsertTimer(t) \/ Refresh(t) \/ ResetErase(t) \/ ResetCompute(t)
             \/ GetNextTimer(t) \/ ReadNow(t) \/ DetectClockRollover(t) \/ PassDone(t)
      PROVE  SpentHasNoCb'
  <2>1. hasCb' = hasCb /\ made' = made /\ cancelled' = cancelled /\ fired' = fired
    BY <1>4 DEF InsertTimer, Refresh, ResetErase, ResetCompute, GetNextTimer, ReadNow,
                DetectClockRollover, PassDone, heap, history
  <2> QED BY <2>1
<1>5. ASSUME Tick \/ SetBack \/ UNCHANGED vars PROVE SpentHasNoCb'
  BY <1>5 DEF Tick, SetBack, vars, heap, history
<1> QED BY <1>1, <1>2, <1>3, <1>4, <1>5 DEF Next, Step

(* A thread that inserts timer x still does after a step of another.       *)
LEMMA InFlightKept ==
    ASSUME NEW t \in Threads, NEW x,
           \A u \in Threads \ {t} : pc'[u] = pc[u] /\ arg'[u] = arg[u],
           InFlight(x),
           ~(pc[t] \in {"insert", "recompute"} /\ arg[t].timer = x)
    PROVE  InFlight(x)'
BY DEF InFlight

(* Without equal expiries no step loses a timer that has its callback.     *)
LEMMA NextNotLost ==
    TypeOK /\ OperandMade /\ NoTimerLost /\ [Next]_vars => NoTimerLost'
<1> SUFFICES ASSUME TypeOK, NoTimerLost, [Next]_vars, dropped' = {}
             PROVE  (\A x \in hasCb : x \in m_timers \/ InFlight(x))'
  BY DEF NoTimerLost
<1> DEFINE Kept == \A x \in hasCb : x \in m_timers \/ InFlight(x)
<1>0. /\ pc \in [Threads -> {"ready", "insert", "recompute", "lock", "pass"}]
      /\ arg \in [Threads -> Args]
  BY DEF TypeOK, Args
<1>1. ASSUME NEW t \in Threads, NewTimer(t) PROVE Kept'
  <2>1. PICK x0 \in Timers \ made :
          /\ hasCb' = hasCb \cup {x0}
          /\ arg' = [arg EXCEPT ![t] = [NoArg EXCEPT !.timer = x0]]
    BY <1>1 DEF NewTimer
  <2>2. [NoArg EXCEPT !.timer = x0].timer = x0
    BY DEF NoArg
  <2>3. /\ arg'[t].timer = x0 /\ pc'[t] = "insert" /\ pc[t] = "ready"
        /\ \A u \in Threads \ {t} : pc'[u] = pc[u] /\ arg'[u] = arg[u]
    BY <2>1, <2>2, <1>0, <1>1 DEF NewTimer, Goto
  <2>4. InFlight(x0)'
    BY <2>3 DEF InFlight
  <2>5. Kept /\ m_timers' = m_timers
    BY <1>1 DEF NewTimer, history, NoTimerLost
  <2> QED BY <2>1, <2>3, <2>4, <2>5, InFlightKept
<1>2. ASSUME NEW t \in Threads, InsertTimer(t) PROVE Kept'
  <2>1. m_timers' = m_timers \cup {arg[t].timer} /\ Kept
    BY <1>2 DEF InsertTimer, NoTimerLost
  <2>2. /\ hasCb' = hasCb
        /\ \A u \in Threads \ {t} : pc'[u] = pc[u] /\ arg'[u] = arg[u]
    BY <1>0, <1>2 DEF InsertTimer, Goto
  <2>3. ASSUME NEW x \in hasCb, x # arg[t].timer, InFlight(x) PROVE InFlight(x)'
    BY <2>2, <2>3, InFlightKept
  <2> QED BY <2>1, <2>2, <2>3
<1>3. ASSUME NEW t \in Threads, Cancel(t) PROVE Kept'
  <2>1. PICK x0 \in hasCb \cap handles :
         /\ hasCb' = hasCb \ {x0}
         /\ \/ m_timers' = m_timers /\ dropped' = dropped
            \/ \E y \in Find(x0) :
                 /\ m_timers' = m_timers \ {y}
                 /\ dropped' = dropped \cup ({y} \ {x0})
    BY <1>3 DEF Cancel
  <2>2. m_timers \ {x0} \subseteq m_timers' /\ dropped = {}
    BY <2>1
  <2>3. Kept /\ pc' = pc /\ arg' = arg
    BY <2>2, <1>3 DEF Cancel, NoTimerLost
  <2> QED BY <2>1, <2>2, <2>3 DEF InFlight
<1>4. ASSUME NEW t \in Threads, Refresh(t) PROVE Kept'
  <2>1. PICK x0 \in hasCb \cap handles : \E y \in Find(x0) :
         /\ m_timers' = Inserted(m_timers \ {y}, x0, now + m_ms[x0])
         /\ dropped' = dropped \cup ({y} \ {x0})
                         \cup (IF x0 \in m_timers' THEN {} ELSE {x0})
    BY <1>4 DEF Refresh
  <2>2. /\ m_timers' = Inserted(m_timers \ {x0}, x0, now + m_ms[x0])
        /\ x0 \in m_timers' /\ dropped = {}
    BY <2>1
  <2>3. m_timers \subseteq m_timers'
    BY <2>2, InsertedFacts
  <2>4. Kept /\ pc' = pc /\ arg' = arg /\ hasCb' = hasCb
    BY <2>2, <1>4 DEF Refresh, NoTimerLost
  <2> QED BY <2>3, <2>4 DEF InFlight
<1>5. ASSUME NEW t \in Threads, ResetErase(t) PROVE Kept'
  <2>1. PICK x0 \in hasCb \cap handles, ms \in Periods, fromNow \in BOOLEAN :
         /\ \E y \in Find(x0) :
              /\ m_timers' = m_timers \ {y}
              /\ dropped' = dropped \cup ({y} \ {x0})
         /\ arg' = [arg EXCEPT ![t] =
                      [NoArg EXCEPT !.timer = x0, !.ms = ms, !.fromNow = fromNow]]
    BY <1>5 DEF ResetErase
  <2>2. [NoArg EXCEPT !.timer = x0, !.ms = ms, !.fromNow = fromNow].timer = x0
    BY DEF NoArg
  <2>3. m_timers' = m_timers \ {x0} /\ dropped = {}
    BY <2>1
  <2>4. /\ arg'[t].timer = x0 /\ pc'[t] = "recompute" /\ pc[t] = "ready"
        /\ \A u \in Threads \ {t} : pc'[u] = pc[u] /\ arg'[u] = arg[u]
    BY <2>1, <2>2, <1>0, <1>5 DEF ResetErase, Goto
  <2>5. InFlight(x0)'
    BY <2>4 DEF InFlight
  <2>6. Kept /\ hasCb' = hasCb
    BY <2>3, <1>5 DEF ResetErase, NoTimerLost
  <2> QED BY <2>3, <2>4, <2>5, <2>6, InFlightKept
<1>6. ASSUME NEW t \in Threads, ResetCompute(t) PROVE Kept'
  <2>1. /\ Kept /\ hasCb' = hasCb /\ m_timers' = m_timers /\ arg' = arg
        /\ pc'[t] = "insert" /\ \A u \in Threads \ {t} : pc'[u] = pc[u]
    BY <1>0, <1>6 DEF ResetCompute, Goto, history, NoTimerLost
  <2> QED BY <2>1 DEF InFlight
<1>7. ASSUME NEW t \in Threads, CollectFirst(t) PROVE Kept'
  <2>1. PICK x0 \in m_timers :
         \/ /\ m_timers' = Inserted(m_timers \ {x0}, x0, arg[t].now + m_ms[x0])
            /\ dropped' = IF x0 \in m_timers' THEN dropped ELSE dropped \cup {x0}
            /\ hasCb' = hasCb
         \/ /\ m_timers' = m_timers \ {x0}
            /\ hasCb' = hasCb \ {x0}
            /\ dropped' = dropped
    BY <1>7 DEF CollectFirst
  <2>2. dropped = {} /\ hasCb' \subseteq hasCb /\ (x0 \in hasCb' => x0 \in m_timers')
    BY <2>1
  <2>3. m_timers \ {x0} \subseteq m_timers'
    BY <2>1, InsertedFacts
  <2>4. Kept /\ pc' = pc /\ arg' = arg
    BY <2>2, <1>7 DEF CollectFirst, NoTimerLost
  <2> QED BY <2>2, <2>3, <2>4 DEF InFlight
<1>8. ASSUME NEW t \in Threads,
             GetNextTimer(t) \/ ReadNow(t) \/ DetectClockRollover(t) \/ PassDone(t)
      PROVE  Kept'
  <2>1. /\ Kept /\ hasCb' = hasCb /\ m_timers' = m_timers
        /\ pc[t] \in {"ready", "lock", "pass"}
        /\ \A u \in Threads \ {t} : pc'[u] = pc[u] /\ arg'[u] = arg[u]
    BY <1>0, <1>8 DEF GetNextTimer, ReadNow, DetectClockRollover, PassDone, Goto,
                      heap, history, NoTimerLost
  <2> QED BY <2>1, InFlightKept
<1>9. ASSUME Tick \/ SetBack \/ UNCHANGED vars PROVE Kept'
  <2>1. /\ Kept /\ hasCb' = hasCb /\ m_timers' = m_timers /\ pc' = pc /\ arg' = arg
    BY <1>9 DEF Tick, SetBack, vars, heap, history, NoTimerLost
  <2> QED BY <2>1 DEF InFlight
<1> QED
  BY <1>1, <1>2, <1>3, <1>4, <1>5, <1>6, <1>7, <1>8, <1>9 DEF Next, Step

(* The inductive invariant is preserved by every step and by stuttering.   *)
LEMMA NextInv == IInv /\ [Next]_vars => IInv'
BY NextType, NextOperand, NextSpent, NextNotLost DEF IInv

(* The inductive invariant holds in every state the manager reaches.       *)
THEOREM Invariance == Spec => []IInv
BY InitInv, NextInv, PTL DEF Spec

(* The manager keeps its types, and only a thread in the loop of           *)
(* listExpiredCb holds the lock between steps.                             *)
THEOREM TypeCorrect == Spec => []TypeOK
<1>1. IInv => TypeOK
  BY DEF IInv
<1> QED BY Invariance, <1>1, PTL

(* Unless two timers had equal expiries, a timer that still has its        *)
(* callback is in the heap or on its way into it.                          *)
THEOREM NothingLost == Spec => []NoTimerLost
<1>1. IInv => NoTimerLost
  BY DEF IInv
<1> QED BY Invariance, <1>1, PTL

(* What a step collects is the callback of a timer that still has one.     *)
LEMMA CollectedHasCb == TypeOK /\ [Next]_vars => Collected \subseteq hasCb
<1> SUFFICES ASSUME TypeOK, [Next]_vars, NEW t \in Threads
             PROVE  cbs'[t] \ cbs[t] \subseteq hasCb
  BY DEF Collected
<1>0. cbs \in [Threads -> SUBSET Timers]
  BY DEF TypeOK
<1>1. ASSUME NEW u \in Threads, CollectFirst(u) PROVE cbs'[t] \ cbs[t] \subseteq hasCb
  BY <1>0, <1>1 DEF CollectFirst
<1>2. ASSUME NEW u \in Threads, PassDone(u) PROVE cbs'[t] \ cbs[t] \subseteq hasCb
  BY <1>0, <1>2 DEF PassDone
<1>3. ASSUME \/ UNCHANGED cbs
             \/ Tick \/ SetBack \/ UNCHANGED vars
             \/ \E u \in Threads :
                  \/ NewTimer(u) \/ InsertTimer(u) \/ Cancel(u) \/ Refresh(u)
                  \/ ResetErase(u) \/ ResetCompute(u) \/ GetNextTimer(u)
                  \/ ReadNow(u) \/ DetectClockRollover(u)
      PROVE  cbs'[t] \ cbs[t] \subseteq hasCb
  <2>1. cbs' = cbs
    BY <1>3 DEF Tick, SetBack, vars, NewTimer, InsertTimer, Cancel, Refresh, ResetErase,
                ResetCompute, GetNextTimer, ReadNow, DetectClockRollover
  <2> QED BY <2>1
<1> QED BY <1>1, <1>2, <1>3 DEF Next, Step

(* A cancelled timer's callback is never collected, for any interleaving   *)
(* of cancel(), refresh(), reset() and expiry and any change of the clock. *)
THEOREM CancelIsFinal == Spec => CancelledNeverFires
<1>1. IInv /\ [Next]_vars => [Collected \cap cancelled = {}]_vars
  BY CollectedHasCb DEF IInv, SpentHasNoCb
<1> QED BY Invariance, <1>1, PTL DEF Spec, CancelledNeverFires

(* A one-shot timer's callback is collected at most once.                  *)
THEOREM OneShot == Spec => OneShotFiresOnce
<1>1. IInv /\ [Next]_vars => [Collected \cap fired = {}]_vars
  BY CollectedHasCb DEF IInv, SpentHasNoCb
<1> QED BY Invariance, <1>1, PTL DEF Spec, OneShotFiresOnce
-----------------------------------------------------------------------------
(* No idle thread is left waiting for a later expiry                       *)

(* A timer's m_next is its m_ms after some moment of the clock, a moment   *)
(* of the past unless the clock was set back.                              *)
StartPast ==
    \A x \in Timers : /\ m_next[x] >= m_ms[x]
                      /\ backs = 0 => m_next[x] - m_ms[x] <= now

(* While the clock only moves forward the times that were read are past,   *)
(* and no pass has detected a rollover.                                    *)
ClockForward ==
    backs = 0 =>
        /\ m_previouseTime <= now
        /\ \A t \in Threads : arg[t].now <= now /\ arg[t].rollover = FALSE

(* A timer that a thread is about to insert is in nobody else's hands: it  *)
(* is not in the heap and no other thread inserts it.                      *)
Inserting(t) == pc[t] \in {"insert", "recompute"}
InsertedByOne ==
    dropped = {} =>
        \A t \in Threads : Inserting(t) =>
            /\ arg[t].timer \notin m_timers
            /\ \A u \in Threads : Inserting(u) /\ arg[u].timer = arg[t].timer => u = t

(* The inductive invariant of EarlierTimerAnnounced.                       *)
FrontInv == IInv /\ StartPast /\ ClockForward /\ InsertedByOne /\ EarlierTimerAnnounced

(* The operands the operations start from.                                 *)
LEMMA OperandFields ==
    ASSUME NEW x, NEW ms, NEW b, NEW n
    PROVE  /\ NoArg.now = 0 /\ NoArg.rollover = FALSE
           /\ [NoArg EXCEPT !.timer = x].timer = x
           /\ [NoArg EXCEPT !.timer = x].now = 0
           /\ [NoArg EXCEPT !.timer = x].rollover = FALSE
           /\ [NoArg EXCEPT !.timer = x, !.ms = ms, !.fromNow = b].timer = x
           /\ [NoArg EXCEPT !.timer = x, !.ms = ms, !.fromNow = b].now = 0
           /\ [NoArg EXCEPT !.timer = x, !.ms = ms, !.fromNow = b].rollover = FALSE
           /\ [NoArg EXCEPT !.now = n].now = n
           /\ [NoArg EXCEPT !.now = n].rollover = FALSE
BY DEF NoArg

(* Every new expiry is a period after a moment of the past.                *)
LEMMA NextStart ==
    TypeOK /\ OperandMade /\ StartPast /\ ClockForward /\ [Next]_vars => StartPast'
<1> SUFFICES ASSUME TypeOK, OperandMade, StartPast, ClockForward, [Next]_vars
             PROVE  StartPast'
  OBVIOUS
<1>0. /\ m_next \in [Timers -> Int] /\ m_ms \in [Timers -> Nat] /\ now \in Nat
      /\ arg \in [Threads -> Args] /\ backs \in Nat
      /\ m_timers \subseteq Timers /\ hasCb \subseteq Timers
  BY DEF TypeOK, Args
<1>1. ASSUME NEW x \in Timers, NEW ms \in Nat, NEW start \in Nat,
             m_next' = [m_next EXCEPT ![x] = start + ms],
             m_ms' = [m_ms EXCEPT ![x] = ms],
             backs' = 0 => start <= now, UNCHANGED time
      PROVE  StartPast'
  <2>1. SUFFICES ASSUME NEW y \in Timers
                 PROVE  /\ m_next'[y] >= m_ms'[y]
                        /\ backs' = 0 => m_next'[y] - m_ms'[y] <= now'
    BY DEF StartPast
  <2>2. CASE y = x
    <3>1. m_next'[y] = start + ms /\ m_ms'[y] = ms
      BY <1>0, <1>1, <2>2
    <3> QED BY <3>1, <1>0, <1>1 DEF time
  <2>3. CASE y # x
    <3>1. m_next'[y] = m_next[y] /\ m_ms'[y] = m_ms[y]
      BY <1>0, <1>1, <2>3
    <3> QED BY <3>1, <1>0, <1>1 DEF time, StartPast
  <2> QED BY <2>2, <2>3
<1>2. ASSUME NEW x \in Timers, NEW start \in Nat,
             m_next' = [m_next EXCEPT ![x] = start + m_ms[x]], m_ms' = m_ms,
             backs' = 0 => start <= now, UNCHANGED time
      PROVE  StartPast'
  <2>1. m_ms[x] \in Nat /\ m_ms' = [m_ms EXCEPT ![x] = m_ms[x]]
    BY <1>0, <1>2
  <2> QED BY <2>1, <1>1, <1>2
<1>3. ASSUME UNCHANGED <<m_next, m_ms>>,
             backs' = 0 => backs = 0 /\ now' >= now, now' \in Nat
      PROVE  StartPast'
  BY <1>0, <1>3 DEF StartPast
<1>4. ASSUME NEW t \in Threads, NewTimer(t) PROVE StartPast'
  <2>1. PICK x \in Timers \ made, ms \in Periods :
          /\ m_ms' = [m_ms EXCEPT ![x] = ms]
          /\ m_next' = [m_next EXCEPT ![x] = now + ms]
    BY <1>4 DEF NewTimer
  <2>2. ms \in Nat /\ UNCHANGED time /\ now <= now
    BY <1>0, <1>4, TimeAssumption DEF NewTimer
  <2> QED BY <1>0, <1>1, <2>1, <2>2
<1>5. ASSUME NEW t \in Threads, Refresh(t) PROVE StartPast'
  <2>1. PICK x \in hasCb \cap handles : m_next' = [m_next EXCEPT ![x] = now + m_ms[x]]
    BY <1>5 DEF Refresh
  <2>2. UNCHANGED time /\ m_ms' = m_ms /\ now <= now /\ x \in Timers
    BY <1>0, <1>5 DEF Refresh
  <2> QED BY <1>0, <1>2, <2>1, <2>2
<1>6. ASSUME NEW t \in Threads, ResetCompute(t) PROVE StartPast'
  <2> DEFINE x == arg[t].timer
             start == IF arg[t].fromNow THEN now ELSE m_next[x] - m_ms[x]
  <2>1. /\ m_ms' = [m_ms EXCEPT ![x] = arg[t].ms]
        /\ m_next' = [m_next EXCEPT ![x] = start + arg[t].ms]
        /\ UNCHANGED time
    BY <1>6 DEF ResetCompute
  <2>2. x \in Timers /\ arg[t].ms \in Nat
    BY <1>0, <1>6 DEF ResetCompute, OperandMade, Args, TypeOK
  <2>3. m_next[x] - m_ms[x] \in Nat /\ (backs = 0 => m_next[x] - m_ms[x] <= now)
    BY <1>0, <2>2 DEF StartPast
  <2>4. start \in Nat /\ (backs = 0 => start <= now)
    BY <1>0, <2>3
  <2>5. backs' = 0 => start <= now
    BY <2>1, <2>4 DEF time
  <2> HIDE DEF x, start
  <2> QED BY <1>1, <2>1, <2>2, <2>4, <2>5
<1>7. ASSUME NEW t \in Threads, CollectFirst(t) PROVE StartPast'
  <2>1. PICK x \in m_timers :
          \/ m_next' = [m_next EXCEPT ![x] = arg[t].now + m_ms[x]]
          \/ m_next' = m_next
    BY <1>7 DEF CollectFirst
  <2>2. UNCHANGED time /\ m_ms' = m_ms /\ arg[t].now \in Nat /\ x \in Timers
    BY <1>0, <1>7 DEF CollectFirst, Args
  <2>3. backs' = 0 => arg[t].now <= now
    BY <2>2 DEF ClockForward, time
  <2>4. CASE m_next' = [m_next EXCEPT ![x] = arg[t].now + m_ms[x]]
    BY <1>2, <2>2, <2>3, <2>4
  <2>5. CASE m_next' = m_next
    BY <1>0, <1>3, <2>2, <2>5 DEF time
  <2> QED BY <2>1, <2>4, <2>5
<1>8. ASSUME NEW t \in Threads,
             \/ InsertTimer(t) \/ Cancel(t) \/ ResetErase(t) \/ GetNextTimer(t)
             \/ ReadNow(t) \/ DetectClockRollover(t) \/ PassDone(t)
      PROVE  StartPast'
  <2>1. UNCHANGED <<m_next, m_ms, now, backs>>
    BY <1>8 DEF InsertTimer, Cancel, ResetErase, GetNextTimer, ReadNow,
                DetectClockRollover, PassDone, heap, time
  <2> QED BY <1>0, <1>3, <2>1
<1>9. CASE Tick
  BY <1>0, <1>3, <1>9 DEF Tick, heap
<1>10. CASE SetBack
  <2>1. backs' # 0 /\ now' \in Nat
    BY <1>0, <1>10 DEF SetBack
  <2> QED BY <1>3, <1>10, <2>1 DEF SetBack, heap
<1>11. CASE UNCHANGED vars
  BY <1>0, <1>3, <1>11 DEF vars, heap, time
<1> QED BY <1>4, <1>5, <1>6, <1>7, <1>8, <1>9, <1>10, <1>11 DEF Next, Step

(* A pass that starts while the clock only moved forward sees no rollover. *)
LEMMA NextForward == TypeOK /\ ClockForward /\ [Next]_vars => ClockForward'
<1> SUFFICES ASSUME TypeOK, ClockForward, [Next]_vars, backs' = 0
             PROVE  /\ m_previouseTime' <= now'
                    /\ \A t \in Threads : arg'[t].now <= now' /\ arg'[t].rollover = FALSE
  BY DEF ClockForward
<1>0. /\ now \in Nat /\ backs \in Nat /\ arg \in [Threads -> Args]
      /\ m_previouseTime \in Nat /\ Hour \in Nat
      /\ \A t \in Threads : arg[t].now \in Nat
  BY TimeAssumption DEF TypeOK, Args
<1>a. 0 \in Nat /\ 0 <= now /\ now <= now
  BY <1>0
<1>1. backs = 0 /\ now' \in Nat /\ now' >= now
  <2>1. CASE SetBack
    BY <1>0, <2>1 DEF SetBack
  <2>2. CASE Tick
    BY <1>0, <2>2 DEF Tick
  <2>3. CASE UNCHANGED time
    BY <1>0, <2>3 DEF time
  <2>4. ASSUME NEW t \in Threads, Step(t) PROVE UNCHANGED time
    BY <2>4 DEF Step, NewTimer, InsertTimer, Cancel, Refresh, ResetErase, ResetCompute,
         GetNextTimer, ReadNow, DetectClockRollover, CollectFirst, PassDone
  <2> QED BY <2>1, <2>2, <2>3, <2>4 DEF Next, vars
<1>2. /\ m_previouseTime <= now
      /\ \A t \in Threads : arg[t].now <= now /\ arg[t].rollover = FALSE
  BY <1>1 DEF ClockForward
<1>3. ASSUME UNCHANGED <<m_previouseTime, arg>>
      PROVE  /\ m_previouseTime' <= now'
             /\ \A t \in Threads : arg'[t].now <= now' /\ arg'[t].rollover = FALSE
  BY <1>0, <1>1, <1>2, <1>3
<1>4. ASSUME NEW t \in Threads, NEW a, m_previouseTime' = m_previouseTime,
             arg' = [arg EXCEPT ![t] = a],
             a.now \in Nat, a.now <= now, a.rollover = FALSE
      PROVE  /\ m_previouseTime' <= now'
             /\ \A u \in Threads : arg'[u].now <= now' /\ arg'[u].rollover = FALSE
  <2>1. ASSUME NEW u \in Threads PROVE arg'[u].now <= now' /\ arg'[u].rollover = FALSE
    <3>1. arg'[u] = IF u = t THEN a ELSE arg[u]
      BY <1>0, <1>4
    <3> QED BY <3>1, <1>0, <1>1, <1>2, <1>4
  <2> QED BY <2>1, <1>0, <1>1, <1>2, <1>4
<1>5. ASSUME NEW t \in Threads, NewTimer(t)
      PROVE  /\ m_previouseTime' <= now'
             /\ \A u \in Threads : arg'[u].now <= now' /\ arg'[u].rollover = FALSE
  <2>1. PICK x \in Timers : arg' = [arg EXCEPT ![t] = [NoArg EXCEPT !.timer = x]]
    BY <1>5 DEF NewTimer
  <2>2. m_previouseTime' = m_previouseTime
    BY <1>5 DEF NewTimer, flags
  <2>3. [NoArg EXCEPT !.timer = x].now = 0 /\ [NoArg EXCEPT !.timer = x].rollover = FALSE
    BY OperandFields
  <2> QED BY <1>a, <1>4, <2>1, <2>2, <2>3, Zenon
<1>6. ASSUME NEW t \in Threads, ResetErase(t)
      PROVE  /\ m_previouseTime' <= now'
             /\ \A u \in Threads : arg'[u].now <= now' /\ arg'[u].rollover = FALSE
  <2>1. PICK x \in hasCb \cap handles, ms \in Periods, b \in BOOLEAN :
          arg' = [arg EXCEPT ![t] = [NoArg EXCEPT !.timer = x, !.ms = ms, !.fromNow = b]]
    BY <1>6 DEF ResetErase
  <2>2. m_previouseTime' = m_previouseTime
    BY <1>6 DEF ResetErase, flags
  <2>3. /\ [NoArg EXCEPT !.timer = x, !.ms = ms, !.fromNow = b].now = 0
        /\ [NoArg EXCEPT !.timer = x, !.ms = ms, !.fromNow = b].rollover = FALSE
    BY DEF NoArg
  <2> QED BY <1>a, <1>4, <2>1, <2>2, <2>3, Zenon
<1>7. ASSUME NEW t \in Threads, InsertTimer(t) \/ PassDone(t)
      PROVE  /\ m_previouseTime' <= now'
             /\ \A u \in Threads : arg'[u].now <= now' /\ arg'[u].rollover = FALSE
  <2>1. arg' = [arg EXCEPT ![t] = NoArg] /\ m_previouseTime' = m_previouseTime
    BY <1>7 DEF InsertTimer, PassDone
  <2>2. NoArg.now = 0 /\ NoArg.rollover = FALSE
    BY OperandFields
  <2> QED BY <1>a, <1>4, <2>1, <2>2, Zenon
<1>8. ASSUME NEW t \in Threads, ReadNow(t)
      PROVE  /\ m_previouseTime' <= now'
             /\ \A u \in Threads : arg'[u].now <= now' /\ arg'[u].rollover = FALSE
  <2>1. arg' = [arg EXCEPT ![t] = [NoArg EXCEPT !.now = now]]
        /\ m_previouseTime' = m_previouseTime
    BY <1>8 DEF ReadNow, flags
  <2>2. [NoArg EXCEPT !.now = now].now = now /\ [NoArg EXCEPT !.now = now].rollover = FALSE
    BY OperandFields
  <2> QED BY <1>0, <1>a, <1>4, <2>1, <2>2, Zenon
<1>9. ASSUME NEW t \in Threads, DetectClockRollover(t)
      PROVE  /\ m_previouseTime' <= now'
             /\ \A u \in Threads : arg'[u].now <= now' /\ arg'[u].rollover = FALSE
  <2>1. (now < m_previouseTime - Hour) = FALSE
    BY <1>0, <1>2
  <2>2. /\ arg' = [arg EXCEPT ![t].rollover = FALSE] /\ m_previouseTime' = now
        /\ UNCHANGED time
    BY <1>9, <2>1, Zenon DEF DetectClockRollover
  <2>3. ASSUME NEW u \in Threads PROVE arg'[u].now = arg[u].now /\ arg'[u].rollover = FALSE
    <3>1. CASE u # t
      BY <1>0, <1>2, <2>2, <3>1
    <3>2. CASE u = t
      BY <1>0, <2>2, <3>2 DEF Args
    <3> QED BY <3>1, <3>2
  <2> QED BY <1>0, <1>2, <2>2, <2>3 DEF time
<1>10. ASSUME NEW t \in Threads,
              \/ Cancel(t) \/ Refresh(t) \/ ResetCompute(t) \/ GetNextTimer(t) \/ CollectFirst(t)
       PROVE  UNCHANGED <<m_previouseTime, arg>>
  BY <1>10 DEF Cancel, Refresh, ResetCompute, GetNextTimer, CollectFirst, flags
<1>11. ASSUME Tick \/ SetBack \/ UNCHANGED vars PROVE UNCHANGED <<m_previouseTime, arg>>
  BY <1>11 DEF Tick, SetBack, vars, flags
<1> QED BY <1>3, <1>5, <1>6, <1>7, <1>8, <1>9, <1>10, <1>11 DEF Next, Step

(* A timer about to be inserted stays out of the heap until then.          *)
LEMMA NextInserting == TypeOK /\ OperandMade /\ InsertedByOne /\ [Next]_vars => InsertedByOne'
<1> SUFFICES ASSUME TypeOK, OperandMade, InsertedByOne, [Next]_vars, dropped' = {}
             PROVE  \A t \in Threads : Inserting(t)' =>
                       /\ arg'[t].timer \notin m_timers'
                       /\ \A u \in Threads :
                            Inserting(u)' /\ arg'[u].timer = arg'[t].timer => u = t
  BY DEF InsertedByOne
<1> DEFINE Alone(p, a, h) ==
              \A t \in Threads : p[t] \in {"insert", "recompute"} =>
                 /\ a[t].timer \notin h
                 /\ \A u \in Threads :
                      p[u] \in {"insert", "recompute"} /\ a[u].timer = a[t].timer => u = t
<1>a. SUFFICES Alone(pc', arg', m_timers')
  BY DEF Inserting
<1>b. dropped = {} => Alone(pc, arg, m_timers)
  BY DEF InsertedByOne, Inserting
<1> HIDE DEF Alone
<1>0. /\ pc \in [Threads -> {"ready", "insert", "recompute", "lock", "pass"}]
      /\ arg \in [Threads -> Args] /\ m_timers \subseteq made
  BY DEF TypeOK, Args
<1>1. ASSUME dropped = {}, m_timers' \subseteq m_timers, NEW t \in Threads,
             \A u \in Threads \ {t} : pc'[u] = pc[u] /\ arg'[u].timer = arg[u].timer,
             pc'[t] \in {"insert", "recompute"} =>
                 pc[t] \in {"insert", "recompute"} /\ arg'[t].timer = arg[t].timer
      PROVE  Alone(pc', arg', m_timers')
  BY <1>b, <1>1 DEF Alone
<1>2. ASSUME dropped = {}, m_timers' \subseteq m_timers, NEW t \in Threads,
             \A u \in Threads \ {t} : pc'[u] = pc[u] /\ arg'[u] = arg[u],
             NEW x, arg'[t].timer = x, x \notin m_timers',
             \A u \in Threads : pc[u] \in {"insert", "recompute"} => arg[u].timer # x
      PROVE  Alone(pc', arg', m_timers')
  BY <1>b, <1>2 DEF Alone
<1>3. ASSUME NEW t \in Threads, NewTimer(t) PROVE Alone(pc', arg', m_timers')
  <2>1. PICK x \in Timers \ made : arg' = [arg EXCEPT ![t] = [NoArg EXCEPT !.timer = x]]
    BY <1>3 DEF NewTimer
  <2>2. [NoArg EXCEPT !.timer = x].timer = x
    BY OperandFields
  <2>3. /\ arg'[t].timer = x
        /\ \A u \in Threads \ {t} : pc'[u] = pc[u] /\ arg'[u] = arg[u]
    BY <2>1, <2>2, <1>0, <1>3 DEF NewTimer, Goto
  <2>4. m_timers' = m_timers /\ dropped = {} /\ x \notin m_timers
    BY <1>0, <1>3 DEF NewTimer, history
  <2>5. \A u \in Threads : pc[u] \in {"insert", "recompute"} => arg[u].timer # x
    BY DEF OperandMade
  <2> QED BY <1>2, <2>3, <2>4, <2>5
<1>4. ASSUME NEW t \in Threads, InsertTimer(t) PROVE Alone(pc', arg', m_timers')
  <2>1. /\ m_timers' = m_timers \cup {arg[t].timer} /\ dropped = {} /\ pc[t] = "insert"
    BY <1>4 DEF InsertTimer
  <2>2. /\ pc'[t] = "ready"
        /\ \A u \in Threads \ {t} : pc'[u] = pc[u] /\ arg'[u] = arg[u]
    BY <1>0, <1>4 DEF InsertTimer, Goto
  <2> QED BY <1>b, <2>1, <2>2 DEF Alone
<1>5. ASSUME NEW t \in Threads, Cancel(t) PROVE Alone(pc', arg', m_timers')
  <2>1. m_timers' \subseteq m_timers /\ dropped = {} /\ pc' = pc /\ arg' = arg
    BY <1>5 DEF Cancel
  <2> QED BY <1>1, <2>1
<1>6. ASSUME NEW t \in Threads, Refresh(t) PROVE Alone(pc', arg', m_timers')
  <2>1. PICK x \in hasCb \cap handles : \E y \in Find(x) :
         /\ m_timers' = Inserted(m_timers \ {y}, x, now + m_ms[x])
         /\ dropped' = dropped \cup ({y} \ {x})
                         \cup (IF x \in m_timers' THEN {} ELSE {x})
    BY <1>6 DEF Refresh
  <2>2. PICK y \in Find(x) :
         /\ m_timers' = Inserted(m_timers \ {y}, x, now + m_ms[x])
         /\ dropped' = dropped \cup ({y} \ {x})
                         \cup (IF x \in m_timers' THEN {} ELSE {x})
    BY <2>1
  <2>3. dropped = {} /\ y = x /\ x \in m_timers
    BY <2>2 DEF Find
  <2>4. m_timers' \subseteq m_timers
    BY <2>2, <2>3, InsertedFacts
  <2>5. pc' = pc /\ arg' = arg
    BY <1>6 DEF Refresh
  <2> QED BY <1>1, <2>3, <2>4, <2>5
<1>7. ASSUME NEW t \in Threads, ResetErase(t) PROVE Alone(pc', arg', m_timers')
  <2>1. PICK x \in hasCb \cap handles, ms \in Periods, b \in BOOLEAN :
         /\ \E y \in Find(x) :
              /\ m_timers' = m_timers \ {y}
              /\ dropped' = dropped \cup ({y} \ {x})
         /\ arg' = [arg EXCEPT ![t] = [NoArg EXCEPT !.timer = x, !.ms = ms, !.fromNow = b]]
    BY <1>7 DEF ResetErase
  <2>2. [NoArg EXCEPT !.timer = x, !.ms = ms, !.fromNow = b].timer = x
    BY OperandFields
  <2>3. m_timers' = m_timers \ {x} /\ dropped = {} /\ x \in m_timers
    BY <2>1 DEF Find
  <2>4. /\ arg'[t].timer = x
        /\ \A u \in Threads \ {t} : pc'[u] = pc[u] /\ arg'[u] = arg[u]
    BY <2>1, <2>2, <1>0, <1>7 DEF ResetErase, Goto
  <2>5. \A u \in Threads : pc[u] \in {"insert", "recompute"} => arg[u].timer # x
    BY <1>b, <2>3 DEF Alone
  <2> QED BY <1>2, <2>3, <2>4, <2>5
<1>8. ASSUME NEW t \in Threads, ResetCompute(t) PROVE Alone(pc', arg', m_timers')
  <2>1. /\ m_timers' = m_timers /\ dropped = {} /\ arg' = arg /\ pc[t] = "recompute"
        /\ \A u \in Threads \ {t} : pc'[u] = pc[u]
    BY <1>0, <1>8 DEF ResetCompute, Goto, history
  <2> QED BY <1>1, <2>1
<1>9. ASSUME NEW t \in Threads, CollectFirst(t) PROVE Alone(pc', arg', m_timers')
  <2>1. PICK x \in m_timers :
         \/ /\ m_timers' = Inserted(m_timers \ {x}, x, arg[t].now + m_ms[x])
            /\ dropped' = IF x \in m_timers' THEN dropped ELSE dropped \cup {x}
         \/ /\ m_timers' = m_timers \ {x}
            /\ dropped' = dropped
    BY <1>9 DEF CollectFirst
  <2>2. dropped = {} /\ m_timers' \subseteq m_timers
    BY <2>1, InsertedFacts
  <2>3. pc' = pc /\ arg' = arg
    BY <1>9 DEF CollectFirst
  <2> QED BY <1>1, <2>2, <2>3
<1>10. ASSUME NEW t \in Threads,
              GetNextTimer(t) \/ ReadNow(t) \/ DetectClockRollover(t) \/ PassDone(t)
       PROVE  Alone(pc', arg', m_timers')
  <2>1. m_timers' = m_timers /\ dropped = {}
    BY <1>10 DEF GetNextTimer, ReadNow, DetectClockRollover, PassDone, heap, history
  <2>2. \A u \in Threads \ {t} : pc'[u] = pc[u] /\ arg'[u].timer = arg[u].timer
    BY <1>0, <1>10 DEF GetNextTimer, ReadNow, DetectClockRollover, PassDone, Goto
  <2>3. pc'[t] \notin {"insert", "recompute"}
    BY <1>0, <1>10 DEF GetNextTimer, ReadNow, DetectClockRollover, PassDone, Goto
  <2> QED BY <1>1, <2>1, <2>2, <2>3
<1>11. ASSUME Tick \/ SetBack \/ UNCHANGED vars PROVE Alone(pc', arg', m_timers')
  <2>1. m_timers' = m_timers /\ dropped = {} /\ pc' = pc /\ arg' = arg
    BY <1>11 DEF Tick, SetBack, vars, heap, history
  <2> QED BY <1>b, <2>1
<1> QED
  BY <1>3, <1>4, <1>5, <1>6, <1>7, <1>8, <1>9, <1>10, <1>11 DEF Next, Step

(* An insert at the front sets m_tickled, and an expiry that is computed   *)
(* anew while its timer is in the heap does not become earlier.            *)
LEMMA NextFront ==
    TypeOK /\ OperandMade /\ StartPast /\ ClockForward /\ InsertedByOne
        /\ EarlierTimerAnnounced /\ [Next]_vars => EarlierTimerAnnounced'
<1> SUFFICES ASSUME TypeOK, OperandMade, StartPast, ClockForward, InsertedByOne,
                    EarlierTimerAnnounced, [Next]_vars,
                    backs' = 0, dropped' = {}, ~m_tickled'
             PROVE  \A x \in m_timers' : known' # Never /\ known' <= m_next'[x]
  BY DEF EarlierTimerAnnounced
<1> DEFINE Announced == \A x \in m_timers : known # Never /\ known <= m_next[x]
<1>0. /\ m_next \in [Timers -> Int] /\ m_ms \in [Timers -> Nat] /\ now \in Nat
      /\ arg \in [Threads -> Args] /\ m_timers \subseteq Timers /\ known \in Int
      /\ m_timers \subseteq made
  BY DEF TypeOK, Args
<1>1. ASSUME backs = 0, dropped = {}, ~m_tickled PROVE Announced
  BY <1>1 DEF EarlierTimerAnnounced
<1>2. ASSUME Announced, known' = known, m_timers' \subseteq m_timers,
             \A x \in m_timers' : m_next'[x] \in Int /\ m_next'[x] >= m_next[x]
      PROVE  Announced'
  <2>1. SUFFICES ASSUME NEW x \in m_timers' PROVE known # Never /\ known <= m_next'[x]
    BY <1>2
  <2>2. /\ known # Never /\ known <= m_next[x] /\ m_next[x] \in Int
        /\ m_next'[x] \in Int /\ m_next'[x] >= m_next[x]
    BY <1>0, <1>2
  <2> QED BY <2>2, <1>0
<1>3. ASSUME NEW t \in Threads, NewTimer(t) PROVE Announced'
  <2>1. PICK x \in Timers \ made, ms \in Periods : m_next' = [m_next EXCEPT ![x] = now + ms]
    BY <1>3 DEF NewTimer
  <2>2. UNCHANGED <<m_timers, known, m_tickled, backs, dropped>>
    BY <1>3 DEF NewTimer, flags, history, time
  <2>3. \A y \in m_timers : m_next'[y] = m_next[y]
    BY <1>0, <2>1
  <2> QED BY <1>0, <1>1, <2>2, <2>3
<1>4. ASSUME NEW t \in Threads, InsertTimer(t) PROVE Announced'
  <2> DEFINE x == arg[t].timer
             atFront == \A y \in m_timers : m_next[x] <= m_next[y]
  <2>1. /\ m_timers' = m_timers \cup {x} /\ dropped = {} /\ backs = 0 /\ m_next' = m_next
        /\ ~m_tickled /\ ~atFront /\ known' = known
    BY <1>4 DEF InsertTimer, time
  <2>2. PICK y \in m_timers : ~(m_next[x] <= m_next[y])
    BY <2>1
  <2>3. x \in Timers
    BY <1>4 DEF InsertTimer, OperandMade, TypeOK
  <2>4. /\ Announced /\ m_next[x] \in Int /\ m_next[y] \in Int
    BY <1>0, <1>1, <2>1, <2>3
  <2> HIDE DEF x
  <2>5. known # Never /\ known <= m_next[x]
    BY <1>0, <2>2, <2>4
  <2> QED BY <2>1, <2>4, <2>5
<1>5. ASSUME NEW t \in Threads, Cancel(t) \/ ResetErase(t) PROVE Announced'
  <2>1. /\ m_timers' \subseteq m_timers /\ dropped = {}
        /\ UNCHANGED <<m_next, known, m_tickled, backs>>
    BY <1>5 DEF Cancel, ResetErase, flags, time
  <2> QED BY <1>1, <2>1
<1>6. ASSUME NEW t \in Threads, Refresh(t) PROVE Announced'
  <2>1. PICK x \in hasCb \cap handles : \E y \in Find(x) :
         /\ m_next' = [m_next EXCEPT ![x] = now + m_ms[x]]
         /\ m_timers' = Inserted(m_timers \ {y}, x, now + m_ms[x])
         /\ dropped' = dropped \cup ({y} \ {x})
                         \cup (IF x \in m_timers' THEN {} ELSE {x})
    BY <1>6 DEF Refresh
  <2>2. PICK y \in Find(x) :
         /\ m_next' = [m_next EXCEPT ![x] = now + m_ms[x]]
         /\ m_timers' = Inserted(m_timers \ {y}, x, now + m_ms[x])
         /\ dropped' = dropped \cup ({y} \ {x})
                         \cup (IF x \in m_timers' THEN {} ELSE {x})
    BY <2>1
  <2>3. dropped = {} /\ y = x /\ x \in m_timers
    BY <2>2 DEF Find
  <2>4. m_timers' \subseteq m_timers
    BY <2>2, <2>3, InsertedFacts
  <2>5. UNCHANGED <<known, m_tickled, backs>>
    BY <1>6 DEF Refresh, flags, time
  <2>6. ASSUME NEW z \in m_timers PROVE m_next'[z] \in Int /\ m_next'[z] >= m_next[z]
    <3>0. z \in Timers /\ m_next[z] \in Int /\ m_ms[z] \in Nat
      BY <1>0
    <3>1. CASE z = x
      <4>1. m_next'[z] = now + m_ms[z]
        BY <1>0, <2>2, <3>0, <3>1
      <4>2. m_next[z] - m_ms[z] <= now
        BY <2>5, <3>0 DEF StartPast
      <4> QED BY <1>0, <3>0, <4>1, <4>2
    <3>2. CASE z # x
      BY <1>0, <2>2, <3>0, <3>2
    <3> QED BY <3>1, <3>2
  <2>7. Announced
    BY <1>1, <2>3, <2>5
  <2> QED BY <1>2, <2>4, <2>5, <2>6, <2>7
<1>7. ASSUME NEW t \in Threads, ResetCompute(t) PROVE Announced'
  <2>1. /\ UNCHANGED <<m_timers, known, m_tickled, backs, dropped>> /\ pc[t] = "recompute"
        /\ \E n : m_next' = [m_next EXCEPT ![arg[t].timer] = n]
    BY <1>7 DEF ResetCompute, flags, history, time
  <2>2. arg[t].timer \notin m_timers
    BY <2>1 DEF InsertedByOne, Inserting
  <2>3. \A y \in m_timers : m_next'[y] = m_next[y]
    BY <1>0, <2>1, <2>2
  <2> QED BY <1>1, <2>1, <2>3
<1>8. ASSUME NEW t \in Threads, GetNextTimer(t) PROVE Announced'
  <2>1. \/ m_timers = {}
        \/ \E x \in m_timers : IsFirst(x, m_timers, m_next) /\ known' = m_next[x]
    BY <1>8 DEF GetNextTimer
  <2>2. m_timers' = m_timers /\ m_next' = m_next
    BY <1>8 DEF GetNextTimer, heap
  <2>3. ASSUME NEW x \in m_timers, IsFirst(x, m_timers, m_next), known' = m_next[x]
        PROVE  Announced'
    <3>1. m_next[x] \in Int /\ m_ms[x] \in Nat /\ m_next[x] >= m_ms[x]
      BY <1>0 DEF StartPast
    <3>2. known' # Never
      BY <2>3, <3>1 DEF Never
    <3> QED BY <2>2, <2>3, <3>2 DEF IsFirst
  <2> QED BY <2>1, <2>2, <2>3
<1>9. ASSUME NEW t \in Threads, CollectFirst(t) PROVE Announced'
  <2>1. PICK x \in m_timers :
         /\ Due(t, x)
         /\ \/ /\ m_next' = [m_next EXCEPT ![x] = arg[t].now + m_ms[x]]
               /\ m_timers' = Inserted(m_timers \ {x}, x, arg[t].now + m_ms[x])
               /\ dropped' = IF x \in m_timers' THEN dropped ELSE dropped \cup {x}
            \/ /\ m_timers' = m_timers \ {x}
               /\ UNCHANGED <<m_next, dropped>>
    BY <1>9 DEF CollectFirst
  <2>2. dropped = {} /\ m_timers' \subseteq m_timers
    BY <2>1, InsertedFacts
  <2>3. UNCHANGED <<known, m_tickled, backs>>
    BY <1>9 DEF CollectFirst, flags, time
  <2>4. arg[t].now \in Nat /\ m_next[x] <= arg[t].now
    <3>1. arg[t].rollover = FALSE
      BY <2>3 DEF ClockForward
    <3> QED BY <1>0, <2>1, <3>1 DEF Due, Args
  <2>5. ASSUME NEW z \in m_timers PROVE m_next'[z] \in Int /\ m_next'[z] >= m_next[z]
    <3>0. z \in Timers /\ m_next[z] \in Int /\ m_ms[z] \in Nat
      BY <1>0
    <3>1. CASE m_next' = [m_next EXCEPT ![x] = arg[t].now + m_ms[x]]
      <4>1. CASE z = x
        <5>1. m_next'[z] = arg[t].now + m_ms[z]
          BY <1>0, <3>0, <3>1, <4>1
        <5>2. m_next[z] <= arg[t].now
          BY <2>4, <4>1
        <5> QED BY <2>4, <3>0, <5>1, <5>2
      <4>2. CASE z # x
        BY <1>0, <3>0, <3>1, <4>2
      <4> QED BY <4>1, <4>2
    <3>2. CASE m_next' = m_next
      BY <3>0, <3>2
    <3> QED BY <2>1, <3>1, <3>2
  <2>6. Announced
    BY <1>1, <2>2, <2>3
  <2> QED BY <1>2, <2>2, <2>3, <2>5, <2>6
<1>10. ASSUME NEW t \in Threads, ReadNow(t) \/ DetectClockRollover(t) \/ PassDone(t)
       PROVE  Announced'
  <2>1. UNCHANGED <<m_timers, m_next, known, m_tickled, backs, dropped>>
    BY <1>10 DEF ReadNow, DetectClockRollover, PassDone, heap, flags, history, time
  <2> QED BY <1>1, <2>1
<1>11. ASSUME Tick \/ UNCHANGED vars PROVE Announced'
  <2>1. UNCHANGED <<m_timers, m_next, known, m_tickled, backs, dropped>>
    BY <1>11 DEF Tick, vars, heap, flags, history, time
  <2> QED BY <1>1, <2>1
<1>12. CASE SetBack
  <2>1. backs' # 0
    BY <1>12 DEF SetBack, TypeOK
  <2> QED BY <2>1
<1> QED
  BY <1>3, <1>4, <1>5, <1>6, <1>7, <1>8, <1>9, <1>10, <1>11, <1>12 DEF Next, Step

(* The inductive invariant holds in every state the manager reaches.       *)
THEOREM FrontInvariance == Spec => []FrontInv
<1>1. Init => FrontInv
  <2> SUFFICES ASSUME Init PROVE FrontInv
    OBVIOUS
  <2>1. StartPast /\ InsertedByOne /\ EarlierTimerAnnounced
    BY DEF Init, StartPast, InsertedByOne, Inserting, EarlierTimerAnnounced
  <2>2. ClockForward
    <3>1. NoArg.now = 0 /\ NoArg.rollover = FALSE
      BY OperandFields
    <3>2. m_previouseTime = 0 /\ now = 0 /\ \A t \in Threads : arg[t] = NoArg
      BY DEF Init
    <3>3. 0 <= 0
      OBVIOUS
    <3> QED BY <3>1, <3>2, <3>3, Zenon DEF ClockForward
  <2> QED BY InitInv, <2>1, <2>2 DEF FrontInv
<1>2. FrontInv /\ [Next]_vars => FrontInv'
  <2> SUFFICES ASSUME FrontInv, [Next]_vars PROVE FrontInv'
    OBVIOUS
  <2>1. IInv /\ StartPast /\ ClockForward /\ InsertedByOne /\ EarlierTimerAnnounced
    BY DEF FrontInv
  <2>2. TypeOK /\ OperandMade
    BY <2>1 DEF IInv
  <2> QED BY <2>1, <2>2, NextInv, NextStart, NextForward, NextInserting, NextFront DEF FrontInv
<1> QED BY <1>1, <1>2, PTL DEF Spec

(* While the clock only moves forward and no two timers had equal          *)
(* expiries, no timer in the heap is earlier than the expiry the last      *)
(* getNextTimer() saw unless m_tickled is set: whoever makes a timer the   *)
(* first calls onTimerInsertedAtFront(), and refresh(), which does not     *)
(* look, never has to.                                                     *)
THEOREM FrontIsAnnounced == Spec => []EarlierTimerAnnounced
<1>1. FrontInv => EarlierTimerAnnounced
  BY DEF FrontInv
<1> QED BY FrontInvariance, <1>1, PTL
=============================================================================
