----------------------------- MODULE FiberLife ------------------------------
(***************************************************************************)
(* What the scheduler promises the code that runs in fibers: a fiber runs  *)
(* on one stack at a time, and once it waits it runs again only after a    *)
(* wake-up, which is used up by one run.  There are no threads, queues,    *)
(* timers or fds at this level; module Scheduler implements it.            *)
(***************************************************************************)
CONSTANT Fibers

VARIABLES
    life,   \* fiber -> "new", "ready", "running", "waiting" or "done"
    stack   \* fibers whose stack some thread is using

Init == life = [f \in Fibers |-> "new"] /\ stack = {}

Create(f) == life[f] = "new" /\ life' = [life EXCEPT ![f] = "ready"] /\ UNCHANGED stack

Run(f) ==
    /\ life[f] = "ready" /\ f \notin stack
    /\ life' = [life EXCEPT ![f] = "running"]
    /\ stack' = stack \cup {f}

(* The fiber has asked to be woken; it still has to leave its stack.       *)
Wait(f) == life[f] = "running" /\ life' = [life EXCEPT ![f] = "waiting"] /\ UNCHANGED stack

(* Fibers are woken, some of them before they have left their stacks.      *)
Wake(S) ==
    /\ \A f \in S : life[f] = "waiting"
    /\ life' = [f \in Fibers |-> IF f \in S THEN "ready" ELSE life[f]]
    /\ UNCHANGED stack

End(f) == life[f] = "running" /\ life' = [life EXCEPT ![f] = "done"] /\ UNCHANGED stack

Leave(f) ==
    /\ life[f] # "running" /\ f \in stack
    /\ stack' = stack \ {f}
    /\ UNCHANGED life

Next ==
    \/ \E f \in Fibers : Create(f) \/ Run(f) \/ Wait(f) \/ End(f) \/ Leave(f)
    \/ \E S \in SUBSET Fibers : Wake(S)

Spec == Init /\ [][Next]_<<life, stack>>
=============================================================================
