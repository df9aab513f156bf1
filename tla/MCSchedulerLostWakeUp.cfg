\* One pool thread; the caller pushes a task while the thread goes idle.
CONSTANTS
    Pool = {p1}
    Caller = c
    UseCaller = TRUE
    Fibers = {f1}
    MaxWaits = 1
    NoThread = NoThread
    NoFiber = NoFiber
SPECIFICATION Spec
INVARIANT QueuedTaskWakesAThread
