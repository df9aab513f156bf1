\* Liveness: two workers, two fibers, no symmetry.
CONSTANTS
    Pool = {p1}
    Caller = c
    UseCaller = TRUE
    Fibers = {f1, f2}
    MaxWaits = 1
    NoThread = NoThread
    NoFiber = NoFiber
SPECIFICATION FairSpec
PROPERTIES WokenFiberRuns QueueDrains StopReturns
