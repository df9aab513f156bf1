\* Two workers race through stopping() while two fibers still suspend.
CONSTANTS
    Pool = {p1}
    Caller = c
    UseCaller = TRUE
    Fibers = {f1, f2}
    MaxWaits = 1
    NoThread = NoThread
    NoFiber = NoFiber
SPECIFICATION Spec
INVARIANT StopLosesNothing
