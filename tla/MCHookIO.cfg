\* Two fibers, a client connection and a second fd number; numbers are reused.
CONSTANTS
    Fibers = {f1, f2}
    Fds = {d1, d2}
    Timers = {t1}
    IdleThreads = {w1}
    Clients = {d1}
    MaxCalls = 4
    NoFiber = NoFiber
    NoTimer = NoTimer
    NoCtx = NoCtx
SPECIFICATION Spec
SYMMETRY Symmetry
INVARIANTS TypeOK TimeoutIsReal NoStrayTimer WaiterWaits TimeoutReachesWaiter HookedCallNeverBlocks CtxMatchesKernel 
CHECK_DEADLOCK FALSE
