\* One fd beyond the initial table, three fibers, two idle threads.
CONSTANTS
    Fds = {2}
    Fibers = {f1, f2, f3}
    IdleThreads = {t1, t2}
    InitSize = 2
    MaxContexts = 1
    NoFiber = NoFiber
SPECIFICATION Spec
SYMMETRY Symmetry
INVARIANTS TypeOK PendingExact WaiterRegisteredOnce KernelMirrors NoLostEdge
