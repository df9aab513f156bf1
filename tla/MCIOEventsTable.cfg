\* Two fds beyond the initial table; the smaller one's resize comes last.
CONSTANTS
    Fds = {2, 4}
    Fibers = {f1, f2}
    IdleThreads = {t1}
    InitSize = 2
    MaxContexts = 2
    NoFiber = NoFiber
SPECIFICATION Spec
SYMMETRY Symmetry
INVARIANT TableHoldsContexts
