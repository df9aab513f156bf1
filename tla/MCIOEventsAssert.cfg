\* Three fibers and one idle thread: a reader, a writer and a canceller.
CONSTANTS
    Fds = {2}
    Fibers = {f1, f2, f3}
    IdleThreads = {t1}
    InitSize = 3
    MaxContexts = 1
    NoFiber = NoFiber
SPECIFICATION Spec
SYMMETRY Symmetry
INVARIANT TriggerAssert
