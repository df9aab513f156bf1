\* Two workers (one pool thread and the caller) and two fibers.
CONSTANTS
    Pool = {p1}
    Caller = c
    UseCaller = TRUE
    Fibers = {f1, f2}
    MaxWaits = 2
    NoThread = NoThread
    NoFiber = NoFiber
SPECIFICATION Spec
SYMMETRY Symmetry
INVARIANTS TypeOK FiberExclusion FiberAsserts OneWakeUp ThreadCountersExact PendingExact DestructorAssert
PROPERTIES TermIsFinal ImplementsFiberLife
