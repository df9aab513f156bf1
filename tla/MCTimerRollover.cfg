\* One recurring timer and a clock that is set back by more than Hour.
CONSTANTS
    Threads = {a}
    Timers = {r1}
    Recurring = {r1}
    Periods = {1}
    Hour = 1
    MaxTime = 3
    MaxBacks = 1
    NoThread = NoThread
    NoTimer = NoTimer
SPECIFICATION Spec
INVARIANT RolloverClearsAll
