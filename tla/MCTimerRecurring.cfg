\* Two recurring timers of equal period, due in the same pass.
CONSTANTS
    Threads = {a}
    Timers = {r1, r2}
    Recurring = {r1, r2}
    Periods = {1}
    Hour = 1
    MaxTime = 3
    MaxBacks = 0
    NoThread = NoThread
    NoTimer = NoTimer
SPECIFICATION Spec
PROPERTY RecurringReturns
