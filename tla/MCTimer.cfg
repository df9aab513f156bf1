\* Two threads, a recurring and a one-shot timer; the clock is set back once.
CONSTANTS
    Threads = {a, b}
    Timers = {r1, s1}
    Recurring = {r1}
    Periods = {1, 2}
    Hour = 0
    MaxTime = 1
    MaxBacks = 1
    NoThread = NoThread
    NoTimer = NoTimer
SPECIFICATION Spec
SYMMETRY Symmetry
INVARIANTS TypeOK NoTimerLost EarlierTimerAnnounced
PROPERTIES CancelledNeverFires OneShotFiresOnce
