\* One calling task; a watchdog window that holds the short pulses and not the
\* long ones; calls before and after the wrap of the tick counter.
CONSTANTS
    Callers = {httpd}
    Timer = timer
    NoTask = none
    Durations = {0, 2, 5, 6}
    MaxHold = 5
    WatchdogTicks = 13
    PollTicks = 2
    LockTicks = 3
    Preempt = 1
    TickMod = 32
    StartTicks <- AroundTheWrap
SPECIFICATION TimingSpec
INVARIANTS
    TypeOK
    HeldWithinLimit
    WatchdogCovers
    UncutRunsItsLength
    PulseEndsOnTime
    WatchdogSpares
PROPERTIES
    CallReturns
    ImplementsContract
