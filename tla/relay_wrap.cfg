\* One calling task; the tick counter may wrap during a pulse: uptime near a
\* multiple of 2^32 ticks.
CONSTANTS
    Callers = {httpd}
    Timer = timer
    NoTask = none
    Durations = {3, 5}
    MaxHold = 5
    WatchdogTicks = 16
    PollTicks = 2
    LockTicks = 3
    Preempt = 1
    TickMod = 16
    StartTicks <- EveryTick
SPECIFICATION SafetySpec
INVARIANTS
    PulseRunsItsLength
