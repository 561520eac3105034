\* Two calling tasks that pulse and release as they like.
CONSTANTS
    Callers = {a, b}
    Timer = timer
    NoTask = none
    Durations = {2}
    MaxHold = 2
    WatchdogTicks = 4
    PollTicks = 2
    LockTicks = 2
    Preempt = 1
    TickMod = 8
    StartTicks <- Zero
SPECIFICATION SafetySpec
INVARIANTS
    MutualExclusion
    HolderNeverRefused
    IdleMeansOff
SYMMETRY CallerSymmetry
