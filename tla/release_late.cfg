\* One client holds the power button for three ticks while another releases.
CONSTANTS
    Clients = {c1, c2}
    Httpd = httpd
    Timer = timer
    NoTask = none
    NoClient = nobody
    Requests <- PressAndRelease
    DefaultPrefs <- MCDefaultPrefs
    Grace = 1
    MaxHold = 3
    WatchdogTicks = 6
    PollTicks = 1
    LockTicks = 1
    Preempt = 0
    TickMod = 32
    StartTicks <- Zero
SPECIFICATION Spec
INVARIANTS
    ReleaseAnytime
