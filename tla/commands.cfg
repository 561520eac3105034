\* Two clients and all kinds of requests; delays only where tasks sleep.
CONSTANTS
    Clients = {c1, c2}
    Httpd = httpd
    Timer = timer
    NoTask = none
    NoClient = nobody
    Requests <- MCRequests
    DefaultPrefs <- MCDefaultPrefs
    Grace = 0
    MaxHold = 3
    WatchdogTicks = 6
    PollTicks = 1
    LockTicks = 1
    Preempt = 0
    TickMod = 32
    StartTicks <- Zero
SPECIFICATION Spec
INVARIANTS
    TypeOK
    ClosedOnRequest
    LockHonoured
    HoldAccepted
PROPERTIES
    RequestsAnswered
    ImplementsContract
