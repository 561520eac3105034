\* One network, which comes and goes; requests of all kinds.
CONSTANTS
    Networks = {home}
    NoSsid = none
    FailBeforeAp = 1
    MaxEvents = 1
SPECIFICATION Spec
INVARIANTS
    TypeOK
    ApFlagAgrees
PROPERTY
    Rejoins
