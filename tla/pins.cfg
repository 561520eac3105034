\* Moves of all kinds, restarts at every step.
CONSTANTS
    Pins = {4, 5, 6, 13, 19, 22}
    Allowed = {4, 5, 6, 13, 22}
    Exists = {4, 5, 6, 13, 19}
    Defaults <- MCDefaults
    Posted <- MCPosted
SPECIFICATION Spec
INVARIANTS
    TypeOK
    RestQuiet
    OneDriven
    ComesUpSound
    AppliedWhenOk
