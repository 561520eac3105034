\* A pin that is allowed but absent.
CONSTANTS
    Pins = {4, 5, 6, 13, 19, 22}
    Allowed = {4, 5, 6, 13, 22}
    Exists = {4, 5, 6, 13, 19}
    Defaults <- MCDefaults
    Posted <- AbsentPosted
SPECIFICATION Spec
INVARIANTS
    BootSucceeds
