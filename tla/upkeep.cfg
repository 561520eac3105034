\* Updates between two builds, posts and imports, restarts at every step.
CONSTANTS
    Builds = {"keyed", "plain"}
    None = none
    Garbage = garbage
    Blank = blank
    Addresses = {"a", "b"}
    Malformed = "malformed"
    Dhcp = "dhcp"
    Stopped = "stopped"
    Keys = {"secret", "own"}
    NoKey = "nokey"
    Posted <- MCPosted
    Imported <- MCImported
    BuiltIn <- MCBuiltIn
SPECIFICATION Spec
INVARIANTS
    TypeOK
    UpdateRuns
    Addressed
    InForce
    Durable
    
PROPERTIES
    UpdateIsAtomic
    ComesUp
