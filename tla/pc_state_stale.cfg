\* Two pins: the sense is moved while the task samples.
CONSTANTS
    Pins = {6, 7}
    FirstPin = 6
    Needed = 3
    CountCap = 5
SPECIFICATION Spec
PROPERTIES
    CommitsSteady
