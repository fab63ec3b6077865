SPECIFICATION Spec
CONSTANTS
    N = 4
    MaxJobs = 3
INVARIANTS
    SameAsSerial
    NoUnsafeOverlap
    NothingLeftBehind
PROPERTIES
    CallEnds
