SPECIFICATION Spec
CONSTANTS
    Deadline = 1
    OutputLimit = 1
    MaxReport = 2
    MaxNoise = 1
    None = None
    Killed = Killed
    Absent = Absent
    Partial = Partial
    Foreign = Foreign
INVARIANTS
    OnlyCompleteResults
    NothingSurvives
PROPERTIES
    NeverClobbers
    GuardEnds
