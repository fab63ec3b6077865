SPECIFICATION Spec
CONSTANTS
    States <- SmallStates
    Inputs <- SmallInputs
    Active <- Resetting
    ResetCycles = 1
    Circuits <- SmallCircuits
    Signals = {"state", "data"}
    Observe <- SmallObserve
    Requests <- SmallRequests
    Depth = 3
    Induction = 2
    MaxCycles = 6
    None = None
INVARIANTS
    Soundness
    CheckedThrough
    CounterexamplesReplay
CHECK_DEADLOCK FALSE
