SPECIFICATION Spec
CONSTANTS
    Variables = 3
    InputCnfs <- ManyObligations
    ProofLines <- Lines
    MaxClauses = 7
    MaxLiterals = 14
    MaxSteps = 3
INVARIANTS
    TypeOK
    Soundness
    WatchesAgree
PROPERTIES
    ImplementsRupCheck
    Terminates
