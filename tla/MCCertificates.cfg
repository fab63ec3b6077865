\* Operators over two cycles; four designs certified, verified and edited twice.
SPECIFICATION Spec
CONSTANTS
    None = None
    Projects <- SmallProjects
    Edits <- SmallEdits
    MaxEdits = 2
    Beyond = 3
INVARIANTS
    EncodingExact
    SmtAgrees
    ConeExact
    CertificateSound
    FreshVerifies
CHECK_DEADLOCK FALSE
