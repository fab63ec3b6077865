SPECIFICATION Spec
CONSTANTS
    c1 = c1
    c2 = c2
    Clients = {c1, c2}
    Deployments <- SmallDeployments
    Sources = {"lib", "rtl"}
    Files = {"a", "b"}
    FilesOf <- SharedFiles
    Cacheable = {"lib", "rtl"}
    Backtick <- LateBacktick
    Size <- UnevenSizes
    MaxBytes = 2
    MaxFiles = 2
    MaxVersion = 1
    MaxOrphans = 1
    None = None
    Raised = Raised
    Unchecked = Unchecked
    Damaged = Damaged
INVARIANTS
    EntriesBounded
PROPERTIES
    ImplementsFreshParse
    CallEnds
CHECK_DEADLOCK FALSE
