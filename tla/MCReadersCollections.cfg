SPECIFICATION Spec
CONSTANTS
    None = None
    Fragile = {"gds", "def"}
    MaxFaults = 1
    MaxUndecoded = 2
    PinLayers = {1}
    GdsMaxCells = 2
    GdsMaxElements = 3
    GdsMaxItems = 1
    GdsLibraries = {}
    SdcScripts <- MCSdcCollections
    SdcMatches <- MCSdcMatches
    SdcElsewhere = "a2"
    UpfScripts = {}
    UpfPins = {"v/a"}
    UpfRooted <- MCUpfRooted
    UpfComponent = None
    UpfMaxObjects = 7
    CdlFiles = {}
    CdlCaps <- MCCdlCaps
    CdlMaxNets = 3
    DefDesigns = {}
    DefMaxEntries = 2
CHECK_DEADLOCK FALSE
INVARIANTS NothingInvented
