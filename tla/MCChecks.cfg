SPECIFICATION Spec
CONSTANTS
    None = None
    ViewOrder <- MCViewOrder
    ViewKind <- MCViewKind
    BaselineView = "liberty"
    Authority <- MCAuthority
    ScalarVectorEquivalent = FALSE
    RegisterKey <- MCRegisterKey
    FieldKey <- MCFieldKey
    AccessKey <- MCAccessKey
    NameRank <- MCNameRank
    Selects <- MCSelects
    UnsafePattern <- MCUnsafePattern
    NoConnect = {"NC"}
    AllowMultiBond = FALSE
    MaxBooleanInputs = 2
    NodeRank <- MCNodeRank
    SignalGlobs <- MCSignalGlobs
    MaxSelectedBits = 3
    MaxPairSearches = 3
    MaxSearchStates = 7
    EntryPoints <- MCEntryPoints
    Checkers <- MCCheckers
    Sources <- MCSources
    MaxEdits <- MCMaxEdits
    MaxHosting <- MCMaxHosting
INVARIANTS
    CleanMeansSame
    AccusationsHold
    LossNeverAccuses
    FreshContractOfKnownAgrees
    CheckersAnswer
PROPERTIES
    SearchEnds
CHECK_DEADLOCK FALSE
