SPECIFICATION Spec
CONSTANTS
    Projects <- MCProjects
    CompName = {"m", "n"}
    PackageView = {"csv.k"}
    SideView = {}
    RtlView = {"rtl.a"}
    FoldedKey <- MCPlainKey
    PGPort = {"q"}
    RtlPowerPins = "optional"
    NoContract = NoContract
    ContractConfigured = TRUE
    MaxEdits = 2
INVARIANTS CleanMeansAgreement AbsenceIsReal FreezeIsClean FrozenNamesHold
