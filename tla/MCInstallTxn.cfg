CONSTANTS
    Refs = {r1, r2}
    None = None
    MaxTxn = 4
    MaxSnaps = 2
    Retention = 1
    InboxCleans = FALSE
    Tampering = FALSE
SPECIFICATION Spec
SYMMETRY Symmetry
INVARIANTS
    NeverStale
    ClosedIsClean
    PairingSound
    TargetSurvives
    RunsWholeReleases
PROPERTIES
    AbandonRestores
    RollbackReturns
    ImplementsInstall
CHECK_DEADLOCK FALSE
