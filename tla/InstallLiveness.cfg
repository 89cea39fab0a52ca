CONSTANTS
    Refs = {r1, r2}
    None = None
    MaxTxn = 4
    MaxSnaps = 1
    Retention = 1
    InboxCleans = TRUE
    Tampering = TRUE
SPECIFICATION FairSpec
ACTION_CONSTRAINT LivenessBounds
PROPERTIES
    InstallCloses
CHECK_DEADLOCK FALSE
