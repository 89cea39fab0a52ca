CONSTANTS
    Refs = {r1, r2}
    None = None
    MaxTxn = 2
    MaxSnaps = 1
    Retention = 2
    InboxCleans = TRUE
    Tampering = FALSE
SPECIFICATION Spec
PROPERTIES
    ResumesCodeInPlace
CHECK_DEADLOCK FALSE
