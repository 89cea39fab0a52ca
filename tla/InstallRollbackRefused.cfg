CONSTANTS
    Refs = {r1}
    None = None
    MaxTxn = 3
    MaxSnaps = 1
    Retention = 1
    InboxCleans = FALSE
    Tampering = FALSE
SPECIFICATION Spec
INVARIANTS
    RollbackResumes
CHECK_DEADLOCK FALSE
