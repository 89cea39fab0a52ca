SPECIFICATION FairSpec
CONSTANTS
    Policies <- MCPolicies
    MaxFaults = 3
INVARIANTS
    PoliciesKept
PROPERTIES
    HeldStaysDown
    QuarantineHolds
    MarkerRestarts
