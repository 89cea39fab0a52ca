CONSTANTS
    Vendors = 1
    Distros = 1
    Runtimes = {}
    NProjects = 3
    Cves = {"high", "medium"}
    Finding <- MCFinding
    Policy <- MCPolicy
    Jobs = {"scan"}
    Overlap = FALSE
    Incomplete = FALSE
    MaxChanges = 2
    MaxFaults = 1
SPECIFICATION FairSpec
INVARIANT BlastRadius
PROPERTIES HoldStands KevActs
