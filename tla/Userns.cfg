SPECIFICATION FairSpec
CONSTANTS
    Vols <- MCVols
    Binds <- MCBinds
    New = "new-vol"
    LateProjects = FALSE
    MaxFaults = 2
INVARIANTS RunsOnItsData MarkerCovers NothingLost ShiftsKeepModes
PROPERTIES MarkerClears
CHECK_DEADLOCK FALSE
