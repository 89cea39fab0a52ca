SPECIFICATION FairSpec
CONSTANTS
    MaxStages = 3
    MaxFaults = 3
INVARIANTS NeverSwitchedAgain SaysWhatHappened
PROPERTIES ImplementsPromotion RetiredSlotGoes
CHECK_DEADLOCK FALSE
