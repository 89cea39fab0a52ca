SPECIFICATION FairSpec
CONSTANTS
    Services = {"db", "web"}
    Follows = {"db"}
    Refs = {"db", "web"}
    RefOf <- MCRefOf
    Shared = {"web"}
    Strategy = "rollback_to_previous"
    MaxImages = 2
    MaxFaults = 1
PROPERTIES StartsAsDecided FailedRunIsUndone UpdatesArrive
CHECK_DEADLOCK FALSE
