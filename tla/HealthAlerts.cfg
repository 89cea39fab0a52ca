CONSTANTS
    Messages = {"slow", "down"}
    Threshold = 2
    Kills = {"down"}
    MaxChanges = 6
    MaxFaults = 3
SPECIFICATION FairSpec
INVARIANT AlertedIsTold
PROPERTY ReasonIsTold
\* A paused project whose operator does nothing more is left alone.
CHECK_DEADLOCK FALSE
