SPECIFICATION FairSpec
CONSTANTS
    Shims = {s1}
    MaxVersion = 2
    Schema <- SchemaDef
    Faults = TRUE
INVARIANTS
    TypeOK
    LiveWorks
    FallbackKept
    CrashConsistent
PROPERTIES
    ImplementsPlatform
    MarkersResolved
