SPECIFICATION Spec
CONSTANTS
    Script <- MCScript
    Releases <- MCReleases
    SeedData <- MCSeedData
    OwnApps <- MCOwnApps
    MaxCrashes = 4
INVARIANTS
    RecordsTrue
    ServedSchemaComplete
    SeededWhole
PROPERTIES
    FailsWhereCutOff
    StartServes
