CONSTANTS
    PaletteSize = 2
    MaxClusters = 3
    MaxJobs = 1
    MaxDrivers = 1
    Points = {p1, p2}
    Null = Null
    MaxPoints = 2
    Values = {"True", "False", "entered", "exited", "dwell", "true"}
    MaxEvents = 2
SPECIFICATION MCSpec
\* A page that has drawn stays as it is.
CHECK_DEADLOCK FALSE
INVARIANTS
    TypeOK
    ColorsWithinPalette
    ColorsIdentifyClusters
    KnownEventsDrawn
