CONSTANTS
    NClusters <- MCNClusters
    MaxTours <- MCMaxTours
    MaxPoints <- MCMaxPoints
    PaletteSize <- MCPaletteSize
    MaxDraws <- MCMaxDraws
SPECIFICATION Spec
INVARIANTS
    TypeOK
    NoStalePrimitives
    LegendWired
    ColorsWithinPalette
    DistinctTourColors
