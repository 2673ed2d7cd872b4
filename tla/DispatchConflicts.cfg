SPECIFICATION Spec
CONSTANTS
    Methods <- OneMethod
    Patterns <- ConflictPatterns
    MuxPrefixes <- ParameterPrefixes
    FallbackPrefixes <- NoPrefix
    Paths <- ConflictPaths
    Fallbacks = 0
    MaxRoutes = 3
    NoSnapshot = NoSnapshot
INVARIANTS
    TypeOK
    DispatchesToRankedWinner
    CompatibilityAgreesWithoutConflicts
    DescribedPathsAreRouted
