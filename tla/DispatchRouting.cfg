SPECIFICATION Spec
CONSTANTS
    Methods <- MCMethods
    Patterns <- RoutingPatterns
    MuxPrefixes <- MCRoot
    FallbackPrefixes <- NestedPrefixes
    Paths <- RoutingPaths
    Fallbacks = 2
    MaxRoutes = 3
    NoSnapshot = NoSnapshot
INVARIANTS
    DispatchesToRankedWinner
    AllowIsExactlyWhatWouldBeServed
    ParametersRebuildThePath
    ResolvePredictsServe
    NearestFallbackAnswers
