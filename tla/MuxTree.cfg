SPECIFICATION Spec
CONSTANTS
    Routers = 2
    Methods = {"GET"}
    RegisteredMethods = {"GET", "POST"}
    Patterns <- MCPatterns
    RoutePrefixes <- MCRoutePrefixes
    MountPrefixes <- MCMountPrefixes
    Parts <- MCParts
    Star <- MCStar
    Paths <- MCPaths
    MaxMuxes = 4
    MaxRoutes = 2
    MaxMiddlewares = 2
INVARIANTS
    TypeOK
    RoutesShareTheirMiddlewares
    WalkListsWhatRuns
CHECK_DEADLOCK FALSE
