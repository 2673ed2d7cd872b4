SPECIFICATION Spec
CONSTANTS
    Depth = 2
    Registered <- MCRegistered
    Methods <- MCMethods
    Patterns <- MCPatterns
    RoutePrefixes <- SomeRoutePrefix
    MountPrefixes <- MCMountPrefixes
    Paths <- BelowRoute
    Middlewares <- NoMiddleware
    MaxUses = 0
    Stems <- NoStems
    MaxCalls = 3
INVARIANTS
    NestedDispatch
