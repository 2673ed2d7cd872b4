SPECIFICATION Spec
CONSTANTS
    Depth = 3
    Registered <- MCRegistered
    Methods <- MCMethods
    Patterns <- MCPatterns
    RoutePrefixes <- NoRoutePrefix
    MountPrefixes <- MCMountPrefixes
    Paths <- MCPaths
    Middlewares <- NoMiddleware
    MaxUses = 0
    Stems <- NoStems
    MaxCalls = 4
INVARIANTS
    NestedDispatch
    NearestMuxAnswers
    ContextSpansTheMounts
