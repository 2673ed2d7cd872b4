SPECIFICATION Spec
CONSTANTS
    Depth = 2
    Registered <- HeadAndGet
    Methods <- HeadAndGet
    Patterns <- RewrittenPatterns
    RoutePrefixes <- NoRoutePrefix
    MountPrefixes <- MCMountPrefixes
    Paths <- RewrittenPaths
    Middlewares <- PathMiddlewareNames
    MaxUses = 2
    Stems <- MCStems
    MaxCalls = 3
INVARIANTS
    NestedDispatch
    SlashesStayStripped
    RedirectedOnce
