SPECIFICATION Spec
CONSTANTS
    r1 = r1
    r2 = r2
    s1 = s1
    s2 = s2
    Nil = Nil
    Registrars <- TwoRegistrars
    Servers <- TwoServers
    Patterns = {"/p", "/{a}/{a}"}
    Unparsable = {"/{a}/{a}"}
    MountPaths = {"/m/*", "/n/*"}
    Routers = {"/m/*"}
    Fallbacks = {"custom"}
    MaxRoutes = 3
    MaxUses = 1
SYMMETRY Symmetric
INVARIANTS
    MountedOnce
    AttachedNoEarlier
    StaleOnlyAfterOverlap
PROPERTIES
    OnlyALateStoreMakesStale
    AnswersFromShown
