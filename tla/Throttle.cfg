SPECIFICATION FairSpec
CONSTANTS
    q1 = q1
    q2 = q2
    q3 = q3
    Requests <- ThreeRequests
    Limit = 1
    BacklogLimit = 1
INVARIANTS
    TokensConserved
    WaitingFitsBacklog
    ReleaseNeverBlocks
PROPERTIES
    RefusedOnlyWhenFull
    BoundedAdmission
    EveryWaitEnds
    EveryRequestLeaves
