SPECIFICATION FairSpec
CONSTANTS
    Statuses = {101, 103, 200, 404}
    MaxCalls = 4
INVARIANTS
    OneFinalStatus
    LogTellsTheStatus
    BytesAddUp
    FailuresReachTheClient
PROPERTIES
    EveryResponseIsLogged
CHECK_DEADLOCK FALSE
