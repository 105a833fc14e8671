SPECIFICATION FairSpec
CONSTANTS
    Environments <- AllEnvironments
    Right <- Secrets
    Codes <- AllCodes
    Templates <- AllRequests
    Web = {"r1", "r2"}
    Calls = {"g1"}
    MaxStarts = 2
    MaxRequests = 2
    MaxCalls = 1
    MaxFaults = 1
INVARIANTS
    TypeOK
    CallsFindStoreOpen
    HttpLostOnlyAfterTimeout
    TikTokIdsComeFromPlatform
    LoginOutlivesProfileFailure
PROPERTIES
    OwnKeyIsAccepted
    OnlyCallsHoldTheEnd
CHECK_DEADLOCK FALSE
