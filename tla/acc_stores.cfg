SPECIFICATION Spec
CONSTANTS
    Backends = {"memory", "mysql"}
    c1 = c1
    c2 = c2
    k1 = k1
    Keys = {k1}
    Clients = {c1, c2}
    Names = {"", "ann", "bob", "eve"}
    Avatars = {"", "pic"}
    Clicks = {"", "ad1", "ad2"}
    RegisterFields <- SomeRegistrations
    ExtraFields <- SomeExtras
    UpdateFields <- OneEach
    TTL = 1
    MaxNow = 1
    MaxRequests = 4
    MaxFaults = 1
    MaxRestarts = 1
INVARIANTS
    TypeOK
    OneIsNew
    AnswersAgree
    SessionNamesAccount
PROPERTIES
    FirstTouchKept
    MemoryFieldsStay
    KeepsFirstTouch
SYMMETRY Interchangeable
CHECK_DEADLOCK FALSE
