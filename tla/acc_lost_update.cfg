SPECIFICATION Spec
CONSTANTS
    Backends = {"mysql"}
    c1 = c1
    c2 = c2
    k1 = k1
    Keys = {k1}
    Clients = {c1, c2}
    Names = {"", "ann", "bob", "eve"}
    Avatars = {"", "pic"}
    Clicks = {"", "ad1", "ad2"}
    RegisterFields <- SomeRegistrations
    ExtraFields <- SomeExtras
    UpdateFields <- OneEach
    TTL = 1
    MaxNow = 0
    MaxRequests = 5
    MaxFaults = 0
    MaxRestarts = 0
PROPERTIES
    EmptyFieldsStay
CHECK_DEADLOCK FALSE
