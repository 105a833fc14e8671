SPECIFICATION Spec
CONSTANTS
    Devices = {"d1", "d2"}
    Homes <- TwoPeople
    Forms <- CarefulForms
    Specs <- SomeSpecs
    Asked <- SomeWindows
    DefaultApp <- Parking
    DefaultChannel <- TikTok
    TTL = 1
    MaxNow = 1
    MaxRequests = 4
INVARIANTS
    SessionIsOwn
    RowsAreMeant
PROPERTIES
    DefaultsMeet
CHECK_DEADLOCK FALSE
