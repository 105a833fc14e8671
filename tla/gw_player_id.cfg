SPECIFICATION Spec
CONSTANTS
    Devices = {"d1", "d2"}
    Homes <- TwoPeople
    Forms <- PlayerIdForms
    Specs <- SomeSpecs
    Asked <- SomeWindows
    DefaultApp <- Parking
    DefaultChannel <- TikTok
    TTL = 1
    MaxNow = 1
    MaxRequests = 4
INVARIANTS
    RowsAreMeant
CHECK_DEADLOCK FALSE
