SPECIFICATION Spec
CONSTANTS
    Backend = "mysql"
    p1 = p1
    p2 = p2
    NoPlayer = NoPlayer
    Players = {p1, p2}
    Windows <- TwoWindows
    Boards <- NewYearBoards
    BoardAt <- AcrossNewYear
    WriteTargets <- WeekOrBoth
    App <- Parking
    Board <- Endless
    Zone <- NoZone
    Channel <- TikTok
    DayAt <- NewYear
    Scores = {1, 2}
    Extras = {""}
    w1 = w1
    w2 = w2
    Writers = {w1, w2}
    Readers = {}
    TopNDefault = 1
    TopNMax = 1
    Askers = {NoPlayer}
    AskedTopN = {1}
    PageNums = {}
    PageSizes = {}
    MaxNow = 2
    MaxWrites = 2
    MaxReads = 0
    MaxFaults = 1
    MaxRestarts = 1
INVARIANTS
    StoredBeforeReply
    BoardsArePeriods
PROPERTIES
    KeepsPromise
SYMMETRY Interchangeable
CHECK_DEADLOCK FALSE
