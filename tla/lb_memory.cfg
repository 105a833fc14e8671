SPECIFICATION Spec
CONSTANTS
    Backend = "memory"
    p1 = p1
    p2 = p2
    NoPlayer = NoPlayer
    Players = {p1, p2}
    Windows <- OneWindow
    Boards = {"week"}
    BoardAt <- WeekOnly
    WriteTargets <- WeekTargets
    Scores = {1, 2}
    Extras = {"", "nick"}
    w1 = w1
    w2 = w2
    r1 = r1
    Writers = {w1, w2}
    Readers = {r1}
    TopNDefault = 2
    TopNMax = 2
    Askers = {p1, p2}
    AskedTopN = {0, 1}
    PageNums = {}
    PageSizes = {}
    MaxNow = 1
    MaxWrites = 2
    MaxReads = 2
    MaxFaults = 0
    MaxRestarts = 0
INVARIANTS
    TypeOK
    ReportedBestIsReal
    RowIsASubmission
    CachedListIsCurrent
    ListsNeverAhead
    SelfNotBehindList
    RankWithinBoard
    RankAgreesWithList
PROPERTIES
    KeepsPromise
SYMMETRY Interchangeable
CHECK_DEADLOCK FALSE
