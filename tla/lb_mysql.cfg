SPECIFICATION Spec
CONSTANTS
    Backend = "mysql"
    p1 = p1
    p2 = p2
    NoPlayer = NoPlayer
    Players = {p1, p2}
    Windows <- OneWindow
    Boards = {"week"}
    BoardAt <- WeekOnly
    WriteTargets <- WeekTargets
    Scores = {1, 2}
    Extras = {"", "nick"}
    w1 = w1
    w2 = w2
    r1 = r1
    Writers = {w1, w2}
    Readers = {r1}
    TopNDefault = 2
    TopNMax = 2
    Askers = {p1, p2, NoPlayer}
    AskedTopN = {}
    PageNums = {0}
    PageSizes = {1}
    MaxNow = 0
    MaxWrites = 2
    MaxReads = 1
    MaxFaults = 1
    MaxRestarts = 1
INVARIANTS
    ReportedBestIsReal
    ScoreIsBestSubmission
    CachedListIsCurrent
    ListsNeverAhead
    SelfNotBehindList
    RankWithinBoard
PROPERTIES
    ExtraNeverWiped
    KeepsPromise
SYMMETRY Interchangeable
CHECK_DEADLOCK FALSE
