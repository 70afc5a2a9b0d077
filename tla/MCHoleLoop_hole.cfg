SPECIFICATION Spec
CONSTANTS
    Holes = 1
    ParTests = 1
    Keys = {a, b}
    Submissions <- TwoTests
    RefAnswers <- MatchMismatchTimeout
    Budget = 0
    Reserve = 0
    Spacing = 0
    ConnectWait = 0
    ReportTime = 0
    HoleWait = 0
    RetryWait = 0
    MinWait = 0
    BatchTime = 0
INVARIANTS
    FiredOncePerKey
    ScoresFollowTallies
