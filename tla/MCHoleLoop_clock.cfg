SPECIFICATION FairSpec
CONSTANTS
    Holes = 2
    ParTests = 0
    Keys = {a}
    Submissions <- OneTest
    RefAnswers <- Matches
    Budget = 6
    Reserve = 5
    Spacing = 1
    ConnectWait = 1
    ReportTime = 1
    HoleWait = 3
    RetryWait = 1
    MinWait = 1
    BatchTime = 1
INVARIANTS
    BudgetKept
    CompleteWhenAllPlayed
    DocumentAgreesWithReplay
PROPERTIES
    ImplementsMatch
    EpisodeEnds
