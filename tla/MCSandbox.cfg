SPECIFICATION FairSpec
CONSTANTS
    Calls = 2
    MaxLines = 2
    MaxNoise = 1
INVARIANTS
    VerdictsTrue
    NothingLeft
PROPERTIES
    RunEnds
