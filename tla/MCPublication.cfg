SPECIFICATION FairSpec
CONSTANTS
    Spectators = {s1}
    Holes = 2
    HttpAttempts = 2
    MaxRuns = 2
INVARIANTS
    ZeroMeansPublished
PROPERTIES
    ImplementsArchive
    EvidenceKept
    ReadersHearDone
    ProcessEnds
