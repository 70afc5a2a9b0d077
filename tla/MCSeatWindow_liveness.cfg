SPECIFICATION FairSpec
CONSTANTS
    Seats = {Ash}
    Holes = 2
    Windows <- MCWindows
    AttemptIds = {}
    MaxAttempts = 1
    MaxJoins = 1
    BadReplies <- NoBadReplies
    NoWindow = NoWindow
    NoAction = NoAction
    NoAttempt = NoAttempt
INVARIANTS
    InstalledWasAccepted
PROPERTIES
    HoleResolves
    EpisodeEnds
    ImplementsMatch
