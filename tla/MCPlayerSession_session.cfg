SPECIFICATION FairSession
CONSTANTS
    Own = Ash
    MaxFaults = 10
    MaxFrames = 2
    Seats = {Ash}
    Holes = 1
    Windows <- MCWindows
    AttemptIds = {}
    MaxAttempts = 1
    MaxJoins = 1
    BadReplies <- NoBadReplies
    NoWindow = NoWindow
    NoAction = NoAction
    NoAttempt = NoAttempt
PROPERTIES
    SessionEnds
    ImplementsSeatWindow
