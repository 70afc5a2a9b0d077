SPECIFICATION SessionSpec
CONSTANTS
    Own = Ash
    MaxFaults = 1
    MaxFrames = 1
    Seats = {Ash}
    Holes = 1
    Windows <- MCWindows
    AttemptIds = {a1}
    MaxAttempts = 1
    MaxJoins = 1
    BadReplies <- NoBadReplies
    NoWindow = NoWindow
    NoAction = NoAction
    NoAttempt = NoAttempt
INVARIANTS
    SessionTypeOK
    RefusedOnlyWhenLate
    GivesUpOnlyOnFault
    StoppedIsLast
    StoppedMeansJoined
    EvidenceComplete
