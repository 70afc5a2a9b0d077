SPECIFICATION Spec
CONSTANTS
    Seats = {Ash, Basil}
    Holes = 1
    Windows <- MCWindows
    AttemptIds = {}
    MaxAttempts = 1
    MaxJoins = 1
    BadReplies <- NoBadReplies
    NoWindow = NoWindow
    NoAction = NoAction
    NoAttempt = NoAttempt
SYMMETRY SeatSymmetry
INVARIANTS
    WindowAlwaysIssued
    FallbackAfterRetry
    PublishedJoined
