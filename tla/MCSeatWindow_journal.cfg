SPECIFICATION Spec
CONSTANTS
    Seats = {Ash}
    Holes = 1
    Windows <- MCWindows
    AttemptIds = {a1, a2}
    MaxAttempts = 4
    MaxJoins = 1
    BadReplies <- MalformedOnly
    NoWindow = NoWindow
    NoAction = NoAction
    NoAttempt = NoAttempt
INVARIANTS
    AcceptedControlInstalled
