SPECIFICATION Spec
CONSTANTS
    Seats = {Ash}
    Holes = 1
    Windows <- MCWindows
    AttemptIds = {a1, a2}
    MaxAttempts = 1
    MaxJoins = 2
    BadReplies <- MalformedOrWrong
    NoWindow = NoWindow
    NoAction = NoAction
    NoAttempt = NoAttempt
SYMMETRY AttemptSymmetry
INVARIANTS
    ActiveWindowPending
PROPERTIES
    EvidenceMonotone
