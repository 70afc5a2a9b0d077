SPECIFICATION Spec

CONSTANTS
    MaxDepth = 2
    Exact = 4
    Largest = 10
    Spelling <- MCSpelling
    MaxTests = 3
    MaxBytes = 5
    HistoryHoles = 2
    HistoryChars = 6
    ValuePool <- MCValues
    TextPool <- MCTexts
    ReplyPool <- MCReplies
    MatchPool <- MCMatches
    EntryPool <- MCEntries
    ConfigPool <- MCConfigs

INVARIANTS
    EqualIsEquality
    FingerprintAgrees
    SpanIsTheObject
    WireIsAccepted
    BoundWithinTheWindow
    KillerIsDecisive
    HistoryIsRecent
    ConfigRoundTrips
