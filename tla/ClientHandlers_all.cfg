SPECIFICATION Spec
CONSTANTS
    d1 = d1  d2 = d2  d3 = d3
    Objects <- MCObjects
    MaxItems = 2
    MaxPath = 2
    MaxDepth = 5
    MaxHeld = 2
    MaxLost = 1
    MaxFD = 4
    MaxInt32 = 3
    Descriptions <- MCDescriptions
    Closed = Closed
    MaxArgs = 3
SYMMETRY MCSymmetry
INVARIANTS
    TypeOK
    OneOwner
    LentValuesLive
    OthersUntouched
    NoDuplicateLeft
    ServesWhatWasAsked
    ArgumentsLive
    FreedOnce
    OnlyKnownLeaks
