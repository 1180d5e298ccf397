SPECIFICATION Spec
CONSTANTS
    Word = 16
    NixValues <- MCNixValues
    GoTypes <- MCGoTypes
    GoInputs <- MCGoInputs
    MaxCalls = 30
    InputNames = {"in1", "in2"}
    NodeNames = {"n1", "n2"}
    HashBytes = 10
    ByteValues = {0, 181}
CHECK_DEADLOCK FALSE
INVARIANTS
    DecodesWhatFits
    FailureIsClean
    ArgumentsRoundTrip
    LockGraphKept
    DigitsAreTheHash
