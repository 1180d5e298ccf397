SPECIFICATION Spec
CONSTANTS
    Word = 16
    NixValues <- MCNixValues
    GoTypes <- MCGoTypes
    GoInputs <- MCGoInputs
    MaxCalls = 1
    InputNames = {"in1"}
    NodeNames = {"n1"}
    HashBytes = 5
    ByteValues = {0}
CHECK_DEADLOCK FALSE
INVARIANT
    LockNodeKept
