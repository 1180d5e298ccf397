SPECIFICATION Spec
CONSTANTS
    Evaluators = {e1, e2}
    Values = {v1, v2, v3}
    Unowned = Unowned
SYMMETRY Symmetry
INVARIANTS
    RawCallsUseLiveHandles
    NoErrorLeftBehind
    NoValueLeaks
PROPERTIES
    ImplementsValueLedger
