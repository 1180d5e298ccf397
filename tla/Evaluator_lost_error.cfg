SPECIFICATION Spec
CONSTANTS
    Evaluators = {e1}
    Values = {v1, v2, v3}
    Unowned = Unowned
SYMMETRY Symmetry
INVARIANT NixErrorIsReported
