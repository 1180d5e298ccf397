SPECIFICATION Spec
CONSTANT MaxOverrides = 2
INVARIANT UnavailableFingerprintIsEmpty
CHECK_DEADLOCK FALSE
