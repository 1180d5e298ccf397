SPECIFICATION Spec
CONSTANT MaxOverrides = 2
INVARIANTS
    TypeOK
    OneFreePerObject
    OnlyTheFlakeRemains
    LockedWithAllOptions
CHECK_DEADLOCK FALSE
