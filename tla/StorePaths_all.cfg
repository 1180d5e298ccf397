SPECIFICATION Spec
CONSTANT MaxPaths = 5
INVARIANTS
    TypeOK
    AllOrNothing
    ReadsLiveObjects
    AtMostOneCloneRemains
CHECK_DEADLOCK FALSE
