CONSTANTS
    c1 = c1  c2 = c2  p1 = p1  p2 = p2  p3 = p3  f1 = f1  f2 = f2
    Clients <- MCClients1
    Callers <- MCCallers3
    Flakes  <- MCFlakes2
    Remote  <- MCRemote1
    MayFail <- MCAllFail
SYMMETRY MCSymmetry
SPECIFICATION Spec
INVARIANTS
    NoUseAfterClose
    OneOperationPerClient
    ReverseDependencyOrder
    OpenFlakesTracked
    CanceledClientIsClosed
    CancellationHeard
PROPERTIES
    ImplementsSerialClient
    ReturnedValueClosable
