CONSTANTS
    c1 = c1  c2 = c2  p1 = p1  p2 = p2  p3 = p3  f1 = f1  f2 = f2
    Clients <- MCClients2
    Callers <- MCCallers2
    Flakes  <- MCNone
    Remote  <- MCNone
    MayFail <- MCNone
SPECIFICATION Spec
INVARIANTS
    NoSpuriousInterrupt
