CONSTANTS
    c1 = c1  c2 = c2  p1 = p1  p2 = p2  p3 = p3  f1 = f1  f2 = f2
    Clients <- MCClients2
    Callers <- MCCallers1
    Flakes  <- MCFlakes1
    Remote  <- MCRemote1
    MayFail <- MCAllFail
SPECIFICATION FairSpec
INVARIANTS
    NoSpuriousInterrupt
PROPERTIES
    CancelReturns
