------------------------- MODULE MCClientMiddleware -------------------------
(***************************************************************************)
(* Instances of ClientMiddleware for TLC.                                  *)
(***************************************************************************)
EXTENDS ClientMiddleware, TLC

CONSTANTS c1, c2, p1, p2, p3, f1, f2

MCClients1 == {c1}
MCClients2 == {c1, c2}
MCCallers1 == {p1}
MCCallers2 == {p1, p2}
MCCallers3 == {p1, p2, p3}
MCFlakes1  == {f1}
MCFlakes2  == {f1, f2}
MCNone     == {}
MCRemote1  == {c1}
MCAllFail  == {"nixcontext.New", "StoreInterrupt"}

\* Callers and Flakes are interchangeable; sound for the safety runs only.
MCSymmetry == Permutations(Callers) \cup Permutations(Flakes)
=============================================================================
